------------------------------- MODULE WebSession -------------------------------
(***************************************************************************)
(* The session of the web app: the auth store of every open tab, the        *)
(* bootstrap of a loaded page, the refresh of the access token that the     *)
(* callers in a tab share, and the socket of the notifications.  The tabs   *)
(* share what the browser keeps: the refresh cookie, which no script reads, *)
(* and the flag in localStorage.                                            *)
(*                                                                          *)
(* Of the server's endpoints only the login is in this repository; the      *)
(* others (nimoh_base) are external: a refresh replaces the cookie and the  *)
(* one it replaces is refused from then on.  A request that is answered     *)
(* with 401 is any request that carries an access token: how old that is is *)
(* a matter of time.                                                        *)
(***************************************************************************)
EXTENDS Naturals, FiniteSets

CONSTANTS
    Users,      \* the accounts that log in to this browser
    Tabs,       \* its tabs
    MaxGen,     \* a bound: how many refresh tokens the server issues
    MaxLoads,   \* a bound: how often pages are loaded again
    None

ASSUME BoundsAssumption == MaxGen \in Nat /\ MaxLoads \in Nat
ASSUME NoneAssumption == None \notin Users

VARIABLES
    tab,        \* [Tabs -> Tab]
    cookie,     \* the refresh cookie, or None
    flag,       \* tast:sessionActive
    server,     \* the refresh tokens it takes, and how many it has issued
    past        \* history the properties speak of, and the bound on loads

vars == <<tab, cookie, flag, server, past>>

Tokens == [user : Users, gen : 1..MaxGen]
Owner  == Users \cup {None}

\* A refresh on its way: the cookie it presented, the one it was given, and what the
\* store was when it was asked (wasAuthenticated, and whose session it was).
Refresh == [st : {"none", "sent", "granted", "denied"}, with : Tokens \cup {None},
            new : Tokens \cup {None}, was : BOOLEAN, by : Owner]

\* The call of login, logout or the social callback, which makes two: "social" exchanges the
\* one-time token, "me" asks for the profile. Waiting: for the refresh; again: sent once more
\* after it. bearer: whose token a call for the profile, or one sent again, carries.
Ask == [kind : {"none", "login", "logout", "social", "me"},
        st : {"sent", "granted", "denied", "waiting", "again"},
        who : Owner, bearer : Owner, new : Tokens \cup {None}]

\* of: whose token the socket was opened with.
Socket == [st : {"off", "skipped", "on", "refused", "last", "dead"}, of : Owner]

\* page: SocialAuthCallbackPage stands alone, without the header and its socket.
Tab == [page : {"app", "callback"}, token : Owner, user : Owner, auth : BOOLEAN, loading : BOOLEAN,
        boot : {"refreshing", "profile", "csrf", "done"}, bootToken : Owner,
        request : BOOLEAN,      \* a request of a page is unanswered
        refresh : Refresh, ask : Ask, socket : Socket]

NoRefresh == [st |-> "none", with |-> None, new |-> None, was |-> FALSE, by |-> None]
NoAsk     == [kind |-> "none", st |-> "sent", who |-> None, bearer |-> None, new |-> None]
NoSocket  == [st |-> "off", of |-> None]

Loaded == [page |-> "app", token |-> None, user |-> None, auth |-> FALSE, loading |-> FALSE, boot |-> "csrf",
           bootToken |-> None, request |-> FALSE, refresh |-> NoRefresh, ask |-> NoAsk,
           socket |-> NoSocket]

Init ==
    /\ tab = [t \in Tabs |-> Loaded]
    /\ cookie = None
    /\ flag = FALSE
    /\ server = [live |-> {}, gen |-> 0]
    /\ past = [loads |-> 0, crossed |-> {}, revived |-> {}, mixed |-> {}]

-----------------------------------------------------------------------------
(* The parts of a step *)

\* AuthGate mounts the router while nothing is loading; the header listens if the user is
\* signed in.
Listens(s) == s.page = "app" /\ s.auth /\ ~s.loading

\* useWebSocket reads the token when it is mounted, or enabled, and not again. Without a
\* token it does not connect.
useWebSocket(s) ==
    IF s.token = None THEN [st |-> "skipped", of |-> None] ELSE [st |-> "on", of |-> s.token]

\* Mutant: the socket of the session before is left open.
PutLeaks(t, new) ==
    tab' = [tab EXCEPT ![t] =
        IF Listens(new) /\ ~Listens(tab[t]) THEN [new EXCEPT !.socket = useWebSocket(new)]
        ELSE new]

\* The new state of a tab, with the effects of the components it shows.
Put(t, new) ==
    tab' = [tab EXCEPT ![t] =
        CASE ~Listens(new)                    -> [new EXCEPT !.socket = NoSocket]
          [] Listens(new) /\ ~Listens(tab[t]) -> [new EXCEPT !.socket = useWebSocket(new)]
          [] OTHER                            -> new]

\* The store's own actions.
clearAuth(s) == [s EXCEPT !.token = None, !.user = None, !.auth = FALSE, !.loading = FALSE]
setAuth(s, token, user) ==
    [s EXCEPT !.token = token, !.user = user, !.auth = TRUE, !.loading = FALSE]

\* refreshToken of the store: whoever asks joins the refresh that is on its way.
refreshToken(s) ==
    IF s.refresh.st # "none" THEN s
    ELSE [s EXCEPT !.refresh = [NoRefresh EXCEPT !.st = "sent", !.with = cookie,
                                                 !.was = s.auth, !.by = s.user]]

Issued(u) == [user |-> u, gen |-> server.gen + 1]

Issue(u, spent) ==
    /\ server.gen < MaxGen
    /\ server' = [live |-> (server.live \ spent) \cup {Issued(u)}, gen |-> server.gen + 1]

-----------------------------------------------------------------------------
(* useInitAuth: the bootstrap of a page *)

\* Whatever was on its way is forgotten; without the flag the server is not asked.
Load(t, page) ==
    /\ past.loads < MaxLoads
    /\ past' = [past EXCEPT !.loads = @ + 1, !.crossed = @ \ {t}, !.revived = @ \ {t},
                            !.mixed = @ \ {t}]
    /\ tab' = [tab EXCEPT ![t] =
          IF flag
          THEN [Loaded EXCEPT !.page = page, !.loading = TRUE, !.boot = "refreshing",
                              !.refresh = [NoRefresh EXCEPT !.st = "sent", !.with = cookie]]
          ELSE [Loaded EXCEPT !.page = page]]
    /\ UNCHANGED <<cookie, flag, server>>

Restored(t) ==
    /\ tab[t].boot = "refreshing"
    /\ LET r == tab[t].refresh
           s == [tab[t] EXCEPT !.refresh = NoRefresh]
       IN \/ /\ r.st = "granted"
             /\ cookie' = r.new
             /\ Put(t, [s EXCEPT !.token = r.new.user, !.bootToken = r.new.user,
                                 !.boot = "profile"])
             /\ UNCHANGED flag
          \/ /\ r.st = "denied"
             /\ Put(t, [clearAuth(s) EXCEPT !.boot = "csrf"])
             /\ flag' = FALSE
             /\ UNCHANGED cookie
    /\ UNCHANGED <<server, past>>

\* The profile is that of the token in the store; a 401 is answered with a refresh first.
ProfileLoaded(t) ==
    /\ tab[t].boot = "profile" /\ tab[t].token # None /\ tab[t].refresh.st = "none"
    /\ Put(t, [setAuth(tab[t], tab[t].bootToken, tab[t].token) EXCEPT !.boot = "csrf"])
    /\ flag' = TRUE
    /\ past' = [past EXCEPT !.crossed = IF tab[t].bootToken # tab[t].token THEN @ \cup {t} ELSE @]
    /\ UNCHANGED <<cookie, server>>

ProfileExpired(t) ==
    /\ tab[t].boot = "profile" /\ tab[t].token # None /\ tab[t].refresh.st = "none"
    /\ Put(t, refreshToken(tab[t]))
    /\ UNCHANGED <<cookie, flag, server, past>>

\* Refused, or lost, or the refresh that it waited for failed.
ProfileFails(t) ==
    /\ tab[t].boot = "profile" /\ tab[t].refresh.st = "none"
    /\ Put(t, [clearAuth(tab[t]) EXCEPT !.boot = "csrf"])
    /\ flag' = FALSE
    /\ UNCHANGED <<cookie, server, past>>

\* With or without a CSRF token, the page is shown, whatever else is loading.
BootEnds(t) ==
    /\ tab[t].boot = "csrf"
    /\ Put(t, [tab[t] EXCEPT !.boot = "done", !.loading = FALSE])
    /\ UNCHANGED <<cookie, flag, server, past>>

-----------------------------------------------------------------------------
(* The refresh *)

\* A request of a page, and its answer.
Requests(t) ==
    /\ Listens(tab[t]) /\ ~tab[t].request
    /\ Put(t, [tab[t] EXCEPT !.request = TRUE])
    /\ UNCHANGED <<cookie, flag, server, past>>

Answered(t) ==
    /\ tab[t].request
    /\ Put(t, [tab[t] EXCEPT !.request = FALSE])
    /\ UNCHANGED <<cookie, flag, server, past>>

\* authErrorInterceptor.
authErrorInterceptor(t) ==
    /\ tab[t].request
    /\ Put(t, [refreshToken(tab[t]) EXCEPT !.request = FALSE])
    /\ UNCHANGED <<cookie, flag, server, past>>

RefreshServed(t) ==
    LET r == tab[t].refresh IN
    /\ r.st = "sent"
    /\ IF r.with \in server.live
       THEN /\ Issue(r.with.user, {r.with})
            /\ tab' = [tab EXCEPT ![t].refresh.st = "granted",
                                  ![t].refresh.new = Issued(r.with.user)]
       ELSE /\ tab' = [tab EXCEPT ![t].refresh.st = "denied"]
            /\ UNCHANGED server
    /\ UNCHANGED <<cookie, flag, past>>

\* The answer is lost, before or after the server has replaced the cookie.
RefreshLost(t) ==
    /\ tab[t].refresh.st \in {"sent", "granted"}
    /\ tab' = [tab EXCEPT ![t].refresh.st = "denied"]
    /\ UNCHANGED <<cookie, flag, server, past>>

\* Those who waited go on: the socket opens for the last time, a call is sent once more,
\* with the token that is in the store now, or fails.
Resumed(s, refreshed) ==
    [s EXCEPT
        !.socket = IF s.socket.st = "refused" /\ refreshed
                   THEN [st |-> "last", of |-> s.token] ELSE @,
        !.ask = IF s.ask.st # "waiting" THEN @
                ELSE IF refreshed THEN [@ EXCEPT !.st = "again", !.bearer = s.token]
                ELSE [@ EXCEPT !.st = "denied"]]

\* Mutant: without the guard, a refresh that was overtaken by a logout signs in again.
RefreshedUnguarded(r, s) == TRUE

\* A refresh that was asked while signed in is dropped if nobody is signed in any more;
\* whether it is still the same session is not asked.
Refreshed(r, s) == ~(r.was /\ ~s.auth)

RefreshSucceeds(t) ==
    LET r == tab[t].refresh
        s == [tab[t] EXCEPT !.refresh = NoRefresh]
        u == r.new.user
    IN
    /\ tab[t].boot # "refreshing" /\ r.st = "granted"
    /\ cookie' = r.new
    /\ IF Refreshed(r, s)
       THEN /\ Put(t, Resumed([s EXCEPT !.token = u, !.auth = TRUE], TRUE))
            /\ past' = [past EXCEPT
                  !.crossed = IF s.auth /\ (r.by # s.user \/ r.with.user # r.by) /\ u # s.user
                              THEN @ \cup {t} ELSE @,
                  !.revived = IF ~r.was THEN @ \cup {t} ELSE @]
       ELSE Put(t, Resumed(s, FALSE)) /\ UNCHANGED past
    /\ UNCHANGED <<flag, server>>

RefreshFails(t) ==
    /\ tab[t].boot # "refreshing" /\ tab[t].refresh.st = "denied"
    /\ Put(t, Resumed(clearAuth([tab[t] EXCEPT !.refresh = NoRefresh]), FALSE))
    /\ flag' = FALSE
    /\ UNCHANGED <<cookie, server, past>>

-----------------------------------------------------------------------------
(* Login, logout, the social callback *)

\* Only a page that is shown asks; one call at a time is a bound of this model.
Asks(t, page, kind, u, loading) ==
    /\ tab[t].page = page /\ ~tab[t].loading /\ tab[t].ask.kind = "none"
    /\ Put(t, [tab[t] EXCEPT !.loading = loading, !.ask = [NoAsk EXCEPT !.kind = kind, !.who = u]])
    /\ UNCHANGED <<cookie, flag, server, past>>

Login(t, u)  == ~tab[t].auth /\ Asks(t, "app", "login", u, TRUE)
Logout(t)    == tab[t].auth /\ Asks(t, "app", "logout", tab[t].user, TRUE)
Callback(t, u) == Asks(t, "callback", "social", u, FALSE)

\* The server begins a session, ends that of the cookie, answers, or refuses.
AskServed(t) ==
    LET a == tab[t].ask IN
    /\ a.kind # "none" /\ a.st \in {"sent", "again"}
    /\ \/ /\ a.kind \in {"login", "social"}
          /\ Issue(a.who, {})
          /\ tab' = [tab EXCEPT ![t].ask.st = "granted", ![t].ask.new = Issued(a.who)]
       \/ /\ a.kind = "logout"
          /\ server' = [server EXCEPT !.live = @ \ {cookie}]
          /\ tab' = [tab EXCEPT ![t].ask.st = "granted"]
       \/ /\ a.kind = "me"
          /\ tab' = [tab EXCEPT ![t].ask.st = "granted"]
          /\ UNCHANGED server
       \/ /\ tab' = [tab EXCEPT ![t].ask.st = "denied"]
          /\ UNCHANGED server
    /\ UNCHANGED <<cookie, flag, past>>

\* The token it carried has expired: one refresh. A login carries none.
AskUnauthorised(t) ==
    /\ tab[t].ask.kind \in {"logout", "social", "me"} /\ tab[t].ask.st = "sent"
    /\ Put(t, refreshToken([tab[t] EXCEPT !.ask.st = "waiting"]))
    /\ UNCHANGED <<cookie, flag, server, past>>

\* A new session, unless one that was revived meanwhile is shown already.
Forgiven(t, mixes) ==
    past' = [past EXCEPT !.crossed = IF Listens(tab[t]) THEN @ \cup {t} ELSE @ \ {t},
                         !.revived = @ \ {t},
                         !.mixed = IF mixes THEN @ \cup {t} ELSE @ \ {t}]

\* The answer names the token access_token; the store looks for access.
LoginSucceeds(t) ==
    LET a == tab[t].ask IN
    /\ a.kind = "login" /\ a.st = "granted"
    /\ cookie' = a.new
    /\ Put(t, [setAuth(tab[t], None, a.who) EXCEPT !.ask = NoAsk])
    /\ Forgiven(t, FALSE)
    /\ UNCHANGED <<flag, server>>

\* Mutant: an error leaves the form disabled.
LoginFailsLoading(t) ==
    /\ tab[t].ask.kind = "login" /\ tab[t].ask.st = "denied"
    /\ Put(t, [tab[t] EXCEPT !.ask = NoAsk])
    /\ UNCHANGED <<cookie, flag, server, past>>

LoginFails(t) ==
    /\ tab[t].ask.kind = "login" /\ tab[t].ask.st = "denied"
    /\ Put(t, [tab[t] EXCEPT !.loading = FALSE, !.ask = NoAsk])
    /\ UNCHANGED <<cookie, flag, server, past>>

\* Whether the server has logged out or not.
LogoutEnds(t) ==
    LET a == tab[t].ask IN
    /\ a.kind = "logout" /\ a.st \in {"granted", "denied"}
    /\ cookie' = IF a.st = "granted" THEN None ELSE cookie
    /\ Put(t, [clearAuth(tab[t]) EXCEPT !.ask = NoAsk])
    /\ flag' = FALSE
    /\ Forgiven(t, FALSE)
    /\ UNCHANGED server

\* The profile is asked for with the token of the exchange, unless the store has one:
\* authRequestInterceptor puts that in its place.  Whether the exchange of the one-time token
\* gives the browser a cookie is up to the server.
CallbackExchanged(t) ==
    LET a == tab[t].ask IN
    /\ a.kind = "social" /\ a.st = "granted"
    /\ cookie' \in {cookie, a.new}
    /\ Put(t, [tab[t] EXCEPT !.ask =
           [NoAsk EXCEPT !.kind = "me", !.who = a.who,
                         !.bearer = IF tab[t].token # None THEN tab[t].token ELSE a.who]])
    /\ UNCHANGED <<flag, server, past>>

\* Home, with the token of the exchange and the profile of the bearer; or the error page,
\* and from there home.
CallbackEnds(t) ==
    LET a == tab[t].ask IN
    /\ \/ /\ a.kind = "me" /\ a.st = "granted"
          /\ Put(t, [setAuth(tab[t], a.who, a.bearer) EXCEPT !.ask = NoAsk, !.page = "app"])
          /\ flag' = TRUE
          /\ Forgiven(t, a.bearer # a.who)
       \/ /\ a.kind \in {"social", "me"} /\ a.st = "denied"
          /\ Put(t, [tab[t] EXCEPT !.ask = NoAsk, !.page = "app"])
          /\ UNCHANGED <<flag, past>>
    /\ UNCHANGED <<cookie, server>>

-----------------------------------------------------------------------------
(* The socket of the notifications *)

\* The header is left, for a page without one, and comes back.
HeaderMounts(t) ==
    /\ Listens(tab[t])
    /\ tab' = [tab EXCEPT ![t].socket = useWebSocket(tab[t])]
    /\ UNCHANGED <<cookie, flag, server, past>>

\* A lost connection is opened again with the token it was first opened with, until the
\* server refuses the token (4001): then one refresh is asked for.
SocketRefused(t) ==
    /\ tab[t].socket.st = "on"
    /\ Put(t, refreshToken([tab[t] EXCEPT !.socket = [st |-> "refused", of |-> None]]))
    /\ UNCHANGED <<cookie, flag, server, past>>

\* After maxRetries, or without reconnect, the socket stays closed.
SocketGivenUp(t) ==
    /\ tab[t].socket.st \in {"on", "last"}
    /\ tab' = [tab EXCEPT ![t].socket = [st |-> "dead", of |-> None]]
    /\ UNCHANGED <<cookie, flag, server, past>>

-----------------------------------------------------------------------------
(* Tabs of the same browser that are not among Tabs: their login, social login,
   refresh and logout, each in one step, as far as this browser keeps them *)

LoggedInElsewhere(u) ==
    /\ Issue(u, {})
    /\ cookie' = Issued(u)
    /\ flag' \in {flag, TRUE}
    /\ UNCHANGED <<tab, past>>

RefreshedElsewhere ==
    /\ cookie \in server.live
    /\ Issue(cookie.user, {cookie})
    /\ cookie' = Issued(cookie.user)
    /\ UNCHANGED <<tab, flag, past>>

LoggedOutElsewhere ==
    /\ server' = [server EXCEPT !.live = @ \ {cookie}]
    /\ cookie' = None
    /\ flag' = FALSE
    /\ UNCHANGED <<tab, past>>

Elsewhere == (\E u \in Users : LoggedInElsewhere(u)) \/ RefreshedElsewhere \/ LoggedOutElsewhere

-----------------------------------------------------------------------------
Boot(t)     == Restored(t) \/ ProfileLoaded(t) \/ ProfileExpired(t) \/ ProfileFails(t) \/ BootEnds(t)
Served(t)   == RefreshServed(t) \/ RefreshLost(t) \/ AskServed(t) \/ AskUnauthorised(t)
Returned(t) == RefreshSucceeds(t) \/ RefreshFails(t) \/ LoginSucceeds(t) \/ LoginFails(t)
               \/ LogoutEnds(t) \/ CallbackExchanged(t) \/ CallbackEnds(t)

Acts(t) ==
    \/ Load(t, "app") \/ Load(t, "callback") \/ Boot(t)
    \/ Requests(t) \/ Answered(t) \/ authErrorInterceptor(t)
    \/ Served(t) \/ Returned(t)
    \/ (\E u \in Users : Login(t, u) \/ Callback(t, u)) \/ Logout(t)
    \/ HeaderMounts(t) \/ SocketRefused(t) \/ SocketGivenUp(t)

Next == (\E t \in Tabs : Acts(t)) \/ Elsewhere

\* Every request is answered or times out after 30 seconds.
Fairness == \A t \in Tabs : WF_vars(Boot(t)) /\ WF_vars(Served(t)) /\ WF_vars(Returned(t))

Spec == Init /\ [][Next]_vars /\ Fairness

-----------------------------------------------------------------------------
(* Properties *)

TypeOK ==
    /\ tab \in [Tabs -> Tab]
    /\ cookie \in Tokens \cup {None}
    /\ flag \in BOOLEAN
    /\ server.live \subseteq Tokens /\ server.gen \in 0..MaxGen

\* What the code does not exclude. Crossed: the refresh was asked in a session that has ended
\* since, or with the cookie of another account, which another tab or a social login without a
\* cookie leaves behind. Revived: an old request found a cookie nobody was signed in with.
\* Mixed: a social login asked for its profile with a token that was in the store already.
Overtaken(t) == t \in past.crossed \cup past.revived \cup past.mixed

\* A page that is shown as signed in shows its user, and calls the server as that user.
\* (authStore.ts: setAuth, login, logout, refreshToken; useInitAuth; SocialAuthCallbackPage)
SignedInAsShown ==
    \A t \in Tabs : Listens(tab[t]) =>
        \/ Overtaken(t)
        \/ tab[t].user # None /\ tab[t].token \in {None, tab[t].user}

\* The notifications that arrive are those of the user who is shown.
\* (useWebSocket, useNotificationWebSocket)
HearsOwnNotices ==
    \A t \in Tabs :
        tab[t].socket.of # None /\ ~Overtaken(t) => tab[t].socket.of = tab[t].user

\* Nothing is shown while the store is loading: it never is for ever.
LoadingEnds == \A t \in Tabs : tab[t].loading ~> ~tab[t].loading

\* The comment of the bootstrap: the flag is set on login and cleared on logout.
FlagSetOnLogin == \A t \in Tabs : tab[t].auth => flag

\* The comment of SocialAuthCallbackPage: the profile is asked for with the Bearer header of
\* the exchange.
ProfileOfTheExchange ==
    \A t \in Tabs : tab[t].ask.kind = "me" => tab[t].ask.bearer = tab[t].ask.who

=============================================================================
