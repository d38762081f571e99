----------------------------- MODULE MobileSession -----------------------------
(***************************************************************************)
(* The session of the mobile app: the auth store, the tokens it keeps in    *)
(* secure storage, the axios instance with its interceptors, the refresh of *)
(* the access token that all callers share, and what a login and a logout   *)
(* leave behind.  JavaScript runs one callback at a time, so one action is  *)
(* what runs between two awaits.                                            *)
(*                                                                          *)
(* Every call of http is a request slot.  The server (Django with simplejwt *)
(* through nimoh_base) is external: it rotates the refresh token at every   *)
(* refresh and refuses the one it replaced.                                 *)
(***************************************************************************)
EXTENDS Naturals, FiniteSets

CONSTANTS
    Users,          \* the accounts a person may log in to on this device
    Screens,        \* request slots of the screens, one request at a time each
    Drains,         \* request slots of the queue's drains
    Me,             \* the slot of the getMe request that follows a login
    MaxGen,         \* a bound: how many token pairs the server issues in a run
    MaxRetries429,  \* how often a throttled request is sent again: 2
    None

ASSUME SlotsAssumption == Me \notin Screens \cup Drains /\ Screens \cap Drains = {}
ASSUME BoundsAssumption == MaxGen \in Nat /\ MaxRetries429 \in Nat

Slots == Screens \cup Drains \cup {Me}

\* A token pair: who it was issued to and the how-manieth pair it was.
Tokens == [user : Users, gen : 1..MaxGen]

ASSUME NoneAssumption == None \notin Users \cup Tokens

VARIABLES
    store,      \* the zustand auth store: user, isAuthenticated, isHydrated
    disk,       \* what survives a restart: the token pair and the user's JSON
    reqs,       \* [Slots -> Request]
    refresh,    \* refreshPromise: the token a refresh in flight presented, or None
    leaving,    \* useLogout is waiting for the server
    server,     \* the pairs whose refresh half it takes, and those it rotated away
    past        \* history the properties speak of; the code keeps none of it

sessionVars == <<store, disk, reqs, refresh, leaving, server, past>>

Request == [st    : {"idle", "sent", "refreshing", "rejected", "refused",
                      "backoff"},
            by    : Users \cup {None},     \* who was logged in when it was made
            tok   : Tokens \cup {None},    \* the Authorization header
            retry : BOOLEAN,               \* _retry
            n     : 0..MaxRetries429]      \* _retryCount

NoRequest == [st |-> "idle", by |-> None, tok |-> None, retry |-> FALSE, n |-> 0]
LoggedOut == [user |-> None, authed |-> FALSE, hydrated |-> TRUE]

SessionInit ==
    /\ store = [LoggedOut EXCEPT !.hydrated = FALSE]
    /\ disk = [tok |-> None, user |-> None]
    /\ reqs = [r \in Slots |-> NoRequest]
    /\ refresh = None
    /\ leaving = FALSE
    /\ server = [refreshable |-> {}, spent |-> {}, gen |-> 0]
    /\ past = [crossed |-> FALSE, lost |-> FALSE, replayed |-> FALSE,
               foreign |-> FALSE]

-----------------------------------------------------------------------------
(* The interceptors. *)

Pending(r) == reqs[r].st # "idle"

\* The request interceptor: the token that is stored when the request leaves;
\* a request that is sent again keeps its old header when none is stored.
Authorised(q) == IF disk.tok = None THEN q ELSE [q EXCEPT !.tok = disk.tok]

Fresh == Authorised([NoRequest EXCEPT !.st = "sent", !.by = store.user])

Again(q) == Authorised([q EXCEPT !.st = "sent"])

\* What the server answers to r, executed as the user of its token.  Whether
\* the access token has expired by then is a matter of time: any request may
\* find it expired, and one without a token always does.
Answers(r) == IF reqs[r].tok = None THEN {"unauthorised"}
              ELSE {"ok", "refused", "throttled", "broken", "unauthorised"}

\* The response interceptor sends a throttled request again at most
\* MaxRetries429 times, starts or joins a refresh for the first 401, and hands
\* every other answer to the caller.
Throttled(r, a) == a = "throttled" /\ reqs[r].n < MaxRetries429
Expired(r, a) == a = "unauthorised" /\ ~reqs[r].retry
ForCaller(r, a) == ~Throttled(r, a) /\ ~Expired(r, a)

\* The call had its effect for an account other than the one it was made for.
Noted(r, a) ==
    past' = [past EXCEPT !.foreign =
                @ \/ (/\ a = "ok"
                      /\ reqs[r].by # None
                      /\ reqs[r].tok.user # reqs[r].by)]

ThrottledAgain(r) ==
    /\ reqs[r].st = "sent"
    /\ Throttled(r, "throttled") /\ "throttled" \in Answers(r)
    /\ reqs' = [reqs EXCEPT ![r].st = "backoff", ![r].n = @ + 1]
    /\ UNCHANGED <<store, disk, refresh, leaving, server, past>>

BackoffEnds(r) ==
    /\ reqs[r].st = "backoff"
    /\ reqs' = [reqs EXCEPT ![r] = Again(@)]
    /\ UNCHANGED <<store, disk, refresh, leaving, server, past>>

\* refreshAccessToken, called by the interceptor: join the refresh in flight,
\* or start one with the stored refresh token.
AskForRefresh(r) ==
    /\ reqs[r].st = "sent"
    /\ Expired(r, "unauthorised")
    /\ refresh # None \/ disk.tok # None
    /\ reqs' = [reqs EXCEPT ![r].retry = TRUE, ![r].st = "refreshing"]
    /\ refresh' = IF refresh # None THEN refresh ELSE disk.tok
    /\ UNCHANGED <<store, disk, leaving, server, past>>

Issue(u) == [user |-> u, gen |-> server.gen + 1]

\* The refresh endpoint: a new pair, and the presented token is blacklisted.
Rotates ==
    /\ refresh \in server.refreshable
    /\ server.gen < MaxGen
    /\ server' = [refreshable |-> (server.refreshable \ {refresh})
                                  \cup {Issue(refresh.user)},
                  spent |-> server.spent \cup {refresh},
                  gen |-> server.gen + 1]

Waiting == {r \in Slots : reqs[r].st = "refreshing"}

\* Mutant: only the new access token is stored.
RefreshSucceedsKeepsRefresh ==
    /\ refresh # None
    /\ Rotates
    /\ reqs' = [r \in Slots |->
                   IF r \in Waiting
                   THEN [reqs[r] EXCEPT !.st = "sent", !.tok = Issue(refresh.user)]
                   ELSE reqs[r]]
    /\ refresh' = None
    /\ UNCHANGED <<store, disk, leaving, past>>

\* The refresh succeeded: both tokens are stored, whatever happened to the
\* session meanwhile, and every waiter is sent again with them.
RefreshSucceeds ==
    /\ refresh # None
    /\ Rotates
    /\ disk' = [disk EXCEPT !.tok = Issue(refresh.user)]
    /\ reqs' = [r \in Slots |->
                   IF r \in Waiting
                   THEN [reqs[r] EXCEPT !.st = "sent", !.tok = Issue(refresh.user)]
                   ELSE reqs[r]]
    /\ refresh' = None
    /\ UNCHANGED <<store, leaving, past>>

\* The server does not take the refresh token.
RefreshRefused ==
    /\ refresh \notin server.refreshable
    /\ past' = [past EXCEPT !.replayed = @ \/ refresh \in server.spent]
    /\ UNCHANGED server

\* The refresh fails, perhaps after the server rotated.
RefreshBroken ==
    \/ UNCHANGED <<server, past>>
    \/ Rotates /\ past' = [past EXCEPT !.lost = TRUE]

-----------------------------------------------------------------------------
(* The store. *)

\* A screen calls http.
ScreenCalls(s) ==
    /\ s \in Screens
    /\ store.authed
    /\ ~Pending(s)
    /\ reqs' = [reqs EXCEPT ![s] = Fresh]
    /\ UNCHANGED <<store, disk, refresh, leaving, server, past>>

\* setAuth: the pair and the profile go to the disk, the store is logged in.
SetAuth(u, t) ==
    /\ disk' = [tok |-> t, user |-> u]
    /\ store' = [user |-> u, authed |-> TRUE, hydrated |-> TRUE]

\* setUser, and the end of hydrate after it had to fetch the profile.
SetUser(u) ==
    /\ disk' = [disk EXCEPT !.user = u]
    /\ store' = [store EXCEPT !.user = u, !.authed = @ \/ ~store.hydrated,
                             !.hydrated = TRUE]

\* What a slot is after its request has gone to the caller.
Settled(r) == [reqs EXCEPT ![r] = NoRequest]

\* Without the profile hydrate clears the tokens; nobody else minds.
ProfileMissing(r) ==
    IF r = Me /\ ~store.hydrated
    THEN /\ store' = LoggedOut
         /\ disk' = [tok |-> None, user |-> None]
    ELSE UNCHANGED <<store, disk>>

\* A screen's request is done; getMe additionally puts the profile it got
\* into the store and on the disk, whoever is logged in by then.  While the
\* app starts, getMe belongs to hydrate: it decides whether there is a session.
RequestSettles(r) ==
    /\ r \notin Drains
    /\ reqs[r].st = "sent"
    /\ \E a \in Answers(r) :
          /\ ForCaller(r, a)
          /\ Noted(r, a)
          /\ IF r = Me /\ a = "ok"
             THEN SetUser(reqs[r].tok.user)
             ELSE ProfileMissing(r)
    /\ reqs' = Settled(r)
    /\ UNCHANGED <<refresh, leaving, server>>

\* The request timed out or the network failed: the interceptor rejects.
RequestFails(r) ==
    /\ r \notin Drains
    /\ reqs[r].st = "sent"
    /\ reqs' = Settled(r)
    /\ ProfileMissing(r)
    /\ UNCHANGED <<refresh, leaving, server, past>>

\* logout of the store, and the copy of it that clearAuth is.
Logout ==
    /\ store' = [LoggedOut EXCEPT !.hydrated = store.hydrated]
    /\ disk' = [tok |-> None, user |-> None]

\* useLogin: the credentials are right; setAuth, then getMe with the new
\* token.  Wrong ones change nothing but the screen's message.
Login(u) ==
    /\ store.hydrated
    /\ ~store.authed
    /\ server.gen < MaxGen
    /\ server' = [server EXCEPT !.refreshable = @ \cup {Issue(u)}, !.gen = @ + 1]
    /\ SetAuth(u, Issue(u))
    /\ reqs' = [reqs EXCEPT ![Me] = [NoRequest EXCEPT !.st = "sent", !.by = u,
                                                      !.tok = Issue(u)]]
    /\ past' = [past EXCEPT !.crossed =
                   @ \/ refresh # None \/ \E r \in Slots : Pending(r)]
    /\ UNCHANGED <<refresh, leaving>>

\* useLogout: the screen waits for the server before the store logs out.
LogoutPressed ==
    /\ store.authed
    /\ ~leaving
    /\ leaving' = TRUE
    /\ UNCHANGED <<store, disk, reqs, refresh, server, past>>

\* The answers to the removal of the push token and to the revocation of the
\* refresh token that is stored by then; either call may fail.
ServerLogsOut ==
    /\ leaving
    /\ leaving' = FALSE
    /\ \/ server' = [server EXCEPT !.refreshable = @ \ {disk.tok}]
       \/ UNCHANGED server

-----------------------------------------------------------------------------
(* Restart. *)

\* The app is killed: what is not on the disk is gone, the answer of a
\* refresh in flight too.
AppKilled ==
    /\ store' = [LoggedOut EXCEPT !.hydrated = FALSE]
    /\ reqs' = [r \in Slots |-> NoRequest]
    /\ refresh' = None
    /\ leaving' = FALSE
    /\ \/ UNCHANGED <<server, past>>
       \/ Rotates /\ past' = [past EXCEPT !.lost = TRUE]
    /\ UNCHANGED disk

\* hydrate: logged in iff both tokens are there.
Hydrate ==
    /\ ~store.hydrated
    /\ disk.tok = None \/ disk.user # None
    /\ store' = [user |-> IF disk.tok = None THEN None ELSE disk.user,
                 authed |-> disk.tok # None, hydrated |-> TRUE]
    /\ UNCHANGED <<disk, reqs, refresh, leaving, server, past>>

\* hydrate with tokens but no user: the profile is fetched first.
HydrateFetchesProfile ==
    /\ ~store.hydrated
    /\ disk.tok # None /\ disk.user = None
    /\ ~Pending(Me)
    /\ reqs' = [reqs EXCEPT ![Me] = Fresh]
    /\ UNCHANGED <<store, disk, refresh, leaving, server, past>>

=============================================================================
