---------------------------- MODULE WebSessionProofs ----------------------------
(***************************************************************************)
(* Proofs about the session of the web app (WebSession), for any accounts,  *)
(* tabs, numbers of tokens and loads: a page that is shown as signed in     *)
(* shows whose session it is, and hears that user's notices, but for the    *)
(* races the properties name.                                               *)
(***************************************************************************)
EXTENDS WebSession, TLAPS

-----------------------------------------------------------------------------
(* The inductive invariant. *)

History == [loads : Nat, crossed : SUBSET Tabs, revived : SUBSET Tabs, mixed : SUBSET Tabs]

Shared ==
    /\ cookie \in Tokens \cup {None}
    /\ flag \in BOOLEAN
    /\ server \in [live : SUBSET Tokens, gen : 0..MaxGen]
    /\ past \in History

Clean(t) == ~Overtaken(t)

\* What is on its way in a tab: a refresh is granted to whose cookie it presented; while
\* the page boots nobody is signed in, and nobody can ask; a login has its account, and a
\* call for the profile its bearer.
Granted(r) ==
    r.st = "granted" => r.with \in Tokens /\ r.new \in Tokens /\ r.new.user = r.with.user
Booting(s) == s.boot = "refreshing" => s.loading /\ ~s.auth /\ s.ask.kind = "none"
Asking(a) == /\ a.kind \in {"login", "social", "me"} => a.who \in Users
             /\ a.kind = "me" => a.bearer \in Users
Sound(s) == Granted(s.refresh) /\ Booting(s) /\ Asking(s.ask)

Own(s) == s.auth => s.user # None /\ s.token \in {None, s.user}
Hears(s) == s.socket.of # None => s.socket.of = s.user
Quiet(s) == ~Listens(s) => s.socket.of = None

WebInv ==
    /\ Shared
    /\ tab \in [Tabs -> Tab]
    /\ \A t \in Tabs :
          /\ Sound(tab[t]) /\ Quiet(tab[t])
          /\ Clean(t) => Own(tab[t]) /\ Hears(tab[t])

-----------------------------------------------------------------------------
(* One tab changes. *)

\* The other tabs are no cleaner than before.
OthersAsBefore(t) == \A d \in Tabs \ {t} : Clean(d)' => Clean(d)

LEMMA ChangeKeeps ==
  ASSUME WebInv, NEW t \in Tabs, NEW v \in Tab, tab' = [tab EXCEPT ![t] = v],
         Shared', OthersAsBefore(t), Sound(v), Quiet(v), Clean(t)' => Own(v) /\ Hears(v)
  PROVE  WebInv'
  <1>1. tab' \in [Tabs -> Tab] /\ tab'[t] = v /\ \A d \in Tabs \ {t} : tab'[d] = tab[d]
    BY DEF WebInv
  <1>2. ASSUME NEW d \in Tabs
        PROVE  /\ Sound(tab'[d]) /\ Quiet(tab'[d])
               /\ Clean(d)' => Own(tab'[d]) /\ Hears(tab'[d])
    <2>1. CASE d = t
      BY <1>1, <2>1
    <2>2. CASE d # t
      <3>1. tab'[d] = tab[d] /\ (Clean(d)' => Clean(d))
        BY <1>1, <2>2 DEF OthersAsBefore
      <3> QED BY <3>1 DEF WebInv
    <2> QED BY <2>1, <2>2
  <1> QED BY <1>1, <1>2 DEF WebInv, Sound, Quiet, Own, Hears, Granted, Booting, Asking, Listens

\* ... with the effects of the components it shows.
LEMMA PutResult ==
  ASSUME WebInv, NEW t \in Tabs, NEW new \in Tab, Put(t, new)
  PROVE  \E v \in Tab :
            /\ tab' = [tab EXCEPT ![t] = v]
            /\ v.refresh = new.refresh /\ v.ask = new.ask /\ v.boot = new.boot
            /\ v.loading = new.loading /\ v.auth = new.auth
            /\ v.user = new.user /\ v.token = new.token /\ v.page = new.page
            /\ ~Listens(new) => v.socket.of = None
            /\ Listens(new) /\ ~Listens(tab[t]) => v.socket.of = new.token
            /\ Listens(new) /\ Listens(tab[t]) => v = new
  <1> DEFINE with(sock) == [new EXCEPT !.socket = sock]
  <1>1. ASSUME NEW sock \in Socket
        PROVE  /\ with(sock) \in Tab
               /\ with(sock).refresh = new.refresh /\ with(sock).ask = new.ask
               /\ with(sock).boot = new.boot /\ with(sock).loading = new.loading
               /\ with(sock).auth = new.auth /\ with(sock).user = new.user
               /\ with(sock).token = new.token /\ with(sock).page = new.page
               /\ with(sock).socket = sock
    BY <1>1 DEF Tab
  <1>2. NoSocket \in Socket /\ NoSocket.of = None
    BY DEF NoSocket, Socket, Owner
  <1>3. new.token \in Owner
    BY DEF Tab
  <1>4. useWebSocket(new) \in Socket /\ useWebSocket(new).of = new.token
    BY <1>3 DEF useWebSocket, Socket, Owner
  <1>5. CASE ~Listens(new)
    <2>1. tab' = [tab EXCEPT ![t] = with(NoSocket)]
      BY <1>5 DEF Put
    <2> QED BY <1>1, <1>2, <1>5, <2>1
  <1>6. CASE Listens(new) /\ ~Listens(tab[t])
    <2>1. tab' = [tab EXCEPT ![t] = with(useWebSocket(new))]
      BY <1>6 DEF Put
    <2> QED BY <1>1, <1>4, <1>6, <2>1
  <1>7. CASE Listens(new) /\ Listens(tab[t])
    <2>1. tab' = [tab EXCEPT ![t] = new]
      BY <1>7 DEF Put
    <2> QED BY <1>7, <2>1
  <1> QED BY <1>5, <1>6, <1>7

LEMMA PutKeeps ==
  ASSUME WebInv, NEW t \in Tabs, NEW new \in Tab, Put(t, new),
         Shared', OthersAsBefore(t), Sound(new), Clean(t)' => Own(new),
         Clean(t)' /\ Listens(new) /\ Listens(tab[t]) => Hears(new)
  PROVE  WebInv'
  <1>1. PICK v \in Tab :
            /\ tab' = [tab EXCEPT ![t] = v]
            /\ v.refresh = new.refresh /\ v.ask = new.ask /\ v.boot = new.boot
            /\ v.loading = new.loading /\ v.auth = new.auth
            /\ v.user = new.user /\ v.token = new.token /\ v.page = new.page
            /\ ~Listens(new) => v.socket.of = None
            /\ Listens(new) /\ ~Listens(tab[t]) => v.socket.of = new.token
            /\ Listens(new) /\ Listens(tab[t]) => v = new
    BY PutResult
  <1>2. Sound(v)
    <2>1. Granted(v.refresh) /\ Asking(v.ask)
      BY <1>1 DEF Sound
    <2>2. Booting(v)
      BY <1>1 DEF Sound, Booting
    <2> QED BY <2>1, <2>2 DEF Sound
  <1>3. Listens(v) = Listens(new)
    BY <1>1 DEF Listens
  <1>4. Quiet(v)
    BY <1>1, <1>3 DEF Quiet
  <1>5. ASSUME Clean(t)' PROVE Own(v) /\ Hears(v)
    <2>1. Own(new)
      BY <1>5
    <2>2. Own(v)
      BY <1>1, <2>1 DEF Own
    <2>3. CASE ~Listens(new)
      BY <1>1, <2>2, <2>3 DEF Hears
    <2>4. CASE Listens(new) /\ ~Listens(tab[t])
      <3>1. v.socket.of = new.token
        BY <1>1, <2>4
      <3>2. new.token \in {None, new.user}
        BY <2>1, <2>4 DEF Own, Listens
      <3>3. v.user = new.user
        BY <1>1
      <3>4. Hears(v)
        BY <3>1, <3>2, <3>3 DEF Hears
      <3> QED BY <2>2, <3>4
    <2>5. CASE Listens(new) /\ Listens(tab[t])
      BY <1>1, <1>5, <2>5
    <2> QED BY <2>2, <2>3, <2>4, <2>5
  <1> QED BY <1>1, <1>2, <1>4, <1>5, ChangeKeeps

\* What the parts of a tab are.
LEMMA Parts ==
  ASSUME WebInv, NEW t \in Tabs
  PROVE  /\ tab[t] \in Tab
         /\ tab[t].refresh \in Refresh /\ tab[t].ask \in Ask /\ tab[t].socket \in Socket
         /\ tab[t].token \in Owner /\ tab[t].user \in Owner /\ tab[t].bootToken \in Owner
         /\ tab[t].auth \in BOOLEAN /\ tab[t].loading \in BOOLEAN
         /\ Granted(tab[t].refresh) /\ Booting(tab[t]) /\ Asking(tab[t].ask)
         /\ Quiet(tab[t])
         /\ Clean(t) => Own(tab[t]) /\ Hears(tab[t])
  <1>1. tab[t] \in Tab /\ Sound(tab[t]) /\ Quiet(tab[t])
        /\ (Clean(t) => Own(tab[t]) /\ Hears(tab[t]))
    BY DEF WebInv
  <1>2. /\ tab[t].refresh \in Refresh /\ tab[t].ask \in Ask /\ tab[t].socket \in Socket
        /\ tab[t].token \in Owner /\ tab[t].user \in Owner /\ tab[t].bootToken \in Owner
        /\ tab[t].auth \in BOOLEAN /\ tab[t].loading \in BOOLEAN
    BY <1>1 DEF Tab
  <1> QED BY <1>1, <1>2 DEF Sound

LEMMA Nothings ==
  /\ NoRefresh \in Refresh /\ NoRefresh.st = "none" /\ Granted(NoRefresh)
  /\ NoAsk \in Ask /\ NoAsk.kind = "none" /\ Asking(NoAsk)
  /\ NoSocket \in Socket /\ NoSocket.of = None
  <1>1. NoRefresh \in Refresh /\ NoRefresh.st = "none"
    BY DEF NoRefresh, Refresh, Owner
  <1>2. NoAsk \in Ask /\ NoAsk.kind = "none"
    BY DEF NoAsk, Ask, Owner
  <1>3. NoSocket \in Socket /\ NoSocket.of = None
    BY DEF NoSocket, Socket, Owner
  <1> QED BY <1>1, <1>2, <1>3 DEF Granted, Asking

\* A tab whose session begins or ends, or whose call is answered, is a tab.
LEMMA AuthTab ==
  ASSUME NEW s \in Tab, NEW token \in Owner, NEW user \in Owner
  PROVE  setAuth(s, token, user) \in Tab /\ clearAuth(s) \in Tab
  <1>1. None \in Owner
    BY DEF Owner
  <1>2. setAuth(s, token, user) \in Tab
    BY DEF setAuth, Tab
  <1>3. clearAuth(s) \in Tab
    BY <1>1 DEF clearAuth, Tab
  <1> QED BY <1>2, <1>3

LEMMA AskedTab ==
  ASSUME NEW s \in Tab, NEW a \in Ask
  PROVE  [s EXCEPT !.ask = a] \in Tab /\ [s EXCEPT !.ask = a, !.page = "app"] \in Tab
  BY DEF Tab

\* Nobody is signed in afterwards.
LEMMA SignedOutKeeps ==
  ASSUME WebInv, NEW t \in Tabs, NEW new \in Tab, Put(t, new),
         Shared', OthersAsBefore(t), Sound(new), ~new.auth
  PROVE  WebInv'
  <1>1. Own(new)
    BY DEF Own
  <1>2. ~Listens(new)
    BY DEF Listens
  <1> QED BY <1>1, <1>2, PutKeeps

\* The same user is signed in, or nobody, as before.
LEMMA SameUserKeeps ==
  ASSUME WebInv, NEW t \in Tabs, NEW new \in Tab, Put(t, new),
         cookie' = cookie, flag' = flag, server' = server, past' = past,
         Sound(new), new.auth => tab[t].auth,
         new.user = tab[t].user, new.token = tab[t].token,
         new.socket.of \in {None, tab[t].socket.of}
  PROVE  WebInv'
  <1>1. Shared' /\ OthersAsBefore(t) /\ (Clean(t)' => Clean(t))
    BY DEF WebInv, Shared, OthersAsBefore, Clean, Overtaken
  <1>2. ASSUME Clean(t)' PROVE Own(new) /\ Hears(new)
    <2>1. Own(tab[t]) /\ Hears(tab[t])
      BY <1>1, <1>2, Parts
    <2>2. Own(new)
      BY <2>1 DEF Own
    <2>3. Hears(new)
      BY <2>1 DEF Hears
    <2> QED BY <2>2, <2>3
  <1> QED BY <1>1, <1>2, PutKeeps

\* A tab gets what the server answers; who is signed in and what it hears do not change.
LEMMA AnswerKeeps ==
  ASSUME WebInv, NEW t \in Tabs, NEW v \in Tab, tab' = [tab EXCEPT ![t] = v],
         Shared', past' = past, Sound(v),
         v.page = tab[t].page, v.auth = tab[t].auth, v.loading = tab[t].loading,
         v.user = tab[t].user, v.token = tab[t].token,
         v.socket = tab[t].socket
  PROVE  WebInv'
  <1>1. OthersAsBefore(t) /\ (Clean(t)' => Clean(t))
    BY DEF OthersAsBefore, Clean, Overtaken
  <1>2. Listens(v) = Listens(tab[t])
    BY DEF Listens
  <1>3. Quiet(v)
    BY <1>2, Parts DEF Quiet
  <1>4. ASSUME Clean(t)' PROVE Own(v) /\ Hears(v)
    <2>1. Own(tab[t]) /\ Hears(tab[t])
      BY <1>1, <1>4, Parts
    <2>2. Own(v)
      BY <2>1 DEF Own
    <2>3. Hears(v)
      BY <2>1 DEF Hears
    <2> QED BY <2>2, <2>3
  <1> QED BY <1>1, <1>3, <1>4, ChangeKeeps

-----------------------------------------------------------------------------
(* The bootstrap. *)

LEMMA LoadKeeps ==
  ASSUME WebInv, NEW t \in Tabs, NEW page \in {"app", "callback"}, Load(t, page)
  PROVE  WebInv'
  <1> DEFINE asked == [NoRefresh EXCEPT !.st = "sent", !.with = cookie]
             booting == [Loaded EXCEPT !.page = page, !.loading = TRUE, !.boot = "refreshing",
                                       !.refresh = asked]
             new == IF flag THEN booting ELSE [Loaded EXCEPT !.page = page]
  <1>1. tab' = [tab EXCEPT ![t] = new] /\ UNCHANGED <<cookie, flag, server>>
        /\ past' = [past EXCEPT !.loads = @ + 1, !.crossed = @ \ {t}, !.revived = @ \ {t},
                                !.mixed = @ \ {t}]
    BY DEF Load
  <1>2. asked \in Refresh /\ asked.st = "sent"
    BY DEF WebInv, Shared, NoRefresh, Refresh, Owner
  <1>3. Loaded \in Tab
    BY Nothings DEF Loaded, Tab, Owner
  <1>4. booting \in Tab /\ [Loaded EXCEPT !.page = page] \in Tab
    BY <1>2, <1>3 DEF Tab
  <1>5. new \in Tab
    BY <1>4
  <1>6. new.socket = NoSocket /\ new.ask = NoAsk /\ new.refresh \in {asked, NoRefresh}
    BY DEF Loaded
  <1>7. ~new.auth
    BY DEF Loaded
  <1>8. new.boot = "refreshing" => new.loading
    BY DEF Loaded
  <1>9. Sound(new)
    <2>1. Granted(new.refresh) /\ Asking(new.ask)
      BY <1>2, <1>6, Nothings DEF Granted
    <2>2. Booting(new)
      BY <1>6, <1>7, <1>8, Nothings DEF Booting
    <2> QED BY <2>1, <2>2 DEF Sound
  <1>10. Own(new) /\ Hears(new) /\ Quiet(new)
    BY <1>6, <1>7, Nothings DEF Own, Hears, Quiet
  <1>11. Shared' /\ OthersAsBefore(t)
    <2> DEFINE after == [loads |-> past.loads + 1, crossed |-> past.crossed \ {t},
                         revived |-> past.revived \ {t}, mixed |-> past.mixed \ {t}]
    <2>1. past \in History
      BY DEF WebInv, Shared
    <2>2. /\ past' \in History
          /\ past'.crossed = past.crossed \ {t} /\ past'.revived = past.revived \ {t}
          /\ past'.mixed = past.mixed \ {t}
      <3>1. past' = after
        BY <1>1, <2>1 DEF History
      <3>2. /\ past.loads + 1 \in Nat /\ past.crossed \ {t} \in SUBSET Tabs
            /\ past.revived \ {t} \in SUBSET Tabs /\ past.mixed \ {t} \in SUBSET Tabs
        BY <2>1 DEF History
      <3>3. after \in History
        BY <3>2 DEF History
      <3> QED BY <3>1, <3>3
    <2>3. Shared'
      BY <1>1, <2>2 DEF WebInv, Shared
    <2>4. OthersAsBefore(t)
      BY <2>2 DEF OthersAsBefore, Clean, Overtaken
    <2> QED BY <2>3, <2>4
  <1> HIDE DEF new, booting, asked
  <1> QED BY <1>1, <1>5, <1>9, <1>10, <1>11, ChangeKeeps

LEMMA RestoredKeeps ==
  ASSUME WebInv, NEW t \in Tabs, Restored(t)
  PROVE  WebInv'
  <1> DEFINE r == tab[t].refresh
             s == [tab[t] EXCEPT !.refresh = NoRefresh]
  <1>1. tab[t].boot = "refreshing" /\ ~tab[t].auth /\ tab[t].ask.kind = "none"
    BY Parts DEF Restored, Booting
  <1>2. OthersAsBefore(t)
    BY DEF Restored, OthersAsBefore, Clean, Overtaken
  <1>3. s \in Tab /\ ~s.auth /\ s.refresh = NoRefresh /\ s.ask = tab[t].ask
    BY <1>1, Parts, Nothings DEF Tab
  <1>4. CASE r.st = "granted" /\ cookie' = r.new /\ UNCHANGED flag
             /\ Put(t, [s EXCEPT !.token = r.new.user, !.bootToken = r.new.user,
                                 !.boot = "profile"])
    <2> DEFINE new == [s EXCEPT !.token = r.new.user, !.bootToken = r.new.user,
                                !.boot = "profile"]
    <2>1. r.new \in Tokens /\ r.new.user \in Owner
      BY <1>4, Parts DEF Granted, Tokens, Owner
    <2>2. new \in Tab
      BY <1>3, <2>1 DEF Tab
    <2>3. new.refresh = NoRefresh /\ new.ask = tab[t].ask /\ new.boot = "profile"
      BY <1>3, <2>1 DEF Tab
    <2>4. ~new.auth
      BY <1>3 DEF Tab
    <2>5. Sound(new)
      BY <2>3, Parts, Nothings DEF Sound, Booting
    <2>6. Shared'
      BY <1>4, <2>1 DEF WebInv, Shared, Restored
    <2> HIDE DEF new
    <2>7. Put(t, new)
      BY <1>4 DEF new
    <2> QED BY <1>2, <2>2, <2>4, <2>5, <2>6, <2>7, SignedOutKeeps
  <1>5. CASE r.st = "denied" /\ Put(t, [clearAuth(s) EXCEPT !.boot = "csrf"])
             /\ flag' = FALSE /\ UNCHANGED cookie
    <2> DEFINE new == [clearAuth(s) EXCEPT !.boot = "csrf"]
    <2>1. new \in Tab
      BY <1>3 DEF clearAuth, Tab, Owner
    <2>2. new.refresh = NoRefresh /\ new.ask = tab[t].ask /\ new.boot = "csrf"
      BY <1>3 DEF clearAuth, Tab
    <2>3. ~new.auth
      BY <1>3 DEF clearAuth, Tab
    <2>4. Sound(new)
      BY <2>2, Parts, Nothings DEF Sound, Booting
    <2>5. Shared'
      BY <1>5 DEF WebInv, Shared, Restored
    <2> HIDE DEF new
    <2>6. Put(t, new)
      BY <1>5 DEF new
    <2> QED BY <1>2, <2>1, <2>3, <2>4, <2>5, <2>6, SignedOutKeeps
  <1> QED BY <1>4, <1>5 DEF Restored


LEMMA ProfileLoadedKeeps ==
  ASSUME WebInv, NEW t \in Tabs, ProfileLoaded(t)
  PROVE  WebInv'
  <1> DEFINE s == setAuth(tab[t], tab[t].bootToken, tab[t].token)
             new == [s EXCEPT !.boot = "csrf"]
  <1>1. tab[t].token # None /\ Put(t, new) /\ flag' = TRUE /\ UNCHANGED <<cookie, server>>
        /\ past' = [past EXCEPT !.crossed =
                       IF tab[t].bootToken # tab[t].token THEN @ \cup {t} ELSE @]
    BY DEF ProfileLoaded
  <1>2. new \in Tab
    BY Parts DEF setAuth, Tab
  <1>3. /\ new.refresh = tab[t].refresh /\ new.ask = tab[t].ask /\ new.boot = "csrf"
        /\ new.token = tab[t].bootToken /\ new.user = tab[t].token
        /\ new.socket = tab[t].socket
    BY Parts DEF setAuth, Tab
  <1>4. Sound(new)
    BY <1>3, Parts DEF Sound, Booting
  <1>5. /\ past' \in History
        /\ past'.revived = past.revived /\ past'.mixed = past.mixed
        /\ past'.crossed = IF tab[t].bootToken # tab[t].token
                           THEN past.crossed \cup {t} ELSE past.crossed
    BY <1>1 DEF WebInv, Shared, History
  <1>6. Shared'
    BY <1>1, <1>5 DEF WebInv, Shared
  <1>7. OthersAsBefore(t) /\ (Clean(t)' => Clean(t) /\ tab[t].bootToken = tab[t].token)
    BY <1>5 DEF OthersAsBefore, Clean, Overtaken
  <1>8. Clean(t)' => Own(new)
    BY <1>1, <1>3, <1>7 DEF Own
  <1>9. ASSUME Clean(t)', Listens(tab[t]) PROVE Hears(new)
    <2>1. tab[t].auth /\ Own(tab[t]) /\ Hears(tab[t])
      BY <1>7, <1>9, Parts DEF Listens
    <2>2. tab[t].token = tab[t].user
      BY <1>1, <2>1 DEF Own
    <2> QED BY <1>3, <2>1, <2>2 DEF Hears
  <1> HIDE DEF new, s
  <1> QED BY <1>1, <1>2, <1>4, <1>6, <1>7, <1>8, <1>9, PutKeeps

\* A caller joins the refresh on its way, or asks for one.
LEMMA RefreshAsked ==
  ASSUME WebInv, NEW t \in Tabs, NEW s \in Tab, Granted(s.refresh)
  PROVE  LET new == refreshToken(s) IN
         /\ new \in Tab /\ Granted(new.refresh)
         /\ new.ask = s.ask /\ new.boot = s.boot /\ new.loading = s.loading
         /\ new.auth = s.auth /\ new.user = s.user /\ new.token = s.token
         /\ new.socket = s.socket
  <1> DEFINE asked == [NoRefresh EXCEPT !.st = "sent", !.with = cookie,
                                        !.was = s.auth, !.by = s.user]
  <1>1. s.auth \in BOOLEAN /\ s.user \in Owner /\ cookie \in Tokens \cup {None}
    BY DEF Tab, WebInv, Shared
  <1>2. asked \in Refresh /\ asked.st = "sent"
    BY <1>1 DEF NoRefresh, Refresh, Owner
  <1>3. Granted(asked)
    BY <1>2 DEF Granted
  <1> HIDE DEF asked
  <1>4. /\ [s EXCEPT !.refresh = asked] \in Tab
        /\ [s EXCEPT !.refresh = asked].refresh = asked
    BY <1>2 DEF Tab
  <1>5. refreshToken(s) \in {s, [s EXCEPT !.refresh = asked]}
    BY DEF refreshToken, asked
  <1>6. refreshToken(s) \in Tab /\ Granted(refreshToken(s).refresh)
    BY <1>3, <1>4, <1>5
  <1>7. /\ refreshToken(s).ask = s.ask /\ refreshToken(s).boot = s.boot
        /\ refreshToken(s).loading = s.loading /\ refreshToken(s).auth = s.auth
        /\ refreshToken(s).user = s.user /\ refreshToken(s).token = s.token
        /\ refreshToken(s).socket = s.socket
    BY <1>5 DEF Tab
  <1> QED BY <1>6, <1>7

LEMMA ProfileExpiredKeeps ==
  ASSUME WebInv, NEW t \in Tabs, ProfileExpired(t)
  PROVE  WebInv'
  <1> DEFINE new == refreshToken(tab[t])
  <1>1. Put(t, new) /\ UNCHANGED <<cookie, flag, server, past>>
    BY DEF ProfileExpired
  <1>2. /\ new \in Tab /\ Granted(new.refresh)
        /\ new.ask = tab[t].ask /\ new.boot = tab[t].boot /\ new.loading = tab[t].loading
        /\ new.auth = tab[t].auth /\ new.user = tab[t].user /\ new.token = tab[t].token
        /\ new.socket = tab[t].socket
    BY Parts, RefreshAsked
  <1> HIDE DEF new
  <1>3. Booting(new)
    BY <1>2, Parts DEF Booting
  <1>4. Sound(new)
    BY <1>2, <1>3, Parts DEF Sound
  <1> QED BY <1>1, <1>2, <1>4, SameUserKeeps

LEMMA ProfileFailsKeeps ==
  ASSUME WebInv, NEW t \in Tabs, ProfileFails(t)
  PROVE  WebInv'
  <1> DEFINE new == [clearAuth(tab[t]) EXCEPT !.boot = "csrf"]
  <1>1. Put(t, new) /\ flag' = FALSE /\ UNCHANGED <<cookie, server, past>>
    BY DEF ProfileFails
  <1>2. new \in Tab
    BY Parts DEF clearAuth, Tab, Owner
  <1>3. new.refresh = tab[t].refresh /\ new.ask = tab[t].ask /\ new.boot = "csrf"
    BY Parts DEF clearAuth, Tab
  <1>4. ~new.auth
    BY Parts DEF clearAuth, Tab
  <1>5. Sound(new)
    BY <1>3, Parts DEF Sound, Booting
  <1>6. Shared' /\ OthersAsBefore(t)
    BY <1>1 DEF WebInv, Shared, OthersAsBefore, Clean, Overtaken
  <1> HIDE DEF new
  <1> QED BY <1>1, <1>2, <1>4, <1>5, <1>6, SignedOutKeeps

LEMMA BootEndsKeeps ==
  ASSUME WebInv, NEW t \in Tabs, BootEnds(t)
  PROVE  WebInv'
  <1> DEFINE new == [tab[t] EXCEPT !.boot = "done", !.loading = FALSE]
  <1>1. Put(t, new) /\ UNCHANGED <<cookie, flag, server, past>>
    BY DEF BootEnds
  <1>2. new \in Tab
    BY Parts DEF Tab
  <1>3. /\ new.refresh = tab[t].refresh /\ new.ask = tab[t].ask /\ new.boot = "done"
        /\ new.auth = tab[t].auth /\ new.user = tab[t].user /\ new.token = tab[t].token
        /\ new.socket = tab[t].socket
    BY Parts DEF Tab
  <1>4. Sound(new)
    BY <1>3, Parts DEF Sound, Booting
  <1> HIDE DEF new
  <1> QED BY <1>1, <1>2, <1>3, <1>4, SameUserKeeps

-----------------------------------------------------------------------------
(* Requests and the refresh. *)

LEMMA RequestsKeeps ==
  ASSUME WebInv, NEW t \in Tabs, Requests(t) \/ Answered(t)
  PROVE  WebInv'
  <1>1. PICK b \in BOOLEAN : Put(t, [tab[t] EXCEPT !.request = b])
                             /\ UNCHANGED <<cookie, flag, server, past>>
    BY DEF Requests, Answered
  <1> DEFINE new == [tab[t] EXCEPT !.request = b]
  <1>2. new \in Tab
    BY Parts DEF Tab
  <1>3. /\ new.refresh = tab[t].refresh /\ new.ask = tab[t].ask /\ new.boot = tab[t].boot
        /\ new.loading = tab[t].loading
        /\ new.auth = tab[t].auth /\ new.user = tab[t].user /\ new.token = tab[t].token
        /\ new.socket = tab[t].socket
    BY Parts DEF Tab
  <1>4. Put(t, new)
    BY <1>1
  <1> HIDE DEF new
  <1>5. Booting(new)
    BY <1>3, Parts DEF Booting
  <1>6. Sound(new)
    BY <1>3, <1>5, Parts DEF Sound
  <1> QED BY <1>1, <1>2, <1>3, <1>4, <1>6, SameUserKeeps

LEMMA AuthErrorKeeps ==
  ASSUME WebInv, NEW t \in Tabs, authErrorInterceptor(t)
  PROVE  WebInv'
  <1> DEFINE s == refreshToken(tab[t])
             new == [s EXCEPT !.request = FALSE]
  <1>1. Put(t, new) /\ UNCHANGED <<cookie, flag, server, past>>
    BY DEF authErrorInterceptor
  <1>2. /\ s \in Tab /\ Granted(s.refresh)
        /\ s.ask = tab[t].ask /\ s.boot = tab[t].boot /\ s.loading = tab[t].loading
        /\ s.auth = tab[t].auth /\ s.user = tab[t].user /\ s.token = tab[t].token
        /\ s.socket = tab[t].socket
    BY Parts, RefreshAsked
  <1> HIDE DEF s
  <1>3. new \in Tab
    BY <1>2 DEF Tab
  <1>4. /\ new.refresh = s.refresh /\ new.ask = s.ask /\ new.boot = s.boot
        /\ new.loading = s.loading
        /\ new.auth = s.auth /\ new.user = s.user /\ new.token = s.token
        /\ new.socket = s.socket
    BY <1>2 DEF Tab
  <1> HIDE DEF new
  <1>5. Booting(new)
    BY <1>2, <1>4, Parts DEF Booting
  <1>6. Sound(new)
    BY <1>2, <1>4, <1>5, Parts DEF Sound
  <1> QED BY <1>1, <1>2, <1>3, <1>4, <1>6, SameUserKeeps


\* The server issues a token of user u, and takes some no more.
LEMMA IssueKeepsShared ==
  ASSUME WebInv, NEW u \in Users, NEW spent, Issue(u, spent)
  PROVE  /\ Issued(u) \in Tokens /\ Issued(u).user = u
         /\ server' \in [live : SUBSET Tokens, gen : 0..MaxGen]
  <1>1. server.gen \in 0..MaxGen /\ server.live \subseteq Tokens /\ server.gen < MaxGen
    BY DEF WebInv, Shared, Issue
  <1>2. server.gen + 1 \in 1..MaxGen
    BY <1>1, BoundsAssumption
  <1>3. Issued(u) \in Tokens /\ Issued(u).user = u
    BY <1>2 DEF Issued, Tokens
  <1>4. server' = [live |-> (server.live \ spent) \cup {Issued(u)}, gen |-> server.gen + 1]
    BY DEF Issue
  <1>5. (server.live \ spent) \cup {Issued(u)} \in SUBSET Tokens
    BY <1>1, <1>3
  <1>6. server.gen + 1 \in 0..MaxGen
    BY <1>2, BoundsAssumption
  <1> QED BY <1>3, <1>4, <1>5, <1>6

\* The refresh of a tab changes, nothing else.
LEMMA RefreshAnswerKeeps ==
  ASSUME WebInv, NEW t \in Tabs, NEW q \in Refresh, Granted(q),
         tab' = [tab EXCEPT ![t] = [tab[t] EXCEPT !.refresh = q]],
         server' \in [live : SUBSET Tokens, gen : 0..MaxGen],
         UNCHANGED <<cookie, flag, past>>
  PROVE  WebInv'
  <1> DEFINE v == [tab[t] EXCEPT !.refresh = q]
  <1>1. v \in Tab
    BY Parts DEF Tab
  <1>2. /\ v.refresh = q /\ v.ask = tab[t].ask /\ v.boot = tab[t].boot
        /\ v.page = tab[t].page
        /\ v.auth = tab[t].auth /\ v.loading = tab[t].loading
        /\ v.user = tab[t].user /\ v.token = tab[t].token
        /\ v.socket = tab[t].socket
    BY Parts DEF Tab
  <1> HIDE DEF v
  <1>3. Booting(v)
    BY <1>2, Parts DEF Booting
  <1>4. Sound(v)
    BY <1>2, <1>3, Parts DEF Sound
  <1>5. Shared'
    BY DEF WebInv, Shared
  <1>6. tab' = [tab EXCEPT ![t] = v]
    BY DEF v
  <1> QED BY <1>1, <1>2, <1>4, <1>5, <1>6, AnswerKeeps

LEMMA RefreshServedKeeps ==
  ASSUME WebInv, NEW t \in Tabs, RefreshServed(t) \/ RefreshLost(t)
  PROVE  WebInv'
  <1> DEFINE r == tab[t].refresh
  <1>1. server \in [live : SUBSET Tokens, gen : 0..MaxGen] /\ r \in Refresh
    BY Parts DEF WebInv, Shared
  <1>2. CASE /\ r.with \in server.live /\ Issue(r.with.user, {r.with})
             /\ tab' = [tab EXCEPT ![t].refresh.st = "granted",
                                   ![t].refresh.new = Issued(r.with.user)]
             /\ UNCHANGED <<cookie, flag, past>>
    <2> DEFINE q == [r EXCEPT !.st = "granted", !.new = Issued(r.with.user)]
    <2>1. r.with \in Tokens /\ r.with.user \in Users
      BY <1>1, <1>2 DEF Tokens
    <2>2. /\ Issued(r.with.user) \in Tokens /\ Issued(r.with.user).user = r.with.user
          /\ server' \in [live : SUBSET Tokens, gen : 0..MaxGen]
      BY <1>2, <2>1, IssueKeepsShared
    <2>3. q \in Refresh /\ q.with = r.with /\ q.new = Issued(r.with.user)
      BY <1>1, <2>2 DEF Refresh
    <2>4. Granted(q)
      BY <2>1, <2>2, <2>3 DEF Granted
    <2>5. tab' = [tab EXCEPT ![t] = [tab[t] EXCEPT !.refresh = q]]
      BY <1>2, Parts DEF WebInv, Tab
    <2> HIDE DEF q
    <2> QED BY <1>2, <2>2, <2>3, <2>4, <2>5, RefreshAnswerKeeps
  <1>3. CASE /\ tab' = [tab EXCEPT ![t].refresh.st = "denied"]
             /\ UNCHANGED <<cookie, flag, past, server>>
    <2> DEFINE q == [r EXCEPT !.st = "denied"]
    <2>1. q \in Refresh /\ q.st = "denied"
      BY <1>1 DEF Refresh
    <2>2. Granted(q)
      BY <2>1 DEF Granted
    <2>3. tab' = [tab EXCEPT ![t] = [tab[t] EXCEPT !.refresh = q]]
      BY <1>3, Parts DEF WebInv, Tab
    <2>4. server' \in [live : SUBSET Tokens, gen : 0..MaxGen]
      BY <1>1, <1>3
    <2> HIDE DEF q
    <2> QED BY <1>3, <2>1, <2>2, <2>3, <2>4, RefreshAnswerKeeps
  <1> QED BY <1>2, <1>3 DEF RefreshServed, RefreshLost

\* What those who waited for the refresh leave of the tab.
LEMMA ResumedParts ==
  ASSUME NEW s \in Tab, Asking(s.ask), NEW refreshed \in BOOLEAN, refreshed => s.token \in Users
  PROVE  LET new == Resumed(s, refreshed) IN
         /\ new \in Tab /\ new.refresh = s.refresh /\ new.boot = s.boot
         /\ Asking(new.ask) /\ new.ask.kind = s.ask.kind
         /\ new.loading = s.loading /\ new.auth = s.auth
         /\ new.user = s.user /\ new.token = s.token
         /\ new.socket.of \in {s.socket.of, IF refreshed THEN s.token ELSE s.socket.of}
  <1> DEFINE sock == IF s.socket.st = "refused" /\ refreshed
                     THEN [st |-> "last", of |-> s.token] ELSE s.socket
             asks == IF s.ask.st # "waiting" THEN s.ask
                     ELSE IF refreshed THEN [s.ask EXCEPT !.st = "again", !.bearer = s.token]
                     ELSE [s.ask EXCEPT !.st = "denied"]
  <1>1. s.socket \in Socket /\ s.ask \in Ask /\ s.token \in Owner
    BY DEF Tab
  <1>2. sock \in Socket /\ sock.of \in {s.socket.of, IF refreshed THEN s.token ELSE s.socket.of}
    BY <1>1 DEF Socket
  <1>3. /\ asks \in Ask /\ asks.kind = s.ask.kind /\ asks.who = s.ask.who
        /\ asks.bearer = s.ask.bearer \/ asks.bearer \in Users
    BY <1>1 DEF Ask
  <1>4. Asking(asks)
    BY <1>3 DEF Asking
  <1>5. Resumed(s, refreshed) = [s EXCEPT !.socket = sock, !.ask = asks]
    BY DEF Resumed
  <1> HIDE DEF sock, asks
  <1>6. [s EXCEPT !.socket = sock, !.ask = asks] \in Tab
    BY <1>2, <1>3 DEF Tab
  <1>7. /\ [s EXCEPT !.socket = sock, !.ask = asks].refresh = s.refresh
        /\ [s EXCEPT !.socket = sock, !.ask = asks].boot = s.boot
        /\ [s EXCEPT !.socket = sock, !.ask = asks].loading = s.loading
        /\ [s EXCEPT !.socket = sock, !.ask = asks].auth = s.auth
        /\ [s EXCEPT !.socket = sock, !.ask = asks].user = s.user
        /\ [s EXCEPT !.socket = sock, !.ask = asks].token = s.token
        /\ [s EXCEPT !.socket = sock, !.ask = asks].ask = asks
        /\ [s EXCEPT !.socket = sock, !.ask = asks].socket = sock
    BY DEF Tab
  <1> QED BY <1>2, <1>3, <1>4, <1>5, <1>6, <1>7


LEMMA RefreshSucceedsKeeps ==
  ASSUME WebInv, NEW t \in Tabs, RefreshSucceeds(t)
  PROVE  WebInv'
  <1> DEFINE r == tab[t].refresh
             s == [tab[t] EXCEPT !.refresh = NoRefresh]
             u == r.new.user
             s2 == [s EXCEPT !.token = u, !.auth = TRUE]
  <1>1. r.st = "granted" /\ tab[t].boot # "refreshing" /\ cookie' = r.new
        /\ UNCHANGED <<flag, server>>
    BY DEF RefreshSucceeds
  <1>2. r.with \in Tokens /\ r.new \in Tokens /\ u = r.with.user /\ u \in Users
    BY <1>1, Parts DEF Granted, Tokens
  <1>3. /\ s \in Tab /\ s.refresh = NoRefresh /\ s.ask = tab[t].ask /\ s.boot = tab[t].boot
        /\ s.loading = tab[t].loading /\ s.auth = tab[t].auth
        /\ s.user = tab[t].user /\ s.token = tab[t].token
        /\ s.socket = tab[t].socket
    BY Parts, Nothings DEF Tab
  <1>4. /\ s2 \in Tab /\ s2.refresh = NoRefresh /\ s2.ask = s.ask /\ s2.boot = s.boot
        /\ s2.loading = s.loading /\ s2.auth
        /\ s2.user = s.user /\ s2.token = u
        /\ s2.socket = s.socket
    BY <1>2, <1>3 DEF Tab, Owner
  <1>5. cookie' \in Tokens \cup {None}
    BY <1>1, <1>2
  <1>6. CASE ~Refreshed(r, s)
    <2> DEFINE new == Resumed(s, FALSE)
    <2>1. Put(t, new) /\ UNCHANGED past
      BY <1>6 DEF RefreshSucceeds
    <2>2. /\ new \in Tab /\ new.refresh = s.refresh /\ new.boot = s.boot
          /\ Asking(new.ask) /\ new.auth = s.auth
      BY <1>3, Parts, ResumedParts
    <2> HIDE DEF new
    <2>3. ~new.auth
      BY <1>6, <2>2 DEF Refreshed
    <2>4. Booting(new)
      BY <1>1, <1>3, <2>2 DEF Booting
    <2>5. Sound(new)
      BY <1>3, <2>2, <2>4, Nothings DEF Sound
    <2>6. Shared' /\ OthersAsBefore(t)
      BY <1>1, <1>5, <2>1 DEF WebInv, Shared, OthersAsBefore, Clean, Overtaken
    <2> HIDE DEF s, r
    <2> QED BY <2>1, <2>2, <2>3, <2>5, <2>6, SignedOutKeeps
  <1>7. CASE Refreshed(r, s)
    <2> DEFINE new == Resumed(s2, TRUE)
               crossing == s.auth /\ (r.by # s.user \/ r.with.user # r.by) /\ u # s.user
    <2>1. Put(t, new)
          /\ past' = [past EXCEPT !.crossed = IF crossing THEN @ \cup {t} ELSE @,
                                  !.revived = IF ~r.was THEN @ \cup {t} ELSE @]
      BY <1>7 DEF RefreshSucceeds
    <2>2. /\ new \in Tab /\ new.refresh = s2.refresh /\ new.boot = s2.boot
          /\ Asking(new.ask) /\ new.loading = s2.loading /\ new.auth = s2.auth
          /\ new.user = s2.user /\ new.token = s2.token
          /\ new.socket.of \in {s2.socket.of, s2.token}
      <3>1. s2 \in Tab /\ Asking(s2.ask) /\ s2.token \in Users
        BY <1>2, <1>3, <1>4, Parts
      <3> HIDE DEF s2
      <3> QED BY <3>1, ResumedParts
    <2>3. /\ past' \in History
          /\ past'.crossed = IF crossing THEN past.crossed \cup {t} ELSE past.crossed
          /\ past'.revived = IF ~r.was THEN past.revived \cup {t} ELSE past.revived
          /\ past'.mixed = past.mixed
      BY <2>1 DEF WebInv, Shared, History
    <2>4. Shared'
      BY <1>1, <1>5, <2>3 DEF WebInv, Shared
    <2>5. OthersAsBefore(t) /\ (Clean(t)' => Clean(t) /\ ~crossing /\ r.was)
      BY <2>3 DEF OthersAsBefore, Clean, Overtaken
    <2>6. ASSUME Clean(t)' PROVE tab[t].auth /\ new.user = u /\ new.token = u
      <3>1. tab[t].auth
        BY <1>3, <1>7, <2>5, <2>6 DEF Refreshed
      <3>2. u = s.user
        BY <1>2, <1>3, <2>5, <2>6, <3>1
      <3> QED BY <1>4, <2>2, <3>1, <3>2
    <2>7. Booting(new)
      BY <1>1, <1>3, <1>4, <2>2 DEF Booting
    <2>8. Sound(new)
      BY <1>4, <2>2, <2>7, Nothings DEF Sound
    <2>9. Clean(t)' => Own(new)
      BY <1>2, <2>6, NoneAssumption DEF Own
    <2>10. ASSUME Clean(t)' PROVE Hears(new)
      <3>1. Hears(tab[t])
        BY <2>5, <2>10, Parts
      <3>2. new.socket.of \in {tab[t].socket.of, u}
        BY <1>3, <1>4, <2>2
      <3>3. new.user = tab[t].user
        BY <1>3, <1>4, <2>2
      <3> QED BY <2>6, <2>10, <3>1, <3>2, <3>3 DEF Hears
    <2> HIDE DEF new
    <2> QED BY <2>1, <2>2, <2>4, <2>5, <2>8, <2>9, <2>10, PutKeeps
  <1> QED BY <1>6, <1>7

LEMMA RefreshFailsKeeps ==
  ASSUME WebInv, NEW t \in Tabs, RefreshFails(t)
  PROVE  WebInv'
  <1> DEFINE s == clearAuth([tab[t] EXCEPT !.refresh = NoRefresh])
             new == Resumed(s, FALSE)
  <1>1. Put(t, new) /\ tab[t].boot # "refreshing" /\ flag' = FALSE
        /\ UNCHANGED <<cookie, server, past>>
    BY DEF RefreshFails
  <1>2. s \in Tab /\ s.refresh = NoRefresh /\ s.ask = tab[t].ask /\ s.boot = tab[t].boot
    <2> DEFINE idle == [tab[t] EXCEPT !.refresh = NoRefresh]
    <2>1. /\ idle \in Tab /\ idle.refresh = NoRefresh
          /\ idle.ask = tab[t].ask /\ idle.boot = tab[t].boot
      BY Parts, Nothings DEF Tab
    <2> HIDE DEF idle
    <2>2. clearAuth(idle) \in Tab
      BY <2>1, Parts, AuthTab
    <2>3. /\ clearAuth(idle).refresh = idle.refresh /\ clearAuth(idle).ask = idle.ask
          /\ clearAuth(idle).boot = idle.boot
      BY <2>1 DEF clearAuth, Tab
    <2> QED BY <2>1, <2>2, <2>3 DEF idle
  <1>3. ~s.auth
    BY Parts DEF clearAuth, Tab
  <1> HIDE DEF s
  <1>4. /\ new \in Tab /\ new.refresh = s.refresh /\ new.boot = s.boot
        /\ Asking(new.ask) /\ new.auth = s.auth
    BY <1>2, Parts, ResumedParts
  <1> HIDE DEF new
  <1>5. Booting(new)
    BY <1>1, <1>2, <1>4 DEF Booting
  <1>6. Sound(new)
    BY <1>2, <1>4, <1>5, Nothings DEF Sound
  <1>7. Shared' /\ OthersAsBefore(t)
    BY <1>1 DEF WebInv, Shared, OthersAsBefore, Clean, Overtaken
  <1> QED BY <1>1, <1>3, <1>4, <1>6, <1>7, SignedOutKeeps

-----------------------------------------------------------------------------
(* Login, logout, the social callback. *)

LEMMA AsksKeeps ==
  ASSUME WebInv, NEW t \in Tabs, NEW page, NEW kind \in {"login", "logout", "social"},
         NEW u \in Owner, NEW loading \in BOOLEAN, kind # "logout" => u \in Users,
         Asks(t, page, kind, u, loading)
  PROVE  WebInv'
  <1> DEFINE a == [NoAsk EXCEPT !.kind = kind, !.who = u]
             new == [tab[t] EXCEPT !.loading = loading, !.ask = a]
  <1>1. Put(t, new) /\ ~tab[t].loading /\ UNCHANGED <<cookie, flag, server, past>>
    BY DEF Asks
  <1>2. a \in Ask /\ a.kind = kind /\ a.who = u
    BY Nothings DEF NoAsk, Ask, Owner
  <1>3. Asking(a)
    BY <1>2 DEF Asking
  <1> HIDE DEF a
  <1>4. new \in Tab
    BY <1>2, Parts DEF Tab
  <1>5. /\ new.refresh = tab[t].refresh /\ new.ask = a /\ new.boot = tab[t].boot
        /\ new.auth = tab[t].auth /\ new.user = tab[t].user /\ new.token = tab[t].token
        /\ new.socket = tab[t].socket
    BY Parts DEF Tab
  <1> HIDE DEF new
  <1>6. Booting(new)
    BY <1>1, <1>5, Parts DEF Booting
  <1>7. Sound(new)
    BY <1>3, <1>5, <1>6, Parts DEF Sound
  <1> QED BY <1>1, <1>4, <1>5, <1>7, SameUserKeeps

\* The call of a tab changes, nothing else.
LEMMA AskAnswerKeeps ==
  ASSUME WebInv, NEW t \in Tabs, NEW a \in Ask, a.kind = tab[t].ask.kind, a.who = tab[t].ask.who,
         a.bearer = tab[t].ask.bearer,
         tab' = [tab EXCEPT ![t] = [tab[t] EXCEPT !.ask = a]],
         server' \in [live : SUBSET Tokens, gen : 0..MaxGen],
         UNCHANGED <<cookie, flag, past>>
  PROVE  WebInv'
  <1> DEFINE v == [tab[t] EXCEPT !.ask = a]
  <1>1. v \in Tab
    BY Parts DEF Tab
  <1>2. /\ v.refresh = tab[t].refresh /\ v.ask = a /\ v.boot = tab[t].boot
        /\ v.page = tab[t].page
        /\ v.auth = tab[t].auth /\ v.loading = tab[t].loading
        /\ v.user = tab[t].user /\ v.token = tab[t].token
        /\ v.socket = tab[t].socket
    BY Parts DEF Tab
  <1> HIDE DEF v
  <1>3. Booting(v)
    BY <1>2, Parts DEF Booting
  <1>4. Asking(a)
    BY Parts DEF Asking
  <1>5. Sound(v)
    BY <1>2, <1>3, <1>4, Parts DEF Sound
  <1>6. Shared'
    BY DEF WebInv, Shared
  <1>7. tab' = [tab EXCEPT ![t] = v]
    BY DEF v
  <1> QED BY <1>1, <1>2, <1>5, <1>6, <1>7, AnswerKeeps

LEMMA AskServedKeeps ==
  ASSUME WebInv, NEW t \in Tabs, AskServed(t)
  PROVE  WebInv'
  <1> DEFINE a == tab[t].ask
  <1>1. server \in [live : SUBSET Tokens, gen : 0..MaxGen] /\ a \in Ask /\ a.kind # "none"
        /\ UNCHANGED <<cookie, flag, past>>
    BY Parts DEF WebInv, Shared, AskServed
  <1>2. CASE a.kind \in {"login", "social"} /\ Issue(a.who, {})
             /\ tab' = [tab EXCEPT ![t].ask.st = "granted", ![t].ask.new = Issued(a.who)]
    <2> DEFINE b == [a EXCEPT !.st = "granted", !.new = Issued(a.who)]
    <2>1. a.who \in Users
      BY <1>1, <1>2, Parts DEF Asking, Ask
    <2>2. Issued(a.who) \in Tokens /\ server' \in [live : SUBSET Tokens, gen : 0..MaxGen]
      BY <1>2, <2>1, IssueKeepsShared
    <2>3. b \in Ask /\ b.kind = a.kind /\ b.who = a.who /\ b.bearer = a.bearer
      BY <1>1, <2>2 DEF Ask
    <2>4. tab' = [tab EXCEPT ![t] = [tab[t] EXCEPT !.ask = b]]
      BY <1>2, Parts DEF WebInv, Tab
    <2> HIDE DEF b
    <2> QED BY <1>1, <2>2, <2>3, <2>4, AskAnswerKeeps
  <1>3. ASSUME NEW st \in {"granted", "denied"}, tab' = [tab EXCEPT ![t].ask.st = st],
               server' = [server EXCEPT !.live = @ \ {cookie}] \/ server' = server
        PROVE  WebInv'
    <2> DEFINE b == [a EXCEPT !.st = st]
    <2>1. b \in Ask /\ b.kind = a.kind /\ b.who = a.who /\ b.bearer = a.bearer
      BY <1>1 DEF Ask
    <2>2. server' \in [live : SUBSET Tokens, gen : 0..MaxGen]
      BY <1>1, <1>3
    <2>3. tab' = [tab EXCEPT ![t] = [tab[t] EXCEPT !.ask = b]]
      BY <1>3, Parts DEF WebInv, Tab
    <2> HIDE DEF b
    <2> QED BY <1>1, <2>1, <2>2, <2>3, AskAnswerKeeps
  <1> QED BY <1>2, <1>3 DEF AskServed

LEMMA AskUnauthorisedKeeps ==
  ASSUME WebInv, NEW t \in Tabs, AskUnauthorised(t)
  PROVE  WebInv'
  <1> DEFINE b == [tab[t].ask EXCEPT !.st = "waiting"]
             s == [tab[t] EXCEPT !.ask = b]
             new == refreshToken(s)
  <1>1. Put(t, new) /\ tab[t].ask.kind # "none" /\ UNCHANGED <<cookie, flag, server, past>>
    <2>1. s = [tab[t] EXCEPT !.ask.st = "waiting"]
      BY Parts DEF Tab
    <2> QED BY <2>1 DEF AskUnauthorised
  <1>2. /\ b \in Ask /\ b.kind = tab[t].ask.kind /\ b.who = tab[t].ask.who
        /\ b.bearer = tab[t].ask.bearer
    BY Parts DEF Ask
  <1>3. Asking(b)
    BY <1>2, Parts DEF Asking
  <1> HIDE DEF b
  <1>4. s \in Tab
    BY <1>2, Parts DEF Tab
  <1>5. /\ s.refresh = tab[t].refresh /\ s.ask = b /\ s.boot = tab[t].boot
        /\ s.loading = tab[t].loading
        /\ s.auth = tab[t].auth /\ s.user = tab[t].user /\ s.token = tab[t].token
        /\ s.socket = tab[t].socket
    BY Parts DEF Tab
  <1> HIDE DEF s
  <1>6. /\ new \in Tab /\ Granted(new.refresh)
        /\ new.ask = s.ask /\ new.boot = s.boot
        /\ new.auth = s.auth /\ new.user = s.user /\ new.token = s.token
        /\ new.socket = s.socket
    BY <1>4, <1>5, Parts, RefreshAsked
  <1> HIDE DEF new
  <1>7. Booting(new)
    BY <1>1, <1>5, <1>6, Parts DEF Booting
  <1>8. Sound(new)
    BY <1>3, <1>5, <1>6, <1>7 DEF Sound
  <1> QED BY <1>1, <1>5, <1>6, <1>8, SameUserKeeps


\* The session the call ends or begins is a new one.
LEMMA ForgivenResult ==
  ASSUME WebInv, NEW t \in Tabs, NEW mixes \in BOOLEAN, Forgiven(t, mixes)
  PROVE  /\ past' \in History
         /\ OthersAsBefore(t)
         /\ Clean(t)' => ~Listens(tab[t]) /\ ~mixes
  <1> DEFINE crossed == IF Listens(tab[t]) THEN past.crossed \cup {t} ELSE past.crossed \ {t}
             mixed == IF mixes THEN past.mixed \cup {t} ELSE past.mixed \ {t}
  <1>1. past \in History
    BY DEF WebInv, Shared
  <1>2. past' = [past EXCEPT !.crossed = crossed, !.revived = past.revived \ {t},
                             !.mixed = mixed]
    BY <1>1 DEF Forgiven, History
  <1>3. crossed \in SUBSET Tabs /\ past.revived \ {t} \in SUBSET Tabs /\ mixed \in SUBSET Tabs
    BY <1>1 DEF History
  <1>4. /\ crossed \ {t} = past.crossed \ {t} /\ (Listens(tab[t]) => t \in crossed)
        /\ mixed \ {t} = past.mixed \ {t} /\ (mixes => t \in mixed)
    OBVIOUS
  <1> HIDE DEF crossed, mixed
  <1>5. /\ past' \in History
        /\ past'.crossed = crossed /\ past'.revived = past.revived \ {t}
        /\ past'.mixed = mixed
    BY <1>1, <1>2, <1>3 DEF History
  <1> QED BY <1>4, <1>5 DEF OthersAsBefore, Clean, Overtaken

LEMMA LoginSucceedsKeeps ==
  ASSUME WebInv, NEW t \in Tabs, LoginSucceeds(t)
  PROVE  WebInv'
  <1> DEFINE a == tab[t].ask
             s == setAuth(tab[t], None, a.who)
             new == [s EXCEPT !.ask = NoAsk]
  <1>1. /\ a.kind = "login" /\ cookie' = a.new /\ Put(t, new) /\ Forgiven(t, FALSE)
        /\ UNCHANGED <<flag, server>>
    BY DEF LoginSucceeds
  <1>2. a.who \in Users /\ a.who \in Owner /\ a.new \in Tokens \cup {None}
    BY <1>1, Parts DEF Asking, Ask, Owner
  <1>3. new \in Tab
    <2>1. s \in Tab
      BY <1>2, Parts, AuthTab DEF Owner
    <2> HIDE DEF s
    <2> QED BY <2>1, Nothings, AskedTab
  <1>4. /\ new.refresh = tab[t].refresh /\ new.ask = NoAsk /\ new.boot = tab[t].boot
        /\ new.user = a.who /\ new.token = None
    BY Parts DEF setAuth, Tab
  <1> HIDE DEF new, s
  <1>5. tab[t].boot # "refreshing"
    BY <1>1, Parts DEF Booting
  <1>6. Sound(new)
    BY <1>4, <1>5, Parts, Nothings DEF Sound, Booting
  <1>7. Own(new)
    BY <1>2, <1>4, NoneAssumption DEF Own
  <1>8. /\ past' \in History
        /\ OthersAsBefore(t)
        /\ Clean(t)' => ~Listens(tab[t])
    BY <1>1, ForgivenResult
  <1>9. Shared'
    BY <1>1, <1>2, <1>8 DEF WebInv, Shared
  <1> QED BY <1>1, <1>3, <1>6, <1>7, <1>8, <1>9, PutKeeps

LEMMA LoginFailsKeeps ==
  ASSUME WebInv, NEW t \in Tabs, LoginFails(t)
  PROVE  WebInv'
  <1> DEFINE new == [tab[t] EXCEPT !.loading = FALSE, !.ask = NoAsk]
  <1>1. Put(t, new) /\ tab[t].ask.kind = "login" /\ UNCHANGED <<cookie, flag, server, past>>
    BY DEF LoginFails
  <1>2. new \in Tab
    BY Parts, Nothings DEF Tab
  <1>3. /\ new.refresh = tab[t].refresh /\ new.ask = NoAsk /\ new.boot = tab[t].boot
        /\ new.auth = tab[t].auth /\ new.user = tab[t].user /\ new.token = tab[t].token
        /\ new.socket = tab[t].socket
    BY Parts DEF Tab
  <1> HIDE DEF new
  <1>4. tab[t].boot # "refreshing"
    BY <1>1, Parts DEF Booting
  <1>5. Sound(new)
    BY <1>3, <1>4, Parts, Nothings DEF Sound, Booting
  <1> QED BY <1>1, <1>2, <1>3, <1>5, SameUserKeeps

LEMMA LogoutEndsKeeps ==
  ASSUME WebInv, NEW t \in Tabs, LogoutEnds(t)
  PROVE  WebInv'
  <1> DEFINE s == clearAuth(tab[t])
             new == [s EXCEPT !.ask = NoAsk]
  <1>1. /\ tab[t].ask.kind = "logout" /\ cookie' \in {None, cookie} /\ Put(t, new)
        /\ flag' = FALSE /\ Forgiven(t, FALSE) /\ UNCHANGED server
    BY DEF LogoutEnds
  <1>2. new \in Tab
    <2>1. s \in Tab
      BY Parts, AuthTab
    <2> HIDE DEF s
    <2> QED BY <2>1, Nothings, AskedTab
  <1>3. new.refresh = tab[t].refresh /\ new.ask = NoAsk /\ new.boot = tab[t].boot
    BY Parts DEF clearAuth, Tab
  <1>4. ~new.auth
    BY Parts DEF clearAuth, Tab
  <1> HIDE DEF new, s
  <1>5. tab[t].boot # "refreshing"
    BY <1>1, Parts DEF Booting
  <1>6. Sound(new)
    BY <1>3, <1>5, Parts, Nothings DEF Sound, Booting
  <1>7. /\ past' \in History
        /\ OthersAsBefore(t)
    BY <1>1, ForgivenResult
  <1>8. Shared'
    BY <1>1, <1>7 DEF WebInv, Shared
  <1> QED BY <1>1, <1>2, <1>4, <1>6, <1>7, <1>8, SignedOutKeeps

LEMMA CallbackExchangedKeeps ==
  ASSUME WebInv, NEW t \in Tabs, CallbackExchanged(t)
  PROVE  WebInv'
  <1> DEFINE a == tab[t].ask
             bearer == IF tab[t].token # None THEN tab[t].token ELSE a.who
             me == [NoAsk EXCEPT !.kind = "me", !.who = a.who, !.bearer = bearer]
             new == [tab[t] EXCEPT !.ask = me]
  <1>1. /\ a.kind = "social" /\ cookie' \in {cookie, a.new} /\ Put(t, new)
        /\ UNCHANGED <<flag, server, past>>
    BY DEF CallbackExchanged
  <1>2. a.who \in Users /\ a.who \in Owner /\ a.new \in Tokens \cup {None}
    BY <1>1, Parts DEF Asking, Ask, Owner
  <1>3. bearer \in Users /\ bearer \in Owner
    BY <1>2, Parts DEF Owner
  <1> HIDE DEF bearer
  <1>4. me \in Ask /\ me.kind = "me" /\ me.who = a.who /\ me.bearer = bearer
    BY <1>2, <1>3, Nothings DEF NoAsk, Ask
  <1>5. Asking(me)
    BY <1>2, <1>3, <1>4 DEF Asking
  <1> HIDE DEF me
  <1>6. new \in Tab
    BY <1>4, Parts DEF Tab
  <1>7. /\ new.refresh = tab[t].refresh /\ new.ask = me /\ new.boot = tab[t].boot
        /\ new.auth = tab[t].auth /\ new.user = tab[t].user /\ new.token = tab[t].token
        /\ new.socket = tab[t].socket
    BY Parts DEF Tab
  <1> HIDE DEF new
  <1>8. tab[t].boot # "refreshing"
    BY <1>1, Parts DEF Booting
  <1>9. Sound(new)
    BY <1>5, <1>7, <1>8, Parts DEF Sound, Booting
  <1>10. Shared'
    BY <1>1, <1>2 DEF WebInv, Shared
  <1>11. OthersAsBefore(t) /\ (Clean(t)' => Clean(t))
    BY <1>1 DEF OthersAsBefore, Clean, Overtaken
  <1>12. ASSUME Clean(t)' PROVE Own(new) /\ Hears(new)
    <2>1. Own(tab[t]) /\ Hears(tab[t])
      BY <1>11, <1>12, Parts
    <2>2. Own(new)
      BY <1>7, <2>1 DEF Own
    <2>3. Hears(new)
      BY <1>7, <2>1 DEF Hears
    <2> QED BY <2>2, <2>3
  <1> QED BY <1>1, <1>6, <1>9, <1>10, <1>11, <1>12, PutKeeps

LEMMA CallbackEndsKeeps ==
  ASSUME WebInv, NEW t \in Tabs, CallbackEnds(t)
  PROVE  WebInv'
  <1> DEFINE a == tab[t].ask
  <1>1. a.kind \in {"social", "me"} /\ UNCHANGED <<cookie, server>>
    BY DEF CallbackEnds
  <1>2. tab[t].boot # "refreshing"
    BY <1>1, Parts DEF Booting
  <1>3. CASE /\ a.kind = "me"
             /\ Put(t, [setAuth(tab[t], a.who, a.bearer) EXCEPT !.ask = NoAsk, !.page = "app"])
             /\ flag' = TRUE /\ Forgiven(t, a.bearer # a.who)
    <2> DEFINE s == setAuth(tab[t], a.who, a.bearer)
               new == [s EXCEPT !.ask = NoAsk, !.page = "app"]
               mixes == a.bearer # a.who
    <2>1. a.who \in Users /\ a.who \in Owner /\ a.bearer \in Users /\ a.bearer \in Owner
      BY <1>3, Parts DEF Asking, Owner
    <2>2. new \in Tab
      <3>1. s \in Tab
        BY <2>1, Parts, AuthTab
      <3> HIDE DEF s
      <3> QED BY <3>1, Nothings, AskedTab
    <2>3. /\ new.refresh = tab[t].refresh /\ new.ask = NoAsk /\ new.boot = tab[t].boot
          /\ new.user = a.bearer /\ new.token = a.who
      BY Parts DEF setAuth, Tab
    <2>4. Put(t, new) /\ Forgiven(t, mixes) /\ mixes \in BOOLEAN
      BY <1>3
    <2>5. ~mixes => a.bearer = a.who
      OBVIOUS
    <2> HIDE DEF new, s, mixes
    <2>6. Sound(new)
      BY <1>2, <2>3, Parts, Nothings DEF Sound, Booting
    <2>7. past' \in History /\ OthersAsBefore(t) /\ (Clean(t)' => ~Listens(tab[t]) /\ ~mixes)
      BY <2>4, ForgivenResult
    <2>8. Clean(t)' => Own(new)
      BY <2>1, <2>3, <2>5, <2>7, NoneAssumption DEF Own
    <2>9. Shared'
      BY <1>1, <1>3, <2>7 DEF WebInv, Shared
    <2> QED BY <2>2, <2>4, <2>6, <2>7, <2>8, <2>9, PutKeeps
  <1>4. CASE /\ Put(t, [tab[t] EXCEPT !.ask = NoAsk, !.page = "app"])
             /\ UNCHANGED <<flag, past>>
    <2> DEFINE new == [tab[t] EXCEPT !.ask = NoAsk, !.page = "app"]
    <2>1. new \in Tab
      BY Parts, Nothings DEF Tab
    <2>2. /\ new.refresh = tab[t].refresh /\ new.ask = NoAsk /\ new.boot = tab[t].boot
          /\ new.auth = tab[t].auth /\ new.user = tab[t].user /\ new.token = tab[t].token
          /\ new.socket = tab[t].socket
      BY Parts DEF Tab
    <2>3. Put(t, new)
      BY <1>4
    <2> HIDE DEF new
    <2>4. Sound(new)
      BY <1>2, <2>2, Parts, Nothings DEF Sound, Booting
    <2> QED BY <1>1, <1>4, <2>1, <2>2, <2>3, <2>4, SameUserKeeps
  <1> QED BY <1>3, <1>4 DEF CallbackEnds

-----------------------------------------------------------------------------
(* The socket, and the other tabs. *)

\* The socket of a tab changes, nothing else.
LEMMA SocketKeeps ==
  ASSUME WebInv, NEW t \in Tabs, NEW sock \in Socket,
         sock.of = None \/ (Listens(tab[t]) /\ sock.of = tab[t].token),
         tab' = [tab EXCEPT ![t] = [tab[t] EXCEPT !.socket = sock]],
         UNCHANGED <<cookie, flag, server, past>>
  PROVE  WebInv'
  <1> DEFINE v == [tab[t] EXCEPT !.socket = sock]
  <1>1. v \in Tab
    BY Parts DEF Tab
  <1>2. /\ v.refresh = tab[t].refresh /\ v.ask = tab[t].ask /\ v.boot = tab[t].boot
        /\ v.page = tab[t].page
        /\ v.auth = tab[t].auth /\ v.loading = tab[t].loading
        /\ v.user = tab[t].user /\ v.token = tab[t].token
        /\ v.socket = sock
    BY Parts DEF Tab
  <1>3. tab' = [tab EXCEPT ![t] = v]
    OBVIOUS
  <1> HIDE DEF v
  <1>4. Booting(v)
    BY <1>2, Parts DEF Booting
  <1>5. Sound(v)
    BY <1>2, <1>4, Parts DEF Sound
  <1>6. Listens(v) = Listens(tab[t])
    BY <1>2 DEF Listens
  <1>7. Quiet(v)
    BY <1>2, <1>6 DEF Quiet
  <1>8. Shared' /\ OthersAsBefore(t) /\ (Clean(t)' => Clean(t))
    BY DEF WebInv, Shared, OthersAsBefore, Clean, Overtaken
  <1>9. ASSUME Clean(t)' PROVE Own(v) /\ Hears(v)
    <2>1. Own(tab[t])
      BY <1>8, <1>9, Parts
    <2>2. Own(v)
      BY <1>2, <2>1 DEF Own
    <2>3. CASE sock.of = None
      BY <1>2, <2>2, <2>3 DEF Hears
    <2>4. CASE Listens(tab[t]) /\ sock.of = tab[t].token
      <3>1. tab[t].token \in {None, tab[t].user}
        BY <2>1, <2>4 DEF Own, Listens
      <3>2. Hears(v)
        BY <1>2, <2>4, <3>1 DEF Hears
      <3> QED BY <2>2, <3>2
    <2> QED BY <2>3, <2>4
  <1> QED BY <1>1, <1>3, <1>5, <1>7, <1>8, <1>9, ChangeKeeps

LEMMA HeaderMountsKeeps ==
  ASSUME WebInv, NEW t \in Tabs, HeaderMounts(t) \/ SocketGivenUp(t)
  PROVE  WebInv'
  <1>1. CASE HeaderMounts(t)
    <2>1. useWebSocket(tab[t]) \in Socket /\ useWebSocket(tab[t]).of = tab[t].token
      BY Parts DEF useWebSocket, Socket, Owner
    <2>2. /\ Listens(tab[t]) /\ UNCHANGED <<cookie, flag, server, past>>
          /\ tab' = [tab EXCEPT ![t] = [tab[t] EXCEPT !.socket = useWebSocket(tab[t])]]
      BY <1>1, Parts DEF HeaderMounts, WebInv, Tab
    <2> QED BY <2>1, <2>2, SocketKeeps
  <1>2. CASE SocketGivenUp(t)
    <2> DEFINE sock == [st |-> "dead", of |-> None]
    <2>1. sock \in Socket /\ sock.of = None
      BY DEF Socket, Owner
    <2>2. /\ UNCHANGED <<cookie, flag, server, past>>
          /\ tab' = [tab EXCEPT ![t] = [tab[t] EXCEPT !.socket = sock]]
      BY <1>2, Parts DEF SocketGivenUp, WebInv, Tab
    <2> HIDE DEF sock
    <2> QED BY <2>1, <2>2, SocketKeeps
  <1> QED BY <1>1, <1>2

LEMMA SocketRefusedKeeps ==
  ASSUME WebInv, NEW t \in Tabs, SocketRefused(t)
  PROVE  WebInv'
  <1> DEFINE sock == [st |-> "refused", of |-> None]
             s == [tab[t] EXCEPT !.socket = sock]
             new == refreshToken(s)
  <1>1. Put(t, new) /\ UNCHANGED <<cookie, flag, server, past>>
    BY DEF SocketRefused
  <1>2. sock \in Socket /\ sock.of = None
    BY DEF Socket, Owner
  <1> HIDE DEF sock
  <1>3. s \in Tab
    BY <1>2, Parts DEF Tab
  <1>4. /\ s.refresh = tab[t].refresh /\ s.ask = tab[t].ask /\ s.boot = tab[t].boot
        /\ s.loading = tab[t].loading
        /\ s.auth = tab[t].auth /\ s.user = tab[t].user /\ s.token = tab[t].token
        /\ s.socket = sock
    BY Parts DEF Tab
  <1> HIDE DEF s
  <1>5. /\ new \in Tab /\ Granted(new.refresh)
        /\ new.ask = s.ask /\ new.boot = s.boot /\ new.loading = s.loading
        /\ new.auth = s.auth /\ new.user = s.user /\ new.token = s.token
        /\ new.socket = s.socket
    BY <1>3, <1>4, Parts, RefreshAsked
  <1> HIDE DEF new
  <1>6. Booting(new)
    BY <1>4, <1>5, Parts DEF Booting
  <1>7. Sound(new)
    BY <1>4, <1>5, <1>6, Parts DEF Sound
  <1> QED BY <1>1, <1>2, <1>4, <1>5, <1>7, SameUserKeeps

LEMMA ElsewhereKeeps ==
  ASSUME WebInv, Elsewhere
  PROVE  WebInv'
  <1>1. UNCHANGED <<tab, past>>
    BY DEF Elsewhere, LoggedInElsewhere, RefreshedElsewhere, LoggedOutElsewhere
  <1>2. Shared'
    <2>1. ASSUME NEW u \in Users, LoggedInElsewhere(u) PROVE Shared'
      <3>1. Issue(u, {}) /\ cookie' = Issued(u) /\ flag' \in {flag, TRUE} /\ UNCHANGED past
        BY <2>1 DEF LoggedInElsewhere
      <3>2. Issued(u) \in Tokens /\ server' \in [live : SUBSET Tokens, gen : 0..MaxGen]
        BY <3>1, IssueKeepsShared
      <3> QED BY <3>1, <3>2 DEF WebInv, Shared
    <2>2. CASE RefreshedElsewhere
      <3>1. /\ cookie \in server.live /\ Issue(cookie.user, {cookie})
            /\ cookie' = Issued(cookie.user) /\ UNCHANGED <<flag, past>>
        BY <2>2 DEF RefreshedElsewhere
      <3>2. cookie \in Tokens /\ cookie.user \in Users
        BY <3>1 DEF WebInv, Shared, Tokens
      <3>3. /\ Issued(cookie.user) \in Tokens
            /\ server' \in [live : SUBSET Tokens, gen : 0..MaxGen]
        BY <3>1, <3>2, IssueKeepsShared
      <3> QED BY <3>1, <3>3 DEF WebInv, Shared
    <2>3. CASE LoggedOutElsewhere
      BY <2>3 DEF LoggedOutElsewhere, WebInv, Shared
    <2> QED BY <2>1, <2>2, <2>3 DEF Elsewhere
  <1>3. \A t \in Tabs : Clean(t)' = Clean(t)
    BY <1>1 DEF Clean, Overtaken
  <1> QED BY <1>1, <1>2, <1>3 DEF WebInv, Sound, Quiet, Own, Hears, Granted, Booting, Asking, Listens

-----------------------------------------------------------------------------
(* The theorems. *)

LEMMA WebInit == Init => WebInv
  <1> SUFFICES ASSUME Init PROVE WebInv
    OBVIOUS
  <1>1. Loaded \in Tab
    BY Nothings DEF Loaded, Tab, Owner
  <1>2. /\ Loaded.refresh = NoRefresh /\ Loaded.ask = NoAsk /\ Loaded.boot = "csrf"
        /\ Loaded.socket = NoSocket
    BY DEF Loaded
  <1>3. ~Loaded.auth
    BY DEF Loaded
  <1>4. Sound(Loaded) /\ Quiet(Loaded) /\ Own(Loaded) /\ Hears(Loaded)
    BY <1>2, <1>3, Nothings DEF Sound, Booting, Quiet, Own, Hears
  <1>5. Shared
    <2>1. cookie = None /\ flag = FALSE
      BY DEF Init
    <2>2. cookie \in Tokens \cup {None} /\ flag \in BOOLEAN
      BY <2>1
    <2>3. server \in [live : SUBSET Tokens, gen : 0..MaxGen]
      BY BoundsAssumption DEF Init
    <2>4. past \in History
      BY DEF Init, History
    <2> QED BY <2>2, <2>3, <2>4 DEF Shared
  <1>6. tab \in [Tabs -> Tab] /\ \A t \in Tabs : tab[t] = Loaded
    BY <1>1 DEF Init
  <1> QED BY <1>4, <1>5, <1>6 DEF WebInv

LEMMA WebStep == WebInv /\ [Next]_vars => WebInv'
  <1> SUFFICES ASSUME WebInv, [Next]_vars PROVE WebInv'
    OBVIOUS
  <1>1. ASSUME NEW t \in Tabs, Load(t, "app") \/ Load(t, "callback") \/ Boot(t)
        PROVE  WebInv'
    BY <1>1, LoadKeeps, RestoredKeeps, ProfileLoadedKeeps, ProfileExpiredKeeps,
       ProfileFailsKeeps, BootEndsKeeps DEF Boot
  <1>2. ASSUME NEW t \in Tabs,
               Requests(t) \/ Answered(t) \/ authErrorInterceptor(t) \/ Served(t)
        PROVE  WebInv'
    BY <1>2, RequestsKeeps, AuthErrorKeeps, RefreshServedKeeps, AskServedKeeps,
       AskUnauthorisedKeeps DEF Served
  <1>3. ASSUME NEW t \in Tabs, Returned(t) PROVE WebInv'
    BY <1>3, RefreshSucceedsKeeps, RefreshFailsKeeps, LoginSucceedsKeeps, LoginFailsKeeps,
       LogoutEndsKeeps, CallbackExchangedKeeps, CallbackEndsKeeps DEF Returned
  <1>4. ASSUME NEW t \in Tabs, NEW u \in Users, Login(t, u) \/ Callback(t, u)
        PROVE  WebInv'
    <2>1. u \in Owner
      BY DEF Owner
    <2> QED BY <1>4, <2>1, AsksKeeps DEF Login, Callback
  <1>5. ASSUME NEW t \in Tabs, Logout(t) PROVE WebInv'
    BY <1>5, Parts, AsksKeeps DEF Logout
  <1>6. ASSUME NEW t \in Tabs, HeaderMounts(t) \/ SocketRefused(t) \/ SocketGivenUp(t)
        PROVE  WebInv'
    BY <1>6, HeaderMountsKeeps, SocketRefusedKeeps
  <1>7. CASE UNCHANGED vars
    <2>1. Shared' /\ \A t \in Tabs : Clean(t)' = Clean(t)
      BY <1>7 DEF vars, WebInv, Shared, Clean, Overtaken
    <2> QED BY <1>7, <2>1
            DEF vars, WebInv, Sound, Quiet, Own, Hears, Granted, Booting, Asking, Listens
  <1> QED BY <1>1, <1>2, <1>3, <1>4, <1>5, <1>6, <1>7, ElsewhereKeeps DEF Next, Acts

\* The strengthened invariant: what is on its way in a tab, whose session it shows and whose
\* notices it hears, unless its session was crossed, revived or mixed.
THEOREM WebInvariant == Spec => []WebInv
  BY WebInit, WebStep, PTL DEF Spec

\* The shared state and the tabs keep their shape; in particular the server issues no more
\* tokens than MaxGen.
THEOREM WebTypeCorrect == Spec => []TypeOK
  <1>1. WebInv => TypeOK
    BY DEF WebInv, Shared, TypeOK
  <1> QED BY <1>1, WebInvariant, PTL

\* A page that is shown as signed in shows its user and calls the server as that user, unless
\* a refresh overtook a login, a leftover cookie revived a session, or a social login asked
\* for its profile with a token that was in the store.
\* (authStore.ts: setAuth, refreshToken, logout; useInitAuth; SocialAuthCallbackPage)
THEOREM ShowsWhoIsSignedIn == Spec => []SignedInAsShown
  <1>1. WebInv => SignedInAsShown
    <2> SUFFICES ASSUME WebInv, NEW t \in Tabs, Listens(tab[t])
                 PROVE  \/ Overtaken(t)
                        \/ tab[t].user # None /\ tab[t].token \in {None, tab[t].user}
      BY DEF SignedInAsShown
    <2>1. tab[t].auth
      BY DEF Listens
    <2>2. Clean(t) => Own(tab[t])
      BY Parts
    <2> QED BY <2>1, <2>2 DEF Clean, Own
  <1> QED BY <1>1, WebInvariant, PTL

\* The notifications that arrive are those of the user who is shown, with the same exceptions.
\* (useWebSocket, useNotificationWebSocket)
THEOREM HearsWhoIsShown == Spec => []HearsOwnNotices
  <1>1. WebInv => HearsOwnNotices
    BY Parts DEF HearsOwnNotices, Clean, Hears
  <1> QED BY <1>1, WebInvariant, PTL


=============================================================================
