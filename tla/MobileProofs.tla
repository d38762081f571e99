------------------------------ MODULE MobileProofs ------------------------------
(***************************************************************************)
(* Proofs about the mobile app (MobileSession, MobileClient), for any       *)
(* accounts, screens, drains, mutations and number of logins, in four       *)
(* parts, each of which rests on the ones before.                           *)
(*                                                                          *)
(* The session: no refresh token is presented twice unless an answer was    *)
(* lost, and the store, the tokens and the saved profile belong to one      *)
(* account unless a login overtook calls of the session before.             *)
(*                                                                          *)
(* The queue, under any outages and kills: what was queued while no drain   *)
(* ran never vanishes.  A drain leaves the stored queue alone until it is   *)
(* done, so that what may not get lost is in the queue and in every drain.  *)
(*                                                                          *)
(* The retries: nothing fails more often than MAX_RETRIES, unless the app   *)
(* was killed or two drains overlapped: the counter is in the entry, so     *)
(* that what counts is that a mutation is held once, and that the entry     *)
(* that is held knows of all its failures.                                  *)
(*                                                                          *)
(* Whose calls are made: a call, queued or not, is executed for the account *)
(* it was made for, unless a login overtook pending calls or a drain        *)
(* outlived a logout.                                                       *)
(***************************************************************************)
EXTENDS MobileClient, SequenceTheorems, TLAPS

-----------------------------------------------------------------------------
(* The session: the inductive invariant. *)

SessionType ==
    /\ store \in [user : Users \cup {None}, authed : BOOLEAN, hydrated : BOOLEAN]
    /\ disk \in [tok : Tokens \cup {None}, user : Users \cup {None}]
    /\ reqs \in [Slots -> Request]
    /\ refresh \in Tokens \cup {None}
    /\ leaving \in BOOLEAN
    /\ server \in [refreshable : SUBSET Tokens, spent : SUBSET Tokens, gen : 0..MaxGen]
    /\ past \in [crossed : BOOLEAN, lost : BOOLEAN, replayed : BOOLEAN, foreign : BOOLEAN]

\* A slot at rest has no token.
AtRest == \A r \in Slots : reqs[r].st = "idle" => reqs[r].tok = None

\* While the app starts nothing but hydrate's getMe calls, with the stored tokens.
Starting ==
    ~store.hydrated =>
        /\ ~store.authed /\ ~leaving
        /\ \A r \in Slots \ {Me} : reqs[r].st = "idle"
        /\ refresh # None => reqs[Me].st = "refreshing"
        /\ reqs[Me].st # "idle" => disk.tok # None

\* A session has its tokens and its user.
SignedIn ==
    store.authed => disk.tok # None /\ disk.user # None /\ store.user # None

\* Everything that names an account names u.
BelongsTo(u) ==
    /\ store.user \in {None, u} /\ disk.user \in {None, u}
    /\ disk.tok # None => disk.tok.user = u
    /\ refresh # None => refresh.user = u
    /\ \A r \in Slots : reqs[r].tok # None => reqs[r].tok.user = u
OneOwner == ~past.crossed => \E u \in Users \cup {None} : BelongsTo(u)

\* The tokens still to be presented are not the ones rotated away.
Issued == \A t \in server.refreshable \cup server.spent : t.gen <= server.gen
Unspent ==
    ~past.lost => ~past.replayed /\ refresh \notin server.spent /\ disk.tok \notin server.spent

Session == SessionType /\ AtRest /\ Starting /\ SignedIn /\ OneOwner /\ Issued /\ Unspent

-----------------------------------------------------------------------------
(* Tokens and requests. *)

LEMMA MeIsSlot == Me \in Slots
  BY DEF Slots

LEMMA AuthorisedRequest ==
  ASSUME Session, NEW q \in Request
  PROVE  /\ Authorised(q) \in Request
         /\ Authorised(q).st = q.st
         /\ Authorised(q).tok \in {q.tok, disk.tok}
         /\ disk.tok # None => Authorised(q).tok = disk.tok
  <1>1. disk.tok \in Tokens \cup {None}
    BY DEF Session, SessionType
  <1>2. CASE disk.tok = None
    BY <1>2 DEF Authorised
  <1>3. CASE disk.tok # None
    <2>1. Authorised(q) = [q EXCEPT !.tok = disk.tok]
      BY <1>3 DEF Authorised
    <2>2. [q EXCEPT !.tok = disk.tok] \in Request
      BY <1>1 DEF Request
    <2>3. /\ [q EXCEPT !.tok = disk.tok].st = q.st
          /\ [q EXCEPT !.tok = disk.tok].tok = disk.tok
      BY DEF Request
    <2> QED BY <1>3, <2>1, <2>2, <2>3
  <1> QED BY <1>2, <1>3

LEMMA NoRequestType ==
  NoRequest \in Request /\ NoRequest.st = "idle" /\ NoRequest.tok = None
  BY BoundsAssumption DEF NoRequest, Request

LEMMA FreshRequest ==
  ASSUME Session
  PROVE  /\ Fresh \in Request /\ Fresh.st = "sent"
         /\ Fresh.tok = disk.tok
  <1>1. /\ store.user \in Users \cup {None}
        /\ disk.tok \in Tokens \cup {None}
    BY DEF Session, SessionType
  <1>2. [NoRequest EXCEPT !.st = "sent", !.by = store.user] \in Request
    BY <1>1, NoRequestType DEF Request
  <1>3. /\ [NoRequest EXCEPT !.st = "sent", !.by = store.user].st = "sent"
        /\ [NoRequest EXCEPT !.st = "sent", !.by = store.user].tok = None
    BY NoRequestType DEF Request
  <1> QED BY <1>1, <1>2, <1>3, AuthorisedRequest DEF Fresh

\* A pair that is issued now is none of the ones issued before.
LEMMA IssueNew ==
  ASSUME Session, NEW u \in Users, server.gen < MaxGen
  PROVE  /\ Issue(u) \in Tokens /\ Issue(u) # None
         /\ Issue(u).user = u /\ Issue(u).gen = server.gen + 1
         /\ Issue(u) \notin server.refreshable \cup server.spent
  <1>1. server.gen \in 0..MaxGen
    BY DEF Session, SessionType
  <1>2. Issue(u) \in Tokens /\ Issue(u).user = u /\ Issue(u).gen = server.gen + 1
    BY <1>1, BoundsAssumption DEF Issue, Tokens
  <1>3. ASSUME Issue(u) \in server.refreshable \cup server.spent PROVE FALSE
    BY <1>1, <1>2, <1>3, BoundsAssumption DEF Session, Issued
  <1> QED BY <1>2, <1>3, NoneAssumption

LEMMA RotatesServer ==
  ASSUME Session, refresh \in Tokens \cup {None}, Rotates
  PROVE  /\ refresh \in Tokens /\ refresh # None /\ refresh.user \in Users
         /\ server' \in [refreshable : SUBSET Tokens, spent : SUBSET Tokens, gen : 0..MaxGen]
         /\ Issued'
         /\ server'.spent = server.spent \cup {refresh}
         /\ Issue(refresh.user) \in Tokens
         /\ Issue(refresh.user) # None
         /\ Issue(refresh.user).user = refresh.user
         /\ Issue(refresh.user) \notin server'.spent
  <1>1. /\ refresh \in server.refreshable /\ server.gen < MaxGen
        /\ server.refreshable \subseteq Tokens /\ server.spent \subseteq Tokens
        /\ server.gen \in 0..MaxGen
    BY DEF Rotates, Session, SessionType
  <1>2. refresh \in Tokens /\ refresh # None /\ refresh.user \in Users
    BY <1>1, NoneAssumption DEF Tokens
  <1>3. /\ Issue(refresh.user) \in Tokens /\ Issue(refresh.user) # None
        /\ Issue(refresh.user).user = refresh.user
        /\ Issue(refresh.user).gen = server.gen + 1
        /\ Issue(refresh.user) \notin server.refreshable \cup server.spent
    BY <1>1, <1>2, IssueNew
  <1>4. /\ server'.refreshable = (server.refreshable \ {refresh}) \cup {Issue(refresh.user)}
        /\ server'.spent = server.spent \cup {refresh}
        /\ server'.gen = server.gen + 1
        /\ server' \in [refreshable : SUBSET Tokens, spent : SUBSET Tokens, gen : 0..MaxGen]
    BY <1>1, <1>2, <1>3, BoundsAssumption DEF Rotates
  <1>5. Issued'
    <2> SUFFICES ASSUME NEW t \in server'.refreshable \cup server'.spent
                 PROVE  t.gen <= server'.gen
      BY DEF Issued
    <2>1. t \in server.refreshable \cup server.spent \/ t = Issue(refresh.user)
      BY <1>1, <1>4
    <2>2. CASE t \in server.refreshable \cup server.spent
      <3>1. t.gen <= server.gen /\ t.gen \in Nat
        BY <1>1, <2>2, BoundsAssumption DEF Session, Issued, Tokens
      <3> QED BY <1>1, <1>4, <3>1
    <2> QED BY <1>1, <1>3, <1>4, <2>1, <2>2
  <1> QED BY <1>1, <1>2, <1>3, <1>4, <1>5

-----------------------------------------------------------------------------
(* Steps that only move requests. *)

\* A request keeps its token, takes the stored one or loses it with its slot.
LEMMA RequestsMove ==
  ASSUME Session, reqs' \in [Slots -> Request],
         UNCHANGED <<store, disk, leaving, server>>,
         past' \in [crossed : BOOLEAN, lost : BOOLEAN, replayed : BOOLEAN, foreign : BOOLEAN],
         past'.crossed = past.crossed, past'.lost = past.lost,
         past'.replayed = past.replayed,
         refresh' \in {refresh, disk.tok},
         AtRest', Starting',
         \A r \in Slots : reqs'[r].tok \in {reqs[r].tok, disk.tok, None}
  PROVE  Session'
  <1>1. SessionType'
    BY DEF Session, SessionType
  <1>2. SignedIn' /\ Issued' /\ Unspent'
    BY DEF Session, SignedIn, Issued, Unspent
  <1>3. OneOwner'
    <2> SUFFICES ASSUME ~past.crossed
                 PROVE  \E u \in Users \cup {None} : BelongsTo(u)'
      BY DEF OneOwner
    <2>1. PICK u \in Users \cup {None} : BelongsTo(u)
      BY DEF Session, OneOwner
    <2>2. BelongsTo(u)'
      BY <2>1 DEF BelongsTo
    <2> QED BY <2>2
  <1> QED BY <1>1, <1>2, <1>3 DEF Session

LEMMA ThrottledSession == ASSUME Session, NEW r \in Slots, ThrottledAgain(r) PROVE Session'
  <1>1. /\ reqs' = [reqs EXCEPT ![r].st = "backoff", ![r].n = @ + 1]
        /\ UNCHANGED <<store, disk, refresh, leaving, server, past>>
        /\ reqs[r].st = "sent" /\ reqs[r].n < MaxRetries429
    BY DEF ThrottledAgain, Throttled
  <1>2. reqs' \in [Slots -> Request]
    <2>1. /\ reqs \in [Slots -> Request] /\ reqs[r] \in Request
          /\ reqs[r].n \in 0..MaxRetries429
      BY DEF Session, SessionType, Request
    <2>2. reqs[r].n + 1 \in 0..MaxRetries429
      BY <1>1, <2>1, BoundsAssumption
    <2>3. [reqs[r] EXCEPT !.st = "backoff", !.n = reqs[r].n + 1] \in Request
      BY <2>1, <2>2 DEF Request
    <2> QED BY <1>1, <2>1, <2>3
  <1>3. \A q \in Slots : /\ reqs'[q].tok = reqs[q].tok
                         /\ reqs'[q].st = IF q = r THEN "backoff" ELSE reqs[q].st
    BY <1>1 DEF Session, SessionType, Request
  <1>4. AtRest'
    BY <1>3 DEF Session, AtRest
  <1>5. Starting'
    BY <1>1, <1>3, MeIsSlot DEF Session, Starting
  <1> QED BY <1>1, <1>2, <1>3, <1>4, <1>5, RequestsMove DEF Session, SessionType

LEMMA BackoffSession == ASSUME Session, NEW r \in Slots, BackoffEnds(r) PROVE Session'
  <1> DEFINE q == [reqs[r] EXCEPT !.st = "sent"]
  <1>1. /\ reqs' = [reqs EXCEPT ![r] = Authorised(q)]
        /\ UNCHANGED <<store, disk, refresh, leaving, server, past>>
        /\ reqs[r].st = "backoff"
    BY DEF BackoffEnds, Again, Session, SessionType
  <1>2. q \in Request /\ q.st = "sent" /\ q.tok = reqs[r].tok
    BY DEF Session, SessionType, Request
  <1> HIDE DEF q
  <1>3. /\ Authorised(q) \in Request /\ Authorised(q).st = "sent"
        /\ Authorised(q).tok \in {reqs[r].tok, disk.tok}
    BY <1>2, AuthorisedRequest
  <1>4. /\ reqs' \in [Slots -> Request]
        /\ \A s \in Slots : reqs'[s] = IF s = r THEN Authorised(q) ELSE reqs[s]
    BY <1>1, <1>3 DEF Session, SessionType
  <1>5. AtRest' /\ Starting'
    BY <1>1, <1>3, <1>4, MeIsSlot DEF Session, AtRest, Starting
  <1> QED BY <1>1, <1>3, <1>4, <1>5, RequestsMove DEF Session, SessionType

LEMMA AskSession == ASSUME Session, NEW r \in Slots, AskForRefresh(r) PROVE Session'
  <1>1. /\ reqs' = [reqs EXCEPT ![r].retry = TRUE, ![r].st = "refreshing"]
        /\ UNCHANGED <<store, disk, leaving, server, past>>
        /\ refresh' = IF refresh # None THEN refresh ELSE disk.tok
        /\ reqs[r].st = "sent"
    BY DEF AskForRefresh
  <1>2. reqs' \in [Slots -> Request]
    BY <1>1 DEF Session, SessionType, Request
  <1>3. \A q \in Slots : /\ reqs'[q].tok = reqs[q].tok
                         /\ reqs'[q].st = IF q = r THEN "refreshing" ELSE reqs[q].st
    BY <1>1 DEF Session, SessionType, Request
  <1>4. AtRest'
    BY <1>3 DEF Session, AtRest
  <1>5. Starting'
    BY <1>1, <1>3, MeIsSlot DEF Session, Starting
  <1> QED BY <1>1, <1>2, <1>3, <1>4, <1>5, RequestsMove DEF Session, SessionType

LEMMA ScreenSession == ASSUME Session, NEW s \in Screens, ScreenCalls(s) PROVE Session'
  <1>1. /\ reqs' = [reqs EXCEPT ![s] = Fresh] /\ s \in Slots
        /\ UNCHANGED <<store, disk, refresh, leaving, server, past>>
        /\ store.authed
    BY DEF ScreenCalls, Slots
  <1>2. /\ reqs' \in [Slots -> Request]
        /\ \A r \in Slots : reqs'[r] = IF r = s THEN Fresh ELSE reqs[r]
    BY <1>1, FreshRequest DEF Session, SessionType
  <1>3. AtRest' /\ Starting'
    BY <1>1, <1>2, FreshRequest DEF Session, AtRest, Starting
  <1> QED BY <1>1, <1>2, <1>3, FreshRequest, RequestsMove DEF Session, SessionType

LEMMA FetchProfileSession == ASSUME Session, HydrateFetchesProfile PROVE Session'
  <1>1. /\ reqs' = [reqs EXCEPT ![Me] = Fresh]
        /\ UNCHANGED <<store, disk, refresh, leaving, server, past>>
        /\ ~store.hydrated /\ disk.tok # None /\ reqs[Me].st = "idle"
    BY DEF HydrateFetchesProfile, Pending
  <1>2. /\ reqs' \in [Slots -> Request]
        /\ \A r \in Slots : reqs'[r] = IF r = Me THEN Fresh ELSE reqs[r]
    BY <1>1, MeIsSlot, FreshRequest DEF Session, SessionType
  <1>3. AtRest' /\ Starting'
    BY <1>1, <1>2, MeIsSlot, FreshRequest DEF Session, AtRest, Starting
  <1> QED BY <1>1, <1>2, <1>3, FreshRequest, RequestsMove DEF Session, SessionType

LEMMA PressedSession == ASSUME Session, LogoutPressed PROVE Session'
  <1>1. /\ UNCHANGED <<store, disk, reqs, refresh, server, past>>
        /\ leaving' = TRUE /\ store.authed
    BY DEF LogoutPressed
  <1>2. Starting'
    BY <1>1 DEF Session, Starting
  <1>3. OneOwner'
    BY <1>1 DEF Session, OneOwner, BelongsTo
  <1> QED BY <1>1, <1>2, <1>3
          DEF Session, SessionType, AtRest, SignedIn, Issued, Unspent

\* A slot that is done or sends the next mutation of a drain.
LEMMA SlotMoves ==
  ASSUME Session, NEW r \in Slots,
         reqs' = Settled(r) \/ reqs' = Sending(r)
  PROVE  /\ reqs' \in [Slots -> Request]
         /\ \A q \in Slots \ {r} : reqs'[q] = reqs[q]
         /\ \A q \in Slots : reqs'[q].tok \in {reqs[q].tok, disk.tok, None}
         /\ AtRest'
  <1>1. reqs \in [Slots -> Request]
    BY DEF Session, SessionType
  <1>2. CASE reqs' = Settled(r)
    <2>1. reqs' \in [Slots -> Request]
      BY <1>1, <1>2, NoRequestType DEF Settled
    <2>2. \A q \in Slots : reqs'[q] = IF q = r THEN NoRequest ELSE reqs[q]
      BY <1>1, <1>2 DEF Settled
    <2> QED BY <2>1, <2>2, NoRequestType DEF Session, AtRest
  <1>3. CASE reqs' = Sending(r)
    <2>1. reqs' \in [Slots -> Request]
      BY <1>1, <1>3, FreshRequest DEF Sending
    <2>2. \A q \in Slots : reqs'[q] = IF q = r THEN Fresh ELSE reqs[q]
      BY <1>1, <1>3 DEF Sending
    <2> QED BY <2>1, <2>2, FreshRequest DEF Session, AtRest
  <1> QED BY <1>2, <1>3

LEMMA NotedPast ==
  ASSUME Session, NEW r \in Slots, NEW a, Noted(r, a)
  PROVE  /\ past' \in [crossed : BOOLEAN, lost : BOOLEAN, replayed : BOOLEAN, foreign : BOOLEAN]
         /\ past'.crossed = past.crossed /\ past'.lost = past.lost
         /\ past'.replayed = past.replayed
  BY DEF Noted, Session, SessionType

\* The drains: they only run once the app has started.
LEMMA DrainSession ==
  ASSUME Session, NEW d \in Drains, UNCHANGED <<store, disk, refresh, leaving, server>>,
         reqs' = Settled(d) \/ reqs' = Sending(d),
         reqs[d].st # "idle" \/ store.hydrated,
         past' = past \/ (\E a \in Answers(d) : Noted(d, a))
  PROVE  Session'
  <1>1. d \in Slots /\ d # Me
    BY SlotsAssumption DEF Slots
  <1>2. store.hydrated
    BY <1>1 DEF Session, Starting
  <1>3. Starting'
    BY <1>2 DEF Starting
  <1>4. /\ past' \in [crossed : BOOLEAN, lost : BOOLEAN, replayed : BOOLEAN, foreign : BOOLEAN]
        /\ past'.crossed = past.crossed /\ past'.lost = past.lost
        /\ past'.replayed = past.replayed
    BY <1>1, NotedPast DEF Session, SessionType
  <1> QED BY <1>1, <1>3, <1>4, SlotMoves, RequestsMove

-----------------------------------------------------------------------------
(* Steps that end the session. *)

LEMMA LoggedOutSession ==
  ASSUME Session, reqs' \in [Slots -> Request], leaving' \in BOOLEAN,
         \A r \in Slots : reqs'[r].tok \in {reqs[r].tok, None},
         store'.user = None, ~store'.authed,
         store' \in [user : Users \cup {None}, authed : BOOLEAN, hydrated : BOOLEAN],
         disk' = [tok |-> None, user |-> None],
         refresh' \in {refresh, None},
         server' \in [refreshable : SUBSET Tokens, spent : SUBSET Tokens, gen : 0..MaxGen],
         past' \in [crossed : BOOLEAN, lost : BOOLEAN, replayed : BOOLEAN, foreign : BOOLEAN],
         past'.crossed = past.crossed,
         AtRest', Starting', Issued',
         ~past'.lost => /\ ~past.lost /\ past'.replayed = past.replayed
                        /\ server'.spent = server.spent
  PROVE  Session'
  <1>1. disk'.tok = None /\ disk'.user = None
    OBVIOUS
  <1>2. SessionType'
    BY <1>1 DEF Session, SessionType
  <1>3. OneOwner'
    <2> SUFFICES ASSUME ~past.crossed
                 PROVE  \E u \in Users \cup {None} : BelongsTo(u)'
      BY DEF OneOwner
    <2>1. PICK u \in Users \cup {None} : BelongsTo(u)
      BY DEF Session, OneOwner
    <2>2. BelongsTo(u)'
      BY <1>1, <2>1 DEF BelongsTo
    <2> QED BY <2>2
  <1>4. None \notin server'.spent
    BY NoneAssumption
  <1>5. Unspent'
    BY <1>1, <1>4 DEF Session, Unspent
  <1> QED BY <1>2, <1>3, <1>5 DEF Session, SignedIn

LEMMA SettlesSession == ASSUME Session, NEW r \in Slots, RequestSettles(r) PROVE Session'
  <1>1. /\ r \notin Drains /\ reqs[r].st = "sent" /\ reqs' = Settled(r)
        /\ UNCHANGED <<refresh, leaving, server>>
    BY DEF RequestSettles
  <1>2. PICK a \in Answers(r) :
           /\ Noted(r, a)
           /\ IF r = Me /\ a = "ok" THEN SetUser(reqs[r].tok.user) ELSE ProfileMissing(r)
    BY DEF RequestSettles
  <1>3. /\ past' \in [crossed : BOOLEAN, lost : BOOLEAN, replayed : BOOLEAN, foreign : BOOLEAN]
        /\ past'.crossed = past.crossed /\ past'.lost = past.lost
        /\ past'.replayed = past.replayed
    BY <1>2, NotedPast
  <1>4. /\ reqs' \in [Slots -> Request] /\ AtRest'
        /\ \A q \in Slots : reqs'[q] = IF q = r THEN NoRequest ELSE reqs[q]
    BY <1>1, SlotMoves DEF Settled, Session, SessionType
  <1>5. ~store.hydrated => r = Me /\ refresh = None
    BY <1>1, MeIsSlot DEF Session, Starting
  <1>6. CASE r = Me /\ a = "ok"
    <2> DEFINE v == reqs[Me].tok.user
    <2>1. reqs[Me].tok # None /\ reqs[Me].tok \in Tokens
      BY <1>2, <1>6, MeIsSlot DEF Answers, Session, SessionType, Request
    <2>2. v \in Users /\ v # None
      BY <2>1, NoneAssumption DEF Tokens
    <2>3. /\ disk' = [disk EXCEPT !.user = v]
          /\ store' = [store EXCEPT !.user = v, !.authed = @ \/ ~store.hydrated,
                                    !.hydrated = TRUE]
      BY <1>2, <1>6 DEF SetUser
    <2> HIDE DEF v
    <2>4. /\ disk'.user = v /\ disk'.tok = disk.tok
          /\ store'.user = v /\ store'.hydrated
          /\ store'.authed = (store.authed \/ ~store.hydrated)
          /\ disk' \in [tok : Tokens \cup {None}, user : Users \cup {None}]
          /\ store' \in [user : Users \cup {None}, authed : BOOLEAN, hydrated : BOOLEAN]
      BY <2>2, <2>3 DEF Session, SessionType
    <2>5. Starting'
      BY <2>4 DEF Starting
    <2>6. SignedIn'
      BY <1>1, <1>6, <2>2, <2>4 DEF Session, SignedIn, Starting
    <2>7. OneOwner'
      <3> SUFFICES ASSUME ~past.crossed
                   PROVE  \E u \in Users \cup {None} : BelongsTo(u)'
        BY <1>3 DEF OneOwner
      <3>1. PICK u \in Users \cup {None} : BelongsTo(u)
        BY DEF Session, OneOwner
      <3>2. v = u
        BY <2>1, <3>1, MeIsSlot DEF BelongsTo, v
      <3>3. BelongsTo(u)'
        BY <1>1, <1>4, <2>4, <3>1, <3>2, NoRequestType DEF BelongsTo
      <3> QED BY <3>3
    <2> QED BY <1>1, <1>3, <1>4, <2>4, <2>5, <2>6, <2>7
            DEF Session, SessionType, Issued, Unspent
  <1>7. CASE ~(r = Me /\ a = "ok") /\ r = Me /\ ~store.hydrated
    <2>1. store' = LoggedOut /\ disk' = [tok |-> None, user |-> None]
      BY <1>2, <1>7 DEF ProfileMissing
    <2>2. /\ store'.user = None /\ ~store'.authed /\ store'.hydrated
          /\ store' \in [user : Users \cup {None}, authed : BOOLEAN, hydrated : BOOLEAN]
      BY <2>1 DEF LoggedOut
    <2>3. Starting' /\ Issued'
      BY <1>1, <2>2 DEF Starting, Session, Issued
    <2> QED BY <1>1, <1>3, <1>4, <2>1, <2>2, <2>3, NoRequestType, LoggedOutSession
            DEF Session, SessionType
  <1>8. CASE ~(r = Me /\ a = "ok") /\ ~(r = Me /\ ~store.hydrated)
    <2>1. UNCHANGED <<store, disk>> /\ store.hydrated
      BY <1>2, <1>5, <1>8 DEF ProfileMissing
    <2>2. Starting'
      BY <2>1 DEF Starting
    <2> QED BY <1>1, <1>3, <1>4, <2>1, <2>2, SlotMoves, RequestsMove
  <1> QED BY <1>6, <1>7, <1>8

LEMMA FailsSession == ASSUME Session, NEW r \in Slots, RequestFails(r) PROVE Session'
  <1>1. /\ reqs[r].st = "sent" /\ reqs' = Settled(r) /\ ProfileMissing(r)
        /\ UNCHANGED <<refresh, leaving, server, past>>
    BY DEF RequestFails
  <1>2. /\ reqs' \in [Slots -> Request] /\ AtRest'
        /\ \A q \in Slots : reqs'[q] = IF q = r THEN NoRequest ELSE reqs[q]
    BY <1>1, SlotMoves DEF Settled, Session, SessionType
  <1>3. CASE r = Me /\ ~store.hydrated
    <2>1. store' = LoggedOut /\ disk' = [tok |-> None, user |-> None]
      BY <1>1, <1>3 DEF ProfileMissing
    <2>2. /\ store'.user = None /\ ~store'.authed /\ store'.hydrated
          /\ store' \in [user : Users \cup {None}, authed : BOOLEAN, hydrated : BOOLEAN]
      BY <2>1 DEF LoggedOut
    <2>3. Starting' /\ Issued'
      BY <1>1, <2>2 DEF Starting, Session, Issued
    <2> QED BY <1>1, <1>2, <2>1, <2>2, <2>3, NoRequestType, LoggedOutSession
            DEF Session, SessionType
  <1>4. CASE ~(r = Me /\ ~store.hydrated)
    <2>1. UNCHANGED <<store, disk>> /\ store.hydrated
      BY <1>1, <1>4 DEF ProfileMissing, Session, Starting
    <2>2. Starting'
      BY <2>1 DEF Starting
    <2> QED BY <1>1, <1>2, <2>1, <2>2, SlotMoves, RequestsMove DEF Session, SessionType
  <1> QED BY <1>3, <1>4

LEMMA LogoutStore ==
  ASSUME Session, Logout
  PROVE  /\ store'.user = None /\ ~store'.authed /\ store'.hydrated = store.hydrated
         /\ store' \in [user : Users \cup {None}, authed : BOOLEAN, hydrated : BOOLEAN]
         /\ disk' = [tok |-> None, user |-> None]
  BY DEF Logout, LoggedOut, Session, SessionType

LEMMA ClearSession == ASSUME Session, ClearAuth PROVE Session'
  <1>1. Logout /\ store.authed /\ UNCHANGED <<reqs, refresh, leaving, server, past>>
    BY DEF ClearAuth
  <1>2. AtRest' /\ Starting' /\ Issued'
    BY <1>1, LogoutStore DEF Session, AtRest, Starting, Issued
  <1> QED BY <1>1, <1>2, LogoutStore, LoggedOutSession DEF Session, SessionType

LEMMA FinishSession == ASSUME Session, LogoutFinishes PROVE Session'
  <1>1. /\ Logout /\ leaving /\ leaving' = FALSE /\ UNCHANGED <<reqs, refresh, past>>
        /\ \/ server' = [server EXCEPT !.refreshable = @ \ {disk.tok}]
           \/ UNCHANGED server
    BY DEF LogoutFinishes, ServerLogsOut
  <1>2. /\ server' \in [refreshable : SUBSET Tokens, spent : SUBSET Tokens, gen : 0..MaxGen]
        /\ server'.spent = server.spent /\ server'.gen = server.gen
        /\ server'.refreshable \subseteq server.refreshable
    BY <1>1 DEF Session, SessionType
  <1>3. AtRest' /\ Starting' /\ Issued'
    BY <1>1, <1>2, LogoutStore DEF Session, AtRest, Starting, Issued
  <1> QED BY <1>1, <1>2, <1>3, LogoutStore, LoggedOutSession DEF Session, SessionType

LEMMA DiesState ==
  ASSUME Session, NEW R \in SUBSET Slots, NEW st \in {"refused", "rejected"},
         SessionDies(R, st), \A r \in R : reqs[r].st # "idle"
  PROVE  /\ store'.user = None /\ ~store'.authed
         /\ store'.hydrated = (store.hydrated \/ Me \in R)
         /\ store' \in [user : Users \cup {None}, authed : BOOLEAN, hydrated : BOOLEAN]
         /\ disk' = [tok |-> None, user |-> None]
         /\ reqs' \in [Slots -> Request]
         /\ \A r \in Slots : reqs'[r].tok \in {reqs[r].tok, None}
         /\ AtRest'
         /\ \A r \in Slots \ R : reqs'[r] = reqs[r]
  <1>1. /\ store' = [LoggedOut EXCEPT !.hydrated = store.hydrated \/ Me \in R]
        /\ disk' = [tok |-> None, user |-> None]
        /\ reqs' = [r \in Slots |->
                       IF r \notin R THEN reqs[r]
                       ELSE IF r \in Drains THEN [reqs[r] EXCEPT !.st = st]
                       ELSE NoRequest]
    BY DEF SessionDies
  <1>2. /\ store'.user = None /\ ~store'.authed
        /\ store'.hydrated = (store.hydrated \/ Me \in R)
        /\ store' \in [user : Users \cup {None}, authed : BOOLEAN, hydrated : BOOLEAN]
    BY <1>1 DEF LoggedOut, Session, SessionType
  <1>3. \A r \in Slots : /\ [reqs[r] EXCEPT !.st = st] \in Request
                         /\ [reqs[r] EXCEPT !.st = st].tok = reqs[r].tok
                         /\ [reqs[r] EXCEPT !.st = st].st = st
    BY DEF Session, SessionType, Request
  <1>4. reqs' \in [Slots -> Request]
    BY <1>1, <1>3, NoRequestType DEF Session, SessionType
  <1>5. \A r \in Slots : \/ reqs'[r] = reqs[r]
                         \/ reqs'[r].st = st /\ reqs'[r].tok = reqs[r].tok
                         \/ reqs'[r] = NoRequest
    BY <1>1, <1>3
  <1>6. AtRest' /\ \A r \in Slots : reqs'[r].tok \in {reqs[r].tok, None}
    BY <1>5, NoRequestType DEF Session, AtRest
  <1> QED BY <1>1, <1>2, <1>4, <1>6

LEMMA RefreshFailsSession == ASSUME Session, RefreshFails PROVE Session'
  <1>1. /\ refresh # None /\ refresh' = None
        /\ RefreshRefused \/ RefreshBroken
        /\ \E st \in {"refused", "rejected"} : SessionDies(Waiting, st)
    BY DEF RefreshFails
  <1>2. /\ Waiting \in SUBSET Slots
        /\ \A r \in Waiting : reqs[r].st # "idle"
        /\ ~store.hydrated => Me \in Waiting
    BY <1>1, MeIsSlot DEF Waiting, Session, Starting
  <1>3. leaving' = leaving
    BY <1>1 DEF SessionDies
  <1>4. /\ server' \in [refreshable : SUBSET Tokens, spent : SUBSET Tokens, gen : 0..MaxGen]
        /\ past' \in [crossed : BOOLEAN, lost : BOOLEAN, replayed : BOOLEAN, foreign : BOOLEAN]
        /\ past'.crossed = past.crossed /\ Issued'
        /\ ~past'.lost => /\ ~past.lost /\ past'.replayed = past.replayed
                          /\ server'.spent = server.spent
    <2>1. CASE /\ past' = [past EXCEPT !.replayed = @ \/ refresh \in server.spent]
               /\ UNCHANGED server
      <3>1. /\ past' \in [crossed : BOOLEAN, lost : BOOLEAN, replayed : BOOLEAN,
                          foreign : BOOLEAN]
            /\ past'.crossed = past.crossed /\ past'.lost = past.lost
            /\ past'.replayed = (past.replayed \/ refresh \in server.spent)
        BY <2>1 DEF Session, SessionType
      <3> QED BY <2>1, <3>1 DEF Session, SessionType, Issued, Unspent
    <2>2. CASE UNCHANGED <<server, past>>
      BY <2>2 DEF Session, SessionType, Issued
    <2>3. CASE Rotates /\ past' = [past EXCEPT !.lost = TRUE]
      <3>1. /\ past' \in [crossed : BOOLEAN, lost : BOOLEAN, replayed : BOOLEAN,
                          foreign : BOOLEAN]
            /\ past'.crossed = past.crossed /\ past'.lost
        BY <2>3 DEF Session, SessionType
      <3> QED BY <2>3, <3>1, RotatesServer DEF Session, SessionType
    <2> QED BY <1>1, <2>1, <2>2, <2>3 DEF RefreshRefused, RefreshBroken
  <1>5. Starting'
    BY <1>1, <1>2, DiesState DEF Session, Starting
  <1> QED BY <1>1, <1>2, <1>3, <1>4, <1>5, DiesState, LoggedOutSession DEF Session, SessionType

LEMMA NothingSession == ASSUME Session, NEW r \in Slots, NothingToRefresh(r) PROVE Session'
  <1>1. /\ reqs[r].st = "sent" /\ SessionDies({r}, "rejected")
        /\ UNCHANGED <<refresh, server, past>>
    BY DEF NothingToRefresh
  <1>2. leaving' = leaving
    BY <1>1 DEF SessionDies
  <1>3. ~store.hydrated => r = Me
    BY <1>1 DEF Session, Starting
  <1>4. Starting'
    BY <1>1, <1>3, DiesState DEF Starting, Session
  <1>5. Issued'
    BY <1>1 DEF Session, Issued
  <1> QED BY <1>1, <1>2, <1>4, <1>5, DiesState, LoggedOutSession DEF Session, SessionType

LEMMA KilledSession == ASSUME Session, Killed PROVE Session'
  <1>1. /\ store' = [LoggedOut EXCEPT !.hydrated = FALSE]
        /\ reqs' = [r \in Slots |-> NoRequest]
        /\ refresh' = None /\ leaving' = FALSE /\ disk' = disk
    BY DEF Killed, AppKilled
  <1>2. /\ server' \in [refreshable : SUBSET Tokens, spent : SUBSET Tokens, gen : 0..MaxGen]
        /\ past' \in [crossed : BOOLEAN, lost : BOOLEAN, replayed : BOOLEAN, foreign : BOOLEAN]
        /\ past'.crossed = past.crossed /\ Issued'
        /\ ~past'.lost => /\ ~past.lost /\ past'.replayed = past.replayed
                          /\ server'.spent = server.spent
    <2>1. CASE UNCHANGED <<server, past>>
      BY <2>1 DEF Session, SessionType, Issued
    <2>2. CASE Rotates /\ past' = [past EXCEPT !.lost = TRUE]
      <3>1. /\ past' \in [crossed : BOOLEAN, lost : BOOLEAN, replayed : BOOLEAN,
                          foreign : BOOLEAN]
            /\ past'.crossed = past.crossed /\ past'.lost
        BY <2>2 DEF Session, SessionType
      <3> QED BY <2>2, <3>1, RotatesServer DEF Session, SessionType
    <2> QED BY <2>1, <2>2 DEF Killed, AppKilled
  <1>3. /\ store'.user = None /\ ~store'.authed /\ ~store'.hydrated
        /\ store' \in [user : Users \cup {None}, authed : BOOLEAN, hydrated : BOOLEAN]
    BY <1>1 DEF LoggedOut
  <1>4. /\ reqs' \in [Slots -> Request]
        /\ \A r \in Slots : reqs'[r].st = "idle" /\ reqs'[r].tok = None
    BY <1>1, NoRequestType
  <1>5. Starting' /\ AtRest' /\ SignedIn'
    BY <1>1, <1>3, <1>4, MeIsSlot DEF Starting, AtRest, SignedIn
  <1>6. OneOwner'
    <2> SUFFICES ASSUME ~past.crossed
                 PROVE  \E u \in Users \cup {None} : BelongsTo(u)'
      BY <1>2 DEF OneOwner
    <2>1. PICK u \in Users \cup {None} : BelongsTo(u)
      BY DEF Session, OneOwner
    <2>2. BelongsTo(u)'
      BY <1>1, <1>3, <1>4, <2>1 DEF BelongsTo
    <2> QED BY <2>2
  <1>7. None \notin server'.spent
    BY <1>2, NoneAssumption
  <1>8. Unspent'
    BY <1>1, <1>2, <1>7 DEF Session, Unspent
  <1> QED BY <1>1, <1>2, <1>3, <1>4, <1>5, <1>6, <1>8 DEF Session, SessionType

-----------------------------------------------------------------------------
(* Steps that give the session tokens or a user. *)

LEMMA Resent ==
  ASSUME NEW q \in Request, NEW t \in Tokens
  PROVE  /\ [q EXCEPT !.st = "sent", !.tok = t] \in Request
         /\ [q EXCEPT !.st = "sent", !.tok = t].tok = t
         /\ [q EXCEPT !.st = "sent", !.tok = t].st = "sent"
  BY DEF Request

LEMMA RefreshSession == ASSUME Session, RefreshSucceeds PROVE Session'
  <1> DEFINE t == Issue(refresh.user)
  <1>1. /\ refresh # None /\ Rotates /\ refresh' = None
        /\ disk' = [disk EXCEPT !.tok = t]
        /\ reqs' = [r \in Slots |->
                       IF r \in Waiting THEN [reqs[r] EXCEPT !.st = "sent", !.tok = t]
                       ELSE reqs[r]]
        /\ UNCHANGED <<store, leaving, past>>
    BY DEF RefreshSucceeds
  <1>2. /\ refresh \in Tokens /\ refresh.user \in Users
        /\ server' \in [refreshable : SUBSET Tokens, spent : SUBSET Tokens, gen : 0..MaxGen]
        /\ Issued' /\ server'.spent = server.spent \cup {refresh}
        /\ t \in Tokens /\ t # None /\ t.user = refresh.user /\ t \notin server'.spent
    BY <1>1, RotatesServer DEF Session, SessionType
  <1> HIDE DEF t
  <1>3. /\ disk'.tok = t /\ disk'.user = disk.user
        /\ disk' \in [tok : Tokens \cup {None}, user : Users \cup {None}]
    BY <1>1, <1>2 DEF Session, SessionType
  <1>4. \A r \in Slots : /\ [reqs[r] EXCEPT !.st = "sent", !.tok = t] \in Request
                         /\ [reqs[r] EXCEPT !.st = "sent", !.tok = t].tok = t
                         /\ [reqs[r] EXCEPT !.st = "sent", !.tok = t].st = "sent"
    <2>1. \A r \in Slots : reqs[r] \in Request
      BY DEF Session, SessionType
    <2> QED BY <1>2, <2>1, Resent
  <1>5. reqs' \in [Slots -> Request]
    BY <1>1, <1>4 DEF Session, SessionType
  <1>6. \A r \in Slots : \/ reqs'[r] = reqs[r]
                         \/ /\ reqs[r].st = "refreshing"
                            /\ reqs'[r].st = "sent" /\ reqs'[r].tok = t
    BY <1>1, <1>4 DEF Waiting
  <1>7. AtRest' /\ Starting' /\ SignedIn'
    <2>1. AtRest'
      BY <1>6 DEF Session, AtRest
    <2>2. Starting'
      BY <1>1, <1>2, <1>3, <1>6, MeIsSlot DEF Session, Starting
    <2>3. SignedIn'
      BY <1>1, <1>2, <1>3 DEF Session, SignedIn
    <2> QED BY <2>1, <2>2, <2>3
  <1>8. OneOwner'
    <2> SUFFICES ASSUME ~past.crossed
                 PROVE  \E u \in Users \cup {None} : BelongsTo(u)'
      BY <1>1 DEF OneOwner
    <2>1. PICK u \in Users \cup {None} : BelongsTo(u)
      BY DEF Session, OneOwner
    <2>2. refresh.user = u /\ t.user = u
      BY <1>1, <1>2, <2>1 DEF BelongsTo
    <2>3. \A r \in Slots : reqs'[r].tok # None => reqs'[r].tok.user = u
      BY <1>6, <2>1, <2>2 DEF BelongsTo
    <2>4. BelongsTo(u)'
      BY <1>1, <1>3, <2>1, <2>2, <2>3 DEF BelongsTo
    <2> QED BY <2>4
  <1>9. None \notin server'.spent
    BY <1>2, NoneAssumption
  <1>10. Unspent'
    BY <1>1, <1>2, <1>3, <1>9 DEF Session, Unspent
  <1> QED BY <1>1, <1>2, <1>3, <1>5, <1>7, <1>8, <1>10 DEF Session, SessionType

LEMMA LoginSession == ASSUME Session, NEW u \in Users, Login(u) PROVE Session'
  <1> DEFINE t == Issue(u)
             q == [NoRequest EXCEPT !.st = "sent", !.by = u, !.tok = t]
  <1>1. /\ store.hydrated /\ server.gen < MaxGen
        /\ server' = [server EXCEPT !.refreshable = @ \cup {t}, !.gen = @ + 1]
        /\ disk' = [tok |-> t, user |-> u]
        /\ store' = [user |-> u, authed |-> TRUE, hydrated |-> TRUE]
        /\ reqs' = [reqs EXCEPT ![Me] = q]
        /\ past' = [past EXCEPT !.crossed =
                       @ \/ refresh # None \/ \E r \in Slots : Pending(r)]
        /\ UNCHANGED <<refresh, leaving>>
    BY DEF Login, SetAuth
  <1>2. /\ t \in Tokens /\ t # None /\ t.user = u /\ t.gen = server.gen + 1
        /\ t \notin server.refreshable \cup server.spent
    BY <1>1, IssueNew
  <1> HIDE DEF t
  <1>3. q \in Request /\ q.st = "sent" /\ q.tok = t
    BY <1>2, NoRequestType DEF Request
  <1> HIDE DEF q
  <1>4. /\ reqs' \in [Slots -> Request]
        /\ \A r \in Slots : reqs'[r] = IF r = Me THEN q ELSE reqs[r]
    BY <1>1, <1>3, MeIsSlot DEF Session, SessionType
  <1>5. /\ disk'.tok = t /\ disk'.user = u /\ store'.user = u /\ store'.hydrated
        /\ u # None
    BY <1>1, NoneAssumption
  <1>6. /\ server'.refreshable = server.refreshable \cup {t} /\ server'.spent = server.spent
        /\ server'.gen = server.gen + 1
        /\ server' \in [refreshable : SUBSET Tokens, spent : SUBSET Tokens, gen : 0..MaxGen]
    <2>1. server.gen + 1 \in 0..MaxGen
      BY <1>1, BoundsAssumption DEF Session, SessionType
    <2>2. /\ server'.refreshable = server.refreshable \cup {t}
          /\ server'.spent = server.spent /\ server'.gen = server.gen + 1
      BY <1>1 DEF Session, SessionType
    <2>3. server.refreshable \cup {t} \in SUBSET Tokens
      BY <1>2 DEF Session, SessionType
    <2>4. server' \in [refreshable : SUBSET Tokens, spent : SUBSET Tokens, gen : 0..MaxGen]
      BY <1>1, <2>1, <2>3 DEF Session, SessionType
    <2> QED BY <2>2, <2>4
  <1>7. /\ past' \in [crossed : BOOLEAN, lost : BOOLEAN, replayed : BOOLEAN, foreign : BOOLEAN]
        /\ past'.lost = past.lost /\ past'.replayed = past.replayed
        /\ ~past'.crossed => refresh = None /\ \A r \in Slots : reqs[r].st = "idle"
    BY <1>1 DEF Session, SessionType, Pending
  <1>8. SessionType'
    BY <1>1, <1>2, <1>4, <1>6, <1>7 DEF Session, SessionType
  <1>9. AtRest' /\ Starting' /\ SignedIn'
    BY <1>2, <1>3, <1>4, <1>5 DEF Session, AtRest, Starting, SignedIn
  <1>10. OneOwner'
    <2> SUFFICES ASSUME ~past'.crossed PROVE BelongsTo(u)'
      BY DEF OneOwner
    <2> QED BY <1>1, <1>2, <1>3, <1>4, <1>5, <1>7 DEF Session, AtRest, BelongsTo
  <1>11. Issued'
    <2> SUFFICES ASSUME NEW k \in server'.refreshable \cup server'.spent
                 PROVE  k.gen <= server'.gen
      BY DEF Issued
    <2>1. CASE k = t
      BY <1>2, <1>6, <2>1, BoundsAssumption
    <2>2. CASE k # t
      <3>1. k.gen <= server.gen /\ k.gen \in Nat /\ server.gen \in Nat
        BY <1>6, <2>2, BoundsAssumption DEF Session, SessionType, Issued, Tokens
      <3> QED BY <1>6, <3>1
    <2> QED BY <2>1, <2>2
  <1>12. Unspent'
    BY <1>1, <1>2, <1>5, <1>6, <1>7 DEF Session, Unspent
  <1> QED BY <1>8, <1>9, <1>10, <1>11, <1>12 DEF Session

LEMMA HydrateSession == ASSUME Session, Hydrate PROVE Session'
  <1>1. /\ ~store.hydrated /\ (disk.tok = None \/ disk.user # None)
        /\ store' = [user |-> IF disk.tok = None THEN None ELSE disk.user,
                     authed |-> disk.tok # None, hydrated |-> TRUE]
        /\ UNCHANGED <<disk, reqs, refresh, leaving, server, past>>
    BY DEF Hydrate
  <1>2. /\ store'.user = IF disk.tok = None THEN None ELSE disk.user
        /\ store'.authed = (disk.tok # None) /\ store'.hydrated
        /\ store' \in [user : Users \cup {None}, authed : BOOLEAN, hydrated : BOOLEAN]
    BY <1>1 DEF Session, SessionType
  <1>3. AtRest' /\ Starting' /\ SignedIn' /\ Issued' /\ Unspent'
    BY <1>1, <1>2 DEF Session, AtRest, Starting, SignedIn, Issued, Unspent
  <1>4. OneOwner'
    BY <1>1, <1>2 DEF Session, OneOwner, BelongsTo
  <1> QED BY <1>1, <1>2, <1>3, <1>4 DEF Session, SessionType

-----------------------------------------------------------------------------
(* The session: steps of the queue. *)

LEMMA SessionStill == ASSUME Session, UNCHANGED sessionVars PROVE Session'
  BY DEF sessionVars, Session, SessionType, AtRest, Starting, SignedIn, OneOwner, BelongsTo,
     Issued, Unspent

LEMMA OnlineSession == ASSUME Session, GoesOnline PROVE Session'
  <1>1. /\ store.hydrated /\ UNCHANGED <<store, disk, refresh, leaving, server, past>>
        /\ reqs' = reqs \/ \E d \in Drains : reqs' = Sending(d)
    BY DEF GoesOnline
  <1>2. CASE reqs' = reqs
    BY <1>1, <1>2, SessionStill DEF sessionVars
  <1>3. CASE \E d \in Drains : reqs' = Sending(d)
    BY <1>1, <1>3, DrainSession
  <1> QED BY <1>1, <1>2, <1>3

LEMMA DrainsSession ==
  ASSUME Session, NEW d \in Drains, DrainSettles(d) \/ DrainFails(d)
  PROVE  Session'
  <1>1. UNCHANGED <<store, disk, refresh, leaving, server>> /\ reqs[d].st # "idle"
    BY DEF DrainSettles, DrainFails
  <1>2. reqs' = Settled(d) \/ reqs' = Sending(d)
    BY DEF DrainSettles, DrainFails, Continues
  <1>3. past' = past \/ (\E a \in Answers(d) : Noted(d, a))
    BY DEF DrainSettles, DrainFails
  <1> QED BY <1>1, <1>2, <1>3, DrainSession

LEMMA InitSession == ASSUME Init PROVE Session
  <1>1. /\ store = [user |-> None, authed |-> FALSE, hydrated |-> FALSE]
        /\ disk = [tok |-> None, user |-> None]
        /\ reqs = [r \in Slots |-> NoRequest]
        /\ refresh = None /\ leaving = FALSE
        /\ server = [refreshable |-> {}, spent |-> {}, gen |-> 0]
        /\ past = [crossed |-> FALSE, lost |-> FALSE, replayed |-> FALSE, foreign |-> FALSE]
    BY DEF Init, SessionInit, LoggedOut
  <1>2. SessionType
    <2>1. 0 \in 0..MaxGen
      BY BoundsAssumption
    <2>2. server \in [refreshable : SUBSET Tokens, spent : SUBSET Tokens, gen : 0..MaxGen]
      BY <1>1, <2>1
    <2>3. /\ store \in [user : Users \cup {None}, authed : BOOLEAN, hydrated : BOOLEAN]
          /\ disk \in [tok : Tokens \cup {None}, user : Users \cup {None}]
          /\ past \in [crossed : BOOLEAN, lost : BOOLEAN, replayed : BOOLEAN, foreign : BOOLEAN]
      BY <1>1
    <2>4. reqs \in [Slots -> Request]
      BY <1>1, NoRequestType
    <2> QED BY <1>1, <2>2, <2>3, <2>4 DEF SessionType
  <1>3. AtRest /\ Starting /\ SignedIn /\ Issued /\ Unspent
    BY <1>1, NoRequestType, MeIsSlot DEF AtRest, Starting, SignedIn, Issued, Unspent
  <1>4. BelongsTo(None)
    BY <1>1, NoRequestType DEF BelongsTo
  <1> QED BY <1>2, <1>3, <1>4 DEF Session, OneOwner

LEMMA NextSession == ASSUME Session, [Next]_vars PROVE Session'
  <1>1. CASE UNCHANGED vars
    BY <1>1, SessionStill DEF vars
  <1>2. CASE SessionNext
    BY <1>2, ThrottledSession, BackoffSession, AskSession, SettlesSession, FailsSession,
       ScreenSession, RefreshSession, LoginSession, PressedSession, HydrateSession,
       FetchProfileSession DEF SessionNext
  <1>3. CASE QueueNext
    <2>1. CASE (\E m \in Mutations : Enqueue(m)) \/ GoesOffline
      BY <2>1, SessionStill DEF Enqueue, GoesOffline
    <2> QED BY <1>3, <2>1, OnlineSession, DrainsSession, RefreshFailsSession, NothingSession,
               FinishSession, ClearSession, KilledSession DEF QueueNext
  <1> QED BY <1>1, <1>2, <1>3 DEF Next

\* The strengthening holds in every reachable state: everything that names an account
\* names the same one, and every issued token is newer than the ones before.
THEOREM SessionInvariant == Spec => []Session
  <1>1. Init => Session
    BY InitSession
  <1>2. Session /\ [Next]_vars => Session'
    BY NextSession
  <1> QED BY <1>1, <1>2, PTL DEF Spec

\* A rotated refresh token is presented again only if the answer that carried its
\* successor was lost. (refreshAccessToken of http.ts, tokenStorage)
THEOREM RefreshIsPresentedOnce == Spec => []RefreshPresentedOnce
  <1>1. Session => RefreshPresentedOnce
    BY DEF Session, SessionType, Unspent, RefreshPresentedOnce
  <1> QED BY <1>1, SessionInvariant, PTL

\* The store, the tokens and the saved profile name one account, whatever is
\* answered, refused, killed or logged out in between, unless a login overtook
\* calls of the session before. (authStore.ts, http.ts)
THEOREM SessionIsOneAccounts == Spec => []OneAccountAtATime
  <1>1. ASSUME Session, store.authed, ~past.crossed
        PROVE  disk.tok # None /\ {store.user, disk.user} = {disk.tok.user}
    <2>1. PICK u \in Users \cup {None} : BelongsTo(u)
      BY <1>1 DEF Session, OneOwner
    <2> QED BY <1>1, <2>1 DEF Session, SignedIn, BelongsTo
  <1>2. Session => OneAccountAtATime
    BY <1>1 DEF OneAccountAtATime
  <1> QED BY <1>2, SessionInvariant, PTL

-----------------------------------------------------------------------------
(* The queue: what it holds. *)

LEMMA HeldAppend ==
  ASSUME NEW q \in Seq(Entries), NEW e \in Entries
  PROVE  Append(q, e) \in Seq(Entries) /\ Held(Append(q, e)) = Held(q) \cup {e.m}
  <1>1. /\ Append(q, e) \in Seq(Entries) /\ Len(Append(q, e)) = Len(q) + 1
        /\ \A i \in 1..Len(q) : Append(q, e)[i] = q[i]
        /\ Append(q, e)[Len(q) + 1] = e
    BY AppendProperties
  <1>2. DOMAIN q = 1..Len(q) /\ DOMAIN Append(q, e) = 1..(Len(q) + 1) /\ Len(q) \in Nat
    BY <1>1
  <1>3. Held(Append(q, e)) \subseteq Held(q) \cup {e.m}
    BY <1>1, <1>2 DEF Held
  <1>4. Held(q) \cup {e.m} \subseteq Held(Append(q, e))
    BY <1>1, <1>2 DEF Held
  <1> QED BY <1>1, <1>3, <1>4

LEMMA HeldHeadTail ==
  ASSUME NEW q \in Seq(Entries), q # <<>>
  PROVE  /\ Head(q) \in Entries /\ Tail(q) \in Seq(Entries)
         /\ Held(q) = {Head(q).m} \cup Held(Tail(q))
  <1>1. /\ Head(q) \in Entries /\ Tail(q) \in Seq(Entries) /\ Len(Tail(q)) = Len(q) - 1
        /\ \A i \in 1..Len(Tail(q)) : Tail(q)[i] = q[i + 1]
    BY HeadTailProperties
  <1>2. /\ DOMAIN q = 1..Len(q) /\ DOMAIN Tail(q) = 1..(Len(q) - 1)
        /\ Len(q) \in Nat \ {0} /\ Head(q) = q[1]
    BY <1>1
  <1>3. ASSUME NEW i \in DOMAIN q PROVE q[i].m \in {Head(q).m} \cup Held(Tail(q))
    <2>1. CASE i = 1
      BY <1>2, <2>1
    <2>2. CASE i # 1
      <3>1. i - 1 \in DOMAIN Tail(q) /\ Tail(q)[i - 1] = q[i]
        BY <1>1, <1>2, <2>2
      <3> QED BY <3>1 DEF Held
    <2> QED BY <2>1, <2>2
  <1>4. ASSUME NEW i \in DOMAIN Tail(q) PROVE Tail(q)[i].m \in Held(q)
    <2>1. i + 1 \in DOMAIN q /\ Tail(q)[i] = q[i + 1]
      BY <1>1, <1>2
    <2> QED BY <2>1 DEF Held
  <1>5. Head(q).m \in Held(q)
    BY <1>2 DEF Held
  <1>6. Held(q) \subseteq {Head(q).m} \cup Held(Tail(q))
    BY <1>3 DEF Held
  <1>7. Held(Tail(q)) \subseteq Held(q)
    BY <1>4 DEF Held
  <1> QED BY <1>1, <1>5, <1>6, <1>7

LEMMA HeldMutations ==
  ASSUME NEW q \in Seq(Entries)
  PROVE  Held(q) \subseteq Mutations
  <1>1. DOMAIN q = 1..Len(q) /\ \A i \in 1..Len(q) : q[i] \in Entries
    OBVIOUS
  <1>2. \A e \in Entries : e.m \in Mutations
    BY DEF Entries
  <1> QED BY <1>1, <1>2 DEF Held

LEMMA RestLength ==
  ASSUME NEW n \in Nat, NEW k \in 0..n
  PROVE  /\ (IF k + 1 <= n THEN n - (k + 1) + 1 ELSE 0) = n - k
         /\ \A i \in 1..(n - k) : k + i \in 1..n
  OBVIOUS

LEMMA HeldParts ==
  ASSUME NEW q \in Seq(Entries), NEW k \in 0..Len(q)
  PROVE  /\ SubSeq(q, k + 1, Len(q)) \in Seq(Entries)
         /\ Held(q) = Held(SubSeq(q, 1, k)) \cup Held(SubSeq(q, k + 1, Len(q)))
  <1> DEFINE a == SubSeq(q, 1, k)
             b == SubSeq(q, k + 1, Len(q))
  <1>1. Len(q) \in Nat /\ DOMAIN q = 1..Len(q)
    OBVIOUS
  <1>2. /\ a \in Seq(Entries) /\ Len(a) = k
        /\ \A i \in 1..k : a[i] = q[i]
    BY <1>1, SubSeqProperties
  <1>3. /\ b \in Seq(Entries) /\ Len(b) = Len(q) - k
        /\ \A i \in 1..(Len(q) - k) : b[i] = q[k + i]
    <2>1. /\ k + 1 \in 1..(Len(q) + 1) /\ Len(q) \in (k + 1 - 1)..Len(q)
          /\ Len(q) - (k + 1) + 1 = Len(q) - k
      BY <1>1
    <2>2. /\ b \in Seq(Entries)
          /\ Len(b) = IF k + 1 <= Len(q) THEN Len(q) - (k + 1) + 1 ELSE 0
          /\ \A i \in 1..(Len(q) - (k + 1) + 1) : b[i] = q[k + 1 + i - 1]
      BY <2>1, SubSeqProperties
    <2>3. \A i \in 1..(Len(q) - k) : k + 1 + i - 1 = k + i
      BY <1>1
    <2> HIDE DEF b
    <2>4. Len(b) = Len(q) - k
      BY <1>1, <2>2, RestLength
    <2>5. \A i \in 1..(Len(q) - k) : b[i] = q[k + i]
      BY <2>1, <2>2, <2>3
    <2> QED BY <2>2, <2>4, <2>5
  <1> HIDE DEF a, b
  <1>4. DOMAIN a = 1..k /\ DOMAIN b = 1..(Len(q) - k)
    BY <1>1, <1>2, <1>3, LenProperties
  <1>5. ASSUME NEW i \in DOMAIN q PROVE q[i].m \in Held(a) \cup Held(b)
    <2>1. CASE i <= k
      <3>1. i \in DOMAIN a /\ a[i] = q[i]
        BY <1>1, <1>2, <1>4, <2>1
      <3> QED BY <3>1 DEF Held
    <2>2. CASE i > k
      <3>1. i - k \in DOMAIN b /\ b[i - k] = q[i]
        BY <1>1, <1>3, <1>4, <2>2
      <3> QED BY <3>1 DEF Held
    <2> QED BY <1>1, <2>1, <2>2
  <1>6. Held(q) \subseteq Held(a) \cup Held(b)
    BY <1>5 DEF Held
  <1>7. Held(a) \subseteq Held(q)
    BY <1>1, <1>2, <1>4 DEF Held
  <1>8. Held(b) \subseteq Held(q)
    <2>1. \A i \in DOMAIN b : k + i \in DOMAIN q /\ b[i] = q[k + i]
      BY <1>1, <1>3, <1>4, RestLength
    <2> QED BY <2>1 DEF Held
  <1> QED BY <1>3, <1>6, <1>7, <1>8 DEF a, b

-----------------------------------------------------------------------------
(* The queue: the inductive invariant. *)

Busy(d) == reqs[d].st # "idle"

QueueType ==
    /\ queue \in Seq(Entries)
    /\ drain \in [Drains -> [left : Seq(Entries), kept : Seq(Entries),
                             at : Entries \cup {None}]]
    /\ fate \in [Mutations -> Fate]
    /\ online \in BOOLEAN

\* A drain that waits for its request knows the mutation it sent.
Working == \A d \in Drains : Busy(d) => drain[d].at \in Entries

\* What must not get lost is in the queue, and in every drain that will write it back.
Live(m) == fate[m].owner # None /\ ~fate[m].done /\ ~fate[m].late
Holds(d) == {drain[d].at.m} \cup Held(drain[d].left) \cup Held(drain[d].kept)
HeldThroughout ==
    \A m \in Mutations : Live(m) =>
        m \in Held(queue) /\ \A d \in Drains : Busy(d) => m \in Holds(d)

QueueInv == Session /\ QueueType /\ Working /\ HeldThroughout

\* Nothing becomes live but what is enqueued.
LEMMA OverLive ==
  ASSUME QueueType, NEW M
  PROVE  /\ Over(M) \in [Mutations -> Fate]
         /\ \A m \in Mutations : /\ Over(M)[m].owner = fate[m].owner
                                 /\ Over(M)[m].late = fate[m].late
                                 /\ Over(M)[m].done = (fate[m].done \/ m \in M)
  <1>1. \A m \in Mutations : fate[m] \in Fate
    BY DEF QueueType
  <1>2. \A m \in Mutations : /\ [fate[m] EXCEPT !.done = TRUE] \in Fate
                             /\ [fate[m] EXCEPT !.done = TRUE].owner = fate[m].owner
                             /\ [fate[m] EXCEPT !.done = TRUE].late = fate[m].late
                             /\ [fate[m] EXCEPT !.done = TRUE].done
    BY <1>1 DEF Fate
  <1> QED BY <1>1, <1>2 DEF Over, Fate

\* Steps that leave the queue and what the drains hold alone, or clear the queue.
LEMMA QueueStays ==
  ASSUME QueueInv, Session', drain' = drain, online' = online,
         \A d \in Drains : Busy(d)' => Busy(d),
         (queue' = queue /\ fate' = fate) \/ QueueCleared
  PROVE  QueueInv'
  <1>1. CASE queue' = queue /\ fate' = fate
    BY <1>1 DEF QueueInv, QueueType, Working, HeldThroughout, Live, Holds
  <1>2. CASE QueueCleared
    <2>1. queue' = <<>> /\ fate' = Over(Held(queue))
      BY <1>2 DEF QueueCleared
    <2>2. QueueType'
      <3>1. queue' \in Seq(Entries)
        BY <2>1, EmptySeq
      <3>2. fate' \in [Mutations -> Fate]
        BY <2>1, OverLive DEF QueueInv
      <3> QED BY <3>1, <3>2 DEF QueueInv, QueueType
    <2>3. ASSUME NEW m \in Mutations, Live(m)' PROVE FALSE
      <3>1. /\ fate'[m].owner = fate[m].owner /\ fate'[m].late = fate[m].late
            /\ fate'[m].done = (fate[m].done \/ m \in Held(queue))
        BY <2>1, OverLive DEF QueueInv
      <3>2. Live(m) /\ m \notin Held(queue)
        BY <2>3, <3>1 DEF Live
      <3> QED BY <3>2 DEF QueueInv, HeldThroughout
    <2> QED BY <2>2, <2>3 DEF QueueInv, Working, HeldThroughout
  <1> QED BY <1>1, <1>2

\* What the session does starts no drain.
LEMMA SessionNextBusy ==
  ASSUME Session, SessionNext, NEW d \in Drains, Busy(d)'
  PROVE  Busy(d)
  <1>1. reqs \in [Slots -> Request] /\ Drains \subseteq Slots
    BY DEF Session, SessionType, Slots
  <1>2. d # Me /\ d \notin Screens /\ d \in Slots
    BY <1>1, SlotsAssumption
  <1>3. CASE \E r \in Slots : ThrottledAgain(r) \/ AskForRefresh(r)
    BY <1>1, <1>2, <1>3 DEF ThrottledAgain, AskForRefresh, Busy
  <1>4. CASE \E r \in Slots : BackoffEnds(r)
    BY <1>1, <1>2, <1>4 DEF BackoffEnds, Busy
  <1>5. CASE \E r \in Slots : RequestSettles(r) \/ RequestFails(r)
    BY <1>1, <1>2, <1>5 DEF RequestSettles, RequestFails, Settled, Busy
  <1>6. CASE \E s \in Screens : ScreenCalls(s)
    BY <1>1, <1>2, <1>6 DEF ScreenCalls, Busy
  <1>7. CASE RefreshSucceeds
    BY <1>1, <1>2, <1>7 DEF RefreshSucceeds, Waiting, Busy
  <1>8. CASE (\E u \in Users : Login(u)) \/ LogoutPressed \/ Hydrate \/ HydrateFetchesProfile
    BY <1>1, <1>2, <1>8 DEF Login, LogoutPressed, Hydrate, HydrateFetchesProfile, Busy
  <1> QED BY <1>3, <1>4, <1>5, <1>6, <1>7, <1>8 DEF SessionNext

LEMMA SessionNextQueue ==
  ASSUME QueueInv, SessionNext, UNCHANGED queueVars
  PROVE  QueueInv'
  <1>1. Session'
    BY NextSession DEF QueueInv, Next
  <1>2. \A d \in Drains : Busy(d)' => Busy(d)
    BY SessionNextBusy DEF QueueInv
  <1>3. drain' = drain /\ online' = online /\ queue' = queue /\ fate' = fate
    BY DEF queueVars
  <1> QED BY <1>1, <1>2, <1>3, QueueStays

-----------------------------------------------------------------------------
(* The queue's own steps. *)

LEMMA LoadedParts ==
  ASSUME QueueType, NEW k \in 0..Len(queue)
  PROVE  /\ Loaded(k) \in Seq(Entries)
         /\ TooOld(k) \in [Mutations -> Fate]
         /\ \A m \in Mutations :
               /\ TooOld(k)[m].owner = fate[m].owner
               /\ TooOld(k)[m].late = fate[m].late
               /\ TooOld(k)[m].done =
                     (fate[m].done \/ m \in Held(SubSeq(queue, 1, k)))
         /\ Held(queue) = Held(SubSeq(queue, 1, k)) \cup Held(Loaded(k))
  BY HeldParts, OverLive DEF Loaded, TooOld, QueueType

LEMMA EnqueueQueue ==
  ASSUME QueueInv, NEW m \in Mutations, Enqueue(m)
  PROVE  QueueInv'
  <1>1. PICK k \in 0..Len(queue) :
           /\ queue' = Append(Loaded(k), [m |-> m, retries |-> 0])
           /\ fate' = [TooOld(k) EXCEPT ![m].owner = store.user, ![m].late = Draining]
    BY DEF Enqueue
  <1>2. UNCHANGED <<sessionVars, drain, online>>
    BY DEF Enqueue
  <1>3. Session'
    BY <1>2, SessionStill DEF QueueInv
  <1>4. [m |-> m, retries |-> 0] \in Entries
    BY QueueBoundsAssumption DEF Entries
  <1>5. /\ queue' \in Seq(Entries) /\ Held(queue') = Held(Loaded(k)) \cup {m}
    BY <1>1, <1>4, LoadedParts, HeldAppend DEF QueueInv
  <1>6. store.user \in Users \cup {None} /\ Draining \in BOOLEAN
    BY DEF QueueInv, Session, SessionType, Draining
  <1>7. fate' \in [Mutations -> Fate]
    <2>1. TooOld(k) \in [Mutations -> Fate] /\ TooOld(k)[m] \in Fate
      BY LoadedParts DEF QueueInv
    <2>2. [TooOld(k)[m] EXCEPT !.owner = store.user, !.late = Draining] \in Fate
      BY <1>6, <2>1 DEF Fate
    <2>3. fate' = [TooOld(k) EXCEPT ![m] =
                      [TooOld(k)[m] EXCEPT !.owner = store.user, !.late = Draining]]
      BY <1>1, <2>1 DEF Fate
    <2> QED BY <2>1, <2>2, <2>3
  <1>8. /\ fate'[m].late = Draining
        /\ \A n \in Mutations \ {m} : fate'[n] = TooOld(k)[n]
    BY <1>1, <1>6, LoadedParts DEF QueueInv, Fate
  <1>9. ASSUME NEW d \in Drains, Busy(d) PROVE Draining
    BY <1>9, NoEntryAssumption DEF QueueInv, Working, Draining, Running
  <1>10. HeldThroughout'
    <2> SUFFICES ASSUME NEW n \in Mutations, Live(n)'
                 PROVE  /\ n \in Held(queue')
                        /\ \A d \in Drains : Busy(d) => n \in Holds(d)
      BY <1>2 DEF HeldThroughout, Holds, Busy, sessionVars
    <2>1. CASE n = m
      BY <1>5, <1>8, <1>9, <2>1 DEF Live
    <2>2. CASE n # m
      <3>1. Live(n) /\ n \notin Held(SubSeq(queue, 1, k))
        BY <1>8, <2>2, LoadedParts DEF Live, QueueInv
      <3> QED BY <1>5, <3>1, LoadedParts DEF QueueInv, HeldThroughout
    <2> QED BY <2>1, <2>2
  <1> QED BY <1>2, <1>3, <1>5, <1>7, <1>10
          DEF QueueInv, QueueType, Working, Busy, sessionVars

\* A drain takes the head of q and keeps its requests' slot.
LEMMA AtHead ==
  ASSUME QueueInv, NEW d \in Drains, NEW q \in Seq(Entries), q # <<>>,
         NEW kept \in Seq(Entries), drain' = At(d, q, kept)
  PROVE  /\ drain' \in [Drains -> [left : Seq(Entries), kept : Seq(Entries),
                                   at : Entries \cup {None}]]
         /\ drain'[d].at \in Entries
         /\ Holds(d)' = Held(q) \cup Held(kept)
         /\ \A e \in Drains \ {d} : drain'[e] = drain[e]
  <1>1. /\ Head(q) \in Entries /\ Tail(q) \in Seq(Entries)
        /\ Held(q) = {Head(q).m} \cup Held(Tail(q))
    BY HeldHeadTail
  <1>2. drain' = [drain EXCEPT ![d] = [at |-> Head(q), left |-> Tail(q), kept |-> kept]]
    BY DEF At
  <1>3. /\ drain'[d] = [at |-> Head(q), left |-> Tail(q), kept |-> kept]
        /\ \A e \in Drains \ {d} : drain'[e] = drain[e]
        /\ drain' \in [Drains -> [left : Seq(Entries), kept : Seq(Entries),
                                  at : Entries \cup {None}]]
    BY <1>1, <1>2 DEF QueueInv, QueueType
  <1> QED BY <1>1, <1>3 DEF Holds

LEMMA OnlineQueue == ASSUME QueueInv, GoesOnline PROVE QueueInv'
  <1>1. Session'
    BY OnlineSession DEF QueueInv
  <1>2. PICK k \in 0..Len(queue) :
           /\ fate' = TooOld(k)
           /\ IF Loaded(k) = <<>>
              THEN UNCHANGED <<drain, reqs, life>>
              ELSE \E d \in Drains : /\ ~Running(d)
                                     /\ drain' = At(d, Loaded(k), <<>>)
                                     /\ reqs' = Sending(d)
                                     /\ life' = [life EXCEPT !.overlapped = @ \/ Draining]
    BY DEF GoesOnline
  <1>3. queue' = queue /\ online' = TRUE
    BY DEF GoesOnline
  <1>4. ASSUME NEW n \in Mutations, Live(n)'
        PROVE  Live(n) /\ n \in Held(queue) /\ n \in Held(Loaded(k))
    <2>1. Live(n) /\ n \notin Held(SubSeq(queue, 1, k))
      BY <1>2, <1>4, LoadedParts DEF Live, QueueInv
    <2> QED BY <2>1, LoadedParts DEF QueueInv, HeldThroughout
  <1>5. fate' \in [Mutations -> Fate] /\ Loaded(k) \in Seq(Entries)
    BY <1>2, LoadedParts DEF QueueInv
  <1>6. CASE UNCHANGED <<drain, reqs>>
    BY <1>1, <1>3, <1>4, <1>5, <1>6
       DEF QueueInv, QueueType, Working, HeldThroughout, Holds, Busy
  <1>7. CASE Loaded(k) # <<>> /\ \E d \in Drains : /\ drain' = At(d, Loaded(k), <<>>)
                                                   /\ reqs' = Sending(d)
    <2>1. PICK d \in Drains : drain' = At(d, Loaded(k), <<>>) /\ reqs' = Sending(d)
      BY <1>7
    <2>2. <<>> \in Seq(Entries) /\ Held(<<>>) = {}
      BY EmptySeq DEF Held
    <2>3. /\ drain' \in [Drains -> [left : Seq(Entries), kept : Seq(Entries),
                                    at : Entries \cup {None}]]
          /\ drain'[d].at \in Entries
          /\ Holds(d)' = Held(Loaded(k)) \cup Held(<<>>)
          /\ \A e \in Drains \ {d} : drain'[e] = drain[e]
      BY <1>5, <1>7, <2>1, <2>2, AtHead
    <2>4. \A e \in Drains \ {d} : reqs'[e] = reqs[e]
      BY <2>1 DEF Sending, QueueInv, Session, SessionType, Slots
    <2>5. Working'
      BY <2>3, <2>4 DEF QueueInv, Working, Busy
    <2>6. HeldThroughout'
      BY <1>3, <1>4, <2>3, <2>4 DEF QueueInv, HeldThroughout, Holds, Busy
    <2> QED BY <1>1, <1>3, <1>5, <2>3, <2>5, <2>6 DEF QueueInv, QueueType
  <1> QED BY <1>2, <1>6, <1>7

\* The mutation a drain sent is over, or kept for another try.
LEMMA ContinuesQueue ==
  ASSUME QueueInv, NEW d \in Drains, Busy(d), NEW failed \in BOOLEAN, Continues(d, failed),
         Session', online' = online
  PROVE  QueueInv'
  <1> DEFINE at == drain[d].at
             e == [at EXCEPT !.retries = @ + 1]
             again == failed /\ e.retries < MaxRetries
             kept == IF again THEN Append(drain[d].kept, e) ELSE drain[d].kept
  <1>1. /\ at \in Entries /\ drain[d].left \in Seq(Entries) /\ drain[d].kept \in Seq(Entries)
    BY DEF QueueInv, QueueType, Working
  <1>2. /\ fate' = [fate EXCEPT ![e.m].fails = IF failed THEN @ + 1 ELSE @,
                                ![e.m].done = @ \/ ~again]
        /\ IF drain[d].left # <<>>
           THEN /\ drain' = At(d, drain[d].left, kept)
                /\ reqs' = Sending(d)
                /\ UNCHANGED queue
           ELSE /\ drain' = [drain EXCEPT ![d] = NoDrain]
                /\ reqs' = Settled(d)
                /\ queue' = kept
    BY DEF Continues
  <1>3. e.m = at.m /\ e.retries = at.retries + 1 /\ at.m \in Mutations
    BY <1>1 DEF Entries
  <1>4. again \in BOOLEAN /\ (again => e \in Entries)
    <2>1. at.retries \in Nat /\ MaxRetries \in Nat
      BY <1>1, QueueBoundsAssumption DEF Entries
    <2>2. again => at.retries + 1 \in 0..(MaxRetries - 1)
      BY <1>3, <2>1, QueueBoundsAssumption
    <2> QED BY <1>1, <1>3, <2>2 DEF Entries
  <1> HIDE DEF e, again
  <1>5. /\ kept \in Seq(Entries)
        /\ Held(kept) = Held(drain[d].kept) \cup (IF again THEN {at.m} ELSE {})
    BY <1>1, <1>3, <1>4, HeldAppend
  <1> HIDE DEF kept
  <1> DEFINE g == [fate[at.m] EXCEPT !.fails = IF failed THEN @ + 1 ELSE @,
                                     !.done = @ \/ ~again]
  <1>a. fate[at.m] \in Fate /\ fate \in [Mutations -> Fate]
    BY <1>3 DEF QueueInv, QueueType
  <1>b. /\ g \in Fate
        /\ g.owner = fate[at.m].owner /\ g.late = fate[at.m].late
        /\ g.done = (fate[at.m].done \/ ~again)
    <2>1. fate[at.m].fails + 1 \in Nat /\ (fate[at.m].done \/ ~again) \in BOOLEAN
      BY <1>4, <1>a DEF Fate
    <2> QED BY <1>a, <2>1 DEF Fate
  <1>c. fate' = [fate EXCEPT ![at.m] = g]
    BY <1>2, <1>3, <1>a
  <1> HIDE DEF g
  <1>6. fate' \in [Mutations -> Fate]
    BY <1>3, <1>a, <1>b, <1>c
  <1>7. /\ \A n \in Mutations \ {at.m} : fate'[n] = fate[n]
        /\ fate'[at.m].owner = fate[at.m].owner /\ fate'[at.m].late = fate[at.m].late
        /\ fate'[at.m].done = (fate[at.m].done \/ ~again)
    BY <1>3, <1>a, <1>b, <1>c
  <1>8. ASSUME NEW n \in Mutations, Live(n)'
        PROVE  /\ Live(n) /\ n \in Held(queue) /\ (n = at.m => again)
               /\ n \in {at.m} \cup Held(drain[d].left) \cup Held(drain[d].kept)
    <2>1. Live(n) /\ (n = at.m => again)
      BY <1>3, <1>7, <1>8 DEF Live
    <2> QED BY <2>1 DEF QueueInv, HeldThroughout, Holds
  <1>9. Drains \subseteq Slots /\ reqs \in [Slots -> Request]
    BY DEF Slots, QueueInv, Session, SessionType
  <1>10. CASE drain[d].left # <<>>
    <2>1. /\ drain' = At(d, drain[d].left, kept) /\ reqs' = Sending(d) /\ queue' = queue
      BY <1>2, <1>10
    <2>2. /\ drain' \in [Drains -> [left : Seq(Entries), kept : Seq(Entries),
                                    at : Entries \cup {None}]]
          /\ drain'[d].at \in Entries
          /\ Holds(d)' = Held(drain[d].left) \cup Held(kept)
          /\ \A c \in Drains \ {d} : drain'[c] = drain[c]
      BY <1>1, <1>5, <1>10, <2>1, AtHead
    <2>3. \A c \in Drains \ {d} : reqs'[c] = reqs[c]
      BY <1>9, <2>1 DEF Sending
    <2>4. Working'
      BY <2>2, <2>3 DEF QueueInv, Working, Busy
    <2>5. HeldThroughout'
      <3> SUFFICES ASSUME NEW n \in Mutations, Live(n)'
                   PROVE  /\ n \in Held(queue')
                          /\ \A c \in Drains : Busy(c)' => n \in Holds(c)'
        BY DEF HeldThroughout
      <3>1. n \in Holds(d)'
        BY <1>5, <1>8, <2>2
      <3>2. \A c \in Drains \ {d} : Busy(c)' => n \in Holds(c)'
        BY <1>8, <2>2, <2>3 DEF QueueInv, HeldThroughout, Holds, Busy
      <3> QED BY <1>8, <2>1, <3>1, <3>2
    <2> QED BY <1>6, <2>1, <2>2, <2>4, <2>5 DEF QueueInv, QueueType
  <1>11. CASE drain[d].left = <<>>
    <2>1. drain' = [drain EXCEPT ![d] = NoDrain] /\ reqs' = Settled(d) /\ queue' = kept
      BY <1>2, <1>11
    <2>2. /\ NoDrain \in [left : Seq(Entries), kept : Seq(Entries), at : Entries \cup {None}]
      BY DEF NoDrain
    <2>3. /\ drain' \in [Drains -> [left : Seq(Entries), kept : Seq(Entries),
                                    at : Entries \cup {None}]]
          /\ \A c \in Drains \ {d} : drain'[c] = drain[c]
      BY <2>1, <2>2 DEF QueueInv, QueueType
    <2>4. /\ ~Busy(d)' /\ \A c \in Drains \ {d} : reqs'[c] = reqs[c]
      BY <1>9, <2>1, NoRequestType DEF Settled, Busy
    <2>5. Working'
      BY <2>3, <2>4 DEF QueueInv, Working, Busy
    <2>6. Held(drain[d].left) = {}
      BY <1>11 DEF Held
    <2>7. HeldThroughout'
      <3> SUFFICES ASSUME NEW n \in Mutations, Live(n)'
                   PROVE  /\ n \in Held(queue')
                          /\ \A c \in Drains : Busy(c)' => n \in Holds(c)'
        BY DEF HeldThroughout
      <3>1. n \in Held(kept)
        BY <1>5, <1>8, <2>6
      <3>2. \A c \in Drains : Busy(c)' => n \in Holds(c)'
        BY <1>8, <2>3, <2>4 DEF QueueInv, HeldThroughout, Holds, Busy
      <3> QED BY <2>1, <3>1, <3>2
    <2> QED BY <1>5, <1>6, <2>1, <2>3, <2>5, <2>7 DEF QueueInv, QueueType
  <1> QED BY <1>10, <1>11

LEMMA DrainQueue ==
  ASSUME QueueInv, NEW d \in Drains, DrainSettles(d) \/ DrainFails(d)
  PROVE  QueueInv'
  <1>1. Session' /\ online' = online /\ Busy(d)
    BY DrainsSession DEF QueueInv, DrainSettles, DrainFails, Busy
  <1>2. CASE DrainSettles(d)
    <2>1. PICK a \in Answers(d) : Continues(d, a \in {"throttled", "broken"})
      BY <1>2 DEF DrainSettles
    <2> DEFINE failed == a \in {"throttled", "broken"}
    <2>2. failed \in BOOLEAN /\ Continues(d, failed)
      BY <2>1
    <2> HIDE DEF failed
    <2> QED BY <1>1, <2>2, ContinuesQueue
  <1>3. CASE DrainFails(d)
    <2>1. PICK failed \in BOOLEAN : Continues(d, failed)
      BY <1>3 DEF DrainFails
    <2> QED BY <1>1, <2>1, ContinuesQueue
  <1> QED BY <1>2, <1>3

\* The session dies, with the requests in R.
LEMMA DiesQueue ==
  ASSUME QueueInv, NEW R \in SUBSET Slots, NEW st \in {"refused", "rejected"},
         SessionDies(R, st), \A r \in R : reqs[r].st # "idle",
         Session'
  PROVE  QueueInv'
  <1>1. drain' = drain /\ online' = online /\ QueueCleared
    BY DEF SessionDies
  <1>2. ASSUME NEW d \in Drains, Busy(d)' PROVE Busy(d)
    <2>1. d \in Slots
      BY DEF Slots
    <2> QED BY <1>2, <2>1, DiesState DEF Busy, QueueInv
  <1> QED BY <1>1, <1>2, QueueStays

LEMMA KilledQueue == ASSUME QueueInv, Killed PROVE QueueInv'
  <1>1. Session'
    BY KilledSession DEF QueueInv
  <1>2. /\ drain' = [d \in Drains |-> NoDrain] /\ queue' = queue /\ fate' = fate
        /\ online' = online /\ reqs' = [r \in Slots |-> NoRequest]
    BY DEF Killed, AppKilled
  <1>3. \A d \in Drains : ~Busy(d)'
    BY <1>2, NoRequestType DEF Busy, Slots
  <1>4. drain' \in [Drains -> [left : Seq(Entries), kept : Seq(Entries),
                               at : Entries \cup {None}]]
    BY <1>2 DEF NoDrain
  <1> QED BY <1>1, <1>2, <1>3, <1>4
          DEF QueueInv, QueueType, Working, HeldThroughout, Live

LEMMA QueueNextQueue == ASSUME QueueInv, QueueNext PROVE QueueInv'
  <1>1. Session'
    BY NextSession DEF QueueInv, Next
  <1>2. CASE GoesOffline
    <2>1. UNCHANGED <<sessionVars, queue, drain, fate>> /\ online' = FALSE
      BY <1>2 DEF GoesOffline
    <2> QED BY <1>1, <2>1 DEF sessionVars, QueueInv, QueueType, Working, HeldThroughout,
                               Live, Holds, Busy
  <1>3. CASE RefreshFails
    <2>1. /\ \E st \in {"refused", "rejected"} : SessionDies(Waiting, st)
          /\ Waiting \in SUBSET Slots
          /\ \A r \in Waiting : reqs[r].st # "idle"
      BY <1>3 DEF RefreshFails, Waiting
    <2> QED BY <1>1, <2>1, DiesQueue
  <1>4. CASE \E r \in Slots : NothingToRefresh(r)
    <2>1. PICK r \in Slots : SessionDies({r}, "rejected") /\ reqs[r].st = "sent"
      BY <1>4 DEF NothingToRefresh
    <2> QED BY <1>1, <2>1, DiesQueue
  <1>5. CASE LogoutFinishes \/ ClearAuth
    <2>1. UNCHANGED <<reqs, drain, online>> /\ QueueCleared
      BY <1>5 DEF LogoutFinishes, ClearAuth
    <2> QED BY <1>1, <2>1, QueueStays DEF Busy
  <1> QED BY <1>2, <1>3, <1>4, <1>5, EnqueueQueue, OnlineQueue, DrainQueue, KilledQueue
          DEF QueueNext

LEMMA NextQueue == ASSUME QueueInv, [Next]_vars PROVE QueueInv'
  <1>1. CASE UNCHANGED vars
    <2>1. Session'
      BY <1>1, SessionStill DEF vars, QueueInv
    <2> QED BY <1>1, <2>1 DEF vars, sessionVars, queueVars, QueueInv, QueueType, Working,
                               HeldThroughout, Live, Holds, Busy
  <1> QED BY <1>1, SessionNextQueue, QueueNextQueue DEF Next

LEMMA InitQueue == ASSUME Init PROVE QueueInv
  <1>1. Session
    BY InitSession
  <1>2. /\ queue = <<>> /\ drain = [d \in Drains |-> NoDrain] /\ online = TRUE
        /\ fate = [m \in Mutations |->
                      [owner |-> None, done |-> FALSE, fails |-> 0, late |-> FALSE]]
        /\ reqs = [r \in Slots |-> NoRequest]
    BY DEF Init, SessionInit
  <1>3. drain \in [Drains -> [left : Seq(Entries), kept : Seq(Entries),
                              at : Entries \cup {None}]]
    BY <1>2 DEF NoDrain
  <1>4. fate \in [Mutations -> Fate] /\ \A m \in Mutations : ~Live(m)
    BY <1>2 DEF Fate, Live
  <1>5. Working
    BY <1>2, NoRequestType DEF Working, Busy, Slots
  <1>6. queue \in Seq(Entries)
    BY <1>2, EmptySeq
  <1> QED BY <1>1, <1>2, <1>3, <1>4, <1>5, <1>6 DEF QueueInv, QueueType, HeldThroughout

\* The strengthening holds in every reachable state.
THEOREM QueueInvariant == Spec => []QueueInv
  <1>1. Init => QueueInv
    BY InitQueue
  <1>2. QueueInv /\ [Next]_vars => QueueInv'
    BY NextQueue
  <1> QED BY <1>1, <1>2, PTL DEF Spec

\* The store, the disk, the requests and the queue keep their shape; in particular
\* nothing in the queue has failed MAX_RETRIES times. (saveQueue, drainMutationQueue)
THEOREM ClientTypeCorrect == Spec => []TypeOK
  <1>1. QueueInv => TypeOK
    BY DEF QueueInv, QueueType, Session, SessionType, TypeOK
  <1> QED BY <1>1, QueueInvariant, PTL

\* What was queued while no drain ran stays in the queue until it is delivered, refused,
\* given up, cleared or too old, whatever is killed. (drainMutationQueue, saveQueue)
THEOREM NothingQueuedVanishes == Spec => []NothingVanishes
  <1>1. QueueInv => NothingVanishes
    BY DEF QueueInv, HeldThroughout, Live, NothingVanishes
  <1> QED BY <1>1, QueueInvariant, PTL

-----------------------------------------------------------------------------
(* Entries that are held once, and know how often they failed. *)

Once(q) == \A i, j \in DOMAIN q : q[i].m = q[j].m => i = j
Counted(f, q) == \A i \in DOMAIN q : f[q[i].m].fails <= q[i].retries

LEMMA OnceTail ==
  ASSUME NEW q \in Seq(Entries), q # <<>>, Once(q), NEW f, Counted(f, q)
  PROVE  /\ Once(Tail(q)) /\ Counted(f, Tail(q))
         /\ Head(q).m \notin Held(Tail(q))
         /\ f[Head(q).m].fails <= Head(q).retries
  <1>1. /\ Tail(q) \in Seq(Entries) /\ Len(Tail(q)) = Len(q) - 1
        /\ \A i \in 1..Len(Tail(q)) : Tail(q)[i] = q[i + 1]
    BY HeadTailProperties
  <1>2. /\ DOMAIN q = 1..Len(q) /\ DOMAIN Tail(q) = 1..(Len(q) - 1)
        /\ Len(q) \in Nat \ {0} /\ Head(q) = q[1] /\ 1 \in DOMAIN q
    BY <1>1
  <1>3. \A i \in DOMAIN Tail(q) : /\ i \in Nat /\ i + 1 \in DOMAIN q /\ i + 1 # 1
                                  /\ Tail(q)[i] = q[i + 1]
    BY <1>1, <1>2
  <1>4. Once(Tail(q))
    <2> SUFFICES ASSUME NEW i \in DOMAIN Tail(q), NEW j \in DOMAIN Tail(q),
                        Tail(q)[i].m = Tail(q)[j].m
                 PROVE  i = j
      BY DEF Once
    <2>1. i + 1 = j + 1
      BY <1>3 DEF Once
    <2> QED BY <1>3, <2>1
  <1>5. Counted(f, Tail(q))
    BY <1>3 DEF Counted
  <1>6. Head(q).m \notin Held(Tail(q))
    BY <1>2, <1>3 DEF Once, Held
  <1> QED BY <1>2, <1>4, <1>5, <1>6 DEF Counted

LEMMA OnceRest ==
  ASSUME NEW q \in Seq(Entries), NEW k \in 0..Len(q), Once(q), NEW f, Counted(f, q)
  PROVE  Once(SubSeq(q, k + 1, Len(q))) /\ Counted(f, SubSeq(q, k + 1, Len(q)))
  <1> DEFINE b == SubSeq(q, k + 1, Len(q))
  <1>1. Len(q) \in Nat /\ DOMAIN q = 1..Len(q) /\ k \in Nat
    OBVIOUS
  <1>2. /\ b \in Seq(Entries)
        /\ Len(b) = IF k + 1 <= Len(q) THEN Len(q) - (k + 1) + 1 ELSE 0
        /\ \A i \in 1..(Len(q) - (k + 1) + 1) : b[i] = q[k + 1 + i - 1]
    BY <1>1, SubSeqProperties
  <1> HIDE DEF b
  <1>3. Len(b) = Len(q) - k
    BY <1>1, <1>2, RestLength
  <1>4. DOMAIN b = 1..(Len(q) - k)
    BY <1>2, <1>3, LenProperties
  <1>5. \A i \in DOMAIN b : i \in Nat /\ k + i \in DOMAIN q /\ b[i] = q[k + i]
    BY <1>1, <1>2, <1>4
  <1>6. Once(b)
    <2> SUFFICES ASSUME NEW i \in DOMAIN b, NEW j \in DOMAIN b, b[i].m = b[j].m
                 PROVE  i = j
      BY DEF Once
    <2>1. k + i = k + j
      BY <1>5 DEF Once
    <2> QED BY <1>1, <1>5, <2>1
  <1>7. Counted(f, b)
    BY <1>5 DEF Counted
  <1> QED BY <1>6, <1>7 DEF b

LEMMA OnceAppend ==
  ASSUME NEW q \in Seq(Entries), Once(q), NEW f, Counted(f, q),
         NEW e \in Entries, e.m \notin Held(q), f[e.m].fails <= e.retries
  PROVE  Once(Append(q, e)) /\ Counted(f, Append(q, e))
  <1>1. /\ Append(q, e) \in Seq(Entries) /\ Len(Append(q, e)) = Len(q) + 1
        /\ \A i \in 1..Len(q) : Append(q, e)[i] = q[i]
        /\ Append(q, e)[Len(q) + 1] = e
    BY AppendProperties
  <1>2. DOMAIN q = 1..Len(q) /\ DOMAIN Append(q, e) = 1..(Len(q) + 1) /\ Len(q) \in Nat
    BY <1>1
  <1>3. \A i \in DOMAIN Append(q, e) :
           \/ i \in DOMAIN q /\ Append(q, e)[i] = q[i] /\ q[i].m \in Held(q)
           \/ i = Len(q) + 1 /\ Append(q, e)[i] = e
    BY <1>1, <1>2 DEF Held
  <1> QED BY <1>3 DEF Once, Counted

\* Counting goes by what the entries are.
LEMMA CountedSame ==
  ASSUME NEW q \in Seq(Entries), NEW f, NEW g, Counted(f, q),
         \A n \in Held(q) : g[n].fails = f[n].fails
  PROVE  Counted(g, q)
  BY DEF Counted, Held

-----------------------------------------------------------------------------
(* The retries: the inductive invariant. *)

LifeKinds ==
    life \in [outages : Nat, kills : Nat, restored : BOOLEAN, overlapped : BOOLEAN,
              misdelivered : BOOLEAN]

Interrupted == life.kills # 0 \/ life.overlapped

\* What a drain still has to send or to keep.
DrainCounts(f, e) ==
    /\ Once(e.left) /\ Counted(f, e.left)
    /\ Once(e.kept) /\ Counted(f, e.kept)
    /\ Held(e.left) \cap Held(e.kept) = {}
    /\ e.at.m \notin Held(e.left) \cup Held(e.kept)
    /\ f[e.at.m].fails <= e.at.retries

\* One drain at a time; while it runs it knows all failures, else the queue does.
Counts ==
    /\ \A c, d \in Drains : Running(c) /\ Running(d) => c = d
    /\ \A d \in Drains : Running(d) => DrainCounts(fate, drain[d])
    /\ ~Draining => Once(queue) /\ Counted(fate, queue)

\* What was never enqueued is nowhere, and nothing failed too often.
Unborn ==
    \A m \in Mutations : fate[m].owner = None =>
        /\ fate[m].fails = 0 /\ m \notin Held(queue)
        /\ \A d \in Drains : Running(d) => m \notin Holds(d)
Tried == \A m \in Mutations : fate[m].fails <= MaxRetries

Retries == QueueInv /\ LifeKinds /\ (~Interrupted => Counts /\ Unborn /\ Tried)

-----------------------------------------------------------------------------
(* Steps that count nothing. *)

SameCount(g) == \A m \in Mutations : g[m].fails = fate[m].fails /\ g[m].owner = fate[m].owner

LEMMA OverCount == ASSUME QueueType, NEW M PROVE SameCount(Over(M))
  <1>1. \A m \in Mutations : fate[m] \in Fate
    BY DEF QueueType
  <1>2. \A m \in Mutations : /\ [fate[m] EXCEPT !.done = TRUE].fails = fate[m].fails
                             /\ [fate[m] EXCEPT !.done = TRUE].owner = fate[m].owner
    BY <1>1 DEF Fate
  <1> QED BY <1>2 DEF Over, SameCount

LEMMA RunningParts ==
  ASSUME QueueInv, NEW d \in Drains, Running(d)
  PROVE  /\ drain[d].at \in Entries /\ drain[d].at.m \in Mutations
         /\ drain[d].left \in Seq(Entries) /\ drain[d].kept \in Seq(Entries)
         /\ Held(drain[d].left) \subseteq Mutations /\ Held(drain[d].kept) \subseteq Mutations
  <1>1. /\ drain[d].at \in Entries
        /\ drain[d].left \in Seq(Entries) /\ drain[d].kept \in Seq(Entries)
    BY DEF QueueInv, QueueType, Running
  <1>2. drain[d].at.m \in Mutations
    BY <1>1 DEF Entries
  <1> QED BY <1>1, <1>2, HeldMutations

LEMMA SameDrainCounts ==
  ASSUME QueueInv, NEW d \in Drains, Running(d), DrainCounts(fate, drain[d]),
         NEW g, SameCount(g)
  PROVE  DrainCounts(g, drain[d])
  <1>1. /\ drain[d].at.m \in Mutations
        /\ drain[d].left \in Seq(Entries) /\ drain[d].kept \in Seq(Entries)
        /\ Held(drain[d].left) \subseteq Mutations /\ Held(drain[d].kept) \subseteq Mutations
    BY RunningParts
  <1>2. Counted(g, drain[d].left) /\ Counted(g, drain[d].kept)
    BY <1>1, CountedSame DEF DrainCounts, SameCount
  <1> QED BY <1>1, <1>2 DEF DrainCounts, SameCount

LEMMA CountsStay ==
  ASSUME QueueInv, Counts, Unborn, Tried, drain' = drain,
         (queue' = queue /\ fate' = fate) \/ QueueCleared
  PROVE  Counts' /\ Unborn' /\ Tried'
  <1>1. CASE queue' = queue /\ fate' = fate
    BY <1>1 DEF Counts, Unborn, Tried, DrainCounts, Draining, Running, Holds
  <1>2. CASE QueueCleared
    <2>1. queue' = <<>> /\ SameCount(fate') /\ Held(queue') = {} /\ DOMAIN queue' = {}
      BY <1>2, OverCount DEF QueueCleared, QueueInv, Held
    <2>2. \A d \in Drains : Running(d)' => Running(d) /\ DrainCounts(fate', drain'[d])
      BY <2>1, SameDrainCounts DEF Counts, Running
    <2>3. Once(queue') /\ Counted(fate', queue')
      BY <2>1 DEF Once, Counted
    <2>4. Counts'
      BY <2>2, <2>3 DEF Counts
    <2>5. Unborn' /\ Tried'
      BY <2>1 DEF Unborn, Tried, SameCount, Running, Holds
    <2> QED BY <2>4, <2>5
  <1> QED BY <1>1, <1>2

-----------------------------------------------------------------------------
(* Into the queue, and out of it. *)

LEMMA TooOldCount ==
  ASSUME QueueType, NEW k \in 0..Len(queue)
  PROVE  SameCount(TooOld(k))
  BY OverCount DEF TooOld

LEMMA EnqueueCounts ==
  ASSUME QueueInv, Counts, Unborn, Tried, NEW m \in Mutations, Enqueue(m)
  PROVE  Counts' /\ Unborn' /\ Tried'
  <1> DEFINE e == [m |-> m, retries |-> 0]
  <1>1. PICK k \in 0..Len(queue) :
           /\ queue' = Append(Loaded(k), e)
           /\ fate' = [TooOld(k) EXCEPT ![m].owner = store.user, ![m].late = Draining]
    BY DEF Enqueue
  <1>2. /\ drain' = drain /\ fate[m].owner = None /\ store.authed /\ QueueType /\ Session
    BY DEF Enqueue, QueueInv
  <1>3. /\ TooOld(k) \in [Mutations -> Fate] /\ SameCount(TooOld(k))
        /\ Loaded(k) \in Seq(Entries) /\ Held(Loaded(k)) \subseteq Held(queue)
        /\ Held(queue) \subseteq Mutations /\ queue \in Seq(Entries)
    BY <1>2, LoadedParts, TooOldCount, HeldMutations DEF QueueType
  <1>4. /\ e \in Entries /\ e.m = m /\ e.retries = 0
    BY QueueBoundsAssumption DEF Entries
  <1>5. /\ \A n \in Mutations : fate'[n].fails = fate[n].fails
        /\ \A n \in Mutations \ {m} : fate'[n].owner = fate[n].owner
        /\ fate'[m].owner # None
    <2>1. store.user # None /\ TooOld(k)[m] \in Fate
      BY <1>2, <1>3 DEF Session, SignedIn
    <2> QED BY <1>1, <1>3, <2>1 DEF SameCount, Fate
  <1>6. fate[m].fails = 0 /\ m \notin Held(queue)
    BY <1>2 DEF Unborn
  <1> HIDE DEF e
  <1>7. Held(queue') = Held(Loaded(k)) \cup {m}
    BY <1>1, <1>3, <1>4, HeldAppend
  <1>8. ~Draining => Once(queue') /\ Counted(fate', queue')
    <2> SUFFICES ASSUME ~Draining PROVE Once(queue') /\ Counted(fate', queue')
      OBVIOUS
    <2>1. Once(queue) /\ Counted(fate, queue)
      BY DEF Counts
    <2>2. Once(Loaded(k)) /\ Counted(fate, Loaded(k))
      BY <1>3, <2>1, OnceRest DEF Loaded
    <2>3. Counted(fate', Loaded(k))
      BY <1>3, <1>5, <2>2, CountedSame
    <2>4. m \notin Held(Loaded(k)) /\ fate'[m].fails <= 0
      BY <1>3, <1>5, <1>6
    <2> QED BY <1>1, <1>3, <1>4, <2>2, <2>3, <2>4, OnceAppend
  <1>9. \A d \in Drains : Running(d) => DrainCounts(fate', drain[d])
    <2> SUFFICES ASSUME NEW d \in Drains, Running(d)
                 PROVE  DrainCounts(fate', drain[d])
      OBVIOUS
    <2>1. /\ drain[d].at.m \in Mutations
          /\ drain[d].left \in Seq(Entries) /\ drain[d].kept \in Seq(Entries)
          /\ Held(drain[d].left) \subseteq Mutations
          /\ Held(drain[d].kept) \subseteq Mutations
      BY RunningParts
    <2>2. DrainCounts(fate, drain[d])
      BY DEF Counts
    <2>3. Counted(fate', drain[d].left) /\ Counted(fate', drain[d].kept)
      BY <1>5, <2>1, <2>2, CountedSame DEF DrainCounts
    <2> QED BY <1>5, <2>1, <2>2, <2>3 DEF DrainCounts
  <1>10. Counts'
    BY <1>2, <1>8, <1>9 DEF Counts, Draining, Running
  <1>11. Unborn' /\ Tried'
    BY <1>2, <1>3, <1>5, <1>7 DEF Unborn, Tried, Running, Holds
  <1> QED BY <1>10, <1>11

\* A drain takes the entries over as they are.
LEMMA OnlineCounts ==
  ASSUME QueueInv, LifeKinds, Counts, Unborn, Tried, GoesOnline, ~life'.overlapped
  PROVE  Counts' /\ Unborn' /\ Tried'
  <1>1. PICK k \in 0..Len(queue) :
           /\ fate' = TooOld(k)
           /\ IF Loaded(k) = <<>>
              THEN UNCHANGED <<drain, reqs, life>>
              ELSE \E d \in Drains : /\ ~Running(d)
                                     /\ drain' = At(d, Loaded(k), <<>>)
                                     /\ reqs' = Sending(d)
                                     /\ life' = [life EXCEPT !.overlapped = @ \/ Draining]
    BY DEF GoesOnline
  <1>2. queue' = queue /\ QueueType
    BY DEF GoesOnline, QueueInv
  <1>3. /\ SameCount(fate') /\ Held(Loaded(k)) \subseteq Held(queue)
        /\ Held(queue) \subseteq Mutations /\ queue \in Seq(Entries)
        /\ Loaded(k) \in Seq(Entries)
    BY <1>1, <1>2, LoadedParts, TooOldCount, HeldMutations DEF QueueType
  <1>4. Counted(fate, queue) => Counted(fate', queue)
    BY <1>3, CountedSame DEF SameCount
  <1>5. \A d \in Drains : Running(d) => DrainCounts(fate', drain[d])
    BY <1>3, SameDrainCounts DEF Counts
  <1>6. CASE drain' = drain
    <2>1. Counts'
      BY <1>2, <1>4, <1>5, <1>6 DEF Counts, Draining, Running
    <2>2. Unborn' /\ Tried'
      BY <1>2, <1>3, <1>6 DEF Unborn, Tried, SameCount, Running, Holds
    <2> QED BY <2>1, <2>2
  <1>7. CASE Loaded(k) # <<>> /\ drain' # drain
    <2> DEFINE q == Loaded(k)
    <2>1. PICK d \in Drains : /\ drain' = At(d, q, <<>>)
                              /\ life' = [life EXCEPT !.overlapped = @ \/ Draining]
      BY <1>1, <1>7
    <2>2. ~Draining
      BY <2>1 DEF LifeKinds
    <2>3. Once(q) /\ Counted(fate, q)
      BY <1>3, <2>2, OnceRest DEF Counts, Loaded
    <2>4. q \in Seq(Entries) /\ q # <<>> /\ Held(q) \subseteq Held(queue)
          /\ Held(q) \subseteq Mutations
      BY <1>3, <1>7
    <2> HIDE DEF q
    <2>5. Counted(fate', q)
      BY <1>3, <2>3, <2>4, CountedSame DEF SameCount
    <2>6. /\ Head(q) \in Entries /\ Tail(q) \in Seq(Entries)
          /\ Held(q) = {Head(q).m} \cup Held(Tail(q))
      BY <2>4, HeldHeadTail
    <2>7. /\ drain'[d] = [at |-> Head(q), left |-> Tail(q), kept |-> <<>>]
          /\ \A c \in Drains \ {d} : drain'[c] = drain[c]
      BY <1>2, <2>1 DEF At, QueueType
    <2>8. DrainCounts(fate', drain'[d])
      <3>1. /\ Once(Tail(q)) /\ Counted(fate', Tail(q))
            /\ Head(q).m \notin Held(Tail(q))
            /\ fate'[Head(q).m].fails <= Head(q).retries
        BY <2>3, <2>4, <2>5, OnceTail
      <3>2. Once(<<>>) /\ Counted(fate', <<>>) /\ Held(<<>>) = {}
        BY DEF Once, Counted, Held
      <3> QED BY <2>7, <3>1, <3>2 DEF DrainCounts
    <2>9. Running(d)' /\ \A c \in Drains : Running(c)' => c = d
      <3>1. \A c \in Drains \ {d} : ~Running(c)'
        BY <2>2, <2>7 DEF Draining, Running
      <3> QED BY <2>6, <2>7, <3>1, NoEntryAssumption DEF Running
    <2>10. Counts'
      BY <2>8, <2>9 DEF Counts, Draining
    <2>11. Holds(d)' = Held(q)
      <3>1. Held(<<>>) = {}
        BY DEF Held
      <3> QED BY <2>6, <2>7, <3>1 DEF Holds
    <2>12. Unborn' /\ Tried'
      BY <1>2, <1>3, <2>4, <2>9, <2>11 DEF Unborn, Tried, SameCount
    <2> QED BY <2>10, <2>12
  <1> QED BY <1>1, <1>6, <1>7

\* A request of a drain is done: its failure is counted in the entry it keeps.
LEMMA ContinuesCounts ==
  ASSUME QueueInv, Counts, Unborn, Tried, NEW d \in Drains, Running(d),
         NEW failed \in BOOLEAN, Continues(d, failed)
  PROVE  Counts' /\ Unborn' /\ Tried'
  <1> DEFINE at == drain[d].at
             left == drain[d].left
             old == drain[d].kept
             e == [at EXCEPT !.retries = @ + 1]
             again == failed /\ e.retries < MaxRetries
             kept == IF again THEN Append(old, e) ELSE old
  <1>1. /\ at \in Entries /\ at.m \in Mutations /\ at.retries \in 0..(MaxRetries - 1)
        /\ left \in Seq(Entries) /\ old \in Seq(Entries)
        /\ Held(left) \subseteq Mutations /\ Held(old) \subseteq Mutations
    BY RunningParts DEF Entries
  <1>2. /\ fate' = [fate EXCEPT ![e.m].fails = IF failed THEN @ + 1 ELSE @,
                                ![e.m].done = @ \/ ~again]
        /\ IF left # <<>>
           THEN drain' = At(d, left, kept) /\ queue' = queue
           ELSE drain' = [drain EXCEPT ![d] = NoDrain] /\ queue' = kept
    BY DEF Continues
  <1>3. e.m = at.m /\ e.retries = at.retries + 1 /\ (again => e \in Entries)
    <2>1. e.m = at.m /\ e.retries = at.retries + 1
      BY <1>1 DEF Entries
    <2>2. again => at.retries + 1 \in 0..(MaxRetries - 1)
      BY <1>1, <2>1, QueueBoundsAssumption
    <2> QED BY <1>1, <2>1, <2>2 DEF Entries
  <1>4. /\ Once(left) /\ Counted(fate, left) /\ Once(old) /\ Counted(fate, old)
        /\ Held(left) \cap Held(old) = {} /\ at.m \notin Held(left) \cup Held(old)
        /\ fate[at.m].fails <= at.retries
    BY DEF Counts, DrainCounts
  <1>5. again \in BOOLEAN /\ fate \in [Mutations -> Fate] /\ fate[at.m] \in Fate
        /\ fate[at.m].fails \in Nat
    BY <1>1 DEF QueueInv, QueueType, Fate
  <1> HIDE DEF e, again
  <1>6. /\ \A n \in Mutations : fate'[n].owner = fate[n].owner
        /\ \A n \in Mutations \ {at.m} : fate'[n].fails = fate[n].fails
        /\ fate'[at.m].fails = IF failed THEN fate[at.m].fails + 1 ELSE fate[at.m].fails
    <2> DEFINE g == [fate[at.m] EXCEPT !.fails = IF failed THEN @ + 1 ELSE @,
                                       !.done = @ \/ ~again]
    <2>1. fate' = [fate EXCEPT ![at.m] = g]
      BY <1>2, <1>3, <1>5
    <2>2. /\ g.owner = fate[at.m].owner
          /\ g.fails = IF failed THEN fate[at.m].fails + 1 ELSE fate[at.m].fails
      BY <1>5 DEF Fate
    <2> HIDE DEF g
    <2> QED BY <1>1, <1>5, <2>1, <2>2
  <1>7. Counted(fate', left) /\ Counted(fate', old)
    <2>1. \A n \in Held(left) \cup Held(old) : fate'[n].fails = fate[n].fails
      BY <1>1, <1>4, <1>6
    <2> QED BY <1>1, <1>4, <2>1, CountedSame
  <1>8. /\ kept \in Seq(Entries) /\ Held(kept) \subseteq Held(old) \cup {at.m}
        /\ Once(kept) /\ Counted(fate', kept)
    <2>1. CASE ~again
      BY <1>1, <1>4, <1>7, <2>1
    <2>2. CASE again
      <3>1. e \in Entries /\ e.m \notin Held(old) /\ fate'[e.m].fails <= e.retries
        <4>1. failed
          BY <2>2 DEF again
        <4> QED BY <1>1, <1>3, <1>4, <1>5, <1>6, <2>2, <4>1
      <3>2. kept = Append(old, e)
        BY <2>2
      <3> HIDE DEF kept
      <3> QED BY <1>1, <1>3, <1>4, <1>7, <3>1, <3>2, HeldAppend, OnceAppend
    <2> QED BY <1>5, <2>1, <2>2
  <1> HIDE DEF kept
  <1>9. Tried'
    <2>1. fate'[at.m].fails <= MaxRetries
      BY <1>1, <1>4, <1>5, <1>6, QueueBoundsAssumption
    <2> QED BY <1>6, <2>1 DEF Tried
  <1>10. \A c \in Drains \ {d} : ~Running(c) /\ drain'[c] = drain[c]
    <2>1. \A c \in Drains \ {d} : ~Running(c)
      BY DEF Counts
    <2>2. \A c \in Drains \ {d} : drain'[c] = drain[c]
      BY <1>2 DEF At, QueueInv, QueueType
    <2> QED BY <2>1, <2>2
  <1>11. \A n \in Mutations : fate'[n].owner = None =>
            fate'[n].fails = 0 /\ n \notin Held(queue) /\ n \notin Holds(d) /\ n # at.m
    <2> SUFFICES ASSUME NEW n \in Mutations, fate'[n].owner = None
                 PROVE  /\ fate'[n].fails = 0 /\ n \notin Held(queue) /\ n \notin Holds(d)
                        /\ n # at.m
      OBVIOUS
    <2>1. /\ fate[n].fails = 0 /\ n \notin Held(queue) /\ n \notin Holds(d)
      BY <1>6 DEF Unborn
    <2>2. n # at.m
      BY <2>1 DEF Holds
    <2> QED BY <1>6, <2>1, <2>2
  <1>12. CASE left # <<>>
    <2>1. /\ drain'[d] = [at |-> Head(left), left |-> Tail(left), kept |-> kept]
          /\ queue' = queue
      BY <1>2, <1>12 DEF At, QueueInv, QueueType
    <2>2. /\ Head(left) \in Entries /\ Tail(left) \in Seq(Entries)
          /\ Held(left) = {Head(left).m} \cup Held(Tail(left))
      BY <1>1, <1>12, HeldHeadTail
    <2>3. /\ Once(Tail(left)) /\ Counted(fate', Tail(left))
          /\ Head(left).m \notin Held(Tail(left))
          /\ fate'[Head(left).m].fails <= Head(left).retries
      BY <1>1, <1>4, <1>7, <1>12, OnceTail
    <2>4. /\ Held(Tail(left)) \cap Held(kept) = {} /\ Head(left).m \notin Held(kept)
      BY <1>4, <1>8, <2>2
    <2>5. DrainCounts(fate', drain'[d])
      BY <1>8, <2>1, <2>3, <2>4 DEF DrainCounts
    <2>6. Running(d)' /\ Draining'
      BY <2>1, <2>2, NoEntryAssumption DEF Running, Draining
    <2>7. Counts'
      BY <1>10, <2>5, <2>6 DEF Counts, Running
    <2>8. Holds(d)' \subseteq Holds(d)
      <3>1. Holds(d)' = {Head(left).m} \cup Held(Tail(left)) \cup Held(kept)
        BY <2>1 DEF Holds
      <3> QED BY <1>8, <2>2, <3>1 DEF Holds
    <2>9. Unborn'
      BY <1>10, <1>11, <2>1, <2>8 DEF Unborn, Running
    <2> QED BY <1>9, <2>7, <2>9
  <1>13. CASE left = <<>>
    <2>1. drain' = [drain EXCEPT ![d] = NoDrain] /\ queue' = kept
      BY <1>2, <1>13
    <2>2. \A c \in Drains : ~Running(c)'
      BY <1>10, <2>1 DEF NoDrain, Running, QueueInv, QueueType
    <2>3. Counts'
      BY <1>8, <2>1, <2>2 DEF Counts
    <2>4. Held(queue') \subseteq Holds(d)
      BY <1>8, <2>1 DEF Holds
    <2>5. Unborn'
      BY <1>11, <2>2, <2>4 DEF Unborn
    <2> QED BY <1>9, <2>3, <2>5
  <1> QED BY <1>12, <1>13

-----------------------------------------------------------------------------
(* Every step, for the retries. *)

LEMMA LifeCounts ==
  ASSUME Retries, [Next]_vars
  PROVE  LifeKinds' /\ (Interrupted => Interrupted')
  <1>1. life \in [outages : Nat, kills : Nat, restored : BOOLEAN, overlapped : BOOLEAN,
                  misdelivered : BOOLEAN]
    BY DEF Retries, LifeKinds
  <1>2. CASE UNCHANGED vars \/ (SessionNext /\ UNCHANGED queueVars)
    BY <1>1, <1>2 DEF vars, queueVars, LifeKinds, Interrupted
  <1>3. CASE \E d \in Drains : DrainSettles(d) \/ DrainFails(d)
    <2>1. PICK d \in Drains : DrainSettles(d) \/ DrainFails(d)
      BY <1>3
    <2>2. PICK b \in BOOLEAN, c \in BOOLEAN :
             life' = [life EXCEPT !.restored = b, !.misdelivered = c]
      <3>1. Restored \in BOOLEAN
        BY <1>1 DEF Restored
      <3>2. CASE DrainFails(d)
        BY <1>1, <3>1, <3>2 DEF DrainFails
      <3>3. CASE DrainSettles(d)
        <4>1. PICK a \in Answers(d) :
                 life' = [life EXCEPT
                            !.restored = Restored,
                            !.misdelivered = @ \/ (/\ a = "ok"
                                                   /\ reqs[d].tok.user #
                                                      fate[drain[d].at.m].owner)]
          BY <3>3 DEF DrainSettles
        <4> DEFINE c == life.misdelivered \/ (/\ a = "ok"
                                              /\ reqs[d].tok.user #
                                                 fate[drain[d].at.m].owner)
        <4>2. c \in BOOLEAN
          BY <1>1
        <4>3. life' = [life EXCEPT !.restored = Restored, !.misdelivered = c]
          BY <1>1, <4>1
        <4> HIDE DEF c
        <4> QED BY <3>1, <4>2, <4>3
      <3> QED BY <2>1, <3>2, <3>3
    <2> QED BY <1>1, <2>2 DEF LifeKinds, Interrupted
  <1>4. CASE GoesOffline \/ GoesOnline \/ Killed
    <2>1. \/ life' = [life EXCEPT !.outages = @ + 1]
          \/ life' = [life EXCEPT !.kills = @ + 1]
          \/ life' = [life EXCEPT !.overlapped = @ \/ Draining]
          \/ life' = life
      BY <1>4 DEF GoesOffline, GoesOnline, Killed
    <2>2. Draining \in BOOLEAN
      BY DEF Draining
    <2> QED BY <1>1, <2>1, <2>2 DEF LifeKinds, Interrupted
  <1>5. CASE RefreshFails \/ (\E r \in Slots : NothingToRefresh(r)) \/ LogoutFinishes
             \/ ClearAuth \/ (\E m \in Mutations : Enqueue(m))
    <2>1. life' = life
      BY <1>5 DEF RefreshFails, NothingToRefresh, SessionDies, LogoutFinishes, ClearAuth, Enqueue
    <2> QED BY <1>1, <2>1 DEF LifeKinds, Interrupted
  <1> QED BY <1>2, <1>3, <1>4, <1>5 DEF Next, QueueNext

LEMMA NextRetries == ASSUME Retries, [Next]_vars PROVE Retries'
  <1>1. QueueInv /\ QueueInv' /\ LifeKinds /\ LifeKinds' /\ (Interrupted => Interrupted')
    BY NextQueue, LifeCounts DEF Retries
  <1>2. ASSUME ~Interrupted' PROVE Counts' /\ Unborn' /\ Tried'
    <2>1. Counts /\ Unborn /\ Tried /\ life'.kills = 0 /\ ~life'.overlapped
      BY <1>1, <1>2 DEF Retries, Interrupted
    <2>2. CASE UNCHANGED vars \/ (SessionNext /\ UNCHANGED queueVars)
      BY <1>1, <2>1, <2>2, CountsStay DEF vars, queueVars
    <2>3. CASE RefreshFails \/ (\E r \in Slots : NothingToRefresh(r)) \/ LogoutFinishes
               \/ ClearAuth
      <3>1. drain' = drain /\ QueueCleared
        BY <2>3 DEF RefreshFails, NothingToRefresh, SessionDies, LogoutFinishes, ClearAuth
      <3> QED BY <1>1, <2>1, <3>1, CountsStay
    <2>4. CASE GoesOffline
      <3>1. drain' = drain /\ queue' = queue /\ fate' = fate
        BY <2>4 DEF GoesOffline
      <3> QED BY <1>1, <2>1, <3>1, CountsStay
    <2>5. CASE \E d \in Drains : DrainSettles(d) \/ DrainFails(d)
      <3>1. PICK d \in Drains : DrainSettles(d) \/ DrainFails(d)
        BY <2>5
      <3>2. PICK failed \in BOOLEAN : Continues(d, failed)
        <4>1. CASE DrainFails(d)
          BY <4>1 DEF DrainFails
        <4>2. CASE DrainSettles(d)
          <5>1. PICK a \in Answers(d) : Continues(d, a \in {"throttled", "broken"})
            BY <4>2 DEF DrainSettles
          <5> DEFINE f == a \in {"throttled", "broken"}
          <5>2. f \in BOOLEAN /\ Continues(d, f)
            BY <5>1
          <5> HIDE DEF f
          <5> QED BY <5>2
        <4> QED BY <3>1, <4>1, <4>2
      <3>3. Busy(d)
        BY <3>1 DEF DrainSettles, DrainFails, Busy
      <3>4. Running(d)
        BY <1>1, <3>3, NoEntryAssumption DEF QueueInv, Working, Running
      <3> QED BY <1>1, <2>1, <3>2, <3>4, ContinuesCounts
    <2>6. CASE Killed
      <3>1. life' = [life EXCEPT !.kills = @ + 1]
        BY <2>6 DEF Killed
      <3> QED BY <1>1, <2>1, <3>1 DEF LifeKinds
    <2> QED BY <1>1, <2>1, <2>2, <2>3, <2>4, <2>5, <2>6, EnqueueCounts, OnlineCounts
            DEF Next, QueueNext
  <1> QED BY <1>1, <1>2 DEF Retries

LEMMA InitRetries == ASSUME Init PROVE Retries
  <1>1. QueueInv
    BY InitQueue
  <1>2. /\ queue = <<>> /\ drain = [d \in Drains |-> NoDrain]
        /\ fate = [m \in Mutations |->
                      [owner |-> None, done |-> FALSE, fails |-> 0, late |-> FALSE]]
        /\ life = [outages |-> 0, kills |-> 0, restored |-> FALSE,
                   overlapped |-> FALSE, misdelivered |-> FALSE]
    BY DEF Init
  <1>3. LifeKinds
    BY <1>2 DEF LifeKinds
  <1>4. \A d \in Drains : ~Running(d)
    BY <1>2 DEF Running, NoDrain
  <1>5. Held(queue) = {} /\ Once(queue) /\ Counted(fate, queue)
    BY <1>2 DEF Held, Once, Counted
  <1>6. Counts /\ Unborn /\ Tried
    BY <1>2, <1>4, <1>5, QueueBoundsAssumption DEF Counts, Unborn, Tried
  <1> QED BY <1>1, <1>3, <1>6 DEF Retries

\* The strengthening holds in every reachable state: unless interrupted, one drain runs at
\* a time, and a mutation is held once, in an entry that knows all its failures.
THEOREM RetriesInvariant == Spec => []Retries
  <1>1. Init => Retries
    BY InitRetries
  <1>2. Retries /\ [Next]_vars => Retries'
    BY NextRetries
  <1> QED BY <1>1, <1>2, PTL DEF Spec

\* Nothing fails more often than MAX_RETRIES, however often the connection comes and goes,
\* unless the app was killed or two drains overlapped. (drainMutationQueue)
THEOREM FailuresAreBounded == Spec => []FailuresBounded
  <1>1. Retries => FailuresBounded
    BY DEF Retries, Interrupted, Tried, FailuresBounded
  <1> QED BY <1>1, RetriesInvariant, PTL

-----------------------------------------------------------------------------
(* Whose calls: the inductive invariant. *)

LifeType ==
    life \in [outages : Nat, kills : Nat, restored : BOOLEAN, overlapped : BOOLEAN,
              misdelivered : BOOLEAN]

Excused == past.crossed \/ life.restored

\* Whatever is queued waits for a session that has its tokens and its user; the app
\* fetches the profile while it starts only if none is stored.
Guarded ==
    /\ queue # <<>> => /\ disk.tok # None /\ disk.user # None
                       /\ store.hydrated => store.authed
    /\ ~store.hydrated /\ Pending(Me) => disk.user = None

\* Calls under way were made by u, and what is queued or drained is of u.
CalledBy(u) == \A r \in Slots : Pending(r) => reqs[r].by \in {None, u}
QueuedBy(u) ==
    /\ \A m \in Held(queue) : fate[m].owner = u
    /\ \A d \in Drains : Busy(d) => \A m \in Holds(d) : fate[m].owner = u
ActsFor(u) == BelongsTo(u) /\ CalledBy(u) /\ QueuedBy(u)

Faithful ==
    /\ ~past.foreign /\ ~life.misdelivered
    /\ Guarded
    /\ \E u \in Users \cup {None} : ActsFor(u)

Delivery == QueueInv /\ LifeType /\ (~Excused => Faithful)

-----------------------------------------------------------------------------
(* Whose calls: requests. *)

LEMMA FreshCaller ==
  ASSUME Session
  PROVE  Fresh.by = store.user
  <1>1. /\ store.user \in Users \cup {None}
        /\ disk.tok \in Tokens \cup {None}
    BY DEF Session, SessionType
  <1>2. /\ [NoRequest EXCEPT !.st = "sent", !.by = store.user] \in Request
        /\ [NoRequest EXCEPT !.st = "sent", !.by = store.user].by = store.user
    BY <1>1, NoRequestType DEF Request
  <1> QED BY <1>1, <1>2 DEF Fresh, Authorised, Request

\* A step that moves requests only, each of them with the caller it had.
LEMMA CallersMove ==
  ASSUME Session, NEW u \in Users \cup {None}, BelongsTo(u), CalledBy(u),
         UNCHANGED <<store, disk>>, refresh' \in {refresh, disk.tok, None},
         \A r \in Slots :
            /\ reqs'[r].tok \in {reqs[r].tok, disk.tok, None}
            /\ Pending(r)' => \/ Pending(r) /\ reqs'[r].by = reqs[r].by
                              \/ reqs'[r].by = store.user
  PROVE  BelongsTo(u)' /\ CalledBy(u)'
  <1>1. BelongsTo(u)'
    BY DEF BelongsTo
  <1>2. CalledBy(u)'
    BY DEF BelongsTo, CalledBy
  <1> QED BY <1>1, <1>2

-----------------------------------------------------------------------------
(* Whose calls: the session's steps. *)

\* The queue and the drains wait while the session moves.
LEMMA SessionNextHeld ==
  ASSUME Delivery, SessionNext, UNCHANGED queueVars, NEW u, QueuedBy(u)
  PROVE  QueuedBy(u)'
  <1>1. \A d \in Drains : Busy(d)' => Busy(d)
    BY SessionNextBusy DEF Delivery, QueueInv
  <1>2. queue' = queue /\ drain' = drain /\ fate' = fate
    BY DEF queueVars
  <1> QED BY <1>1, <1>2 DEF QueuedBy, Holds

\* A step that leaves the account as it is.
LEMMA SessionKeeps ==
  ASSUME Delivery, SessionNext, UNCHANGED queueVars, NEW u \in Users \cup {None}, QueuedBy(u),
         ~past'.foreign, ~life.misdelivered,
         Guarded', BelongsTo(u)', CalledBy(u)'
  PROVE  Faithful'
  <1>1. QueuedBy(u)'
    BY SessionNextHeld
  <1> QED BY <1>1 DEF queueVars, Faithful, ActsFor

LEMMA RequestsKeep ==
  ASSUME Delivery, Faithful, UNCHANGED queueVars,
         NEW r \in Slots, ThrottledAgain(r) \/ BackoffEnds(r) \/ AskForRefresh(r)
  PROVE  Faithful'
  <1>1. PICK u \in Users \cup {None} : ActsFor(u)
    BY DEF Faithful
  <1>2. Session /\ SessionNext /\ UNCHANGED <<store, disk, past, queue, life>>
    BY DEF Delivery, QueueInv, SessionNext, ThrottledAgain, BackoffEnds, AskForRefresh, queueVars
  <1>3. reqs \in [Slots -> Request] /\ disk.tok \in Tokens \cup {None}
    BY <1>2 DEF Session, SessionType
  <1>4. \A s \in Slots : /\ reqs'[s].tok \in {reqs[s].tok, disk.tok}
                         /\ reqs'[s].by = reqs[s].by
                         /\ Pending(s)' => Pending(s)
    <2>1. CASE ThrottledAgain(r) \/ AskForRefresh(r)
      BY <1>3, <2>1 DEF ThrottledAgain, AskForRefresh, Pending, Request
    <2>2. CASE BackoffEnds(r)
      <3>1. /\ reqs' = [reqs EXCEPT ![r] = Again(reqs[r])] /\ Pending(r)
        BY <1>3, <2>2 DEF BackoffEnds, Pending
      <3>2. Again(reqs[r]).by = reqs[r].by /\ Again(reqs[r]).tok \in {reqs[r].tok, disk.tok}
        BY <1>3 DEF Again, Authorised, Request
      <3> QED BY <1>3, <3>1, <3>2 DEF Pending
    <2> QED BY <2>1, <2>2
  <1>5. refresh' \in {refresh, disk.tok}
    BY DEF ThrottledAgain, BackoffEnds, AskForRefresh
  <1>6. BelongsTo(u)' /\ CalledBy(u)'
    BY <1>1, <1>2, <1>4, <1>5, CallersMove DEF ActsFor
  <1>7. Guarded'
    BY <1>2, <1>4, MeIsSlot DEF Faithful, Guarded
  <1> QED BY <1>1, <1>2, <1>6, <1>7, SessionKeeps DEF Faithful, ActsFor

\* A screen calls, or hydrate asks for a profile that is not stored.
LEMMA CallsKeep ==
  ASSUME Delivery, Faithful, UNCHANGED queueVars,
         (\E s \in Screens : ScreenCalls(s)) \/ HydrateFetchesProfile
  PROVE  Faithful'
  <1>1. PICK u \in Users \cup {None} : ActsFor(u)
    BY DEF Faithful
  <1>2. Session /\ SessionNext /\ UNCHANGED <<store, disk, refresh, past, queue, life>>
    BY DEF Delivery, QueueInv, SessionNext, ScreenCalls, HydrateFetchesProfile, queueVars
  <1>3. PICK s \in Slots : /\ reqs' = [reqs EXCEPT ![s] = Fresh]
                           /\ s # Me \/ disk.user = None
    BY MeIsSlot, SlotsAssumption DEF ScreenCalls, HydrateFetchesProfile, Slots
  <1>4. \A r \in Slots : reqs'[r] = IF r = s THEN Fresh ELSE reqs[r]
    BY <1>2, <1>3 DEF Session, SessionType
  <1>5. BelongsTo(u)' /\ CalledBy(u)'
    BY <1>1, <1>2, <1>4, FreshRequest, FreshCaller, CallersMove DEF ActsFor, Pending
  <1>6. Guarded'
    BY <1>2, <1>3, <1>4, MeIsSlot DEF Faithful, Guarded, Pending
  <1> QED BY <1>1, <1>2, <1>5, <1>6, SessionKeeps DEF Faithful, ActsFor

LEMMA PressedHydrateKeeps ==
  ASSUME Delivery, Faithful, UNCHANGED queueVars, LogoutPressed \/ Hydrate
  PROVE  Faithful'
  <1>1. PICK u \in Users \cup {None} : ActsFor(u)
    BY DEF Faithful
  <1>2. /\ Session /\ SessionNext /\ UNCHANGED <<disk, reqs, refresh, past, queue, life>>
    BY DEF Delivery, QueueInv, SessionNext, LogoutPressed, Hydrate, queueVars
  <1>3. CASE LogoutPressed
    <2>1. store' = store
      BY <1>3 DEF LogoutPressed
    <2> QED BY <1>1, <1>2, <2>1, SessionKeeps
            DEF Faithful, ActsFor, Guarded, BelongsTo, CalledBy, Pending
  <1>4. CASE Hydrate
    <2>1. /\ store'.user = IF disk.tok = None THEN None ELSE disk.user
          /\ store'.authed = (disk.tok # None) /\ store'.hydrated
      BY <1>4 DEF Hydrate
    <2>2. Guarded'
      BY <1>2, <2>1 DEF Faithful, Guarded
    <2>3. BelongsTo(u)' /\ CalledBy(u)'
      BY <1>1, <1>2, <2>1 DEF ActsFor, BelongsTo, CalledBy, Pending
    <2> QED BY <1>1, <1>2, <2>2, <2>3, SessionKeeps DEF Faithful, ActsFor
  <1> QED BY <1>3, <1>4

\* getMe, a screen's call, or hydrate's attempt to fetch the profile is done.
LEMMA ProfileKeeps ==
  ASSUME Delivery, Faithful, NEW r \in Slots, reqs[r].st = "sent", ProfileMissing(r),
         NEW u \in Users \cup {None}, BelongsTo(u), UNCHANGED <<queue, refresh>>,
         reqs' = Settled(r)
  PROVE  Guarded' /\ BelongsTo(u)'
  <1>1. /\ Session /\ queue' = queue
        /\ reqs \in [Slots -> Request]
    BY DEF Delivery, QueueInv, Session, SessionType
  <1>2. /\ \A s \in Slots : reqs'[s] = IF s = r THEN NoRequest ELSE reqs[s]
        /\ \A s \in Slots : Pending(s)' => Pending(s)
    BY <1>1, NoRequestType DEF Settled, Pending
  <1>3. CASE r = Me /\ ~store.hydrated
    <2>1. /\ store' = LoggedOut /\ disk' = [tok |-> None, user |-> None]
      BY <1>3 DEF ProfileMissing
    <2>2. queue = <<>>
      BY <1>3 DEF Faithful, Guarded, Pending
    <2>3. store'.hydrated /\ store'.user = None /\ disk'.tok = None /\ disk'.user = None
      BY <2>1 DEF LoggedOut
    <2>4. BelongsTo(u)'
      BY <1>2, <2>3, NoRequestType DEF BelongsTo
    <2> QED BY <1>1, <2>2, <2>3, <2>4 DEF Guarded
  <1>4. CASE ~(r = Me /\ ~store.hydrated)
    <2>1. UNCHANGED <<store, disk>>
      BY <1>4 DEF ProfileMissing
    <2>2. Guarded'
      BY <1>1, <1>2, <2>1, MeIsSlot DEF Faithful, Guarded
    <2>3. BelongsTo(u)'
      BY <1>2, <2>1, NoRequestType DEF BelongsTo
    <2> QED BY <2>2, <2>3
  <1> QED BY <1>3, <1>4

\* A call that succeeds did so for the account it was made for.
LEMMA NotedOwn ==
  ASSUME Session, ~past.foreign, NEW u, BelongsTo(u), CalledBy(u),
         NEW r \in Slots, reqs[r].st = "sent", NEW a \in Answers(r), Noted(r, a)
  PROVE  ~past'.foreign
  <1>1. /\ past \in [crossed : BOOLEAN, lost : BOOLEAN, replayed : BOOLEAN, foreign : BOOLEAN]
    BY DEF Session, SessionType
  <1>2. a = "ok" /\ reqs[r].by # None => reqs[r].tok.user = reqs[r].by
    BY DEF Answers, BelongsTo, CalledBy, Pending
  <1> QED BY <1>1, <1>2 DEF Noted

LEMMA SettlesKeep ==
  ASSUME Delivery, Faithful, UNCHANGED queueVars, NEW r \in Slots,
         RequestSettles(r) \/ RequestFails(r)
  PROVE  Faithful'
  <1>1. PICK u \in Users \cup {None} : ActsFor(u)
    BY DEF Faithful
  <1>2. /\ Session /\ SessionNext /\ UNCHANGED <<refresh, queue, life>>
        /\ reqs[r].st = "sent" /\ reqs' = Settled(r)
    BY DEF Delivery, QueueInv, SessionNext, RequestSettles, RequestFails, queueVars
  <1>3. \A s \in Slots : /\ reqs'[s] = IF s = r THEN NoRequest ELSE reqs[s]
                         /\ Pending(s)' => s # r /\ Pending(s)
    BY <1>2, NoRequestType DEF Settled, Pending, Session, SessionType
  <1>4. CalledBy(u)'
    BY <1>1, <1>3 DEF ActsFor, CalledBy
  <1>5. ~past'.foreign
    <2>1. CASE RequestFails(r)
      BY <2>1 DEF RequestFails, Faithful
    <2>2. CASE RequestSettles(r)
      <3>1. PICK a \in Answers(r) : Noted(r, a)
        BY <2>2 DEF RequestSettles
      <3> QED BY <1>1, <1>2, <3>1, NotedOwn DEF Faithful, ActsFor
    <2> QED BY <2>1, <2>2
  <1>6. CASE ProfileMissing(r)
    <2>1. Guarded' /\ BelongsTo(u)'
      BY <1>1, <1>2, <1>6, ProfileKeeps DEF ActsFor
    <2> QED BY <1>1, <1>2, <1>4, <1>5, <2>1, SessionKeeps DEF Faithful, ActsFor
  <1>7. CASE SetUser(reqs[r].tok.user) /\ "ok" \in Answers(r) /\ r = Me
    <2>1. reqs[r].tok # None /\ reqs[r].tok.user = u /\ u \in Users /\ u # None
      <3>1. reqs[r].tok # None
        BY <1>7 DEF Answers
      <3>2. reqs[r].tok \in Tokens
        BY <1>2, <3>1 DEF Session, SessionType, Request
      <3>3. reqs[r].tok.user \in Users /\ reqs[r].tok.user = u
        BY <1>1, <3>1, <3>2 DEF Tokens, ActsFor, BelongsTo
      <3> QED BY <3>1, <3>3, NoneAssumption
    <2>2. /\ disk'.user = u /\ disk'.tok = disk.tok /\ store'.user = u /\ store'.hydrated
          /\ store'.authed = (store.authed \/ ~store.hydrated)
      BY <1>2, <1>7, <2>1 DEF SetUser, Session, SessionType
    <2>3. Guarded'
      BY <1>2, <2>1, <2>2 DEF Faithful, Guarded
    <2>4. BelongsTo(u)'
      BY <1>1, <1>2, <1>3, <2>2, NoRequestType DEF ActsFor, BelongsTo
    <2> QED BY <1>1, <1>2, <1>4, <1>5, <2>3, <2>4, SessionKeeps DEF Faithful, ActsFor
  <1>8. ProfileMissing(r) \/ (SetUser(reqs[r].tok.user) /\ "ok" \in Answers(r) /\ r = Me)
    BY DEF RequestSettles, RequestFails
  <1> QED BY <1>6, <1>7, <1>8

\* The refresh presented a token of the account, and its waiters are calls of it.
LEMMA RefreshKeeps ==
  ASSUME Delivery, Faithful, UNCHANGED queueVars, RefreshSucceeds
  PROVE  Faithful'
  <1> DEFINE t == Issue(refresh.user)
  <1>1. PICK u \in Users \cup {None} : ActsFor(u)
    BY DEF Faithful
  <1>2. /\ refresh # None /\ Rotates /\ refresh' = None
        /\ disk' = [disk EXCEPT !.tok = t]
        /\ reqs' = [r \in Slots |->
                       IF r \in Waiting THEN [reqs[r] EXCEPT !.st = "sent", !.tok = t]
                       ELSE reqs[r]]
        /\ UNCHANGED <<store, past>>
    BY DEF RefreshSucceeds
  <1>3. /\ Session /\ SessionNext /\ queue' = queue
    BY DEF Delivery, QueueInv, SessionNext, queueVars
  <1>4. t # None /\ t.user = u
    BY <1>1, <1>2, <1>3, RotatesServer DEF Session, SessionType, ActsFor, BelongsTo
  <1> HIDE DEF t
  <1>5. disk'.tok = t /\ disk'.user = disk.user
    BY <1>2, <1>3 DEF Session, SessionType
  <1>6. \A r \in Slots : /\ reqs'[r].tok \in {reqs[r].tok, t}
                         /\ reqs'[r].by = reqs[r].by
                         /\ Pending(r)' => Pending(r)
    <2> SUFFICES ASSUME NEW r \in Slots
                 PROVE  /\ reqs'[r].tok \in {reqs[r].tok, t}
                        /\ reqs'[r].by = reqs[r].by
                        /\ Pending(r)' => Pending(r)
      OBVIOUS
    <2>1. reqs[r] \in Request
      BY <1>3 DEF Session, SessionType
    <2>2. CASE r \in Waiting
      <3>1. reqs'[r] = [reqs[r] EXCEPT !.st = "sent", !.tok = t] /\ Pending(r)
        BY <1>2, <2>2 DEF Waiting, Pending
      <3> QED BY <2>1, <3>1 DEF Request
    <2>3. CASE r \notin Waiting
      BY <1>2, <2>3 DEF Pending
    <2> QED BY <2>2, <2>3
  <1>7. BelongsTo(u)' /\ CalledBy(u)'
    BY <1>1, <1>2, <1>4, <1>5, <1>6 DEF ActsFor, BelongsTo, CalledBy
  <1>8. Guarded'
    BY <1>2, <1>3, <1>4, <1>5, <1>6, MeIsSlot DEF Faithful, Guarded
  <1> QED BY <1>1, <1>2, <1>3, <1>7, <1>8, SessionKeeps DEF Faithful, ActsFor

\* A login that overtakes nothing finds nothing queued.
LEMMA LoginKeeps ==
  ASSUME Delivery, Faithful, UNCHANGED queueVars, NEW u \in Users, Login(u), ~past'.crossed
  PROVE  Faithful'
  <1> DEFINE t == Issue(u)
             q == [NoRequest EXCEPT !.st = "sent", !.by = u, !.tok = t]
  <1>1. /\ store.hydrated /\ ~store.authed /\ server.gen < MaxGen
        /\ disk' = [tok |-> t, user |-> u]
        /\ store' = [user |-> u, authed |-> TRUE, hydrated |-> TRUE]
        /\ reqs' = [reqs EXCEPT ![Me] = q]
        /\ past' = [past EXCEPT !.crossed =
                       @ \/ refresh # None \/ \E r \in Slots : Pending(r)]
        /\ refresh' = refresh
    BY DEF Login, SetAuth
  <1>2. /\ Session /\ queue' = queue /\ drain' = drain /\ life' = life
    BY DEF Delivery, QueueInv, queueVars
  <1>3. t \in Tokens /\ t # None /\ t.user = u /\ u # None
    BY <1>1, <1>2, IssueNew, NoneAssumption
  <1> HIDE DEF t
  <1>4. q.by = u /\ q.tok = t
    BY NoRequestType DEF Request
  <1> HIDE DEF q
  <1>5. /\ refresh = None /\ \A r \in Slots : ~Pending(r)
        /\ past'.foreign = past.foreign
    BY <1>1, <1>2 DEF Session, SessionType
  <1>6. \A r \in Slots : reqs'[r] = IF r = Me THEN q ELSE reqs[r]
    BY <1>1, <1>2 DEF Session, SessionType
  <1>7. queue = <<>>
    BY <1>1 DEF Faithful, Guarded
  <1>8. Guarded'
    BY <1>1, <1>2, <1>7 DEF Guarded
  <1>9. BelongsTo(u)' /\ CalledBy(u)'
    <2>1. \A r \in Slots : reqs[r].tok = None
      BY <1>2, <1>5 DEF Session, AtRest, Pending
    <2> QED BY <1>1, <1>3, <1>4, <1>5, <1>6, <2>1 DEF BelongsTo, CalledBy, Pending
  <1>10. QueuedBy(u)'
    <2>1. Held(queue') = {}
      BY <1>2, <1>7 DEF Held
    <2>2. \A d \in Drains : ~Busy(d)'
      BY <1>5, <1>6, SlotsAssumption DEF Busy, Pending, Slots
    <2> QED BY <2>1, <2>2 DEF QueuedBy
  <1> QED BY <1>2, <1>5, <1>8, <1>9, <1>10 DEF Faithful, ActsFor

LEMMA SessionNextDelivery ==
  ASSUME Delivery, Faithful, SessionNext, UNCHANGED queueVars, ~past'.crossed
  PROVE  Faithful'
  BY RequestsKeep, CallsKeep, PressedHydrateKeeps, SettlesKeep, RefreshKeeps, LoginKeeps
     DEF SessionNext

-----------------------------------------------------------------------------
(* Whose calls: the queue's steps. *)

LEMMA HoldsMutations ==
  ASSUME QueueInv, NEW d \in Drains, Busy(d)
  PROVE  Holds(d) \subseteq Mutations
  <1>1. /\ drain[d].at \in Entries
        /\ drain[d].left \in Seq(Entries) /\ drain[d].kept \in Seq(Entries)
    BY DEF QueueInv, QueueType, Working
  <1>2. drain[d].at.m \in Mutations
    BY <1>1 DEF Entries
  <1> QED BY <1>1, <1>2, HeldMutations DEF Holds

LEMMA EnqueueKeeps ==
  ASSUME Delivery, Faithful, NEW m \in Mutations, Enqueue(m)
  PROVE  Faithful'
  <1>1. PICK u \in Users \cup {None} : ActsFor(u)
    BY DEF Faithful
  <1>2. PICK k \in 0..Len(queue) :
           /\ queue' = Append(Loaded(k), [m |-> m, retries |-> 0])
           /\ fate' = [TooOld(k) EXCEPT ![m].owner = store.user, ![m].late = Draining]
    BY DEF Enqueue
  <1>3. /\ UNCHANGED <<store, disk, reqs, refresh, past, drain, life>>
        /\ store.authed /\ fate[m].owner = None
    BY DEF Enqueue, sessionVars
  <1>4. QueueInv /\ Session /\ QueueType
    BY DEF Delivery, QueueInv
  <1>5. /\ disk.tok # None /\ disk.user # None /\ store.user = u /\ u # None
        /\ store.hydrated
    BY <1>1, <1>3, <1>4 DEF Session, SignedIn, Starting, ActsFor, BelongsTo
  <1>6. Held(queue') = Held(Loaded(k)) \cup {m} /\ Held(Loaded(k)) \subseteq Held(queue)
    <2>1. [m |-> m, retries |-> 0] \in Entries
      BY QueueBoundsAssumption DEF Entries
    <2> QED BY <1>2, <1>4, <2>1, LoadedParts, HeldAppend
  <1>7. /\ fate'[m].owner = u
        /\ \A n \in Mutations \ {m} : fate'[n].owner = fate[n].owner
    BY <1>2, <1>4, <1>5, LoadedParts DEF Fate
  <1>8. ASSUME NEW n, fate[n].owner = u PROVE n # m
    BY <1>3, <1>5, <1>8
  <1>9. \A n \in Held(queue) : n \in Mutations
    BY <1>4, HeldMutations DEF QueueType
  <1>10. \A n \in Held(queue') : fate'[n].owner = u
    BY <1>1, <1>6, <1>7, <1>9 DEF ActsFor, QueuedBy
  <1>11. \A d \in Drains : Busy(d) => \A n \in Holds(d) : fate'[n].owner = u
    BY <1>1, <1>4, <1>7, HoldsMutations DEF ActsFor, QueuedBy
  <1>12. QueuedBy(u)'
    BY <1>3, <1>10, <1>11 DEF QueuedBy, Holds, Busy
  <1>13. Guarded' /\ BelongsTo(u)' /\ CalledBy(u)'
    BY <1>1, <1>3, <1>5 DEF Faithful, Guarded, ActsFor, BelongsTo, CalledBy, Pending
  <1> QED BY <1>3, <1>12, <1>13 DEF Faithful, ActsFor

LEMMA OfflineKeeps == ASSUME Delivery, Faithful, GoesOffline PROVE Faithful'
  <1>1. UNCHANGED <<store, disk, reqs, refresh, past, queue, drain, fate>>
    BY DEF GoesOffline, sessionVars
  <1>2. life'.misdelivered = life.misdelivered
    BY DEF GoesOffline, Delivery, LifeType
  <1> QED BY <1>1, <1>2 DEF Faithful, Guarded, ActsFor, BelongsTo, CalledBy, QueuedBy,
                            Holds, Busy, Pending

\* Back online: a drain takes over what is queued.
LEMMA OnlineKeeps == ASSUME Delivery, Faithful, GoesOnline PROVE Faithful'
  <1>1. PICK u \in Users \cup {None} : ActsFor(u)
    BY DEF Faithful
  <1>2. /\ QueueInv /\ Session /\ QueueType
        /\ UNCHANGED <<store, disk, refresh, past, queue>> /\ store.hydrated
    BY DEF Delivery, QueueInv, GoesOnline
  <1>3. PICK k \in 0..Len(queue) :
           /\ fate' = TooOld(k)
           /\ IF Loaded(k) = <<>>
              THEN UNCHANGED <<drain, reqs, life>>
              ELSE \E d \in Drains : /\ ~Running(d)
                                     /\ drain' = At(d, Loaded(k), <<>>)
                                     /\ reqs' = Sending(d)
                                     /\ life' = [life EXCEPT !.overlapped = @ \/ Draining]
    BY DEF GoesOnline
  <1>4. \A n \in Mutations : fate'[n].owner = fate[n].owner
    BY <1>2, <1>3, LoadedParts
  <1>5. Held(queue) \subseteq Mutations /\ Held(Loaded(k)) \subseteq Held(queue)
        /\ Loaded(k) \in Seq(Entries)
    BY <1>2, LoadedParts, HeldMutations DEF QueueType
  <1>6. \A n \in Held(queue') : fate'[n].owner = u
    BY <1>1, <1>2, <1>4, <1>5 DEF ActsFor, QueuedBy
  <1>7. \A d \in Drains : Busy(d) => \A n \in Holds(d) : fate'[n].owner = u
    BY <1>1, <1>2, <1>4, HoldsMutations DEF ActsFor, QueuedBy
  <1>8. CASE UNCHANGED <<drain, reqs, life>>
    <2>1. QueuedBy(u)'
      BY <1>6, <1>7, <1>8 DEF QueuedBy, Holds, Busy
    <2> QED BY <1>1, <1>2, <1>8, <2>1
            DEF Faithful, Guarded, ActsFor, BelongsTo, CalledBy, Pending
  <1>9. CASE Loaded(k) # <<>> /\ \E d \in Drains : /\ drain' = At(d, Loaded(k), <<>>)
                                                   /\ reqs' = Sending(d)
                                                   /\ life' = [life EXCEPT !.overlapped =
                                                                  @ \/ Draining]
    <2>1. PICK d \in Drains : /\ drain' = At(d, Loaded(k), <<>>) /\ reqs' = Sending(d)
                              /\ life' = [life EXCEPT !.overlapped = @ \/ Draining]
      BY <1>9
    <2>2. <<>> \in Seq(Entries) /\ Held(<<>>) = {}
      BY EmptySeq DEF Held
    <2>3. /\ Holds(d)' = Held(Loaded(k)) \cup Held(<<>>)
          /\ \A e \in Drains \ {d} : drain'[e] = drain[e]
      <3> DEFINE q == Loaded(k)
      <3>1. q \in Seq(Entries) /\ q # <<>> /\ drain' = At(d, q, <<>>) /\ QueueInv
        BY <1>2, <1>5, <1>9, <2>1
      <3> HIDE DEF q
      <3>2. /\ Holds(d)' = Held(q) \cup Held(<<>>)
            /\ \A e \in Drains \ {d} : drain'[e] = drain[e]
        BY <2>2, <3>1, AtHead
      <3> QED BY <3>2 DEF q
    <2>4. /\ d \in Slots /\ d # Me
          /\ \A r \in Slots : reqs'[r] = IF r = d THEN Fresh ELSE reqs[r]
      BY <1>2, <2>1, SlotsAssumption DEF Sending, Session, SessionType, Slots
    <2>5. \A e \in Drains : Busy(e)' => \A n \in Holds(e)' : fate'[n].owner = u
      <3> SUFFICES ASSUME NEW e \in Drains, Busy(e)'
                   PROVE  \A n \in Holds(e)' : fate'[n].owner = u
        OBVIOUS
      <3>1. CASE e = d
        BY <1>2, <1>5, <1>6, <2>2, <2>3, <3>1
      <3>2. CASE e # d
        BY <1>7, <2>3, <2>4, <3>2 DEF Holds, Busy, Slots
      <3> QED BY <3>1, <3>2
    <2>6. BelongsTo(u)' /\ CalledBy(u)'
      BY <1>1, <1>2, <2>4, FreshRequest, FreshCaller, CallersMove DEF ActsFor, Pending
    <2>7. ~life'.misdelivered
      BY <2>1 DEF Faithful, Delivery, LifeType
    <2>8. QueuedBy(u)'
      BY <1>6, <2>5 DEF QueuedBy
    <2> QED BY <1>2, <2>6, <2>7, <2>8 DEF Faithful, Guarded, ActsFor
  <1> QED BY <1>3, <1>8, <1>9

\* A drain goes on: what it keeps, and what it saves, was queued by the same account.
LEMMA ContinuesQueued ==
  ASSUME QueueInv, NEW d \in Drains, Busy(d), NEW failed \in BOOLEAN, Continues(d, failed),
         NEW u, QueuedBy(u)
  PROVE  /\ QueuedBy(u)'
         /\ reqs' = Sending(d) \/ reqs' = Settled(d)
  <1> DEFINE at == drain[d].at
             e == [at EXCEPT !.retries = @ + 1]
             again == failed /\ e.retries < MaxRetries
             kept == IF again THEN Append(drain[d].kept, e) ELSE drain[d].kept
  <1>1. /\ at \in Entries /\ drain[d].left \in Seq(Entries) /\ drain[d].kept \in Seq(Entries)
    BY DEF QueueInv, QueueType, Working
  <1>2. /\ fate' = [fate EXCEPT ![e.m].fails = IF failed THEN @ + 1 ELSE @,
                                ![e.m].done = @ \/ ~again]
        /\ IF drain[d].left # <<>>
           THEN /\ drain' = At(d, drain[d].left, kept)
                /\ reqs' = Sending(d)
                /\ UNCHANGED queue
           ELSE /\ drain' = [drain EXCEPT ![d] = NoDrain]
                /\ reqs' = Settled(d)
                /\ queue' = kept
    BY DEF Continues
  <1>3. e.m = at.m /\ at.m \in Mutations /\ (again => e \in Entries)
    <2>1. e.m = at.m /\ e.retries = at.retries + 1 /\ at.m \in Mutations /\ at.retries \in Nat
      BY <1>1, QueueBoundsAssumption DEF Entries
    <2>2. again => at.retries + 1 \in 0..(MaxRetries - 1)
      BY <2>1, QueueBoundsAssumption
    <2> QED BY <1>1, <2>1, <2>2 DEF Entries
  <1> HIDE DEF e, again
  <1>4. kept \in Seq(Entries) /\ Held(kept) \subseteq Held(drain[d].kept) \cup {at.m}
    BY <1>1, <1>3, HeldAppend
  <1> HIDE DEF kept
  <1>5. \A n \in Mutations : fate'[n].owner = fate[n].owner
    <2>1. fate \in [Mutations -> Fate] /\ fate[e.m] \in Fate
      BY <1>3 DEF QueueInv, QueueType
    <2> QED BY <1>2, <1>3, <2>1 DEF Fate
  <1>6. /\ Holds(d) \subseteq Mutations
        /\ \A n \in Holds(d) : fate'[n].owner = u
        /\ \A c \in Drains \ {d} : Busy(c) => \A n \in Holds(c) : fate'[n].owner = u
        /\ \A n \in Held(queue) : fate'[n].owner = u
    BY <1>5, HoldsMutations, HeldMutations DEF QueuedBy, QueueInv, QueueType
  <1>7. Drains \subseteq Slots /\ reqs \in [Slots -> Request]
    BY DEF Slots, QueueInv, Session, SessionType
  <1>8. CASE drain[d].left # <<>>
    <2>1. drain' = At(d, drain[d].left, kept) /\ reqs' = Sending(d) /\ queue' = queue
      BY <1>2, <1>8
    <2>2. /\ Holds(d)' = Held(drain[d].left) \cup Held(kept)
          /\ \A c \in Drains \ {d} : drain'[c] = drain[c]
      BY <1>1, <1>4, <1>8, <2>1, AtHead
    <2>3. \A c \in Drains \ {d} : reqs'[c] = reqs[c]
      BY <1>7, <2>1 DEF Sending
    <2>4. \A n \in Holds(d)' : fate'[n].owner = u
      BY <1>4, <1>6, <2>2 DEF Holds
    <2>5. \A c \in Drains \ {d} : Busy(c)' => \A n \in Holds(c)' : fate'[n].owner = u
      BY <1>6, <2>2, <2>3 DEF Holds, Busy
    <2> QED BY <1>6, <2>1, <2>4, <2>5 DEF QueuedBy
  <1>9. CASE drain[d].left = <<>>
    <2>1. drain' = [drain EXCEPT ![d] = NoDrain] /\ reqs' = Settled(d) /\ queue' = kept
      BY <1>2, <1>9
    <2>2. \A c \in Drains \ {d} : drain'[c] = drain[c] /\ reqs'[c] = reqs[c]
      BY <1>7, <2>1 DEF Settled, QueueInv, QueueType
    <2>3. ~Busy(d)'
      BY <1>7, <2>1, NoRequestType DEF Settled, Busy
    <2>4. \A c \in Drains : Busy(c)' => \A n \in Holds(c)' : fate'[n].owner = u
      BY <1>6, <2>2, <2>3 DEF Holds, Busy
    <2>5. \A n \in Held(queue') : fate'[n].owner = u
      BY <1>4, <1>6, <2>1 DEF Holds
    <2> QED BY <2>1, <2>4, <2>5 DEF QueuedBy
  <1> QED BY <1>8, <1>9

\* A drain's request is done: by then the app has started.
LEMMA DrainSlot ==
  ASSUME Session, NEW d \in Drains, reqs[d].st # "idle",
         reqs' = Sending(d) \/ reqs' = Settled(d)
  PROVE  /\ store.hydrated /\ d # Me /\ d \in Slots
         /\ \A r \in Slots : reqs'[r] = IF r = d THEN IF reqs' = Sending(d) THEN Fresh
                                                      ELSE NoRequest
                                        ELSE reqs[r]
  <1>1. d \in Slots /\ d # Me
    BY SlotsAssumption DEF Slots
  <1>2. store.hydrated
    BY <1>1 DEF Session, Starting
  <1>3. \A r \in Slots : reqs'[r] = IF r = d THEN IF reqs' = Sending(d) THEN Fresh
                                                  ELSE NoRequest
                                    ELSE reqs[r]
    BY <1>1 DEF Sending, Settled, Session, SessionType
  <1> QED BY <1>1, <1>2, <1>3

LEMMA DrainKeeps ==
  ASSUME Delivery, Faithful, NEW d \in Drains, NEW failed \in BOOLEAN, Continues(d, failed),
         reqs[d].st # "idle", UNCHANGED <<store, disk, refresh>>,
         ~past'.foreign, ~life'.misdelivered, life'.restored = Restored, ~life'.restored
  PROVE  Faithful'
  <1>1. PICK u \in Users \cup {None} : ActsFor(u)
    BY DEF Faithful
  <1>2. QueueInv /\ Session
    BY DEF Delivery, QueueInv
  <1>3. QueuedBy(u)' /\ (reqs' = Sending(d) \/ reqs' = Settled(d))
    BY <1>1, <1>2, ContinuesQueued DEF ActsFor, Busy
  <1>4. /\ store.hydrated /\ d # Me /\ d \in Slots
        /\ \A r \in Slots : reqs'[r] = IF r = d THEN IF reqs' = Sending(d) THEN Fresh
                                                     ELSE NoRequest
                                       ELSE reqs[r]
    BY <1>2, <1>3, DrainSlot
  <1>5. BelongsTo(u)' /\ CalledBy(u)'
    BY <1>1, <1>2, <1>4, FreshRequest, FreshCaller, NoRequestType, CallersMove
       DEF ActsFor, Pending
  <1>6. Guarded'
    <2>1. CASE store.authed
      BY <1>2, <1>4, <2>1 DEF Session, SignedIn, Guarded
    <2>2. CASE ~store.authed
      <3>1. queue' = queue \/ queue' = <<>>
        BY <2>2 DEF Restored
      <3> QED BY <1>4, <2>2, <3>1 DEF Faithful, Guarded
    <2> QED BY <2>1, <2>2
  <1> QED BY <1>3, <1>5, <1>6 DEF Faithful, ActsFor

LEMMA DrainsKeep ==
  ASSUME Delivery, Faithful, NEW d \in Drains, DrainSettles(d) \/ DrainFails(d),
         ~life'.restored
  PROVE  Faithful'
  <1>1. PICK u \in Users \cup {None} : ActsFor(u)
    BY DEF Faithful
  <1>2. /\ QueueInv /\ Session /\ LifeType /\ d \in Slots
    BY DEF Delivery, QueueInv, Slots
  <1>3. CASE DrainFails(d)
    <2>1. PICK failed \in BOOLEAN : Continues(d, failed)
      BY <1>3 DEF DrainFails
    <2>3. /\ reqs[d].st # "idle"
          /\ UNCHANGED <<store, disk, refresh, past>>
          /\ life' = [life EXCEPT !.restored = Restored]
      BY <1>3 DEF DrainFails
    <2>2. life'.misdelivered = life.misdelivered /\ life'.restored = Restored
      BY <1>2, <2>3 DEF LifeType
    <2> QED BY <2>1, <2>2, <2>3, DrainKeeps DEF Faithful
  <1>4. CASE DrainSettles(d)
    <2>1. /\ reqs[d].st = "sent" /\ UNCHANGED <<store, disk, refresh>>
      BY <1>4 DEF DrainSettles
    <2>2. PICK a \in Answers(d) :
             /\ Noted(d, a)
             /\ Continues(d, a \in {"throttled", "broken"})
             /\ life' = [life EXCEPT
                           !.restored = Restored,
                           !.misdelivered = @ \/ (/\ a = "ok"
                                                  /\ reqs[d].tok.user #
                                                     fate[drain[d].at.m].owner)]
      BY <1>4 DEF DrainSettles
    <2>3. ~past'.foreign
      BY <1>1, <1>2, <2>1, <2>2, NotedOwn DEF Faithful, ActsFor
    <2>4. a = "ok" => reqs[d].tok.user = fate[drain[d].at.m].owner
      <3>1. fate[drain[d].at.m].owner = u
        BY <1>1, <2>1 DEF ActsFor, QueuedBy, Busy, Holds
      <3>2. a = "ok" => reqs[d].tok.user = u
        BY <1>1, <1>2 DEF Answers, ActsFor, BelongsTo
      <3> QED BY <3>1, <3>2
    <2>5. ~life'.misdelivered /\ life'.restored = Restored
      BY <1>2, <2>2, <2>4 DEF Faithful, LifeType
    <2> DEFINE failed == a \in {"throttled", "broken"}
    <2>6. failed \in BOOLEAN /\ Continues(d, failed)
      BY <2>2
    <2> HIDE DEF failed
    <2> QED BY <2>1, <2>3, <2>5, <2>6, DrainKeeps
  <1> QED BY <1>3, <1>4

-----------------------------------------------------------------------------
(* Whose calls: the end of a session. *)

\* With the session goes the queue; what a drain holds keeps its account.
LEMMA ClearedKeeps ==
  ASSUME Delivery, Faithful, QueueCleared, UNCHANGED <<drain, life>>, ~past'.foreign,
         NEW u \in Users \cup {None}, QueuedBy(u), BelongsTo(u)', CalledBy(u)',
         \A d \in Drains : Busy(d)' => Busy(d),
         disk'.user = None
  PROVE  Faithful'
  <1>1. queue' = <<>> /\ fate' = Over(Held(queue)) /\ Held(queue') = {}
    BY DEF QueueCleared, Held
  <1>2. QueueInv /\ QueueType
    BY DEF Delivery, QueueInv
  <1>3. \A n \in Mutations : fate'[n].owner = fate[n].owner
    BY <1>1, <1>2, OverLive
  <1>4. QueuedBy(u)'
    <2>1. ASSUME NEW d \in Drains, Busy(d)' PROVE \A n \in Holds(d)' : fate'[n].owner = u
      <3>1. Busy(d) /\ Holds(d)' = Holds(d)
        BY <2>1 DEF Holds
      <3> QED BY <1>2, <1>3, <3>1, HoldsMutations DEF QueuedBy
    <2> QED BY <1>1, <2>1 DEF QueuedBy
  <1>5. Guarded'
    BY <1>1 DEF Guarded
  <1> QED BY <1>4, <1>5 DEF Faithful, ActsFor

LEMMA DiesKeeps ==
  ASSUME Delivery, Faithful, NEW R \in SUBSET Slots, NEW st \in {"refused", "rejected"},
         SessionDies(R, st),
         \A r \in R : reqs[r].st # "idle", refresh' \in {refresh, None}, ~past'.foreign
  PROVE  Faithful'
  <1>1. PICK u \in Users \cup {None} : ActsFor(u)
    BY DEF Faithful
  <1>2. /\ Session /\ QueueCleared /\ UNCHANGED <<drain, life>>
    BY DEF Delivery, QueueInv, SessionDies
  <1>3. /\ store'.user = None /\ disk'.user = None /\ disk'.tok = None
        /\ \A r \in Slots : reqs'[r].tok \in {reqs[r].tok, None}
    BY <1>2, DiesState
  <1>4. reqs' = [r \in Slots |->
                    IF r \notin R THEN reqs[r]
                    ELSE IF r \in Drains THEN [reqs[r] EXCEPT !.st = st]
                    ELSE NoRequest]
    BY DEF SessionDies
  <1>5. \A r \in Slots : Pending(r)' => Pending(r) /\ reqs'[r].by = reqs[r].by
    <2> SUFFICES ASSUME NEW r \in Slots, Pending(r)'
                 PROVE  Pending(r) /\ reqs'[r].by = reqs[r].by
      OBVIOUS
    <2>1. CASE r \notin R
      BY <1>4, <2>1 DEF Pending
    <2>2. CASE r \in R
      <3>1. Pending(r) /\ reqs[r] \in Request
        BY <1>2, <2>2 DEF Pending, Session, SessionType
      <3>2. r \in Drains
        BY <1>4, <2>2, NoRequestType DEF Pending
      <3> QED BY <1>4, <2>2, <3>1, <3>2 DEF Request
    <2> QED BY <2>1, <2>2
  <1>6. BelongsTo(u)' /\ CalledBy(u)'
    <2>1. BelongsTo(u)'
      BY <1>1, <1>3 DEF ActsFor, BelongsTo
    <2>2. CalledBy(u)'
      BY <1>1, <1>5 DEF ActsFor, CalledBy
    <2> QED BY <2>1, <2>2
  <1>7. \A d \in Drains : Busy(d)' => Busy(d)
    BY <1>5 DEF Busy, Pending, Slots
  <1> QED BY <1>1, <1>2, <1>3, <1>6, <1>7, ClearedKeeps DEF ActsFor

LEMMA LogoutKeeps ==
  ASSUME Delivery, Faithful, LogoutFinishes \/ ClearAuth
  PROVE  Faithful'
  <1>1. PICK u \in Users \cup {None} : ActsFor(u)
    BY DEF Faithful
  <1>2. /\ QueueCleared /\ Logout
        /\ UNCHANGED <<reqs, refresh, past, drain, life>>
    BY DEF LogoutFinishes, ClearAuth
  <1>3. store'.user = None /\ disk'.user = None /\ disk'.tok = None
    BY <1>2 DEF Logout, LoggedOut
  <1>4. BelongsTo(u)' /\ CalledBy(u)'
    BY <1>1, <1>2, <1>3 DEF ActsFor, BelongsTo, CalledBy, Pending
  <1> QED BY <1>1, <1>2, <1>3, <1>4, ClearedKeeps DEF ActsFor, Busy, Faithful

LEMMA KilledKeeps == ASSUME Delivery, Faithful, Killed PROVE Faithful'
  <1>1. PICK u \in Users \cup {None} : ActsFor(u)
    BY DEF Faithful
  <1>2. /\ store' = [LoggedOut EXCEPT !.hydrated = FALSE]
        /\ reqs' = [r \in Slots |-> NoRequest]
        /\ refresh' = None /\ disk' = disk
        /\ past' = past \/ past' = [past EXCEPT !.lost = TRUE]
        /\ life' = [life EXCEPT !.kills = @ + 1]
        /\ queue' = queue /\ fate' = fate
    BY DEF Killed, AppKilled
  <1>3. /\ store'.user = None /\ ~store'.hydrated
        /\ \A r \in Slots : reqs'[r] = NoRequest
    BY <1>2 DEF LoggedOut
  <1>4. ~past'.foreign /\ ~life'.misdelivered
    BY <1>2 DEF Faithful, Delivery, LifeType, QueueInv, Session, SessionType
  <1>5. Guarded'
    BY <1>2, <1>3, MeIsSlot, NoRequestType DEF Faithful, Guarded, Pending
  <1>6. BelongsTo(u)' /\ CalledBy(u)'
    BY <1>1, <1>2, <1>3, NoRequestType DEF ActsFor, BelongsTo, CalledBy, Pending
  <1>7. QueuedBy(u)'
    BY <1>1, <1>2, <1>3, NoRequestType DEF ActsFor, QueuedBy, Busy, Slots
  <1> QED BY <1>4, <1>5, <1>6, <1>7 DEF Faithful, ActsFor

-----------------------------------------------------------------------------
(* Every step, for whose calls are made. *)

\* What excuses a call for another account is never forgotten.
LEMMA LifeGoesOn ==
  ASSUME Delivery, [Next]_vars
  PROVE  LifeType' /\ (Excused => Excused')
  <1>1. /\ life \in [outages : Nat, kills : Nat, restored : BOOLEAN, overlapped : BOOLEAN,
                     misdelivered : BOOLEAN]
        /\ past \in [crossed : BOOLEAN, lost : BOOLEAN, replayed : BOOLEAN, foreign : BOOLEAN]
    BY DEF Delivery, LifeType, QueueInv, Session, SessionType
  <1>2. CASE UNCHANGED vars
    BY <1>1, <1>2 DEF vars, sessionVars, queueVars, LifeType, Excused
  <1>3. CASE SessionNext /\ UNCHANGED queueVars
    <2>1. life' = life
      BY <1>3 DEF queueVars
    <2>2. past.crossed => past'.crossed
      <3>1. CASE \E r \in Slots : ThrottledAgain(r) \/ BackoffEnds(r) \/ AskForRefresh(r)
                                  \/ RequestFails(r)
        BY <3>1 DEF ThrottledAgain, BackoffEnds, AskForRefresh, RequestFails
      <3>2. CASE \E r \in Slots : RequestSettles(r)
        BY <1>1, <3>2 DEF RequestSettles, Noted
      <3>3. CASE \E u \in Users : Login(u)
        BY <1>1, <3>3 DEF Login
      <3> QED BY <1>3, <3>1, <3>2, <3>3 DEF SessionNext, ScreenCalls, RefreshSucceeds,
                 LogoutPressed, Hydrate, HydrateFetchesProfile
    <2> QED BY <1>1, <2>1, <2>2 DEF LifeType, Excused
  <1>4. CASE \E d \in Drains : DrainSettles(d)
    <2>1. PICK d \in Drains : DrainSettles(d)
      BY <1>4
    <2>2. PICK a \in Answers(d) :
             /\ Noted(d, a)
             /\ life' = [life EXCEPT
                           !.restored = Restored,
                           !.misdelivered = @ \/ (/\ a = "ok"
                                                  /\ reqs[d].tok.user #
                                                     fate[drain[d].at.m].owner)]
      BY <2>1 DEF DrainSettles
    <2>3. past'.crossed = past.crossed
      BY <1>1, <2>2 DEF Noted
    <2>4. Restored \in BOOLEAN /\ (life.restored => Restored)
      BY <1>1 DEF Restored
    <2> QED BY <1>1, <2>2, <2>3, <2>4 DEF LifeType, Excused
  <1>5. CASE \E d \in Drains : DrainFails(d)
    <2>1. life' = [life EXCEPT !.restored = Restored] /\ past' = past
      BY <1>5 DEF DrainFails
    <2>2. Restored \in BOOLEAN /\ (life.restored => Restored)
      BY <1>1 DEF Restored
    <2> QED BY <1>1, <2>1, <2>2 DEF LifeType, Excused
  <1>6. CASE GoesOffline \/ GoesOnline \/ Killed
    <2>1. past'.crossed = past.crossed
      BY <1>1, <1>6 DEF GoesOffline, GoesOnline, Killed, AppKilled, sessionVars
    <2>2. \/ life' = [life EXCEPT !.outages = @ + 1]
          \/ life' = [life EXCEPT !.kills = @ + 1]
          \/ life' = [life EXCEPT !.overlapped = @ \/ Draining]
          \/ life' = life
      BY <1>6 DEF GoesOffline, GoesOnline, Killed
    <2>3. Draining \in BOOLEAN
      BY DEF Draining
    <2> QED BY <1>1, <2>1, <2>2, <2>3 DEF LifeType, Excused
  <1>7. CASE RefreshFails \/ (\E r \in Slots : NothingToRefresh(r)) \/ LogoutFinishes
             \/ ClearAuth \/ (\E m \in Mutations : Enqueue(m))
    <2>1. life' = life /\ past'.crossed = past.crossed
      BY <1>1, <1>7 DEF RefreshFails, RefreshRefused, RefreshBroken, NothingToRefresh, SessionDies,
         LogoutFinishes, ClearAuth, Enqueue, sessionVars
    <2> QED BY <1>1, <2>1 DEF LifeType, Excused
  <1> QED BY <1>2, <1>3, <1>4, <1>5, <1>6, <1>7 DEF Next, QueueNext

LEMMA NextDelivery == ASSUME Delivery, [Next]_vars PROVE Delivery'
  <1>1. QueueInv' /\ LifeType' /\ (Excused => Excused')
    BY NextQueue, LifeGoesOn DEF Delivery
  <1>2. ASSUME ~Excused' PROVE Faithful'
    <2>1. Faithful /\ ~past'.crossed /\ ~life'.restored
      BY <1>1, <1>2 DEF Delivery, Excused
    <2>2. CASE UNCHANGED vars
      BY <2>1, <2>2 DEF vars, sessionVars, queueVars, Faithful, Guarded, ActsFor, BelongsTo,
         CalledBy, QueuedBy, Holds, Busy, Pending
    <2>3. CASE SessionNext /\ UNCHANGED queueVars
      BY <2>1, <2>3, SessionNextDelivery
    <2>4. CASE RefreshFails
      <3>1. /\ \E st \in {"refused", "rejected"} : SessionDies(Waiting, st)
            /\ Waiting \in SUBSET Slots /\ refresh' = None
            /\ \A r \in Waiting : reqs[r].st # "idle"
        BY <2>4 DEF RefreshFails, Waiting
      <3>2. ~past'.foreign
        <4>1. past \in [crossed : BOOLEAN, lost : BOOLEAN, replayed : BOOLEAN,
                        foreign : BOOLEAN]
          BY DEF Delivery, QueueInv, Session, SessionType
        <4> QED BY <2>1, <2>4, <4>1 DEF RefreshFails, RefreshRefused, RefreshBroken,
                   Faithful
      <3> QED BY <2>1, <3>1, <3>2, DiesKeeps
    <2>5. CASE \E r \in Slots : NothingToRefresh(r)
      <3>1. PICK r \in Slots : /\ SessionDies({r}, "rejected") /\ reqs[r].st = "sent"
                               /\ UNCHANGED <<refresh, past>>
        BY <2>5 DEF NothingToRefresh
      <3> QED BY <2>1, <3>1, DiesKeeps DEF Faithful
    <2>6. CASE \E d \in Drains : DrainSettles(d) \/ DrainFails(d)
      BY <2>1, <2>6, DrainsKeep
    <2>7. CASE (\E m \in Mutations : Enqueue(m)) \/ GoesOffline \/ GoesOnline
               \/ LogoutFinishes \/ ClearAuth \/ Killed
      BY <2>1, <2>7, EnqueueKeeps, OfflineKeeps, OnlineKeeps, LogoutKeeps, KilledKeeps
    <2> QED BY <2>2, <2>3, <2>4, <2>5, <2>6, <2>7 DEF Next, QueueNext
  <1> QED BY <1>1, <1>2 DEF Delivery

LEMMA InitDelivery == ASSUME Init PROVE Delivery
  <1>1. QueueInv
    BY InitQueue
  <1>2. /\ store = [user |-> None, authed |-> FALSE, hydrated |-> FALSE]
        /\ disk = [tok |-> None, user |-> None]
        /\ reqs = [r \in Slots |-> NoRequest] /\ refresh = None
        /\ past = [crossed |-> FALSE, lost |-> FALSE, replayed |-> FALSE, foreign |-> FALSE]
        /\ queue = <<>>
        /\ life = [outages |-> 0, kills |-> 0, restored |-> FALSE,
                   overlapped |-> FALSE, misdelivered |-> FALSE]
    BY DEF Init, SessionInit, LoggedOut
  <1>3. LifeType
    BY <1>2 DEF LifeType
  <1>4. Guarded
    BY <1>2, MeIsSlot, NoRequestType DEF Guarded, Pending
  <1>5. Held(queue) = {} /\ \A d \in Drains : ~Busy(d)
    BY <1>2, NoRequestType DEF Held, Busy, Slots
  <1>6. ActsFor(None)
    BY <1>2, <1>5, NoRequestType DEF ActsFor, BelongsTo, CalledBy, QueuedBy, Pending
  <1> QED BY <1>1, <1>2, <1>3, <1>4, <1>6 DEF Delivery, Faithful

\* The strengthening holds in every reachable state: unless excused, there is one account
\* that every token, call, queued mutation and running drain is of.
THEOREM DeliveryInvariant == Spec => []Delivery
  <1>1. Init => Delivery
    BY InitDelivery
  <1>2. Delivery /\ [Next]_vars => Delivery'
    BY NextDelivery
  <1> QED BY <1>1, <1>2, PTL DEF Spec

\* A call, of a screen or out of the queue, is executed for the account it was made for,
\* whatever expires, fails, is logged out or killed in between, unless a login overtook
\* pending calls or a drain outlived a logout. (http.ts, offlineMutationQueue.ts, authStore.ts)
THEOREM CallsActForTheirUser == Spec => []ActsForItsUser
  <1>1. Delivery => ActsForItsUser
    BY DEF Delivery, Excused, Faithful, ActsForItsUser
  <1> QED BY <1>1, DeliveryInvariant, PTL

=============================================================================
