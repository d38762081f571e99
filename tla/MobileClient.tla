------------------------------ MODULE MobileClient -----------------------------
(***************************************************************************)
(* The mobile app offline and online: the session of MobileSession and the  *)
(* queue that keeps what the user did while offline until a drain sends it. *)
(* The queue is persisted; a drain works on the copy it loaded when it      *)
(* started and writes back what it could not send when it is done.          *)
(***************************************************************************)
EXTENDS MobileSession, Sequences

CONSTANTS
    Mutations,      \* what the user does while offline (a bound)
    MaxRetries,     \* MAX_RETRIES of the queue: 3
    MaxOutages,     \* a bound: how often the connection drops in a run; at most
                    \* as many drains run at once as there are slots
    MaxKills        \* a bound: how often the app is killed in a run

ASSUME QueueBoundsAssumption ==
    /\ MaxRetries \in Nat \ {0}
    /\ MaxKills \in Nat
    /\ MaxOutages \in Nat

\* QueuedMutation: the call, and how often it has failed so far.
Entries == [m : Mutations, retries : 0..(MaxRetries - 1)]

ASSUME NoEntryAssumption == None \notin Entries

VARIABLES
    queue,          \* the persisted queue: [m, retries] in order
    drain,          \* [Drains -> what a drain has left to send and to keep]
    online,         \* the connection as useNetworkStatus reports it
    fate,           \* history: what became of each mutation
    life            \* history: outages and kills so far, and what went wrong

queueVars == <<queue, drain, online, fate, life>>
vars == <<sessionVars, queueVars>>

NoDrain == [left |-> <<>>, kept |-> <<>>, at |-> None]

\* What became of a mutation.
Fate == [owner : Users \cup {None},    \* who enqueued it, None before that
         done  : BOOLEAN,              \* delivered, refused, given up, cleared
                                       \* by a logout or too old
         fails : Nat,                  \* how often a drain failed to send it
         late  : BOOLEAN]              \* enqueued while a drain was running

Running(d) == drain[d].at # None
Draining == \E d \in Drains : Running(d)

Init ==
    /\ SessionInit
    /\ queue = <<>>
    /\ drain = [d \in Drains |-> NoDrain]
    /\ online = TRUE
    /\ fate = [m \in Mutations |->
                  [owner |-> None, done |-> FALSE, fails |-> 0, late |-> FALSE]]
    /\ life = [outages |-> 0, kills |-> 0, restored |-> FALSE,
               overlapped |-> FALSE, misdelivered |-> FALSE]

Held(q) == {q[i].m : i \in DOMAIN q}

\* Every mutation in M is over and done with.
Over(M) == [m \in Mutations |->
               IF m \in M THEN [fate[m] EXCEPT !.done = TRUE] ELSE fate[m]]

\* Mutant: logging out leaves the queue alone.
QueueKept == UNCHANGED <<queue, fate>>

\* clearMutationQueue.
QueueCleared ==
    /\ queue' = <<>>
    /\ fate' = Over(Held(queue))

-----------------------------------------------------------------------------
(* The queue. *)

\* loadQueue leaves out the entries that are more than a day old: the first k.
Loaded(k) == SubSeq(queue, k + 1, Len(queue))
TooOld(k) == Over(Held(SubSeq(queue, 1, k)))

\* An action of the user while offline goes to the queue instead of the
\* network.
Enqueue(m) ==
    /\ store.authed /\ ~online
    /\ fate[m].owner = None
    /\ \E k \in 0..Len(queue) :
          /\ queue' = Append(Loaded(k), [m |-> m, retries |-> 0])
          /\ fate' = [TooOld(k) EXCEPT ![m].owner = store.user,
                                        ![m].late = Draining]
    /\ UNCHANGED <<sessionVars, drain, online, life>>

GoesOffline ==
    /\ online
    /\ life.outages < MaxOutages
    /\ online' = FALSE
    /\ life' = [life EXCEPT !.outages = @ + 1]
    /\ UNCHANGED <<sessionVars, queue, drain, fate>>

\* Drain d is at the head of q and will keep what it could not send so far.
At(d, q, kept) == [drain EXCEPT ![d] = [at |-> Head(q), left |-> Tail(q),
                                        kept |-> kept]]

Sending(d) == [reqs EXCEPT ![d] = Fresh]

\* Mutant: the drain empties the stored queue when it starts.
GoesOnlineTakingAll ==
    /\ ~online
    /\ store.hydrated
    /\ online' = TRUE
    /\ fate' = fate
    /\ IF queue = <<>>
       THEN UNCHANGED <<drain, reqs, life, queue>>
       ELSE \E d \in Drains :
              /\ ~Running(d)
              /\ drain' = At(d, queue, <<>>)
              /\ reqs' = Sending(d)
              /\ life' = [life EXCEPT !.overlapped = @ \/ Draining]
              /\ queue' = <<>>
    /\ UNCHANGED <<store, disk, refresh, leaving, server, past>>

\* Back online: with something queued a drain starts, whether or not the one
\* of an earlier reconnection is still running.  (The connection does not
\* change during the moments in which the app starts.)
GoesOnline ==
    /\ ~online
    /\ store.hydrated
    /\ online' = TRUE
    /\ \E k \in 0..Len(queue) :
          /\ fate' = TooOld(k)
          /\ IF Loaded(k) = <<>>
             THEN UNCHANGED <<drain, reqs, life>>
             ELSE \E d \in Drains :
                    /\ ~Running(d)
                    /\ drain' = At(d, Loaded(k), <<>>)
                    /\ reqs' = Sending(d)
                    /\ life' = [life EXCEPT !.overlapped = @ \/ Draining]
    /\ UNCHANGED <<store, disk, refresh, leaving, server, past, queue>>

\* Mutant: one try too many.
ContinuesTooOften(d, failed) ==
    LET e == [drain[d].at EXCEPT !.retries = @ + 1]
        again == failed /\ e.retries <= MaxRetries
        kept == IF again THEN Append(drain[d].kept, e) ELSE drain[d].kept
    IN /\ fate' = [fate EXCEPT ![e.m].fails = IF failed THEN @ + 1 ELSE @,
                               ![e.m].done = @ \/ ~again]
       /\ IF drain[d].left # <<>>
          THEN /\ drain' = At(d, drain[d].left, kept)
               /\ reqs' = Sending(d)
               /\ UNCHANGED queue
          ELSE /\ drain' = [drain EXCEPT ![d] = NoDrain]
               /\ reqs' = Settled(d)
               /\ queue' = kept

\* The request of drain d has settled: a failure without an answer, a 429 and
\* a 5xx are worth another try, up to MAX_RETRIES.  After the last mutation
\* the drain saves what it keeps, over whatever the queue holds by then.
Continues(d, failed) ==
    LET e == [drain[d].at EXCEPT !.retries = @ + 1]
        again == failed /\ e.retries < MaxRetries
        kept == IF again THEN Append(drain[d].kept, e) ELSE drain[d].kept
    IN /\ fate' = [fate EXCEPT ![e.m].fails = IF failed THEN @ + 1 ELSE @,
                               ![e.m].done = @ \/ ~again]
       /\ IF drain[d].left # <<>>
          THEN /\ drain' = At(d, drain[d].left, kept)
               /\ reqs' = Sending(d)
               /\ UNCHANGED queue
          ELSE /\ drain' = [drain EXCEPT ![d] = NoDrain]
               /\ reqs' = Settled(d)
               /\ queue' = kept

\* What a drain writes back after a logout belongs to nobody.
Restored == life.restored \/ (~store.authed /\ queue' # queue /\ queue' # <<>>)

DrainSettles(d) ==
    /\ reqs[d].st = "sent"
    /\ \E a \in Answers(d) :
          /\ ForCaller(d, a)
          /\ Noted(d, a)
          /\ Continues(d, a \in {"throttled", "broken"})
          /\ life' = [life EXCEPT
                        !.restored = Restored,
                        !.misdelivered = @ \/ (/\ a = "ok"
                                               /\ reqs[d].tok.user #
                                                  fate[drain[d].at.m].owner)]
    /\ UNCHANGED <<store, disk, refresh, leaving, server, online>>

\* No answer, or the error of the refresh: if that was refused, its status is a 4xx, and the
\* mutation is dropped.
DrainFails(d) ==
    /\ \/ reqs[d].st \in {"sent", "rejected"} /\ Continues(d, TRUE)
       \/ reqs[d].st = "refused" /\ Continues(d, FALSE)
    /\ life' = [life EXCEPT !.restored = Restored]
    /\ UNCHANGED <<store, disk, refresh, leaving, server, past, online>>

-----------------------------------------------------------------------------
(* Logging out clears the queue. *)

\* Mutant: the tokens are cleared, the store still believes in its session.
SessionDiesSilently(R, st) ==
    /\ store' = [store EXCEPT !.hydrated = @ \/ Me \in R]
    /\ disk' = [tok |-> None, user |-> None]
    /\ QueueCleared
    /\ reqs' = [r \in Slots |->
                   IF r \notin R THEN reqs[r]
                   ELSE IF r \in Drains THEN [reqs[r] EXCEPT !.st = st]
                   ELSE NoRequest]
    /\ UNCHANGED <<leaving, drain, online, life>>

\* The catch of the interceptor, for the requests in R: the store logs out and
\* the error of the refresh goes to the caller: refused by the server, or
\* rejected without an answer that says so.  A drain goes on with its next
\* mutation, without tokens.
SessionDies(R, st) ==
    /\ store' = [LoggedOut EXCEPT !.hydrated = store.hydrated \/ Me \in R]
    /\ disk' = [tok |-> None, user |-> None]
    /\ QueueCleared
    /\ reqs' = [r \in Slots |->
                   IF r \notin R THEN reqs[r]
                   ELSE IF r \in Drains THEN [reqs[r] EXCEPT !.st = st]
                   ELSE NoRequest]
    /\ UNCHANGED <<leaving, drain, online, life>>

RefreshFails ==
    /\ refresh # None
    /\ \/ RefreshRefused /\ SessionDies(Waiting, "refused")
       \/ RefreshBroken /\ SessionDies(Waiting, "rejected")
    /\ refresh' = None

\* A 401 with no refresh token stored.
NothingToRefresh(r) ==
    /\ reqs[r].st = "sent"
    /\ Expired(r, "unauthorised")
    /\ refresh = None /\ disk.tok = None
    /\ SessionDies({r}, "rejected")
    /\ UNCHANGED <<refresh, server, past>>

\* onSettled of useLogout.
LogoutFinishes ==
    /\ ServerLogsOut
    /\ Logout
    /\ QueueCleared
    /\ UNCHANGED <<reqs, refresh, past, drain, online, life>>

\* IdleTimeoutGate after five minutes in the background, and the logout
\* button of BiometricGate: clearAuth, which does not tell the server.
ClearAuth ==
    /\ store.authed
    /\ Logout
    /\ QueueCleared
    /\ UNCHANGED <<reqs, refresh, leaving, server, past, drain, online, life>>

Killed ==
    /\ life.kills < MaxKills
    /\ AppKilled
    /\ drain' = [d \in Drains |-> NoDrain]
    /\ life' = [life EXCEPT !.kills = @ + 1]
    /\ UNCHANGED <<queue, online, fate>>

-----------------------------------------------------------------------------
SessionNext ==
    \/ \E r \in Slots : \/ ThrottledAgain(r) \/ BackoffEnds(r)
                        \/ AskForRefresh(r)
                        \/ RequestSettles(r) \/ RequestFails(r)
    \/ \E s \in Screens : ScreenCalls(s)
    \/ RefreshSucceeds
    \/ \E u \in Users : Login(u)
    \/ LogoutPressed
    \/ Hydrate \/ HydrateFetchesProfile

QueueNext ==
    \/ \E m \in Mutations : Enqueue(m)
    \/ GoesOffline \/ GoesOnline
    \/ \E d \in Drains : DrainSettles(d) \/ DrainFails(d)
    \/ RefreshFails
    \/ \E r \in Slots : NothingToRefresh(r)
    \/ LogoutFinishes \/ ClearAuth \/ Killed

Next == (SessionNext /\ UNCHANGED queueVars) \/ QueueNext

Spec == Init /\ [][Next]_vars

-----------------------------------------------------------------------------
(* Properties. *)

TypeOK ==
    /\ store \in [user : Users \cup {None}, authed : BOOLEAN,
                  hydrated : BOOLEAN]
    /\ disk \in [tok : Tokens \cup {None}, user : Users \cup {None}]
    /\ reqs \in [Slots -> Request]
    /\ refresh \in Tokens \cup {None}
    /\ leaving \in BOOLEAN
    /\ server.refreshable \cup server.spent \subseteq Tokens
    /\ queue \in Seq(Entries)
    /\ fate \in [Mutations -> Fate]
    /\ online \in BOOLEAN

\* A refresh token the server has rotated away is presented again only if the
\* answer that carried its successor was lost: whoever asks next, after a
\* restart too, finds the successor.  (refreshAccessToken, hydrate)
RefreshPresentedOnce == past.replayed => past.lost

\* Unless a login finished while calls of the last session were under way,
\* the store, the tokens and the saved profile belong to one account.
\* (setAuth, setUser, logout, hydrate, refreshAccessToken)
OneAccountAtATime ==
    store.authed /\ ~past.crossed =>
        disk.tok # None /\ {store.user, disk.user} = {disk.tok.user}

\* A call is executed for another account than the one it was made for only
\* if a login overtook pending calls or a drain outlived a logout.
\* (the request interceptor, drainMutationQueue, logout)
ActsForItsUser ==
    past.foreign \/ life.misdelivered => past.crossed \/ life.restored

\* What was queued while no drain ran is in the queue or in a drain until it
\* is delivered, refused, given up, cleared or too old, even if the app is
\* killed between two statements.  (enqueueMutation, drainMutationQueue)
NothingVanishes ==
    \A m \in Mutations :
        \/ fate[m].owner = None \/ fate[m].done \/ fate[m].late
        \/ m \in Held(queue)
        \/ \E d \in Drains : Running(d) /\ m \in {drain[d].at.m} \cup
               Held(drain[d].left) \cup Held(drain[d].kept)

\* Nothing fails more than MAX_RETRIES times, unless the app was killed or
\* two drains overlapped.  (drainMutationQueue, useOfflineMutationDrain)
FailuresBounded ==
    life.kills = 0 /\ ~life.overlapped =>
        \A m \in Mutations : fate[m].fails <= MaxRetries

=============================================================================
