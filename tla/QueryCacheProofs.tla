---------------------------- MODULE QueryCacheProofs ----------------------------
(***************************************************************************)
(* Proofs about QueryCache, for any accounts, calls and bounds: a cleared   *)
(* cache holds the data of its account only, and an own change is shown or  *)
(* marked for every hook that tells its query. Then, hook by hook, that the *)
(* mutations of both apps do, but for the gaps their tables list.           *)
(***************************************************************************)
EXTENDS QueryCache, SequencesExt, SequenceTheorems, TLAPS

Mobile == INSTANCE MobileQueries
Web    == INSTANCE WebQueries

-----------------------------------------------------------------------------
(* Types *)

LEMMA InitType == ASSUME Init PROVE TypeOK
  BY CasesAssumption, NoneAssumption, BoundsAssumption
     DEF Init, TypeOK, NoEntry, NoFetch, NoCall, Entry, Fetch, Call, Past

LEMMA AskedType == ASSUME TypeOK PROVE Asked \in Fetch /\ Restarted \in Fetch
  BY DEF TypeOK, Asked, Restarted, Fetch

LEMMA InvalidatedType ==
  ASSUME TypeOK, NEW c \in Calls, Invalidated(c)
  PROVE  cache' \in Entry /\ fetch' \in Fetch /\ past' \in Past
  <1>1. cache' \in Entry
    BY DEF TypeOK, Invalidated, Entry
  <1>2. fetch' \in Fetch
    BY AskedType DEF TypeOK, Invalidated
  <1>3. past' \in Past
    BY DEF TypeOK, Invalidated, Past
  <1> QED BY <1>1, <1>2, <1>3

LEMMA SetWithType ==
  ASSUME TypeOK, NEW c \in Calls, SetWith(c)
  PROVE  cache' \in Entry /\ fetch' \in Fetch /\ past' \in Past
  <1>1. cache' \in Entry
    BY DEF TypeOK, SetWith, Entry, Call
  <1>2. past' \in Past
    BY DEF TypeOK, SetWith, Past, Unmarked
  <1> QED BY <1>1, <1>2 DEF SetWith, TypeOK

LEMMA PlaceholderType ==
  ASSUME TypeOK, Placeholder
  PROVE  cache' \in Entry /\ fetch' \in Fetch /\ past' \in Past
  <1>1. cache' \in Entry
    BY DEF TypeOK, Placeholder, Entry
  <1>2. past' \in Past
    BY DEF TypeOK, Placeholder, Past, Unmarked
  <1> QED BY <1>1, <1>2 DEF Placeholder, TypeOK

LEMMA ScreenType == ASSUME TypeOK, Screen PROVE TypeOK'
  <1>1. CASE Mount
    BY <1>1, AskedType DEF TypeOK, Mount, Entry
  <1>2. CASE Unmount
    BY <1>2 DEF TypeOK, Unmount, Entry
  <1>3. CASE Refetch
    BY <1>3, AskedType DEF TypeOK, Refetch
  <1> QED BY <1>1, <1>2, <1>3 DEF Screen

LEMMA AnswerType == ASSUME TypeOK, Answer PROVE TypeOK'
  <1>1. CASE ServerReads
    BY <1>1 DEF TypeOK, ServerReads, Fetch
  <1>2. CASE FetchSucceeds
    BY <1>2 DEF TypeOK, FetchSucceeds, NoFetch, Fetch, Entry
  <1>3. CASE FetchFails
    BY <1>3 DEF TypeOK, FetchFails, NoFetch, Fetch, Entry
  <1> QED BY <1>1, <1>2, <1>3 DEF Answer

LEMMA CallMadeType == ASSUME TypeOK, NEW c \in Calls, CallMade(c) PROVE TypeOK'
  <1>1. calls' \in [Calls -> Call]
    BY DEF TypeOK, CallMade, NoCall, Call, Entry
  <1>2. cache' \in Entry /\ fetch' \in Fetch /\ past' \in Past
    <2>1. CASE case.optimistic
      <3>1. /\ fetch' = NoFetch
            /\ cache' = [cache EXCEPT !.shows = @ \cup {c}, !.invalid = FALSE]
            /\ past' = [past EXCEPT !.missed = @ \cup Unmarked(cache)]
        BY <2>1 DEF CallMade
      <3>2. fetch' \in Fetch
        BY <3>1 DEF NoFetch, Fetch
      <3>3. cache' \in Entry
        BY <3>1 DEF TypeOK, Entry
      <3>4. past' \in Past
        BY <3>1 DEF TypeOK, Past, Unmarked
      <3> QED BY <3>2, <3>3, <3>4
    <2>2. CASE ~case.optimistic /\ case.queues /\ ~online /\ case.sets = "append"
      BY <2>2, PlaceholderType DEF CallMade
    <2>3. CASE ~case.optimistic /\ ~(case.queues /\ ~online /\ case.sets = "append")
      BY <2>3 DEF TypeOK, CallMade
    <2> QED BY <2>1, <2>2, <2>3
  <1> QED BY <1>1, <1>2 DEF TypeOK, CallMade

LEMMA SucceedsType == ASSUME TypeOK, NEW c \in Calls, Succeeds(c) PROVE TypeOK'
  <1>1. calls' \in [Calls -> Call]
    BY DEF TypeOK, Succeeds, Call
  <1>2. cache' \in Entry /\ fetch' \in Fetch /\ past' \in Past
    <2>1. CASE case.sets # "no"
      BY <2>1, SetWithType DEF Succeeds
    <2>2. CASE case.sets = "no" /\ (case.flags \/ case.optimistic) /\ online
      BY <2>2, InvalidatedType DEF Succeeds
    <2>3. CASE case.sets = "no" /\ ~((case.flags \/ case.optimistic) /\ online)
      BY <2>3 DEF TypeOK, Succeeds, Past
    <2> QED BY <2>1, <2>2, <2>3
  <1> QED BY <1>1, <1>2 DEF TypeOK, Succeeds

LEMMA FailsType == ASSUME TypeOK, NEW c \in Calls, Fails(c) PROVE TypeOK'
  <1>1. calls' \in [Calls -> Call]
    BY DEF TypeOK, Fails, Call
  <1>2. calls[c].before \in SUBSET Calls
    BY DEF TypeOK, Call
  <1>3. cache' \in Entry
    BY <1>2 DEF TypeOK, Fails, Entry
  <1>4. fetch' \in Fetch
    BY AskedType DEF TypeOK, Fails
  <1>5. past' \in Past
    <2>1. Unmarked([shows |-> calls[c].before]) \subseteq Calls
      BY DEF Unmarked
    <2> QED BY <2>1 DEF TypeOK, Fails, Past
  <1> QED BY <1>1, <1>3, <1>4, <1>5 DEF TypeOK, Fails

LEMMA DrainEndsType == ASSUME TypeOK, NEW c \in Calls, DrainEnds(c) PROVE TypeOK'
  <1>1. calls' \in [Calls -> Call]
    BY DEF TypeOK, DrainEnds, Call
  <1>2. cache' \in Entry /\ fetch' \in Fetch /\ past' \in Past
    <2>1. CASE case.drainFlags
      BY <2>1, InvalidatedType DEF DrainEnds
    <2>2. CASE ~case.drainFlags
      BY <2>2 DEF TypeOK, DrainEnds
    <2> QED BY <2>1, <2>2
  <1> QED BY <1>1, <1>2 DEF TypeOK, DrainEnds

LEMMA ExecutedType == ASSUME TypeOK, NEW c \in Calls, Executed(c) PROVE TypeOK'
  BY DEF TypeOK, Executed, Call

LEMMA SessionType ==
  ASSUME TypeOK, ConnectionChanges \/ Logout \/ (\E u \in Users : Login(u)) \/ Save \/ Restart
  PROVE  TypeOK'
  <1>1. CASE ConnectionChanges
    BY <1>1 DEF TypeOK, ConnectionChanges
  <1>2. CASE Logout
    <2>1. past' \in Past
      BY <1>2, BoundsAssumption DEF TypeOK, Logout, Past
    <2>2. cache' \in Entry /\ fetch' \in Fetch
      <3>1. NoEntry \in Entry /\ NoFetch \in Fetch
        BY DEF NoEntry, NoFetch, Entry, Fetch
      <3>2. [cache EXCEPT !.mounted = FALSE] \in Entry
        BY DEF TypeOK, Entry
      <3> QED BY <1>2, <3>1, <3>2 DEF TypeOK, Logout
    <2> QED BY <1>2, <2>1, <2>2 DEF TypeOK, Logout
  <1>3. CASE \E u \in Users : Login(u)
    BY <1>3 DEF TypeOK, Login
  <1>4. CASE Save
    BY <1>4 DEF TypeOK, Save, Saved, Entry
  <1>5. CASE Restart
    <2>1. calls' \in [Calls -> Call]
      BY <1>5 DEF TypeOK, Restart, Call
    <2>2. past' \in Past
      <3>1. Unmarked(disk) \subseteq Calls
        BY DEF Unmarked
      <3>2. past.restarts + 1 \in 0..MaxRestarts
        BY <1>5, BoundsAssumption DEF TypeOK, Restart, Past
      <3> QED BY <1>5, <3>1, <3>2 DEF TypeOK, Restart, Past
    <2> QED BY <1>5, <2>1, <2>2 DEF TypeOK, Restart, NoFetch, Fetch
  <1> QED BY <1>1, <1>2, <1>3, <1>4, <1>5

LEMMA NextType == ASSUME TypeOK, [Next]_vars PROVE TypeOK'
  <1>1. CASE UNCHANGED vars
    BY <1>1 DEF vars, TypeOK
  <1>2. CASE Next
    BY <1>2, ScreenType, AnswerType, CallMadeType, ExecutedType, SucceedsType, FailsType,
       DrainEndsType, SessionType DEF Next
  <1> QED BY <1>1, <1>2

\* The cache, its fetch and the calls keep their shape. (queryClient of both clients)
THEOREM CacheTypeCorrect == Spec => []TypeOK
  <1>1. Init => TypeOK
    BY InitType
  <1>2. TypeOK /\ [Next]_vars => TypeOK'
    BY NextType
  <1> QED BY <1>1, <1>2, PTL DEF Spec

-----------------------------------------------------------------------------
(* Whose data the cache holds *)

SomebodyOwns ==
    /\ cache.mounted => user # None
    /\ cache.held => cache.owner # None
    /\ disk.held => disk.owner # None
    /\ ~disk.mounted
    /\ fetch.st # "none" => fetch.by # None
    /\ \A c \in Calls : calls[c].st # "idle" => calls[c].by # None
FetchIsOwn == case.clears /\ fetch.st # "none" => fetch.by = user

\* Logout drops the entry and the fetch together, so that a login finds neither:
\* an entry left with nobody logged in would have no owner.
Owned == TypeOK /\ SomebodyOwns /\ FetchIsOwn /\ OwnDataOnly

LEMMA InvalidatedOwned ==
  ASSUME Owned, NEW c \in Calls, Invalidated(c)
  PROVE  /\ cache'.mounted = cache.mounted
         /\ cache'.held = cache.held
         /\ cache'.owner = cache.owner
         /\ past'.exposed = past.exposed
         /\ fetch' = fetch \/ (user # None /\ fetch' = Asked)
  <1>1. cache'.mounted = cache.mounted /\ cache'.held = cache.held /\ cache'.owner = cache.owner
    BY DEF Invalidated, Owned, TypeOK, Entry
  <1>2. past'.exposed = past.exposed
    BY DEF Invalidated, Owned, TypeOK, Past
  <1>3. fetch' = fetch \/ (user # None /\ fetch' = Asked)
    BY DEF Invalidated, Owned, SomebodyOwns, Restarted
  <1> QED BY <1>1, <1>2, <1>3

\* What keeps the ownership: the entry and whom it belongs to stay, and a new
\* fetch is asked for by the account that is logged in.
LEMMA KeptOwned ==
  ASSUME Owned, TypeOK',
         user' = user, case' = case, disk' = disk,
         cache'.mounted => cache.mounted \/ user # None,
         cache'.held = cache.held, cache'.owner = cache.owner,
         past'.exposed = past.exposed,
         \/ fetch'.st = "none"
         \/ fetch'.by = fetch.by /\ fetch.st # "none"
         \/ fetch'.by = user /\ user # None,
         \A c \in Calls : calls'[c].st # "idle" =>
             (calls'[c].by = calls[c].by /\ calls[c].st # "idle") \/ calls'[c].by # None
  PROVE  Owned'
  <1>1. SomebodyOwns'
    BY DEF Owned, SomebodyOwns
  <1>2. FetchIsOwn'
    BY DEF Owned, FetchIsOwn
  <1>3. OwnDataOnly'
    BY DEF Owned, OwnDataOnly
  <1> QED BY <1>1, <1>2, <1>3 DEF Owned

LEMMA ScreenOwned == ASSUME Owned, Screen PROVE Owned'
  <1>1. TypeOK'
    BY ScreenType DEF Owned
  <1>2. CASE Mount
    BY <1>1, <1>2, KeptOwned DEF Mount, Asked, Owned, TypeOK, Entry, SomebodyOwns
  <1>3. CASE Unmount
    BY <1>1, <1>3, KeptOwned DEF Unmount, Owned, TypeOK, Entry, SomebodyOwns
  <1>4. CASE Refetch
    BY <1>1, <1>4, KeptOwned DEF Refetch, Restarted, Asked, Owned, TypeOK, SomebodyOwns
  <1> QED BY <1>2, <1>3, <1>4 DEF Screen

LEMMA AnswerOwned == ASSUME Owned, Answer PROVE Owned'
  <1>1. TypeOK'
    BY AnswerType DEF Owned
  <1>2. CASE ServerReads
    BY <1>1, <1>2, KeptOwned DEF ServerReads, Owned, TypeOK, Fetch
  <1>3. CASE FetchSucceeds
    <2>1. cache'.owner = fetch.by /\ cache'.mounted = cache.mounted /\ fetch'.st = "none"
      BY <1>3 DEF FetchSucceeds, NoFetch, Owned, TypeOK, Entry
    <2>2. SomebodyOwns'
      BY <1>3, <2>1 DEF FetchSucceeds, Owned, SomebodyOwns
    <2> QED BY <1>1, <1>3, <2>1, <2>2 DEF FetchSucceeds, Owned, FetchIsOwn, OwnDataOnly
  <1>4. CASE FetchFails
    BY <1>1, <1>4, KeptOwned DEF FetchFails, NoFetch, Owned, TypeOK, Entry, SomebodyOwns
  <1> QED BY <1>2, <1>3, <1>4 DEF Answer

LEMMA PlaceholderOwned ==
  ASSUME Owned, Placeholder, user # None, user' = user, case' = case
  PROVE  /\ cache'.mounted = cache.mounted
         /\ cache'.owner # None
         /\ OwnDataOnly'
  <1>1. /\ cache'.mounted = cache.mounted
        /\ cache'.owner = IF cache.held THEN cache.owner ELSE user
    BY DEF Placeholder, Owned, TypeOK, Entry
  <1>2. past'.exposed = past.exposed
    BY DEF Placeholder, Owned, TypeOK, Past
  <1> QED BY <1>1, <1>2 DEF Owned, SomebodyOwns, OwnDataOnly

LEMMA CallMadeOwned == ASSUME Owned, NEW c \in Calls, CallMade(c) PROVE Owned'
  <1>1. TypeOK'
    BY CallMadeType DEF Owned
  <1>2. user # None /\ user' = user /\ case' = case /\ disk' = disk
    BY DEF CallMade
  <1>3. \A d \in Calls : calls'[d].st # "idle" =>
            (calls'[d].by = calls[d].by /\ calls[d].st # "idle") \/ calls'[d].by # None
    BY <1>2 DEF CallMade, NoCall, Owned, TypeOK, Call
  <1>4. CASE case.optimistic
    <2>1. /\ cache'.mounted = cache.mounted /\ cache'.held = cache.held
          /\ cache'.owner = cache.owner /\ past'.exposed = past.exposed
          /\ fetch'.st = "none"
      <3>1. /\ fetch' = NoFetch
            /\ cache' = [cache EXCEPT !.shows = @ \cup {c}, !.invalid = FALSE]
            /\ past' = [past EXCEPT !.missed = @ \cup Unmarked(cache)]
        BY <1>4 DEF CallMade
      <3> QED BY <3>1 DEF NoFetch, Owned, TypeOK, Entry, Past
    <2> QED BY <1>1, <1>2, <1>3, <2>1, KeptOwned
  <1>5. CASE ~case.optimistic /\ case.queues /\ ~online /\ case.sets = "append"
    <2>1. Placeholder
      BY <1>5 DEF CallMade
    <2>2. fetch' = fetch
      BY <2>1 DEF Placeholder
    <2>3. SomebodyOwns'
      BY <1>2, <1>3, <2>1, <2>2, PlaceholderOwned DEF Owned, SomebodyOwns
    <2> QED BY <1>1, <1>2, <2>1, <2>2, <2>3, PlaceholderOwned DEF Owned, FetchIsOwn
  <1>6. CASE ~case.optimistic /\ ~(case.queues /\ ~online /\ case.sets = "append")
    <2>1. cache' = cache /\ fetch' = fetch /\ past' = past
      BY <1>6 DEF CallMade
    <2> QED BY <1>1, <1>2, <1>3, <2>1, KeptOwned
  <1> QED BY <1>4, <1>5, <1>6

LEMMA SetWithOwned ==
  ASSUME Owned, NEW c \in Calls, SetWith(c), calls[c].st = "ran", user' = user, case' = case
  PROVE  /\ cache'.mounted = cache.mounted
         /\ cache'.owner # None
         /\ OwnDataOnly'
  <1>1. /\ cache'.mounted = cache.mounted
        /\ cache'.owner = IF cache.held /\ case.sets = "append" THEN cache.owner
                          ELSE calls[c].by
    BY DEF SetWith, Owned, TypeOK, Entry
  <1>2. past'.exposed = (past.exposed \/ calls[c].by # user)
    BY DEF SetWith, Owned, TypeOK, Past
  <1> QED BY <1>1, <1>2 DEF Owned, SomebodyOwns, OwnDataOnly

LEMMA SucceedsOwned == ASSUME Owned, NEW c \in Calls, Succeeds(c) PROVE Owned'
  <1>1. TypeOK'
    BY SucceedsType DEF Owned
  <1>2. user' = user /\ case' = case /\ disk' = disk /\ calls[c].st = "ran"
    BY DEF Succeeds
  <1>3. \A d \in Calls : calls'[d].st # "idle" =>
            calls'[d].by = calls[d].by /\ calls[d].st # "idle"
    BY DEF Succeeds, Owned, TypeOK, Call
  <1>4. CASE case.sets # "no"
    <2>1. SetWith(c)
      BY <1>4 DEF Succeeds
    <2>2. fetch' = fetch
      BY <2>1 DEF SetWith
    <2>3. SomebodyOwns'
      BY <1>2, <1>3, <2>1, <2>2, SetWithOwned DEF Owned, SomebodyOwns
    <2> QED BY <1>1, <1>2, <2>1, <2>2, <2>3, SetWithOwned DEF Owned, FetchIsOwn
  <1>5. CASE case.sets = "no" /\ (case.flags \/ case.optimistic) /\ online
    <2>1. Invalidated(c)
      BY <1>5 DEF Succeeds
    <2> QED BY <1>1, <1>2, <1>3, <2>1, InvalidatedOwned, KeptOwned DEF Asked, Owned, SomebodyOwns
  <1>6. CASE case.sets = "no" /\ ~((case.flags \/ case.optimistic) /\ online)
    <2>1. cache' = cache /\ fetch' = fetch /\ past'.exposed = past.exposed
      BY <1>6 DEF Succeeds, Owned, TypeOK, Past
    <2> QED BY <1>1, <1>2, <1>3, <2>1, KeptOwned
  <1> QED BY <1>4, <1>5, <1>6

LEMMA FailsOwned == ASSUME Owned, NEW c \in Calls, Fails(c) PROVE Owned'
  <1>1. TypeOK'
    BY FailsType DEF Owned
  <1>2. user' = user /\ case' = case /\ disk' = disk
    BY DEF Fails
  <1>3. \A d \in Calls : calls'[d].st # "idle" =>
            calls'[d].by = calls[d].by /\ calls[d].st # "idle"
    BY DEF Fails, Owned, TypeOK, Call
  <1>4. /\ cache'.mounted = cache.mounted /\ cache'.held = cache.held
        /\ cache'.owner = cache.owner
    BY DEF Fails, Owned, TypeOK, Entry
  <1>5. past'.exposed = past.exposed
    BY DEF Fails, Owned, TypeOK, Past
  <1>6. fetch' = fetch \/ (user # None /\ fetch' = Asked)
    BY DEF Fails, Restarted, Owned, SomebodyOwns
  <1> QED BY <1>1, <1>2, <1>3, <1>4, <1>5, <1>6, KeptOwned DEF Asked

LEMMA ExecutedOwned == ASSUME Owned, NEW c \in Calls, Executed(c) PROVE Owned'
  <1>1. TypeOK'
    BY ExecutedType DEF Owned
  <1>2. \A d \in Calls : calls'[d].st # "idle" =>
            calls'[d].by = calls[d].by /\ calls[d].st # "idle"
    BY DEF Executed, Owned, TypeOK, Call
  <1> QED BY <1>1, <1>2, KeptOwned DEF Executed

LEMMA DrainEndsOwned == ASSUME Owned, NEW c \in Calls, DrainEnds(c) PROVE Owned'
  <1>1. TypeOK'
    BY DrainEndsType DEF Owned
  <1>2. user' = user /\ case' = case /\ disk' = disk
    BY DEF DrainEnds
  <1>3. \A d \in Calls : calls'[d].st # "idle" =>
            calls'[d].by = calls[d].by /\ calls[d].st # "idle"
    BY DEF DrainEnds, Owned, TypeOK, Call
  <1>4. CASE case.drainFlags
    <2>1. Invalidated(c)
      BY <1>4 DEF DrainEnds
    <2> QED BY <1>1, <1>2, <1>3, <2>1, InvalidatedOwned, KeptOwned DEF Asked
  <1>5. CASE ~case.drainFlags
    BY <1>1, <1>2, <1>3, <1>5, KeptOwned DEF DrainEnds
  <1> QED BY <1>4, <1>5

LEMMA LogoutOwned == ASSUME Owned, Logout PROVE Owned'
  <1>1. TypeOK'
    BY SessionType DEF Owned
  <1>2. user' = None /\ case' = case /\ disk' = disk /\ calls' = calls
    BY DEF Logout
  <1>3. past'.exposed = past.exposed
    BY DEF Logout, Owned, TypeOK, Past
  <1>4. CASE case.clears
    <2>1. ~cache'.mounted /\ ~cache'.held /\ fetch'.st = "none"
      BY <1>4 DEF Logout, NoEntry, NoFetch
    <2> QED BY <1>1, <1>2, <2>1 DEF Owned, SomebodyOwns, FetchIsOwn, OwnDataOnly
  <1>5. CASE ~case.clears
    <2>1. ~cache'.mounted /\ cache'.held = cache.held /\ cache'.owner = cache.owner
          /\ fetch' = fetch
      BY <1>5 DEF Logout, Owned, TypeOK, Entry
    <2> QED BY <1>1, <1>2, <1>5, <2>1 DEF Owned, SomebodyOwns, FetchIsOwn, OwnDataOnly
  <1> QED BY <1>4, <1>5

LEMMA LoginOwned == ASSUME Owned, NEW u \in Users, Login(u) PROVE Owned'
  <1>1. TypeOK'
    BY SessionType DEF Owned
  <1>2. user = None /\ user' = u /\ u # None
    BY NoneAssumption DEF Login
  <1> QED BY <1>1, <1>2 DEF Login, Owned, SomebodyOwns, FetchIsOwn, OwnDataOnly

LEMMA SaveOwned == ASSUME Owned, Save PROVE Owned'
  <1>1. TypeOK'
    BY SessionType DEF Owned
  <1>2. ~disk'.mounted /\ disk'.held = cache.held /\ disk'.owner = cache.owner
    BY DEF Save, Saved, Owned, TypeOK, Entry
  <1> QED BY <1>1, <1>2 DEF Save, Owned, SomebodyOwns, FetchIsOwn, OwnDataOnly

LEMMA RestartOwned == ASSUME Owned, Restart PROVE Owned'
  <1>1. TypeOK'
    BY SessionType DEF Owned
  <1>2. /\ user' = user /\ case' = case /\ disk' = disk /\ cache' = disk
        /\ fetch'.st = "none"
    BY DEF Restart, NoFetch
  <1>3. past'.exposed = (past.exposed \/ (disk.held /\ disk.owner # user))
    BY DEF Restart, Owned, TypeOK, Past
  <1>4. \A d \in Calls : calls'[d].st # "idle" =>
            calls'[d].by = calls[d].by /\ calls[d].st # "idle"
    BY DEF Restart, Owned, TypeOK, Call
  <1> QED BY <1>1, <1>2, <1>3, <1>4 DEF Owned, SomebodyOwns, FetchIsOwn, OwnDataOnly

LEMMA ConnectionOwned == ASSUME Owned, ConnectionChanges PROVE Owned'
  <1>1. TypeOK'
    BY SessionType DEF Owned
  <1> QED BY <1>1, KeptOwned DEF ConnectionChanges

LEMMA NextOwned == ASSUME Owned, [Next]_vars PROVE Owned'
  <1>1. CASE UNCHANGED vars
    BY <1>1 DEF vars, Owned, TypeOK, SomebodyOwns, FetchIsOwn, OwnDataOnly
  <1>2. CASE Next
    BY <1>2, ScreenOwned, AnswerOwned, CallMadeOwned, ExecutedOwned, SucceedsOwned,
       FailsOwned, DrainEndsOwned, ConnectionOwned, LogoutOwned, LoginOwned, SaveOwned,
       RestartOwned DEF Next
  <1> QED BY <1>1, <1>2

\* What a cleared cache holds belongs to the account that is logged in, for any
\* number of accounts, logins and logouts. (useLogout, queryClient.clear)
THEOREM CacheHoldsOwnData == Spec => []OwnDataOnly
  <1>1. Init => Owned
    BY InitType, NoneAssumption
       DEF Init, NoEntry, NoFetch, NoCall, Owned, SomebodyOwns, FetchIsOwn, OwnDataOnly
  <1>2. Owned /\ [Next]_vars => Owned'
    BY NextOwned
  <1>3. Owned => OwnDataOnly
    BY DEF Owned
  <1> QED BY <1>1, <1>2, <1>3, PTL DEF Spec

-----------------------------------------------------------------------------
(* Own changes are shown or marked *)

\* What a hook must do for the query: invalidate it or set its data, and leave the
\* queue the same instruction.
Attended(k) == (k.flags \/ k.optimistic \/ k.sets # "no") /\ (k.queues => k.drainFlags)

Answered(c) == calls[c].st = "done"
CallsExecuted ==
    \A c \in Calls :
        /\ calls[c].st \in {"ran", "drained", "done"} => c \in ran
        /\ calls[c].st = "ran" => c \in calls[c].saw
        /\ calls[c].st \in {"queued", "drained"} => case.queues
FetchKnows ==
    fetch.st = "read" => \A c \in Calls : Answered(c) => c \in fetch.shows \cup past.missed
EntryKnows ==
    cache.held /\ ~cache.invalid =>
        \A c \in Calls : Answered(c) => c \in cache.shows \cup past.missed

\* A fetch that has read must know what was answered before it ends, or an entry
\* that was marked in time loses its mark to it.
Flagged == TypeOK /\ CallsExecuted /\ FetchKnows /\ EntryKnows

LEMMA InvalidatedFlagged ==
  ASSUME Flagged, TypeOK', NEW c \in Calls, Invalidated(c),
         \A d \in Calls : Answered(d)' => Answered(d) \/ d = c
  PROVE  FetchKnows' /\ EntryKnows'
  <1>1. /\ cache'.invalid = (cache.invalid \/ cache.held \/ cache.mounted
                                           \/ fetch.st # "none")
        /\ cache'.held = cache.held /\ cache'.shows = cache.shows
    BY DEF Invalidated, Flagged, TypeOK, Entry
  <1>2. past'.missed = IF Keeps /\ fetch.st = "read"
                       THEN past.missed \cup ({c} \ fetch.shows) ELSE past.missed
    BY DEF Invalidated, Flagged, TypeOK, Past
  <1>3. EntryKnows'
    BY <1>1 DEF EntryKnows
  <1>4. FetchKnows'
    <2>1. CASE fetch' = Asked
      BY <2>1 DEF Asked, FetchKnows
    <2>2. CASE fetch' = fetch /\ (fetch.st = "none" \/ Keeps)
      BY <1>2, <2>2 DEF Flagged, FetchKnows
    <2> QED BY <2>1, <2>2 DEF Invalidated, Restarted, Keeps
  <1> QED BY <1>3, <1>4

\* What keeps the knowledge: nothing new is answered and what is known stays known.
LEMMA KeptFlagged ==
  ASSUME Flagged, TypeOK', case' = case,
         \A c \in Calls : Answered(c)' => Answered(c),
         past.missed \subseteq past'.missed,
         ran \subseteq ran',
         \A c \in Calls :
             /\ calls'[c].st \in {"ran", "drained"} => c \in ran'
             /\ calls'[c].st = "ran" => c \in calls'[c].saw
             /\ calls'[c].st \in {"queued", "drained"} => case.queues,
         fetch' = fetch \/ fetch'.st # "read",
         \/ cache'.held = cache.held /\ cache'.shows = cache.shows
            /\ (cache.invalid => cache'.invalid)
         \/ ~cache'.held \/ cache'.invalid
  PROVE  Flagged'
  <1>1. CallsExecuted'
    BY DEF Flagged, CallsExecuted, Answered
  <1>2. FetchKnows'
    BY DEF Flagged, FetchKnows, TypeOK, Past
  <1>3. EntryKnows'
    BY DEF Flagged, EntryKnows
  <1> QED BY <1>1, <1>2, <1>3 DEF Flagged

LEMMA ScreenFlagged == ASSUME Flagged, Screen PROVE Flagged'
  <1>1. TypeOK'
    BY ScreenType DEF Flagged
  <1>2. /\ case' = case /\ calls' = calls /\ ran' = ran /\ past' = past
        /\ fetch' = fetch \/ fetch'.st # "read"
    BY DEF Screen, Mount, Unmount, Refetch, Restarted, Asked
  <1>3. cache'.held = cache.held /\ cache'.shows = cache.shows /\ cache'.invalid = cache.invalid
    BY DEF Screen, Mount, Unmount, Refetch, Flagged, TypeOK, Entry
  <1> QED BY <1>1, <1>2, <1>3, KeptFlagged DEF Flagged, CallsExecuted, Answered

LEMMA AnswerFlagged == ASSUME Flagged, Answer PROVE Flagged'
  <1>1. TypeOK'
    BY AnswerType DEF Flagged
  <1>2. /\ case' = case /\ calls' = calls /\ ran' = ran /\ past' = past
    BY DEF Answer, ServerReads, FetchSucceeds, FetchFails
  <1>3. CallsExecuted'
    BY <1>2 DEF Flagged, CallsExecuted
  <1>4. CASE ServerReads
    <2>1. fetch'.shows = ran /\ cache' = cache
      BY <1>4 DEF ServerReads, Flagged, TypeOK, Fetch
    <2> QED BY <1>1, <1>2, <1>3, <2>1
            DEF Flagged, CallsExecuted, FetchKnows, EntryKnows, Answered
  <1>5. CASE FetchSucceeds
    <2>1. cache'.shows = fetch.shows /\ fetch'.st # "read" /\ fetch.st = "read"
      BY <1>5 DEF FetchSucceeds, NoFetch, Flagged, TypeOK, Entry
    <2> QED BY <1>1, <1>2, <1>3, <2>1 DEF Flagged, FetchKnows, EntryKnows, Answered
  <1>6. CASE FetchFails
    <2>1. /\ fetch'.st # "read" /\ cache'.held = cache.held /\ cache'.shows = cache.shows
          /\ cache.invalid => cache'.invalid
      BY <1>6 DEF FetchFails, NoFetch, Flagged, TypeOK, Entry
    <2> QED BY <1>1, <1>2, <1>3, <2>1 DEF Flagged, FetchKnows, EntryKnows, Answered
  <1> QED BY <1>4, <1>5, <1>6 DEF Answer

LEMMA CallMadeFlagged == ASSUME Flagged, NEW c \in Calls, CallMade(c) PROVE Flagged'
  <1>1. TypeOK'
    BY CallMadeType DEF Flagged
  <1>2. case' = case /\ ran' = ran
    BY DEF CallMade
  <1>3. \A d \in Calls : \/ calls'[d] = calls[d]
                         \/ d = c /\ calls'[d].st = "sent"
                         \/ d = c /\ calls'[d].st = "queued" /\ case.queues
    BY DEF CallMade, NoCall, Flagged, TypeOK, Call
  <1>4. \A d \in Calls : Answered(d)' => Answered(d)
    BY <1>3 DEF Answered
  <1>5. CallsExecuted'
    BY <1>2, <1>3 DEF Flagged, CallsExecuted
  <1>6. CASE case.optimistic
    <2>1. /\ fetch' = NoFetch
          /\ cache' = [cache EXCEPT !.shows = @ \cup {c}, !.invalid = FALSE]
          /\ past' = [past EXCEPT !.missed = @ \cup Unmarked(cache)]
      BY <1>6 DEF CallMade
    <2>2. /\ fetch'.st # "read" /\ cache.shows \subseteq cache'.shows
          /\ past'.missed = past.missed \cup Unmarked(cache)
      BY <2>1 DEF NoFetch, Flagged, TypeOK, Entry, Past
    <2>3. EntryKnows'
      BY <1>4, <2>2 DEF EntryKnows, Unmarked, Answered
    <2> QED BY <1>1, <1>5, <2>2, <2>3 DEF Flagged, FetchKnows
  <1>7. CASE ~case.optimistic /\ case.queues /\ ~online /\ case.sets = "append"
    <2>1. Placeholder
      BY <1>7 DEF CallMade
    <2>2. fetch' = fetch /\ cache'.shows = cache.shows
      BY <2>1 DEF Placeholder, Flagged, TypeOK, Entry
    <2>3. past'.missed = past.missed \cup {d \in Calls : Answered(d) /\ d \notin cache.shows}
      BY <2>1 DEF Placeholder, Unmarked, Answered, Flagged, TypeOK, Past, Entry
    <2>4. EntryKnows'
      BY <1>4, <2>2, <2>3 DEF EntryKnows
    <2>5. FetchKnows'
      BY <1>4, <2>2, <2>3 DEF FetchKnows, Flagged
    <2> QED BY <1>1, <1>5, <2>4, <2>5 DEF Flagged
  <1>8. CASE ~case.optimistic /\ ~(case.queues /\ ~online /\ case.sets = "append")
    <2>1. cache' = cache /\ fetch' = fetch /\ past' = past
      BY <1>8 DEF CallMade
    <2> QED BY <1>1, <1>4, <1>5, <2>1 DEF Flagged, FetchKnows, EntryKnows
  <1> QED BY <1>6, <1>7, <1>8

LEMMA ExecutedFlagged == ASSUME Flagged, NEW c \in Calls, Executed(c) PROVE Flagged'
  <1>1. TypeOK'
    BY ExecutedType DEF Flagged
  <1>2. /\ case' = case /\ cache' = cache /\ fetch' = fetch /\ past' = past
        /\ ran' = ran \cup {c}
    BY DEF Executed
  <1>3. \A d \in Calls : \/ calls'[d] = calls[d]
                         \/ d = c /\ calls'[d].st = "ran" /\ calls'[d].saw = ran \cup {c}
                         \/ d = c /\ calls'[d].st = "drained" /\ calls[d].st = "queued"
    BY DEF Executed, Flagged, TypeOK, Call
  <1>4. CallsExecuted'
    BY <1>2, <1>3 DEF Flagged, CallsExecuted
  <1>5. \A d \in Calls : Answered(d)' => Answered(d)
    BY <1>3 DEF Answered
  <1> QED BY <1>1, <1>2, <1>4, <1>5 DEF Flagged, FetchKnows, EntryKnows

LEMMA SetWithFlagged ==
  ASSUME Flagged, NEW c \in Calls, SetWith(c), calls[c].st = "ran", case.sets # "no",
         \A d \in Calls : Answered(d)' => Answered(d) \/ d = c
  PROVE  FetchKnows' /\ EntryKnows'
  <1>1. cache'.shows = IF case.sets = "append"
                       THEN (IF cache.held THEN cache.shows ELSE {}) \cup {c}
                       ELSE calls[c].saw
    BY DEF SetWith, Flagged, TypeOK, Entry
  <1>2. c \in cache'.shows
    BY <1>1 DEF Flagged, CallsExecuted
  <1>3. /\ fetch' = fetch
        /\ past'.missed = past.missed
               \cup {d \in Calls : Answered(d) /\ d \notin cache'.shows}
               \cup (IF fetch.st = "read" THEN {c} \ fetch.shows ELSE {})
    BY DEF SetWith, Unmarked, Answered, Flagged, TypeOK, Past
  <1>4. EntryKnows'
    BY <1>2, <1>3 DEF EntryKnows
  <1>5. FetchKnows'
    BY <1>3 DEF FetchKnows, Flagged
  <1> QED BY <1>4, <1>5

LEMMA SucceedsFlagged ==
  ASSUME Flagged, Attended(case), NEW c \in Calls, Succeeds(c)
  PROVE  Flagged'
  <1>1. TypeOK'
    BY SucceedsType DEF Flagged
  <1>2. case' = case /\ ran' = ran /\ calls[c].st = "ran"
    BY DEF Succeeds
  <1>3. \A d \in Calls : calls'[d] = calls[d] \/ (d = c /\ calls'[d].st = "done")
    BY DEF Succeeds, Flagged, TypeOK, Call
  <1>4. CallsExecuted'
    BY <1>2, <1>3 DEF Flagged, CallsExecuted
  <1>5. \A d \in Calls : Answered(d)' => Answered(d) \/ d = c
    BY <1>3 DEF Answered
  <1>6. CASE case.sets # "no"
    BY <1>1, <1>2, <1>4, <1>5, <1>6, SetWithFlagged DEF Succeeds, Flagged
  <1>7. CASE case.sets = "no" /\ online
    BY <1>1, <1>4, <1>5, <1>7, InvalidatedFlagged DEF Succeeds, Attended, Flagged
  <1>8. CASE case.sets = "no" /\ ~online
    <2>1. cache' = cache /\ fetch' = fetch /\ past'.missed = past.missed \cup {c}
      BY <1>8 DEF Succeeds, Attended, Flagged, TypeOK, Past
    <2> QED BY <1>1, <1>4, <1>5, <2>1 DEF Flagged, FetchKnows, EntryKnows
  <1> QED BY <1>6, <1>7, <1>8

LEMMA FailsFlagged == ASSUME Flagged, NEW c \in Calls, Fails(c) PROVE Flagged'
  <1>1. TypeOK'
    BY FailsType DEF Flagged
  <1>2. case' = case /\ ran' = ran
    BY DEF Fails
  <1>3. \A d \in Calls : calls'[d] = calls[d] \/ calls'[d].st = "lost"
    BY DEF Fails, Flagged, TypeOK, Call
  <1>4. past.missed \subseteq past'.missed
    BY DEF Fails, Flagged, TypeOK, Past
  <1>5. fetch' = fetch \/ fetch'.st # "read"
    BY DEF Fails, Restarted, Asked
  <1>6. \/ cache' = cache
        \/ cache'.held = cache.held /\ (cache.held => cache'.invalid)
    BY DEF Fails, Flagged, TypeOK, Entry
  <1> QED BY <1>1, <1>2, <1>3, <1>4, <1>5, <1>6, KeptFlagged
          DEF Flagged, CallsExecuted, Answered, TypeOK, Entry

LEMMA DrainEndsFlagged ==
  ASSUME Flagged, Attended(case), NEW c \in Calls, DrainEnds(c)
  PROVE  Flagged'
  <1>1. TypeOK'
    BY DrainEndsType DEF Flagged
  <1>2. case' = case /\ ran' = ran /\ calls[c].st = "drained"
    BY DEF DrainEnds
  <1>3. \A d \in Calls : calls'[d] = calls[d] \/ (d = c /\ calls'[d].st = "done")
    BY DEF DrainEnds, Flagged, TypeOK, Call
  <1>4. CallsExecuted'
    BY <1>2, <1>3 DEF Flagged, CallsExecuted
  <1>5. \A d \in Calls : Answered(d)' => Answered(d) \/ d = c
    BY <1>3 DEF Answered
  <1>6. Invalidated(c)
    BY <1>2 DEF DrainEnds, Attended, Flagged, CallsExecuted
  <1> QED BY <1>1, <1>4, <1>5, <1>6, InvalidatedFlagged DEF Flagged

LEMMA SessionFlagged ==
  ASSUME Flagged, ConnectionChanges \/ Logout \/ (\E u \in Users : Login(u)) \/ Save \/ Restart
  PROVE  Flagged'
  <1>1. TypeOK'
    BY SessionType DEF Flagged
  <1>2. CASE ConnectionChanges \/ (\E u \in Users : Login(u)) \/ Save
    BY <1>1, <1>2 DEF ConnectionChanges, Login, Save, Flagged, CallsExecuted, FetchKnows,
       EntryKnows, Answered
  <1>3. CASE Logout
    <2>1. /\ case' = case /\ calls' = calls /\ ran' = ran
          /\ fetch' = fetch \/ fetch'.st # "read"
      BY <1>3 DEF Logout, NoFetch
    <2>2. past'.missed = past.missed
      BY <1>3 DEF Logout, Flagged, TypeOK, Past
    <2>3. \/ ~cache'.held
          \/ cache'.held = cache.held /\ cache'.shows = cache.shows
             /\ cache'.invalid = cache.invalid
      BY <1>3 DEF Logout, NoEntry, Flagged, TypeOK, Entry
    <2> QED BY <1>1, <2>1, <2>2, <2>3, KeptFlagged DEF Flagged, CallsExecuted, Answered
  <1>4. CASE Restart
    <2>1. case' = case /\ ran' = ran /\ cache' = disk /\ fetch'.st # "read"
      BY <1>4 DEF Restart, NoFetch
    <2>2. \A d \in Calls : \/ calls'[d] = calls[d]
                           \/ calls'[d].st = "lost"
                           \/ calls'[d].st = "queued" /\ calls[d].st = "drained"
      BY <1>4 DEF Restart, Flagged, TypeOK, Call
    <2>3. CallsExecuted'
      BY <2>1, <2>2 DEF Flagged, CallsExecuted
    <2>4. past'.missed = past.missed \cup (IF disk.invalid THEN {}
                             ELSE {d \in Calls : Answered(d) /\ d \notin disk.shows})
      BY <1>4 DEF Restart, Unmarked, Answered, Flagged, TypeOK, Past
    <2>5. EntryKnows'
      BY <2>1, <2>2, <2>4 DEF EntryKnows, Answered
    <2> QED BY <1>1, <2>1, <2>3, <2>5 DEF Flagged, FetchKnows
  <1> QED BY <1>2, <1>3, <1>4

LEMMA NextFlagged == ASSUME Flagged, Attended(case), [Next]_vars PROVE Flagged'
  <1>1. CASE UNCHANGED vars
    BY <1>1 DEF vars, Flagged, TypeOK, CallsExecuted, FetchKnows, EntryKnows, Answered
  <1>2. CASE Next
    BY <1>2, ScreenFlagged, AnswerFlagged, CallMadeFlagged, ExecutedFlagged, SucceedsFlagged,
       FailsFlagged, DrainEndsFlagged, SessionFlagged DEF Next
  <1> QED BY <1>1, <1>2

\* Whatever hooks a client has, if each of them invalidates or sets the query it
\* changes and tells the queue to do so, then an own change that was answered is
\* on the screen or marked, but for the races named. (the clients' mutation hooks)
THEOREM OwnChangesFlagged ==
  (\A k \in Cases : Attended(k)) => (Spec => []StaleIsFlagged)
  <1> SUFFICES ASSUME \A k \in Cases : Attended(k)
               PROVE  Spec => []StaleIsFlagged
    OBVIOUS
  <1>1. Init => Flagged
    BY InitType DEF Init, NoEntry, NoFetch, NoCall, Flagged, CallsExecuted, FetchKnows,
       EntryKnows, Answered
  <1>2. Flagged /\ [Next]_vars => Flagged'
    BY NextFlagged DEF Flagged, TypeOK
  <1>3. Flagged => StaleIsFlagged
    BY DEF Flagged, EntryKnows, StaleIsFlagged, Answered
  <1> QED BY <1>1, <1>2, <1>3, PTL DEF Spec

-----------------------------------------------------------------------------
(* Keys *)

LEMMA Begins ==
  ASSUME NEW T, NEW s \in Seq(T), NEW t \in Seq(T), Len(s) <= Len(t),
         \A i \in 1..Len(s) : s[i] = t[i]
  PROVE  SubSeq(s, 1, Len(s)) = SubSeq(t, 1, Len(s))
  <1> DEFINE n == Len(s)
             a == SubSeq(s, 1, n)
             b == SubSeq(t, 1, n)
  <1>1. n \in Nat /\ Len(t) \in Nat
    OBVIOUS
  <1>2. a \in Seq(T) /\ Len(a) = n /\ \A i \in 1..n : a[i] = s[i]
    BY <1>1, SubSeqProperties
  <1>3. b \in Seq(T) /\ Len(b) = n /\ \A i \in 1..n : b[i] = t[i]
    BY <1>1, SubSeqProperties
  <1> HIDE DEF a, b, n
  <1>4. a = b
    BY <1>2, <1>3, SeqEqual DEF n
  <1> QED BY <1>4 DEF a, b, n

LEMMA Joined ==
  \A a, b, c, d : <<a, b>> \o <<c>> = <<a, b, c>> /\ <<a, b>> \o <<c, d>> = <<a, b, c, d>>
  <1> TAKE a, b, c, d
  <1> DEFINE T == {a, b, c, d}
             x == <<a, b>> \o <<c>>
             y == <<a, b>> \o <<c, d>>
  <1>1. /\ <<a, b>> \in Seq(T) /\ <<c>> \in Seq(T) /\ <<c, d>> \in Seq(T)
        /\ <<a, b, c>> \in Seq(T) /\ <<a, b, c, d>> \in Seq(T)
    OBVIOUS
  <1>2. x \in Seq(T) /\ Len(x) = 3 /\ x[1] = a /\ x[2] = b /\ x[3] = c
    BY <1>1, ConcatProperties
  <1>3. y \in Seq(T) /\ Len(y) = 4 /\ y[1] = a /\ y[2] = b /\ y[3] = c /\ y[4] = d
    BY <1>1, ConcatProperties
  <1> HIDE DEF T, x, y
  <1>4. x = <<a, b, c>>
    BY <1>1, <1>2, SeqEqual
  <1>5. y = <<a, b, c, d>>
    BY <1>1, <1>3, SeqEqual
  <1> QED BY <1>4, <1>5 DEF x, y

LEMMA Starts ==
  \A a, b, c, d :
    /\ IsPrefix(<<a>>, <<a>>) /\ IsPrefix(<<a>>, <<a, b>>) /\ IsPrefix(<<a>>, <<a, b, c>>)
    /\ IsPrefix(<<a>>, <<a, b, c, d>>)
    /\ IsPrefix(<<a, b>>, <<a, b>>) /\ IsPrefix(<<a, b>>, <<a, b, c>>)
    /\ IsPrefix(<<a, b>>, <<a, b, c, d>>) /\ IsPrefix(<<a, b, c>>, <<a, b, c>>)
  <1> TAKE a, b, c, d
  <1> DEFINE T == {a, b, c, d}
  <1>1. /\ <<a>> \in Seq(T) /\ <<a, b>> \in Seq(T) /\ <<a, b, c>> \in Seq(T)
        /\ <<a, b, c, d>> \in Seq(T)
    OBVIOUS
  <1>2. /\ Len(<<a>>) = 1 /\ Len(<<a, b>>) = 2 /\ Len(<<a, b, c>>) = 3
        /\ Len(<<a, b, c, d>>) = 4
    OBVIOUS
  <1>3. /\ \A i \in 1..1 : /\ <<a>>[i] = <<a, b>>[i] /\ <<a>>[i] = <<a, b, c>>[i]
                            /\ <<a>>[i] = <<a, b, c, d>>[i]
        /\ \A i \in 1..2 : <<a, b>>[i] = <<a, b, c>>[i] /\ <<a, b>>[i] = <<a, b, c, d>>[i]
    OBVIOUS
  <1> HIDE DEF T
  <1>4. IsPrefix(<<a>>, <<a>>) /\ IsPrefix(<<a, b>>, <<a, b>>) /\ IsPrefix(<<a, b, c>>, <<a, b, c>>)
    BY <1>2 DEF IsPrefix
  <1>5. /\ IsPrefix(<<a>>, <<a, b>>) /\ IsPrefix(<<a>>, <<a, b, c>>)
        /\ IsPrefix(<<a>>, <<a, b, c, d>>)
    BY <1>1, <1>2, <1>3, Begins DEF IsPrefix
  <1>6. IsPrefix(<<a, b>>, <<a, b, c>>) /\ IsPrefix(<<a, b>>, <<a, b, c, d>>)
    BY <1>1, <1>2, <1>3, Begins DEF IsPrefix
  <1> QED BY <1>4, <1>5, <1>6

\* A mutation hook tells a query: it invalidates or sets a key that the query's begins with,
\* and leaves the queue such a key if it is queued.
Told(q, m) ==
  /\ \E k \in m.flags \union m.optimistic \union m.sets : IsPrefix(k, q.key)
  /\ m.queued # {} => \E k \in m.queued : IsPrefix(k, q.key)

\* What a mutation hook writes, the keys it invalidates or sets, and those it leaves the queue.
Says(m, writes, keys, queued) ==
  m.writes = writes /\ m.flags \union m.optimistic \union m.sets = keys /\ m.queued = queued

-----------------------------------------------------------------------------
(* The hooks of the mobile app *)

\* What the mutation hooks do.
LEMMA MobileBookHooks ==
  /\ Says(Mobile!useCreateBook, {"shelf", "market"},
          {<<"browse">>, <<"myBooks">>, <<"recentBooks">>, <<"nearbyCount">>}, {})
  /\ Says(Mobile!useUpdateBook, {"book", "shelf", "market", "cover", "wishlist"},
          {<<"browse">>, <<"myBooks">>, <<"recentBooks">>, <<"book", "b">>}, {})
  /\ Says(Mobile!useDeleteBook, {"book", "shelf", "market", "exchange", "rival", "incoming",
                                "messages", "chat", "preview", "ratings", "wishlist"},
          {<<"browse">>, <<"myBooks">>, <<"recentBooks">>, <<"nearbyCount">>}, {})
  /\ Says(Mobile!useUploadBookPhoto, {"book", "shelf", "market", "cover"},
          {<<"book", "b">>}, {})
  /\ Says(Mobile!useDeleteBookPhoto, {"book", "shelf", "market", "cover"},
          {<<"book", "b">>}, {})
  /\ Says(Mobile!useReorderBookPhotos, {"book", "shelf", "market", "cover"},
          {<<"book", "b">>}, {})
  BY DEF Says, Mobile!useCreateBook, Mobile!Mutation, Mobile!useUpdateBook,
     Mobile!useDeleteBook, Mobile!deleted, Mobile!useUploadBookPhoto, Mobile!photos,
     Mobile!useDeleteBookPhoto, Mobile!useReorderBookPhotos

LEMMA MobileWishlistHooks ==
  /\ Says(Mobile!useAddWishlistItem, {"wishlist"},
          {<<"wishlist", "list">>, <<"wishlist", "book", "b">>}, {})
  /\ Says(Mobile!useRemoveWishlistItem, {"wishlist"},
          {<<"wishlist", "list">>, <<"wishlist", "book", "b">>}, {})
  /\ Says(Mobile!removeFromList, {"wishlist"}, {<<"wishlist", "list">>}, {})
  BY DEF Says, Mobile!useAddWishlistItem, Mobile!Mutation, Mobile!useRemoveWishlistItem,
     Mobile!removeFromList

LEMMA MobileNegotiationHooks ==
  /\ Says(Mobile!useCreateExchange, {"request"},
          {<<"exchanges", "list">>, <<"exchanges", "incoming">>}, {<<"exchanges">>})
  /\ Says(Mobile!useAcceptExchange, {"book", "shelf", "market", "exchange", "rival",
                                    "incoming"},
          {<<"exchanges", "list">>, <<"exchanges", "incoming">>,
          <<"exchanges", "detail", "e">>}, {<<"exchanges">>})
  /\ Says(Mobile!useDeclineExchange, {"book", "exchange", "incoming"},
          {<<"exchanges", "list">>, <<"exchanges", "incoming">>,
          <<"exchanges", "detail", "e">>}, {<<"exchanges">>})
  /\ Says(Mobile!useCounterExchange, {"book", "exchange", "incoming"},
          {<<"exchanges", "list">>, <<"exchanges", "incoming">>,
          <<"exchanges", "detail", "e">>}, {<<"exchanges">>})
  /\ Says(Mobile!useApproveCounter, {"exchange"},
          {<<"exchanges", "list">>, <<"exchanges", "detail", "e">>}, {<<"exchanges">>})
  /\ Says(Mobile!useCancelExchange, {"book", "exchange"},
          {<<"exchanges", "list">>, <<"exchanges", "detail", "e">>}, {<<"exchanges">>})
  BY DEF Says, Mobile!useCreateExchange, Mobile!Queued, Mobile!exchanges, Mobile!Mutation,
     Mobile!list, Mobile!incoming, Mobile!useAcceptExchange, Mobile!detail,
     Mobile!useDeclineExchange, Mobile!useCounterExchange, Mobile!useApproveCounter,
     Mobile!useCancelExchange

LEMMA MobileFulfilmentHooks ==
  /\ Says(Mobile!useAcceptConditions, {"exchange", "chat"},
          {<<"exchanges", "detail", "e">>}, {<<"exchanges">>})
  /\ Says(Mobile!useConfirmSwap, {"exchange", "swaps"},
          {<<"myBooks">>, <<"exchanges", "list">>, <<"exchanges", "detail", "e">>},
          {<<"exchanges">>, <<"myBooks">>})
  /\ Says(Mobile!useCompleteExchange, {"book", "shelf", "market", "exchange", "ratable"},
          {<<"myBooks">>, <<"exchanges", "list">>, <<"exchanges", "detail", "e">>}, {})
  /\ Says(Mobile!useRequestReturn, {"exchange"}, {<<"exchanges", "detail", "e">>}, {})
  /\ Says(Mobile!useConfirmReturn, {"book", "shelf", "market", "exchange", "ratable"},
          {<<"myBooks">>, <<"exchanges", "list">>, <<"exchanges", "detail", "e">>}, {})
  BY DEF Says, Mobile!useAcceptConditions, Mobile!Queued, Mobile!exchanges, Mobile!Mutation,
     Mobile!detail, Mobile!useConfirmSwap, Mobile!list, Mobile!useCompleteExchange,
     Mobile!useRequestReturn, Mobile!useConfirmReturn

LEMMA MobileMessageHooks ==
  /\ Says(Mobile!useSendMessage, {"messages", "preview"},
          {<<"messages", "e">>}, {<<"messages">>})
  /\ Says(Mobile!useMarkMessagesRead, {"messages", "preview"}, {}, {})
  /\ Says(Mobile!useMarkNotificationRead, {"notices"}, {<<"notifications">>}, {})
  /\ Says(Mobile!useMarkAllRead, {"notices"}, {<<"notifications">>}, {})
  /\ Says(Mobile!usePatchNotificationPreferences, {"preferences"},
          {<<"notificationPreferences">>}, {})
  BY DEF Says, Mobile!useSendMessage, Mobile!Queued, Mobile!Mutation,
     Mobile!useMarkMessagesRead, Mobile!useMarkNotificationRead, Mobile!useMarkAllRead,
     Mobile!usePatchNotificationPreferences

LEMMA MobileOtherHooks ==
  /\ Says(Mobile!useSubmitRating, {"ratings", "average"},
          {<<"exchanges", "detail", "e">>, <<"ratings", "exchange", "e">>}, {})
  /\ Says(Mobile!useBlockUser, {"book", "market", "exchange", "rival", "incoming", "chat",
                               "profile", "blocks"},
          {<<"exchanges">>, <<"browse">>, <<"blocks", "list">>}, {})
  /\ Says(Mobile!useUnblockUser, {"book", "market", "exchange", "rival", "incoming", "chat",
                                 "profile", "blocks"},
          {<<"exchanges">>, <<"browse">>, <<"blocks", "list">>}, {})
  /\ Says(Mobile!useLocationManager, {"place"},
          {<<"recentBooks">>, <<"nearbyCount">>, <<"communityStats">>}, {})
  /\ Says(Mobile!useUpdateProfile, {"picture"}, {}, {})
  BY DEF Says, Mobile!useSubmitRating, Mobile!Mutation, Mobile!detail, Mobile!useBlockUser,
     Mobile!hidden, Mobile!useUnblockUser, Mobile!useLocationManager, Mobile!useUpdateProfile

\* The keys of the queries begin with the keys that hooks invalidate.
LEMMA MobileStarts ==
  /\ IsPrefix(<<"browse">>, Mobile!useBrowseBooks.key)
  /\ IsPrefix(<<"recentBooks">>, Mobile!useRecentBooks.key)
  /\ IsPrefix(<<"nearbyCount">>, Mobile!useNearbyCount.key)
  /\ IsPrefix(<<"communityStats">>, Mobile!useCommunityStats.key)
  /\ IsPrefix(<<"book", "b">>, Mobile!useBookDetail.key)
  /\ IsPrefix(<<"myBooks">>, Mobile!useMyBooks.key)
  /\ IsPrefix(<<"wishlist", "list">>, Mobile!useWishlist.key)
  /\ IsPrefix(<<"wishlist", "book", "b">>, Mobile!useBookWishlistStatus.key)
  /\ IsPrefix(<<"exchanges", "list">>, Mobile!useExchanges.key)
  /\ IsPrefix(<<"exchanges">>, Mobile!useExchanges.key)
  /\ IsPrefix(<<"exchanges", "detail", "e">>, Mobile!useExchangeDetail.key)
  /\ IsPrefix(<<"exchanges">>, Mobile!useExchangeDetail.key)
  /\ IsPrefix(<<"exchanges">>, Mobile!rivalDetail.key)
  /\ IsPrefix(<<"exchanges", "incoming">>, Mobile!useIncomingRequests.key)
  /\ IsPrefix(<<"exchanges">>, Mobile!useIncomingRequests.key)
  /\ IsPrefix(<<"exchanges", "incoming">>, Mobile!useIncomingCount.key)
  /\ IsPrefix(<<"exchanges">>, Mobile!useIncomingCount.key)
  /\ IsPrefix(<<"messages", "e">>, Mobile!useMessages.key)
  /\ IsPrefix(<<"messages">>, Mobile!useMessages.key)
  /\ IsPrefix(<<"notifications">>, Mobile!useNotifications.key)
  /\ IsPrefix(<<"notificationPreferences">>, Mobile!useNotificationPreferences.key)
  /\ IsPrefix(<<"ratings", "exchange", "e">>, Mobile!useExchangeRatingStatus.key)
  /\ IsPrefix(<<"blocks", "list">>, Mobile!useBlocks.key)
  <1>1. IsPrefix(<<"browse">>, Mobile!useBrowseBooks.key)
    BY Starts DEF Mobile!useBrowseBooks, Mobile!Query
  <1>2. IsPrefix(<<"recentBooks">>, Mobile!useRecentBooks.key)
    BY Starts DEF Mobile!useRecentBooks, Mobile!Query
  <1>3. IsPrefix(<<"nearbyCount">>, Mobile!useNearbyCount.key)
    BY Starts DEF Mobile!useNearbyCount, Mobile!Query
  <1>4. IsPrefix(<<"communityStats">>, Mobile!useCommunityStats.key)
    BY Starts DEF Mobile!useCommunityStats, Mobile!Query
  <1>5. IsPrefix(<<"book", "b">>, Mobile!useBookDetail.key)
    BY Starts DEF Mobile!useBookDetail, Mobile!Query
  <1>6. IsPrefix(<<"myBooks">>, Mobile!useMyBooks.key)
    BY Starts DEF Mobile!useMyBooks, Mobile!Query
  <1>7. IsPrefix(<<"wishlist", "list">>, Mobile!useWishlist.key)
    BY Starts DEF Mobile!useWishlist, Mobile!Query
  <1>8. IsPrefix(<<"wishlist", "book", "b">>, Mobile!useBookWishlistStatus.key)
    BY Starts DEF Mobile!useBookWishlistStatus, Mobile!Query
  <1>9. /\ IsPrefix(<<"exchanges", "list">>, Mobile!useExchanges.key)
        /\ IsPrefix(<<"exchanges">>, Mobile!useExchanges.key)
    BY Starts DEF Mobile!useExchanges, Mobile!Query
  <1>10. /\ IsPrefix(<<"exchanges", "detail", "e">>, Mobile!useExchangeDetail.key)
         /\ IsPrefix(<<"exchanges">>, Mobile!useExchangeDetail.key)
    BY Starts DEF Mobile!useExchangeDetail, Mobile!Query
  <1>11. /\ IsPrefix(<<"exchanges", "incoming">>, Mobile!useIncomingRequests.key)
         /\ IsPrefix(<<"exchanges">>, Mobile!useIncomingRequests.key)
    BY Starts DEF Mobile!useIncomingRequests, Mobile!Query
  <1>12. /\ IsPrefix(<<"exchanges", "incoming">>, Mobile!useIncomingCount.key)
         /\ IsPrefix(<<"exchanges">>, Mobile!useIncomingCount.key)
    BY Starts DEF Mobile!useIncomingCount, Mobile!Query
  <1>13. /\ IsPrefix(<<"messages", "e">>, Mobile!useMessages.key)
         /\ IsPrefix(<<"messages">>, Mobile!useMessages.key)
    BY Starts DEF Mobile!useMessages, Mobile!Query
  <1>14. IsPrefix(<<"notifications">>, Mobile!useNotifications.key)
    BY Starts DEF Mobile!useNotifications, Mobile!Query
  <1>15. IsPrefix(<<"notificationPreferences">>, Mobile!useNotificationPreferences.key)
    BY Starts DEF Mobile!useNotificationPreferences, Mobile!Query
  <1>16. IsPrefix(<<"ratings", "exchange", "e">>, Mobile!useExchangeRatingStatus.key)
    BY Starts DEF Mobile!useExchangeRatingStatus, Mobile!Query
  <1>17. IsPrefix(<<"blocks", "list">>, Mobile!useBlocks.key)
    BY Starts DEF Mobile!useBlocks, Mobile!Query
  <1>18. IsPrefix(<<"exchanges">>, Mobile!rivalDetail.key)
    BY Starts DEF Mobile!rivalDetail, Mobile!Query
  <1> QED BY <1>1, <1>2, <1>3, <1>4, <1>5, <1>6, <1>7, <1>8, <1>9, <1>10, <1>11, <1>12,
            <1>13, <1>14, <1>15, <1>16, <1>17, <1>18

\* Query by query, the hooks that tell it.
LEMMA MobileBrowseBooksTold ==
  ASSUME NEW m \in {Mobile!useCreateBook, Mobile!useUpdateBook, Mobile!useDeleteBook,
                    Mobile!useBlockUser, Mobile!useUnblockUser}
  PROVE  Told(Mobile!useBrowseBooks, m)
  BY MobileBookHooks, MobileOtherHooks, MobileStarts DEF Says, Told

LEMMA MobileBookDetailTold ==
  ASSUME NEW m \in {Mobile!useUpdateBook, Mobile!useUploadBookPhoto, Mobile!useDeleteBookPhoto,
                    Mobile!useReorderBookPhotos}
  PROVE  Told(Mobile!useBookDetail, m)
  BY MobileBookHooks, MobileStarts DEF Says, Told

LEMMA MobileMyBooksTold ==
  ASSUME NEW m \in {Mobile!useCreateBook, Mobile!useUpdateBook, Mobile!useDeleteBook,
                    Mobile!useCompleteExchange, Mobile!useConfirmReturn}
  PROVE  Told(Mobile!useMyBooks, m)
  BY MobileBookHooks, MobileFulfilmentHooks, MobileStarts DEF Says, Told

LEMMA MobileRecentBooksTold ==
  ASSUME NEW m \in {Mobile!useCreateBook, Mobile!useUpdateBook, Mobile!useDeleteBook,
                    Mobile!useLocationManager}
  PROVE  Told(Mobile!useRecentBooks, m)
  BY MobileBookHooks, MobileOtherHooks, MobileStarts DEF Says, Told

LEMMA MobileNearbyCountTold ==
  ASSUME NEW m \in {Mobile!useCreateBook, Mobile!useDeleteBook, Mobile!useLocationManager}
  PROVE  Told(Mobile!useNearbyCount, m)
  BY MobileBookHooks, MobileOtherHooks, MobileStarts DEF Says, Told

LEMMA MobileCommunityStatsTold ==
  ASSUME NEW m \in {Mobile!useLocationManager}
  PROVE  Told(Mobile!useCommunityStats, m)
  BY MobileOtherHooks, MobileStarts DEF Says, Told

LEMMA MobileWishlistTold ==
  ASSUME NEW m \in {Mobile!useAddWishlistItem, Mobile!useRemoveWishlistItem,
                    Mobile!removeFromList}
  PROVE  Told(Mobile!useWishlist, m)
  BY MobileWishlistHooks, MobileStarts DEF Says, Told

LEMMA MobileBookWishlistStatusTold ==
  ASSUME NEW m \in {Mobile!useAddWishlistItem, Mobile!useRemoveWishlistItem}
  PROVE  Told(Mobile!useBookWishlistStatus, m)
  BY MobileWishlistHooks, MobileStarts DEF Says, Told

LEMMA MobileExchangesTold ==
  ASSUME NEW m \in {Mobile!useCreateExchange, Mobile!useAcceptExchange,
                    Mobile!useDeclineExchange, Mobile!useCounterExchange,
                    Mobile!useApproveCounter, Mobile!useCancelExchange, Mobile!useConfirmSwap,
                    Mobile!useCompleteExchange, Mobile!useConfirmReturn, Mobile!useBlockUser,
                    Mobile!useUnblockUser}
  PROVE  Told(Mobile!useExchanges, m)
  BY MobileNegotiationHooks, MobileFulfilmentHooks, MobileOtherHooks, MobileStarts DEF Says,
     Told

LEMMA MobileExchangeDetailTold ==
  ASSUME NEW m \in {Mobile!useAcceptExchange, Mobile!useDeclineExchange,
                    Mobile!useCounterExchange, Mobile!useApproveCounter,
                    Mobile!useCancelExchange, Mobile!useAcceptConditions, Mobile!useConfirmSwap,
                    Mobile!useCompleteExchange, Mobile!useRequestReturn,
                    Mobile!useConfirmReturn, Mobile!useBlockUser, Mobile!useUnblockUser}
  PROVE  Told(Mobile!useExchangeDetail, m)
  BY MobileNegotiationHooks, MobileFulfilmentHooks, MobileOtherHooks, MobileStarts DEF Says,
     Told

LEMMA MobileRivalDetailTold ==
  ASSUME NEW m \in {Mobile!useBlockUser, Mobile!useUnblockUser}
  PROVE  Told(Mobile!rivalDetail, m)
  BY MobileOtherHooks, MobileStarts DEF Says, Told

LEMMA MobileIncomingRequestsTold ==
  ASSUME NEW m \in {Mobile!useAcceptExchange, Mobile!useDeclineExchange,
                    Mobile!useCounterExchange, Mobile!useBlockUser, Mobile!useUnblockUser}
  PROVE  Told(Mobile!useIncomingRequests, m)
  BY MobileNegotiationHooks, MobileOtherHooks, MobileStarts DEF Says, Told

LEMMA MobileIncomingCountTold ==
  ASSUME NEW m \in {Mobile!useAcceptExchange, Mobile!useDeclineExchange,
                    Mobile!useCounterExchange, Mobile!useBlockUser, Mobile!useUnblockUser}
  PROVE  Told(Mobile!useIncomingCount, m)
  BY MobileNegotiationHooks, MobileOtherHooks, MobileStarts DEF Says, Told

LEMMA MobileMessagesTold ==
  ASSUME NEW m \in {Mobile!useSendMessage}
  PROVE  Told(Mobile!useMessages, m)
  BY MobileMessageHooks, MobileStarts DEF Says, Told

LEMMA MobileNotificationsTold ==
  ASSUME NEW m \in {Mobile!useMarkNotificationRead, Mobile!useMarkAllRead}
  PROVE  Told(Mobile!useNotifications, m)
  BY MobileMessageHooks, MobileStarts DEF Says, Told

LEMMA MobileNotificationPreferencesTold ==
  ASSUME NEW m \in {Mobile!usePatchNotificationPreferences}
  PROVE  Told(Mobile!useNotificationPreferences, m)
  BY MobileMessageHooks, MobileStarts DEF Says, Told

LEMMA MobileExchangeRatingStatusTold ==
  ASSUME NEW m \in {Mobile!useSubmitRating}
  PROVE  Told(Mobile!useExchangeRatingStatus, m)
  BY MobileOtherHooks, MobileStarts DEF Says, Told

LEMMA MobileBlocksTold ==
  ASSUME NEW m \in {Mobile!useBlockUser, Mobile!useUnblockUser}
  PROVE  Told(Mobile!useBlocks, m)
  BY MobileOtherHooks, MobileStarts DEF Says, Told

LEMMA MobileToldAttended ==
  ASSUME NEW q, NEW m, Told(q, m) PROVE Attended(Mobile!CaseOf(Mobile!Client, q, m))
  <1> DEFINE k == Mobile!CaseOf(Mobile!Client, q, m)
  <1>1. /\ k.flags = Mobile!Covers(m.flags, q) /\ k.optimistic = Mobile!Covers(m.optimistic, q)
        /\ k.sets = IF Mobile!Covers(m.sets, q) THEN "append" ELSE "no"
        /\ k.queues = (m.queued # {}) /\ k.drainFlags = Mobile!Covers(m.queued, q)
    BY DEF Mobile!CaseOf, Mobile!Client
  <1>2. Mobile!Covers(m.flags, q) \/ Mobile!Covers(m.optimistic, q) \/ Mobile!Covers(m.sets, q)
    BY DEF Told, Mobile!Covers, Mobile!IsPrefix, IsPrefix
  <1>3. m.queued # {} => Mobile!Covers(m.queued, q)
    BY DEF Told, Mobile!Covers, Mobile!IsPrefix, IsPrefix
  <1> HIDE DEF k
  <1>4. Attended(k)
    BY <1>1, <1>2, <1>3 DEF Attended
  <1> QED BY <1>4 DEF k

\* The pairs the table lists as gaps, and the listings that are fetched again after all.
LEMMA MobileGaps ==
  /\ \A q \in Mobile!Listings, m \in Mobile!Mutations :
        <<q, m>> \in Mobile!ListedAgain \/ <<q, m>> \in Mobile!KnownGaps
  /\ \A m \in {Mobile!useDeleteBook, Mobile!useAcceptExchange, Mobile!useDeclineExchange,
               Mobile!useCounterExchange, Mobile!useCancelExchange, Mobile!useCompleteExchange,
               Mobile!useConfirmReturn, Mobile!useSubmitRating, Mobile!useBlockUser,
               Mobile!useUnblockUser, Mobile!useLocationManager, Mobile!useUpdateProfile} :
        <<Mobile!useBookDetail, m>> \in Mobile!KnownGaps
  /\ \A m \in {Mobile!useUploadBookPhoto, Mobile!useDeleteBookPhoto,
               Mobile!useReorderBookPhotos, Mobile!useAcceptExchange, Mobile!useLocationManager,
               Mobile!useUpdateProfile} :
        <<Mobile!useMyBooks, m>> \in Mobile!KnownGaps
  /\ \A m \in {Mobile!useUpdateBook, Mobile!useDeleteBook} :
        <<Mobile!useWishlist, m>> \in Mobile!KnownGaps
  /\ \A m \in {Mobile!useUpdateBook, Mobile!useDeleteBook, Mobile!removeFromList} :
        <<Mobile!useBookWishlistStatus, m>> \in Mobile!KnownGaps
  /\ \A m \in {Mobile!useUpdateBook, Mobile!useDeleteBook, Mobile!useUploadBookPhoto,
               Mobile!useDeleteBookPhoto, Mobile!useReorderBookPhotos,
               Mobile!useAcceptConditions, Mobile!useRequestReturn, Mobile!useSendMessage,
               Mobile!useMarkMessagesRead, Mobile!useSubmitRating, Mobile!useUpdateProfile} :
        <<Mobile!useExchanges, m>> \in Mobile!KnownGaps
  /\ \A m \in {Mobile!useUpdateBook, Mobile!useDeleteBook, Mobile!useUploadBookPhoto,
               Mobile!useDeleteBookPhoto, Mobile!useReorderBookPhotos, Mobile!useSendMessage,
               Mobile!useMarkMessagesRead, Mobile!useSubmitRating, Mobile!useUpdateProfile} :
        <<Mobile!useExchangeDetail, m>> \in Mobile!KnownGaps
  /\ \A m \in {Mobile!useDeleteBook, Mobile!useAcceptExchange} :
        <<Mobile!rivalDetail, m>> \in Mobile!KnownGaps
  /\ \A m \in {Mobile!useUpdateBook, Mobile!useDeleteBook, Mobile!useUploadBookPhoto,
               Mobile!useDeleteBookPhoto, Mobile!useReorderBookPhotos, Mobile!useConfirmSwap,
               Mobile!useSubmitRating, Mobile!useUpdateProfile} :
        <<Mobile!useIncomingRequests, m>> \in Mobile!KnownGaps
  /\ \A m \in {Mobile!useDeleteBook} :
        <<Mobile!useIncomingCount, m>> \in Mobile!KnownGaps
  /\ \A m \in {Mobile!useDeleteBook, Mobile!useAcceptConditions, Mobile!useMarkMessagesRead,
               Mobile!useBlockUser, Mobile!useUnblockUser, Mobile!useUpdateProfile} :
        <<Mobile!useMessages, m>> \in Mobile!KnownGaps
  /\ \A m \in {Mobile!useDeleteBook, Mobile!useAcceptConditions, Mobile!useBlockUser,
               Mobile!useUnblockUser, Mobile!useLocationManager} :
        <<Mobile!useMeetupSuggestions, m>> \in Mobile!KnownGaps
  /\ \A m \in {Mobile!useDeleteBook, Mobile!useCompleteExchange, Mobile!useConfirmReturn,
               Mobile!useUpdateProfile} :
        <<Mobile!useExchangeRatingStatus, m>> \in Mobile!KnownGaps
  /\ \A m \in {Mobile!useDeleteBook, Mobile!useSubmitRating, Mobile!useUpdateProfile} :
        <<Mobile!useUserRatings, m>> \in Mobile!KnownGaps
  /\ \A m \in {Mobile!useConfirmSwap, Mobile!useSubmitRating, Mobile!useBlockUser,
               Mobile!useUnblockUser} :
        <<Mobile!usePublicProfile, m>> \in Mobile!KnownGaps
  <1>1. \A q \in Mobile!Listings, m \in Mobile!Mutations :
          <<q, m>> \in Mobile!ListedAgain \/ <<q, m>> \in Mobile!KnownGaps
    BY DEF Mobile!KnownGaps
  <1>2. Mobile!NestedGaps \union Mobile!RatedGaps \union Mobile!DeletedGaps \union Mobile!BlockGaps
          \subseteq Mobile!KnownGaps
    BY DEF Mobile!KnownGaps
  <1>3. \A m \in {Mobile!useDeleteBook, Mobile!useAcceptExchange, Mobile!useDeclineExchange,
                  Mobile!useCounterExchange, Mobile!useCancelExchange,
                  Mobile!useCompleteExchange, Mobile!useConfirmReturn, Mobile!useSubmitRating,
                  Mobile!useBlockUser, Mobile!useUnblockUser, Mobile!useLocationManager,
                  Mobile!useUpdateProfile} :
          <<Mobile!useBookDetail, m>> \in Mobile!KnownGaps
    <2>1. \A m \in {Mobile!useDeleteBook} :
            <<Mobile!useBookDetail, m>> \in Mobile!DeletedGaps
      BY DEF Mobile!DeletedGaps
    <2>2. \A m \in {Mobile!useAcceptExchange, Mobile!useDeclineExchange,
                    Mobile!useCounterExchange, Mobile!useCancelExchange,
                    Mobile!useCompleteExchange, Mobile!useConfirmReturn} :
            <<Mobile!useBookDetail, m>> \in Mobile!KnownGaps
      BY DEF Mobile!KnownGaps, Mobile!PhotoHooks
    <2>3. \A m \in {Mobile!useSubmitRating} :
            <<Mobile!useBookDetail, m>> \in Mobile!RatedGaps
      BY DEF Mobile!RatedGaps, Mobile!Rows
    <2>4. \A m \in {Mobile!useBlockUser, Mobile!useUnblockUser} :
            <<Mobile!useBookDetail, m>> \in Mobile!BlockGaps
      BY DEF Mobile!BlockGaps
    <2>5. \A m \in {Mobile!useLocationManager, Mobile!useUpdateProfile} :
            <<Mobile!useBookDetail, m>> \in Mobile!NestedGaps
      BY DEF Mobile!NestedGaps, Mobile!Rows, Mobile!PhotoHooks
    <2> QED BY <1>2, <2>1, <2>2, <2>3, <2>4, <2>5
  <1>4. \A m \in {Mobile!useUploadBookPhoto, Mobile!useDeleteBookPhoto,
                  Mobile!useReorderBookPhotos, Mobile!useAcceptExchange,
                  Mobile!useLocationManager, Mobile!useUpdateProfile} :
          <<Mobile!useMyBooks, m>> \in Mobile!KnownGaps
    <2>1. \A m \in {Mobile!useUploadBookPhoto, Mobile!useDeleteBookPhoto,
                    Mobile!useReorderBookPhotos, Mobile!useAcceptExchange} :
            <<Mobile!useMyBooks, m>> \in Mobile!KnownGaps
      BY DEF Mobile!KnownGaps, Mobile!PhotoHooks
    <2>2. \A m \in {Mobile!useLocationManager, Mobile!useUpdateProfile} :
            <<Mobile!useMyBooks, m>> \in Mobile!NestedGaps
      BY DEF Mobile!NestedGaps, Mobile!Rows, Mobile!PhotoHooks
    <2> QED BY <1>2, <2>1, <2>2
  <1>5. \A m \in {Mobile!useUpdateBook, Mobile!useDeleteBook} :
          <<Mobile!useWishlist, m>> \in Mobile!KnownGaps
    <2>1. \A m \in {Mobile!useUpdateBook} :
            <<Mobile!useWishlist, m>> \in Mobile!KnownGaps
      BY DEF Mobile!KnownGaps, Mobile!PhotoHooks
    <2>2. \A m \in {Mobile!useDeleteBook} :
            <<Mobile!useWishlist, m>> \in Mobile!DeletedGaps
      BY DEF Mobile!DeletedGaps
    <2> QED BY <1>2, <2>1, <2>2
  <1>6. \A m \in {Mobile!useUpdateBook, Mobile!useDeleteBook, Mobile!removeFromList} :
          <<Mobile!useBookWishlistStatus, m>> \in Mobile!KnownGaps
    <2>1. \A m \in {Mobile!useUpdateBook, Mobile!removeFromList} :
            <<Mobile!useBookWishlistStatus, m>> \in Mobile!KnownGaps
      BY DEF Mobile!KnownGaps, Mobile!PhotoHooks
    <2>2. \A m \in {Mobile!useDeleteBook} :
            <<Mobile!useBookWishlistStatus, m>> \in Mobile!DeletedGaps
      BY DEF Mobile!DeletedGaps
    <2> QED BY <1>2, <2>1, <2>2
  <1>7. \A m \in {Mobile!useUpdateBook, Mobile!useDeleteBook, Mobile!useUploadBookPhoto,
                  Mobile!useDeleteBookPhoto, Mobile!useReorderBookPhotos,
                  Mobile!useAcceptConditions, Mobile!useRequestReturn, Mobile!useSendMessage,
                  Mobile!useMarkMessagesRead, Mobile!useSubmitRating, Mobile!useUpdateProfile} :
          <<Mobile!useExchanges, m>> \in Mobile!KnownGaps
    <2>1. \A m \in {Mobile!useUpdateBook, Mobile!useUploadBookPhoto, Mobile!useDeleteBookPhoto,
                    Mobile!useReorderBookPhotos, Mobile!useSendMessage,
                    Mobile!useMarkMessagesRead, Mobile!useUpdateProfile} :
            <<Mobile!useExchanges, m>> \in Mobile!NestedGaps
      BY DEF Mobile!NestedGaps, Mobile!Rows, Mobile!PhotoHooks
    <2>2. \A m \in {Mobile!useDeleteBook} :
            <<Mobile!useExchanges, m>> \in Mobile!DeletedGaps
      BY DEF Mobile!DeletedGaps
    <2>3. \A m \in {Mobile!useAcceptConditions, Mobile!useRequestReturn} :
            <<Mobile!useExchanges, m>> \in Mobile!KnownGaps
      BY DEF Mobile!KnownGaps, Mobile!PhotoHooks
    <2>4. \A m \in {Mobile!useSubmitRating} :
            <<Mobile!useExchanges, m>> \in Mobile!RatedGaps
      BY DEF Mobile!RatedGaps, Mobile!Rows
    <2> QED BY <1>2, <2>1, <2>2, <2>3, <2>4
  <1>8. \A m \in {Mobile!useUpdateBook, Mobile!useDeleteBook, Mobile!useUploadBookPhoto,
                  Mobile!useDeleteBookPhoto, Mobile!useReorderBookPhotos, Mobile!useSendMessage,
                  Mobile!useMarkMessagesRead, Mobile!useSubmitRating, Mobile!useUpdateProfile} :
          <<Mobile!useExchangeDetail, m>> \in Mobile!KnownGaps
    <2>1. \A m \in {Mobile!useUpdateBook, Mobile!useUploadBookPhoto, Mobile!useDeleteBookPhoto,
                    Mobile!useReorderBookPhotos, Mobile!useSendMessage,
                    Mobile!useMarkMessagesRead, Mobile!useUpdateProfile} :
            <<Mobile!useExchangeDetail, m>> \in Mobile!NestedGaps
      BY DEF Mobile!NestedGaps, Mobile!Rows, Mobile!PhotoHooks
    <2>2. \A m \in {Mobile!useDeleteBook} :
            <<Mobile!useExchangeDetail, m>> \in Mobile!DeletedGaps
      BY DEF Mobile!DeletedGaps
    <2>3. \A m \in {Mobile!useSubmitRating} :
            <<Mobile!useExchangeDetail, m>> \in Mobile!RatedGaps
      BY DEF Mobile!RatedGaps, Mobile!Rows
    <2> QED BY <1>2, <2>1, <2>2, <2>3
  <1>9. \A m \in {Mobile!useDeleteBook, Mobile!useAcceptExchange} :
          <<Mobile!rivalDetail, m>> \in Mobile!KnownGaps
    <2>1. \A m \in {Mobile!useDeleteBook} :
            <<Mobile!rivalDetail, m>> \in Mobile!DeletedGaps
      BY DEF Mobile!DeletedGaps
    <2>2. \A m \in {Mobile!useAcceptExchange} :
            <<Mobile!rivalDetail, m>> \in Mobile!KnownGaps
      BY DEF Mobile!KnownGaps, Mobile!PhotoHooks
    <2> QED BY <1>2, <2>1, <2>2
  <1>10. \A m \in {Mobile!useUpdateBook, Mobile!useDeleteBook, Mobile!useUploadBookPhoto,
                   Mobile!useDeleteBookPhoto, Mobile!useReorderBookPhotos,
                   Mobile!useConfirmSwap, Mobile!useSubmitRating, Mobile!useUpdateProfile} :
          <<Mobile!useIncomingRequests, m>> \in Mobile!KnownGaps
    <2>1. \A m \in {Mobile!useUpdateBook, Mobile!useUploadBookPhoto, Mobile!useDeleteBookPhoto,
                    Mobile!useReorderBookPhotos, Mobile!useConfirmSwap,
                    Mobile!useUpdateProfile} :
            <<Mobile!useIncomingRequests, m>> \in Mobile!NestedGaps
      BY DEF Mobile!NestedGaps, Mobile!Rows, Mobile!PhotoHooks
    <2>2. \A m \in {Mobile!useDeleteBook} :
            <<Mobile!useIncomingRequests, m>> \in Mobile!DeletedGaps
      BY DEF Mobile!DeletedGaps
    <2>3. \A m \in {Mobile!useSubmitRating} :
            <<Mobile!useIncomingRequests, m>> \in Mobile!RatedGaps
      BY DEF Mobile!RatedGaps, Mobile!Rows
    <2> QED BY <1>2, <2>1, <2>2, <2>3
  <1>11. \A m \in {Mobile!useDeleteBook} :
          <<Mobile!useIncomingCount, m>> \in Mobile!KnownGaps
    <2>1. \A m \in {Mobile!useDeleteBook} :
            <<Mobile!useIncomingCount, m>> \in Mobile!DeletedGaps
      BY DEF Mobile!DeletedGaps
    <2> QED BY <1>2, <2>1
  <1>12. \A m \in {Mobile!useDeleteBook, Mobile!useAcceptConditions, Mobile!useMarkMessagesRead,
                   Mobile!useBlockUser, Mobile!useUnblockUser, Mobile!useUpdateProfile} :
          <<Mobile!useMessages, m>> \in Mobile!KnownGaps
    <2>1. \A m \in {Mobile!useDeleteBook} :
            <<Mobile!useMessages, m>> \in Mobile!DeletedGaps
      BY DEF Mobile!DeletedGaps
    <2>2. \A m \in {Mobile!useAcceptConditions, Mobile!useMarkMessagesRead} :
            <<Mobile!useMessages, m>> \in Mobile!KnownGaps
      BY DEF Mobile!KnownGaps, Mobile!PhotoHooks
    <2>3. \A m \in {Mobile!useBlockUser, Mobile!useUnblockUser} :
            <<Mobile!useMessages, m>> \in Mobile!BlockGaps
      BY DEF Mobile!BlockGaps
    <2>4. \A m \in {Mobile!useUpdateProfile} :
            <<Mobile!useMessages, m>> \in Mobile!NestedGaps
      BY DEF Mobile!NestedGaps, Mobile!Rows, Mobile!PhotoHooks
    <2> QED BY <1>2, <2>1, <2>2, <2>3, <2>4
  <1>13. \A m \in {Mobile!useDeleteBook, Mobile!useAcceptConditions, Mobile!useBlockUser,
                   Mobile!useUnblockUser, Mobile!useLocationManager} :
          <<Mobile!useMeetupSuggestions, m>> \in Mobile!KnownGaps
    <2>1. \A m \in {Mobile!useDeleteBook} :
            <<Mobile!useMeetupSuggestions, m>> \in Mobile!DeletedGaps
      BY DEF Mobile!DeletedGaps
    <2>2. \A m \in {Mobile!useAcceptConditions} :
            <<Mobile!useMeetupSuggestions, m>> \in Mobile!KnownGaps
      BY DEF Mobile!KnownGaps, Mobile!PhotoHooks
    <2>3. \A m \in {Mobile!useBlockUser, Mobile!useUnblockUser} :
            <<Mobile!useMeetupSuggestions, m>> \in Mobile!BlockGaps
      BY DEF Mobile!BlockGaps
    <2>4. \A m \in {Mobile!useLocationManager} :
            <<Mobile!useMeetupSuggestions, m>> \in Mobile!NestedGaps
      BY DEF Mobile!NestedGaps, Mobile!Rows, Mobile!PhotoHooks
    <2> QED BY <1>2, <2>1, <2>2, <2>3, <2>4
  <1>14. \A m \in {Mobile!useDeleteBook, Mobile!useCompleteExchange, Mobile!useConfirmReturn,
                   Mobile!useUpdateProfile} :
          <<Mobile!useExchangeRatingStatus, m>> \in Mobile!KnownGaps
    <2>1. \A m \in {Mobile!useDeleteBook} :
            <<Mobile!useExchangeRatingStatus, m>> \in Mobile!DeletedGaps
      BY DEF Mobile!DeletedGaps
    <2>2. \A m \in {Mobile!useCompleteExchange, Mobile!useConfirmReturn} :
            <<Mobile!useExchangeRatingStatus, m>> \in Mobile!KnownGaps
      BY DEF Mobile!KnownGaps, Mobile!PhotoHooks
    <2>3. \A m \in {Mobile!useUpdateProfile} :
            <<Mobile!useExchangeRatingStatus, m>> \in Mobile!NestedGaps
      BY DEF Mobile!NestedGaps, Mobile!Rows, Mobile!PhotoHooks
    <2> QED BY <1>2, <2>1, <2>2, <2>3
  <1>15. \A m \in {Mobile!useDeleteBook, Mobile!useSubmitRating, Mobile!useUpdateProfile} :
          <<Mobile!useUserRatings, m>> \in Mobile!KnownGaps
    <2>1. \A m \in {Mobile!useDeleteBook} :
            <<Mobile!useUserRatings, m>> \in Mobile!DeletedGaps
      BY DEF Mobile!DeletedGaps
    <2>2. \A m \in {Mobile!useSubmitRating} :
            <<Mobile!useUserRatings, m>> \in Mobile!KnownGaps
      BY DEF Mobile!KnownGaps, Mobile!PhotoHooks
    <2>3. \A m \in {Mobile!useUpdateProfile} :
            <<Mobile!useUserRatings, m>> \in Mobile!NestedGaps
      BY DEF Mobile!NestedGaps, Mobile!Rows, Mobile!PhotoHooks
    <2> QED BY <1>2, <2>1, <2>2, <2>3
  <1>16. \A m \in {Mobile!useConfirmSwap, Mobile!useSubmitRating, Mobile!useBlockUser,
                   Mobile!useUnblockUser} :
          <<Mobile!usePublicProfile, m>> \in Mobile!KnownGaps
    <2>1. \A m \in {Mobile!useConfirmSwap} :
            <<Mobile!usePublicProfile, m>> \in Mobile!NestedGaps
      BY DEF Mobile!NestedGaps, Mobile!Rows, Mobile!PhotoHooks
    <2>2. \A m \in {Mobile!useSubmitRating} :
            <<Mobile!usePublicProfile, m>> \in Mobile!RatedGaps
      BY DEF Mobile!RatedGaps, Mobile!Rows
    <2>3. \A m \in {Mobile!useBlockUser, Mobile!useUnblockUser} :
            <<Mobile!usePublicProfile, m>> \in Mobile!BlockGaps
      BY DEF Mobile!BlockGaps
    <2> QED BY <1>2, <2>1, <2>2, <2>3
  <1> QED BY <1>1, <1>2, <1>3, <1>4, <1>5, <1>6, <1>7, <1>8, <1>9, <1>10, <1>11, <1>12, <1>13,
            <1>14, <1>15, <1>16

LEMMA MobileAgain ==
  ASSUME NEW q, NEW m, <<q, m>> \in Mobile!ListedAgain PROVE Told(q, m)
  BY MobileBrowseBooksTold, MobileRecentBooksTold, MobileNearbyCountTold,
     MobileCommunityStatsTold DEF Mobile!ListedAgain

\* What a query is computed from, and which hooks write that.
LEMMA MobileReaders ==
  /\ \A q \in Mobile!Queries :
        q \in Mobile!Listings \union {Mobile!useBookDetail, Mobile!useMyBooks,
                                      Mobile!useWishlist, Mobile!useBookWishlistStatus,
                                      Mobile!useExchanges, Mobile!useExchangeDetail,
                                      Mobile!rivalDetail, Mobile!useIncomingRequests,
                                      Mobile!useIncomingCount, Mobile!useMessages,
                                      Mobile!useMeetupSuggestions, Mobile!useNotifications,
                                      Mobile!useNotificationPreferences,
                                      Mobile!useExchangeRatingStatus, Mobile!useUserRatings,
                                      Mobile!useBlocks, Mobile!usePublicProfile}
  /\ Mobile!useBookDetail.reads = {"book", "average", "picture", "place"}
  /\ Mobile!useMyBooks.reads = {"shelf", "picture", "place"}
  /\ Mobile!useWishlist.reads = {"wishlist"}
  /\ Mobile!useBookWishlistStatus.reads = {"wishlist"}
  /\ Mobile!useExchanges.reads =
        {"cover", "exchange", "request", "preview", "average", "swaps", "picture"}
  /\ Mobile!useExchangeDetail.reads =
        {"cover", "exchange", "preview", "average", "swaps", "picture"}
  /\ Mobile!rivalDetail.reads = {"rival"}
  /\ Mobile!useIncomingRequests.reads = {"cover", "incoming", "average", "swaps", "picture"}
  /\ Mobile!useIncomingCount.reads = {"incoming"}
  /\ Mobile!useMessages.reads = {"messages", "chat", "picture"}
  /\ Mobile!useMeetupSuggestions.reads = {"chat", "place"}
  /\ Mobile!useNotifications.reads = {"notices"}
  /\ Mobile!useNotificationPreferences.reads = {"preferences"}
  /\ Mobile!useExchangeRatingStatus.reads = {"ratings", "ratable", "picture"}
  /\ Mobile!useUserRatings.reads = {"ratings", "picture"}
  /\ Mobile!useBlocks.reads = {"blocks"}
  /\ Mobile!usePublicProfile.reads = {"average", "swaps", "profile"}
  <1>1. \A q \in Mobile!Queries :
          q \in Mobile!Listings \union {Mobile!useBookDetail, Mobile!useMyBooks,
                                        Mobile!useWishlist, Mobile!useBookWishlistStatus,
                                        Mobile!useExchanges, Mobile!useExchangeDetail,
                                        Mobile!rivalDetail, Mobile!useIncomingRequests,
                                        Mobile!useIncomingCount, Mobile!useMessages,
                                        Mobile!useMeetupSuggestions, Mobile!useNotifications,
                                        Mobile!useNotificationPreferences,
                                        Mobile!useExchangeRatingStatus, Mobile!useUserRatings,
                                        Mobile!useBlocks, Mobile!usePublicProfile}
    BY DEF Mobile!Queries, Mobile!Listings
  <1>2. Mobile!useBookDetail.reads = {"book", "average", "picture", "place"}
    BY DEF Mobile!Query, Mobile!useBookDetail
  <1>3. Mobile!useMyBooks.reads = {"shelf", "picture", "place"}
    BY DEF Mobile!Query, Mobile!useMyBooks
  <1>4. Mobile!useWishlist.reads = {"wishlist"}
    BY DEF Mobile!Query, Mobile!useWishlist
  <1>5. Mobile!useBookWishlistStatus.reads = {"wishlist"}
    BY DEF Mobile!Query, Mobile!useBookWishlistStatus
  <1>6. Mobile!useExchanges.reads =
        {"cover", "exchange", "request", "preview", "average", "swaps", "picture"}
    BY DEF Mobile!Query, Mobile!useExchanges, Mobile!nested
  <1>7. Mobile!useExchangeDetail.reads =
        {"cover", "exchange", "preview", "average", "swaps", "picture"}
    BY DEF Mobile!Query, Mobile!useExchangeDetail, Mobile!nested
  <1>8. Mobile!rivalDetail.reads = {"rival"}
    BY DEF Mobile!Query, Mobile!rivalDetail
  <1>9. Mobile!useIncomingRequests.reads = {"cover", "incoming", "average", "swaps", "picture"}
    BY DEF Mobile!Query, Mobile!useIncomingRequests, Mobile!nested
  <1>10. Mobile!useIncomingCount.reads = {"incoming"}
    BY DEF Mobile!Query, Mobile!useIncomingCount
  <1>11. Mobile!useMessages.reads = {"messages", "chat", "picture"}
    BY DEF Mobile!Query, Mobile!useMessages
  <1>12. Mobile!useMeetupSuggestions.reads = {"chat", "place"}
    BY DEF Mobile!Query, Mobile!useMeetupSuggestions
  <1>13. Mobile!useNotifications.reads = {"notices"}
    BY DEF Mobile!Query, Mobile!useNotifications
  <1>14. Mobile!useNotificationPreferences.reads = {"preferences"}
    BY DEF Mobile!Query, Mobile!useNotificationPreferences
  <1>15. Mobile!useExchangeRatingStatus.reads = {"ratings", "ratable", "picture"}
    BY DEF Mobile!Query, Mobile!useExchangeRatingStatus
  <1>16. Mobile!useUserRatings.reads = {"ratings", "picture"}
    BY DEF Mobile!Query, Mobile!useUserRatings
  <1>17. Mobile!useBlocks.reads = {"blocks"}
    BY DEF Mobile!Query, Mobile!useBlocks
  <1>18. Mobile!usePublicProfile.reads = {"average", "swaps", "profile"}
    BY DEF Mobile!Query, Mobile!usePublicProfile
  <1> QED BY <1>1, <1>2, <1>3, <1>4, <1>5, <1>6, <1>7, <1>8, <1>9, <1>10, <1>11, <1>12, <1>13,
            <1>14, <1>15, <1>16, <1>17, <1>18

LEMMA MobileWriters ==
  ASSUME NEW m \in Mobile!Mutations
  PROVE
    /\ "average" \in m.writes => m \in {Mobile!useSubmitRating}
    /\ "place" \in m.writes => m \in {Mobile!useLocationManager}
    /\ "book" \in m.writes => m \in {Mobile!useUpdateBook, Mobile!useDeleteBook,
                Mobile!useUploadBookPhoto, Mobile!useDeleteBookPhoto,
                Mobile!useReorderBookPhotos, Mobile!useAcceptExchange,
                Mobile!useDeclineExchange, Mobile!useCounterExchange, Mobile!useCancelExchange,
                Mobile!useCompleteExchange, Mobile!useConfirmReturn, Mobile!useBlockUser,
                Mobile!useUnblockUser}
    /\ "picture" \in m.writes => m \in {Mobile!useUpdateProfile}
    /\ "shelf" \in m.writes => m \in {Mobile!useCreateBook, Mobile!useUpdateBook,
                Mobile!useDeleteBook, Mobile!useUploadBookPhoto, Mobile!useDeleteBookPhoto,
                Mobile!useReorderBookPhotos, Mobile!useAcceptExchange,
                Mobile!useCompleteExchange, Mobile!useConfirmReturn}
    /\ "wishlist" \in m.writes => m \in {Mobile!useUpdateBook, Mobile!useDeleteBook,
                Mobile!useAddWishlistItem, Mobile!useRemoveWishlistItem, Mobile!removeFromList}
    /\ "exchange" \in m.writes => m \in {Mobile!useDeleteBook, Mobile!useAcceptExchange,
                Mobile!useDeclineExchange, Mobile!useCounterExchange, Mobile!useApproveCounter,
                Mobile!useCancelExchange, Mobile!useAcceptConditions, Mobile!useConfirmSwap,
                Mobile!useCompleteExchange, Mobile!useRequestReturn, Mobile!useConfirmReturn,
                Mobile!useBlockUser, Mobile!useUnblockUser}
    /\ "swaps" \in m.writes => m \in {Mobile!useConfirmSwap}
    /\ "cover" \in m.writes => m \in {Mobile!useUpdateBook, Mobile!useUploadBookPhoto,
                Mobile!useDeleteBookPhoto, Mobile!useReorderBookPhotos}
    /\ "request" \in m.writes => m \in {Mobile!useCreateExchange}
    /\ "preview" \in m.writes => m \in {Mobile!useDeleteBook, Mobile!useSendMessage,
                Mobile!useMarkMessagesRead}
    /\ "rival" \in m.writes => m \in {Mobile!useDeleteBook, Mobile!useAcceptExchange,
                Mobile!useBlockUser, Mobile!useUnblockUser}
    /\ "incoming" \in m.writes => m \in {Mobile!useDeleteBook, Mobile!useAcceptExchange,
                Mobile!useDeclineExchange, Mobile!useCounterExchange, Mobile!useBlockUser,
                Mobile!useUnblockUser}
    /\ "chat" \in m.writes => m \in {Mobile!useDeleteBook, Mobile!useAcceptConditions,
                Mobile!useBlockUser, Mobile!useUnblockUser}
    /\ "messages" \in m.writes => m \in {Mobile!useDeleteBook, Mobile!useSendMessage,
                Mobile!useMarkMessagesRead}
    /\ "notices" \in m.writes => m \in {Mobile!useMarkNotificationRead, Mobile!useMarkAllRead}
    /\ "preferences" \in m.writes => m \in {Mobile!usePatchNotificationPreferences}
    /\ "ratings" \in m.writes => m \in {Mobile!useDeleteBook, Mobile!useSubmitRating}
    /\ "ratable" \in m.writes => m \in {Mobile!useCompleteExchange, Mobile!useConfirmReturn}
    /\ "blocks" \in m.writes => m \in {Mobile!useBlockUser, Mobile!useUnblockUser}
    /\ "profile" \in m.writes => m \in {Mobile!useBlockUser, Mobile!useUnblockUser}
  <1>1. m \in Mobile!Mutations
    OBVIOUS
  <1>2. "average" \in m.writes => m \in {Mobile!useSubmitRating}
    BY <1>1, MobileBookHooks, MobileWishlistHooks, MobileNegotiationHooks,
       MobileFulfilmentHooks, MobileMessageHooks, MobileOtherHooks DEF Mobile!Mutations, Says
  <1>3. "place" \in m.writes => m \in {Mobile!useLocationManager}
    BY <1>1, MobileBookHooks, MobileWishlistHooks, MobileNegotiationHooks,
       MobileFulfilmentHooks, MobileMessageHooks, MobileOtherHooks DEF Mobile!Mutations, Says
  <1>4. "book" \in m.writes => m \in {Mobile!useUpdateBook, Mobile!useDeleteBook,
                Mobile!useUploadBookPhoto, Mobile!useDeleteBookPhoto,
                Mobile!useReorderBookPhotos, Mobile!useAcceptExchange,
                Mobile!useDeclineExchange, Mobile!useCounterExchange, Mobile!useCancelExchange,
                Mobile!useCompleteExchange, Mobile!useConfirmReturn, Mobile!useBlockUser,
                Mobile!useUnblockUser}
    BY <1>1, MobileBookHooks, MobileWishlistHooks, MobileNegotiationHooks,
       MobileFulfilmentHooks, MobileMessageHooks, MobileOtherHooks DEF Mobile!Mutations, Says
  <1>5. "picture" \in m.writes => m \in {Mobile!useUpdateProfile}
    BY <1>1, MobileBookHooks, MobileWishlistHooks, MobileNegotiationHooks,
       MobileFulfilmentHooks, MobileMessageHooks, MobileOtherHooks DEF Mobile!Mutations, Says
  <1>6. "shelf" \in m.writes => m \in {Mobile!useCreateBook, Mobile!useUpdateBook,
                Mobile!useDeleteBook, Mobile!useUploadBookPhoto, Mobile!useDeleteBookPhoto,
                Mobile!useReorderBookPhotos, Mobile!useAcceptExchange,
                Mobile!useCompleteExchange, Mobile!useConfirmReturn}
    BY <1>1, MobileBookHooks, MobileWishlistHooks, MobileNegotiationHooks,
       MobileFulfilmentHooks, MobileMessageHooks, MobileOtherHooks DEF Mobile!Mutations, Says
  <1>7. "wishlist" \in m.writes => m \in {Mobile!useUpdateBook, Mobile!useDeleteBook,
                Mobile!useAddWishlistItem, Mobile!useRemoveWishlistItem, Mobile!removeFromList}
    BY <1>1, MobileBookHooks, MobileWishlistHooks, MobileNegotiationHooks,
       MobileFulfilmentHooks, MobileMessageHooks, MobileOtherHooks DEF Mobile!Mutations, Says
  <1>8. "exchange" \in m.writes => m \in {Mobile!useDeleteBook, Mobile!useAcceptExchange,
                Mobile!useDeclineExchange, Mobile!useCounterExchange, Mobile!useApproveCounter,
                Mobile!useCancelExchange, Mobile!useAcceptConditions, Mobile!useConfirmSwap,
                Mobile!useCompleteExchange, Mobile!useRequestReturn, Mobile!useConfirmReturn,
                Mobile!useBlockUser, Mobile!useUnblockUser}
    BY <1>1, MobileBookHooks, MobileWishlistHooks, MobileNegotiationHooks,
       MobileFulfilmentHooks, MobileMessageHooks, MobileOtherHooks DEF Mobile!Mutations, Says
  <1>9. "swaps" \in m.writes => m \in {Mobile!useConfirmSwap}
    BY <1>1, MobileBookHooks, MobileWishlistHooks, MobileNegotiationHooks,
       MobileFulfilmentHooks, MobileMessageHooks, MobileOtherHooks DEF Mobile!Mutations, Says
  <1>10. "cover" \in m.writes => m \in {Mobile!useUpdateBook, Mobile!useUploadBookPhoto,
                Mobile!useDeleteBookPhoto, Mobile!useReorderBookPhotos}
    BY <1>1, MobileBookHooks, MobileWishlistHooks, MobileNegotiationHooks,
       MobileFulfilmentHooks, MobileMessageHooks, MobileOtherHooks DEF Mobile!Mutations, Says
  <1>11. "request" \in m.writes => m \in {Mobile!useCreateExchange}
    BY <1>1, MobileBookHooks, MobileWishlistHooks, MobileNegotiationHooks,
       MobileFulfilmentHooks, MobileMessageHooks, MobileOtherHooks DEF Mobile!Mutations, Says
  <1>12. "preview" \in m.writes => m \in {Mobile!useDeleteBook, Mobile!useSendMessage,
                Mobile!useMarkMessagesRead}
    BY <1>1, MobileBookHooks, MobileWishlistHooks, MobileNegotiationHooks,
       MobileFulfilmentHooks, MobileMessageHooks, MobileOtherHooks DEF Mobile!Mutations, Says
  <1>13. "rival" \in m.writes => m \in {Mobile!useDeleteBook, Mobile!useAcceptExchange,
                Mobile!useBlockUser, Mobile!useUnblockUser}
    BY <1>1, MobileBookHooks, MobileWishlistHooks, MobileNegotiationHooks,
       MobileFulfilmentHooks, MobileMessageHooks, MobileOtherHooks DEF Mobile!Mutations, Says
  <1>14. "incoming" \in m.writes => m \in {Mobile!useDeleteBook, Mobile!useAcceptExchange,
                Mobile!useDeclineExchange, Mobile!useCounterExchange, Mobile!useBlockUser,
                Mobile!useUnblockUser}
    BY <1>1, MobileBookHooks, MobileWishlistHooks, MobileNegotiationHooks,
       MobileFulfilmentHooks, MobileMessageHooks, MobileOtherHooks DEF Mobile!Mutations, Says
  <1>15. "chat" \in m.writes => m \in {Mobile!useDeleteBook, Mobile!useAcceptConditions,
                Mobile!useBlockUser, Mobile!useUnblockUser}
    BY <1>1, MobileBookHooks, MobileWishlistHooks, MobileNegotiationHooks,
       MobileFulfilmentHooks, MobileMessageHooks, MobileOtherHooks DEF Mobile!Mutations, Says
  <1>16. "messages" \in m.writes => m \in {Mobile!useDeleteBook, Mobile!useSendMessage,
                Mobile!useMarkMessagesRead}
    BY <1>1, MobileBookHooks, MobileWishlistHooks, MobileNegotiationHooks,
       MobileFulfilmentHooks, MobileMessageHooks, MobileOtherHooks DEF Mobile!Mutations, Says
  <1>17. "notices" \in m.writes => m \in {Mobile!useMarkNotificationRead, Mobile!useMarkAllRead}
    BY <1>1, MobileBookHooks, MobileWishlistHooks, MobileNegotiationHooks,
       MobileFulfilmentHooks, MobileMessageHooks, MobileOtherHooks DEF Mobile!Mutations, Says
  <1>18. "preferences" \in m.writes => m \in {Mobile!usePatchNotificationPreferences}
    BY <1>1, MobileBookHooks, MobileWishlistHooks, MobileNegotiationHooks,
       MobileFulfilmentHooks, MobileMessageHooks, MobileOtherHooks DEF Mobile!Mutations, Says
  <1>19. "ratings" \in m.writes => m \in {Mobile!useDeleteBook, Mobile!useSubmitRating}
    BY <1>1, MobileBookHooks, MobileWishlistHooks, MobileNegotiationHooks,
       MobileFulfilmentHooks, MobileMessageHooks, MobileOtherHooks DEF Mobile!Mutations, Says
  <1>20. "ratable" \in m.writes => m \in {Mobile!useCompleteExchange, Mobile!useConfirmReturn}
    BY <1>1, MobileBookHooks, MobileWishlistHooks, MobileNegotiationHooks,
       MobileFulfilmentHooks, MobileMessageHooks, MobileOtherHooks DEF Mobile!Mutations, Says
  <1>21. "blocks" \in m.writes => m \in {Mobile!useBlockUser, Mobile!useUnblockUser}
    BY <1>1, MobileBookHooks, MobileWishlistHooks, MobileNegotiationHooks,
       MobileFulfilmentHooks, MobileMessageHooks, MobileOtherHooks DEF Mobile!Mutations, Says
  <1>22. "profile" \in m.writes => m \in {Mobile!useBlockUser, Mobile!useUnblockUser}
    BY <1>1, MobileBookHooks, MobileWishlistHooks, MobileNegotiationHooks,
       MobileFulfilmentHooks, MobileMessageHooks, MobileOtherHooks DEF Mobile!Mutations, Says
  <1> QED BY <1>2, <1>3, <1>4, <1>5, <1>6, <1>7, <1>8, <1>9, <1>10, <1>11, <1>12, <1>13,
            <1>14, <1>15, <1>16, <1>17, <1>18, <1>19, <1>20, <1>21, <1>22

\* So a query whose answer a hook changes is told, but for the gaps.
LEMMA MobileMinded ==
  ASSUME NEW q \in Mobile!Queries, NEW m \in Mobile!Mutations, NEW p \in q.reads \intersect m.writes
  PROVE  <<q, m>> \in Mobile!KnownGaps \/ Told(q, m)
  <1>1. CASE q \in Mobile!Listings
    BY <1>1, MobileGaps, MobileAgain
  <1>2. CASE q = Mobile!useBookDetail
    <2>1. m \in {Mobile!useUpdateBook, Mobile!useDeleteBook, Mobile!useUploadBookPhoto,
                 Mobile!useDeleteBookPhoto, Mobile!useReorderBookPhotos,
                 Mobile!useAcceptExchange, Mobile!useDeclineExchange, Mobile!useCounterExchange,
                 Mobile!useCancelExchange, Mobile!useCompleteExchange, Mobile!useConfirmReturn,
                 Mobile!useSubmitRating, Mobile!useBlockUser, Mobile!useUnblockUser,
                 Mobile!useLocationManager, Mobile!useUpdateProfile}
      BY <1>2, MobileReaders, MobileWriters
    <2> QED BY <2>1, <1>2, MobileBookDetailTold, MobileGaps
  <1>3. CASE q = Mobile!useMyBooks
    <2>1. m \in {Mobile!useCreateBook, Mobile!useUpdateBook, Mobile!useDeleteBook,
                 Mobile!useUploadBookPhoto, Mobile!useDeleteBookPhoto,
                 Mobile!useReorderBookPhotos, Mobile!useAcceptExchange,
                 Mobile!useCompleteExchange, Mobile!useConfirmReturn, Mobile!useLocationManager,
                 Mobile!useUpdateProfile}
      BY <1>3, MobileReaders, MobileWriters
    <2> QED BY <2>1, <1>3, MobileMyBooksTold, MobileGaps
  <1>4. CASE q = Mobile!useWishlist
    <2>1. m \in {Mobile!useUpdateBook, Mobile!useDeleteBook, Mobile!useAddWishlistItem,
                 Mobile!useRemoveWishlistItem, Mobile!removeFromList}
      BY <1>4, MobileReaders, MobileWriters
    <2> QED BY <2>1, <1>4, MobileWishlistTold, MobileGaps
  <1>5. CASE q = Mobile!useBookWishlistStatus
    <2>1. m \in {Mobile!useUpdateBook, Mobile!useDeleteBook, Mobile!useAddWishlistItem,
                 Mobile!useRemoveWishlistItem, Mobile!removeFromList}
      BY <1>5, MobileReaders, MobileWriters
    <2> QED BY <2>1, <1>5, MobileBookWishlistStatusTold, MobileGaps
  <1>6. CASE q = Mobile!useExchanges
    <2>1. m \in {Mobile!useUpdateBook, Mobile!useDeleteBook, Mobile!useUploadBookPhoto,
                 Mobile!useDeleteBookPhoto, Mobile!useReorderBookPhotos,
                 Mobile!useCreateExchange, Mobile!useAcceptExchange, Mobile!useDeclineExchange,
                 Mobile!useCounterExchange, Mobile!useApproveCounter, Mobile!useCancelExchange,
                 Mobile!useAcceptConditions, Mobile!useConfirmSwap, Mobile!useCompleteExchange,
                 Mobile!useRequestReturn, Mobile!useConfirmReturn, Mobile!useSendMessage,
                 Mobile!useMarkMessagesRead, Mobile!useSubmitRating, Mobile!useBlockUser,
                 Mobile!useUnblockUser, Mobile!useUpdateProfile}
      BY <1>6, MobileReaders, MobileWriters
    <2> QED BY <2>1, <1>6, MobileExchangesTold, MobileGaps
  <1>7. CASE q = Mobile!useExchangeDetail
    <2>1. m \in {Mobile!useUpdateBook, Mobile!useDeleteBook, Mobile!useUploadBookPhoto,
                 Mobile!useDeleteBookPhoto, Mobile!useReorderBookPhotos,
                 Mobile!useAcceptExchange, Mobile!useDeclineExchange, Mobile!useCounterExchange,
                 Mobile!useApproveCounter, Mobile!useCancelExchange, Mobile!useAcceptConditions,
                 Mobile!useConfirmSwap, Mobile!useCompleteExchange, Mobile!useRequestReturn,
                 Mobile!useConfirmReturn, Mobile!useSendMessage, Mobile!useMarkMessagesRead,
                 Mobile!useSubmitRating, Mobile!useBlockUser, Mobile!useUnblockUser,
                 Mobile!useUpdateProfile}
      BY <1>7, MobileReaders, MobileWriters
    <2> QED BY <2>1, <1>7, MobileExchangeDetailTold, MobileGaps
  <1>8. CASE q = Mobile!rivalDetail
    <2>1. m \in {Mobile!useDeleteBook, Mobile!useAcceptExchange, Mobile!useBlockUser,
                 Mobile!useUnblockUser}
      BY <1>8, MobileReaders, MobileWriters
    <2> QED BY <2>1, <1>8, MobileRivalDetailTold, MobileGaps
  <1>9. CASE q = Mobile!useIncomingRequests
    <2>1. m \in {Mobile!useUpdateBook, Mobile!useDeleteBook, Mobile!useUploadBookPhoto,
                 Mobile!useDeleteBookPhoto, Mobile!useReorderBookPhotos,
                 Mobile!useAcceptExchange, Mobile!useDeclineExchange, Mobile!useCounterExchange,
                 Mobile!useConfirmSwap, Mobile!useSubmitRating, Mobile!useBlockUser,
                 Mobile!useUnblockUser, Mobile!useUpdateProfile}
      BY <1>9, MobileReaders, MobileWriters
    <2> QED BY <2>1, <1>9, MobileIncomingRequestsTold, MobileGaps
  <1>10. CASE q = Mobile!useIncomingCount
    <2>1. m \in {Mobile!useDeleteBook, Mobile!useAcceptExchange, Mobile!useDeclineExchange,
                 Mobile!useCounterExchange, Mobile!useBlockUser, Mobile!useUnblockUser}
      BY <1>10, MobileReaders, MobileWriters
    <2> QED BY <2>1, <1>10, MobileIncomingCountTold, MobileGaps
  <1>11. CASE q = Mobile!useMessages
    <2>1. m \in {Mobile!useDeleteBook, Mobile!useAcceptConditions, Mobile!useSendMessage,
                 Mobile!useMarkMessagesRead, Mobile!useBlockUser, Mobile!useUnblockUser,
                 Mobile!useUpdateProfile}
      BY <1>11, MobileReaders, MobileWriters
    <2> QED BY <2>1, <1>11, MobileMessagesTold, MobileGaps
  <1>12. CASE q = Mobile!useMeetupSuggestions
    <2>1. m \in {Mobile!useDeleteBook, Mobile!useAcceptConditions, Mobile!useBlockUser,
                 Mobile!useUnblockUser, Mobile!useLocationManager}
      BY <1>12, MobileReaders, MobileWriters
    <2> QED BY <2>1, <1>12, MobileGaps
  <1>13. CASE q = Mobile!useNotifications
    <2>1. m \in {Mobile!useMarkNotificationRead, Mobile!useMarkAllRead}
      BY <1>13, MobileReaders, MobileWriters
    <2> QED BY <2>1, <1>13, MobileNotificationsTold
  <1>14. CASE q = Mobile!useNotificationPreferences
    <2>1. m \in {Mobile!usePatchNotificationPreferences}
      BY <1>14, MobileReaders, MobileWriters
    <2> QED BY <2>1, <1>14, MobileNotificationPreferencesTold
  <1>15. CASE q = Mobile!useExchangeRatingStatus
    <2>1. m \in {Mobile!useDeleteBook, Mobile!useCompleteExchange, Mobile!useConfirmReturn,
                 Mobile!useSubmitRating, Mobile!useUpdateProfile}
      BY <1>15, MobileReaders, MobileWriters
    <2> QED BY <2>1, <1>15, MobileExchangeRatingStatusTold, MobileGaps
  <1>16. CASE q = Mobile!useUserRatings
    <2>1. m \in {Mobile!useDeleteBook, Mobile!useSubmitRating, Mobile!useUpdateProfile}
      BY <1>16, MobileReaders, MobileWriters
    <2> QED BY <2>1, <1>16, MobileGaps
  <1>17. CASE q = Mobile!useBlocks
    <2>1. m \in {Mobile!useBlockUser, Mobile!useUnblockUser}
      BY <1>17, MobileReaders, MobileWriters
    <2> QED BY <2>1, <1>17, MobileBlocksTold
  <1>18. CASE q = Mobile!usePublicProfile
    <2>1. m \in {Mobile!useConfirmSwap, Mobile!useSubmitRating, Mobile!useBlockUser,
                 Mobile!useUnblockUser}
      BY <1>18, MobileReaders, MobileWriters
    <2> QED BY <2>1, <1>18, MobileGaps
  <1> QED BY <1>1, <1>2, <1>3, <1>4, <1>5, <1>6, <1>7, <1>8, <1>9, <1>10, <1>11, <1>12, <1>13,
            <1>14, <1>15, <1>16, <1>17, <1>18, MobileReaders

LEMMA MobileAttended == \A k \in Mobile!MobileCases : Attended(k)
  <1> SUFFICES ASSUME NEW k \in Mobile!MobileCases PROVE Attended(k)
    OBVIOUS
  <1>1. PICK pair \in Mobile!Watched(Mobile!Client, Mobile!Queries, Mobile!Mutations) :
          k = Mobile!CaseOf(Mobile!Client, pair[1], pair[2])
    BY DEF Mobile!MobileCases, Mobile!CasesOf
  <1>2. /\ pair \in Mobile!Queries \X Mobile!Mutations /\ pair \notin Mobile!KnownGaps
        /\ pair[1].reads \intersect pair[2].writes # {}
    BY DEF Mobile!Watched, Mobile!Client
  <1>3. PICK p : p \in pair[1].reads \intersect pair[2].writes
    BY <1>2
  <1>4. pair[1] \in Mobile!Queries /\ pair[2] \in Mobile!Mutations /\ pair = <<pair[1], pair[2]>>
    BY <1>2
  <1>5. Told(pair[1], pair[2])
    BY <1>2, <1>3, <1>4, MobileMinded
  <1> QED BY <1>1, <1>5, MobileToldAttended

-----------------------------------------------------------------------------
(* The hooks of the web app *)

\* What the mutation hooks do.
LEMMA WebBookHooks ==
  /\ Says(Web!useCreateBook, {"shelf", "market"},
          {<<"books", "list">>, <<"books", "my-shelf">>}, {})
  /\ Says(Web!useUpdateBook, {"book", "shelf", "market", "cover", "wishlist"},
          {<<"books", "list">>, <<"books", "my-shelf">>, <<"books", "detail", "b">>}, {})
  /\ Says(Web!useDeleteBook, {"book", "shelf", "market", "exchange", "rival", "incoming",
                             "messages", "chat", "preview", "ratings", "wishlist"},
          {<<"books", "list">>, <<"books", "my-shelf">>}, {})
  /\ Says(Web!useUploadBookPhoto, {"book", "shelf", "market", "cover"},
          {<<"books", "detail", "b">>}, {})
  /\ Says(Web!useDeleteBookPhoto, {"book", "shelf", "market", "cover"},
          {<<"books", "detail", "b">>}, {})
  /\ Says(Web!useReorderPhotos, {"book", "shelf", "market", "cover"},
          {<<"books", "detail", "b">>}, {})
  BY DEF Says, Web!useCreateBook, Web!Mutation, Web!shelf, Web!bookKeys, Web!useUpdateBook,
     Web!detailOfBook, Web!useDeleteBook, Web!deleted, Web!useUploadBookPhoto, Web!photos,
     Web!useDeleteBookPhoto, Web!useReorderPhotos

LEMMA WebWishlistHooks ==
  /\ Says(Web!useAddWishlistItem, {"wishlist"}, {<<"wishlist", "list">>}, {})
  /\ Says(Web!useRemoveWishlistItem, {"wishlist"}, {<<"wishlist", "list">>}, {})
  BY DEF Says, Web!useAddWishlistItem, Web!Mutation, Web!wishlistKeys, Web!useRemoveWishlistItem

LEMMA WebNegotiationHooks ==
  /\ Says(Web!useCreateExchange, {"request"},
          {<<"exchanges", "list">>, <<"exchanges", "incoming">>}, {})
  /\ Says(Web!useAcceptExchange, {"book", "shelf", "market", "exchange", "rival", "incoming"},
          {<<"exchanges", "list">>, <<"exchanges", "incoming">>,
          <<"exchanges", "detail", "e">>}, {})
  /\ Says(Web!useDeclineExchange, {"book", "exchange", "incoming"},
          {<<"exchanges", "list">>, <<"exchanges", "incoming">>,
          <<"exchanges", "detail", "e">>}, {})
  /\ Says(Web!useCounterExchange, {"book", "exchange", "incoming"},
          {<<"exchanges", "list">>, <<"exchanges", "incoming">>}, {})
  /\ Says(Web!useApproveCounter, {"exchange"},
          {<<"exchanges", "list">>, <<"exchanges", "incoming">>,
          <<"exchanges", "detail", "e">>}, {})
  /\ Says(Web!useCancelExchange, {"book", "exchange"},
          {<<"exchanges", "list">>, <<"exchanges", "detail", "e">>}, {})
  BY DEF Says, Web!useCreateExchange, Web!Mutation, Web!lists, Web!incoming, Web!exchangeKeys,
     Web!useAcceptExchange, Web!detail, Web!detailOfExchange, Web!useDeclineExchange,
     Web!useCounterExchange, Web!useApproveCounter, Web!useCancelExchange

LEMMA WebFulfilmentHooks ==
  /\ Says(Web!useAcceptConditions, {"exchange", "chat"}, {<<"exchanges", "detail", "e">>}, {})
  /\ Says(Web!useConfirmSwap, {"exchange", "swaps"},
          {<<"books", "list">>, <<"books", "my-shelf">>, <<"exchanges", "detail", "e">>}, {})
  /\ Says(Web!useRequestReturn, {"exchange"}, {<<"exchanges", "detail", "e">>}, {})
  /\ Says(Web!useConfirmReturn, {"book", "shelf", "market", "exchange", "ratable"},
          {<<"books", "list">>, <<"books", "my-shelf">>, <<"exchanges", "detail", "e">>}, {})
  BY DEF Says, Web!useAcceptConditions, Web!Mutation, Web!detail, Web!detailOfExchange,
     Web!exchangeKeys, Web!useConfirmSwap, Web!shelf, Web!bookKeys, Web!useRequestReturn,
     Web!useConfirmReturn

LEMMA WebMessageHooks ==
  /\ Says(Web!useSendMessage, {"messages", "preview"}, {<<"messaging", "messages", "e">>}, {})
  /\ Says(Web!useMarkMessagesRead, {"messages", "preview"},
          {<<"messaging", "messages", "e">>}, {})
  /\ Says(Web!useMarkNotificationRead, {"notices"}, {<<"notifications", "list">>}, {})
  /\ Says(Web!useMarkAllNotificationsRead, {"notices"}, {<<"notifications", "list">>}, {})
  /\ Says(Web!usePatchNotificationPreferences, {"preferences"},
          {<<"notifications", "preferences">>}, {})
  BY DEF Says, Web!useSendMessage, Web!Mutation, Web!chat, Web!messagingKeys,
     Web!useMarkMessagesRead, Web!useMarkNotificationRead, Web!notificationKeys,
     Web!useMarkAllNotificationsRead, Web!usePatchNotificationPreferences

LEMMA WebOtherHooks ==
  /\ Says(Web!useUpdateProfile, {"picture", "me"}, {<<"profile", "me">>}, {})
  /\ Says(Web!useSetLocation, {"place", "me"}, {<<"profile", "me">>}, {})
  /\ Says(Web!useCompleteOnboarding, {"me"}, {<<"profile", "me">>}, {})
  /\ Says(Web!useSubmitRating, {"ratings", "average"},
          {<<"exchanges", "detail", "e">>, <<"ratings", "exchange-status", "e">>}, {})
  /\ Says(Web!useBlockUser, {"book", "market", "exchange", "rival", "incoming", "chat",
                            "profile", "blocks"},
          {<<"exchanges">>, <<"browse">>, <<"blocks">>}, {})
  /\ Says(Web!useUnblockUser, {"book", "market", "exchange", "rival", "incoming", "chat",
                              "profile", "blocks"},
          {<<"exchanges">>, <<"browse">>, <<"blocks">>}, {})
  BY DEF Says, Web!useUpdateProfile, Web!Mutation, Web!profileKeys, Web!useSetLocation,
     Web!useCompleteOnboarding, Web!useSubmitRating, Web!ratingKeys, Web!detail,
     Web!detailOfExchange, Web!exchangeKeys, Web!useBlockUser, Web!hidden, Web!useUnblockUser

\* The keys of the queries begin with the keys that hooks invalidate.
LEMMA WebStarts ==
  /\ IsPrefix(<<"books", "list">>, Web!useBooks.key)
  /\ IsPrefix(<<"books", "detail", "b">>, Web!useBook.key)
  /\ IsPrefix(<<"books", "my-shelf">>, Web!useMyShelf.key)
  /\ IsPrefix(<<"wishlist", "list">>, Web!useWishlist.key)
  /\ IsPrefix(<<"exchanges", "list">>, Web!useExchanges.key)
  /\ IsPrefix(<<"exchanges">>, Web!useExchanges.key)
  /\ IsPrefix(<<"exchanges", "detail", "e">>, Web!useExchange.key)
  /\ IsPrefix(<<"exchanges">>, Web!useExchange.key)
  /\ IsPrefix(<<"exchanges">>, Web!rivalDetail.key)
  /\ IsPrefix(<<"exchanges", "incoming">>, Web!useIncomingRequests.key)
  /\ IsPrefix(<<"exchanges">>, Web!useIncomingRequests.key)
  /\ IsPrefix(<<"exchanges", "incoming">>, Web!useIncomingRequestCount.key)
  /\ IsPrefix(<<"exchanges">>, Web!useIncomingRequestCount.key)
  /\ IsPrefix(<<"messaging", "messages", "e">>, Web!useMessages.key)
  /\ IsPrefix(<<"notifications", "list">>, Web!useNotifications.key)
  /\ IsPrefix(<<"notifications", "preferences">>, Web!useNotificationPreferences.key)
  /\ IsPrefix(<<"profile", "me">>, Web!useProfile.key)
  /\ IsPrefix(<<"ratings", "exchange-status", "e">>, Web!useExchangeRatingStatus.key)
  /\ IsPrefix(<<"blocks">>, Web!useBlocks.key)
  <1>1. IsPrefix(<<"books", "list">>, Web!useBooks.key)
    <2>1. Web!useBooks.key = <<"books", "list", "filters">>
      BY Joined DEF Web!useBooks, Web!Query, Web!bookKeys
    <2> QED BY <2>1, Starts
  <1>2. IsPrefix(<<"books", "detail", "b">>, Web!useBook.key)
    <2>1. Web!useBook.key = <<"books", "detail", "b">>
      BY Joined DEF Web!useBook, Web!Query, Web!detailOfBook, Web!bookKeys
    <2> QED BY <2>1, Starts
  <1>3. IsPrefix(<<"books", "my-shelf">>, Web!useMyShelf.key)
    <2>1. Web!useMyShelf.key = <<"books", "my-shelf">>
      BY Joined DEF Web!useMyShelf, Web!Query, Web!bookKeys
    <2> QED BY <2>1, Starts
  <1>4. IsPrefix(<<"wishlist", "list">>, Web!useWishlist.key)
    BY Starts DEF Web!useWishlist, Web!Query, Web!wishlistKeys
  <1>5. /\ IsPrefix(<<"exchanges", "list">>, Web!useExchanges.key)
        /\ IsPrefix(<<"exchanges">>, Web!useExchanges.key)
    <2>1. Web!useExchanges.key = <<"exchanges", "list", "filters">>
      BY Joined DEF Web!useExchanges, Web!Query, Web!exchangeKeys
    <2> QED BY <2>1, Starts
  <1>6. /\ IsPrefix(<<"exchanges", "detail", "e">>, Web!useExchange.key)
        /\ IsPrefix(<<"exchanges">>, Web!useExchange.key)
    <2>1. Web!useExchange.key = <<"exchanges", "detail", "e">>
      BY Joined DEF Web!useExchange, Web!Query, Web!detailOfExchange, Web!exchangeKeys
    <2> QED BY <2>1, Starts
  <1>7. /\ IsPrefix(<<"exchanges", "incoming">>, Web!useIncomingRequests.key)
        /\ IsPrefix(<<"exchanges">>, Web!useIncomingRequests.key)
    <2>1. Web!useIncomingRequests.key = <<"exchanges", "incoming", "list", "filters">>
      BY Joined DEF Web!useIncomingRequests, Web!Query, Web!exchangeKeys
    <2> QED BY <2>1, Starts
  <1>8. /\ IsPrefix(<<"exchanges", "incoming">>, Web!useIncomingRequestCount.key)
        /\ IsPrefix(<<"exchanges">>, Web!useIncomingRequestCount.key)
    <2>1. Web!useIncomingRequestCount.key = <<"exchanges", "incoming", "count">>
      BY Joined DEF Web!useIncomingRequestCount, Web!Query, Web!exchangeKeys
    <2> QED BY <2>1, Starts
  <1>9. IsPrefix(<<"messaging", "messages", "e">>, Web!useMessages.key)
    BY Starts DEF Web!useMessages, Web!Query, Web!messagingKeys
  <1>10. IsPrefix(<<"notifications", "list">>, Web!useNotifications.key)
    BY Starts DEF Web!useNotifications, Web!Query, Web!notificationKeys
  <1>11. IsPrefix(<<"notifications", "preferences">>, Web!useNotificationPreferences.key)
    BY Starts DEF Web!useNotificationPreferences, Web!Query, Web!notificationKeys
  <1>12. IsPrefix(<<"profile", "me">>, Web!useProfile.key)
    BY Starts DEF Web!useProfile, Web!Query, Web!profileKeys
  <1>13. IsPrefix(<<"ratings", "exchange-status", "e">>, Web!useExchangeRatingStatus.key)
    BY Starts DEF Web!useExchangeRatingStatus, Web!Query, Web!ratingKeys
  <1>14. IsPrefix(<<"blocks">>, Web!useBlocks.key)
    BY Starts DEF Web!useBlocks, Web!Query, Web!blockKeys
  <1>15. IsPrefix(<<"exchanges">>, Web!rivalDetail.key)
    <2>1. Web!rivalDetail.key = <<"exchanges", "detail", "r">>
      BY Joined DEF Web!rivalDetail, Web!Query, Web!exchangeKeys
    <2> QED BY <2>1, Starts
  <1> QED BY <1>1, <1>2, <1>3, <1>4, <1>5, <1>6, <1>7, <1>8, <1>9, <1>10, <1>11, <1>12,
            <1>13, <1>14, <1>15

\* Query by query, the hooks that tell it.
LEMMA WebBooksTold ==
  ASSUME NEW m \in {Web!useCreateBook, Web!useUpdateBook, Web!useDeleteBook,
                    Web!useConfirmReturn}
  PROVE  Told(Web!useBooks, m)
  BY WebBookHooks, WebFulfilmentHooks, WebStarts DEF Says, Told

LEMMA WebBookTold ==
  ASSUME NEW m \in {Web!useUpdateBook, Web!useUploadBookPhoto, Web!useDeleteBookPhoto,
                    Web!useReorderPhotos}
  PROVE  Told(Web!useBook, m)
  BY WebBookHooks, WebStarts DEF Says, Told

LEMMA WebMyShelfTold ==
  ASSUME NEW m \in {Web!useCreateBook, Web!useUpdateBook, Web!useDeleteBook,
                    Web!useConfirmReturn}
  PROVE  Told(Web!useMyShelf, m)
  BY WebBookHooks, WebFulfilmentHooks, WebStarts DEF Says, Told

LEMMA WebWishlistTold ==
  ASSUME NEW m \in {Web!useAddWishlistItem, Web!useRemoveWishlistItem}
  PROVE  Told(Web!useWishlist, m)
  BY WebWishlistHooks, WebStarts DEF Says, Told

LEMMA WebExchangesTold ==
  ASSUME NEW m \in {Web!useCreateExchange, Web!useAcceptExchange, Web!useDeclineExchange,
                    Web!useCounterExchange, Web!useApproveCounter, Web!useCancelExchange,
                    Web!useBlockUser, Web!useUnblockUser}
  PROVE  Told(Web!useExchanges, m)
  BY WebNegotiationHooks, WebOtherHooks, WebStarts DEF Says, Told

LEMMA WebExchangeTold ==
  ASSUME NEW m \in {Web!useAcceptExchange, Web!useDeclineExchange, Web!useApproveCounter,
                    Web!useCancelExchange, Web!useAcceptConditions, Web!useConfirmSwap,
                    Web!useRequestReturn, Web!useConfirmReturn, Web!useBlockUser,
                    Web!useUnblockUser}
  PROVE  Told(Web!useExchange, m)
  BY WebNegotiationHooks, WebFulfilmentHooks, WebOtherHooks, WebStarts DEF Says, Told

LEMMA WebRivalDetailTold ==
  ASSUME NEW m \in {Web!useBlockUser, Web!useUnblockUser}
  PROVE  Told(Web!rivalDetail, m)
  BY WebOtherHooks, WebStarts DEF Says, Told

LEMMA WebIncomingRequestsTold ==
  ASSUME NEW m \in {Web!useAcceptExchange, Web!useDeclineExchange, Web!useCounterExchange,
                    Web!useBlockUser, Web!useUnblockUser}
  PROVE  Told(Web!useIncomingRequests, m)
  BY WebNegotiationHooks, WebOtherHooks, WebStarts DEF Says, Told

LEMMA WebIncomingRequestCountTold ==
  ASSUME NEW m \in {Web!useAcceptExchange, Web!useDeclineExchange, Web!useCounterExchange,
                    Web!useBlockUser, Web!useUnblockUser}
  PROVE  Told(Web!useIncomingRequestCount, m)
  BY WebNegotiationHooks, WebOtherHooks, WebStarts DEF Says, Told

LEMMA WebMessagesTold ==
  ASSUME NEW m \in {Web!useSendMessage, Web!useMarkMessagesRead}
  PROVE  Told(Web!useMessages, m)
  BY WebMessageHooks, WebStarts DEF Says, Told

LEMMA WebNotificationsTold ==
  ASSUME NEW m \in {Web!useMarkNotificationRead, Web!useMarkAllNotificationsRead}
  PROVE  Told(Web!useNotifications, m)
  BY WebMessageHooks, WebStarts DEF Says, Told

LEMMA WebNotificationPreferencesTold ==
  ASSUME NEW m \in {Web!usePatchNotificationPreferences}
  PROVE  Told(Web!useNotificationPreferences, m)
  BY WebMessageHooks, WebStarts DEF Says, Told

LEMMA WebProfileTold ==
  ASSUME NEW m \in {Web!useUpdateProfile, Web!useSetLocation, Web!useCompleteOnboarding}
  PROVE  Told(Web!useProfile, m)
  BY WebOtherHooks, WebStarts DEF Says, Told

LEMMA WebExchangeRatingStatusTold ==
  ASSUME NEW m \in {Web!useSubmitRating}
  PROVE  Told(Web!useExchangeRatingStatus, m)
  BY WebOtherHooks, WebStarts DEF Says, Told

LEMMA WebBlocksTold ==
  ASSUME NEW m \in {Web!useBlockUser, Web!useUnblockUser}
  PROVE  Told(Web!useBlocks, m)
  BY WebOtherHooks, WebStarts DEF Says, Told

LEMMA WebToldAttended ==
  ASSUME NEW q, NEW m, Told(q, m) PROVE Attended(Web!CaseOf(Web!Client, q, m))
  <1> DEFINE k == Web!CaseOf(Web!Client, q, m)
  <1>1. /\ k.flags = Web!Covers(m.flags, q) /\ k.optimistic = Web!Covers(m.optimistic, q)
        /\ k.sets = IF Web!Covers(m.sets, q) THEN "whole" ELSE "no"
        /\ k.queues = (m.queued # {}) /\ k.drainFlags = Web!Covers(m.queued, q)
    BY DEF Web!CaseOf, Web!Client
  <1>2. Web!Covers(m.flags, q) \/ Web!Covers(m.optimistic, q) \/ Web!Covers(m.sets, q)
    BY DEF Told, Web!Covers, Web!IsPrefix, IsPrefix
  <1>3. m.queued # {} => Web!Covers(m.queued, q)
    BY DEF Told, Web!Covers, Web!IsPrefix, IsPrefix
  <1> HIDE DEF k
  <1>4. Attended(k)
    BY <1>1, <1>2, <1>3 DEF Attended
  <1> QED BY <1>4 DEF k

\* The pairs the table lists as gaps, and the listings that are fetched again after all.
LEMMA WebGaps ==
  /\ \A q \in Web!Listings, m \in Web!Mutations :
        <<q, m>> \in Web!ListedAgain \/ <<q, m>> \in Web!KnownGaps
  /\ \A m \in {Web!useDeleteBook, Web!useAcceptExchange, Web!useDeclineExchange,
               Web!useCounterExchange, Web!useCancelExchange, Web!useConfirmReturn,
               Web!useUpdateProfile, Web!useSetLocation, Web!useSubmitRating, Web!useBlockUser,
               Web!useUnblockUser} :
        <<Web!useBook, m>> \in Web!KnownGaps
  /\ \A m \in {Web!useUploadBookPhoto, Web!useDeleteBookPhoto, Web!useReorderPhotos,
               Web!useAcceptExchange, Web!useUpdateProfile, Web!useSetLocation} :
        <<Web!useMyShelf, m>> \in Web!KnownGaps
  /\ \A m \in {Web!useUpdateBook, Web!useDeleteBook} :
        <<Web!useWishlist, m>> \in Web!KnownGaps
  /\ \A m \in {Web!useUpdateBook, Web!useDeleteBook, Web!useUploadBookPhoto,
               Web!useDeleteBookPhoto, Web!useReorderPhotos, Web!useAcceptConditions,
               Web!useConfirmSwap, Web!useRequestReturn, Web!useConfirmReturn,
               Web!useSendMessage, Web!useMarkMessagesRead, Web!useUpdateProfile,
               Web!useSubmitRating} :
        <<Web!useExchanges, m>> \in Web!KnownGaps
  /\ \A m \in {Web!useUpdateBook, Web!useDeleteBook, Web!useUploadBookPhoto,
               Web!useDeleteBookPhoto, Web!useReorderPhotos, Web!useCounterExchange,
               Web!useSendMessage, Web!useMarkMessagesRead, Web!useUpdateProfile,
               Web!useSubmitRating} :
        <<Web!useExchange, m>> \in Web!KnownGaps
  /\ \A m \in {Web!useDeleteBook, Web!useAcceptExchange} :
        <<Web!rivalDetail, m>> \in Web!KnownGaps
  /\ \A m \in {Web!useUpdateBook, Web!useDeleteBook, Web!useUploadBookPhoto,
               Web!useDeleteBookPhoto, Web!useReorderPhotos, Web!useConfirmSwap,
               Web!useUpdateProfile, Web!useSubmitRating} :
        <<Web!useIncomingRequests, m>> \in Web!KnownGaps
  /\ \A m \in {Web!useDeleteBook} :
        <<Web!useIncomingRequestCount, m>> \in Web!KnownGaps
  /\ \A m \in {Web!useDeleteBook, Web!useAcceptConditions, Web!useUpdateProfile,
               Web!useBlockUser, Web!useUnblockUser} :
        <<Web!useMessages, m>> \in Web!KnownGaps
  /\ \A m \in {Web!useDeleteBook, Web!useAcceptConditions, Web!useSetLocation, Web!useBlockUser,
               Web!useUnblockUser} :
        <<Web!useMeetupSuggestions, m>> \in Web!KnownGaps
  /\ \A m \in {Web!useConfirmSwap} :
        <<Web!useProfile, m>> \in Web!KnownGaps
  /\ \A m \in {Web!useConfirmSwap, Web!useSubmitRating, Web!useBlockUser, Web!useUnblockUser} :
        <<Web!usePublicProfile, m>> \in Web!KnownGaps
  /\ \A m \in {Web!useDeleteBook, Web!useConfirmReturn, Web!useUpdateProfile} :
        <<Web!useExchangeRatingStatus, m>> \in Web!KnownGaps
  /\ \A m \in {Web!useDeleteBook, Web!useUpdateProfile, Web!useSubmitRating} :
        <<Web!useUserRatings, m>> \in Web!KnownGaps
  <1>1. \A q \in Web!Listings, m \in Web!Mutations :
          <<q, m>> \in Web!ListedAgain \/ <<q, m>> \in Web!KnownGaps
    BY DEF Web!KnownGaps
  <1>2. Web!NestedGaps \union Web!RatedGaps \union Web!DeletedGaps \union Web!BlockGaps
          \subseteq Web!KnownGaps
    BY DEF Web!KnownGaps
  <1>3. \A m \in {Web!useDeleteBook, Web!useAcceptExchange, Web!useDeclineExchange,
                  Web!useCounterExchange, Web!useCancelExchange, Web!useConfirmReturn,
                  Web!useUpdateProfile, Web!useSetLocation, Web!useSubmitRating,
                  Web!useBlockUser, Web!useUnblockUser} :
          <<Web!useBook, m>> \in Web!KnownGaps
    <2>1. \A m \in {Web!useDeleteBook} :
            <<Web!useBook, m>> \in Web!DeletedGaps
      BY DEF Web!DeletedGaps
    <2>2. \A m \in {Web!useAcceptExchange, Web!useDeclineExchange, Web!useCounterExchange,
                    Web!useCancelExchange, Web!useConfirmReturn} :
            <<Web!useBook, m>> \in Web!KnownGaps
      BY DEF Web!KnownGaps, Web!PhotoHooks
    <2>3. \A m \in {Web!useUpdateProfile, Web!useSetLocation} :
            <<Web!useBook, m>> \in Web!NestedGaps
      BY DEF Web!NestedGaps, Web!Rows, Web!PhotoHooks
    <2>4. \A m \in {Web!useSubmitRating} :
            <<Web!useBook, m>> \in Web!RatedGaps
      BY DEF Web!RatedGaps, Web!Rows
    <2>5. \A m \in {Web!useBlockUser, Web!useUnblockUser} :
            <<Web!useBook, m>> \in Web!BlockGaps
      BY DEF Web!BlockGaps
    <2> QED BY <1>2, <2>1, <2>2, <2>3, <2>4, <2>5
  <1>4. \A m \in {Web!useUploadBookPhoto, Web!useDeleteBookPhoto, Web!useReorderPhotos,
                  Web!useAcceptExchange, Web!useUpdateProfile, Web!useSetLocation} :
          <<Web!useMyShelf, m>> \in Web!KnownGaps
    <2>1. \A m \in {Web!useUploadBookPhoto, Web!useDeleteBookPhoto, Web!useReorderPhotos,
                    Web!useAcceptExchange} :
            <<Web!useMyShelf, m>> \in Web!KnownGaps
      BY DEF Web!KnownGaps, Web!PhotoHooks
    <2>2. \A m \in {Web!useUpdateProfile, Web!useSetLocation} :
            <<Web!useMyShelf, m>> \in Web!NestedGaps
      BY DEF Web!NestedGaps, Web!Rows, Web!PhotoHooks
    <2> QED BY <1>2, <2>1, <2>2
  <1>5. \A m \in {Web!useUpdateBook, Web!useDeleteBook} :
          <<Web!useWishlist, m>> \in Web!KnownGaps
    <2>1. \A m \in {Web!useUpdateBook} :
            <<Web!useWishlist, m>> \in Web!KnownGaps
      BY DEF Web!KnownGaps, Web!PhotoHooks
    <2>2. \A m \in {Web!useDeleteBook} :
            <<Web!useWishlist, m>> \in Web!DeletedGaps
      BY DEF Web!DeletedGaps
    <2> QED BY <1>2, <2>1, <2>2
  <1>6. \A m \in {Web!useUpdateBook, Web!useDeleteBook, Web!useUploadBookPhoto,
                  Web!useDeleteBookPhoto, Web!useReorderPhotos, Web!useAcceptConditions,
                  Web!useConfirmSwap, Web!useRequestReturn, Web!useConfirmReturn,
                  Web!useSendMessage, Web!useMarkMessagesRead, Web!useUpdateProfile,
                  Web!useSubmitRating} :
          <<Web!useExchanges, m>> \in Web!KnownGaps
    <2>1. \A m \in {Web!useUpdateBook, Web!useUploadBookPhoto, Web!useDeleteBookPhoto,
                    Web!useReorderPhotos, Web!useSendMessage, Web!useMarkMessagesRead,
                    Web!useUpdateProfile} :
            <<Web!useExchanges, m>> \in Web!NestedGaps
      BY DEF Web!NestedGaps, Web!Rows, Web!PhotoHooks
    <2>2. \A m \in {Web!useDeleteBook} :
            <<Web!useExchanges, m>> \in Web!DeletedGaps
      BY DEF Web!DeletedGaps
    <2>3. \A m \in {Web!useAcceptConditions, Web!useConfirmSwap, Web!useRequestReturn,
                    Web!useConfirmReturn} :
            <<Web!useExchanges, m>> \in Web!KnownGaps
      BY DEF Web!KnownGaps, Web!PhotoHooks
    <2>4. \A m \in {Web!useSubmitRating} :
            <<Web!useExchanges, m>> \in Web!RatedGaps
      BY DEF Web!RatedGaps, Web!Rows
    <2> QED BY <1>2, <2>1, <2>2, <2>3, <2>4
  <1>7. \A m \in {Web!useUpdateBook, Web!useDeleteBook, Web!useUploadBookPhoto,
                  Web!useDeleteBookPhoto, Web!useReorderPhotos, Web!useCounterExchange,
                  Web!useSendMessage, Web!useMarkMessagesRead, Web!useUpdateProfile,
                  Web!useSubmitRating} :
          <<Web!useExchange, m>> \in Web!KnownGaps
    <2>1. \A m \in {Web!useUpdateBook, Web!useUploadBookPhoto, Web!useDeleteBookPhoto,
                    Web!useReorderPhotos, Web!useSendMessage, Web!useMarkMessagesRead,
                    Web!useUpdateProfile} :
            <<Web!useExchange, m>> \in Web!NestedGaps
      BY DEF Web!NestedGaps, Web!Rows, Web!PhotoHooks
    <2>2. \A m \in {Web!useDeleteBook} :
            <<Web!useExchange, m>> \in Web!DeletedGaps
      BY DEF Web!DeletedGaps
    <2>3. \A m \in {Web!useCounterExchange} :
            <<Web!useExchange, m>> \in Web!KnownGaps
      BY DEF Web!KnownGaps, Web!PhotoHooks
    <2>4. \A m \in {Web!useSubmitRating} :
            <<Web!useExchange, m>> \in Web!RatedGaps
      BY DEF Web!RatedGaps, Web!Rows
    <2> QED BY <1>2, <2>1, <2>2, <2>3, <2>4
  <1>8. \A m \in {Web!useDeleteBook, Web!useAcceptExchange} :
          <<Web!rivalDetail, m>> \in Web!KnownGaps
    <2>1. \A m \in {Web!useDeleteBook} :
            <<Web!rivalDetail, m>> \in Web!DeletedGaps
      BY DEF Web!DeletedGaps
    <2>2. \A m \in {Web!useAcceptExchange} :
            <<Web!rivalDetail, m>> \in Web!KnownGaps
      BY DEF Web!KnownGaps, Web!PhotoHooks
    <2> QED BY <1>2, <2>1, <2>2
  <1>9. \A m \in {Web!useUpdateBook, Web!useDeleteBook, Web!useUploadBookPhoto,
                  Web!useDeleteBookPhoto, Web!useReorderPhotos, Web!useConfirmSwap,
                  Web!useUpdateProfile, Web!useSubmitRating} :
          <<Web!useIncomingRequests, m>> \in Web!KnownGaps
    <2>1. \A m \in {Web!useUpdateBook, Web!useUploadBookPhoto, Web!useDeleteBookPhoto,
                    Web!useReorderPhotos, Web!useConfirmSwap, Web!useUpdateProfile} :
            <<Web!useIncomingRequests, m>> \in Web!NestedGaps
      BY DEF Web!NestedGaps, Web!Rows, Web!PhotoHooks
    <2>2. \A m \in {Web!useDeleteBook} :
            <<Web!useIncomingRequests, m>> \in Web!DeletedGaps
      BY DEF Web!DeletedGaps
    <2>3. \A m \in {Web!useSubmitRating} :
            <<Web!useIncomingRequests, m>> \in Web!RatedGaps
      BY DEF Web!RatedGaps, Web!Rows
    <2> QED BY <1>2, <2>1, <2>2, <2>3
  <1>10. \A m \in {Web!useDeleteBook} :
          <<Web!useIncomingRequestCount, m>> \in Web!KnownGaps
    <2>1. \A m \in {Web!useDeleteBook} :
            <<Web!useIncomingRequestCount, m>> \in Web!DeletedGaps
      BY DEF Web!DeletedGaps
    <2> QED BY <1>2, <2>1
  <1>11. \A m \in {Web!useDeleteBook, Web!useAcceptConditions, Web!useUpdateProfile,
                   Web!useBlockUser, Web!useUnblockUser} :
          <<Web!useMessages, m>> \in Web!KnownGaps
    <2>1. \A m \in {Web!useDeleteBook} :
            <<Web!useMessages, m>> \in Web!DeletedGaps
      BY DEF Web!DeletedGaps
    <2>2. \A m \in {Web!useAcceptConditions} :
            <<Web!useMessages, m>> \in Web!KnownGaps
      BY DEF Web!KnownGaps, Web!PhotoHooks
    <2>3. \A m \in {Web!useUpdateProfile} :
            <<Web!useMessages, m>> \in Web!NestedGaps
      BY DEF Web!NestedGaps, Web!Rows, Web!PhotoHooks
    <2>4. \A m \in {Web!useBlockUser, Web!useUnblockUser} :
            <<Web!useMessages, m>> \in Web!BlockGaps
      BY DEF Web!BlockGaps
    <2> QED BY <1>2, <2>1, <2>2, <2>3, <2>4
  <1>12. \A m \in {Web!useDeleteBook, Web!useAcceptConditions, Web!useSetLocation,
                   Web!useBlockUser, Web!useUnblockUser} :
          <<Web!useMeetupSuggestions, m>> \in Web!KnownGaps
    <2>1. \A m \in {Web!useDeleteBook} :
            <<Web!useMeetupSuggestions, m>> \in Web!DeletedGaps
      BY DEF Web!DeletedGaps
    <2>2. \A m \in {Web!useAcceptConditions} :
            <<Web!useMeetupSuggestions, m>> \in Web!KnownGaps
      BY DEF Web!KnownGaps, Web!PhotoHooks
    <2>3. \A m \in {Web!useSetLocation} :
            <<Web!useMeetupSuggestions, m>> \in Web!NestedGaps
      BY DEF Web!NestedGaps, Web!Rows, Web!PhotoHooks
    <2>4. \A m \in {Web!useBlockUser, Web!useUnblockUser} :
            <<Web!useMeetupSuggestions, m>> \in Web!BlockGaps
      BY DEF Web!BlockGaps
    <2> QED BY <1>2, <2>1, <2>2, <2>3, <2>4
  <1>13. \A m \in {Web!useConfirmSwap} :
          <<Web!useProfile, m>> \in Web!KnownGaps
    <2>1. \A m \in {Web!useConfirmSwap} :
            <<Web!useProfile, m>> \in Web!NestedGaps
      BY DEF Web!NestedGaps, Web!Rows, Web!PhotoHooks
    <2> QED BY <1>2, <2>1
  <1>14. \A m \in {Web!useConfirmSwap, Web!useSubmitRating, Web!useBlockUser,
                   Web!useUnblockUser} :
          <<Web!usePublicProfile, m>> \in Web!KnownGaps
    <2>1. \A m \in {Web!useConfirmSwap} :
            <<Web!usePublicProfile, m>> \in Web!NestedGaps
      BY DEF Web!NestedGaps, Web!Rows, Web!PhotoHooks
    <2>2. \A m \in {Web!useSubmitRating} :
            <<Web!usePublicProfile, m>> \in Web!RatedGaps
      BY DEF Web!RatedGaps, Web!Rows
    <2>3. \A m \in {Web!useBlockUser, Web!useUnblockUser} :
            <<Web!usePublicProfile, m>> \in Web!BlockGaps
      BY DEF Web!BlockGaps
    <2> QED BY <1>2, <2>1, <2>2, <2>3
  <1>15. \A m \in {Web!useDeleteBook, Web!useConfirmReturn, Web!useUpdateProfile} :
          <<Web!useExchangeRatingStatus, m>> \in Web!KnownGaps
    <2>1. \A m \in {Web!useDeleteBook} :
            <<Web!useExchangeRatingStatus, m>> \in Web!DeletedGaps
      BY DEF Web!DeletedGaps
    <2>2. \A m \in {Web!useConfirmReturn} :
            <<Web!useExchangeRatingStatus, m>> \in Web!KnownGaps
      BY DEF Web!KnownGaps, Web!PhotoHooks
    <2>3. \A m \in {Web!useUpdateProfile} :
            <<Web!useExchangeRatingStatus, m>> \in Web!NestedGaps
      BY DEF Web!NestedGaps, Web!Rows, Web!PhotoHooks
    <2> QED BY <1>2, <2>1, <2>2, <2>3
  <1>16. \A m \in {Web!useDeleteBook, Web!useUpdateProfile, Web!useSubmitRating} :
          <<Web!useUserRatings, m>> \in Web!KnownGaps
    <2>1. \A m \in {Web!useDeleteBook} :
            <<Web!useUserRatings, m>> \in Web!DeletedGaps
      BY DEF Web!DeletedGaps
    <2>2. \A m \in {Web!useUpdateProfile} :
            <<Web!useUserRatings, m>> \in Web!NestedGaps
      BY DEF Web!NestedGaps, Web!Rows, Web!PhotoHooks
    <2>3. \A m \in {Web!useSubmitRating} :
            <<Web!useUserRatings, m>> \in Web!KnownGaps
      BY DEF Web!KnownGaps, Web!PhotoHooks
    <2> QED BY <1>2, <2>1, <2>2, <2>3
  <1> QED BY <1>1, <1>2, <1>3, <1>4, <1>5, <1>6, <1>7, <1>8, <1>9, <1>10, <1>11, <1>12, <1>13,
            <1>14, <1>15, <1>16

LEMMA WebAgain ==
  ASSUME NEW q, NEW m, <<q, m>> \in Web!ListedAgain PROVE Told(q, m)
  BY WebBooksTold DEF Web!ListedAgain

\* What a query is computed from, and which hooks write that.
LEMMA WebReaders ==
  /\ \A q \in Web!Queries :
        q \in Web!Listings \union {Web!useBook, Web!useMyShelf, Web!useWishlist,
                                   Web!useExchanges, Web!useExchange, Web!rivalDetail,
                                   Web!useIncomingRequests, Web!useIncomingRequestCount,
                                   Web!useMessages, Web!useMeetupSuggestions,
                                   Web!useNotifications, Web!useNotificationPreferences,
                                   Web!useProfile, Web!usePublicProfile,
                                   Web!useExchangeRatingStatus, Web!useUserRatings,
                                   Web!useBlocks}
  /\ Web!useBook.reads = {"book", "average", "picture", "place"}
  /\ Web!useMyShelf.reads = {"shelf", "picture", "place"}
  /\ Web!useWishlist.reads = {"wishlist"}
  /\ Web!useExchanges.reads =
        {"cover", "exchange", "request", "preview", "average", "swaps", "picture"}
  /\ Web!useExchange.reads = {"cover", "exchange", "preview", "average", "swaps", "picture"}
  /\ Web!rivalDetail.reads = {"rival"}
  /\ Web!useIncomingRequests.reads = {"cover", "incoming", "average", "swaps", "picture"}
  /\ Web!useIncomingRequestCount.reads = {"incoming"}
  /\ Web!useMessages.reads = {"messages", "chat", "picture"}
  /\ Web!useMeetupSuggestions.reads = {"chat", "place"}
  /\ Web!useNotifications.reads = {"notices"}
  /\ Web!useNotificationPreferences.reads = {"preferences"}
  /\ Web!useProfile.reads = {"swaps", "me"}
  /\ Web!usePublicProfile.reads = {"average", "swaps", "profile"}
  /\ Web!useExchangeRatingStatus.reads = {"ratings", "ratable", "picture"}
  /\ Web!useUserRatings.reads = {"ratings", "picture"}
  /\ Web!useBlocks.reads = {"blocks"}
  <1>1. \A q \in Web!Queries :
          q \in Web!Listings \union {Web!useBook, Web!useMyShelf, Web!useWishlist,
                                     Web!useExchanges, Web!useExchange, Web!rivalDetail,
                                     Web!useIncomingRequests, Web!useIncomingRequestCount,
                                     Web!useMessages, Web!useMeetupSuggestions,
                                     Web!useNotifications, Web!useNotificationPreferences,
                                     Web!useProfile, Web!usePublicProfile,
                                     Web!useExchangeRatingStatus, Web!useUserRatings,
                                     Web!useBlocks}
    BY DEF Web!Queries, Web!Listings
  <1>2. Web!useBook.reads = {"book", "average", "picture", "place"}
    BY DEF Web!Query, Web!useBook
  <1>3. Web!useMyShelf.reads = {"shelf", "picture", "place"}
    BY DEF Web!Query, Web!useMyShelf
  <1>4. Web!useWishlist.reads = {"wishlist"}
    BY DEF Web!Query, Web!useWishlist
  <1>5. Web!useExchanges.reads =
        {"cover", "exchange", "request", "preview", "average", "swaps", "picture"}
    BY DEF Web!Query, Web!useExchanges, Web!nested
  <1>6. Web!useExchange.reads = {"cover", "exchange", "preview", "average", "swaps", "picture"}
    BY DEF Web!Query, Web!useExchange, Web!nested
  <1>7. Web!rivalDetail.reads = {"rival"}
    BY DEF Web!Query, Web!rivalDetail
  <1>8. Web!useIncomingRequests.reads = {"cover", "incoming", "average", "swaps", "picture"}
    BY DEF Web!Query, Web!useIncomingRequests, Web!nested
  <1>9. Web!useIncomingRequestCount.reads = {"incoming"}
    BY DEF Web!Query, Web!useIncomingRequestCount
  <1>10. Web!useMessages.reads = {"messages", "chat", "picture"}
    BY DEF Web!Query, Web!useMessages
  <1>11. Web!useMeetupSuggestions.reads = {"chat", "place"}
    BY DEF Web!Query, Web!useMeetupSuggestions
  <1>12. Web!useNotifications.reads = {"notices"}
    BY DEF Web!Query, Web!useNotifications
  <1>13. Web!useNotificationPreferences.reads = {"preferences"}
    BY DEF Web!Query, Web!useNotificationPreferences
  <1>14. Web!useProfile.reads = {"swaps", "me"}
    BY DEF Web!Query, Web!useProfile
  <1>15. Web!usePublicProfile.reads = {"average", "swaps", "profile"}
    BY DEF Web!Query, Web!usePublicProfile
  <1>16. Web!useExchangeRatingStatus.reads = {"ratings", "ratable", "picture"}
    BY DEF Web!Query, Web!useExchangeRatingStatus
  <1>17. Web!useUserRatings.reads = {"ratings", "picture"}
    BY DEF Web!Query, Web!useUserRatings
  <1>18. Web!useBlocks.reads = {"blocks"}
    BY DEF Web!Query, Web!useBlocks
  <1> QED BY <1>1, <1>2, <1>3, <1>4, <1>5, <1>6, <1>7, <1>8, <1>9, <1>10, <1>11, <1>12, <1>13,
            <1>14, <1>15, <1>16, <1>17, <1>18

LEMMA WebWriters ==
  ASSUME NEW m \in Web!Mutations
  PROVE
    /\ "average" \in m.writes => m \in {Web!useSubmitRating}
    /\ "place" \in m.writes => m \in {Web!useSetLocation}
    /\ "book" \in m.writes => m \in {Web!useUpdateBook, Web!useDeleteBook,
                Web!useUploadBookPhoto, Web!useDeleteBookPhoto, Web!useReorderPhotos,
                Web!useAcceptExchange, Web!useDeclineExchange, Web!useCounterExchange,
                Web!useCancelExchange, Web!useConfirmReturn, Web!useBlockUser,
                Web!useUnblockUser}
    /\ "picture" \in m.writes => m \in {Web!useUpdateProfile}
    /\ "shelf" \in m.writes => m \in {Web!useCreateBook, Web!useUpdateBook, Web!useDeleteBook,
                Web!useUploadBookPhoto, Web!useDeleteBookPhoto, Web!useReorderPhotos,
                Web!useAcceptExchange, Web!useConfirmReturn}
    /\ "wishlist" \in m.writes => m \in {Web!useUpdateBook, Web!useDeleteBook,
                Web!useAddWishlistItem, Web!useRemoveWishlistItem}
    /\ "exchange" \in m.writes => m \in {Web!useDeleteBook, Web!useAcceptExchange,
                Web!useDeclineExchange, Web!useCounterExchange, Web!useApproveCounter,
                Web!useCancelExchange, Web!useAcceptConditions, Web!useConfirmSwap,
                Web!useRequestReturn, Web!useConfirmReturn, Web!useBlockUser,
                Web!useUnblockUser}
    /\ "swaps" \in m.writes => m \in {Web!useConfirmSwap}
    /\ "cover" \in m.writes => m \in {Web!useUpdateBook, Web!useUploadBookPhoto,
                Web!useDeleteBookPhoto, Web!useReorderPhotos}
    /\ "request" \in m.writes => m \in {Web!useCreateExchange}
    /\ "preview" \in m.writes => m \in {Web!useDeleteBook, Web!useSendMessage,
                Web!useMarkMessagesRead}
    /\ "rival" \in m.writes => m \in {Web!useDeleteBook, Web!useAcceptExchange,
                Web!useBlockUser, Web!useUnblockUser}
    /\ "incoming" \in m.writes => m \in {Web!useDeleteBook, Web!useAcceptExchange,
                Web!useDeclineExchange, Web!useCounterExchange, Web!useBlockUser,
                Web!useUnblockUser}
    /\ "chat" \in m.writes => m \in {Web!useDeleteBook, Web!useAcceptConditions,
                Web!useBlockUser, Web!useUnblockUser}
    /\ "messages" \in m.writes => m \in {Web!useDeleteBook, Web!useSendMessage,
                Web!useMarkMessagesRead}
    /\ "notices" \in m.writes => m \in {Web!useMarkNotificationRead,
                Web!useMarkAllNotificationsRead}
    /\ "preferences" \in m.writes => m \in {Web!usePatchNotificationPreferences}
    /\ "me" \in m.writes => m \in {Web!useUpdateProfile, Web!useSetLocation,
                Web!useCompleteOnboarding}
    /\ "profile" \in m.writes => m \in {Web!useBlockUser, Web!useUnblockUser}
    /\ "ratings" \in m.writes => m \in {Web!useDeleteBook, Web!useSubmitRating}
    /\ "ratable" \in m.writes => m \in {Web!useConfirmReturn}
    /\ "blocks" \in m.writes => m \in {Web!useBlockUser, Web!useUnblockUser}
  <1>1. m \in Web!Mutations
    OBVIOUS
  <1>2. "average" \in m.writes => m \in {Web!useSubmitRating}
    BY <1>1, WebBookHooks, WebWishlistHooks, WebNegotiationHooks, WebFulfilmentHooks,
       WebMessageHooks, WebOtherHooks DEF Web!Mutations, Says
  <1>3. "place" \in m.writes => m \in {Web!useSetLocation}
    BY <1>1, WebBookHooks, WebWishlistHooks, WebNegotiationHooks, WebFulfilmentHooks,
       WebMessageHooks, WebOtherHooks DEF Web!Mutations, Says
  <1>4. "book" \in m.writes => m \in {Web!useUpdateBook, Web!useDeleteBook,
                Web!useUploadBookPhoto, Web!useDeleteBookPhoto, Web!useReorderPhotos,
                Web!useAcceptExchange, Web!useDeclineExchange, Web!useCounterExchange,
                Web!useCancelExchange, Web!useConfirmReturn, Web!useBlockUser,
                Web!useUnblockUser}
    BY <1>1, WebBookHooks, WebWishlistHooks, WebNegotiationHooks, WebFulfilmentHooks,
       WebMessageHooks, WebOtherHooks DEF Web!Mutations, Says
  <1>5. "picture" \in m.writes => m \in {Web!useUpdateProfile}
    BY <1>1, WebBookHooks, WebWishlistHooks, WebNegotiationHooks, WebFulfilmentHooks,
       WebMessageHooks, WebOtherHooks DEF Web!Mutations, Says
  <1>6. "shelf" \in m.writes => m \in {Web!useCreateBook, Web!useUpdateBook, Web!useDeleteBook,
                Web!useUploadBookPhoto, Web!useDeleteBookPhoto, Web!useReorderPhotos,
                Web!useAcceptExchange, Web!useConfirmReturn}
    BY <1>1, WebBookHooks, WebWishlistHooks, WebNegotiationHooks, WebFulfilmentHooks,
       WebMessageHooks, WebOtherHooks DEF Web!Mutations, Says
  <1>7. "wishlist" \in m.writes => m \in {Web!useUpdateBook, Web!useDeleteBook,
                Web!useAddWishlistItem, Web!useRemoveWishlistItem}
    BY <1>1, WebBookHooks, WebWishlistHooks, WebNegotiationHooks, WebFulfilmentHooks,
       WebMessageHooks, WebOtherHooks DEF Web!Mutations, Says
  <1>8. "exchange" \in m.writes => m \in {Web!useDeleteBook, Web!useAcceptExchange,
                Web!useDeclineExchange, Web!useCounterExchange, Web!useApproveCounter,
                Web!useCancelExchange, Web!useAcceptConditions, Web!useConfirmSwap,
                Web!useRequestReturn, Web!useConfirmReturn, Web!useBlockUser,
                Web!useUnblockUser}
    BY <1>1, WebBookHooks, WebWishlistHooks, WebNegotiationHooks, WebFulfilmentHooks,
       WebMessageHooks, WebOtherHooks DEF Web!Mutations, Says
  <1>9. "swaps" \in m.writes => m \in {Web!useConfirmSwap}
    BY <1>1, WebBookHooks, WebWishlistHooks, WebNegotiationHooks, WebFulfilmentHooks,
       WebMessageHooks, WebOtherHooks DEF Web!Mutations, Says
  <1>10. "cover" \in m.writes => m \in {Web!useUpdateBook, Web!useUploadBookPhoto,
                Web!useDeleteBookPhoto, Web!useReorderPhotos}
    BY <1>1, WebBookHooks, WebWishlistHooks, WebNegotiationHooks, WebFulfilmentHooks,
       WebMessageHooks, WebOtherHooks DEF Web!Mutations, Says
  <1>11. "request" \in m.writes => m \in {Web!useCreateExchange}
    BY <1>1, WebBookHooks, WebWishlistHooks, WebNegotiationHooks, WebFulfilmentHooks,
       WebMessageHooks, WebOtherHooks DEF Web!Mutations, Says
  <1>12. "preview" \in m.writes => m \in {Web!useDeleteBook, Web!useSendMessage,
                Web!useMarkMessagesRead}
    BY <1>1, WebBookHooks, WebWishlistHooks, WebNegotiationHooks, WebFulfilmentHooks,
       WebMessageHooks, WebOtherHooks DEF Web!Mutations, Says
  <1>13. "rival" \in m.writes => m \in {Web!useDeleteBook, Web!useAcceptExchange,
                Web!useBlockUser, Web!useUnblockUser}
    BY <1>1, WebBookHooks, WebWishlistHooks, WebNegotiationHooks, WebFulfilmentHooks,
       WebMessageHooks, WebOtherHooks DEF Web!Mutations, Says
  <1>14. "incoming" \in m.writes => m \in {Web!useDeleteBook, Web!useAcceptExchange,
                Web!useDeclineExchange, Web!useCounterExchange, Web!useBlockUser,
                Web!useUnblockUser}
    BY <1>1, WebBookHooks, WebWishlistHooks, WebNegotiationHooks, WebFulfilmentHooks,
       WebMessageHooks, WebOtherHooks DEF Web!Mutations, Says
  <1>15. "chat" \in m.writes => m \in {Web!useDeleteBook, Web!useAcceptConditions,
                Web!useBlockUser, Web!useUnblockUser}
    BY <1>1, WebBookHooks, WebWishlistHooks, WebNegotiationHooks, WebFulfilmentHooks,
       WebMessageHooks, WebOtherHooks DEF Web!Mutations, Says
  <1>16. "messages" \in m.writes => m \in {Web!useDeleteBook, Web!useSendMessage,
                Web!useMarkMessagesRead}
    BY <1>1, WebBookHooks, WebWishlistHooks, WebNegotiationHooks, WebFulfilmentHooks,
       WebMessageHooks, WebOtherHooks DEF Web!Mutations, Says
  <1>17. "notices" \in m.writes => m \in {Web!useMarkNotificationRead,
                Web!useMarkAllNotificationsRead}
    BY <1>1, WebBookHooks, WebWishlistHooks, WebNegotiationHooks, WebFulfilmentHooks,
       WebMessageHooks, WebOtherHooks DEF Web!Mutations, Says
  <1>18. "preferences" \in m.writes => m \in {Web!usePatchNotificationPreferences}
    BY <1>1, WebBookHooks, WebWishlistHooks, WebNegotiationHooks, WebFulfilmentHooks,
       WebMessageHooks, WebOtherHooks DEF Web!Mutations, Says
  <1>19. "me" \in m.writes => m \in {Web!useUpdateProfile, Web!useSetLocation,
                Web!useCompleteOnboarding}
    BY <1>1, WebBookHooks, WebWishlistHooks, WebNegotiationHooks, WebFulfilmentHooks,
       WebMessageHooks, WebOtherHooks DEF Web!Mutations, Says
  <1>20. "profile" \in m.writes => m \in {Web!useBlockUser, Web!useUnblockUser}
    BY <1>1, WebBookHooks, WebWishlistHooks, WebNegotiationHooks, WebFulfilmentHooks,
       WebMessageHooks, WebOtherHooks DEF Web!Mutations, Says
  <1>21. "ratings" \in m.writes => m \in {Web!useDeleteBook, Web!useSubmitRating}
    BY <1>1, WebBookHooks, WebWishlistHooks, WebNegotiationHooks, WebFulfilmentHooks,
       WebMessageHooks, WebOtherHooks DEF Web!Mutations, Says
  <1>22. "ratable" \in m.writes => m \in {Web!useConfirmReturn}
    BY <1>1, WebBookHooks, WebWishlistHooks, WebNegotiationHooks, WebFulfilmentHooks,
       WebMessageHooks, WebOtherHooks DEF Web!Mutations, Says
  <1>23. "blocks" \in m.writes => m \in {Web!useBlockUser, Web!useUnblockUser}
    BY <1>1, WebBookHooks, WebWishlistHooks, WebNegotiationHooks, WebFulfilmentHooks,
       WebMessageHooks, WebOtherHooks DEF Web!Mutations, Says
  <1> QED BY <1>2, <1>3, <1>4, <1>5, <1>6, <1>7, <1>8, <1>9, <1>10, <1>11, <1>12, <1>13,
            <1>14, <1>15, <1>16, <1>17, <1>18, <1>19, <1>20, <1>21, <1>22, <1>23

\* So a query whose answer a hook changes is told, but for the gaps.
LEMMA WebMinded ==
  ASSUME NEW q \in Web!Queries, NEW m \in Web!Mutations, NEW p \in q.reads \intersect m.writes
  PROVE  <<q, m>> \in Web!KnownGaps \/ Told(q, m)
  <1>1. CASE q \in Web!Listings
    BY <1>1, WebGaps, WebAgain
  <1>2. CASE q = Web!useBook
    <2>1. m \in {Web!useUpdateBook, Web!useDeleteBook, Web!useUploadBookPhoto,
                 Web!useDeleteBookPhoto, Web!useReorderPhotos, Web!useAcceptExchange,
                 Web!useDeclineExchange, Web!useCounterExchange, Web!useCancelExchange,
                 Web!useConfirmReturn, Web!useUpdateProfile, Web!useSetLocation,
                 Web!useSubmitRating, Web!useBlockUser, Web!useUnblockUser}
      BY <1>2, WebReaders, WebWriters
    <2> QED BY <2>1, <1>2, WebBookTold, WebGaps
  <1>3. CASE q = Web!useMyShelf
    <2>1. m \in {Web!useCreateBook, Web!useUpdateBook, Web!useDeleteBook,
                 Web!useUploadBookPhoto, Web!useDeleteBookPhoto, Web!useReorderPhotos,
                 Web!useAcceptExchange, Web!useConfirmReturn, Web!useUpdateProfile,
                 Web!useSetLocation}
      BY <1>3, WebReaders, WebWriters
    <2> QED BY <2>1, <1>3, WebMyShelfTold, WebGaps
  <1>4. CASE q = Web!useWishlist
    <2>1. m \in {Web!useUpdateBook, Web!useDeleteBook, Web!useAddWishlistItem,
                 Web!useRemoveWishlistItem}
      BY <1>4, WebReaders, WebWriters
    <2> QED BY <2>1, <1>4, WebWishlistTold, WebGaps
  <1>5. CASE q = Web!useExchanges
    <2>1. m \in {Web!useUpdateBook, Web!useDeleteBook, Web!useUploadBookPhoto,
                 Web!useDeleteBookPhoto, Web!useReorderPhotos, Web!useCreateExchange,
                 Web!useAcceptExchange, Web!useDeclineExchange, Web!useCounterExchange,
                 Web!useApproveCounter, Web!useCancelExchange, Web!useAcceptConditions,
                 Web!useConfirmSwap, Web!useRequestReturn, Web!useConfirmReturn,
                 Web!useSendMessage, Web!useMarkMessagesRead, Web!useUpdateProfile,
                 Web!useSubmitRating, Web!useBlockUser, Web!useUnblockUser}
      BY <1>5, WebReaders, WebWriters
    <2> QED BY <2>1, <1>5, WebExchangesTold, WebGaps
  <1>6. CASE q = Web!useExchange
    <2>1. m \in {Web!useUpdateBook, Web!useDeleteBook, Web!useUploadBookPhoto,
                 Web!useDeleteBookPhoto, Web!useReorderPhotos, Web!useAcceptExchange,
                 Web!useDeclineExchange, Web!useCounterExchange, Web!useApproveCounter,
                 Web!useCancelExchange, Web!useAcceptConditions, Web!useConfirmSwap,
                 Web!useRequestReturn, Web!useConfirmReturn, Web!useSendMessage,
                 Web!useMarkMessagesRead, Web!useUpdateProfile, Web!useSubmitRating,
                 Web!useBlockUser, Web!useUnblockUser}
      BY <1>6, WebReaders, WebWriters
    <2> QED BY <2>1, <1>6, WebExchangeTold, WebGaps
  <1>7. CASE q = Web!rivalDetail
    <2>1. m \in {Web!useDeleteBook, Web!useAcceptExchange, Web!useBlockUser, Web!useUnblockUser}
      BY <1>7, WebReaders, WebWriters
    <2> QED BY <2>1, <1>7, WebRivalDetailTold, WebGaps
  <1>8. CASE q = Web!useIncomingRequests
    <2>1. m \in {Web!useUpdateBook, Web!useDeleteBook, Web!useUploadBookPhoto,
                 Web!useDeleteBookPhoto, Web!useReorderPhotos, Web!useAcceptExchange,
                 Web!useDeclineExchange, Web!useCounterExchange, Web!useConfirmSwap,
                 Web!useUpdateProfile, Web!useSubmitRating, Web!useBlockUser,
                 Web!useUnblockUser}
      BY <1>8, WebReaders, WebWriters
    <2> QED BY <2>1, <1>8, WebIncomingRequestsTold, WebGaps
  <1>9. CASE q = Web!useIncomingRequestCount
    <2>1. m \in {Web!useDeleteBook, Web!useAcceptExchange, Web!useDeclineExchange,
                 Web!useCounterExchange, Web!useBlockUser, Web!useUnblockUser}
      BY <1>9, WebReaders, WebWriters
    <2> QED BY <2>1, <1>9, WebIncomingRequestCountTold, WebGaps
  <1>10. CASE q = Web!useMessages
    <2>1. m \in {Web!useDeleteBook, Web!useAcceptConditions, Web!useSendMessage,
                 Web!useMarkMessagesRead, Web!useUpdateProfile, Web!useBlockUser,
                 Web!useUnblockUser}
      BY <1>10, WebReaders, WebWriters
    <2> QED BY <2>1, <1>10, WebMessagesTold, WebGaps
  <1>11. CASE q = Web!useMeetupSuggestions
    <2>1. m \in {Web!useDeleteBook, Web!useAcceptConditions, Web!useSetLocation,
                 Web!useBlockUser, Web!useUnblockUser}
      BY <1>11, WebReaders, WebWriters
    <2> QED BY <2>1, <1>11, WebGaps
  <1>12. CASE q = Web!useNotifications
    <2>1. m \in {Web!useMarkNotificationRead, Web!useMarkAllNotificationsRead}
      BY <1>12, WebReaders, WebWriters
    <2> QED BY <2>1, <1>12, WebNotificationsTold
  <1>13. CASE q = Web!useNotificationPreferences
    <2>1. m \in {Web!usePatchNotificationPreferences}
      BY <1>13, WebReaders, WebWriters
    <2> QED BY <2>1, <1>13, WebNotificationPreferencesTold
  <1>14. CASE q = Web!useProfile
    <2>1. m \in {Web!useConfirmSwap, Web!useUpdateProfile, Web!useSetLocation,
                 Web!useCompleteOnboarding}
      BY <1>14, WebReaders, WebWriters
    <2> QED BY <2>1, <1>14, WebProfileTold, WebGaps
  <1>15. CASE q = Web!usePublicProfile
    <2>1. m \in {Web!useConfirmSwap, Web!useSubmitRating, Web!useBlockUser, Web!useUnblockUser}
      BY <1>15, WebReaders, WebWriters
    <2> QED BY <2>1, <1>15, WebGaps
  <1>16. CASE q = Web!useExchangeRatingStatus
    <2>1. m \in {Web!useDeleteBook, Web!useConfirmReturn, Web!useUpdateProfile,
                 Web!useSubmitRating}
      BY <1>16, WebReaders, WebWriters
    <2> QED BY <2>1, <1>16, WebExchangeRatingStatusTold, WebGaps
  <1>17. CASE q = Web!useUserRatings
    <2>1. m \in {Web!useDeleteBook, Web!useUpdateProfile, Web!useSubmitRating}
      BY <1>17, WebReaders, WebWriters
    <2> QED BY <2>1, <1>17, WebGaps
  <1>18. CASE q = Web!useBlocks
    <2>1. m \in {Web!useBlockUser, Web!useUnblockUser}
      BY <1>18, WebReaders, WebWriters
    <2> QED BY <2>1, <1>18, WebBlocksTold
  <1> QED BY <1>1, <1>2, <1>3, <1>4, <1>5, <1>6, <1>7, <1>8, <1>9, <1>10, <1>11, <1>12, <1>13,
            <1>14, <1>15, <1>16, <1>17, <1>18, WebReaders

LEMMA WebAttended == \A k \in Web!WebCases : Attended(k)
  <1> SUFFICES ASSUME NEW k \in Web!WebCases PROVE Attended(k)
    OBVIOUS
  <1>1. PICK pair \in Web!Watched(Web!Client, Web!Queries, Web!Mutations) :
          k = Web!CaseOf(Web!Client, pair[1], pair[2])
    BY DEF Web!WebCases, Web!CasesOf
  <1>2. /\ pair \in Web!Queries \X Web!Mutations /\ pair \notin Web!KnownGaps
        /\ pair[1].reads \intersect pair[2].writes # {}
    BY DEF Web!Watched, Web!Client
  <1>3. PICK p : p \in pair[1].reads \intersect pair[2].writes
    BY <1>2
  <1>4. pair[1] \in Web!Queries /\ pair[2] \in Web!Mutations /\ pair = <<pair[1], pair[2]>>
    BY <1>2
  <1>5. Told(pair[1], pair[2])
    BY <1>2, <1>3, <1>4, WebMinded
  <1> QED BY <1>1, <1>5, WebToldAttended

-----------------------------------------------------------------------------
(* Both clients *)

\* Every mutation hook of both apps that changes the answer of a query tells it,
\* and has its queue tell it, but for the gaps the tables list. (features/*/hooks)
THEOREM ClientsAttend == \A k \in Mobile!MobileCases \union Web!WebCases : Attended(k)
  BY MobileAttended, WebAttended

\* So an own change that was answered is on the screen or marked, in both apps, for any
\* number of accounts and calls, but for the gaps and the races named. (features/*/hooks)
THEOREM ClientsChangesFlagged ==
  Cases \subseteq Mobile!MobileCases \union Web!WebCases => (Spec => []StaleIsFlagged)
  <1>1. Cases \subseteq Mobile!MobileCases \union Web!WebCases => \A k \in Cases : Attended(k)
    BY ClientsAttend
  <1> QED BY <1>1, OwnChangesFlagged

=============================================================================
