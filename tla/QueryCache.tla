------------------------------- MODULE QueryCache -------------------------------
(***************************************************************************)
(* What a client's TanStack Query cache shows of the server while the       *)
(* client's mutations change it.  One query is watched with one mutation:   *)
(* a case says what the mutation hook does to that query.  Both clients     *)
(* give their cases in a table (MobileQueries, WebQueries).                 *)
(*                                                                          *)
(* The library is external; the rules of it that the hooks rely on:         *)
(*  - invalidating marks the entry and fetches it again only if mounted;    *)
(*  - a fetch in flight is given up for a new one only if data is held, a   *)
(*    first load is kept;                                                   *)
(*  - the answer of a fetch and setQueryData both take the mark away, and   *)
(*    setQueryData leaves a fetch in flight alone.                          *)
(***************************************************************************)
EXTENDS Naturals, FiniteSets

CONSTANTS
    Users,      \* accounts that log in to this client
    Calls,      \* calls of the mutation, each made at most once
    Cases,      \* the pairs of a query and a mutation to watch
    MaxLogouts, MaxRestarts,    \* bounds: how often the session and the app end
    None

Case == [flags      : BOOLEAN,   \* onSuccess invalidates the query
         sets       : {"no", "append", "whole"},    \* onSuccess calls setQueryData
         optimistic : BOOLEAN,   \* onMutate sets, onError restores, onSettled flags
         queues     : BOOLEAN,   \* queued while the device is offline
         drainFlags : BOOLEAN,   \* the queue's drain invalidates the query
         persisted  : BOOLEAN,   \* the entry is kept on the device
         clears     : BOOLEAN]   \* logout clears the cache

ASSUME CasesAssumption == Cases \subseteq Case
ASSUME BoundsAssumption == MaxLogouts \in Nat /\ MaxRestarts \in Nat
ASSUME NoneAssumption == None \notin Users

VARIABLES
    case,       \* the pair watched in this behaviour
    user,       \* who is logged in
    online,     \* useNetworkStatus
    cache,      \* the watched entry
    fetch,      \* its fetch in flight
    calls,      \* [Calls -> Call]
    ran,        \* the calls the server has executed
    disk,       \* the copy of the entry the persister wrote last
    past        \* history the properties speak of

vars == <<case, user, online, cache, fetch, calls, ran, disk, past>>

\* What an entry holds: whose data, the calls it shows, the invalidated mark.
Entry == [held : BOOLEAN, owner : Users \cup {None}, shows : SUBSET Calls,
          invalid : BOOLEAN, mounted : BOOLEAN, failed : BOOLEAN]
Fetch == [st : {"none", "asked", "read"}, by : Users \cup {None}, shows : SUBSET Calls]
Call  == [st : {"idle", "sent", "ran", "queued", "drained", "done", "lost"},
          by : Users \cup {None}, saw : SUBSET Calls, before : SUBSET Calls]
Past  == [missed : SUBSET Calls, exposed : BOOLEAN,
          logouts : 0..MaxLogouts, restarts : 0..MaxRestarts]

NoEntry == [held |-> FALSE, owner |-> None, shows |-> {}, invalid |-> FALSE,
            mounted |-> FALSE, failed |-> FALSE]
NoFetch == [st |-> "none", by |-> None, shows |-> {}]
NoCall  == [st |-> "idle", by |-> None, saw |-> {}, before |-> {}]

Init ==
    /\ case \in Cases
    /\ user \in Users
    /\ online = TRUE
    /\ cache = NoEntry
    /\ fetch = NoFetch
    /\ calls = [c \in Calls |-> NoCall]
    /\ ran = {}
    /\ disk = NoEntry
    /\ past = [missed |-> {}, exposed |-> FALSE, logouts |-> 0, restarts |-> 0]

-----------------------------------------------------------------------------
(* The library. *)

Asked == [st |-> "asked", by |-> user, shows |-> {}]

\* refetch and invalidateQueries give up a fetch in flight if data is held.
Restarted == IF fetch.st = "none" \/ cache.held THEN Asked ELSE fetch

\* A component with the query mounts: a missing or invalidated entry is fetched,
\* and so is one older than its staleTime, which is a matter of time.
Mount ==
    /\ user # None /\ ~cache.mounted
    /\ cache' = [cache EXCEPT !.mounted = TRUE, !.failed = FALSE]
    /\ \E old \in BOOLEAN :
        fetch' = IF fetch.st = "none" /\ (~cache.held \/ cache.invalid \/ old)
                 THEN Asked ELSE fetch
    /\ UNCHANGED <<case, user, online, calls, ran, disk, past>>

Unmount ==
    /\ cache.mounted
    /\ cache' = [cache EXCEPT !.mounted = FALSE]
    /\ UNCHANGED <<case, user, online, fetch, calls, ran, disk, past>>

\* Pull to refresh, focus, polling.
Refetch ==
    /\ cache.mounted
    /\ fetch' = Restarted
    /\ UNCHANGED <<case, user, online, cache, calls, ran, disk, past>>

ServerReads ==
    /\ fetch.st = "asked"
    /\ fetch' = [fetch EXCEPT !.st = "read", !.shows = ran]
    /\ UNCHANGED <<case, user, online, cache, calls, ran, disk, past>>

FetchSucceeds ==
    /\ fetch.st = "read"
    /\ cache' = [cache EXCEPT !.held = TRUE, !.owner = fetch.by, !.shows = fetch.shows,
                              !.invalid = FALSE, !.failed = FALSE]
    /\ fetch' = NoFetch
    /\ UNCHANGED <<case, user, online, calls, ran, disk, past>>

\* After its retries; newer versions of the library mark the entry as well.
FetchFails ==
    /\ fetch.st # "none"
    /\ fetch' = NoFetch
    /\ \E marked \in {cache.invalid, TRUE} :
        cache' = [cache EXCEPT !.failed = TRUE, !.invalid = marked]
    /\ UNCHANGED <<case, user, online, calls, ran, disk, past>>

\* The calls whose effects the entry keeps hiding although they are answered.
Unmarked(k) == {d \in Calls : calls[d].st = "done" /\ d \notin k.shows}

\* invalidateQueries for the sake of call c.  A fetch the library lets go on
\* although the server has read for it answers without c and takes the mark away.
Keeps == fetch.st # "none" /\ (~cache.mounted \/ ~cache.held)
InvalidatedLazily(c) ==
    /\ cache' = [cache EXCEPT !.invalid = @ \/ cache.held \/ cache.mounted
                                            \/ fetch.st # "none"]
    /\ UNCHANGED <<fetch, past>>
Invalidated(c) ==
    /\ cache' = [cache EXCEPT !.invalid = @ \/ cache.held \/ cache.mounted
                                            \/ fetch.st # "none"]
    /\ fetch' = IF cache.mounted THEN Restarted ELSE fetch
    /\ past' = [past EXCEPT !.missed =
                   IF Keeps /\ fetch.st = "read" THEN @ \cup ({c} \ fetch.shows) ELSE @]

\* setQueryData with the answer of call c: it appends, or replaces the entry by
\* what the server had executed then.  The data of another account's entry and
\* the answer of a fetch in flight are not looked at.
SetWith(c) ==
    LET set == [cache EXCEPT !.held = TRUE, !.invalid = FALSE,
                    !.owner = IF cache.held /\ case.sets = "append"
                              THEN @ ELSE calls[c].by,
                    !.shows = IF case.sets = "append"
                              THEN (IF cache.held THEN @ ELSE {}) \cup {c}
                              ELSE calls[c].saw]
    IN  /\ cache' = set
        /\ fetch' = fetch
        /\ past' = [past EXCEPT
               !.missed = @ \cup Unmarked(set)
                            \cup (IF fetch.st = "read" THEN {c} \ fetch.shows ELSE {}),
               !.exposed = @ \/ calls[c].by # user]

-----------------------------------------------------------------------------
(* The hooks. *)

\* A queued call is a success for its hook, which appends a placeholder that the
\* screen filters out; setQueryData takes the mark away all the same.
Placeholder ==
    LET set == [cache EXCEPT !.held = TRUE, !.invalid = FALSE,
                             !.owner = IF cache.held THEN @ ELSE user]
    IN  /\ cache' = set
        /\ fetch' = fetch
        /\ past' = [past EXCEPT !.missed = @ \cup Unmarked(set)]

\* mutate: the call is sent, or queued for later; onMutate stops the fetch in
\* flight and shows the call before it is executed; the switches that do so appear
\* with the data they show.
CallMade(c) ==
    /\ user # None /\ calls[c].st = "idle"
    /\ case.optimistic => cache.held
    /\ calls' = [calls EXCEPT ![c] =
           [NoCall EXCEPT !.st = IF case.queues /\ ~online THEN "queued" ELSE "sent",
                          !.by = user, !.before = cache.shows]]
    /\ IF case.optimistic
       THEN /\ fetch' = NoFetch
            /\ cache' = [cache EXCEPT !.shows = @ \cup {c}, !.invalid = FALSE]
            /\ past' = [past EXCEPT !.missed = @ \cup Unmarked(cache)]
       ELSE IF case.queues /\ ~online /\ case.sets = "append" THEN Placeholder
       ELSE UNCHANGED <<fetch, cache, past>>
    /\ UNCHANGED <<case, user, online, ran, disk>>

Executed(c) ==
    /\ \/ calls[c].st = "sent" /\ calls' = [calls EXCEPT ![c].st = "ran",
                                                         ![c].saw = ran \cup {c}]
       \/ calls[c].st = "queued" /\ online /\ calls' = [calls EXCEPT ![c].st = "drained"]
    /\ ran' = ran \cup {c}
    /\ UNCHANGED <<case, user, online, cache, fetch, disk, past>>

\* onSuccess, of whoever is logged in by then.  A hook that can queue reads
\* isOffline again here and invalidates nothing when the device is offline now.
Succeeds(c) ==
    /\ calls[c].st = "ran"
    /\ calls' = [calls EXCEPT ![c].st = "done"]
    /\ IF case.sets # "no" THEN SetWith(c)
       ELSE IF ~(case.flags \/ case.optimistic) THEN UNCHANGED <<cache, fetch, past>>
       ELSE IF online THEN Invalidated(c)
       ELSE /\ past' = [past EXCEPT !.missed = @ \cup {c}]
            /\ UNCHANGED <<cache, fetch>>
    /\ UNCHANGED <<case, user, online, ran, disk>>

\* onError: refused, or the answer is lost.  The optimistic entry is put back as
\* it was before this call, and onSettled invalidates it.
Fails(c) ==
    /\ calls[c].st \in {"sent", "ran"}
    /\ calls' = [calls EXCEPT ![c].st = "lost"]
    /\ IF case.optimistic
       THEN /\ cache' = [cache EXCEPT !.shows = IF cache.held THEN calls[c].before ELSE @,
                                      !.invalid = @ \/ cache.held \/ cache.mounted
                                                    \/ fetch.st # "none"]
            /\ fetch' = IF cache.mounted THEN Restarted ELSE fetch
            /\ past' = [past EXCEPT !.missed =
                           IF Keeps THEN @ \cup Unmarked([shows |-> calls[c].before]) ELSE @]
       ELSE UNCHANGED <<cache, fetch, past>>
    /\ UNCHANGED <<case, user, online, ran, disk>>

\* The queue invalidates the keys kept with the call once the drain is over.
DrainEnds(c) ==
    /\ calls[c].st = "drained"
    /\ calls' = [calls EXCEPT ![c].st = "done"]
    /\ IF case.drainFlags THEN Invalidated(c) ELSE UNCHANGED <<cache, fetch, past>>
    /\ UNCHANGED <<case, user, online, ran, disk>>

ConnectionChanges ==
    /\ case.queues
    /\ online' = ~online
    /\ UNCHANGED <<case, user, cache, fetch, calls, ran, disk, past>>

-----------------------------------------------------------------------------
(* Sessions and restarts. *)

LogoutKeepsCache ==
    /\ user # None /\ past.logouts < MaxLogouts
    /\ user' = None
    /\ past' = [past EXCEPT !.logouts = @ + 1]
    /\ cache' = [cache EXCEPT !.mounted = FALSE] /\ fetch' = fetch
    /\ UNCHANGED <<case, online, calls, ran, disk>>

\* The store logs out; the screens unmount with the session.
Logout ==
    /\ user # None /\ past.logouts < MaxLogouts
    /\ user' = None
    /\ past' = [past EXCEPT !.logouts = @ + 1]
    /\ IF case.clears
       THEN cache' = NoEntry /\ fetch' = NoFetch
       ELSE cache' = [cache EXCEPT !.mounted = FALSE] /\ fetch' = fetch
    /\ UNCHANGED <<case, online, calls, ran, disk>>

Login(u) ==
    /\ user = None
    /\ user' = u
    /\ UNCHANGED <<case, online, cache, fetch, calls, ran, disk, past>>

\* The persister's throttled write.
Saved == [cache EXCEPT !.mounted = FALSE, !.failed = FALSE]
Save ==
    /\ case.persisted
    /\ disk' = Saved
    /\ UNCHANGED <<case, user, online, cache, fetch, calls, ran, past>>

\* The app is killed and opened again: the entry is what was written last, the
\* queue is on the device, and the answers to calls in flight reach nobody.
Restart ==
    /\ case.persisted /\ past.restarts < MaxRestarts
    /\ cache' = disk
    /\ fetch' = NoFetch
    /\ calls' = [c \in Calls |->
           CASE calls[c].st \in {"sent", "ran"} -> [calls[c] EXCEPT !.st = "lost"]
             [] calls[c].st = "drained" -> [calls[c] EXCEPT !.st = "queued"]
             [] OTHER -> calls[c]]
    /\ past' = [past EXCEPT
           !.missed = @ \cup (IF disk.invalid THEN {} ELSE Unmarked(disk)),
           !.exposed = @ \/ (disk.held /\ disk.owner # user),
           !.restarts = @ + 1]
    /\ UNCHANGED <<case, user, online, ran, disk>>

Screen == Mount \/ Unmount \/ Refetch
Answer == ServerReads \/ FetchSucceeds \/ FetchFails
Next ==
    \/ Screen \/ Answer
    \/ \E c \in Calls :
           CallMade(c) \/ Executed(c) \/ Succeeds(c) \/ Fails(c) \/ DrainEnds(c)
    \/ ConnectionChanges \/ Logout \/ (\E u \in Users : Login(u)) \/ Save \/ Restart

\* Requests are answered or time out, in the end even those that are given up
\* for a new one again and again.  Nobody has to tap, log in or kill the app.
Fairness == WF_vars(ServerReads) /\ SF_vars(FetchSucceeds \/ FetchFails)

Spec == Init /\ [][Next]_vars /\ Fairness

-----------------------------------------------------------------------------
TypeOK ==
    /\ case \in Cases
    /\ user \in Users \cup {None}
    /\ online \in BOOLEAN
    /\ cache \in Entry
    /\ fetch \in Fetch
    /\ calls \in [Calls -> Call]
    /\ ran \in SUBSET Calls
    /\ disk \in Entry
    /\ past \in Past

\* The own change that was answered with success is on the screen, or the entry
\* is marked to be fetched again.  The exceptions are the races left open: a first
\* load or an unmounted fetch overtaken by the change, data set by an older
\* answer, a connection that drops before the answer, and a mark that was not
\* written before the app was killed.
StaleIsFlagged ==
    \A c \in Calls :
        /\ calls[c].st = "done" /\ calls[c].by = user
        /\ cache.held /\ cache.owner = user
        => c \in cache.shows \/ cache.invalid \/ c \in past.missed

\* What a client that clears its cache at logout holds belongs to the account
\* that is logged in, unless an answer to the account before was put into the
\* cache after the logout or the app was killed before the cleared cache was
\* written.
OwnDataOnly ==
    case.clears /\ ~past.exposed /\ cache.held => cache.owner = user

\* A marked entry on the screen is fetched again, or the screen shows an error.
Outdated == cache.mounted /\ cache.invalid /\ ~cache.failed
ShownIsRefreshed == Outdated ~> ~Outdated

=============================================================================
