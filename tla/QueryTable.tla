------------------------------- MODULE QueryTable -------------------------------
(***************************************************************************)
(* How the tables of the clients' query and mutation hooks are written, and *)
(* how a pair of them becomes a case of QueryCache.                         *)
(***************************************************************************)
EXTENDS SequencesExt

\* A query hook: its key, with one book, exchange and user for all of them, and
\* the parts of the server's data its answer is computed from.
Query(key, reads) == [key |-> key, reads |-> reads]

\* A mutation hook, by its name: what it changes on the server, the keys onSuccess invalidates,
\* and what else it does to the cache.
Mutation(name, writes, flags) ==
    [name |-> name, writes |-> writes, flags |-> flags, sets |-> {}, optimistic |-> {},
     queued |-> {}]

\* It goes through the offline queue, which invalidates the keys kept with it.
Queued(keys, m) == [m EXCEPT !.queued = keys]

\* invalidateQueries takes every key that begins with the one it is given.
Covers(keys, q) == \E k \in keys : IsPrefix(k, q.key)

CaseOf(client, q, m) ==
    [flags      |-> Covers(m.flags, q),
     sets       |-> IF Covers(m.sets, q) THEN client.sets ELSE "no",
     optimistic |-> Covers(m.optimistic, q),
     queues     |-> m.queued # {},
     drainFlags |-> Covers(m.queued, q),
     persisted  |-> client.persists /\ q.key[1] \notin client.secret,
     clears     |-> client.clears]

\* The pairs where the mutation changes the answer of the query, but for the
\* gaps the client's table lists.
Watched(client, queries, mutations) ==
    {p \in (queries \X mutations) \ client.gaps : p[1].reads \cap p[2].writes # {}}

CasesOf(client, queries, mutations) ==
    {CaseOf(client, p[1], p[2]) : p \in Watched(client, queries, mutations)}

=============================================================================
