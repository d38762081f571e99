----------------------------- MODULE ExchangeBase -----------------------------
(***************************************************************************)
(* The database rows behind an exchange and the processes that work on      *)
(* them.  Every HTTP request and every Celery task runs in a slot; requests *)
(* are not wrapped in a transaction (no ATOMIC_REQUESTS), so each ORM       *)
(* statement commits on its own and one step of a model is one statement,   *)
(* or one transaction where the code opens one.                             *)
(***************************************************************************)
EXTENDS Naturals, FiniteSets, ExchangeStatus

CONSTANTS
    Users,          \* the registered users
    Books,          \* the listed books
    Exchanges,      \* the primary keys a run may hand out (a bound)
    Shelf,          \* [Books -> Users], who lists each book at the start
    Workers,        \* the web workers, each serving one request at a time
    MaxCounters,    \* MAX_COUNTER_OFFERS_PER_PARTICIPANT
    SwapTypes,      \* the swap types a run considers; TRUE is permanent
    Serial,         \* TRUE: one request or task at a time; FALSE: they overlap
    Crashes,        \* TRUE: a process may die between two statements
    None            \* SQL NULL

ASSUME ExchangesAssumption == IsFiniteSet(Exchanges)
ASSUME ShelfAssumption == Shelf \in [Books -> Users]
ASSUME MaxCountersAssumption == MaxCounters \in Nat
ASSUME SwapTypesAssumption == SwapTypes \subseteq BOOLEAN
ASSUME NoneAssumption == None \notin Users \cup Books \cup Exchanges
ASSUME SwitchAssumption == Serial \in BOOLEAN /\ Crashes \in BOOLEAN

\* The tasks of the Celery beat schedule that touch exchanges.  Beat starts
\* each at most once a day, so a task never overlaps itself.
Beat == {"expire_stale_requests", "expire_stale_conditions",
         "auto_confirm_stale_swaps"}

ASSUME WorkersAssumption == Workers \cap Beat = {}

Slots == Workers \cup Beat

VARIABLES
    exchange,       \* [Exchanges -> Row]: the exchange_requests table
    book,           \* the owner and the status columns of each book
    blocks,         \* the set of <<blocker, blocked_user>> rows
    swapCount,      \* User.swap_count
    job             \* what each slot is executing

vars == <<exchange, book, blocks, swapCount, job>>

-----------------------------------------------------------------------------
(* The tables. *)

\* The nullable timestamps of the two parties are sets of users: who accepted
\* the conditions, confirmed the swap, confirmed the return.  approvedBy is
\* None while counter_approved_at is NULL; which user approved is a history
\* value that the program does not store.  original is
\* original_offered_book, counterBy is last_counter_by, and counters holds
\* requester_counter_count and owner_counter_count.
Row == [status     : Statuses,
        requester  : Users \cup {None},
        owner      : Users \cup {None},
        requested  : Books \cup {None},
        offered    : Books \cup {None},
        original   : Books \cup {None},
        counterBy  : Users \cup {None},
        approvedBy : Users \cup {None},
        counters   : [Users -> 0..MaxCounters],
        permanent  : BOOLEAN,
        accepted   : SUBSET Users,
        confirmed  : SUBSET Users,
        returned   : SUBSET Users,
        completedAt: BOOLEAN]

\* ExchangeRequest.objects.create: the columns' defaults.
NewRow(status, u, owner, b, offered, permanent) ==
    [status |-> status, requester |-> u, owner |-> owner,
     requested |-> b, offered |-> offered, original |-> None,
     counterBy |-> None, approvedBy |-> None,
     counters |-> [v \in Users |-> 0], permanent |-> permanent,
     accepted |-> {}, confirmed |-> {}, returned |-> {},
     completedAt |-> FALSE]

NoRow == NewRow("absent", None, None, None, None, FALSE)

BookRow == [owner : Users, status : {"available", "in_exchange"}]

Parties(x) == {exchange[x].requester, exchange[x].owner}
BooksOf(x) == {exchange[x].requested, exchange[x].offered}

\* can_transition_to and transition_to: the in-memory effect on an instance.
\* The second is called only where the first holds; where it does not, the
\* handler raises ValueError and stops.
can_transition_to(row, new) == new \in VALID_TRANSITIONS[row.status]

transition_to(row, new) ==
    [row EXCEPT !.status = new,
                !.completedAt = @ \/ new \in COMPLETED_STATUSES]

\* get_blocked_user_ids, in both directions.
BlockedPair(u, v) == <<u, v>> \in blocks \/ <<v, u>> \in blocks

\* get_object: the exchanges get_queryset lets a user see.
Visible(u, x) ==
    /\ exchange[x].status # "absent"
    /\ u \in Parties(x)
    /\ \A v \in Parties(x) : ~BlockedPair(u, v)

-----------------------------------------------------------------------------
(* Slots.  pc names the next statement; mem is the part of the in-memory    *)
(* instance that a later statement reads; todo is the list a handler or a   *)
(* task iterates over; users is a set of users it remembers.                *)

PCs == {"idle", "create_insert", "approve_save", "accept_commit",
        "decline_save", "cancel_save", "block_cancel", "expire_requests",
        "conditions_insert", "conditions_count", "conditions_save",
        "complete_save", "complete_requested", "complete_offered",
        "request_return_save", "return_requested", "return_offered",
        "return_save", "expire_conditions", "expire_requested",
        "expire_offered", "auto_requester_only", "auto_owner_only",
        "auto_count"}

Job == [pc    : PCs,
        user  : Users \cup {None},
        x     : Exchanges \cup {None},
        mem   : Row,
        todo  : SUBSET Exchanges,
        users : SUBSET Users]

Serving(pc, u, x, mem, todo, users) ==
    [pc |-> pc, user |-> u, x |-> x, mem |-> mem, todo |-> todo,
     users |-> users]

Idle == Serving("idle", None, None, NoRow, {}, {})

\* A slot can take new work; with Serial, only when nothing else is running.
Free(s) ==
    /\ job[s] = Idle
    /\ Serial => \A t \in Slots : job[t] = Idle

At(s, pc) == job[s].pc = pc

Start(s, pc, u, x, mem) ==
    job' = [job EXCEPT ![s] = Serving(pc, u, x, mem, {}, {})]

\* Continue with the next statement, or answer and become idle.
Goto(s, pc) == job' = [job EXCEPT ![s].pc = pc]
Done(s) == job' = [job EXCEPT ![s] = Idle]

\* The one transaction that spans two steps is accept's: between its two
\* steps it holds FOR UPDATE locks on the exchange, both books and both users
\* (select_for_update with select_related).  A statement that writes such a
\* row, or inserts a row that references it, waits for the commit.
InAccept(t) == At(t, "accept_commit")
RowFree(x) == \A t \in Slots : InAccept(t) => job[t].x # x
BookFree(b) == \A t \in Slots : InAccept(t) => b \notin BooksOf(job[t].x)
UserFree(u) == \A t \in Slots : InAccept(t) => u \notin Parties(job[t].x)
ExchangeFree(x) ==
    /\ RowFree(x)
    /\ \A b \in BooksOf(x) : BookFree(b)
    /\ \A u \in Parties(x) : UserFree(u)

\* A process dies between two statements: what was committed stays, an open
\* transaction rolls back, and nobody resumes the request.
Crash(s) ==
    /\ Crashes
    /\ job[s] # Idle
    /\ Done(s)
    /\ UNCHANGED <<exchange, book, blocks, swapCount>>

BookInit == book = [b \in Books |-> [owner |-> Shelf[b], status |-> "available"]]

TypeOK ==
    /\ exchange \in [Exchanges -> Row]
    /\ book \in [Books -> BookRow]
    /\ blocks \subseteq Users \X Users
    /\ swapCount \in [Users -> Nat]
    /\ job \in [Slots -> Job]

=============================================================================
