----------------------------- MODULE ExchangeProofs ----------------------------
(***************************************************************************)
(* Proofs about ExchangeSystem, for any users, books, exchanges, workers    *)
(* and counter limit, with requests and tasks overlapping and crashing in   *)
(* any way (Serial and Crashes are arbitrary).                              *)
(*                                                                          *)
(* The rows are described one at a time (RowInv), how a statement may       *)
(* change a row is described once (RowStep), and what a process relies on   *)
(* between two statements (JobInv) is preserved by every RowStep of the     *)
(* others.  A statement that writes a book may change its owner only as     *)
(* OwnersMove allows.                                                       *)
(*                                                                          *)
(* The last part is about the buttons of both apps (ExchangeScreens): that  *)
(* they offer what the server takes rests on what the rows keep (RowInv).   *)
(***************************************************************************)
EXTENDS ExchangeSystem, ExchangeScreens, TLAPS

-----------------------------------------------------------------------------
(* The inductive invariant. *)

Both(row) == {row.requester, row.owner}

Agreed(row) == row.counterBy = None \/ row.approvedBy # None

Decided(row) == row.status \notin {"absent", "pending"}

\* An instance that names two different users and two books.
Loaded(row) ==
    /\ row.requester \in Users /\ row.owner \in Users
    /\ row.requested \in Books /\ row.offered \in Books

\* Who made the last counter-offer is none or one ahead of the other party.
Alternate(row) ==
    row.status # "absent" =>
        \/ row.counterBy = None /\ \A u \in Both(row) : row.counters[u] = 0
        \/ /\ row.counterBy \in Both(row)
           /\ row.counters[row.counterBy] > 0
           /\ \A u \in Both(row) :
                 row.counters[row.counterBy] \in {row.counters[u], row.counters[u] + 1}

RowInv(row) ==
    /\ row \in Row
    /\ Alternate(row)
    /\ row.status # "absent" => Loaded(row) /\ row.requester # row.owner
    /\ row.accepted \subseteq Both(row) /\ row.confirmed \subseteq Both(row)
    /\ row.status = "absent" => row.accepted = {} /\ row.confirmed = {}
    /\ row.status \in Holding \cup Swapped => Agreed(row)
    /\ row.status \in Swapped \cup {"active"} => row.accepted = Both(row)
    /\ row.status \in Swapped => row.confirmed = Both(row)

\* The columns that are fixed once a request is decided.
TermsOf(row) ==
    <<row.requester, row.owner, row.requested, row.offered, row.original,
      row.permanent, row.counterBy, row.counters>>

\* What any statement may do to a row.
RowStep(r, q) ==
    /\ r.status # "absent" => /\ q.status # "absent"
                              /\ q.requester = r.requester
                              /\ q.owner = r.owner
                              /\ q.requested = r.requested
    /\ Decided(r) => /\ Decided(q)
                     /\ TermsOf(q) = TermsOf(r)
                     /\ r.approvedBy # None => q.approvedBy # None
    /\ r.accepted \subseteq q.accepted
    /\ r.confirmed \subseteq q.confirmed

\* What every statement but an insert and a counter-offer does, too.
Quiet(r, q) ==
    /\ r.status = "absent" => q = r
    /\ Agreed(r) => Agreed(q)

\* The points between two statements, by what the process relies on there.
ConditionsPcs == {"conditions_insert", "conditions_count", "conditions_save"}
CompletePcs == {"complete_save", "complete_requested", "complete_offered"}
SwappedPcs == CompletePcs \cup {"request_return_save", "return_requested", "return_offered",
               "return_save"}
ReleasePcs == {"expire_requested", "expire_offered"}
RowPcs == {"approve_save", "accept_commit", "decline_save", "cancel_save"}
              \cup ConditionsPcs \cup SwappedPcs \cup ReleasePcs
MemPcs == (ConditionsPcs \cup SwappedPcs \cup ReleasePcs)
              \ {"request_return_save"}

ConditionsInv(j, row) ==
    /\ Decided(row) /\ Agreed(row)
    /\ j.user \in Both(row)
    /\ j.pc # "conditions_save" =>
          j.mem.status \in {"accepted", "conditions_pending"}
    /\ j.mem.status \in {"accepted", "conditions_pending", "active"}
    /\ j.mem.status = "active" => row.accepted = Both(row)

SwappedInv(j, row) ==
    /\ Decided(row) /\ Agreed(row)
    /\ row.accepted = Both(row) /\ row.confirmed = Both(row)
    /\ j.pc \in CompletePcs => TermsOf(j.mem) = TermsOf(row)

AutoInv(row) ==
    Decided(row) /\ Agreed(row) /\ row.accepted = Both(row)

JobInv(j, E) ==
    /\ j \in Job
    /\ j.pc \in RowPcs => j.x \in Exchanges /\ E[j.x].status # "absent"
    /\ j.pc = "approve_save" => j.user \in Users
    /\ j.pc \in ConditionsPcs => ConditionsInv(j, E[j.x])
    /\ j.pc \in SwappedPcs => SwappedInv(j, E[j.x])
    /\ j.pc \in MemPcs => Loaded(j.mem)
    /\ j.pc = "complete_save" => j.mem.status = "swap_confirmed"
    /\ j.pc = "create_insert" =>
          j.x \in Exchanges /\ RowInv(j.mem) /\ j.mem.status = "pending"
             /\ Agreed(j.mem)
    /\ \A y \in j.todo : E[y].status # "absent"
    /\ j.pc = "auto_requester_only" => \A y \in j.todo :
          AutoInv(E[y]) /\ E[y].requester \in E[y].confirmed
    /\ j.pc = "auto_owner_only" => \A y \in j.todo :
          AutoInv(E[y]) /\ E[y].owner \in E[y].confirmed

\* The terms of a request stay agreed while accept holds its row.
AcceptInv == \A s \in Slots : InAccept(s) => Agreed(exchange[job[s].x])

\* A primary key that is about to be inserted is free, and nobody else's.
CreateInv ==
    \A s \in Slots : At(s, "create_insert") =>
        /\ exchange[job[s].x].status = "absent"
        /\ \A t \in Slots \ {s} :
              At(t, "create_insert") => job[t].x # job[s].x

IInv ==
    /\ exchange \in [Exchanges -> Row]
    /\ \A x \in Exchanges : RowInv(exchange[x])
    /\ job \in [Slots -> Job]
    /\ \A s \in Slots : JobInv(job[s], exchange)
    /\ AcceptInv
    /\ CreateInv
    /\ OnePendingRequest
    /\ book \in [Books -> BookRow]
    /\ blocks \subseteq Users \X Users
    /\ swapCount \in [Users -> Nat]

-----------------------------------------------------------------------------
(* Lemmas about one row. *)

\* A row that does not change takes a step.
LEMMA RowStepRefl == ASSUME NEW r PROVE RowStep(r, r) /\ Quiet(r, r)
  BY DEF RowStep, Quiet

LEMMA AlternateKept ==
  ASSUME NEW r, NEW q, Alternate(r), TermsOf(q) = TermsOf(r),
         r.status = "absent" => q.status = "absent"
  PROVE  Alternate(q)
  BY DEF Alternate, TermsOf, Both

\* Saving a status keeps the row sound if the status is justified by the
\* agreed terms, the acceptances and the confirmations.
LEMMA SetStatus ==
  ASSUME NEW r, RowInv(r), r.status # "absent",
         NEW st \in Statuses \ {"absent", "pending"},
         st \in Holding \cup Swapped => Agreed(r),
         st \in Swapped \cup {"active"} => r.accepted = Both(r),
         st \in Swapped => r.confirmed = Both(r)
  PROVE  /\ RowInv([r EXCEPT !.status = st])
         /\ RowStep(r, [r EXCEPT !.status = st])
         /\ Quiet(r, [r EXCEPT !.status = st])
  <1> DEFINE q == [r EXCEPT !.status = st]
  <1>1. r \in Row
    BY DEF RowInv
  <1>2. q \in Row /\ q.status = st
    BY <1>1 DEF Row
  <1>3. /\ q.requester = r.requester /\ q.owner = r.owner
        /\ q.requested = r.requested /\ q.offered = r.offered
        /\ q.counterBy = r.counterBy /\ q.approvedBy = r.approvedBy
        /\ q.accepted = r.accepted /\ q.confirmed = r.confirmed
        /\ TermsOf(q) = TermsOf(r)
    BY <1>1 DEF Row, TermsOf
  <1> HIDE DEF q
  <1>4. RowInv(q)
    BY <1>2, <1>3, AlternateKept DEF RowInv, Loaded, Both, Agreed
  <1>5. RowStep(r, q) /\ Quiet(r, q)
    BY <1>2, <1>3 DEF RowStep, Quiet, Decided, Agreed
  <1> QED BY <1>4, <1>5 DEF q

\* The row of an absent exchange and a fresh request.
\* The same for a status that needs no justification.
LEMMA EndStatus ==
  ASSUME NEW r, RowInv(r), r.status # "absent",
         NEW st \in {"declined", "cancelled", "expired"}
  PROVE  /\ RowInv([r EXCEPT !.status = st])
         /\ RowStep(r, [r EXCEPT !.status = st])
         /\ Quiet(r, [r EXCEPT !.status = st])
  <1>1. /\ st \in Statuses \ {"absent", "pending"}
        /\ st \notin Holding \cup Swapped \cup {"active"}
    BY DEF Statuses, Holding, Swapped
  <1> QED
    BY <1>1, SetStatus

LEMMA NoRowInv == RowInv(NoRow)
  BY NoneAssumption, MaxCountersAssumption
     DEF RowInv, NoRow, NewRow, Row, Both, Loaded, Agreed, Holding, Swapped,
         Statuses, Alternate

LEMMA NewRowInv ==
  ASSUME NEW u \in Users, NEW v \in Users, u # v,
         NEW b \in Books, NEW o \in Books, NEW permanent \in BOOLEAN
  PROVE  LET row == NewRow("pending", u, v, b, o, permanent)
         IN  RowInv(row) /\ row.status = "pending" /\ Agreed(row)
  BY NoneAssumption, MaxCountersAssumption
     DEF RowInv, NewRow, Row, Both, Loaded, Agreed, Holding, Swapped, Statuses, Alternate

LEMMA IdleInv ==
  ASSUME NEW E PROVE JobInv(Idle, E) /\ Idle.pc = "idle" /\ Idle \in Job
  <1>1. NoRow \in Row
    BY NoRowInv DEF RowInv
  <1>2. Idle \in Job
    BY <1>1 DEF Idle, Serving, Job, PCs
  <1> QED
    BY <1>2 DEF JobInv, Idle, Serving, RowPcs, ConditionsPcs, SwappedPcs,
                CompletePcs, ReleasePcs, MemPcs

-----------------------------------------------------------------------------
(* What the others rely on survives any step of the rows. *)

LEMMA RowStepKeeps ==
  ASSUME NEW r, NEW q, RowInv(q), RowStep(r, q), r.status # "absent"
  PROVE  /\ q.status # "absent"
         /\ q.requester = r.requester /\ q.owner = r.owner
         /\ Decided(r) /\ Agreed(r) => Decided(q) /\ Agreed(q)
         /\ r.accepted = Both(r) => q.accepted = Both(q)
         /\ r.confirmed = Both(r) => q.confirmed = Both(q)
         /\ r.accepted \subseteq q.accepted /\ r.confirmed \subseteq q.confirmed
  <1>1. Decided(r) => q.counterBy = r.counterBy
    BY DEF RowStep, TermsOf
  <1> QED
    BY <1>1 DEF RowStep, RowInv, Both, Agreed

LEMMA JobInvStable ==
  ASSUME NEW E, NEW F, NEW j, JobInv(j, E),
         \A y \in Exchanges : RowInv(F[y]) /\ RowStep(E[y], F[y])
  PROVE  JobInv(j, F)
  <1>1. j \in Job /\ j.todo \subseteq Exchanges
    BY DEF JobInv, Job
  <1>2. ASSUME j.pc \in RowPcs
        PROVE  j.x \in Exchanges /\ F[j.x].status # "absent"
    BY <1>2, RowStepKeeps DEF JobInv
  <1>3. ASSUME j.pc \in ConditionsPcs PROVE ConditionsInv(j, F[j.x])
    <2>1. /\ j.x \in Exchanges /\ E[j.x].status # "absent"
          /\ ConditionsInv(j, E[j.x])
      BY <1>3 DEF JobInv, RowPcs
    <2> QED
      BY <2>1, RowStepKeeps DEF ConditionsInv, Both
  <1>4. ASSUME j.pc \in SwappedPcs PROVE SwappedInv(j, F[j.x])
    <2>1. /\ j.x \in Exchanges /\ E[j.x].status # "absent"
          /\ SwappedInv(j, E[j.x])
      BY <1>4 DEF JobInv, RowPcs
    <2>2. TermsOf(F[j.x]) = TermsOf(E[j.x])
      BY <2>1 DEF SwappedInv, RowStep
    <2> QED
      BY <2>1, <2>2, RowStepKeeps DEF SwappedInv
  <1>5. \A y \in j.todo : F[y].status # "absent"
    BY <1>1, RowStepKeeps DEF JobInv
  <1>6. ASSUME NEW y \in j.todo, AutoInv(E[y])
        PROVE  /\ AutoInv(F[y])
               /\ E[y].requester \in E[y].confirmed =>
                     F[y].requester \in F[y].confirmed
               /\ E[y].owner \in E[y].confirmed =>
                     F[y].owner \in F[y].confirmed
    <2>1. y \in Exchanges /\ E[y].status # "absent"
      BY <1>1 DEF JobInv
    <2> QED
      BY <1>6, <2>1, RowStepKeeps DEF AutoInv
  <1> QED
    BY <1>1, <1>2, <1>3, <1>4, <1>5, <1>6 DEF JobInv

-----------------------------------------------------------------------------
(* Steps of the whole state. *)

RowsStep ==
    /\ exchange' \in [Exchanges -> Row]
    /\ \A y \in Exchanges : /\ RowInv(exchange'[y])
                            /\ RowStep(exchange[y], exchange'[y])

RowsQuiet == \A y \in Exchanges : Quiet(exchange[y], exchange'[y])

\* A book changes hands by a permanent exchange of it that both confirmed.
OwnersMove ==
    \A b \in Books : book'[b].owner # book[b].owner =>
        \E x \in Exchanges : /\ exchange[x].permanent
                             /\ exchange[x].confirmed = Parties(x)
                             /\ Receives(x, b, book'[b].owner)

OthersStep ==
    /\ OwnersMove
    /\ book' \in [Books -> BookRow]
    /\ blocks' \subseteq Users \X Users
    /\ swapCount' \in [Users -> Nat]

\* What every step of the system keeps.
Kept == IInv' /\ RowsStep /\ OwnersMove

\* Every slot's job survives: the one that moves by its own new invariant, the
\* others because the rows only take steps.
LEMMA JobsPreserved ==
  ASSUME IInv, RowsStep, NEW s \in Slots, NEW j,
         job' = [job EXCEPT ![s] = j], JobInv(j, exchange')
  PROVE  /\ job' \in [Slots -> Job]
         /\ \A t \in Slots : JobInv(job'[t], exchange')
         /\ \A t \in Slots : job'[t] = IF t = s THEN j ELSE job[t]
  <1>1. j \in Job /\ job \in [Slots -> Job]
    BY DEF JobInv, IInv
  <1>2. \A t \in Slots : JobInv(job[t], exchange')
    BY JobInvStable DEF IInv, RowsStep
  <1> QED
    BY <1>1, <1>2

\* No quiet step makes a request pending.
LEMMA PendingPreserved ==
  ASSUME IInv, RowsStep, RowsQuiet PROVE OnePendingRequest'
  <1>1. ASSUME NEW x \in Exchanges, exchange'[x].status = "pending"
        PROVE  /\ exchange[x].status = "pending"
               /\ exchange'[x].requester = exchange[x].requester
               /\ exchange'[x].requested = exchange[x].requested
    BY <1>1 DEF RowsStep, RowStep, RowsQuiet, Quiet, Decided
  <1> QED
    BY <1>1 DEF IInv, OnePendingRequest

LEMMA Preserved ==
  ASSUME IInv, RowsStep, RowsQuiet, OthersStep, NEW s \in Slots, NEW j,
         job' = [job EXCEPT ![s] = j], JobInv(j, exchange'),
         j.pc \notin {"accept_commit", "create_insert"}
  PROVE  Kept
  <1>1. /\ job' \in [Slots -> Job]
        /\ \A t \in Slots : JobInv(job'[t], exchange')
        /\ \A t \in Slots : job'[t] = IF t = s THEN j ELSE job[t]
    BY JobsPreserved
  <1>2. ASSUME NEW t \in Slots, job'[t].pc = "accept_commit"
        PROVE  Agreed(exchange'[job'[t].x])
    <2>1. job[t].pc = "accept_commit" /\ job'[t].x = job[t].x
      BY <1>1, <1>2
    <2>2. job[t].x \in Exchanges /\ Agreed(exchange[job[t].x])
      BY <2>1 DEF IInv, AcceptInv, InAccept, At, JobInv, RowPcs
    <2> QED
      BY <2>1, <2>2 DEF RowsQuiet, Quiet
  <1>3. ASSUME NEW t \in Slots, job'[t].pc = "create_insert"
        PROVE  /\ exchange'[job'[t].x].status = "absent"
               /\ \A r \in Slots \ {t} : job'[r].pc = "create_insert" =>
                     job'[r].x # job'[t].x
    <2>1. job[t].pc = "create_insert" /\ job'[t] = job[t]
      BY <1>1, <1>3
    <2>2. /\ job[t].x \in Exchanges /\ exchange[job[t].x].status = "absent"
          /\ \A r \in Slots \ {t} : job[r].pc = "create_insert" =>
                job[r].x # job[t].x
      BY <2>1 DEF IInv, CreateInv, At, JobInv
    <2> QED
      BY <1>1, <2>1, <2>2 DEF RowsQuiet, Quiet
  <1> QED
    BY <1>1, <1>2, <1>3, PendingPreserved
       DEF Kept, IInv, RowsStep, OthersStep, AcceptInv, CreateInv, InAccept, At

\* A step that changes no row.
LEMMA RowsUnchanged ==
  ASSUME IInv, UNCHANGED exchange PROVE RowsStep /\ RowsQuiet
  BY RowStepRefl DEF IInv, RowsStep, RowsQuiet

\* A step that replaces one row.
LEMMA RowReplaced ==
  ASSUME IInv, NEW x \in Exchanges, NEW q,
         exchange' = [exchange EXCEPT ![x] = q],
         RowInv(q), RowStep(exchange[x], q)
  PROVE  RowsStep /\ (Quiet(exchange[x], q) => RowsQuiet)
  <1>1. q \in Row /\ exchange \in [Exchanges -> Row]
    BY DEF RowInv, IInv
  <1>2. \A y \in Exchanges : exchange'[y] = IF y = x THEN q ELSE exchange[y]
    BY <1>1
  <1> QED
    BY <1>1, <1>2, RowStepRefl DEF IInv, RowsStep, RowsQuiet

\* A step that saves the status of one row.
LEMMA StatusSaved ==
  ASSUME IInv, NEW x \in Exchanges, exchange[x].status # "absent",
         NEW st \in Statuses \ {"absent", "pending"},
         st \in Holding \cup Swapped => Agreed(exchange[x]),
         st \in Swapped \cup {"active"} => exchange[x].accepted = Both(exchange[x]),
         st \in Swapped => exchange[x].confirmed = Both(exchange[x]),
         exchange' = [exchange EXCEPT ![x].status = st]
  PROVE  RowsStep /\ RowsQuiet
  <1>1. RowInv(exchange[x])
    BY DEF IInv
  <1>2. exchange' = [exchange EXCEPT ![x] = [exchange[x] EXCEPT !.status = st]]
    OBVIOUS
  <1> QED
    BY <1>1, <1>2, SetStatus, RowReplaced

LEMMA OthersUnchanged ==
  ASSUME IInv, UNCHANGED <<book, blocks, swapCount>> PROVE OthersStep
  BY DEF IInv, OthersStep, OwnersMove

LEMMA InitInv == Init => IInv
  <1> SUFFICES ASSUME Init PROVE IInv
    OBVIOUS
  <1> USE DEF Init, NegotiationInit
  <1>1. RowInv(NoRow) /\ NoRow \in Row
    BY NoRowInv DEF RowInv
  <1>2. \A s \in Slots : JobInv(job[s], exchange) /\ job[s].pc = "idle"
    BY IdleInv
  <1>3. job \in [Slots -> Job]
    BY IdleInv
  <1>4. book \in [Books -> BookRow]
    BY ShelfAssumption DEF BookInit, BookRow
  <1>5. OnePendingRequest
    BY DEF OnePendingRequest, NoRow, NewRow
  <1> QED
    BY <1>1, <1>2, <1>3, <1>4, <1>5
       DEF IInv, AcceptInv, CreateInv, InAccept, At

-----------------------------------------------------------------------------
(* The actions of Negotiation. *)

LEMMA DonePreserved ==
  ASSUME IInv, RowsStep, RowsQuiet, OthersStep, NEW s \in Slots, Done(s)
  PROVE  Kept
  BY IdleInv, Preserved DEF Done

\* The later statement of a request on a row that only names the row.
LEMMA ServingInv ==
  ASSUME NEW E, NEW pc \in PCs, NEW u \in Users \cup {None},
         NEW x \in Exchanges \cup {None}, NEW mem \in Row,
         NEW todo \in SUBSET Exchanges, NEW users \in SUBSET Users
  PROVE  LET j == Serving(pc, u, x, mem, todo, users)
         IN  /\ j \in Job
             /\ j.pc = pc /\ j.user = u /\ j.x = x /\ j.mem = mem
             /\ j.todo = todo /\ j.users = users
  BY DEF Serving, Job

LEMMA NoRowType == NoRow \in Row
  BY NoRowInv DEF RowInv

LEMMA SimpleStart ==
  ASSUME IInv, NEW s \in Slots, NEW u \in Users, NEW x \in Exchanges,
         NEW pc \in {"approve_save", "decline_save", "cancel_save"},
         exchange[x].status # "absent",
         Start(s, pc, u, x, NoRow),
         UNCHANGED <<exchange, book, blocks, swapCount>>
  PROVE  Kept
  <1> DEFINE j == Serving(pc, u, x, NoRow, {}, {})
  <1>1. pc \in PCs
    BY DEF PCs
  <1>2. /\ j \in Job /\ j.pc = pc /\ j.user = u /\ j.x = x /\ j.todo = {}
    BY <1>1, ServingInv, NoRowType
  <1>3. job' = [job EXCEPT ![s] = j]
    BY DEF Start
  <1> HIDE DEF j
  <1>4. JobInv(j, exchange')
    BY <1>2 DEF JobInv, RowPcs, ConditionsPcs, SwappedPcs, CompletePcs, ReleasePcs, MemPcs
  <1> QED
    BY <1>2, <1>3, <1>4, RowsUnchanged, OthersUnchanged, Preserved

LEMMA CreateCheckInv ==
  ASSUME IInv, NEW s \in Slots, NEW u \in Users, NEW b \in Books,
         NEW o \in Books, NEW permanent \in SwapTypes, NEW x \in Exchanges,
         CreateCheck(s, u, b, o, permanent, x)
  PROVE  Kept
  <1> DEFINE row == NewRow("pending", u, book[b].owner, b, o, permanent)
             j == Serving("create_insert", u, x, row, {}, {})
  <1>1. RowInv(row) /\ row.status = "pending" /\ Agreed(row) /\ row \in Row
    <2>1. book[b].owner \in Users /\ book[b].owner # u /\ permanent \in BOOLEAN
      BY SwapTypesAssumption DEF CreateCheck, IInv, BookRow
    <2> QED
      BY <2>1, NewRowInv DEF RowInv
  <1> HIDE DEF row
  <1>2. /\ j \in Job /\ j.pc = "create_insert" /\ j.user = u /\ j.x = x
        /\ j.todo = {} /\ j.mem = row
    BY <1>1, ServingInv DEF PCs
  <1>3. job' = [job EXCEPT ![s] = j] /\ UNCHANGED <<exchange, book, blocks, swapCount>>
    BY DEF CreateCheck, Start, row
  <1> HIDE DEF j
  <1>4. JobInv(j, exchange')
    BY <1>1, <1>2 DEF JobInv, RowPcs, ConditionsPcs, SwappedPcs, CompletePcs, ReleasePcs, MemPcs
  <1>5. RowsStep /\ RowsQuiet /\ OthersStep
    BY <1>3, RowsUnchanged, OthersUnchanged
  <1>6. /\ job' \in [Slots -> Job]
        /\ \A t \in Slots : JobInv(job'[t], exchange')
        /\ \A t \in Slots : job'[t] = IF t = s THEN j ELSE job[t]
    BY <1>3, <1>4, <1>5, JobsPreserved
  <1>7. AcceptInv'
    BY <1>2, <1>3, <1>6 DEF IInv, AcceptInv, InAccept, At
  <1>8. CreateInv'
    BY <1>2, <1>3, <1>6 DEF IInv, CreateInv, CreateCheck, At
  <1> QED
    BY <1>5, <1>6, <1>7, <1>8, PendingPreserved
       DEF Kept, IInv, RowsStep, OthersStep

LEMMA CreateInsertInv ==
  ASSUME IInv, NEW s \in Slots, CreateInsert(s) PROVE Kept
  <1> DEFINE x == job[s].x
             row == job[s].mem
  <1>1. /\ At(s, "create_insert") /\ x \in Exchanges /\ RowInv(row)
        /\ row.status = "pending"
        /\ exchange[x].status = "absent"
    BY DEF CreateInsert, IInv, JobInv, CreateInv, At
  <1>2. Done(s) /\ UNCHANGED <<book, blocks, swapCount>>
    BY DEF CreateInsert
  <1>3. OthersStep
    BY <1>2, OthersUnchanged
  <1>4. CASE UNCHANGED exchange
    BY <1>2, <1>3, <1>4, RowsUnchanged, DonePreserved
  <1>5. CASE exchange' = [exchange EXCEPT ![x] = row]
    <2>1. RowStep(exchange[x], row)
      BY <1>1 DEF RowStep, IInv, RowInv, Decided
    <2>2. RowsStep
      BY <1>1, <1>5, <2>1, RowReplaced
    <2>3. \A y \in Exchanges \ {x} : exchange'[y] = exchange[y]
      BY <1>5 DEF IInv
    <2>4. /\ job' \in [Slots -> Job]
          /\ \A t \in Slots : JobInv(job'[t], exchange')
          /\ \A t \in Slots : job'[t] = IF t = s THEN Idle ELSE job[t]
      BY <1>2, <2>2, IdleInv, JobsPreserved DEF Done
    <2>5. AcceptInv'
      <3> SUFFICES ASSUME NEW t \in Slots, job'[t].pc = "accept_commit"
                   PROVE  Agreed(exchange'[job'[t].x])
        BY DEF AcceptInv, InAccept, At
      <3>1. job'[t] = job[t]
        BY <2>4, IdleInv
      <3>2. /\ job[t].x \in Exchanges /\ exchange[job[t].x].status # "absent"
            /\ Agreed(exchange[job[t].x])
        BY <3>1 DEF IInv, AcceptInv, InAccept, At, JobInv, RowPcs
      <3> QED
        BY <1>1, <2>3, <3>1, <3>2
    <2>6. CreateInv'
      <3> SUFFICES ASSUME NEW t \in Slots, job'[t].pc = "create_insert"
                   PROVE  /\ exchange'[job'[t].x].status = "absent"
                          /\ \A r \in Slots \ {t} : job'[r].pc = "create_insert"
                                => job'[r].x # job'[t].x
        BY DEF CreateInv, At
      <3>1. t # s /\ job'[t] = job[t]
        BY <2>4, IdleInv
      <3>2. /\ job[t].x \in Exchanges /\ job[t].x # x
            /\ exchange[job[t].x].status = "absent"
        BY <1>1, <3>1 DEF IInv, CreateInv, At, JobInv
      <3>3. \A r \in Slots \ {t} : job'[r].pc = "create_insert" =>
                job'[r].x # job'[t].x
        BY <2>4, <3>1, IdleInv DEF IInv, CreateInv, At
      <3> QED
        BY <2>3, <3>1, <3>2, <3>3
    <2>7. OnePendingRequest'
      <3>1. ~DuplicatePending(row) \/ UNCHANGED exchange
        BY DEF CreateInsert
      <3>2. CASE UNCHANGED exchange
        BY <3>2, <2>2, RowsUnchanged, PendingPreserved
      <3>3. CASE ~DuplicatePending(row)
        <4>1. \A y \in Exchanges : exchange'[y] = IF y = x THEN row
                                                  ELSE exchange[y]
          BY <1>5 DEF IInv
        <4> QED
          BY <3>3, <4>1 DEF DuplicatePending, OnePendingRequest, IInv
      <3> QED
        BY <3>1, <3>2, <3>3
    <2> QED
      BY <1>3, <2>2, <2>4, <2>5, <2>6, <2>7
         DEF Kept, IInv, RowsStep, OthersStep
  <1> QED
    BY <1>4, <1>5 DEF CreateInsert

LEMMA CounterInv ==
  ASSUME IInv, NEW u \in Users, NEW x \in Exchanges, NEW b \in Books,
         Counter(u, x, b)
  PROVE  Kept
  <1> DEFINE r == exchange[x]
             q == Countered(r, u, b)
  <1>1. exchange' = [exchange EXCEPT ![x] = q]
    BY DEF Counter
  <1>2. /\ UNCHANGED <<book, blocks, swapCount, job>>
        /\ r.status = "pending" /\ r.counters[u] < MaxCounters
        /\ u \in Both(r) /\ r.counterBy # u
        /\ ExchangeFree(x)
    BY DEF Counter, MayCounter, Visible, Parties, Both
  <1>3. RowInv(r) /\ r \in Row
    BY DEF IInv, RowInv
  <1>4. q \in Row
    <2>1. /\ r.counters \in [Users -> 0..MaxCounters]
          /\ r.offered \in Books \cup {None}
      BY <1>3 DEF Row
    <2>2. [r.counters EXCEPT ![u] = @ + 1] \in [Users -> 0..MaxCounters]
      BY <1>2, <2>1, MaxCountersAssumption
    <2> DEFINE first == IF r.original = None THEN r.offered ELSE r.original
               made == [r.counters EXCEPT ![u] = @ + 1]
    <2>3. first \in Books \cup {None}
      BY <1>3, <2>1 DEF Row
    <2>4. q = [r EXCEPT !.original = first, !.offered = b, !.counterBy = u,
                        !.approvedBy = None, !.counters = made]
      BY DEF Countered
    <2>5. made \in [Users -> 0..MaxCounters]
      BY <2>2
    <2> HIDE DEF first, made, q
    <2> QED
      BY <1>3, <2>3, <2>4, <2>5 DEF Row
  <1>5. /\ q.status = "pending" /\ q.requester = r.requester /\ q.owner = r.owner
        /\ q.requested = r.requested /\ q.offered = b
        /\ q.accepted = r.accepted /\ q.confirmed = r.confirmed
        /\ q.counterBy = u /\ q.counters = [r.counters EXCEPT ![u] = @ + 1]
    BY <1>2, <1>3 DEF Row, Countered
  <1> HIDE DEF q
  <1>5a. Alternate(q)
    <2>1. /\ Both(q) = Both(r) /\ Both(r) \subseteq Users
          /\ r.counters \in [Users -> 0..MaxCounters]
      BY <1>2, <1>3, <1>5 DEF RowInv, Loaded, Both, Row
    <2>2. /\ q.counters[u] = r.counters[u] + 1
          /\ \A v \in Both(r) \ {u} : q.counters[v] = r.counters[v]
          /\ \A v \in Both(r) : r.counters[v] \in Nat
      BY <1>2, <1>5, <2>1
    <2>3. CASE r.counterBy = None
      BY <1>2, <1>3, <1>5, <2>1, <2>2, <2>3, NoneAssumption DEF RowInv, Alternate
    <2>4. CASE r.counterBy # None
      <3> DEFINE v == r.counterBy
      <3>1. /\ v \in Both(r) \ {u} /\ Both(r) = {u, v}
            /\ r.counters[v] \in {r.counters[u], r.counters[u] + 1}
        BY <1>2, <1>3, <2>4 DEF RowInv, Alternate, Both
      <3> HIDE DEF v
      <3> QED
        BY <1>2, <1>5, <2>1, <2>2, <3>1 DEF Alternate
    <2> QED
      BY <2>3, <2>4
  <1>6. RowInv(q)
    BY <1>2, <1>3, <1>4, <1>5, <1>5a DEF RowInv, Loaded, Both, Holding, Swapped
  <1>7. RowStep(r, q)
    BY <1>2, <1>5 DEF RowStep, Decided
  <1>8. RowsStep
    BY <1>1, <1>6, <1>7, RowReplaced
  <1>9. \A t \in Slots : JobInv(job[t], exchange')
    BY <1>8, JobInvStable DEF IInv, RowsStep
  <1>10. \A y \in Exchanges \ {x} : exchange'[y] = exchange[y]
    BY <1>1 DEF IInv
  <1>11. exchange'[x].status = "pending"
    BY <1>1, <1>5 DEF IInv
  <1>12. AcceptInv'
    <2> SUFFICES ASSUME NEW t \in Slots, job[t].pc = "accept_commit"
                 PROVE  Agreed(exchange'[job[t].x])
      BY <1>2 DEF AcceptInv, InAccept, At
    <2>1. job[t].x \in Exchanges \ {x}
      BY <1>2 DEF ExchangeFree, RowFree, InAccept, At, IInv, JobInv, RowPcs
    <2> QED
      BY <1>10, <2>1 DEF IInv, AcceptInv, InAccept, At
  <1>13. CreateInv'
    <2> SUFFICES ASSUME NEW t \in Slots, job[t].pc = "create_insert"
                 PROVE  exchange'[job[t].x].status = "absent"
      BY <1>2 DEF CreateInv, IInv, At
    <2>1. job[t].x \in Exchanges /\ exchange[job[t].x].status = "absent"
      BY DEF IInv, CreateInv, At, JobInv
    <2> QED
      BY <1>2, <1>10, <2>1
  <1>14. OnePendingRequest'
    <2>1. ASSUME NEW y \in Exchanges, exchange'[y].status = "pending"
          PROVE  /\ exchange[y].status = "pending"
                 /\ exchange'[y].requester = exchange[y].requester
                 /\ exchange'[y].requested = exchange[y].requested
      BY <1>1, <1>2, <1>5, <1>10, <2>1 DEF IInv
    <2> QED
      BY <2>1 DEF IInv, OnePendingRequest
  <1> QED
    BY <1>2, <1>8, <1>9, <1>12, <1>13, <1>14 DEF Kept, IInv, RowsStep, OwnersMove

LEMMA ApproveSaveInv ==
  ASSUME IInv, NEW s \in Slots, ApproveSave(s) PROVE Kept
  <1> DEFINE x == job[s].x
             r == exchange[x]
             q == [r EXCEPT !.approvedBy = job[s].user]
  <1>1. /\ Done(s) /\ UNCHANGED <<book, blocks, swapCount>>
        /\ exchange' = [exchange EXCEPT ![x] = q]
        /\ x \in Exchanges /\ r.status # "absent" /\ job[s].user \in Users
    BY DEF ApproveSave, At, IInv, JobInv, RowPcs
  <1>2. RowInv(r) /\ r \in Row
    BY <1>1 DEF IInv, RowInv
  <1>3. /\ q \in Row /\ q.approvedBy # None
        /\ q.status = r.status /\ q.requester = r.requester
        /\ q.owner = r.owner /\ q.requested = r.requested
        /\ q.offered = r.offered /\ q.accepted = r.accepted
        /\ q.confirmed = r.confirmed /\ TermsOf(q) = TermsOf(r)
    BY <1>1, <1>2, NoneAssumption DEF Row, TermsOf
  <1> HIDE DEF q
  <1>4. RowInv(q)
    BY <1>2, <1>3, AlternateKept DEF RowInv, Loaded, Both, Agreed
  <1>5. RowStep(r, q) /\ Quiet(r, q)
    BY <1>1, <1>3 DEF RowStep, Quiet, Decided, Agreed
  <1> QED
    BY <1>1, <1>4, <1>5, RowReplaced, OthersUnchanged, DonePreserved

LEMMA AcceptLockInv ==
  ASSUME IInv, NEW s \in Slots, NEW u \in Users, NEW x \in Exchanges,
         AcceptLock(s, u, x)
  PROVE  Kept
  <1> DEFINE j == Serving("accept_commit", u, x, NoRow, Competing(x), {})
  <1>1. /\ job' = [job EXCEPT ![s] = j]
        /\ UNCHANGED <<exchange, book, blocks, swapCount>>
        /\ exchange[x].status = "pending" /\ Agreed(exchange[x])
    BY DEF AcceptLock, TermsAgreed, Agreed
  <1>2. Competing(x) \subseteq Exchanges
        /\ \A y \in Competing(x) : exchange[y].status # "absent"
    BY DEF Competing
  <1>3. /\ j \in Job /\ j.pc = "accept_commit" /\ j.x = x
        /\ j.todo = Competing(x)
    BY <1>2, ServingInv, NoRowType DEF PCs
  <1> HIDE DEF j
  <1>4. JobInv(j, exchange')
    BY <1>1, <1>2, <1>3
       DEF JobInv, RowPcs, ConditionsPcs, SwappedPcs, CompletePcs, ReleasePcs, MemPcs
  <1>5. RowsStep /\ RowsQuiet /\ OthersStep
    BY <1>1, RowsUnchanged, OthersUnchanged
  <1>6. /\ job' \in [Slots -> Job]
        /\ \A t \in Slots : JobInv(job'[t], exchange')
        /\ \A t \in Slots : job'[t] = IF t = s THEN j ELSE job[t]
    BY <1>1, <1>4, <1>5, JobsPreserved
  <1>7. AcceptInv'
    BY <1>1, <1>3, <1>6 DEF IInv, AcceptInv, InAccept, At
  <1>8. CreateInv'
    BY <1>1, <1>3, <1>6 DEF IInv, CreateInv, At
  <1> QED
    BY <1>5, <1>6, <1>7, <1>8, PendingPreserved
       DEF Kept, IInv, RowsStep, OthersStep

LEMMA AcceptCommitInv ==
  ASSUME IInv, NEW s \in Slots, AcceptCommit(s) PROVE Kept
  <1> DEFINE x == job[s].x
  <1>1. /\ Done(s) /\ UNCHANGED <<blocks, swapCount>>
        /\ At(s, "accept_commit")
    BY DEF AcceptCommit
  <1>2. /\ x \in Exchanges /\ exchange[x].status # "absent"
        /\ Agreed(exchange[x])
        /\ \A y \in job[s].todo : exchange[y].status # "absent"
    BY <1>1 DEF At, IInv, JobInv, RowPcs, AcceptInv, InAccept
  <1>3. ASSUME NEW y \in Exchanges
        PROVE  /\ RowInv(exchange'[y]) /\ RowStep(exchange[y], exchange'[y])
               /\ Quiet(exchange[y], exchange'[y])
    <2>1. CASE y = x
      <3>1. exchange'[y] = [exchange[y] EXCEPT !.status = "accepted"]
        BY <2>1 DEF AcceptCommit
      <3> QED
        <4>1. /\ "accepted" \in Statuses \ {"absent", "pending"}
              /\ "accepted" \notin Swapped \cup {"active"}
          BY DEF Statuses, Swapped
        <4>2. RowInv(exchange[y])
          BY DEF IInv
        <4> QED
          BY <1>2, <2>1, <3>1, <4>1, <4>2, SetStatus
    <2>2. CASE y # x /\ y \in job[s].todo
      <3>1. exchange'[y] = [exchange[y] EXCEPT !.status = "declined"]
        BY <2>2 DEF AcceptCommit
      <3>2. RowInv(exchange[y]) /\ exchange[y].status # "absent"
        BY <1>2, <2>2 DEF IInv
      <3> QED
        BY <3>1, <3>2, EndStatus
    <2>3. CASE y # x /\ y \notin job[s].todo
      <3>1. exchange'[y] = exchange[y]
        BY <2>3 DEF AcceptCommit
      <3> QED
        BY <3>1, RowStepRefl DEF IInv
    <2> QED
      BY <2>1, <2>2, <2>3
  <1>4. exchange' \in [Exchanges -> Row]
    <2>1. exchange' = [y \in Exchanges |-> exchange'[y]]
      BY DEF AcceptCommit
    <2> QED
      BY <1>3, <2>1 DEF RowInv
  <1>5. book' \in [Books -> BookRow] /\ OwnersMove
    BY DEF AcceptCommit, IInv, BookRow, OwnersMove
  <1> QED
    BY <1>1, <1>3, <1>4, <1>5, DonePreserved
       DEF RowsStep, RowsQuiet, OthersStep, IInv

\* Declining and cancelling save a status that needs no justification.
LEMMA DeclineSaveInv ==
  ASSUME IInv, NEW s \in Slots, DeclineSave(s) \/ CancelSave(s) PROVE Kept
  <1>1. /\ Done(s) /\ UNCHANGED <<book, blocks, swapCount>>
        /\ job[s].x \in Exchanges /\ exchange[job[s].x].status # "absent"
    BY DEF DeclineSave, CancelSave, At, IInv, JobInv, RowPcs
  <1>2. PICK st \in {"declined", "cancelled"} :
            exchange' = [exchange EXCEPT ![job[s].x].status = st]
    BY DEF DeclineSave, CancelSave
  <1>3. RowsStep /\ RowsQuiet
    BY <1>1, <1>2, StatusSaved DEF Statuses, Holding, Swapped
  <1> QED
    BY <1>1, <1>3, OthersUnchanged, DonePreserved

LEMMA ExpireRequestsListInv ==
  ASSUME IInv, NEW T \in SUBSET Exchanges, ExpireRequestsList(T) PROVE Kept
  <1> DEFINE j == Serving("expire_requests", None, None, NoRow, T, {})
  <1>1. /\ job' = [job EXCEPT !["expire_stale_requests"] = j]
        /\ UNCHANGED <<exchange, book, blocks, swapCount>>
        /\ \A x \in T : exchange[x].status = "pending"
    BY DEF ExpireRequestsList, RequestListed
  <1>2. /\ j \in Job /\ j.pc = "expire_requests" /\ j.todo = T
    BY ServingInv, NoRowType DEF PCs
  <1> HIDE DEF j
  <1>3. JobInv(j, exchange')
    BY <1>1, <1>2
       DEF JobInv, RowPcs, ConditionsPcs, SwappedPcs, CompletePcs, ReleasePcs, MemPcs
  <1>4. "expire_stale_requests" \in Slots
    BY DEF Slots, Beat
  <1> QED
    BY <1>1, <1>2, <1>3, <1>4, RowsUnchanged, OthersUnchanged, Preserved

LEMMA ExpireRequestSaveInv ==
  ASSUME IInv, NEW s \in Slots, NEW x \in Exchanges, ExpireRequestSave(s, x)
  PROVE  Kept
  <1>1. /\ At(s, "expire_requests") /\ x \in job[s].todo
        /\ UNCHANGED <<book, blocks, swapCount>>
        /\ exchange[x].status # "absent" /\ JobInv(job[s], exchange)
    BY DEF ExpireRequestSave, IInv, JobInv
  <1>2. RowsStep /\ RowsQuiet /\ OthersStep
    BY <1>1, StatusSaved, OthersUnchanged
       DEF ExpireRequestSave, Statuses, Holding, Swapped
  <1>3. CASE Done(s)
    BY <1>2, <1>3, DonePreserved
  <1>4. CASE job' = [job EXCEPT ![s].todo = @ \ {x}]
    <2> DEFINE j == [job[s] EXCEPT !.todo = @ \ {x}]
    <2>1. job' = [job EXCEPT ![s] = j]
      BY <1>4
    <2>2. job[s] \in Job
      BY DEF IInv
    <2>3. /\ j \in Job /\ j.pc = "expire_requests"
          /\ j.todo = job[s].todo \ {x}
      BY <1>1, <2>2 DEF Job, At
    <2> HIDE DEF j
    <2>4. JobInv(job[s], exchange')
      BY <1>1, <1>2, JobInvStable DEF RowsStep
    <2>5. JobInv(j, exchange')
      BY <2>3, <2>4
         DEF JobInv, RowPcs, ConditionsPcs, SwappedPcs, CompletePcs, ReleasePcs, MemPcs
    <2> QED
      BY <1>2, <2>1, <2>3, <2>5, Preserved
  <1> QED
    BY <1>3, <1>4 DEF ExpireRequestSave

LEMMA BlockCreateInv ==
  ASSUME IInv, NEW s \in Slots, NEW u \in Users, NEW v \in Users,
         BlockCreate(s, u, v)
  PROVE  Kept
  <1> DEFINE j == Serving("block_cancel", u, None, NoRow, {}, {u, v})
  <1>1. /\ job' = [job EXCEPT ![s] = j]
        /\ UNCHANGED <<exchange, book, swapCount>>
        /\ blocks' = blocks \cup {<<u, v>>}
    BY DEF BlockCreate
  <1>2. j \in Job /\ j.pc = "block_cancel" /\ j.todo = {}
    BY ServingInv, NoRowType DEF PCs
  <1> HIDE DEF j
  <1>3. JobInv(j, exchange')
    BY <1>2 DEF JobInv, RowPcs, ConditionsPcs, SwappedPcs, CompletePcs, ReleasePcs, MemPcs
  <1>4. OthersStep
    BY <1>1 DEF OthersStep, OwnersMove, IInv
  <1> QED
    BY <1>1, <1>2, <1>3, <1>4, RowsUnchanged, Preserved

LEMMA BlockCancelInv ==
  ASSUME IInv, NEW s \in Slots, BlockCancel(s) PROVE Kept
  <1> DEFINE hit(y) == y \in Between(job[s].users) /\ exchange[y].status \in Cancelable
  <1>1. Done(s) /\ UNCHANGED <<book, blocks, swapCount>>
    BY DEF BlockCancel
  <1>2. ASSUME NEW y \in Exchanges
        PROVE  /\ RowInv(exchange'[y]) /\ RowStep(exchange[y], exchange'[y])
               /\ Quiet(exchange[y], exchange'[y])
    <2>1. CASE hit(y)
      <3>1. /\ exchange'[y] = [exchange[y] EXCEPT !.status = "cancelled"]
            /\ exchange[y].status # "absent"
        BY <2>1 DEF BlockCancel, Between
      <3>2. RowInv(exchange[y])
        BY DEF IInv
      <3> QED
        BY <3>1, <3>2, EndStatus
    <2>2. CASE ~hit(y)
      <3>1. exchange'[y] = exchange[y]
        BY <2>2 DEF BlockCancel
      <3> QED
        BY <3>1, RowStepRefl DEF IInv
    <2> QED
      BY <2>1, <2>2
  <1>3. exchange' \in [Exchanges -> Row]
    <2>1. exchange' = [y \in Exchanges |-> exchange'[y]]
      BY DEF BlockCancel
    <2> QED
      BY <1>2, <2>1 DEF RowInv
  <1> QED
    BY <1>1, <1>2, <1>3, OthersUnchanged, DonePreserved DEF RowsStep, RowsQuiet

\* Where no slot moves, the rows' steps are enough.
LEMMA NoJobPreserved ==
  ASSUME IInv, RowsStep, RowsQuiet, OthersStep, UNCHANGED job PROVE Kept
  <1>1. PICK s \in Slots : TRUE
    BY DEF Slots, Beat
  <1>2. \A t \in Slots : JobInv(job[t], exchange')
    BY JobInvStable DEF IInv, RowsStep
  <1>3. AcceptInv'
    BY DEF IInv, AcceptInv, InAccept, At, JobInv, RowPcs, RowsQuiet, Quiet
  <1>4. CreateInv'
    BY DEF IInv, CreateInv, At, JobInv, RowsQuiet, Quiet
  <1> QED
    BY <1>2, <1>3, <1>4, PendingPreserved DEF Kept, IInv, RowsStep, OthersStep

LEMMA NegotiationInv == ASSUME IInv, NegotiationNext PROVE Kept
  <1>1. Workers \subseteq Slots
    BY DEF Slots
  <1>2. CASE \E s \in Workers : NegotiationRequest(s)
    <2>1. PICK s \in Slots : NegotiationRequest(s)
      BY <1>1, <1>2
    <2>2. ASSUME NEW u \in Users, NEW x \in Exchanges,
                 ApproveRead(s, u, x) \/ DeclineRead(s, u, x) \/ CancelRead(s, u, x)
          PROVE  Kept
      BY <2>2, SimpleStart DEF ApproveRead, DeclineRead, CancelRead, Visible
    <2> QED
      BY <2>1, <2>2, CreateCheckInv, AcceptLockInv, BlockCreateInv
         DEF NegotiationRequest
  <1>3. CASE \E s \in Slots : NegotiationStep(s)
    BY <1>3, CreateInsertInv, ApproveSaveInv, AcceptCommitInv, DeclineSaveInv,
       BlockCancelInv, ExpireRequestSaveInv DEF NegotiationStep
  <1>4. CASE \E u, v \in Users : Unblock(u, v)
    <2>1. /\ UNCHANGED <<exchange, book, swapCount, job>>
          /\ blocks' \subseteq blocks
      BY <1>4 DEF Unblock
    <2>2. OthersStep
      BY <2>1 DEF IInv, OthersStep, OwnersMove
    <2> QED
      BY <2>1, <2>2, RowsUnchanged, NoJobPreserved
  <1> QED
    BY <1>2, <1>3, <1>4, CounterInv, ExpireRequestsListInv DEF NegotiationNext

-----------------------------------------------------------------------------
(* The actions of Fulfilment. *)

\* A job that names a row and an instance of it.
LEMMA LoadedStart ==
  ASSUME IInv, NEW s \in Slots, NEW u \in Users, NEW x \in Exchanges,
         NEW pc \in {"conditions_insert", "complete_save",
                     "request_return_save", "return_requested", "return_save"},
         NEW mem \in Row, Start(s, pc, u, x, mem),
         exchange[x].status # "absent",
         pc # "request_return_save" => Loaded(mem),
         pc = "conditions_insert" =>
            /\ mem.status \in {"accepted", "conditions_pending"}
            /\ Decided(exchange[x]) /\ Agreed(exchange[x])
            /\ u \in Both(exchange[x]),
         pc \in SwappedPcs => SwappedInv(Idle, exchange[x]),
         pc = "complete_save" => /\ mem.status = "swap_confirmed"
                                 /\ TermsOf(mem) = TermsOf(exchange[x]),
         UNCHANGED <<exchange, book, blocks, swapCount>>
  PROVE  Kept
  <1> DEFINE j == Serving(pc, u, x, mem, {}, {})
  <1>1. /\ j \in Job /\ j.pc = pc /\ j.user = u /\ j.x = x /\ j.mem = mem
        /\ j.todo = {}
    BY ServingInv DEF PCs
  <1>2. job' = [job EXCEPT ![s] = j]
    BY DEF Start
  <1> HIDE DEF j
  <1>3. pc \in ConditionsPcs => ConditionsInv(j, exchange[x])
    BY <1>1 DEF ConditionsPcs, ConditionsInv
  <1>4. pc \in SwappedPcs => SwappedInv(j, exchange[x])
    BY <1>1 DEF SwappedInv, CompletePcs
  <1>5. pc \in RowPcs /\ (pc \in MemPcs => Loaded(mem))
    BY DEF RowPcs, ConditionsPcs, SwappedPcs, CompletePcs, ReleasePcs, MemPcs
  <1>6. JobInv(j, exchange')
    BY <1>1, <1>3, <1>4, <1>5 DEF JobInv
  <1> QED
    BY <1>1, <1>2, <1>6, RowsUnchanged, OthersUnchanged, Preserved

\* The fields of a job that moves to its next statement.
LEMMA GotoFields ==
  ASSUME IInv, NEW s \in Slots, NEW pc \in PCs
  PROVE  LET j == [job[s] EXCEPT !.pc = pc]
         IN  /\ j \in Job /\ j.pc = pc /\ j.user = job[s].user
             /\ j.x = job[s].x /\ j.mem = job[s].mem /\ j.todo = job[s].todo
             /\ Goto(s, pc) => job' = [job EXCEPT ![s] = j]
  <1>1. job[s] \in Job
    BY DEF IInv
  <1> QED
    BY <1>1 DEF Job, Goto

\* From one statement on a row to the next one: what the process relied on is
\* what it will rely on.
Follows(pc, next) ==
    \/ pc = "conditions_insert" /\ next = "conditions_count"
    \/ pc = "conditions_count" /\ next = "conditions_save"
    \/ pc = "complete_save" /\ next = "complete_requested"
    \/ pc = "complete_requested" /\ next = "complete_offered"
    \/ pc = "return_requested" /\ next = "return_offered"
    \/ pc = "return_offered" /\ next = "return_save"
    \/ pc = "expire_requested" /\ next = "expire_offered"

LEMMA GotoPreserved ==
  ASSUME IInv, RowsStep, RowsQuiet, OthersStep, NEW s \in Slots,
         NEW pc, NEW next \in PCs, At(s, pc), Follows(pc, next), Goto(s, next)
  PROVE  Kept
  <1> DEFINE j == [job[s] EXCEPT !.pc = next]
  <1>1. /\ j \in Job /\ j.pc = next /\ j.user = job[s].user /\ j.x = job[s].x
        /\ j.mem = job[s].mem /\ j.todo = job[s].todo
        /\ job' = [job EXCEPT ![s] = j]
    BY GotoFields
  <1> HIDE DEF j
  <1>2. JobInv(job[s], exchange') /\ job[s].pc = pc
    BY JobInvStable DEF IInv, RowsStep, At
  <1>3. /\ pc \in RowPcs
        /\ next \in MemPcs => pc \in MemPcs
        /\ next \in SwappedPcs => pc \in SwappedPcs
        /\ next \in CompletePcs => pc \in CompletePcs
        /\ next \in ConditionsPcs =>
              pc \in ConditionsPcs /\ pc # "conditions_save"
        /\ next \notin {"approve_save", "complete_save", "create_insert",
                        "auto_requester_only", "auto_owner_only",
                        "accept_commit"}
    BY DEF Follows, RowPcs, ConditionsPcs, SwappedPcs, CompletePcs, ReleasePcs, MemPcs
  <1>4. next \in ConditionsPcs => ConditionsInv(j, exchange'[j.x])
    BY <1>1, <1>2, <1>3 DEF JobInv, ConditionsInv
  <1>5. next \in SwappedPcs => SwappedInv(j, exchange'[j.x])
    BY <1>1, <1>2, <1>3 DEF JobInv, SwappedInv
  <1>6. JobInv(j, exchange')
    BY <1>1, <1>2, <1>3, <1>4, <1>5 DEF JobInv
  <1> QED
    BY <1>1, <1>3, <1>6, Preserved

\* A transition touches the status and completed_at only.
LEMMA TransitionTo ==
  ASSUME NEW r \in Row, NEW new \in Statuses
  PROVE  LET m == transition_to(r, new)
         IN  /\ m \in Row /\ m.status = new
             /\ m.requester = r.requester /\ m.owner = r.owner
             /\ m.requested = r.requested /\ m.offered = r.offered
             /\ m.counterBy = r.counterBy /\ m.approvedBy = r.approvedBy
             /\ m.accepted = r.accepted /\ m.confirmed = r.confirmed
             /\ TermsOf(m) = TermsOf(r)
  <1> DEFINE c == r.completedAt \/ new \in COMPLETED_STATUSES
             m == [r EXCEPT !.status = new, !.completedAt = c]
  <1>1. c \in BOOLEAN
    OBVIOUS
  <1>2. transition_to(r, new) = m
    BY DEF transition_to
  <1> HIDE DEF c
  <1>3. /\ m \in Row /\ m.status = new
        /\ m.requester = r.requester /\ m.owner = r.owner
        /\ m.requested = r.requested /\ m.offered = r.offered
        /\ m.counterBy = r.counterBy /\ m.approvedBy = r.approvedBy
        /\ m.accepted = r.accepted /\ m.confirmed = r.confirmed
        /\ TermsOf(m) = TermsOf(r)
    <2>1. m \in Row
      BY <1>1 DEF Row
    <2> QED BY <2>1 DEF Row, TermsOf
  <1> QED
    BY <1>2, <1>3

LEMMA ConditionsReadInv ==
  ASSUME IInv, NEW s \in Slots, NEW u \in Users, NEW x \in Exchanges,
         ConditionsRead(s, u, x)
  PROVE  Kept
  <1>1. /\ Start(s, "conditions_insert", u, x, exchange[x])
        /\ UNCHANGED <<exchange, book, blocks, swapCount>>
        /\ exchange[x].status \in {"accepted", "conditions_pending"}
        /\ u \in Both(exchange[x])
    BY DEF ConditionsRead, Visible, Parties, Both
  <1>2. RowInv(exchange[x])
    BY DEF IInv
  <1>3. /\ exchange[x] \in Row /\ Loaded(exchange[x])
        /\ Agreed(exchange[x]) /\ Decided(exchange[x])
    BY <1>1, <1>2 DEF RowInv, Holding, Decided
  <1> QED
    BY <1>1, <1>3, LoadedStart DEF SwappedPcs, CompletePcs

LEMMA ConditionsInsertInv ==
  ASSUME IInv, NEW s \in Slots, ConditionsInsert(s) PROVE Kept
  <1> DEFINE x == job[s].x
             r == exchange[x]
             q == [r EXCEPT !.accepted = @ \cup {job[s].user}]
  <1>1. /\ At(s, "conditions_insert")
        /\ UNCHANGED <<book, blocks, swapCount>>
        /\ exchange' = [exchange EXCEPT ![x] = q]
        /\ x \in Exchanges /\ r.status # "absent" /\ job[s].user \in Both(r)
    BY DEF ConditionsInsert, At, IInv, JobInv, RowPcs, ConditionsPcs,
           ConditionsInv
  <1>2. RowInv(r) /\ r \in Row /\ job[s].user \in Users
    BY <1>1 DEF IInv, RowInv, Loaded, Both
  <1>3. /\ q \in Row /\ q.accepted = r.accepted \cup {job[s].user}
        /\ q.status = r.status /\ q.requester = r.requester
        /\ q.owner = r.owner /\ q.requested = r.requested
        /\ q.offered = r.offered /\ q.counterBy = r.counterBy
        /\ q.approvedBy = r.approvedBy /\ q.confirmed = r.confirmed
        /\ TermsOf(q) = TermsOf(r)
    BY <1>2 DEF Row, TermsOf
  <1> HIDE DEF q
  <1>4. RowInv(q)
    BY <1>1, <1>2, <1>3, AlternateKept DEF RowInv, Loaded, Both, Agreed
  <1>5. RowStep(r, q) /\ Quiet(r, q)
    BY <1>1, <1>3 DEF RowStep, Quiet, Decided, Agreed
  <1>6. RowsStep /\ RowsQuiet /\ OthersStep
    BY <1>1, <1>4, <1>5, RowReplaced, OthersUnchanged
  <1>7. CASE Done(s)
    BY <1>6, <1>7, DonePreserved
  <1>8. CASE Goto(s, "conditions_count")
    <2>1. "conditions_count" \in PCs
             /\ Follows("conditions_insert", "conditions_count")
      BY DEF PCs, Follows
    <2> QED
      BY <1>1, <1>6, <1>8, <2>1, GotoPreserved
  <1> QED
    BY <1>7, <1>8 DEF ConditionsInsert

LEMMA ConditionsCountInv ==
  ASSUME IInv, NEW s \in Slots, ConditionsCount(s) PROVE Kept
  <1> DEFINE r == exchange[job[s].x]
             mem == job[s].mem
             new == IF both_conditions_accepted(job[s].x) THEN "active"
                    ELSE "conditions_pending"
  <1>1. /\ At(s, "conditions_count")
        /\ UNCHANGED <<exchange, book, blocks, swapCount>>
    BY DEF ConditionsCount
  <1>2. RowsStep /\ RowsQuiet /\ OthersStep
    BY <1>1, RowsUnchanged, OthersUnchanged
  <1>3. /\ job[s] \in Job /\ JobInv(job[s], exchange)
        /\ job[s].pc = "conditions_count"
        /\ ConditionsInv(job[s], r) /\ Loaded(mem)
        /\ job[s].x \in Exchanges /\ r.status # "absent"
    BY <1>1 DEF At, IInv, JobInv, RowPcs, MemPcs, ConditionsPcs
  <1>4. /\ new \in {"active", "conditions_pending"}
        /\ new = "active" => r.accepted = Both(r)
    BY DEF both_conditions_accepted, Parties, Both
  <1> HIDE DEF new
  <1>5. CASE job' = [job EXCEPT ![s].pc = "conditions_save",
                                ![s].mem = transition_to(mem, new)]
    <2> DEFINE m == transition_to(mem, new)
               j == [job[s] EXCEPT !.pc = "conditions_save", !.mem = m]
    <2>1. mem \in Row
      BY <1>3 DEF Job
    <2>2. /\ m \in Row /\ m.status = new /\ m.requester = mem.requester
          /\ m.owner = mem.owner /\ m.requested = mem.requested
          /\ m.offered = mem.offered
      <3>1. new \in Statuses
        BY <1>4 DEF Statuses
      <3> QED
        BY <2>1, <3>1, TransitionTo
    <2> HIDE DEF m
    <2>3. /\ j \in Job /\ j.pc = "conditions_save" /\ j.user = job[s].user
          /\ j.x = job[s].x /\ j.mem = m /\ j.todo = job[s].todo
      BY <1>3, <2>2 DEF Job, PCs
    <2>4. job' = [job EXCEPT ![s] = j]
      BY <1>5 DEF IInv, m
    <2> HIDE DEF j
    <2>5. ConditionsInv(j, r)
      BY <1>3, <1>4, <2>2, <2>3 DEF ConditionsInv
    <2>6. Loaded(m)
      BY <1>3, <2>2 DEF Loaded
    <2>7. JobInv(j, exchange')
      BY <1>1, <1>3, <2>3, <2>5, <2>6
         DEF JobInv, RowPcs, ConditionsPcs, SwappedPcs, CompletePcs, ReleasePcs
    <2> QED
      BY <1>2, <2>3, <2>4, <2>7, Preserved
  <1>6. CASE Goto(s, "conditions_save")
    <2>1. "conditions_save" \in PCs
             /\ Follows("conditions_count", "conditions_save")
      BY DEF PCs, Follows
    <2> QED
      BY <1>1, <1>2, <1>6, <2>1, GotoPreserved
  <1>7. CASE Done(s)
    BY <1>2, <1>7, DonePreserved
  <1> QED
    BY <1>5, <1>6, <1>7 DEF ConditionsCount, new

LEMMA ConditionsSaveInv ==
  ASSUME IInv, NEW s \in Slots, ConditionsSave(s) PROVE Kept
  <1> DEFINE x == job[s].x
             st == job[s].mem.status
  <1>1. /\ Done(s) /\ UNCHANGED <<book, blocks, swapCount>>
        /\ exchange' = [exchange EXCEPT ![x].status = st]
    BY DEF ConditionsSave
  <1>2. /\ x \in Exchanges /\ exchange[x].status # "absent"
        /\ Agreed(exchange[x])
        /\ st \in {"accepted", "conditions_pending", "active"}
        /\ st = "active" => exchange[x].accepted = Both(exchange[x])
    BY DEF ConditionsSave, At, IInv, JobInv, RowPcs, ConditionsPcs,
           ConditionsInv
  <1> HIDE DEF st
  <1>3. /\ st \in Statuses \ {"absent", "pending"} /\ st \notin Swapped
        /\ st \in Swapped \cup {"active"} => st = "active"
    BY <1>2 DEF Statuses, Swapped
  <1>4. RowsStep /\ RowsQuiet
    BY <1>1, <1>2, <1>3, StatusSaved
  <1> QED
    BY <1>1, <1>4, OthersUnchanged, DonePreserved

LEMMA ConfirmSwapInv ==
  ASSUME IInv, NEW u \in Users, NEW x \in Exchanges, ConfirmSwap(u, x)
  PROVE  Kept
  <1> DEFINE r == exchange[x]
             row == [r EXCEPT !.confirmed = @ \cup {u}]
             m == transition_to(row, "swap_confirmed")
             q == IF is_swap_confirmed(row) THEN m ELSE row
  <1>1. /\ UNCHANGED <<book, blocks, job>>
        /\ exchange' = [exchange EXCEPT ![x] = q]
        /\ r.status = "active" /\ u \in Both(r)
        /\ swapCount' = [v \in Users |-> IF v \in Credited(row)
                                         THEN swapCount[v] + 1
                                         ELSE swapCount[v]]
    BY DEF ConfirmSwap, MayConfirm, Visible, Parties, Both
  <1>2. RowInv(r) /\ r \in Row
    BY DEF IInv, RowInv
  <1>3. /\ row \in Row /\ row.confirmed = r.confirmed \cup {u}
        /\ row.status = r.status /\ row.requester = r.requester
        /\ row.owner = r.owner /\ row.requested = r.requested
        /\ row.offered = r.offered /\ row.counterBy = r.counterBy
        /\ row.approvedBy = r.approvedBy /\ row.accepted = r.accepted
        /\ TermsOf(row) = TermsOf(r)
    BY <1>2 DEF Row, TermsOf
  <1> HIDE DEF row
  <1>4. /\ m \in Row /\ m.status = "swap_confirmed"
        /\ m.requester = row.requester /\ m.owner = row.owner
        /\ m.requested = row.requested /\ m.offered = row.offered
        /\ m.counterBy = row.counterBy /\ m.approvedBy = row.approvedBy
        /\ m.accepted = row.accepted /\ m.confirmed = row.confirmed
        /\ TermsOf(m) = TermsOf(row)
    <2>1. "swap_confirmed" \in Statuses
      BY DEF Statuses
    <2> QED
      BY <1>3, <2>1, TransitionTo
  <1> HIDE DEF m
  <1>5. RowInv(q) /\ RowStep(r, q) /\ Quiet(r, q)
    <2>1. Agreed(r) /\ r.accepted = Both(r)
      BY <1>1, <1>2 DEF RowInv, Holding
    <2>2. CASE is_swap_confirmed(row)
      <3>1. q = m /\ m.confirmed = Both(m)
        BY <1>4, <2>2 DEF is_swap_confirmed, Both
      <3>2. RowInv(m)
        BY <1>1, <1>2, <1>3, <1>4, <2>1, <3>1, AlternateKept
           DEF RowInv, Loaded, Both, Agreed
      <3>3. RowStep(r, m) /\ Quiet(r, m)
        BY <1>1, <1>3, <1>4 DEF RowStep, Quiet, Decided, Agreed
      <3> QED
        BY <3>1, <3>2, <3>3
    <2>3. CASE ~is_swap_confirmed(row)
      <3>1. RowInv(row)
        BY <1>1, <1>2, <1>3, <2>1, AlternateKept
           DEF RowInv, Loaded, Both, Agreed, Swapped
      <3>2. RowStep(r, row) /\ Quiet(r, row)
        BY <1>1, <1>3 DEF RowStep, Quiet, Decided, Agreed
      <3> QED
        BY <2>3, <3>1, <3>2
    <2> QED
      BY <2>2, <2>3
  <1> HIDE DEF q
  <1>6. RowsStep /\ RowsQuiet
    BY <1>1, <1>5, RowReplaced
  <1>7. OthersStep
    BY <1>1 DEF IInv, OthersStep, OwnersMove
  <1> QED
    BY <1>1, <1>6, <1>7, NoJobPreserved

LEMMA CompleteReadInv ==
  ASSUME IInv, NEW s \in Slots, NEW u \in Users, NEW x \in Exchanges,
         CompleteRead(s, u, x)
  PROVE  Kept
  <1>1. /\ Start(s, "complete_save", u, x, exchange[x])
        /\ UNCHANGED <<exchange, book, blocks, swapCount>>
        /\ exchange[x].status = "swap_confirmed"
    BY DEF CompleteRead
  <1>2. RowInv(exchange[x])
    BY DEF IInv
  <1>3. /\ exchange[x] \in Row /\ Loaded(exchange[x])
        /\ SwappedInv(Idle, exchange[x])
    BY <1>1, <1>2 DEF RowInv, Holding, Swapped, SwappedInv, Decided,
                        Idle, Serving, CompletePcs
  <1> QED
    BY <1>1, <1>3, LoadedStart

\* A status saved after the swap was confirmed.
LEMMA SwappedSaved ==
  ASSUME IInv, NEW s \in Slots, job[s].pc \in SwappedPcs,
         NEW st \in {"completed", "return_requested", "returned"},
         exchange' = [exchange EXCEPT ![job[s].x].status = st]
  PROVE  RowsStep /\ RowsQuiet
  <1>1. /\ job[s].x \in Exchanges /\ exchange[job[s].x].status # "absent"
        /\ SwappedInv(job[s], exchange[job[s].x])
    BY DEF IInv, JobInv, RowPcs
  <1>2. st \in Statuses \ {"absent", "pending"}
    BY DEF Statuses
  <1> QED
    BY <1>1, <1>2, StatusSaved DEF SwappedInv

LEMMA CompleteSaveInv ==
  ASSUME IInv, NEW s \in Slots, CompleteSave(s) PROVE Kept
  <1>1. /\ At(s, "complete_save") /\ job[s].pc \in SwappedPcs
        /\ Goto(s, "complete_requested")
        /\ UNCHANGED <<book, blocks, swapCount>>
        /\ job[s].mem \in Row
    BY DEF CompleteSave, At, SwappedPcs, CompletePcs, IInv, Job
  <1>2. transition_to(job[s].mem, "completed").status = "completed"
    <2>1. "completed" \in Statuses
      BY DEF Statuses
    <2> QED
      BY <1>1, <2>1, TransitionTo
  <1>3. exchange' = [exchange EXCEPT ![job[s].x].status = "completed"]
    BY <1>2 DEF CompleteSave
  <1>4. RowsStep /\ RowsQuiet /\ OthersStep
    BY <1>1, <1>3, SwappedSaved, OthersUnchanged
  <1>5. "complete_requested" \in PCs
           /\ Follows("complete_save", "complete_requested")
    BY DEF PCs, Follows
  <1> QED
    BY <1>1, <1>4, <1>5, GotoPreserved

\* Releasing a book is the only change a book sees but being taken.
LEMMA ReleaseTyped ==
  ASSUME IInv, NEW b \in Books, NEW v \in Users, Release(b, v),
         v # book[b].owner =>
             \E x \in Exchanges : /\ exchange[x].permanent
                                  /\ exchange[x].confirmed = Parties(x)
                                  /\ Receives(x, b, v),
         UNCHANGED <<exchange, blocks, swapCount>>
  PROVE  RowsStep /\ RowsQuiet /\ OthersStep
  <1>1. /\ book' \in [Books -> BookRow]
        /\ \A c \in Books : book'[c].owner = IF c = b THEN v ELSE book[c].owner
    BY DEF IInv, Release, BookRow
  <1>2. OwnersMove
    BY <1>1 DEF OwnersMove
  <1> QED
    BY <1>1, <1>2, RowsUnchanged DEF IInv, OthersStep

\* Completing hands a book over only if the exchange is permanent.
LEMMA CompleteBook ==
  ASSUME IInv, NEW s \in Slots, CompleteRequested(s) \/ CompleteOffered(s)
  PROVE  RowsStep /\ RowsQuiet /\ OthersStep
  <1> DEFINE x == job[s].x
             mem == job[s].mem
  <1>1. job[s].pc \in CompletePcs
    BY DEF CompleteRequested, CompleteOffered, At, CompletePcs
  <1>2. /\ x \in Exchanges /\ Loaded(mem) /\ SwappedInv(job[s], exchange[x])
    BY <1>1 DEF IInv, JobInv, RowPcs, SwappedPcs, MemPcs, CompletePcs
  <1>3. /\ exchange[x].confirmed = Parties(x)
        /\ mem.requested = exchange[x].requested
        /\ mem.offered = exchange[x].offered
        /\ mem.requester = exchange[x].requester
        /\ mem.owner = exchange[x].owner
        /\ mem.permanent = exchange[x].permanent
    BY <1>1, <1>2 DEF SwappedInv, TermsOf, Both, Parties
  <1>4. UNCHANGED <<exchange, blocks, swapCount>>
    BY DEF CompleteRequested, CompleteOffered
  <1>5. \A b \in Books : book[b].owner \in Users
    BY DEF IInv, BookRow
  <1>6. CASE CompleteRequested(s)
    <2> DEFINE v == IF mem.permanent THEN mem.requester
                    ELSE book[mem.requested].owner
    <2>1. /\ mem.requested \in Books /\ v \in Users
          /\ Release(mem.requested, v)
      BY <1>2, <1>5, <1>6 DEF CompleteRequested, Loaded
    <2>2. v # book[mem.requested].owner =>
             exchange[x].permanent /\ Receives(x, mem.requested, v)
      BY <1>3 DEF Receives
    <2> QED
      BY <1>2, <1>3, <1>4, <2>1, <2>2, ReleaseTyped
  <1>7. CASE CompleteOffered(s)
    <2> DEFINE v == IF mem.permanent THEN mem.owner
                    ELSE book[mem.offered].owner
    <2>1. /\ mem.offered \in Books /\ v \in Users
          /\ Release(mem.offered, v)
      BY <1>2, <1>5, <1>7 DEF CompleteOffered, Loaded
    <2>2. v # book[mem.offered].owner =>
             exchange[x].permanent /\ Receives(x, mem.offered, v)
      BY <1>3 DEF Receives
    <2> QED
      BY <1>2, <1>3, <1>4, <2>1, <2>2, ReleaseTyped
  <1> QED
    BY <1>6, <1>7

LEMMA ReleaseInv ==
  ASSUME IInv, NEW s \in Slots,
         \/ CompleteRequested(s) \/ CompleteOffered(s)
         \/ ReturnRequested(s) \/ ReturnOffered(s)
         \/ ExpireRequested(s) \/ ExpireOffered(s)
  PROVE  Kept
  <1> DEFINE mem == job[s].mem
  <1>1. \A b \in Books : book[b].owner \in Users
    BY DEF IInv, BookRow
  <1>2. ASSUME \/ ReturnRequested(s) \/ ReturnOffered(s)
                \/ ExpireRequested(s) \/ ExpireOffered(s)
        PROVE  RowsStep /\ RowsQuiet /\ OthersStep
    <2>1. job[s].pc \in MemPcs
      BY <1>2 DEF ReturnRequested, ReturnOffered, ExpireRequested,
                  ExpireOffered, At, MemPcs, SwappedPcs, ReleasePcs
    <2>2. Loaded(mem)
      BY <2>1 DEF IInv, JobInv
    <2>3. PICK b \in Books : Release(b, book[b].owner)
      BY <1>2, <2>2 DEF ReturnRequested, ReturnOffered, ExpireRequested,
                        ExpireOffered, Loaded
    <2>4. UNCHANGED <<exchange, blocks, swapCount>>
      BY <1>2 DEF ReturnRequested, ReturnOffered, ExpireRequested,
                  ExpireOffered
    <2> QED
      BY <1>1, <2>3, <2>4, ReleaseTyped
  <1>4. RowsStep /\ RowsQuiet /\ OthersStep
    BY <1>2, CompleteBook
  <1>5. CASE Done(s)
    BY <1>4, <1>5, DonePreserved
  <1>6. CASE \E pc, next \in PCs :
                At(s, pc) /\ Follows(pc, next) /\ Goto(s, next)
    BY <1>4, <1>6, GotoPreserved
  <1>7. CASE ExpireOffered(s) /\ ~Done(s)
    <2> DEFINE rest == job[s].todo \ {job[s].x}
               j == Serving("expire_conditions", None, None, NoRow, rest, {})
    <2>1. job' = [job EXCEPT ![s] = j] /\ UNCHANGED exchange
      BY <1>7 DEF ExpireOffered
    <2>2. /\ rest \subseteq Exchanges
          /\ \A y \in rest : exchange[y].status # "absent"
      BY DEF IInv, JobInv, Job
    <2>3. /\ j \in Job /\ j.pc = "expire_conditions" /\ j.todo = rest
      BY <2>2, ServingInv, NoRowType DEF PCs
    <2> HIDE DEF j, rest
    <2>4. JobInv(j, exchange')
      BY <2>1, <2>2, <2>3
         DEF JobInv, RowPcs, ConditionsPcs, SwappedPcs, CompletePcs, ReleasePcs, MemPcs
    <2> QED
      BY <1>4, <2>1, <2>3, <2>4, Preserved
  <1>8. /\ CompleteRequested(s) => At(s, "complete_requested")
                                   /\ Goto(s, "complete_offered")
        /\ ReturnRequested(s) => At(s, "return_requested")
                                 /\ Goto(s, "return_offered")
        /\ ReturnOffered(s) => At(s, "return_offered")
                               /\ Goto(s, "return_save")
        /\ ExpireRequested(s) => At(s, "expire_requested")
                                 /\ Goto(s, "expire_offered")
        /\ CompleteOffered(s) => Done(s)
    BY DEF CompleteRequested, ReturnRequested, ReturnOffered, ExpireRequested,
           CompleteOffered
  <1>9. /\ {"complete_requested", "complete_offered", "return_requested",
            "return_offered", "return_save", "expire_requested",
            "expire_offered"} \subseteq PCs
        /\ Follows("complete_requested", "complete_offered")
        /\ Follows("return_requested", "return_offered")
        /\ Follows("return_offered", "return_save")
        /\ Follows("expire_requested", "expire_offered")
    BY DEF PCs, Follows
  <1> QED
    BY <1>5, <1>6, <1>7, <1>8, <1>9

LEMMA RequestReturnReadInv ==
  ASSUME IInv, NEW s \in Slots, NEW u \in Users, NEW x \in Exchanges,
         RequestReturnRead(s, u, x)
  PROVE  Kept
  <1>1. /\ Start(s, "request_return_save", u, x, NoRow)
        /\ UNCHANGED <<exchange, book, blocks, swapCount>>
        /\ exchange[x].status = "swap_confirmed"
    BY DEF RequestReturnRead
  <1>2. RowInv(exchange[x])
    BY DEF IInv
  <1>3. SwappedInv(Idle, exchange[x])
    BY <1>1, <1>2 DEF RowInv, Holding, Swapped, SwappedInv, Decided,
                        Idle, Serving, CompletePcs
  <1> QED
    BY <1>1, <1>3, NoRowType, LoadedStart

LEMMA RequestReturnSaveInv ==
  ASSUME IInv, NEW s \in Slots, RequestReturnSave(s) PROVE Kept
  <1>1. /\ job[s].pc \in SwappedPcs /\ Done(s)
        /\ UNCHANGED <<book, blocks, swapCount>>
        /\ exchange' = [exchange EXCEPT ![job[s].x].status = "return_requested"]
    BY DEF RequestReturnSave, At, SwappedPcs
  <1> QED
    BY <1>1, SwappedSaved, OthersUnchanged, DonePreserved

LEMMA ConfirmReturnReadInv ==
  ASSUME IInv, NEW s \in Slots, NEW u \in Users, NEW x \in Exchanges,
         ConfirmReturnRead(s, u, x)
  PROVE  Kept
  <1> DEFINE r == exchange[x]
             mem == [r EXCEPT !.returned = @ \cup {u}]
             m == transition_to(mem, "returned")
  <1>1. /\ UNCHANGED <<exchange, book, blocks, swapCount>>
        /\ r.status = "return_requested"
        /\ \/ Start(s, "return_requested", u, x, m)
           \/ Start(s, "return_save", u, x, mem)
    BY DEF ConfirmReturnRead
  <1>2. RowInv(r) /\ r \in Row
    BY DEF IInv, RowInv
  <1>3. SwappedInv(Idle, r) /\ Loaded(r)
    BY <1>1, <1>2 DEF RowInv, Holding, Swapped, SwappedInv, Decided,
                        Idle, Serving, CompletePcs
  <1>4. mem \in Row /\ Loaded(mem)
    BY <1>2, <1>3 DEF Row, Loaded
  <1> HIDE DEF mem
  <1>5. m \in Row /\ Loaded(m)
    <2>1. "returned" \in Statuses
      BY DEF Statuses
    <2> QED
      BY <1>4, <2>1, TransitionTo DEF Loaded
  <1> HIDE DEF m
  <1> QED
    BY <1>1, <1>3, <1>4, <1>5, LoadedStart

LEMMA ReturnSaveInv ==
  ASSUME IInv, NEW s \in Slots, ReturnSave(s) PROVE Kept
  <1> DEFINE x == job[s].x
             mem == job[s].mem
             r == exchange[x]
             st == IF mem.status = "returned" THEN "returned" ELSE r.status
             q == [r EXCEPT !.returned = mem.returned, !.status = st]
  <1>1. /\ Done(s) /\ UNCHANGED <<book, blocks, swapCount>>
        /\ At(s, "return_save")
    BY DEF ReturnSave
  <1>2. /\ x \in Exchanges /\ r.status # "absent" /\ SwappedInv(job[s], r)
        /\ mem \in Row
    BY <1>1 DEF At, IInv, JobInv, RowPcs, SwappedPcs, Job
  <1>3. RowInv(r) /\ r \in Row
    BY <1>2 DEF IInv, RowInv
  <1>4. exchange' = [exchange EXCEPT ![x] = q]
    BY <1>2 DEF ReturnSave, IInv
  <1>5. st \in Statuses \ {"absent", "pending"}
    BY <1>2, <1>3 DEF SwappedInv, Decided, Row, Statuses
  <1> HIDE DEF st
  <1>6. /\ q \in Row /\ q.status = st /\ q.requester = r.requester
        /\ q.owner = r.owner /\ q.requested = r.requested
        /\ q.offered = r.offered /\ q.counterBy = r.counterBy
        /\ q.approvedBy = r.approvedBy /\ q.accepted = r.accepted
        /\ q.confirmed = r.confirmed /\ TermsOf(q) = TermsOf(r)
    <2>1. mem.returned \in SUBSET Users /\ st \in Statuses
      BY <1>2, <1>5 DEF Row
    <2> HIDE DEF mem, r
    <2> QED
      BY <1>3, <2>1 DEF Row, TermsOf
  <1> HIDE DEF q
  <1>7. RowInv(q)
    BY <1>2, <1>3, <1>5, <1>6, AlternateKept DEF RowInv, Loaded, Both, Agreed, SwappedInv
  <1>8. RowStep(r, q) /\ Quiet(r, q)
    BY <1>2, <1>5, <1>6 DEF RowStep, Quiet, Decided, Agreed
  <1> QED
    BY <1>1, <1>2, <1>4, <1>7, <1>8, RowReplaced, OthersUnchanged,
       DonePreserved

LEMMA ExpireConditionsListInv ==
  ASSUME IInv, NEW T \in SUBSET Exchanges, ExpireConditionsList(T) PROVE Kept
  <1> DEFINE j == Serving("expire_conditions", None, None, NoRow, T, {})
  <1>1. /\ job' = [job EXCEPT !["expire_stale_conditions"] = j]
        /\ UNCHANGED <<exchange, book, blocks, swapCount>>
        /\ \A x \in T : exchange[x].status # "absent"
    BY DEF ExpireConditionsList, ConditionsListed
  <1>2. /\ j \in Job /\ j.pc = "expire_conditions" /\ j.todo = T
    BY ServingInv, NoRowType DEF PCs
  <1> HIDE DEF j
  <1>3. JobInv(j, exchange')
    BY <1>1, <1>2
       DEF JobInv, RowPcs, ConditionsPcs, SwappedPcs, CompletePcs, ReleasePcs, MemPcs
  <1>4. "expire_stale_conditions" \in Slots
    BY DEF Slots, Beat
  <1> QED
    BY <1>1, <1>2, <1>3, <1>4, RowsUnchanged, OthersUnchanged, Preserved

LEMMA ExpireConditionsSaveInv ==
  ASSUME IInv, NEW s \in Slots, NEW x \in Exchanges,
         ExpireConditionsSave(s, x)
  PROVE  Kept
  <1> DEFINE j == [job[s] EXCEPT !.pc = "expire_requested", !.x = x,
                                 !.mem = exchange[x]]
  <1>1. /\ x \in job[s].todo /\ UNCHANGED <<book, blocks, swapCount>>
        /\ exchange' = [exchange EXCEPT ![x].status = "expired"]
        /\ exchange[x].status # "absent" /\ JobInv(job[s], exchange)
        /\ job[s] \in Job
    BY DEF ExpireConditionsSave, IInv, JobInv
  <1>2. RowsStep /\ RowsQuiet /\ OthersStep
    BY <1>1, StatusSaved, OthersUnchanged DEF Statuses, Holding, Swapped
  <1>3. RowInv(exchange[x]) /\ exchange[x] \in Row /\ Loaded(exchange[x])
    BY <1>1 DEF IInv, RowInv
  <1>4. /\ j \in Job /\ j.pc = "expire_requested" /\ j.x = x
        /\ j.mem = exchange[x] /\ j.todo = job[s].todo
    BY <1>1, <1>3 DEF Job, PCs
  <1>5. job' = [job EXCEPT ![s] = j]
    BY DEF ExpireConditionsSave, IInv
  <1> HIDE DEF j
  <1>6. JobInv(job[s], exchange')
    BY <1>1, <1>2, JobInvStable DEF RowsStep
  <1>7. JobInv(j, exchange')
    BY <1>1, <1>3, <1>4, <1>6
       DEF JobInv, RowPcs, ConditionsPcs, SwappedPcs, CompletePcs, ReleasePcs, MemPcs
  <1> QED
    BY <1>2, <1>4, <1>5, <1>7, Preserved

\* What the weekly task may assume of an exchange it lists.
LEMMA ActiveRow ==
  ASSUME NEW r, RowInv(r), r.status = "active" PROVE AutoInv(r)
  BY DEF RowInv, AutoInv, Decided, Holding

LEMMA AutoRequesterOnlyListInv ==
  ASSUME IInv, NEW T \in SUBSET Exchanges, AutoRequesterOnlyList(T)
  PROVE  Kept
  <1> DEFINE j == Serving("auto_requester_only", None, None, NoRow, T, {})
  <1>1. /\ job' = [job EXCEPT !["auto_confirm_stale_swaps"] = j]
        /\ UNCHANGED <<exchange, book, blocks, swapCount>>
        /\ \A x \in T : /\ exchange[x].status = "active"
                        /\ exchange[x].requester \in exchange[x].confirmed
    BY DEF AutoRequesterOnlyList, RequesterOnly
  <1>2. \A x \in T : AutoInv(exchange[x])
    BY <1>1, ActiveRow DEF IInv
  <1>3. /\ j \in Job /\ j.pc = "auto_requester_only" /\ j.todo = T
    BY ServingInv, NoRowType DEF PCs
  <1> HIDE DEF j
  <1>4. JobInv(j, exchange')
    BY <1>1, <1>2, <1>3
       DEF JobInv, RowPcs, ConditionsPcs, SwappedPcs, CompletePcs, ReleasePcs, MemPcs
  <1>5. "auto_confirm_stale_swaps" \in Slots
    BY DEF Slots, Beat
  <1> QED
    BY <1>1, <1>3, <1>4, <1>5, RowsUnchanged, OthersUnchanged, Preserved

LEMMA AutoOwnerOnlyListInv ==
  ASSUME IInv, NEW s \in Slots, NEW T \in SUBSET Exchanges,
         AutoOwnerOnlyList(s, T)
  PROVE  Kept
  <1> DEFINE j == [job[s] EXCEPT !.pc = "auto_owner_only", !.todo = T]
  <1>1. /\ UNCHANGED <<exchange, book, blocks, swapCount>>
        /\ \A x \in T : /\ exchange[x].status = "active"
                        /\ exchange[x].owner \in exchange[x].confirmed
    BY DEF AutoOwnerOnlyList, OwnerOnly
  <1>2. \A x \in T : AutoInv(exchange[x])
    BY <1>1, ActiveRow DEF IInv
  <1>3. job[s] \in Job
    BY DEF IInv
  <1>4. j \in Job /\ j.pc = "auto_owner_only" /\ j.todo = T
    BY <1>3 DEF Job, PCs
  <1>5. job' = [job EXCEPT ![s] = j]
    BY DEF AutoOwnerOnlyList, IInv
  <1> HIDE DEF j
  <1>6. JobInv(j, exchange')
    BY <1>1, <1>2, <1>4
       DEF JobInv, RowPcs, ConditionsPcs, SwappedPcs, CompletePcs, ReleasePcs, MemPcs
  <1> QED
    BY <1>1, <1>4, <1>5, <1>6, RowsUnchanged, OthersUnchanged, Preserved

LEMMA AutoSaveInv ==
  ASSUME IInv, NEW s \in Slots, NEW x \in Exchanges,
         AutoRequesterOnlySave(s, x) \/ AutoOwnerOnlySave(s, x)
  PROVE  Kept
  <1> DEFINE r == exchange[x]
             j == [job[s] EXCEPT !.todo = @ \ {x},
                                 !.users = @ \cup Parties(x)]
  <1>1. PICK u \in Both(r) : AutoConfirm(s, x, u) /\ r.confirmed \cup {u} = Both(r)
    <2>1. RowInv(r)
      BY DEF IInv
    <2>2. CASE AutoRequesterOnlySave(s, x)
      <3>1. r.requester \in r.confirmed
        BY <2>2 DEF AutoRequesterOnlySave, AutoConfirm, At, IInv, JobInv
      <3> QED
        BY <2>1, <2>2, <3>1 DEF AutoRequesterOnlySave, RowInv, Both
    <2>3. CASE AutoOwnerOnlySave(s, x)
      <3>1. r.owner \in r.confirmed
        BY <2>3 DEF AutoOwnerOnlySave, AutoConfirm, At, IInv, JobInv
      <3> QED
        BY <2>1, <2>3, <3>1 DEF AutoOwnerOnlySave, RowInv, Both
    <2> QED
      BY <2>2, <2>3
  <1>2. /\ job[s].pc \in {"auto_requester_only", "auto_owner_only"}
        /\ x \in job[s].todo /\ JobInv(job[s], exchange) /\ job[s] \in Job
        /\ AutoInv(r) /\ r.status # "absent"
        /\ UNCHANGED <<book, blocks, swapCount>>
    BY DEF AutoRequesterOnlySave, AutoOwnerOnlySave, AutoConfirm, At, IInv,
           JobInv
  <1>3. RowInv(r) /\ r \in Row /\ Loaded(r) /\ u \in Users
    BY <1>2 DEF IInv, RowInv, Loaded, Both
  <1> DEFINE q == [r EXCEPT !.confirmed = @ \cup {u}, !.status = "swap_confirmed"]
  <1>4. exchange' = [exchange EXCEPT ![x] = q]
    BY <1>1 DEF AutoConfirm, IInv
  <1>5. /\ q \in Row /\ q.status = "swap_confirmed"
        /\ q.confirmed = r.confirmed \cup {u}
        /\ q.requester = r.requester /\ q.owner = r.owner
        /\ q.requested = r.requested /\ q.offered = r.offered
        /\ q.counterBy = r.counterBy /\ q.approvedBy = r.approvedBy
        /\ q.accepted = r.accepted /\ TermsOf(q) = TermsOf(r)
    <2>1. r.confirmed \cup {u} \in SUBSET Users /\ "swap_confirmed" \in Statuses
      BY <1>3 DEF Row, Statuses
    <2>2. q \in Row
      BY <1>3, <2>1 DEF Row
    <2> QED BY <1>3, <2>2 DEF Row, TermsOf
  <1> HIDE DEF q
  <1>6. RowInv(q)
    BY <1>1, <1>2, <1>3, <1>5, AlternateKept DEF RowInv, Loaded, Both, Agreed, AutoInv
  <1>7. RowStep(r, q) /\ Quiet(r, q)
    BY <1>2, <1>5 DEF RowStep, Quiet, Decided, Agreed
  <1>8. RowsStep /\ RowsQuiet /\ OthersStep
    BY <1>2, <1>4, <1>6, <1>7, RowReplaced, OthersUnchanged
  <1>9. Parties(x) \subseteq Users
    BY <1>3 DEF Parties, Loaded
  <1>10. /\ j \in Job /\ j.pc = job[s].pc /\ j.todo = job[s].todo \ {x}
    BY <1>2, <1>9 DEF Job
  <1>11. job' = [job EXCEPT ![s] = j]
    BY <1>1, <1>2 DEF AutoConfirm, IInv
  <1> HIDE DEF j
  <1>12. JobInv(job[s], exchange')
    BY <1>2, <1>8, JobInvStable DEF RowsStep
  <1>13. JobInv(j, exchange')
    BY <1>2, <1>10, <1>12
       DEF JobInv, RowPcs, ConditionsPcs, SwappedPcs, CompletePcs, ReleasePcs, MemPcs
  <1> QED
    BY <1>2, <1>8, <1>10, <1>11, <1>13, Preserved

LEMMA AutoCountInv ==
  ASSUME IInv, NEW s \in Slots, AutoCount(s) PROVE Kept
  <1>1. Done(s) /\ UNCHANGED <<exchange, book, blocks>>
    BY DEF AutoCount
  <1>2. swapCount' \in [Users -> Nat]
    BY DEF AutoCount, IInv
  <1>3. OthersStep
    BY <1>1, <1>2 DEF IInv, OthersStep, OwnersMove
  <1> QED
    BY <1>1, <1>3, RowsUnchanged, DonePreserved

LEMMA FulfilmentInv == ASSUME IInv, FulfilmentNext PROVE Kept
  <1>1. CASE \E s \in Workers : FulfilmentRequest(s)
    <2>1. PICK s \in Slots : FulfilmentRequest(s)
      BY <1>1 DEF Slots
    <2> QED
      BY <2>1, ConditionsReadInv, CompleteReadInv, RequestReturnReadInv,
         ConfirmReturnReadInv DEF FulfilmentRequest
  <1>2. CASE \E s \in Slots : FulfilmentStep(s)
    <2>1. PICK s \in Slots : FulfilmentStep(s)
      BY <1>2
    <2>2. CASE ConditionsInsert(s) \/ ConditionsCount(s) \/ ConditionsSave(s)
      BY <2>2, ConditionsInsertInv, ConditionsCountInv, ConditionsSaveInv
    <2>3. CASE CompleteSave(s) \/ RequestReturnSave(s) \/ ReturnSave(s)
      BY <2>3, CompleteSaveInv, RequestReturnSaveInv, ReturnSaveInv
    <2>4. CASE \/ CompleteRequested(s) \/ CompleteOffered(s)
               \/ ReturnRequested(s) \/ ReturnOffered(s)
               \/ ExpireRequested(s) \/ ExpireOffered(s)
      BY <2>4, ReleaseInv
    <2>5. CASE AutoCount(s) \/ \E T \in SUBSET Exchanges : AutoOwnerOnlyList(s, T)
      BY <2>5, AutoCountInv, AutoOwnerOnlyListInv
    <2>6. CASE \E x \in Exchanges : \/ ExpireConditionsSave(s, x)
                                    \/ AutoRequesterOnlySave(s, x)
                                    \/ AutoOwnerOnlySave(s, x)
      BY <2>6, ExpireConditionsSaveInv, AutoSaveInv
    <2> QED
      BY <2>1, <2>2, <2>3, <2>4, <2>5, <2>6 DEF FulfilmentStep
  <1> QED
    BY <1>1, <1>2, ConfirmSwapInv, ExpireConditionsListInv,
       AutoRequesterOnlyListInv DEF FulfilmentNext

LEMMA CrashInv == ASSUME IInv, NEW s \in Slots, Crash(s) PROVE Kept
  <1>1. Done(s) /\ UNCHANGED <<exchange, book, blocks, swapCount>>
    BY DEF Crash
  <1> QED
    BY <1>1, RowsUnchanged, OthersUnchanged, DonePreserved

-----------------------------------------------------------------------------
(* The theorems. *)

LEMMA NextInv == ASSUME IInv, [Next]_vars PROVE Kept
  <1>1. CASE Next
    BY <1>1, NegotiationInv, FulfilmentInv, CrashInv DEF Next
  <1>2. CASE UNCHANGED vars
    <2>1. UNCHANGED <<exchange, book, blocks, swapCount, job>>
      BY <1>2 DEF vars
    <2> QED
      BY <2>1, RowsUnchanged, OthersUnchanged, NoJobPreserved
  <1> QED
    BY <1>1, <1>2

\* The strengthening holds in every reachable state.  (every handler of
\* views.py and trust_safety/views.py, every task of tasks.py)
THEOREM InductiveInvariant == Spec => []IInv
  <1>1. Init => IInv
    BY InitInv
  <1>2. IInv /\ [Next]_vars => IInv'
    BY NextInv DEF Kept
  <1> QED
    BY <1>1, <1>2, PTL DEF Spec

\* Every column and every in-memory instance keeps its type: in particular
\* no counter passes the maximum, and no save writes a status that is not one.
THEOREM TypeCorrect == Spec => []TypeOK
  <1>1. IInv => TypeOK
    BY DEF IInv, TypeOK
  <1> QED
    BY <1>1, InductiveInvariant, PTL

\* However requests, tasks and crashes interleave, an exchange is carried out
\* on the original offer or on a counter-offer somebody approved.  (accept,
\* approve_counter and counter, views.py)
THEOREM AgreedTermsHold == Spec => []AgreedTerms
  <1>1. IInv => AgreedTerms
    BY DEF IInv, AgreedTerms, RowInv, Agreed
  <1> QED
    BY <1>1, InductiveInvariant, PTL

\* Nobody ever makes two counter-offers in a row, however counter-offers,
\* approvals and stale saves interleave.  (counter, views.py)
THEOREM CountersTakeTurns == Spec => []CountersAlternate
  <1>1. IInv => CountersAlternate
    BY DEF IInv, CountersAlternate, RowInv, Alternate, Both, Parties
  <1> QED
    BY <1>1, InductiveInvariant, PTL

\* Two create requests that overlap never leave a requester with two pending
\* requests for a book.  (the unique constraint, models.py)
THEOREM OnePendingRequestHolds == Spec => []OnePendingRequest
  <1>1. IInv => OnePendingRequest
    BY DEF IInv
  <1> QED
    BY <1>1, InductiveInvariant, PTL

\* However stale instances are saved, no exchange is active or swapped before
\* both parties accepted the conditions.  (accept_conditions, views.py)
THEOREM ConditionsBeforeActive == Spec => []ActiveNeedsBothConditions
  <1>1. IInv => ActiveNeedsBothConditions
    BY DEF IInv, ActiveNeedsBothConditions, RowInv, Both, Parties
  <1> QED
    BY <1>1, InductiveInvariant, PTL

\* No exchange counts as swapped, is completed or returned before both
\* confirmations are recorded.  (confirm_swap, complete, confirm_return;
\* auto_confirm_stale_swaps)
THEOREM ConfirmationsBeforeSwap == Spec => []SwappedNeedsBothConfirmations
  <1>1. IInv => SwappedNeedsBothConfirmations
    BY DEF IInv, SwappedNeedsBothConfirmations, RowInv, Both, Parties
  <1> QED
    BY <1>1, InductiveInvariant, PTL

\* No save, however stale its instance, loses an acceptance of the conditions
\* or a confirmation of the swap.  (the update_fields of every save)
THEOREM ConfirmationsAreKept == Spec => ConfirmationsKept
  <1> DEFINE A == \A x \in Exchanges :
                    /\ exchange[x].accepted \subseteq exchange'[x].accepted
                    /\ exchange[x].confirmed \subseteq exchange'[x].confirmed
  <1>1. IInv /\ [Next]_vars => A
    BY NextInv DEF Kept, RowsStep, RowStep
  <1> QED
    BY <1>1, InductiveInvariant, PTL DEF Spec, ConfirmationsKept

\* Once a request is decided it is never pending again and nothing that was
\* agreed changes.  (counter re-reads the status under its lock; no other
\* save writes those columns)
THEOREM TermsAreFrozen == Spec => TermsFrozen
  <1> DEFINE A == \A x \in Exchanges :
                    exchange[x].status \notin {"absent", "pending"} =>
                      /\ exchange'[x].status \notin {"absent", "pending"}
                      /\ Terms(x)' = Terms(x)
                      /\ exchange[x].approvedBy # None =>
                            exchange'[x].approvedBy # None
  <1>1. IInv /\ [Next]_vars => A
    BY NextInv DEF Kept, RowsStep, RowStep, Decided, TermsOf, Terms
  <1> QED
    BY <1>1, InductiveInvariant, PTL DEF Spec, TermsFrozen

\* A book never changes hands but by a permanent exchange of it that both
\* parties confirmed, even when completions, returns, tasks and crashes
\* interleave.  (complete, confirm_return, expire_stale_conditions)
THEOREM OwnershipIsSafe == Spec => OwnershipMovesBySwap
  <1> DEFINE A == \A b \in Books : book'[b].owner # book[b].owner =>
                    \E x \in Exchanges :
                       /\ exchange[x].permanent
                       /\ exchange[x].confirmed = Parties(x)
                       /\ Receives(x, b, book'[b].owner)
  <1>1. IInv /\ [Next]_vars => A
    BY NextInv DEF Kept, OwnersMove
  <1> QED
    BY <1>1, InductiveInvariant, PTL DEF Spec, OwnershipMovesBySwap

-----------------------------------------------------------------------------
(* The calls behind a set of controls. *)

Hooks == {"useCounterExchange", "useApproveCounter", "useAcceptExchange",
          "useDeclineExchange", "useCancelExchange", "useAcceptConditions",
          "useConfirmSwap", "useCompleteExchange", "useRequestReturn",
          "useConfirmReturn"}

LEMMA CallsOfUnion ==
  ASSUME NEW A, NEW B PROVE Calls(A \union B) = Calls(A) \union Calls(B)
  BY DEF Calls

LEMMA CallsOfThree ==
  ASSUME NEW A, NEW B, NEW C
  PROVE  Calls(A \union B \union C) = Calls(A) \union Calls(B) \union Calls(C)
  <1>1. Calls(A \union B \union C) = Calls(A \union B) \union Calls(C)
    BY CallsOfUnion
  <1> QED BY <1>1, CallsOfUnion

LEMMA CallsOfFour ==
  ASSUME NEW A, NEW B, NEW C, NEW D
  PROVE  Calls(A \union B \union C \union D)
           = Calls(A) \union Calls(B) \union Calls(C) \union Calls(D)
  <1>1. Calls(A \union B \union C \union D) = Calls(A \union B \union C) \union Calls(D)
    BY CallsOfUnion
  <1> QED BY <1>1, CallsOfThree

LEMMA CallsOfNone == Calls({}) = {}
  BY DEF Calls

LEMMA CallsOfPress ==
  ASSUME NEW c, c.call \in Hooks, c.moves = <<>> PROVE Calls({c}) = {c.call}
  <1>1. Mobile!Targets(c) = {}
    BY DEF Mobile!Targets
  <1>2. Mobile!Calls(c)
    BY DEF Mobile!Calls, Mobile!NotCalls, Hooks
  <1> QED BY <1>1, <1>2 DEF Calls

\* The buttons of both apps, disabled while their call runs or not.
LEMMA CallsOfButton ==
  ASSUME NEW hook \in Hooks
  PROVE  /\ Calls({Mobile!Call(hook, <<>>)}) = {hook}
         /\ Calls({Mobile!Once(hook, <<>>)}) = {hook}
         /\ Calls({Web!Once(hook, <<>>)}) = {hook}
  <1>1. /\ Mobile!Call(hook, <<>>).call = hook /\ Mobile!Call(hook, <<>>).moves = <<>>
        /\ Mobile!Once(hook, <<>>).call = hook /\ Mobile!Once(hook, <<>>).moves = <<>>
        /\ Web!Once(hook, <<>>).call = hook /\ Web!Once(hook, <<>>).moves = <<>>
    BY DEF Mobile!Call, Mobile!Once, Mobile!Press, Web!Once, Web!Call, Web!Press
  <1> QED BY <1>1, CallsOfPress

LEMMA CallsOfCounterOffer == Calls({Mobile!Open("CounterOffer")}) = {"useCounterExchange"}
  <1> DEFINE c == Mobile!Open("CounterOffer")
  <1>1. c.call = "none" /\ c.moves = <<Mobile!Here("CounterOffer")>>
    BY DEF Mobile!Open, Mobile!Press
  <1>2. ~Mobile!Calls(c)
    BY <1>1 DEF Mobile!Calls, Mobile!NotCalls
  <1>3. Mobile!Here("CounterOffer") \in Mobile!Targets(c)
    BY <1>1 DEF Mobile!Targets
  <1> QED BY <1>2, <1>3 DEF Calls

\* A button that is shown on a condition.
LEMMA CallsOfWhen ==
  ASSUME NEW p \in BOOLEAN, NEW controls
  PROVE  /\ Calls(Mobile!When(p, controls)) = IF p THEN Calls(controls) ELSE {}
         /\ Calls(Web!When(p, controls)) = IF p THEN Calls(controls) ELSE {}
  BY CallsOfNone DEF Mobile!When, Web!When

Shown(p, hook) == IF p THEN {hook} ELSE {}

-----------------------------------------------------------------------------
(* What both apps offer of a row. *)

LEMMA ViewFields ==
  ASSUME NEW u, NEW x
  PROVE  LET v   == View(u, x)
             row == exchange[x]
         IN  /\ v.status = row.status /\ v.permanent = row.permanent
             /\ v.owner = (u = row.owner) /\ v.mine = (u = row.counterBy)
             /\ v.countered = (row.counterBy # None)
             /\ v.approved = (row.approvedBy # None)
             /\ v.remaining = (row.counters[u] < MaxCounters)
             /\ v.accepted = (u \in row.accepted)
             /\ v.confirmed = (u \in row.confirmed)
             /\ v.returned = (u \in row.returned)
  BY DEF View

\* The open counter-offer waits for an approval; this user may make the next one.
Waits(v) == v.countered /\ ~v.approved
MayGoOn(v) == ~Waits(v) /\ ~v.mine /\ v.remaining

\* A user's view that says yes or no to each question.
Decisive(v) ==
    /\ v.owner \in BOOLEAN /\ v.mine \in BOOLEAN /\ v.countered \in BOOLEAN
    /\ v.approved \in BOOLEAN /\ v.remaining \in BOOLEAN /\ v.permanent \in BOOLEAN
    /\ v.accepted \in BOOLEAN /\ v.confirmed \in BOOLEAN /\ v.returned \in BOOLEAN
    /\ ~v.countered => ~v.mine

LEMMA MobilePending ==
  ASSUME NEW v, Decisive(v), v.status = "pending"
  PROVE  Calls(Mobile!DetailActions(v)) =
            Shown(Waits(v) /\ ~v.mine, "useApproveCounter")
               \union (IF v.owner
                       THEN {"useDeclineExchange"}
                               \union Shown(~Waits(v), "useAcceptExchange")
                               \union Shown(MayGoOn(v), "useCounterExchange")
                       ELSE {"useCancelExchange"}
                               \union Shown(v.countered /\ MayGoOn(v), "useCounterExchange"))
  <1>1. Mobile!DetailActions(v) = IF v.owner THEN Mobile!OwnerPending(v)
                                             ELSE Mobile!RequesterPending(v)
    BY DEF Mobile!DetailActions
  <1>2. Calls(Mobile!ApproveCounter(v)) = Shown(Waits(v) /\ ~v.mine, "useApproveCounter")
    BY CallsOfButton, CallsOfWhen
       DEF Mobile!ApproveCounter, Mobile!pendingApproval, Waits, Shown, Hooks, Decisive
  <1>3. Calls(Mobile!DeclineReasonSheet) = {"useDeclineExchange"}
    BY CallsOfButton DEF Mobile!DeclineReasonSheet, Hooks
  <1>4. Calls(Mobile!When(~Mobile!pendingApproval(v), {Mobile!Call("useAcceptExchange", <<>>)}))
          = Shown(~Waits(v), "useAcceptExchange")
    BY CallsOfButton, CallsOfWhen DEF Mobile!pendingApproval, Waits, Shown, Hooks, Decisive
  <1>5. Calls(Mobile!When(Mobile!canOwnerCounter(v) /\ ~Mobile!pendingApproval(v),
                          {Mobile!Open("CounterOffer")}))
          = Shown(MayGoOn(v), "useCounterExchange")
    BY CallsOfCounterOffer, CallsOfWhen
       DEF Mobile!pendingApproval, Mobile!canOwnerCounter, Waits, MayGoOn, Shown, Decisive
  <1>6. Calls(Mobile!When(Mobile!canRequesterCounter(v) /\ ~Mobile!pendingApproval(v),
                          {Mobile!Open("CounterOffer")}))
          = Shown(v.countered /\ MayGoOn(v), "useCounterExchange")
    BY CallsOfCounterOffer, CallsOfWhen
       DEF Mobile!pendingApproval, Mobile!canRequesterCounter, Waits, MayGoOn, Shown, Decisive
  <1>7. Calls({Mobile!Call("useCancelExchange", <<>>)}) = {"useCancelExchange"}
    BY CallsOfButton DEF Hooks
  <1>8. CASE v.owner
    <2>1. Mobile!DetailActions(v) = Mobile!OwnerPending(v)
      BY <1>1, <1>8
    <2>2. Calls(Mobile!OwnerPending(v)) =
            Shown(Waits(v) /\ ~v.mine, "useApproveCounter") \union {"useDeclineExchange"}
              \union Shown(~Waits(v), "useAcceptExchange")
              \union Shown(MayGoOn(v), "useCounterExchange")
      <3> DEFINE A == Mobile!ApproveCounter(v)
                 B == Mobile!DeclineReasonSheet
                 C == Mobile!When(~Mobile!pendingApproval(v),
                               {Mobile!Call("useAcceptExchange", <<>>)})
                 D == Mobile!When(Mobile!canOwnerCounter(v) /\ ~Mobile!pendingApproval(v),
                               {Mobile!Open("CounterOffer")})
      <3>1. Mobile!OwnerPending(v) = A \union B \union C \union D
        BY DEF Mobile!OwnerPending
      <3>2. /\ Calls(A) = Shown(Waits(v) /\ ~v.mine, "useApproveCounter")
            /\ Calls(B) = {"useDeclineExchange"}
            /\ Calls(C) = Shown(~Waits(v), "useAcceptExchange")
            /\ Calls(D) = Shown(MayGoOn(v), "useCounterExchange")
        BY <1>2, <1>3, <1>4, <1>5
      <3> HIDE DEF A, B, C, D
      <3>3. Calls(A \union B \union C \union D) = Calls(A \union B \union C) \union Calls(D)
        BY CallsOfUnion
      <3>4. Calls(A \union B \union C) = Calls(A) \union Calls(B) \union Calls(C)
        BY CallsOfThree
      <3> QED BY <3>1, <3>2, <3>3, <3>4, Zenon
    <2> QED BY <2>1, <2>2, <1>8
  <1>9. CASE ~v.owner
    <2>1. Mobile!DetailActions(v) = Mobile!RequesterPending(v)
      BY <1>1, <1>9
    <2>2. Calls(Mobile!RequesterPending(v)) =
            Shown(Waits(v) /\ ~v.mine, "useApproveCounter") \union {"useCancelExchange"}
              \union Shown(v.countered /\ MayGoOn(v), "useCounterExchange")
      <3> DEFINE A == Mobile!ApproveCounter(v)
                 B == {Mobile!Call("useCancelExchange", <<>>)}
                 C == Mobile!When(Mobile!canRequesterCounter(v) /\ ~Mobile!pendingApproval(v),
                               {Mobile!Open("CounterOffer")})
      <3>1. Mobile!RequesterPending(v) = A \union B \union C
        BY DEF Mobile!RequesterPending
      <3>2. /\ Calls(A) = Shown(Waits(v) /\ ~v.mine, "useApproveCounter")
            /\ Calls(B) = {"useCancelExchange"}
            /\ Calls(C) = Shown(v.countered /\ MayGoOn(v), "useCounterExchange")
        BY <1>2, <1>7, <1>6
      <3> HIDE DEF A, B, C
      <3> QED BY <3>1, <3>2, CallsOfThree
    <2> QED BY <2>1, <2>2, <1>9
  <1> QED BY <1>8, <1>9

LEMMA WebPending ==
  ASSUME NEW v, Decisive(v), v.status = "pending"
  PROVE  Calls(Web!DetailActions(v)) = Calls(Mobile!DetailActions(v))
  <1>1. Web!DetailActions(v) = IF v.owner THEN Web!OwnerPending(v)
                                          ELSE Web!RequesterPending(v)
    BY DEF Web!DetailActions
  <1>2. Calls(Web!ApproveCounter(v)) = Shown(Waits(v) /\ ~v.mine, "useApproveCounter")
    BY CallsOfButton, CallsOfWhen
       DEF Web!ApproveCounter, Web!pendingApproval, Waits, Shown, Hooks, Decisive
  <1>3. Calls({Web!Once("useDeclineExchange", <<>>)}) = {"useDeclineExchange"}
    BY CallsOfButton DEF Hooks
  <1>4. Calls(Web!When(~Web!pendingApproval(v), {Web!Once("useAcceptExchange", <<>>)}))
          = Shown(~Waits(v), "useAcceptExchange")
    BY CallsOfButton, CallsOfWhen DEF Web!pendingApproval, Waits, Shown, Hooks, Decisive
  <1>5. Calls(Web!When(Web!canOwnerCounter(v), Web!CounterPicker))
          = Shown(MayGoOn(v), "useCounterExchange")
    BY CallsOfButton, CallsOfWhen
       DEF Web!pendingApproval, Web!canOwnerCounter, Web!CounterPicker, Waits, MayGoOn,
           Shown, Decisive, Hooks
  <1>6. Calls(Web!When(Web!canRequesterCounter(v), Web!CounterPicker))
          = Shown(v.countered /\ MayGoOn(v), "useCounterExchange")
    BY CallsOfButton, CallsOfWhen
       DEF Web!pendingApproval, Web!canRequesterCounter, Web!CounterPicker, Waits, MayGoOn,
           Shown, Decisive, Hooks
  <1>7. Calls({Web!Once("useCancelExchange", <<>>)}) = {"useCancelExchange"}
    BY CallsOfButton DEF Hooks
  <1>8. CASE v.owner
    <2>1. Web!DetailActions(v) = Web!OwnerPending(v)
      BY <1>1, <1>8
    <2>2. Calls(Web!OwnerPending(v)) =
            Shown(Waits(v) /\ ~v.mine, "useApproveCounter") \union {"useDeclineExchange"}
              \union Shown(~Waits(v), "useAcceptExchange")
              \union Shown(MayGoOn(v), "useCounterExchange")
      <3> DEFINE A == Web!ApproveCounter(v)
                 B == {Web!Once("useDeclineExchange", <<>>)}
                 C == Web!When(~Web!pendingApproval(v), {Web!Once("useAcceptExchange", <<>>)})
                 D == Web!When(Web!canOwnerCounter(v), Web!CounterPicker)
      <3>1. Web!OwnerPending(v) = A \union B \union C \union D
        BY DEF Web!OwnerPending
      <3>2. /\ Calls(A) = Shown(Waits(v) /\ ~v.mine, "useApproveCounter")
            /\ Calls(B) = {"useDeclineExchange"}
            /\ Calls(C) = Shown(~Waits(v), "useAcceptExchange")
            /\ Calls(D) = Shown(MayGoOn(v), "useCounterExchange")
        BY <1>2, <1>3, <1>4, <1>5
      <3> HIDE DEF A, B, C, D
      <3>3. Calls(A \union B \union C \union D) = Calls(A \union B \union C) \union Calls(D)
        BY CallsOfUnion
      <3>4. Calls(A \union B \union C) = Calls(A) \union Calls(B) \union Calls(C)
        BY CallsOfThree
      <3> QED BY <3>1, <3>2, <3>3, <3>4, Zenon
    <2> QED BY <2>1, <2>2, <1>8, MobilePending
  <1>9. CASE ~v.owner
    <2>1. Web!DetailActions(v) = Web!RequesterPending(v)
      BY <1>1, <1>9
    <2>2. Calls(Web!RequesterPending(v)) =
            Shown(Waits(v) /\ ~v.mine, "useApproveCounter") \union {"useCancelExchange"}
              \union Shown(v.countered /\ MayGoOn(v), "useCounterExchange")
      <3> DEFINE A == Web!ApproveCounter(v)
                 B == {Web!Once("useCancelExchange", <<>>)}
                 C == Web!When(Web!canRequesterCounter(v), Web!CounterPicker)
      <3>1. Web!RequesterPending(v) = A \union B \union C
        BY DEF Web!RequesterPending
      <3>2. /\ Calls(A) = Shown(Waits(v) /\ ~v.mine, "useApproveCounter")
            /\ Calls(B) = {"useCancelExchange"}
            /\ Calls(C) = Shown(v.countered /\ MayGoOn(v), "useCounterExchange")
        BY <1>2, <1>7, <1>6
      <3> HIDE DEF A, B, C
      <3> QED BY <3>1, <3>2, CallsOfThree
    <2> QED BY <2>1, <2>2, <1>9, MobilePending
  <1> QED BY <1>8, <1>9

Negotiating == {"accepted", "conditions_pending"}

LEMMA MobileLater ==
  ASSUME NEW v, Decisive(v), v.status # "pending"
  PROVE  Calls(Mobile!DetailActions(v)) =
            CASE v.status \in Negotiating -> Shown(~v.accepted, "useAcceptConditions")
              [] v.status = "active"      -> Shown(~v.confirmed, "useConfirmSwap")
              [] v.status = "swap_confirmed" ->
                    {IF v.permanent THEN "useCompleteExchange" ELSE "useRequestReturn"}
              [] v.status = "return_requested" -> Shown(~v.returned, "useConfirmReturn")
              [] OTHER -> {}
  <1>1. Calls(Mobile!Accepted(v)) = Shown(~v.accepted, "useAcceptConditions")
    BY CallsOfButton, CallsOfWhen
       DEF Mobile!Accepted, Mobile!ConditionsReviewModal, Shown, Hooks, Decisive
  <1>2. Calls(Mobile!Active(v)) = Shown(~v.confirmed, "useConfirmSwap")
    BY CallsOfButton, CallsOfWhen DEF Mobile!Active, Shown, Hooks, Decisive
  <1>3. Calls(Mobile!SwapConfirmed(v)) =
          {IF v.permanent THEN "useCompleteExchange" ELSE "useRequestReturn"}
    BY CallsOfButton DEF Mobile!SwapConfirmed, Hooks, Decisive
  <1>4. Calls(Mobile!ReturnRequested(v)) = Shown(~v.returned, "useConfirmReturn")
    BY CallsOfButton, CallsOfWhen DEF Mobile!ReturnRequested, Shown, Hooks, Decisive
  <1>5. CASE v.status \in Negotiating
    BY <1>1, <1>5 DEF Mobile!DetailActions, Negotiating
  <1>6. CASE v.status \in {"active", "swap_confirmed", "return_requested"}
    BY <1>2, <1>3, <1>4, <1>6 DEF Mobile!DetailActions, Negotiating
  <1>7. CASE v.status \notin Negotiating \union {"active", "swap_confirmed", "return_requested"}
    BY <1>7, CallsOfNone DEF Mobile!DetailActions, Negotiating
  <1> QED BY <1>5, <1>6, <1>7

LEMMA WebLater ==
  ASSUME NEW v, Decisive(v), v.status # "pending"
  PROVE  Calls(Web!DetailActions(v)) =
            IF v.status = "swap_confirmed" THEN {"useRequestReturn"}
            ELSE Calls(Mobile!DetailActions(v))
  <1>1. Calls(Web!Conditions(v)) = Shown(~v.accepted, "useAcceptConditions")
    BY CallsOfButton, CallsOfWhen DEF Web!Conditions, Shown, Hooks, Decisive
  <1>2. Calls(Web!ConfirmSwap(v)) = Shown(~v.confirmed, "useConfirmSwap")
    BY CallsOfButton, CallsOfWhen DEF Web!ConfirmSwap, Shown, Hooks, Decisive
  <1>3. Calls(Web!SwapConfirmed) = {"useRequestReturn"}
    BY CallsOfButton DEF Web!SwapConfirmed, Hooks
  <1>4. Calls(Web!ReturnRequested(v)) = Shown(~v.returned, "useConfirmReturn")
    BY CallsOfButton, CallsOfWhen DEF Web!ReturnRequested, Shown, Hooks, Decisive
  <1>5. CASE v.status \in Negotiating
    BY <1>1, <1>5, MobileLater DEF Web!DetailActions, Negotiating
  <1>6. CASE v.status \in {"active", "swap_confirmed", "return_requested"}
    BY <1>2, <1>3, <1>4, <1>6, MobileLater DEF Web!DetailActions, Negotiating
  <1>7. CASE v.status \notin Negotiating \union {"active", "swap_confirmed", "return_requested"}
    BY <1>7, CallsOfNone, MobileLater DEF Web!DetailActions, Negotiating
  <1> QED BY <1>5, <1>6, <1>7

-----------------------------------------------------------------------------
(* What the server takes of a row that is as RowInv says. *)

LEMMA ViewDecides ==
  ASSUME IInv, NEW x \in Exchanges, NEW u \in Users, Visible(u, x)
  PROVE  LET row == exchange[x]
         IN  /\ Decisive(View(u, x))
             /\ row.requester # row.owner /\ u \in {row.requester, row.owner}
             /\ u # None /\ row.status \in Statuses \ {"absent"}
             /\ row.counters[u] \in Nat /\ row.permanent \in BOOLEAN
  <1> DEFINE row == exchange[x]
  <1>1. RowInv(row) /\ row \in Row
    BY DEF IInv, RowInv
  <1>2. /\ row.status # "absent" /\ u \in {row.requester, row.owner}
    BY DEF Visible, Parties
  <1>3. /\ row.requester # row.owner /\ row.status \in Statuses
        /\ row.permanent \in BOOLEAN /\ row.counters \in [Users -> 0..MaxCounters]
    BY <1>1, <1>2 DEF RowInv, Row
  <1>4. u # None
    BY NoneAssumption
  <1>5. row.counters[u] \in Nat
    BY <1>3, MaxCountersAssumption
  <1>6. Decisive(View(u, x))
    <2> DEFINE v == View(u, x)
    <2>1. /\ v.owner = (u = row.owner) /\ v.mine = (u = row.counterBy)
          /\ v.countered = (row.counterBy # None) /\ v.approved = (row.approvedBy # None)
          /\ v.remaining = (row.counters[u] < MaxCounters) /\ v.permanent = row.permanent
          /\ v.accepted = (u \in row.accepted) /\ v.confirmed = (u \in row.confirmed)
          /\ v.returned = (u \in row.returned)
      BY ViewFields
    <2>2. (row.counters[u] < MaxCounters) \in BOOLEAN
      BY <1>5, MaxCountersAssumption
    <2> HIDE DEF v
    <2>3. ~v.countered => ~v.mine
      BY <2>1, <1>4
    <2>4. v.owner \in BOOLEAN /\ v.mine \in BOOLEAN
      BY <2>1
    <2>5. v.countered \in BOOLEAN /\ v.approved \in BOOLEAN
      BY <2>1
    <2>6. v.remaining \in BOOLEAN /\ v.permanent \in BOOLEAN
      BY <2>1, <2>2, <1>3
    <2>7. v.accepted \in BOOLEAN /\ v.confirmed \in BOOLEAN /\ v.returned \in BOOLEAN
      BY <2>1
    <2>8. Decisive(v)
      BY <2>3, <2>4, <2>5, <2>6, <2>7 DEF Decisive
    <2> QED BY <2>8 DEF v
  <1> QED BY <1>2, <1>3, <1>4, <1>5, <1>6

Takeable(u, x, call) ==
    LET row == exchange[x]
    IN  \/ call = "useCounterExchange" /\ MayCounter(u, x)
        \/ call = "useApproveCounter" /\ MayApprove(u, x)
        \/ call = "useAcceptExchange"
             /\ row.status = "pending" /\ u = row.owner /\ TermsAgreed(x)
        \/ call = "useDeclineExchange" /\ row.status = "pending" /\ u = row.owner
        \/ call = "useCancelExchange" /\ row.status = "pending" /\ u = row.requester
        \/ call = "useAcceptConditions"
             /\ row.status \in Negotiating /\ u \notin row.accepted
        \/ call = "useConfirmSwap" /\ MayConfirm(u, x)
        \/ call = "useCompleteExchange" /\ row.status = "swap_confirmed"
        \/ call = "useRequestReturn" /\ row.status = "swap_confirmed" /\ ~row.permanent
        \/ call = "useConfirmReturn"
             /\ row.status = "return_requested" /\ u \notin row.returned

LEMMA TakenIs ==
  ASSUME NEW u, NEW x, NEW call PROVE call \in Taken(u, x) <=> Takeable(u, x, call)
  <1> DEFINE row == exchange[x]
             pending == row.status = "pending"
             passes ==
               [useCounterExchange  |-> MayCounter(u, x),
                useApproveCounter   |-> MayApprove(u, x),
                useAcceptExchange   |-> pending /\ u = row.owner /\ TermsAgreed(x),
                useDeclineExchange  |-> pending /\ u = row.owner,
                useCancelExchange   |-> pending /\ u = row.requester,
                useAcceptConditions |-> /\ row.status \in {"accepted", "conditions_pending"}
                                        /\ u \notin row.accepted,
                useConfirmSwap      |-> MayConfirm(u, x),
                useCompleteExchange |-> row.status = "swap_confirmed",
                useRequestReturn    |-> row.status = "swap_confirmed" /\ ~row.permanent,
                useConfirmReturn    |-> row.status = "return_requested" /\ u \notin row.returned]
  <1>1. Taken(u, x) = {c \in DOMAIN passes : passes[c]}
    BY DEF Taken
  <1>2. DOMAIN passes = Hooks
    BY DEF Hooks
  <1>3. ASSUME call \in Hooks PROVE passes[call] <=> Takeable(u, x, call)
    <2>1. CASE call = "useCounterExchange"
      BY <2>1 DEF Takeable, Negotiating
    <2>2. CASE call = "useApproveCounter"
      BY <2>2 DEF Takeable, Negotiating
    <2>3. CASE call = "useAcceptExchange"
      BY <2>3 DEF Takeable, Negotiating
    <2>4. CASE call = "useDeclineExchange"
      BY <2>4 DEF Takeable, Negotiating
    <2>5. CASE call = "useCancelExchange"
      BY <2>5 DEF Takeable, Negotiating
    <2>6. CASE call = "useAcceptConditions"
      BY <2>6 DEF Takeable, Negotiating
    <2>7. CASE call = "useConfirmSwap"
      BY <2>7 DEF Takeable, Negotiating
    <2>8. CASE call = "useCompleteExchange"
      BY <2>8 DEF Takeable, Negotiating
    <2>9. CASE call = "useRequestReturn"
      BY <2>9 DEF Takeable, Negotiating
    <2>10. CASE call = "useConfirmReturn"
      BY <2>10 DEF Takeable, Negotiating
    <2> QED BY <1>3, <2>1, <2>2, <2>3, <2>4, <2>5, <2>6, <2>7, <2>8, <2>9, <2>10 DEF Hooks
  <1>4. Takeable(u, x, call) => call \in Hooks
    BY DEF Takeable, Hooks
  <1> HIDE DEF passes
  <1> QED BY <1>1, <1>2, <1>3, <1>4

LEMMA PendingOffers ==
  ASSUME IInv, NEW x \in Exchanges, NEW u \in Users, Visible(u, x),
         exchange[x].status = "pending"
  PROVE  LET offers == MobileOffers(u, x)
         IN  /\ WebOffers(u, x) = offers
             /\ offers \subseteq Taken(u, x)
             /\ Taken(u, x) \ offers \subseteq {"useCounterExchange"}
  <1> DEFINE v == View(u, x)
             row == exchange[x]
             offers == Calls(Mobile!DetailActions(v))
  <1>1. /\ Decisive(v) /\ v.status = "pending"
        /\ row.requester # row.owner /\ u \in {row.requester, row.owner} /\ u # None
    BY ViewDecides, ViewFields
  <1>2. MobileOffers(u, x) = offers /\ WebOffers(u, x) = offers
    BY <1>1, WebPending DEF MobileOffers, WebOffers
  <1>3. /\ v.owner = (u = row.owner) /\ v.mine = (u = row.counterBy)
        /\ v.countered = (row.counterBy # None)
        /\ v.approved = (row.approvedBy # None)
        /\ v.remaining = (row.counters[u] < MaxCounters)
    BY ViewFields
  <1>4. offers = Shown(Waits(v) /\ ~v.mine, "useApproveCounter")
               \union (IF v.owner
                       THEN {"useDeclineExchange"}
                               \union Shown(~Waits(v), "useAcceptExchange")
                               \union Shown(MayGoOn(v), "useCounterExchange")
                       ELSE {"useCancelExchange"}
                               \union Shown(v.countered /\ MayGoOn(v), "useCounterExchange"))
    BY <1>1, MobilePending
  <1> HIDE DEF v, offers
  <1>5. ASSUME NEW call \in offers PROVE Takeable(u, x, call)
    BY <1>1, <1>3, <1>4, <1>5
       DEF Shown, Waits, MayGoOn, Takeable, MayCounter, MayApprove, TermsAgreed
  <1>6. ASSUME NEW call, Takeable(u, x, call), call # "useCounterExchange"
        PROVE  call \in offers
    BY <1>1, <1>3, <1>4, <1>6
       DEF Shown, Waits, Takeable, MayApprove, TermsAgreed, MayConfirm, Negotiating
  <1> QED BY <1>2, <1>5, <1>6, TakenIs

LEMMA LaterOffers ==
  ASSUME IInv, NEW x \in Exchanges, NEW u \in Users, Visible(u, x),
         exchange[x].status # "pending"
  PROVE  /\ MobileOffers(u, x) \subseteq Taken(u, x)
         /\ WebOffers(u, x) \ Taken(u, x) \subseteq
                (IF exchange[x].permanent THEN {"useRequestReturn"} ELSE {})
         /\ Taken(u, x) \ (MobileOffers(u, x) \intersect WebOffers(u, x))
                \subseteq {"useCompleteExchange"}
         /\ Taken(u, x) # {} => MobileOffers(u, x) # {}
  <1> DEFINE v == View(u, x)
             row == exchange[x]
             offers == Calls(Mobile!DetailActions(v))
             web == Calls(Web!DetailActions(v))
  <1>1. /\ Decisive(v) /\ v.status = row.status /\ v.status # "pending"
        /\ row.permanent \in BOOLEAN
    BY ViewDecides, ViewFields
  <1>2. MobileOffers(u, x) = offers /\ WebOffers(u, x) = web
    BY DEF MobileOffers, WebOffers
  <1>3. /\ v.permanent = row.permanent /\ v.accepted = (u \in row.accepted)
        /\ v.confirmed = (u \in row.confirmed) /\ v.returned = (u \in row.returned)
    BY ViewFields
  <1>4. web = IF v.status = "swap_confirmed" THEN {"useRequestReturn"} ELSE offers
    BY <1>1, WebLater
  <1>5. /\ v.status \in Negotiating => offers = Shown(~v.accepted, "useAcceptConditions")
        /\ v.status = "active" => offers = Shown(~v.confirmed, "useConfirmSwap")
        /\ v.status = "swap_confirmed" =>
             offers = {IF v.permanent THEN "useCompleteExchange" ELSE "useRequestReturn"}
        /\ v.status = "return_requested" => offers = Shown(~v.returned, "useConfirmReturn")
        /\ v.status \notin Negotiating \union {"active", "swap_confirmed", "return_requested"} =>
             offers = {}
    BY <1>1, MobileLater DEF Negotiating
  <1> HIDE DEF v, offers, web
  <1>6. ASSUME NEW call \in offers PROVE Takeable(u, x, call)
    BY <1>1, <1>3, <1>5, <1>6 DEF Shown, Takeable, MayConfirm, Negotiating
  <1>7. ASSUME NEW call \in web, ~Takeable(u, x, call)
        PROVE  row.permanent /\ call = "useRequestReturn"
    BY <1>1, <1>3, <1>4, <1>6, <1>7 DEF Takeable
  <1>8. ASSUME NEW call, Takeable(u, x, call), call # "useCompleteExchange"
        PROVE  call \in offers \intersect web
    BY <1>1, <1>3, <1>4, <1>5, <1>8
       DEF Shown, Takeable, MayCounter, MayApprove, MayConfirm, Negotiating
  <1>9. ASSUME NEW call, Takeable(u, x, call) PROVE offers # {}
    <2>1. CASE call = "useCompleteExchange"
      BY <2>1, <1>1, <1>5, <1>9 DEF Takeable
    <2>2. CASE call # "useCompleteExchange"
      BY <2>2, <1>8, <1>9
    <2> QED BY <2>1, <2>2
  <1> QED BY <1>2, <1>6, <1>7, <1>8, <1>9, TakenIs

-----------------------------------------------------------------------------
(* The theorems. *)

\* However requests, counter-offers, approvals and stale saves interleave, both
\* apps offer the parties of a pending request exactly what the server takes
\* from them, but for some counter-offers that the server would take.
\* (DetailActions of both apps; counter, approve_counter, accept, decline,
\* cancel, views.py)
THEOREM NegotiationIsOffered == Spec => []NegotiationOffered
  <1>1. IInv => NegotiationOffered
    BY PendingOffers DEF NegotiationOffered
  <1> QED BY <1>1, InductiveInvariant, PTL

\* The same from the acceptance to the return, wherever processes die: whoever
\* has something left to do is offered it by the mobile app, and no button of
\* either app is refused but the web app's return of a permanent swap.
\* (DetailActions of both apps; accept_conditions to confirm_return, views.py)
THEOREM FulfilmentIsOffered == Spec => []FulfilmentOffered
  <1>1. IInv => FulfilmentOffered
    BY LaterOffers DEF FulfilmentOffered
  <1> QED BY <1>1, InductiveInvariant, PTL

=============================================================================
