------------------------------ MODULE SerialProofs ------------------------------
(***************************************************************************)
(* Proofs about ExchangeSystem when requests and tasks are served one at a  *)
(* time (Serial), for any users, books, exchanges, workers and counter      *)
(* limit: the life cycle, the approvals, the returns, the swap counts and,  *)
(* if no process dies between two statements, the blocks and the books.     *)
(*                                                                          *)
(* While a process is at work the others are idle, so that what it read is  *)
(* still so (Reads).  Each action is shown once to move every status along  *)
(* an edge of Lifecycle (RowsFollow); the other invariants rest on that.    *)
(***************************************************************************)
EXTENDS ExchangeProofs, FiniteSetTheorems

-----------------------------------------------------------------------------
(* The inductive invariant. *)

Alone(s) == \A t \in Slots \ {s} : job[t] = Idle
OneAtATime == \E s \in Slots : Alone(s)

\* A counter-offer is approved by the other party, and a return is confirmed
\* only while it is under way, and then not yet by both.
Promised(row) ==
    /\ row.approvedBy # None => row.approvedBy \in Both(row) \ {row.counterBy}
    /\ row.status = "returned" => row.returned = Both(row)
    /\ row.status = "return_requested" => row.returned # Both(row)
    /\ row.status \notin {"returned", "return_requested"} => row.returned = {}
    /\ row.returned \subseteq Both(row)

\* What a process read and nobody has changed.
PendingPcs == {"approve_save", "accept_commit", "decline_save", "cancel_save"}
ReturnPcs  == {"return_requested", "return_offered", "return_save"}
AutoPcs    == {"auto_requester_only", "auto_owner_only"}
FreeingPcs == ReturnPcs \cup ReleasePcs
                \cup {"complete_save", "complete_requested", "complete_offered"}

Stale == {"accepted", "conditions_pending"}
SameBooks(m, row) == m.requested = row.requested /\ m.offered = row.offered

ReturnReads(j, row) ==
    /\ row.status = "return_requested"
    /\ j.mem.returned \subseteq Both(row)
    /\ j.mem.status \in {"return_requested", "returned"}
    /\ j.mem.status = "returned" <=> j.mem.returned = Both(row)
    /\ j.pc # "return_save" => j.mem.status = "returned"

Reads(j, E) ==
    /\ j.pc = "create_insert" => Promised(j.mem)
    /\ j.pc \in PendingPcs => E[j.x].status = "pending"
    /\ j.pc = "approve_save" => j.user \in Both(E[j.x]) \ {E[j.x].counterBy}
    /\ j.pc \in ConditionsPcs => E[j.x].status \in Stale
    /\ j.pc \in ConditionsPcs \ {"conditions_save"} => j.mem.status = E[j.x].status
    /\ j.pc = "conditions_save" =>
          j.mem.status \in {E[j.x].status} \cup L!Edges(E[j.x].status)
    /\ j.pc \in {"complete_save", "request_return_save"} =>
          E[j.x].status = "swap_confirmed"
    /\ j.pc \in {"complete_requested", "complete_offered"} =>
          E[j.x].status = "completed"
    /\ j.pc \in ReleasePcs => E[j.x].status = "expired"
    /\ j.pc \in ReturnPcs => ReturnReads(j, E[j.x])
    /\ j.pc \in FreeingPcs => SameBooks(j.mem, E[j.x])
    /\ j.pc \in {"accept_commit", "expire_requests"} =>
          \A y \in j.todo \ {j.x} : E[y].status = "pending"
    /\ j.pc \in {"expire_conditions"} \cup ReleasePcs =>
          \A y \in j.todo \ {j.x} : E[y].status \in Stale
    /\ j.pc \in {"expire_requests", "expire_conditions"} \cup AutoPcs => j.x = None
    /\ j.pc \in AutoPcs => \A y \in j.todo : E[y].status = "active"

Serially ==
    /\ OneAtATime
    /\ \A x \in Exchanges : Promised(exchange[x])
    /\ \A s \in Slots : Reads(job[s], exchange)

\* Everyone the weekly task is about to credit is owed a swap.
CreditsOwed ==
    /\ SwapCountBounded
    /\ \A s \in Slots : job[s].pc \in AutoPcs =>
          \A u \in job[s].users : swapCount[u] < Cardinality(SwapsOf(u))

\* Nobody is about to insert a request between two users that are blocked.
Apart ==
    /\ BlockedPairsApart
    /\ \A s \in Slots : job[s].pc = "create_insert" =>
          ~BlockedPair(job[s].mem.requester, job[s].mem.owner)

\* The books of x were released, or are being released.
Ended == {"completed", "expired", "returned"}
Freeing(j) ==
    /\ j.pc \in FreeingPcs \ {"complete_save"}
    /\ j.pc = "return_save" => j.mem.status = "returned"
Freed(x) ==
    \/ exchange[x].status \in Ended
    \/ \E s \in Slots : job[s].x = x /\ Freeing(job[s])

Available(b) == book[b].status = "available"

\* Which books a process has released so far.
Shelved(j) ==
    /\ j.pc \in {"complete_offered", "return_offered", "expire_offered"} =>
          Available(j.mem.requested)
    /\ j.pc = "return_save" /\ j.mem.status = "returned" =>
          Available(j.mem.requested) /\ Available(j.mem.offered)

Locked ==
    \A x \in Exchanges : \A b \in BooksOf(x) :
        /\ exchange[x].status \in Holding
        /\ \A y \in Exchanges : b \in BooksOf(y) => ~Freed(y)
        => book[b].status = "in_exchange"

Shelves ==
    /\ LockedBooksAccountedFor
    /\ Locked
    /\ \A s \in Slots : Shelved(job[s])

-----------------------------------------------------------------------------
(* The life cycle. *)

LEMMA EdgeTable ==
  /\ L!Edges("absent") = {"pending"}
  /\ L!Edges("pending") = {"accepted", "declined", "cancelled", "expired"}
  /\ L!Edges("accepted") = {"conditions_pending", "cancelled", "expired"}
  /\ L!Edges("conditions_pending") = {"active", "cancelled", "expired"}
  /\ L!Edges("active") = {"swap_confirmed", "cancelled"}
  /\ L!Edges("swap_confirmed") = {"completed", "return_requested"}
  /\ L!Edges("return_requested") = {"returned"}
  /\ \A st \in {"completed", "declined", "cancelled", "expired", "returned"} :
        L!Edges(st) = {}
  BY DEF L!Edges, L!VALID_TRANSITIONS, L!Statuses

LEMMA StatusCases ==
  ASSUME NEW x \in Exchanges, IInv
  PROVE  exchange[x].status \in Statuses /\ exchange[x] \in Row
  BY DEF IInv, Row

\* How a step may change a row: its status along an edge, if at all.
Follow(r, q) ==
    /\ Promised(q)
    /\ q.status \in {r.status} \cup L!Edges(r.status)

RowsFollow == \A x \in Exchanges : Follow(exchange[x], exchange'[x])

LEMMA FollowRefl == ASSUME NEW r, Promised(r) PROVE Follow(r, r)
  BY DEF Follow

\* Any edge but the last of a return keeps what is promised.
LEMMA FollowEdge ==
  ASSUME NEW r \in Row, Promised(r), NEW st \in {r.status} \cup L!Edges(r.status),
         st # "returned"
  PROVE  Follow(r, [r EXCEPT !.status = st])
  <1> DEFINE q == [r EXCEPT !.status = st]
  <1>1. /\ q.status = st /\ q.requester = r.requester /\ q.owner = r.owner
        /\ q.counterBy = r.counterBy /\ q.approvedBy = r.approvedBy
        /\ q.returned = r.returned /\ r.status \in Statuses
    BY DEF Row
  <1> HIDE DEF q
  <1>2. st # r.status => r.returned = {}
    BY <1>1, EdgeTable DEF Promised, Statuses
  <1> QED BY <1>1, <1>2 DEF Follow, Promised, Both, q

-----------------------------------------------------------------------------
(* Who is at work. *)

LEMMA IdleReads == ASSUME NEW E PROVE Reads(Idle, E)
  <1>1. Idle.pc = "idle"
    BY IdleInv
  <1> QED BY <1>1 DEF Reads, PendingPcs, ConditionsPcs, ReleasePcs, ReturnPcs,
                      FreeingPcs, AutoPcs

LEMMA AtWork ==
  ASSUME Serially, NEW s \in Slots, job[s].pc # "idle" PROVE Alone(s)
  <1>1. job[s] # Idle
    BY IdleInv
  <1> QED BY <1>1 DEF Serially, OneAtATime, Alone

LEMMA FreeAlone ==
  ASSUME Serial, NEW s \in Slots, Free(s)
  PROVE  Alone(s) /\ \A t \in Slots : job[t] = Idle
  BY DEF Free, Alone

\* One process moves, the others are idle.
LEMMA Moves ==
  ASSUME IInv, NEW s \in Slots, Alone(s), NEW j, job' = [job EXCEPT ![s] = j],
         RowsFollow, Reads(j, exchange')
  PROVE  Serially' /\ RowsFollow
  <1>1. /\ \A t \in Slots \ {s} : job'[t] = Idle
        /\ job'[s] = j
    BY DEF IInv, Alone
  <1>2. OneAtATime'
    BY <1>1 DEF OneAtATime, Alone
  <1>3. \A t \in Slots : Reads(job'[t], exchange')
    BY <1>1, IdleReads
  <1> QED BY <1>2, <1>3 DEF Serially, RowsFollow, Follow

LEMMA Finishes ==
  ASSUME IInv, NEW s \in Slots, Alone(s), Done(s), RowsFollow
  PROVE  Serially' /\ RowsFollow
  BY Moves, IdleReads DEF Done

LEMMA NobodyMoves ==
  ASSUME IInv, \A t \in Slots : job[t] = Idle, UNCHANGED job, RowsFollow
  PROVE  Serially' /\ RowsFollow
  <1>1. OneAtATime'
    BY DEF OneAtATime, Alone, Slots, Beat
  <1> QED BY <1>1, IdleReads DEF Serially, RowsFollow, Follow

LEMMA RowsRest ==
  ASSUME Serially, UNCHANGED exchange PROVE RowsFollow
  BY FollowRefl DEF Serially, RowsFollow

LEMMA OneRow ==
  ASSUME IInv, Serially, NEW x \in Exchanges, NEW q,
         exchange' = [exchange EXCEPT ![x] = q], Follow(exchange[x], q)
  PROVE  RowsFollow
  BY FollowRefl DEF Serially, RowsFollow, IInv

LEMMA OneStatus ==
  ASSUME IInv, Serially, NEW x \in Exchanges,
         NEW st \in {exchange[x].status} \cup L!Edges(exchange[x].status),
         st # "returned", exchange' = [exchange EXCEPT ![x].status = st]
  PROVE  RowsFollow
  <1>1. exchange' = [exchange EXCEPT ![x] = [exchange[x] EXCEPT !.status = st]]
    OBVIOUS
  <1> QED BY <1>1, OneRow, FollowEdge, StatusCases DEF Serially

\* A process that starts has read the rows as they are.
LEMMA Starts ==
  ASSUME Serial, IInv, Serially, NEW s \in Slots, Free(s), UNCHANGED exchange,
         NEW j, job' = [job EXCEPT ![s] = j], Reads(j, exchange)
  PROVE  Serially' /\ RowsFollow
  BY FreeAlone, RowsRest, Moves

\* The fields of a job that starts.
LEMMA Fields ==
  ASSUME NEW pc, NEW u, NEW x, NEW mem, NEW todo, NEW users
  PROVE  LET j == Serving(pc, u, x, mem, todo, users)
         IN  /\ j.pc = pc /\ j.user = u /\ j.x = x /\ j.mem = mem
             /\ j.todo = todo /\ j.users = users
  BY DEF Serving

-----------------------------------------------------------------------------
(* The actions of Negotiation. *)

LEMMA CreateCheckSerial ==
  ASSUME Serial, IInv, Serially, NEW s \in Slots, NEW u \in Users, NEW b \in Books,
         NEW o \in Books, NEW permanent \in SwapTypes, NEW x \in Exchanges,
         CreateCheck(s, u, b, o, permanent, x)
  PROVE  Serially' /\ RowsFollow
  <1> DEFINE row == NewRow("pending", u, book[b].owner, b, o, permanent)
             j == Serving("create_insert", u, x, row, {}, {})
  <1>1. Promised(row)
    BY DEF NewRow, Promised
  <1>2. job' = [job EXCEPT ![s] = j] /\ UNCHANGED exchange /\ Free(s)
    BY DEF CreateCheck, Start
  <1>3. j.pc = "create_insert" /\ j.mem = row
    BY Fields
  <1> HIDE DEF row, j
  <1>4. Reads(j, exchange)
    BY <1>1, <1>3 DEF Reads, PendingPcs, ConditionsPcs, ReleasePcs, ReturnPcs,
                      FreeingPcs, AutoPcs
  <1> QED BY <1>2, <1>4, Starts

LEMMA CreateInsertSerial ==
  ASSUME IInv, Serially, NEW s \in Slots, CreateInsert(s)
  PROVE  Serially' /\ RowsFollow
  <1> DEFINE x == job[s].x
             row == job[s].mem
  <1>1. job[s].pc = "create_insert" /\ Done(s) /\ Alone(s)
    BY AtWork DEF CreateInsert, At
  <1>2. /\ x \in Exchanges /\ row.status = "pending" /\ Promised(row)
        /\ exchange[x].status = "absent"
    BY <1>1 DEF IInv, JobInv, CreateInv, At, Serially, Reads
  <1>3. CASE UNCHANGED exchange
    BY <1>1, <1>3, RowsRest, Finishes
  <1>4. CASE exchange' = [exchange EXCEPT ![x] = row]
    <2>1. Follow(exchange[x], row)
      BY <1>2, EdgeTable DEF Follow
    <2> QED BY <1>1, <1>2, <1>4, <2>1, OneRow, Finishes
  <1> QED BY <1>3, <1>4 DEF CreateInsert

LEMMA CounterSerial ==
  ASSUME Serial, IInv, Serially, NEW u \in Users, NEW x \in Exchanges,
         NEW b \in Books, Counter(u, x, b)
  PROVE  Serially' /\ RowsFollow
  <1> DEFINE r == exchange[x]
             q == Countered(r, u, b)
  <1>1. /\ exchange' = [exchange EXCEPT ![x] = q] /\ UNCHANGED job
        /\ r.status = "pending" /\ \A t \in Slots : job[t] = Idle
    BY FreeAlone DEF Counter, MayCounter, Slots
  <1>2. /\ q.status = "pending" /\ q.approvedBy = None /\ q.returned = r.returned
    BY <1>1, StatusCases DEF Countered, Row
  <1> HIDE DEF q
  <1>3. Follow(r, q)
    BY <1>1, <1>2 DEF Follow, Promised, Serially
  <1> QED BY <1>1, <1>3, OneRow, NobodyMoves

\* A request that read a pending row, to save it next.
LEMMA PendingRead ==
  ASSUME Serial, IInv, Serially, NEW s \in Slots, Free(s), NEW u, NEW x \in Exchanges,
         NEW pc \in {"approve_save", "decline_save", "cancel_save"},
         exchange[x].status = "pending",
         pc = "approve_save" => u \in Both(exchange[x]) \ {exchange[x].counterBy},
         Start(s, pc, u, x, NoRow), UNCHANGED exchange
  PROVE  Serially' /\ RowsFollow
  <1> DEFINE j == Serving(pc, u, x, NoRow, {}, {})
  <1>1. job' = [job EXCEPT ![s] = j]
    BY DEF Start
  <1>2. j.pc = pc /\ j.user = u /\ j.x = x
    BY Fields
  <1> HIDE DEF j
  <1>3. Reads(j, exchange)
    BY <1>2 DEF Reads, PendingPcs, ConditionsPcs, ReleasePcs, ReturnPcs, FreeingPcs,
                AutoPcs
  <1> QED BY <1>1, <1>3, Starts

LEMMA ApproveSaveSerial ==
  ASSUME IInv, Serially, NEW s \in Slots, ApproveSave(s)
  PROVE  Serially' /\ RowsFollow
  <1> DEFINE x == job[s].x
             r == exchange[x]
             q == [r EXCEPT !.approvedBy = job[s].user]
  <1>1. job[s].pc = "approve_save" /\ Alone(s) /\ Done(s)
    BY AtWork DEF ApproveSave, At
  <1>2. /\ x \in Exchanges /\ Promised(r)
        /\ job[s].user \in Both(r) \ {r.counterBy}
    BY <1>1 DEF IInv, JobInv, RowPcs, Serially, Reads
  <1>3. exchange' = [exchange EXCEPT ![x] = q]
    BY DEF ApproveSave
  <1>4. /\ q.approvedBy = job[s].user /\ q.status = r.status
        /\ q.requester = r.requester /\ q.owner = r.owner
        /\ q.counterBy = r.counterBy /\ q.returned = r.returned
    BY <1>2, StatusCases DEF Row
  <1> HIDE DEF q
  <1>5. Follow(r, q)
    BY <1>2, <1>4 DEF Follow, Promised, Both
  <1> QED BY <1>1, <1>2, <1>3, <1>5, OneRow, Finishes

LEMMA AcceptLockSerial ==
  ASSUME Serial, IInv, Serially, NEW s \in Slots, NEW u \in Users, NEW x \in Exchanges,
         AcceptLock(s, u, x)
  PROVE  Serially' /\ RowsFollow
  <1> DEFINE j == Serving("accept_commit", u, x, NoRow, Competing(x), {})
  <1>1. /\ job' = [job EXCEPT ![s] = j] /\ UNCHANGED exchange /\ Free(s)
        /\ exchange[x].status = "pending"
    BY DEF AcceptLock
  <1>2. j.pc = "accept_commit" /\ j.x = x /\ j.todo = Competing(x)
    BY Fields
  <1>3. \A y \in Competing(x) : exchange[y].status = "pending"
    BY DEF Competing
  <1> HIDE DEF j
  <1>4. Reads(j, exchange)
    BY <1>1, <1>2, <1>3 DEF Reads, PendingPcs, ConditionsPcs, ReleasePcs, ReturnPcs,
                            FreeingPcs, AutoPcs
  <1> QED BY <1>1, <1>4, Starts

LEMMA AcceptCommitSerial ==
  ASSUME IInv, Serially, NEW s \in Slots, AcceptCommit(s)
  PROVE  Serially' /\ RowsFollow
  <1> DEFINE x == job[s].x
  <1>1. job[s].pc = "accept_commit" /\ Alone(s) /\ Done(s)
    BY AtWork DEF AcceptCommit, At
  <1>2. /\ exchange[x].status = "pending"
        /\ \A y \in job[s].todo \ {x} : exchange[y].status = "pending"
    BY <1>1 DEF Serially, Reads, PendingPcs
  <1>3. ASSUME NEW y \in Exchanges PROVE Follow(exchange[y], exchange'[y])
    <2>1. PICK st \in {exchange[y].status} \cup L!Edges(exchange[y].status) :
              \/ st # "returned" /\ exchange'[y] = [exchange[y] EXCEPT !.status = st]
              \/ exchange'[y] = exchange[y]
      BY <1>2, EdgeTable DEF AcceptCommit
    <2> QED BY <2>1, FollowEdge, FollowRefl, StatusCases DEF Serially
  <1> QED BY <1>1, <1>3, Finishes DEF RowsFollow

LEMMA EndSerial ==
  ASSUME IInv, Serially, NEW s \in Slots, DeclineSave(s) \/ CancelSave(s)
  PROVE  Serially' /\ RowsFollow
  <1>1. job[s].pc \in {"decline_save", "cancel_save"} /\ Alone(s) /\ Done(s)
    BY AtWork DEF DeclineSave, CancelSave, At
  <1>2. job[s].x \in Exchanges /\ exchange[job[s].x].status = "pending"
    BY <1>1 DEF IInv, JobInv, RowPcs, Serially, Reads, PendingPcs
  <1>3. RowsFollow
    BY <1>2, OneStatus, EdgeTable DEF DeclineSave, CancelSave
  <1> QED BY <1>1, <1>3, Finishes

LEMMA ExpireRequestsListSerial ==
  ASSUME Serial, IInv, Serially, NEW T \in SUBSET Exchanges, ExpireRequestsList(T)
  PROVE  Serially' /\ RowsFollow
  <1> DEFINE j == Serving("expire_requests", None, None, NoRow, T, {})
  <1>1. /\ job' = [job EXCEPT !["expire_stale_requests"] = j] /\ UNCHANGED exchange
        /\ \A x \in T : exchange[x].status = "pending"
        /\ Free("expire_stale_requests") /\ "expire_stale_requests" \in Slots
    BY DEF ExpireRequestsList, RequestListed, Slots, Beat
  <1>2. j.pc = "expire_requests" /\ j.x = None /\ j.todo = T
    BY Fields
  <1> HIDE DEF j
  <1>3. Reads(j, exchange)
    BY <1>1, <1>2 DEF Reads, PendingPcs, ConditionsPcs, ReleasePcs, ReturnPcs,
                      FreeingPcs, AutoPcs
  <1> QED BY <1>1, <1>3, Starts

LEMMA ExpireRequestSaveSerial ==
  ASSUME IInv, Serially, NEW s \in Slots, NEW x \in Exchanges, ExpireRequestSave(s, x)
  PROVE  Serially' /\ RowsFollow
  <1>1. job[s].pc = "expire_requests" /\ Alone(s)
    BY AtWork DEF ExpireRequestSave, At
  <1>2. /\ job[s].x = None /\ \A y \in job[s].todo : exchange[y].status = "pending"
        /\ job[s] \in Job /\ job[s].todo \subseteq Exchanges
    <2>1. job[s] \in Job /\ job[s].todo \subseteq Exchanges
      BY DEF IInv, Job
    <2> QED BY <1>1, <2>1, NoneAssumption DEF Serially, Reads
  <1>3. RowsFollow
    BY <1>2, OneStatus, EdgeTable DEF ExpireRequestSave
  <1>4. CASE Done(s)
    BY <1>1, <1>3, <1>4, Finishes
  <1>5. CASE job' = [job EXCEPT ![s].todo = @ \ {x}]
    <2> DEFINE j == [job[s] EXCEPT !.todo = @ \ {x}]
    <2>1. job' = [job EXCEPT ![s] = j]
      BY <1>5
    <2>2. j.pc = "expire_requests" /\ j.x = None /\ j.todo = job[s].todo \ {x}
      BY <1>1, <1>2 DEF Job
    <2>3. \A y \in j.todo : exchange'[y].status = "pending"
      BY <1>2, <2>2 DEF ExpireRequestSave, IInv
    <2> HIDE DEF j
    <2>4. Reads(j, exchange')
      BY <2>2, <2>3 DEF Reads, PendingPcs, ConditionsPcs, ReleasePcs, ReturnPcs,
                        FreeingPcs, AutoPcs
    <2> QED BY <1>1, <1>3, <2>1, <2>4, Moves
  <1> QED BY <1>4, <1>5 DEF ExpireRequestSave

LEMMA BlockCreateSerial ==
  ASSUME Serial, IInv, Serially, NEW s \in Slots, NEW u \in Users, NEW v \in Users,
         BlockCreate(s, u, v)
  PROVE  Serially' /\ RowsFollow
  <1> DEFINE j == Serving("block_cancel", u, None, NoRow, {}, {u, v})
  <1>1. job' = [job EXCEPT ![s] = j] /\ UNCHANGED exchange /\ Free(s)
    BY DEF BlockCreate
  <1>2. j.pc = "block_cancel"
    BY Fields
  <1> HIDE DEF j
  <1>3. Reads(j, exchange)
    BY <1>2 DEF Reads, PendingPcs, ConditionsPcs, ReleasePcs, ReturnPcs, FreeingPcs,
                AutoPcs
  <1> QED BY <1>1, <1>3, Starts

LEMMA BlockCancelSerial ==
  ASSUME IInv, Serially, NEW s \in Slots, BlockCancel(s)
  PROVE  Serially' /\ RowsFollow
  <1>1. Alone(s) /\ Done(s)
    BY AtWork DEF BlockCancel, At
  <1>2. ASSUME NEW y \in Exchanges PROVE Follow(exchange[y], exchange'[y])
    <2>1. PICK st \in {exchange[y].status} \cup L!Edges(exchange[y].status) :
              \/ st # "returned" /\ exchange'[y] = [exchange[y] EXCEPT !.status = st]
              \/ exchange'[y] = exchange[y]
      BY EdgeTable DEF BlockCancel, Cancelable
    <2> QED BY <2>1, FollowEdge, FollowRefl, StatusCases DEF Serially
  <1> QED BY <1>1, <1>2, Finishes DEF RowsFollow

LEMMA NegotiationSerial ==
  ASSUME Serial, IInv, Serially, NegotiationNext
  PROVE  Serially' /\ RowsFollow
  <1>1. Workers \subseteq Slots
    BY DEF Slots
  <1>2. CASE \E s \in Workers : NegotiationRequest(s)
    <2>1. PICK s \in Slots : NegotiationRequest(s)
      BY <1>1, <1>2
    <2>2. ASSUME NEW u \in Users, NEW x \in Exchanges,
                 ApproveRead(s, u, x) \/ DeclineRead(s, u, x) \/ CancelRead(s, u, x)
          PROVE  Serially' /\ RowsFollow
      BY <2>2, PendingRead
         DEF ApproveRead, DeclineRead, CancelRead, MayApprove, Visible, Parties, Both
    <2> QED
      BY <2>1, <2>2, CreateCheckSerial, AcceptLockSerial, BlockCreateSerial
         DEF NegotiationRequest
  <1>3. CASE \E s \in Slots : NegotiationStep(s)
    BY <1>3, CreateInsertSerial, ApproveSaveSerial, AcceptCommitSerial, EndSerial,
       BlockCancelSerial, ExpireRequestSaveSerial DEF NegotiationStep
  <1>4. CASE \E u, v \in Users : Unblock(u, v)
    <2>1. UNCHANGED <<exchange, job>> /\ \A t \in Slots : job[t] = Idle
      BY <1>1, <1>4, FreeAlone DEF Unblock
    <2> QED BY <2>1, RowsRest, NobodyMoves
  <1> QED
    BY <1>2, <1>3, <1>4, CounterSerial, ExpireRequestsListSerial DEF NegotiationNext

-----------------------------------------------------------------------------
(* The actions of Fulfilment. *)

LEMMA ConditionsReadSerial ==
  ASSUME Serial, IInv, Serially, NEW s \in Slots, NEW u \in Users, NEW x \in Exchanges,
         ConditionsRead(s, u, x)
  PROVE  Serially' /\ RowsFollow
  <1> DEFINE j == Serving("conditions_insert", u, x, exchange[x], {}, {})
  <1>1. /\ job' = [job EXCEPT ![s] = j] /\ UNCHANGED exchange /\ Free(s)
        /\ exchange[x].status \in Stale
    BY DEF ConditionsRead, Start, Stale
  <1>2. j.pc = "conditions_insert" /\ j.x = x /\ j.mem = exchange[x]
    BY Fields
  <1> HIDE DEF j
  <1>3. Reads(j, exchange)
    BY <1>1, <1>2 DEF Reads, PendingPcs, ConditionsPcs, ReleasePcs, ReturnPcs,
                      FreeingPcs, AutoPcs
  <1> QED BY <1>1, <1>3, Starts

\* To the next statement, with what was read.
LEMMA GoesTo ==
  ASSUME IInv, Serially, NEW s \in Slots, Alone(s), NEW pc \in PCs, Goto(s, pc), RowsFollow,
         \A j \in Job : /\ j.pc = pc /\ j.x = job[s].x /\ j.mem = job[s].mem
                        /\ j.todo = job[s].todo /\ j.user = job[s].user
                        => Reads(j, exchange')
  PROVE  Serially' /\ RowsFollow
  <1> DEFINE j == [job[s] EXCEPT !.pc = pc]
  <1>1. /\ j \in Job /\ j.pc = pc /\ j.user = job[s].user /\ j.x = job[s].x
        /\ j.mem = job[s].mem /\ j.todo = job[s].todo
        /\ job' = [job EXCEPT ![s] = j]
    BY GotoFields
  <1> HIDE DEF j
  <1> QED BY <1>1, Moves

LEMMA ConditionsInsertSerial ==
  ASSUME IInv, Serially, NEW s \in Slots, ConditionsInsert(s)
  PROVE  Serially' /\ RowsFollow
  <1> DEFINE x == job[s].x
             r == exchange[x]
             q == [r EXCEPT !.accepted = @ \cup {job[s].user}]
  <1>1. job[s].pc = "conditions_insert" /\ Alone(s)
    BY AtWork DEF ConditionsInsert, At
  <1>2. /\ x \in Exchanges /\ Promised(r) /\ r.status \in Stale
        /\ job[s].mem.status = r.status
    BY <1>1 DEF IInv, JobInv, RowPcs, Serially, Reads, ConditionsPcs
  <1>3. exchange' = [exchange EXCEPT ![x] = q]
    BY DEF ConditionsInsert
  <1>4. /\ q.approvedBy = r.approvedBy /\ q.status = r.status
        /\ q.requester = r.requester /\ q.owner = r.owner
        /\ q.counterBy = r.counterBy /\ q.returned = r.returned
    BY <1>2, StatusCases DEF Row
  <1> HIDE DEF q
  <1>5. RowsFollow /\ exchange'[x].status = r.status
    <2>1. Follow(r, q)
      BY <1>2, <1>4 DEF Follow, Promised, Both
    <2> QED BY <1>2, <1>3, <1>4, <2>1, OneRow DEF IInv
  <1>6. CASE Done(s)
    BY <1>1, <1>5, <1>6, Finishes
  <1>7. CASE Goto(s, "conditions_count")
    <2>1. "conditions_count" \in PCs
      BY DEF PCs
    <2>2. ASSUME NEW j \in Job, j.pc = "conditions_count", j.x = x, j.mem = job[s].mem
          PROVE  Reads(j, exchange')
      BY <1>2, <1>5, <2>2 DEF Reads, PendingPcs, ConditionsPcs, ReleasePcs, ReturnPcs,
                              FreeingPcs, AutoPcs
    <2> QED BY <1>1, <1>5, <1>7, <2>1, <2>2, GoesTo
  <1> QED BY <1>6, <1>7 DEF ConditionsInsert

LEMMA ConditionsCountSerial ==
  ASSUME IInv, Serially, NEW s \in Slots, ConditionsCount(s)
  PROVE  Serially' /\ RowsFollow
  <1> DEFINE x == job[s].x
             r == exchange[x]
             mem == job[s].mem
             new == IF both_conditions_accepted(x) THEN "active" ELSE "conditions_pending"
  <1>1. job[s].pc = "conditions_count" /\ Alone(s) /\ UNCHANGED exchange /\ RowsFollow
    BY AtWork, RowsRest DEF ConditionsCount, At
  <1>2. /\ x \in Exchanges /\ r.status \in Stale /\ mem.status = r.status
        /\ job[s] \in Job /\ mem \in Row
    BY <1>1 DEF IInv, JobInv, RowPcs, Serially, Reads, ConditionsPcs, Job
  <1>3. new \in Statuses
    BY DEF Statuses
  <1> HIDE DEF new
  <1>4. CASE can_transition_to(mem, new)
               /\ job' = [job EXCEPT ![s].pc = "conditions_save",
                                     ![s].mem = transition_to(mem, new)]
    <2> DEFINE m == transition_to(mem, new)
               j == [job[s] EXCEPT !.pc = "conditions_save", !.mem = m]
    <2>1. m.status = new
      BY <1>2, <1>3, TransitionTo
    <2>2. new \in L!Edges(r.status)
      <3>1. new \in VALID_TRANSITIONS[r.status]
        BY <1>2, <1>4 DEF can_transition_to
      <3> QED BY <1>2, <3>1, EdgeTable DEF VALID_TRANSITIONS, Stale, Statuses
    <2> HIDE DEF m
    <2>3. j.pc = "conditions_save" /\ j.x = x /\ j.mem = m
      BY <1>2 DEF Job
    <2>4. job' = [job EXCEPT ![s] = j]
      BY <1>4 DEF IInv, m
    <2> HIDE DEF j
    <2>5. Reads(j, exchange')
      BY <1>1, <1>2, <2>1, <2>2, <2>3
         DEF Reads, PendingPcs, ConditionsPcs, ReleasePcs, ReturnPcs, FreeingPcs, AutoPcs
    <2> QED BY <1>1, <2>4, <2>5, Moves
  <1>5. CASE Goto(s, "conditions_save")
    <2>1. "conditions_save" \in PCs
      BY DEF PCs
    <2>2. ASSUME NEW j \in Job, j.pc = "conditions_save", j.x = x, j.mem = mem
          PROVE  Reads(j, exchange')
      BY <1>1, <1>2, <2>2 DEF Reads, PendingPcs, ConditionsPcs, ReleasePcs, ReturnPcs,
                              FreeingPcs, AutoPcs
    <2> QED BY <1>1, <1>5, <2>1, <2>2, GoesTo
  <1>6. CASE Done(s)
    BY <1>1, <1>6, Finishes
  <1> QED BY <1>4, <1>5, <1>6 DEF ConditionsCount, new

LEMMA ConditionsSaveSerial ==
  ASSUME IInv, Serially, NEW s \in Slots, ConditionsSave(s)
  PROVE  Serially' /\ RowsFollow
  <1> DEFINE x == job[s].x
             st == job[s].mem.status
  <1>1. job[s].pc = "conditions_save" /\ Alone(s) /\ Done(s)
    BY AtWork DEF ConditionsSave, At
  <1>2. /\ x \in Exchanges /\ exchange[x].status \in Stale
        /\ st \in {exchange[x].status} \cup L!Edges(exchange[x].status)
    BY <1>1 DEF IInv, JobInv, RowPcs, Serially, Reads, ConditionsPcs
  <1>3. st # "returned"
    BY <1>2, EdgeTable DEF Stale
  <1>4. exchange' = [exchange EXCEPT ![x].status = st]
    BY DEF ConditionsSave
  <1> HIDE DEF st
  <1> QED BY <1>1, <1>2, <1>3, <1>4, OneStatus, Finishes

LEMMA ConfirmSwapSerial ==
  ASSUME Serial, IInv, Serially, NEW u \in Users, NEW x \in Exchanges, ConfirmSwap(u, x)
  PROVE  Serially' /\ RowsFollow
  <1> DEFINE r == exchange[x]
             row == [r EXCEPT !.confirmed = @ \cup {u}]
             m == transition_to(row, "swap_confirmed")
             q == IF is_swap_confirmed(row) THEN m ELSE row
  <1>1. /\ UNCHANGED job /\ \A t \in Slots : job[t] = Idle
        /\ exchange' = [exchange EXCEPT ![x] = q]
        /\ r.status = "active" /\ Promised(r) /\ r \in Row
    BY FreeAlone, StatusCases DEF ConfirmSwap, MayConfirm, Serially, Slots
  <1>2. /\ row.status = "active" /\ row.requester = r.requester /\ row.owner = r.owner
        /\ row.counterBy = r.counterBy /\ row.approvedBy = r.approvedBy
        /\ row.returned = r.returned
    BY <1>1 DEF Row
  <1>3. /\ m.status = "swap_confirmed" /\ m.requester = row.requester
        /\ m.owner = row.owner /\ m.counterBy = row.counterBy
        /\ m.approvedBy = row.approvedBy /\ m.returned = row.returned
    BY <1>1 DEF transition_to, Row
  <1> HIDE DEF row, m
  <1>4. Follow(r, q)
    BY <1>1, <1>2, <1>3, EdgeTable DEF Follow, Promised, Both
  <1> HIDE DEF q
  <1> QED BY <1>1, <1>4, OneRow, NobodyMoves

LEMMA SwapReadSerial ==
  ASSUME Serial, IInv, Serially, NEW s \in Slots, NEW u \in Users, NEW x \in Exchanges,
         CompleteRead(s, u, x) \/ RequestReturnRead(s, u, x)
  PROVE  Serially' /\ RowsFollow
  <1>1. PICK pc \in {"complete_save", "request_return_save"},
             mem \in {exchange[x], NoRow} :
            /\ Start(s, pc, u, x, mem)
            /\ pc = "complete_save" => mem = exchange[x]
    BY DEF CompleteRead, RequestReturnRead
  <1>2. UNCHANGED exchange /\ Free(s) /\ exchange[x].status = "swap_confirmed"
    BY DEF CompleteRead, RequestReturnRead
  <1> DEFINE j == Serving(pc, u, x, mem, {}, {})
  <1>3. job' = [job EXCEPT ![s] = j]
    BY <1>1 DEF Start
  <1>4. j.pc = pc /\ j.x = x /\ j.mem = mem
    BY Fields
  <1> HIDE DEF j
  <1>5. Reads(j, exchange)
    BY <1>1, <1>2, <1>4 DEF Reads, PendingPcs, ConditionsPcs, ReleasePcs, ReturnPcs,
                            FreeingPcs, AutoPcs, SameBooks
  <1> QED BY <1>2, <1>3, <1>5, Starts

LEMMA CompleteSaveSerial ==
  ASSUME IInv, Serially, NEW s \in Slots, CompleteSave(s)
  PROVE  Serially' /\ RowsFollow
  <1> DEFINE x == job[s].x
             mem == job[s].mem
  <1>1. job[s].pc = "complete_save" /\ Alone(s) /\ Goto(s, "complete_requested")
    BY AtWork DEF CompleteSave, At
  <1>2. /\ x \in Exchanges /\ exchange[x].status = "swap_confirmed" /\ mem \in Row
        /\ SameBooks(mem, exchange[x])
    BY <1>1 DEF IInv, JobInv, RowPcs, SwappedPcs, CompletePcs, Job, Serially, Reads,
                FreeingPcs
  <1>3. exchange' = [exchange EXCEPT ![x].status = "completed"]
    <2>1. transition_to(mem, "completed").status = "completed"
      BY <1>2, TransitionTo DEF Statuses
    <2> QED BY <2>1 DEF CompleteSave
  <1>4. RowsFollow
    BY <1>2, <1>3, OneStatus, EdgeTable
  <1>5. exchange'[x].status = "completed" /\ SameBooks(mem, exchange'[x])
    BY <1>2, <1>3, StatusCases DEF IInv, Row, SameBooks
  <1>6. ASSUME NEW j \in Job, j.pc = "complete_requested", j.x = x, j.mem = mem
        PROVE  Reads(j, exchange')
    BY <1>5, <1>6 DEF Reads, PendingPcs, ConditionsPcs, ReleasePcs, ReturnPcs,
                      FreeingPcs, AutoPcs
  <1>7. "complete_requested" \in PCs
    BY DEF PCs
  <1> QED BY <1>1, <1>4, <1>6, <1>7, GoesTo

\* The statements that release a book and go on.
LEMMA ReleaseSerial ==
  ASSUME IInv, Serially, NEW s \in Slots,
         \/ CompleteRequested(s) \/ ReturnRequested(s) \/ ReturnOffered(s)
         \/ ExpireRequested(s)
  PROVE  Serially' /\ RowsFollow
  <1>1. PICK pc \in {"complete_requested", "return_requested", "return_offered",
                     "expire_requested"},
             next \in {"complete_offered", "return_offered", "return_save",
                       "expire_offered"} :
            At(s, pc) /\ Goto(s, next) /\ Follows(pc, next)
    BY DEF CompleteRequested, ReturnRequested, ReturnOffered, ExpireRequested, Follows
  <1>2. Alone(s) /\ UNCHANGED exchange /\ RowsFollow
    BY <1>1, AtWork, RowsRest
       DEF CompleteRequested, ReturnRequested, ReturnOffered, ExpireRequested, At
  <1>3. Reads(job[s], exchange) /\ job[s].pc = pc
    BY <1>1 DEF Serially, At
  <1>4. ASSUME NEW j \in Job, j.pc = next, j.x = job[s].x, j.mem = job[s].mem,
               j.todo = job[s].todo
        PROVE  Reads(j, exchange')
    <2>1. CASE pc = "complete_requested"
      BY <1>1, <1>2, <1>3, <1>4, <2>1
         DEF Follows, Reads, PendingPcs, ConditionsPcs, ReleasePcs, ReturnPcs, FreeingPcs,
             AutoPcs
    <2>2. CASE pc \in {"return_requested", "return_offered"}
      BY <1>1, <1>2, <1>3, <1>4, <2>2
         DEF Follows, Reads, PendingPcs, ConditionsPcs, ReleasePcs, ReturnPcs, FreeingPcs,
             AutoPcs, ReturnReads
    <2>3. CASE pc = "expire_requested"
      BY <1>1, <1>2, <1>3, <1>4, <2>3
         DEF Follows, Reads, PendingPcs, ConditionsPcs, ReleasePcs, ReturnPcs, FreeingPcs,
             AutoPcs
    <2> QED BY <1>1, <2>1, <2>2, <2>3
  <1>5. next \in PCs
    BY <1>1 DEF PCs
  <1> QED BY <1>1, <1>2, <1>4, <1>5, GoesTo

LEMMA LastReleaseSerial ==
  ASSUME IInv, Serially, NEW s \in Slots, CompleteOffered(s) \/ ExpireOffered(s)
  PROVE  Serially' /\ RowsFollow
  <1>1. Alone(s) /\ UNCHANGED exchange /\ RowsFollow
    BY AtWork, RowsRest DEF CompleteOffered, ExpireOffered, At
  <1>2. CASE Done(s)
    BY <1>1, <1>2, Finishes
  <1>3. CASE ExpireOffered(s) /\ ~Done(s)
    <2> DEFINE rest == job[s].todo \ {job[s].x}
               j == Serving("expire_conditions", None, None, NoRow, rest, {})
    <2>1. job' = [job EXCEPT ![s] = j] /\ job[s].pc = "expire_offered"
      BY <1>3 DEF ExpireOffered, At
    <2>2. \A y \in rest : exchange[y].status \in Stale
      BY <2>1 DEF Serially, Reads, ReleasePcs
    <2>3. j.pc = "expire_conditions" /\ j.x = None /\ j.todo = rest
      BY Fields
    <2> HIDE DEF j, rest
    <2>4. Reads(j, exchange')
      BY <1>1, <2>2, <2>3 DEF Reads, PendingPcs, ConditionsPcs, ReleasePcs, ReturnPcs,
                              FreeingPcs, AutoPcs
    <2> QED BY <1>1, <2>1, <2>4, Moves
  <1> QED BY <1>2, <1>3 DEF CompleteOffered

LEMMA RequestReturnSaveSerial ==
  ASSUME IInv, Serially, NEW s \in Slots, RequestReturnSave(s)
  PROVE  Serially' /\ RowsFollow
  <1>1. job[s].pc = "request_return_save" /\ Alone(s) /\ Done(s)
    BY AtWork DEF RequestReturnSave, At
  <1>2. job[s].x \in Exchanges /\ exchange[job[s].x].status = "swap_confirmed"
    BY <1>1 DEF IInv, JobInv, RowPcs, SwappedPcs, Serially, Reads
  <1> QED BY <1>1, <1>2, OneStatus, EdgeTable, Finishes DEF RequestReturnSave

LEMMA ConfirmReturnReadSerial ==
  ASSUME Serial, IInv, Serially, NEW s \in Slots, NEW u \in Users, NEW x \in Exchanges,
         ConfirmReturnRead(s, u, x)
  PROVE  Serially' /\ RowsFollow
  <1> DEFINE r == exchange[x]
             mem == [r EXCEPT !.returned = @ \cup {u}]
             m == transition_to(mem, "returned")
  <1>1. /\ UNCHANGED exchange /\ Free(s) /\ r.status = "return_requested"
        /\ u \in Both(r) /\ r \in Row /\ Promised(r)
        /\ IF is_return_confirmed(mem) THEN Start(s, "return_requested", u, x, m)
                                       ELSE Start(s, "return_save", u, x, mem)
    BY StatusCases DEF ConfirmReturnRead, Visible, Parties, Both, Serially
  <1>2. /\ mem.status = "return_requested" /\ mem.returned = r.returned \cup {u}
        /\ mem.requester = r.requester /\ mem.owner = r.owner
        /\ mem.requested = r.requested /\ mem.offered = r.offered
    BY <1>1 DEF Row
  <1>3. /\ m.status = "returned" /\ m.returned = mem.returned
        /\ m.requested = mem.requested /\ m.offered = mem.offered
    BY <1>1 DEF transition_to, Row
  <1> HIDE DEF mem, m
  <1>4. /\ mem.returned \subseteq Both(r)
        /\ is_return_confirmed(mem) <=> mem.returned = Both(r)
    BY <1>1, <1>2 DEF Promised, is_return_confirmed, Parties, Both
  <1>5. CASE is_return_confirmed(mem)
    <2> DEFINE j == Serving("return_requested", u, x, m, {}, {})
    <2>1. job' = [job EXCEPT ![s] = j]
      BY <1>1, <1>5 DEF Start
    <2>2. j.pc = "return_requested" /\ j.x = x /\ j.mem = m
      BY Fields
    <2> HIDE DEF j
    <2>3. Reads(j, exchange)
      BY <1>1, <1>2, <1>3, <1>4, <1>5, <2>2
         DEF Reads, PendingPcs, ConditionsPcs, ReleasePcs, ReturnPcs, FreeingPcs,
             AutoPcs, ReturnReads, SameBooks
    <2> QED BY <1>1, <2>1, <2>3, Starts
  <1>6. CASE ~is_return_confirmed(mem)
    <2> DEFINE j == Serving("return_save", u, x, mem, {}, {})
    <2>1. job' = [job EXCEPT ![s] = j]
      BY <1>1, <1>6 DEF Start
    <2>2. j.pc = "return_save" /\ j.x = x /\ j.mem = mem
      BY Fields
    <2> HIDE DEF j
    <2>3. Reads(j, exchange)
      BY <1>1, <1>2, <1>4, <1>6, <2>2
         DEF Reads, PendingPcs, ConditionsPcs, ReleasePcs, ReturnPcs, FreeingPcs,
             AutoPcs, ReturnReads, SameBooks
    <2> QED BY <1>1, <2>1, <2>3, Starts
  <1> QED BY <1>5, <1>6

LEMMA ReturnSaveSerial ==
  ASSUME IInv, Serially, NEW s \in Slots, ReturnSave(s)
  PROVE  Serially' /\ RowsFollow
  <1> DEFINE x == job[s].x
             r == exchange[x]
             mem == job[s].mem
             st == IF mem.status = "returned" THEN "returned" ELSE r.status
             q == [r EXCEPT !.returned = mem.returned, !.status = st]
  <1>1. job[s].pc = "return_save" /\ Alone(s) /\ Done(s)
    BY AtWork DEF ReturnSave, At
  <1>2. x \in Exchanges /\ r \in Row /\ Promised(r) /\ ReturnReads(job[s], r)
    BY <1>1, StatusCases
       DEF IInv, JobInv, RowPcs, SwappedPcs, Serially, Reads, ReturnPcs
  <1>3. exchange' = [exchange EXCEPT ![x] = q]
    BY <1>2 DEF ReturnSave, IInv
  <1>4. /\ q.status = st /\ q.returned = mem.returned
        /\ q.requester = r.requester /\ q.owner = r.owner
        /\ q.counterBy = r.counterBy /\ q.approvedBy = r.approvedBy
    BY <1>2 DEF Row
  <1> HIDE DEF q
  <1>5. Follow(r, q)
    BY <1>2, <1>4, EdgeTable DEF Follow, Promised, Both, ReturnReads
  <1> QED BY <1>1, <1>2, <1>3, <1>5, OneRow, Finishes

LEMMA ExpireConditionsListSerial ==
  ASSUME Serial, IInv, Serially, NEW T \in SUBSET Exchanges, ExpireConditionsList(T)
  PROVE  Serially' /\ RowsFollow
  <1> DEFINE s == "expire_stale_conditions"
             j == Serving("expire_conditions", None, None, NoRow, T, {})
  <1>1. /\ job' = [job EXCEPT ![s] = j] /\ UNCHANGED exchange /\ Free(s)
        /\ \A y \in T : exchange[y].status \in Stale
    BY DEF ExpireConditionsList, ConditionsListed, Stale
  <1>2. s \in Slots
    BY DEF Slots, Beat
  <1>3. j.pc = "expire_conditions" /\ j.x = None /\ j.todo = T
    BY Fields
  <1> HIDE DEF j, s
  <1>4. Reads(j, exchange)
    BY <1>1, <1>3 DEF Reads, PendingPcs, ConditionsPcs, ReleasePcs, ReturnPcs,
                      FreeingPcs, AutoPcs
  <1> QED BY <1>1, <1>2, <1>4, Starts

LEMMA ExpireConditionsSaveSerial ==
  ASSUME IInv, Serially, NEW s \in Slots, NEW x \in Exchanges, ExpireConditionsSave(s, x)
  PROVE  Serially' /\ RowsFollow
  <1> DEFINE j == [job[s] EXCEPT !.pc = "expire_requested", !.x = x, !.mem = exchange[x]]
  <1>1. /\ job[s].pc = "expire_conditions" /\ Alone(s) /\ x \in job[s].todo
        /\ exchange' = [exchange EXCEPT ![x].status = "expired"]
    BY AtWork DEF ExpireConditionsSave, At
  <1>2. /\ \A y \in job[s].todo : exchange[y].status \in Stale
        /\ job[s] \in Job /\ job[s].todo \subseteq Exchanges
    <2>1. job[s].x = None /\ \A y \in job[s].todo \ {job[s].x} : exchange[y].status \in Stale
      BY <1>1 DEF Serially, Reads
    <2>2. job[s] \in Job
      BY DEF IInv
    <2> QED BY <2>1, <2>2, NoneAssumption DEF Job
  <1>3. RowsFollow
    BY <1>1, <1>2, OneStatus, EdgeTable DEF Stale
  <1>4. /\ exchange'[x].status = "expired" /\ SameBooks(exchange[x], exchange'[x])
        /\ \A y \in Exchanges \ {x} : exchange'[y] = exchange[y]
    BY <1>1, StatusCases DEF IInv, Row, SameBooks
  <1>5. j.pc = "expire_requested" /\ j.x = x /\ j.mem = exchange[x] /\ j.todo = job[s].todo
    BY <1>2 DEF Job
  <1>6. job' = [job EXCEPT ![s] = j]
    BY DEF ExpireConditionsSave, IInv
  <1> HIDE DEF j
  <1>7. Reads(j, exchange')
    BY <1>2, <1>4, <1>5 DEF Reads, PendingPcs, ConditionsPcs, ReleasePcs, ReturnPcs,
                            FreeingPcs, AutoPcs
  <1> QED BY <1>1, <1>3, <1>6, <1>7, Moves

LEMMA AutoRequesterOnlyListSerial ==
  ASSUME Serial, IInv, Serially, NEW T \in SUBSET Exchanges, AutoRequesterOnlyList(T)
  PROVE  Serially' /\ RowsFollow
  <1> DEFINE s == "auto_confirm_stale_swaps"
             j == Serving("auto_requester_only", None, None, NoRow, T, {})
  <1>1. /\ job' = [job EXCEPT ![s] = j] /\ UNCHANGED exchange /\ Free(s)
        /\ \A y \in T : exchange[y].status = "active"
    BY DEF AutoRequesterOnlyList, RequesterOnly
  <1>2. s \in Slots
    BY DEF Slots, Beat
  <1>3. j.pc = "auto_requester_only" /\ j.x = None /\ j.todo = T
    BY Fields
  <1> HIDE DEF j, s
  <1>4. Reads(j, exchange)
    BY <1>1, <1>3 DEF Reads, PendingPcs, ConditionsPcs, ReleasePcs, ReturnPcs,
                      FreeingPcs, AutoPcs
  <1> QED BY <1>1, <1>2, <1>4, Starts

LEMMA AutoOwnerOnlyListSerial ==
  ASSUME IInv, Serially, NEW s \in Slots, NEW T \in SUBSET Exchanges,
         AutoOwnerOnlyList(s, T)
  PROVE  Serially' /\ RowsFollow
  <1> DEFINE j == [job[s] EXCEPT !.pc = "auto_owner_only", !.todo = T]
  <1>1. /\ job[s].pc = "auto_requester_only" /\ Alone(s) /\ UNCHANGED exchange
        /\ RowsFollow /\ \A y \in T : exchange[y].status = "active"
    BY AtWork, RowsRest DEF AutoOwnerOnlyList, OwnerOnly, At
  <1>2. job[s].x = None /\ job[s] \in Job
    BY <1>1 DEF Serially, Reads, AutoPcs, IInv
  <1>3. j.pc = "auto_owner_only" /\ j.x = None /\ j.todo = T
    BY <1>2 DEF Job
  <1>4. job' = [job EXCEPT ![s] = j]
    BY DEF AutoOwnerOnlyList, IInv
  <1> HIDE DEF j
  <1>5. Reads(j, exchange')
    BY <1>1, <1>3 DEF Reads, PendingPcs, ConditionsPcs, ReleasePcs, ReturnPcs,
                      FreeingPcs, AutoPcs
  <1> QED BY <1>1, <1>4, <1>5, Moves

LEMMA AutoSaveSerial ==
  ASSUME IInv, Serially, NEW s \in Slots, NEW x \in Exchanges,
         AutoRequesterOnlySave(s, x) \/ AutoOwnerOnlySave(s, x)
  PROVE  Serially' /\ RowsFollow
  <1> DEFINE r == exchange[x]
             j == [job[s] EXCEPT !.todo = @ \ {x}, !.users = @ \cup Parties(x)]
  <1>1. PICK u : AutoConfirm(s, x, u)
    BY DEF AutoRequesterOnlySave, AutoOwnerOnlySave
  <1> DEFINE q == [r EXCEPT !.confirmed = @ \cup {u}, !.status = "swap_confirmed"]
  <1>2. job[s].pc \in AutoPcs /\ Alone(s) /\ x \in job[s].todo
    BY <1>1, AtWork DEF AutoRequesterOnlySave, AutoOwnerOnlySave, AutoConfirm, At, AutoPcs
  <1>3. /\ job[s].x = None /\ \A y \in job[s].todo : exchange[y].status = "active"
        /\ job[s] \in Job /\ r \in Row /\ Promised(r) /\ job[s].todo \subseteq Exchanges
    BY <1>2, StatusCases DEF Serially, Reads, IInv, Job
  <1>4. exchange' = [exchange EXCEPT ![x] = q]
    BY <1>1 DEF AutoConfirm, IInv
  <1>5. /\ q.status = "swap_confirmed" /\ q.requester = r.requester /\ q.owner = r.owner
        /\ q.counterBy = r.counterBy /\ q.approvedBy = r.approvedBy
        /\ q.returned = r.returned
    BY <1>3 DEF Row
  <1> HIDE DEF q
  <1>6. Follow(r, q)
    BY <1>2, <1>3, <1>5, EdgeTable DEF Follow, Promised, Both
  <1>7. RowsFollow
    BY <1>4, <1>6, OneRow
  <1>8. \A y \in Exchanges \ {x} : exchange'[y] = exchange[y]
    BY <1>4 DEF IInv
  <1>9. j.pc = job[s].pc /\ j.x = None /\ j.todo = job[s].todo \ {x}
    BY <1>3 DEF Job
  <1>10. job' = [job EXCEPT ![s] = j]
    BY <1>1 DEF AutoConfirm, IInv
  <1> HIDE DEF j
  <1>11. Reads(j, exchange')
    BY <1>2, <1>3, <1>8, <1>9 DEF Reads, PendingPcs, ConditionsPcs, ReleasePcs, ReturnPcs,
                                  FreeingPcs, AutoPcs
  <1> QED BY <1>2, <1>7, <1>10, <1>11, Moves

LEMMA AutoCountSerial ==
  ASSUME IInv, Serially, NEW s \in Slots, AutoCount(s)
  PROVE  Serially' /\ RowsFollow
  BY AtWork, RowsRest, Finishes DEF AutoCount, At

LEMMA FulfilmentSerial ==
  ASSUME Serial, IInv, Serially, FulfilmentNext PROVE Serially' /\ RowsFollow
  <1>1. CASE \E s \in Workers : FulfilmentRequest(s)
    <2>1. PICK s \in Slots : FulfilmentRequest(s)
      BY <1>1 DEF Slots
    <2> QED BY <2>1, ConditionsReadSerial, SwapReadSerial, ConfirmReturnReadSerial
               DEF FulfilmentRequest
  <1>2. CASE \E s \in Slots : FulfilmentStep(s)
    <2>1. PICK s \in Slots : FulfilmentStep(s)
      BY <1>2
    <2>2. CASE \/ ConditionsInsert(s) \/ ConditionsCount(s) \/ ConditionsSave(s)
               \/ CompleteSave(s) \/ RequestReturnSave(s) \/ ReturnSave(s)
      BY <2>2, ConditionsInsertSerial, ConditionsCountSerial, ConditionsSaveSerial,
         CompleteSaveSerial, RequestReturnSaveSerial, ReturnSaveSerial
    <2>3. CASE \/ CompleteRequested(s) \/ CompleteOffered(s)
               \/ ReturnRequested(s) \/ ReturnOffered(s)
               \/ ExpireRequested(s) \/ ExpireOffered(s)
      BY <2>3, ReleaseSerial, LastReleaseSerial
    <2>4. CASE AutoCount(s) \/ \E T \in SUBSET Exchanges : AutoOwnerOnlyList(s, T)
      BY <2>4, AutoCountSerial, AutoOwnerOnlyListSerial
    <2>5. CASE \E x \in Exchanges : \/ ExpireConditionsSave(s, x)
                                    \/ AutoRequesterOnlySave(s, x)
                                    \/ AutoOwnerOnlySave(s, x)
      BY <2>5, ExpireConditionsSaveSerial, AutoSaveSerial
    <2> QED BY <2>1, <2>2, <2>3, <2>4, <2>5 DEF FulfilmentStep
  <1> QED
    BY <1>1, <1>2, ConfirmSwapSerial, ExpireConditionsListSerial,
       AutoRequesterOnlyListSerial DEF FulfilmentNext

\* Every step keeps what was read, and moves every status along an edge.
LEMMA NextSerial ==
  ASSUME Serial, IInv, Serially, [Next]_vars PROVE Serially' /\ RowsFollow
  <1>1. CASE \E s \in Slots : Crash(s)
    BY <1>1, AtWork, RowsRest, Finishes, IdleInv DEF Crash, Serially, OneAtATime, Alone
  <1>2. CASE UNCHANGED vars
    <2>1. UNCHANGED <<exchange, job>>
      BY <1>2 DEF vars
    <2> QED BY <2>1, RowsRest DEF Serially, OneAtATime, Alone
  <1> QED BY <1>1, <1>2, NegotiationSerial, FulfilmentSerial DEF Next

LEMMA InitSerial == ASSUME Init PROVE Serially
  <1>1. \A s \in Slots : job[s] = Idle
    BY DEF Init, NegotiationInit
  <1>2. OneAtATime
    BY <1>1 DEF OneAtATime, Alone, Slots, Beat
  <1>3. \A x \in Exchanges : Promised(exchange[x])
    BY DEF Init, NegotiationInit, NoRow, NewRow, Promised
  <1> QED BY <1>1, <1>2, <1>3, IdleReads DEF Serially

\* While requests and tasks are served one at a time, whatever a process read is
\* still so when it writes, and every row is as its status promises.  (every
\* handler that reads, checks and saves in views.py, every task of tasks.py)
THEOREM ServedInTurn == Serial => (Spec => []Serially)
  <1> SUFFICES ASSUME Serial PROVE Spec => []Serially
    OBVIOUS
  <1>1. Init => Serially
    BY InitSerial
  <1>2. IInv /\ Serially /\ [Next]_vars => Serially'
    BY NextSerial
  <1> QED BY <1>1, <1>2, InductiveInvariant, PTL DEF Spec

\* The statuses a step changes move along edges of the life cycle.
LEMMA StepLifecycle ==
  ASSUME IInv, IInv', RowsFollow
  PROVE  L!Next \/ UNCHANGED [x \in Exchanges |-> exchange[x].status]
  <1> DEFINE S == {x \in Exchanges : exchange'[x].status # exchange[x].status}
             Status == [x \in Exchanges |-> exchange[x].status]
  <1>1. CASE S = {}
    <2>1. \A x \in Exchanges : exchange'[x].status = exchange[x].status
      BY <1>1
    <2> QED BY <2>1
  <1>2. CASE S # {}
    <2>1. \A x \in S : Status'[x] \in L!Edges(Status[x])
      BY DEF RowsFollow, Follow
    <2>2. \A x \in Exchanges \ S : Status'[x] = Status[x]
      OBVIOUS
    <2>3. DOMAIN Status' = Exchanges /\ S \in SUBSET Exchanges
      OBVIOUS
    <2> HIDE DEF S
    <2> QED BY <1>2, <2>1, <2>2, <2>3 DEF L!Next, L!Move
  <1> QED BY <1>1, <1>2

\* Served one at a time, every exchange follows the life cycle that
\* VALID_TRANSITIONS draws: no status is skipped, and what ended never comes
\* back.  The system implements Lifecycle.  (VALID_TRANSITIONS, models.py)
THEOREM FollowsLifecycle == Serial => (Spec => LifecycleSpec)
  <1> SUFFICES ASSUME Serial PROVE Spec => LifecycleSpec
    OBVIOUS
  <1>1. Init => L!Init
    BY DEF Init, NegotiationInit, L!Init, NoRow, NewRow
  <1>2. IInv /\ IInv' /\ Serially /\ [Next]_vars
          => [L!Next]_([x \in Exchanges |-> exchange[x].status])
    BY NextSerial, StepLifecycle
  <1> QED
    BY <1>1, <1>2, InductiveInvariant, ServedInTurn, PTL DEF Spec, LifecycleSpec, L!Spec

\* In a run that serves one request or task at a time, a counter-offer is never
\* approved by the party that made it, however the counter-offers and the
\* approvals follow each other.  (approve_counter, views.py)
THEOREM ApprovedByTheOther == Serial => (Spec => []ApprovedByOther)
  <1> SUFFICES ASSUME Serial PROVE Spec => []ApprovedByOther
    OBVIOUS
  <1>1. Serially => ApprovedByOther
    BY DEF Serially, ApprovedByOther, Promised, Both, Parties
  <1> QED BY <1>1, ServedInTurn, PTL

\* Served one at a time, an exchange is returned when the second party confirms
\* the return, not before and not later: the confirmation and the status are
\* saved from the same instance.  (confirm_return, views.py)
THEOREM ReturnTakesBoth == Serial => (Spec => []ReturnedByBoth)
  <1> SUFFICES ASSUME Serial PROVE Spec => []ReturnedByBoth
    OBVIOUS
  <1>1. Serially => ReturnedByBoth
    BY DEF Serially, ReturnedByBoth, Promised, Both, Parties
  <1> QED BY <1>1, ServedInTurn, PTL

-----------------------------------------------------------------------------
(* The swap counts. *)

Count(u) == Cardinality(SwapsOf(u))

\* No user loses a swap: their exchanges that were swapped stay swapped.
CountsGrow == \A u \in Users : Count(u) <= Count(u)'

LEMMA SwapsFinite ==
  ASSUME NEW u PROVE IsFiniteSet(SwapsOf(u)) /\ Count(u) \in Nat
  <1>1. SwapsOf(u) \in SUBSET Exchanges
    BY DEF SwapsOf
  <1> QED BY <1>1, FS_Subset, FS_CardinalityType, ExchangesAssumption DEF Count

LEMMA SwapsFiniteNext ==
  ASSUME NEW u PROVE IsFiniteSet(SwapsOf(u)') /\ Count(u)' \in Nat
  <1>1. SwapsOf(u)' \in SUBSET Exchanges
    BY DEF SwapsOf
  <1> QED BY <1>1, FS_Subset, FS_CardinalityType, ExchangesAssumption DEF Count

LEMMA SwapsGrow ==
  ASSUME RowsStep, RowsFollow, IInv, NEW u
  PROVE  SwapsOf(u) \subseteq SwapsOf(u)'
  <1> SUFFICES ASSUME NEW x \in SwapsOf(u) PROVE x \in SwapsOf(u)'
    OBVIOUS
  <1>1. x \in Exchanges /\ u \in Parties(x) /\ exchange[x].status \in Swapped
    BY DEF SwapsOf
  <1>2. exchange'[x].status \in Swapped
    BY <1>1, EdgeTable DEF RowsFollow, Follow, Swapped
  <1>3. u \in Parties(x)'
    BY <1>1 DEF RowsStep, RowStep, Parties, Swapped
  <1> QED BY <1>1, <1>2, <1>3 DEF SwapsOf

LEMMA CountsOnlyGrow ==
  ASSUME RowsStep, RowsFollow, IInv PROVE CountsGrow
  BY SwapsGrow, SwapsFiniteNext, FS_Subset DEF CountsGrow, Count

\* An exchange that is swapped counts for both its parties.
LEMMA OneMoreSwap ==
  ASSUME RowsStep, RowsFollow, IInv, NEW x \in Exchanges,
         exchange[x].status = "active", exchange'[x].status = "swap_confirmed",
         NEW u \in Both(exchange[x])
  PROVE  Count(u) + 1 <= Count(u)'
  <1>1. SwapsOf(u) \cup {x} \in SUBSET (SwapsOf(u)')
    <2>1. u \in Parties(x)'
      BY DEF RowsStep, RowStep, Parties, Both
    <2> QED BY <2>1, SwapsGrow DEF SwapsOf, Swapped
  <1>2. x \notin SwapsOf(u)
    BY DEF SwapsOf, Swapped
  <1>3. Cardinality(SwapsOf(u) \cup {x}) = Count(u) + 1
    BY <1>2, SwapsFinite, FS_AddElement DEF Count
  <1> QED BY <1>1, <1>3, SwapsFiniteNext, FS_Subset DEF Count

\* The weekly task's list of users, and nobody else's, is about the credits.
AutoSteady ==
    \A s \in Slots : job'[s].pc \in AutoPcs =>
        \/ job'[s].users = {}
        \/ job[s].pc \in AutoPcs /\ job'[s].users = job[s].users

LEMMA CreditsStay ==
  ASSUME IInv, CreditsOwed, CountsGrow, AutoSteady, UNCHANGED swapCount
  PROVE  CreditsOwed'
  <1>1. \A u \in Users : swapCount[u] \in Nat /\ Count(u) \in Nat /\ Count(u)' \in Nat
    BY SwapsFinite, SwapsFiniteNext DEF IInv
  <1>2. SwapCountBounded'
    BY <1>1 DEF SwapCountBounded, CreditsOwed, CountsGrow, Count
  <1>3. ASSUME NEW s \in Slots, job'[s].pc \in AutoPcs, NEW u \in job'[s].users
        PROVE  swapCount'[u] < Count(u)'
    <2>1. job[s].pc \in AutoPcs /\ u \in job[s].users
      BY <1>3 DEF AutoSteady
    <2>2. u \in Users
      BY <2>1 DEF IInv, Job
    <2> QED BY <1>1, <2>1, <2>2 DEF CreditsOwed, CountsGrow, Count
  <1> QED BY <1>2, <1>3 DEF CreditsOwed, Count

LEMMA NoAuto ==
  ASSUME IInv, NEW s \in Slots, NEW j, job' = [job EXCEPT ![s] = j],
         j.pc \in AutoPcs => j.users = {}
  PROVE  AutoSteady
  BY DEF AutoSteady, IInv

LEMMA IdleNoAuto == ASSUME IInv, NEW s \in Slots, Done(s) PROVE AutoSteady
  BY NoAuto, IdleInv DEF Done, AutoPcs

LEMMA StartNoAuto ==
  ASSUME IInv, NEW s \in Slots, NEW pc, NEW u, NEW x, NEW m, Start(s, pc, u, x, m)
  PROVE  AutoSteady
  BY NoAuto DEF Start, Serving

LEMMA GotoNoAuto ==
  ASSUME IInv, NEW s \in Slots, NEW pc \in PCs \ AutoPcs, Goto(s, pc) PROVE AutoSteady
  <1> DEFINE j == [job[s] EXCEPT !.pc = pc]
  <1>1. j.pc = pc /\ job' = [job EXCEPT ![s] = j]
    BY GotoFields
  <1> HIDE DEF j
  <1> QED BY <1>1, NoAuto

LEMMA NegotiationAuto ==
  ASSUME IInv, NegotiationNext PROVE AutoSteady /\ UNCHANGED swapCount
  <1>1. CASE \E s \in Workers : NegotiationRequest(s)
    <2>1. PICK s \in Slots : NegotiationRequest(s)
      BY <1>1 DEF Slots
    <2>2. CASE \E u \in Users, b, o \in Books, permanent \in SwapTypes, x \in Exchanges :
                  CreateCheck(s, u, b, o, permanent, x)
      BY <2>2, StartNoAuto DEF CreateCheck
    <2>3. CASE \E u \in Users, x \in Exchanges :
                  ApproveRead(s, u, x) \/ DeclineRead(s, u, x) \/ CancelRead(s, u, x)
      BY <2>3, StartNoAuto DEF ApproveRead, DeclineRead, CancelRead
    <2>4. CASE \E u \in Users, x \in Exchanges : AcceptLock(s, u, x)
      BY <2>4, NoAuto DEF AcceptLock, Serving, AutoPcs
    <2>5. CASE \E u, v \in Users : BlockCreate(s, u, v)
      BY <2>5, NoAuto DEF BlockCreate, Serving, AutoPcs
    <2> QED BY <2>1, <2>2, <2>3, <2>4, <2>5 DEF NegotiationRequest
  <1>2. CASE \E s \in Slots : NegotiationStep(s)
    <2>1. PICK s \in Slots : NegotiationStep(s)
      BY <1>2
    <2>2. CASE \E x \in Exchanges : ExpireRequestSave(s, x) /\ ~Done(s)
      <3>1. job' = [job EXCEPT ![s] = [job[s] EXCEPT !.todo = job'[s].todo]]
            /\ job[s].pc = "expire_requests" /\ UNCHANGED swapCount
        BY <2>2 DEF ExpireRequestSave, At, IInv, Job
      <3> QED BY <3>1, NoAuto DEF AutoPcs, IInv, Job
    <2> QED
      BY <2>1, <2>2, IdleNoAuto
         DEF NegotiationStep, CreateInsert, ApproveSave, AcceptCommit, DeclineSave,
             CancelSave, BlockCancel, ExpireRequestSave
  <1>3. CASE (\E u \in Users, x \in Exchanges, b \in Books : Counter(u, x, b))
             \/ \E u, v \in Users : Unblock(u, v)
    BY <1>3 DEF Counter, Unblock, AutoSteady
  <1>4. CASE \E T \in SUBSET Exchanges : ExpireRequestsList(T)
    BY <1>4, NoAuto DEF ExpireRequestsList, Serving, AutoPcs, Slots, Beat
  <1> QED BY <1>1, <1>2, <1>3, <1>4 DEF NegotiationNext

\* The statements of Fulfilment that neither swap nor count.
FulfilmentMoves ==
    \/ \E s \in Slots :
          \/ FulfilmentRequest(s)
          \/ ConditionsInsert(s) \/ ConditionsCount(s) \/ ConditionsSave(s)
          \/ CompleteSave(s) \/ CompleteRequested(s) \/ CompleteOffered(s)
          \/ RequestReturnSave(s)
          \/ ReturnRequested(s) \/ ReturnOffered(s) \/ ReturnSave(s)
          \/ ExpireRequested(s) \/ ExpireOffered(s)
          \/ \E x \in Exchanges : ExpireConditionsSave(s, x)
          \/ \E T \in SUBSET Exchanges : AutoOwnerOnlyList(s, T)
    \/ \E T \in SUBSET Exchanges : ExpireConditionsList(T) \/ AutoRequesterOnlyList(T)

LEMMA FulfilmentAuto ==
  ASSUME IInv, FulfilmentMoves PROVE AutoSteady /\ UNCHANGED swapCount
  <1>1. CASE \E s \in Slots : FulfilmentRequest(s)
    BY <1>1, StartNoAuto DEF FulfilmentRequest, ConditionsRead, CompleteRead,
                             RequestReturnRead, ConfirmReturnRead
  <1>2. CASE \E s \in Slots : ConditionsSave(s) \/ CompleteOffered(s)
                                 \/ RequestReturnSave(s) \/ ReturnSave(s)
    BY <1>2, IdleNoAuto DEF ConditionsSave, CompleteOffered, RequestReturnSave, ReturnSave
  <1>3. CASE \E s \in Slots : \/ ConditionsInsert(s) \/ CompleteSave(s)
                              \/ CompleteRequested(s) \/ ReturnRequested(s)
                              \/ ReturnOffered(s) \/ ExpireRequested(s)
    <2>1. PICK s \in Slots, pc \in {"conditions_count", "complete_requested",
                                    "complete_offered", "return_offered", "return_save",
                                    "expire_offered"} :
              (Goto(s, pc) \/ Done(s)) /\ UNCHANGED swapCount
      BY <1>3 DEF ConditionsInsert, CompleteSave, CompleteRequested, ReturnRequested,
                  ReturnOffered, ExpireRequested
    <2>2. pc \in PCs \ AutoPcs
      BY DEF PCs, AutoPcs
    <2> QED BY <2>1, <2>2, IdleNoAuto, GotoNoAuto
  <1>4. CASE \E s \in Slots : ConditionsCount(s)
    <2>1. PICK s \in Slots : ConditionsCount(s)
      BY <1>4
    <2>2. CASE Done(s) \/ Goto(s, "conditions_save")
      <3>1. "conditions_save" \in PCs \ AutoPcs
        BY DEF PCs, AutoPcs
      <3> QED BY <2>1, <2>2, <3>1, IdleNoAuto, GotoNoAuto DEF ConditionsCount
    <2>3. CASE ~Done(s) /\ ~Goto(s, "conditions_save")
      <3>1. PICK mem : job' = [job EXCEPT ![s].pc = "conditions_save", ![s].mem = mem]
        BY <2>1, <2>3, Zenon DEF ConditionsCount
      <3> DEFINE j == [job[s] EXCEPT !.pc = "conditions_save", !.mem = mem]
      <3>2. job \in [Slots -> Job]
        BY DEF IInv
      <3>3. job' = [job EXCEPT ![s] = j] /\ j.pc = "conditions_save"
        BY <3>1, <3>2 DEF Job
      <3> HIDE DEF j
      <3> QED BY <2>1, <3>3, NoAuto DEF ConditionsCount, AutoPcs
    <2> QED BY <2>2, <2>3
  <1>5. CASE \E s \in Slots : ExpireOffered(s)
    BY <1>5, IdleNoAuto, NoAuto DEF ExpireOffered, Serving, AutoPcs
  <1>6. CASE \E s \in Slots, x \in Exchanges : ExpireConditionsSave(s, x)
    <2>1. PICK s \in Slots, x \in Exchanges : ExpireConditionsSave(s, x)
      BY <1>6
    <2> DEFINE j == [job[s] EXCEPT !.pc = "expire_requested", !.x = x, !.mem = exchange[x]]
    <2>2. job' = [job EXCEPT ![s] = j] /\ j.pc = "expire_requested"
      BY <2>1 DEF ExpireConditionsSave, IInv, Job
    <2> HIDE DEF j
    <2> QED BY <2>1, <2>2, NoAuto DEF ExpireConditionsSave, AutoPcs
  <1>7. CASE \E s \in Slots, T \in SUBSET Exchanges : AutoOwnerOnlyList(s, T)
    BY <1>7 DEF AutoOwnerOnlyList, At, AutoSteady, IInv, Job, AutoPcs
  <1>8. CASE \E T \in SUBSET Exchanges : ExpireConditionsList(T) \/ AutoRequesterOnlyList(T)
    BY <1>8, NoAuto DEF ExpireConditionsList, AutoRequesterOnlyList, Serving, AutoPcs,
                        Slots, Beat
  <1> QED BY <1>1, <1>2, <1>3, <1>4, <1>5, <1>6, <1>7, <1>8 DEF FulfilmentMoves

LEMMA ConfirmSwapCredits ==
  ASSUME Serial, IInv, Serially, RowsStep, RowsFollow, CreditsOwed,
         NEW u \in Users, NEW x \in Exchanges, ConfirmSwap(u, x)
  PROVE  CreditsOwed'
  <1> DEFINE r == exchange[x]
             row == [r EXCEPT !.confirmed = @ \cup {u}]
  <1>1. /\ UNCHANGED job /\ \A t \in Slots : job[t] = Idle
        /\ r.status = "active" /\ r \in Row
        /\ exchange' = [exchange EXCEPT ![x] = IF is_swap_confirmed(row)
                           THEN transition_to(row, "swap_confirmed") ELSE row]
        /\ swapCount' = [v \in Users |->
               IF v \in Credited(row) THEN swapCount[v] + 1 ELSE swapCount[v]]
    BY FreeAlone, StatusCases DEF ConfirmSwap, MayConfirm, Slots
  <1>2. \A s \in Slots : job'[s].pc \notin AutoPcs
    BY <1>1, IdleInv DEF AutoPcs
  <1>3. row \in Row /\ row.requester = r.requester /\ row.owner = r.owner
    BY <1>1 DEF Row
  <1>4. CASE is_swap_confirmed(row)
    <2>1. transition_to(row, "swap_confirmed").status = "swap_confirmed"
      BY <1>3, TransitionTo DEF Statuses
    <2>2. exchange'[x].status = "swap_confirmed"
      BY <1>1, <1>4, <2>1 DEF IInv
    <2>3. \A v \in Users : swapCount'[v] = IF v \in Both(r) THEN swapCount[v] + 1
                                                           ELSE swapCount[v]
      BY <1>1, <1>3, <1>4 DEF Credited, Both
    <2>4. \A v \in Users : swapCount[v] \in Nat /\ Count(v) \in Nat /\ Count(v)' \in Nat
      BY SwapsFinite, SwapsFiniteNext DEF IInv
    <2>5. ASSUME NEW v \in Users PROVE swapCount'[v] <= Count(v)'
      <3>1. swapCount[v] <= Count(v)
        BY DEF CreditsOwed, SwapCountBounded, Count
      <3>2. CASE v \in Both(r)
        <4>1. Count(v) + 1 <= Count(v)'
          BY <1>1, <2>2, <3>2, OneMoreSwap
        <4> QED BY <2>3, <2>4, <3>1, <3>2, <4>1
      <3>3. CASE v \notin Both(r)
        <4>1. Count(v) <= Count(v)'
          BY CountsOnlyGrow DEF CountsGrow
        <4> QED BY <2>3, <2>4, <3>1, <3>3, <4>1
      <3> QED BY <3>2, <3>3
    <2> QED BY <1>2, <2>5 DEF CreditsOwed, SwapCountBounded, Count
  <1>5. CASE ~is_swap_confirmed(row)
    <2>1. UNCHANGED swapCount
      BY <1>1, <1>5 DEF Credited, IInv
    <2> QED BY <1>1, <2>1, CountsOnlyGrow, CreditsStay DEF AutoSteady
  <1> QED BY <1>4, <1>5

\* Everyone in the list of the weekly task is owed one swap more.
LEMMA AutoSaveCredits ==
  ASSUME IInv, Serially, RowsStep, RowsFollow, CreditsOwed, NEW s \in Slots,
         NEW x \in Exchanges, AutoRequesterOnlySave(s, x) \/ AutoOwnerOnlySave(s, x)
  PROVE  CreditsOwed'
  <1>1. PICK u : AutoConfirm(s, x, u)
    BY DEF AutoRequesterOnlySave, AutoOwnerOnlySave
  <1>2. job[s].pc \in AutoPcs /\ Alone(s) /\ x \in job[s].todo
    BY <1>1, AtWork DEF AutoRequesterOnlySave, AutoOwnerOnlySave, AutoConfirm, At, AutoPcs
  <1>3. /\ exchange[x].status = "active" /\ exchange'[x].status = "swap_confirmed"
        /\ job[s].users \subseteq Users /\ UNCHANGED swapCount
        /\ job'[s].users = job[s].users \cup Both(exchange[x])
    BY <1>1, <1>2 DEF Serially, Reads, AutoConfirm, IInv, Job, Row, Both, Parties
  <1>4. Both(exchange[x]) \subseteq Users
    BY <1>3 DEF IInv, RowInv, Loaded, Both
  <1>5. \A v \in Users : swapCount[v] \in Nat /\ Count(v) \in Nat /\ Count(v)' \in Nat
                            /\ Count(v) <= Count(v)'
    BY SwapsFinite, SwapsFiniteNext, CountsOnlyGrow DEF IInv, CountsGrow
  <1>6. SwapCountBounded'
    BY <1>3, <1>5 DEF CreditsOwed, SwapCountBounded, Count
  <1>7. ASSUME NEW v \in job'[s].users PROVE swapCount'[v] < Count(v)'
    <2>1. CASE v \in job[s].users
      <3>1. swapCount[v] < Count(v) /\ v \in Users
        BY <1>2, <1>3, <2>1 DEF CreditsOwed, Count
      <3> QED BY <1>3, <1>5, <3>1
    <2>2. CASE v \in Both(exchange[x])
      <3>1. Count(v) + 1 <= Count(v)' /\ v \in Users
        BY <1>3, <1>4, <2>2, OneMoreSwap
      <3>2. swapCount[v] <= Count(v)
        BY <3>1 DEF CreditsOwed, SwapCountBounded, Count
      <3> QED BY <1>3, <1>5, <3>1, <3>2
    <2> QED BY <1>3, <1>7, <2>1, <2>2
  <1>8. \A t \in Slots \ {s} : job'[t].pc \notin AutoPcs
    BY <1>1, <1>2, IdleInv DEF AutoConfirm, Alone, AutoPcs, IInv
  <1> QED BY <1>6, <1>7, <1>8 DEF CreditsOwed, Count

LEMMA AutoCountCredits ==
  ASSUME IInv, Serially, CreditsOwed, NEW s \in Slots, AutoCount(s)
  PROVE  CreditsOwed'
  <1>1. /\ job[s].pc = "auto_owner_only" /\ Alone(s) /\ Done(s) /\ UNCHANGED exchange
        /\ swapCount' = [u \in Users |-> IF u \in job[s].users THEN swapCount[u] + 1
                                                              ELSE swapCount[u]]
    BY AtWork DEF AutoCount, At
  <1>2. \A t \in Slots : job'[t].pc \notin AutoPcs
    BY <1>1, IdleInv DEF Done, Alone, IInv, AutoPcs
  <1>3. \A v \in Users : Count(v)' = Count(v) /\ swapCount[v] \in Nat /\ Count(v) \in Nat
    BY <1>1, SwapsFinite DEF Count, SwapsOf, Parties, IInv
  <1>4. \A v \in Users : swapCount[v] <= Count(v)
                            /\ (v \in job[s].users => swapCount[v] < Count(v))
    BY <1>1 DEF CreditsOwed, SwapCountBounded, Count, AutoPcs
  <1>5. \A v \in Users : swapCount'[v] <= Count(v)'
    BY <1>1, <1>3, <1>4
  <1> QED BY <1>2, <1>5 DEF CreditsOwed, SwapCountBounded, Count

LEMMA NextCredits ==
  ASSUME Serial, IInv, Serially, CreditsOwed, [Next]_vars PROVE CreditsOwed'
  <1>1. RowsStep /\ RowsFollow /\ IInv' /\ CountsGrow
    BY NextInv, NextSerial, CountsOnlyGrow DEF Kept
  <1>2. CASE NegotiationNext
    BY <1>1, <1>2, NegotiationAuto, CreditsStay
  <1>3. CASE FulfilmentMoves
    BY <1>1, <1>3, FulfilmentAuto, CreditsStay
  <1>4. CASE \E s \in Slots : Crash(s)
    BY <1>1, <1>4, IdleNoAuto, CreditsStay DEF Crash
  <1>5. CASE UNCHANGED vars
    <2>1. UNCHANGED <<swapCount, job>>
      BY <1>5 DEF vars
    <2> QED BY <1>1, <2>1, CreditsStay DEF AutoSteady
  <1>6. CASE FulfilmentNext /\ ~FulfilmentMoves
    <2>1. \/ \E u \in Users, x \in Exchanges : ConfirmSwap(u, x)
          \/ \E s \in Slots : AutoCount(s)
          \/ \E s \in Slots, x \in Exchanges :
                AutoRequesterOnlySave(s, x) \/ AutoOwnerOnlySave(s, x)
      BY <1>6 DEF FulfilmentNext, FulfilmentMoves, FulfilmentStep, Slots
    <2> QED BY <1>1, <2>1, ConfirmSwapCredits, AutoCountCredits, AutoSaveCredits
  <1> QED BY <1>2, <1>3, <1>4, <1>5, <1>6 DEF Next

\* Served one at a time, nobody's swap count exceeds the number of their
\* exchanges that were swapped, although the weekly task counts at the end, from
\* a list of users.  (confirm_swap, auto_confirm_stale_swaps)
THEOREM CreditsAreEarned == Serial => (Spec => []SwapCountBounded)
  <1> SUFFICES ASSUME Serial PROVE Spec => []SwapCountBounded
    OBVIOUS
  <1>1. Init => CreditsOwed
    <2> SUFFICES ASSUME Init PROVE CreditsOwed
      OBVIOUS
    <2>1. \A s \in Slots : job[s].pc \notin AutoPcs
      BY IdleInv DEF Init, NegotiationInit, AutoPcs
    <2>2. \A u \in Users : swapCount[u] = 0 /\ Count(u) \in Nat
      BY SwapsFinite DEF Init, NegotiationInit
    <2> QED BY <2>1, <2>2 DEF CreditsOwed, SwapCountBounded, Count
  <1>2. IInv /\ Serially /\ CreditsOwed /\ [Next]_vars => CreditsOwed'
    BY NextCredits
  <1>3. CreditsOwed => SwapCountBounded
    BY DEF CreditsOwed
  <1> QED BY <1>1, <1>2, <1>3, InductiveInvariant, ServedInTurn, PTL DEF Spec

-----------------------------------------------------------------------------
(* The statements that concern neither the blocks nor the shelves. *)

Matching == {"create_insert", "block_cancel"}
Shelving == FreeingPcs \ {"complete_save"}

\* No process reaches or leaves one of the points W.
JobsSteady(W) ==
    \A s \in Slots : job[s].pc \in W \/ job'[s].pc \in W => job'[s] = job[s]

Onward == {"declined", "cancelled", "conditions_pending", "active", "swap_confirmed",
           "return_requested"}

\* No exchange is requested or accepted, and none that holds books ends.
RowsSteady ==
    \A x \in Exchanges :
        \/ exchange'[x].status = exchange[x].status
        \/ exchange'[x].status \in Onward
        \/ exchange[x].status = "pending" /\ exchange'[x].status = "expired"

Steady == JobsSteady(Matching \cup Shelving) /\ RowsSteady /\ UNCHANGED <<book, blocks>>

LEMMA Pcs ==
  Matching \cup Shelving =
    {"create_insert", "block_cancel", "complete_requested", "complete_offered",
     "return_requested", "return_offered", "return_save", "expire_requested",
     "expire_offered"}
  BY DEF Matching, Shelving, FreeingPcs, ReturnPcs, ReleasePcs

LEMMA JobSteady ==
  ASSUME IInv, NEW s \in Slots, NEW j, job' = [job EXCEPT ![s] = j], NEW W,
         job[s].pc \notin W, j.pc \notin W
  PROVE  JobsSteady(W)
  BY DEF JobsSteady, IInv

LEMMA DoneSteady ==
  ASSUME IInv, NEW s \in Slots, Done(s), NEW W, job[s].pc \notin W, "idle" \notin W
  PROVE  JobsSteady(W)
  BY JobSteady, IdleInv DEF Done

LEMMA StartSteady ==
  ASSUME IInv, NEW s \in Slots, Free(s), NEW W, "idle" \notin W,
         NEW pc, NEW u, NEW x, NEW m, Start(s, pc, u, x, m), pc \notin W
  PROVE  JobsSteady(W)
  <1> DEFINE j == Serving(pc, u, x, m, {}, {})
  <1>1. job' = [job EXCEPT ![s] = j] /\ j.pc = pc /\ job[s].pc = "idle"
    BY IdleInv, Fields DEF Start, Free
  <1> HIDE DEF j
  <1> QED BY <1>1, JobSteady

LEMMA GotoSteady ==
  ASSUME IInv, NEW s \in Slots, NEW pc \in PCs, Goto(s, pc), NEW W,
         job[s].pc \notin W, pc \notin W
  PROVE  JobsSteady(W)
  <1> DEFINE j == [job[s] EXCEPT !.pc = pc]
  <1>1. j.pc = pc /\ job' = [job EXCEPT ![s] = j]
    BY GotoFields
  <1> HIDE DEF j
  <1> QED BY <1>1, JobSteady

\* A statement that writes one row, and perhaps its status.
LEMMA RowSteady ==
  ASSUME IInv, NEW x, NEW q, exchange' = [exchange EXCEPT ![x] = q],
         x \in Exchanges => \/ q.status = exchange[x].status
                            \/ q.status \in Onward
                            \/ exchange[x].status = "pending" /\ q.status = "expired"
  PROVE  RowsSteady
  BY DEF RowsSteady, IInv

LEMMA StatusSteady ==
  ASSUME IInv, NEW x, NEW st, exchange' = [exchange EXCEPT ![x].status = st],
         x \in Exchanges => \/ st = exchange[x].status
                            \/ st \in Onward
                            \/ exchange[x].status = "pending" /\ st = "expired"
  PROVE  RowsSteady
  BY StatusCases DEF RowsSteady, IInv, Row

NegotiationMoves ==
    \/ \E s \in Slots :
          \/ \E u \in Users, x \in Exchanges :
                \/ ApproveRead(s, u, x)
                \/ AcceptLock(s, u, x)
                \/ DeclineRead(s, u, x)
                \/ CancelRead(s, u, x)
          \/ ApproveSave(s) \/ DeclineSave(s) \/ CancelSave(s)
          \/ \E x \in Exchanges : ExpireRequestSave(s, x)
    \/ \E u \in Users, x \in Exchanges, b \in Books : Counter(u, x, b)
    \/ \E T \in SUBSET Exchanges : ExpireRequestsList(T)

LEMMA NegotiationSteady ==
  ASSUME Serial, IInv, Serially, NegotiationMoves PROVE Steady
  <1> DEFINE W == Matching \cup Shelving
  <1>1. ASSUME NEW s \in Slots, NEW u \in Users, NEW x \in Exchanges,
               \/ ApproveRead(s, u, x) \/ DeclineRead(s, u, x) \/ CancelRead(s, u, x)
        PROVE  Steady
    <2>1. PICK pc \in {"approve_save", "decline_save", "cancel_save"} :
              Start(s, pc, u, x, NoRow)
      BY <1>1 DEF ApproveRead, DeclineRead, CancelRead
    <2>2. Free(s) /\ UNCHANGED <<exchange, book, blocks>>
      BY <1>1 DEF ApproveRead, DeclineRead, CancelRead
    <2>3. pc \notin W /\ "idle" \notin W
      BY Pcs
    <2> HIDE DEF W
    <2>4. JobsSteady(W)
      BY <2>1, <2>2, <2>3, StartSteady
    <2> QED BY <2>2, <2>4 DEF Steady, RowsSteady, W
  <1>2. ASSUME NEW s \in Slots, NEW u \in Users, NEW x \in Exchanges, AcceptLock(s, u, x)
        PROVE  Steady
    <2> DEFINE j == Serving("accept_commit", u, x, NoRow, Competing(x), {})
    <2>1. /\ Free(s) /\ UNCHANGED <<exchange, book, blocks>>
          /\ job' = [job EXCEPT ![s] = j]
      BY <1>2 DEF AcceptLock
    <2>2. j.pc \notin W /\ job[s].pc \notin W
      BY <2>1, Pcs, Fields, IdleInv DEF Free
    <2> HIDE DEF j, W
    <2>3. JobsSteady(W)
      BY <2>1, <2>2, JobSteady
    <2> QED BY <2>1, <2>3 DEF Steady, RowsSteady, W
  <1>3. ASSUME NEW s \in Slots, \/ ApproveSave(s) \/ DeclineSave(s) \/ CancelSave(s)
        PROVE  Steady
    <2>1. /\ Done(s) /\ UNCHANGED <<book, blocks>>
          /\ job[s].pc \in {"approve_save", "decline_save", "cancel_save"}
      BY <1>3 DEF ApproveSave, DeclineSave, CancelSave, At
    <2>2. RowsSteady
      <3>1. CASE ApproveSave(s)
        BY <3>1, StatusCases DEF ApproveSave, IInv, RowsSteady, Row
      <3>2. CASE DeclineSave(s) \/ CancelSave(s)
        BY <3>2, StatusSteady DEF DeclineSave, CancelSave, Onward
      <3> QED BY <1>3, <3>1, <3>2
    <2>3. job[s].pc \notin W /\ "idle" \notin W
      BY <2>1, Pcs
    <2> HIDE DEF W
    <2>4. JobsSteady(W)
      BY <2>1, <2>3, DoneSteady
    <2> QED BY <2>1, <2>2, <2>4 DEF Steady, W
  <1>4. ASSUME NEW s \in Slots, NEW x \in Exchanges, ExpireRequestSave(s, x)
        PROVE  Steady
    <2>1. /\ UNCHANGED <<book, blocks>> /\ job[s].pc = "expire_requests"
          /\ x \in job[s].todo /\ exchange' = [exchange EXCEPT ![x].status = "expired"]
      BY <1>4 DEF ExpireRequestSave, At
    <2>2. exchange[x].status = "pending"
      BY <2>1, NoneAssumption DEF Serially, Reads
    <2>3. RowsSteady
      BY <2>1, <2>2, StatusSteady
    <2>4. job[s].pc \notin W /\ "idle" \notin W
      BY <2>1, Pcs
    <2>5. PICK j : job' = [job EXCEPT ![s] = j] /\ j.pc \in {"idle", "expire_requests"}
      <3>1. CASE Done(s)
        BY <3>1, IdleInv DEF Done
      <3>2. CASE ~Done(s)
        <4> DEFINE j == [job[s] EXCEPT !.todo = @ \ {x}]
        <4>1. job' = [job EXCEPT ![s] = j] /\ j.pc = "expire_requests"
          BY <1>4, <2>1, <3>2 DEF ExpireRequestSave, IInv, Job
        <4> QED BY <4>1
      <3> QED BY <3>1, <3>2
    <2>6. j.pc \notin W
      BY <2>5, Pcs
    <2> HIDE DEF W
    <2>7. JobsSteady(W)
      BY <2>4, <2>5, <2>6, JobSteady
    <2> QED BY <2>1, <2>3, <2>7 DEF Steady, W
  <1>5. ASSUME NEW u \in Users, NEW x \in Exchanges, NEW b \in Books, Counter(u, x, b)
        PROVE  Steady
    <2>1. /\ UNCHANGED <<book, blocks, job>> /\ exchange[x].status = "pending"
          /\ exchange' = [exchange EXCEPT ![x] = Countered(exchange[x], u, b)]
      BY <1>5 DEF Counter, MayCounter
    <2>2. Countered(exchange[x], u, b).status = "pending"
      BY <2>1, StatusCases DEF Countered, Row
    <2>3. RowsSteady
      BY <2>1, <2>2, RowSteady
    <2> QED BY <2>1, <2>3 DEF Steady, JobsSteady
  <1>6. ASSUME NEW T \in SUBSET Exchanges, ExpireRequestsList(T) PROVE Steady
    <2> DEFINE s == "expire_stale_requests"
               j == Serving("expire_requests", None, None, NoRow, T, {})
    <2>1. /\ Free(s) /\ UNCHANGED <<exchange, book, blocks>> /\ s \in Slots
          /\ job' = [job EXCEPT ![s] = j]
      BY <1>6 DEF ExpireRequestsList, Slots, Beat
    <2>2. j.pc \notin W /\ job[s].pc \notin W
      BY <2>1, Pcs, Fields, IdleInv DEF Free
    <2> HIDE DEF j, W, s
    <2>3. JobsSteady(W)
      BY <2>1, <2>2, JobSteady
    <2> QED BY <2>1, <2>3 DEF Steady, RowsSteady, W
  <1> QED BY <1>1, <1>2, <1>3, <1>4, <1>5, <1>6 DEF NegotiationMoves

FulfilmentSteadily ==
    \/ \E s \in Slots :
          \/ \E u \in Users, x \in Exchanges : \/ ConditionsRead(s, u, x)
                                               \/ CompleteRead(s, u, x)
                                               \/ RequestReturnRead(s, u, x)
          \/ ConditionsInsert(s) \/ ConditionsCount(s) \/ ConditionsSave(s)
          \/ RequestReturnSave(s) \/ AutoCount(s)
          \/ \E x \in Exchanges : AutoRequesterOnlySave(s, x) \/ AutoOwnerOnlySave(s, x)
          \/ \E T \in SUBSET Exchanges : AutoOwnerOnlyList(s, T)
    \/ \E u \in Users, x \in Exchanges : ConfirmSwap(u, x)
    \/ \E T \in SUBSET Exchanges : ExpireConditionsList(T) \/ AutoRequesterOnlyList(T)

LEMMA FulfilmentSteady ==
  ASSUME IInv, Serially, FulfilmentSteadily PROVE Steady
  <1> DEFINE W == Matching \cup Shelving
  <1>1. ASSUME NEW s \in Slots, NEW u \in Users, NEW x \in Exchanges,
               ConditionsRead(s, u, x) \/ CompleteRead(s, u, x) \/ RequestReturnRead(s, u, x)
        PROVE  Steady
    <2>1. PICK pc \in {"conditions_insert", "complete_save", "request_return_save"},
               m \in {exchange[x], NoRow} : Start(s, pc, u, x, m)
      BY <1>1 DEF ConditionsRead, CompleteRead, RequestReturnRead
    <2>2. Free(s) /\ UNCHANGED <<exchange, book, blocks>>
      BY <1>1 DEF ConditionsRead, CompleteRead, RequestReturnRead
    <2>3. pc \notin W /\ "idle" \notin W
      BY Pcs
    <2> HIDE DEF W
    <2>4. JobsSteady(W)
      BY <2>1, <2>2, <2>3, StartSteady
    <2> QED BY <2>2, <2>4 DEF Steady, RowsSteady, W
  <1>2. ASSUME NEW s \in Slots, ConditionsInsert(s) PROVE Steady
    <2>1. /\ job[s].pc = "conditions_insert" /\ UNCHANGED <<book, blocks>>
          /\ Done(s) \/ Goto(s, "conditions_count")
          /\ "conditions_count" \in PCs
      BY <1>2 DEF ConditionsInsert, At, PCs
    <2>2. RowsSteady
      BY <1>2, StatusCases DEF ConditionsInsert, IInv, RowsSteady, Row
    <2>3. {job[s].pc, "conditions_count", "idle"} \cap W = {}
      BY <2>1, Pcs
    <2> HIDE DEF W
    <2>4. JobsSteady(W)
      BY <2>1, <2>3, DoneSteady, GotoSteady
    <2> QED BY <2>1, <2>2, <2>4 DEF Steady, W
  <1>3. ASSUME NEW s \in Slots, ConditionsCount(s) PROVE Steady
    <2>1. job[s].pc = "conditions_count" /\ UNCHANGED <<exchange, book, blocks>>
      BY <1>3 DEF ConditionsCount, At
    <2>2. PICK j : job' = [job EXCEPT ![s] = j] /\ j.pc \in {"idle", "conditions_save"}
      <3>1. CASE Done(s)
        BY <3>1, IdleInv DEF Done
      <3>2. CASE Goto(s, "conditions_save")
        <4> DEFINE j == [job[s] EXCEPT !.pc = "conditions_save"]
        <4>1. job' = [job EXCEPT ![s] = j] /\ j.pc = "conditions_save"
          BY <3>2 DEF Goto, IInv, Job
        <4> QED BY <4>1
      <3>3. CASE ~Done(s) /\ ~Goto(s, "conditions_save")
        <4> DEFINE j == [job[s] EXCEPT !.pc = "conditions_save", !.mem = job'[s].mem]
        <4>1. job' = [job EXCEPT ![s] = j] /\ j.pc = "conditions_save"
          BY <1>3, <3>3 DEF ConditionsCount, IInv, Job
        <4> QED BY <4>1
      <3> QED BY <3>1, <3>2, <3>3
    <2>3. {job[s].pc, j.pc} \cap W = {}
      BY <2>1, <2>2, Pcs
    <2> HIDE DEF W
    <2>4. JobsSteady(W)
      BY <2>2, <2>3, JobSteady
    <2> QED BY <2>1, <2>4 DEF Steady, RowsSteady, W
  <1>4. ASSUME NEW s \in Slots, ConditionsSave(s) \/ RequestReturnSave(s) \/ AutoCount(s)
        PROVE  Steady
    <2>1. /\ Done(s) /\ UNCHANGED <<book, blocks>>
          /\ job[s].pc \in {"conditions_save", "request_return_save", "auto_owner_only"}
      BY <1>4 DEF ConditionsSave, RequestReturnSave, AutoCount, At
    <2>2. RowsSteady
      <3>1. CASE ConditionsSave(s)
        <4> DEFINE x == job[s].x
                   st == job[s].mem.status
        <4>1. /\ exchange[x].status \in Stale
              /\ st \in {exchange[x].status} \cup L!Edges(exchange[x].status)
              /\ st \in {"accepted", "conditions_pending", "active"}
          BY <3>1 DEF ConditionsSave, At, Serially, Reads, ConditionsPcs, IInv, JobInv,
                      ConditionsInv
        <4>2. st = exchange[x].status \/ st \in Onward
          BY <4>1, EdgeTable DEF Stale, Onward
        <4>3. exchange' = [exchange EXCEPT ![x].status = st]
          BY <3>1 DEF ConditionsSave
        <4> HIDE DEF st, x
        <4> QED BY <4>2, <4>3, StatusSteady
      <3>2. CASE RequestReturnSave(s)
        BY <3>2, StatusSteady DEF RequestReturnSave, Onward
      <3>3. CASE AutoCount(s)
        BY <3>3 DEF AutoCount, RowsSteady
      <3> QED BY <1>4, <3>1, <3>2, <3>3
    <2>3. {job[s].pc, "idle"} \cap W = {}
      BY <2>1, Pcs
    <2> HIDE DEF W
    <2>4. JobsSteady(W)
      BY <2>1, <2>3, DoneSteady
    <2> QED BY <2>1, <2>2, <2>4 DEF Steady, W
  <1>5. ASSUME NEW s \in Slots, NEW x \in Exchanges,
               AutoRequesterOnlySave(s, x) \/ AutoOwnerOnlySave(s, x)
        PROVE  Steady
    <2>1. PICK u : AutoConfirm(s, x, u)
      BY <1>5 DEF AutoRequesterOnlySave, AutoOwnerOnlySave
    <2> DEFINE q == [exchange[x] EXCEPT !.confirmed = @ \cup {u}, !.status = "swap_confirmed"]
               j == [job[s] EXCEPT !.todo = @ \ {x}, !.users = @ \cup Parties(x)]
    <2>2. job[s].pc \in AutoPcs /\ UNCHANGED <<book, blocks>>
      BY <1>5 DEF AutoRequesterOnlySave, AutoOwnerOnlySave, AutoConfirm, At, AutoPcs
    <2>3. exchange' = [exchange EXCEPT ![x] = q] /\ q.status = "swap_confirmed"
      BY <2>1, StatusCases DEF AutoConfirm, IInv, Row
    <2>4. job' = [job EXCEPT ![s] = j] /\ j.pc = job[s].pc
      BY <2>1 DEF AutoConfirm, IInv, Job
    <2>5. job[s].pc \notin W
      BY <2>2, Pcs DEF AutoPcs
    <2> HIDE DEF W, j, q
    <2>6. JobsSteady(W)
      BY <2>4, <2>5, JobSteady
    <2>7. RowsSteady
      BY <2>3, RowSteady DEF Onward
    <2> QED BY <2>2, <2>6, <2>7 DEF Steady, W
  <1>6. ASSUME NEW s \in Slots, NEW T \in SUBSET Exchanges, AutoOwnerOnlyList(s, T)
        PROVE  Steady
    <2> DEFINE j == [job[s] EXCEPT !.pc = "auto_owner_only", !.todo = T]
    <2>1. /\ UNCHANGED <<exchange, book, blocks>> /\ job[s].pc = "auto_requester_only"
          /\ job' = [job EXCEPT ![s] = j] /\ j.pc = "auto_owner_only"
      BY <1>6 DEF AutoOwnerOnlyList, At, IInv, Job
    <2>2. {job[s].pc, j.pc} \cap W = {}
      BY <2>1, Pcs
    <2> HIDE DEF W, j
    <2>3. JobsSteady(W)
      BY <2>1, <2>2, JobSteady
    <2> QED BY <2>1, <2>3 DEF Steady, RowsSteady, W
  <1>7. ASSUME NEW u \in Users, NEW x \in Exchanges, ConfirmSwap(u, x) PROVE Steady
    <2> DEFINE row == [exchange[x] EXCEPT !.confirmed = @ \cup {u}]
               q == IF is_swap_confirmed(row) THEN transition_to(row, "swap_confirmed")
                    ELSE row
    <2>1. /\ UNCHANGED <<book, blocks, job>> /\ exchange' = [exchange EXCEPT ![x] = q]
      BY <1>7 DEF ConfirmSwap
    <2>2. q.status \in {exchange[x].status, "swap_confirmed"}
      BY StatusCases DEF transition_to, Row
    <2> HIDE DEF q
    <2>3. RowsSteady
      BY <2>1, <2>2, RowSteady DEF Onward
    <2> QED BY <2>1, <2>3 DEF Steady, JobsSteady
  <1>8. ASSUME NEW T \in SUBSET Exchanges,
               ExpireConditionsList(T) \/ AutoRequesterOnlyList(T)
        PROVE  Steady
    <2>1. PICK s \in {"expire_stale_conditions", "auto_confirm_stale_swaps"},
               pc \in {"expire_conditions", "auto_requester_only"} :
            Free(s) /\ job' = [job EXCEPT ![s] = Serving(pc, None, None, NoRow, T, {})]
      BY <1>8 DEF ExpireConditionsList, AutoRequesterOnlyList
    <2> DEFINE j == Serving(pc, None, None, NoRow, T, {})
    <2>2. UNCHANGED <<exchange, book, blocks>> /\ s \in Slots
      BY <1>8 DEF ExpireConditionsList, AutoRequesterOnlyList, Slots, Beat
    <2>3. j.pc \notin W /\ job[s].pc \notin W /\ job' = [job EXCEPT ![s] = j]
      BY <2>1, Pcs, Fields, IdleInv DEF Free
    <2> HIDE DEF j, W
    <2>4. JobsSteady(W)
      BY <2>2, <2>3, JobSteady
    <2> QED BY <2>2, <2>4 DEF Steady, RowsSteady, W
  <1> QED BY <1>1, <1>2, <1>3, <1>4, <1>5, <1>6, <1>7, <1>8 DEF FulfilmentSteadily

-----------------------------------------------------------------------------
(* Blocked pairs. *)

Live == {"pending", "accepted", "conditions_pending", "active"}

LEMMA LiveStatuses ==
  {"pending"} \cup (Holding \ Swapped) = Live /\ Cancelable = Live
  BY DEF Live, Holding, Swapped, Cancelable

\* A request that is live now was live before, or has just been made.
LEMMA LiveBefore ==
  ASSUME IInv, RowsStep, RowsFollow, NEW x \in Exchanges, exchange'[x].status \in Live,
         exchange'[x].status = "pending" => exchange[x].status = "pending"
  PROVE  /\ exchange[x].status \in Live
         /\ exchange'[x].requester = exchange[x].requester
         /\ exchange'[x].owner = exchange[x].owner
  <1>1. exchange[x].status \in Statuses
    BY StatusCases
  <1>2. exchange[x].status \in Live
    BY <1>1, EdgeTable DEF RowsFollow, Follow, Live, Statuses
  <1> QED BY <1>2 DEF RowsStep, RowStep, Live

\* The statements that make no request and no block, and leave those that do.
LEMMA ApartStays ==
  ASSUME IInv, RowsStep, RowsFollow, Apart, JobsSteady(Matching), blocks' \subseteq blocks,
         \A x \in Exchanges : exchange'[x].status = "pending" => exchange[x].status = "pending"
  PROVE  Apart'
  <1>1. ASSUME NEW x \in Exchanges, exchange'[x].status \in Live,
               BlockedPair(exchange[x].requester, exchange[x].owner)'
        PROVE  \E s \in Slots : At(s, "block_cancel")' /\ job'[s].users = Parties(x)'
    <2>1. /\ exchange[x].status \in Live
          /\ exchange'[x].requester = exchange[x].requester
          /\ exchange'[x].owner = exchange[x].owner
      BY <1>1, LiveBefore
    <2>2. BlockedPair(exchange[x].requester, exchange[x].owner)
      BY <1>1, <2>1 DEF BlockedPair
    <2>3. PICK s \in Slots : At(s, "block_cancel") /\ job[s].users = Parties(x)
      BY <2>1, <2>2, LiveStatuses DEF Apart, BlockedPairsApart
    <2>4. job'[s] = job[s]
      BY <2>3 DEF JobsSteady, Matching, At
    <2> QED BY <2>1, <2>3, <2>4 DEF At, Parties
  <1>2. BlockedPairsApart'
    BY <1>1, LiveStatuses DEF BlockedPairsApart
  <1>3. ASSUME NEW s \in Slots, job'[s].pc = "create_insert"
        PROVE  ~BlockedPair(job[s].mem.requester, job[s].mem.owner)'
    <2>1. job'[s] = job[s]
      BY <1>3 DEF JobsSteady, Matching
    <2> QED BY <1>3, <2>1 DEF Apart, BlockedPair
  <1> QED BY <1>2, <1>3 DEF Apart

\* While everybody is idle, no blocked pair has a live request.
LEMMA NobodyBlocks ==
  ASSUME IInv, Apart, \A t \in Slots : job[t] = Idle, NEW x \in Exchanges,
         exchange[x].status \in Live
  PROVE  ~BlockedPair(exchange[x].requester, exchange[x].owner)
  BY LiveStatuses, IdleInv DEF Apart, BlockedPairsApart, At

LEMMA CreateCheckApart ==
  ASSUME Serial, IInv, Apart, NEW s \in Slots, NEW u \in Users, NEW b \in Books,
         NEW o \in Books, NEW permanent \in SwapTypes, NEW x \in Exchanges,
         CreateCheck(s, u, b, o, permanent, x)
  PROVE  Apart'
  <1> DEFINE row == NewRow("pending", u, book[b].owner, b, o, permanent)
             j == Serving("create_insert", u, x, row, {}, {})
  <1>1. /\ job' = [job EXCEPT ![s] = j] /\ UNCHANGED <<exchange, blocks>>
        /\ \A t \in Slots : job[t] = Idle
        /\ ~BlockedPair(u, book[b].owner)
    BY FreeAlone DEF CreateCheck, Start
  <1>2. row.requester = u /\ row.owner = book[b].owner
    BY DEF NewRow
  <1> HIDE DEF row
  <1>3. j.mem = row
    BY Fields
  <1> HIDE DEF j
  <1>4. BlockedPairsApart'
    BY <1>1, NobodyBlocks, LiveStatuses DEF BlockedPairsApart, BlockedPair
  <1>5. \A t \in Slots : job'[t].pc = "create_insert" => job'[t].mem = row
    BY <1>1, <1>3, IdleInv DEF IInv
  <1> QED BY <1>1, <1>2, <1>4, <1>5 DEF Apart, BlockedPair

LEMMA CreateInsertApart ==
  ASSUME IInv, Serially, RowsStep, RowsFollow, Apart, NEW s \in Slots, CreateInsert(s)
  PROVE  Apart'
  <1> DEFINE x == job[s].x
             row == job[s].mem
  <1>1. /\ job[s].pc = "create_insert" /\ Done(s) /\ Alone(s) /\ UNCHANGED blocks
        /\ UNCHANGED exchange \/ exchange' = [exchange EXCEPT ![x] = row]
    BY AtWork DEF CreateInsert, At
  <1>2. ~BlockedPair(row.requester, row.owner)
    BY <1>1 DEF Apart
  <1>3. \A t \in Slots : job'[t].pc = "idle" /\ job[t].pc # "block_cancel"
    BY <1>1, IdleInv DEF Done, Alone, IInv
  <1>4. ASSUME NEW y \in Exchanges, exchange'[y].status \in Live
        PROVE  ~BlockedPair(exchange[y].requester, exchange[y].owner)'
    <2>1. CASE exchange'[y] = exchange[y]
      BY <1>1, <1>3, <1>4, <2>1, LiveStatuses DEF Apart, BlockedPairsApart, BlockedPair, At
    <2>2. CASE exchange'[y] = row
      BY <1>1, <1>2, <2>2 DEF BlockedPair
    <2> QED BY <1>1, <2>1, <2>2 DEF IInv
  <1> QED BY <1>3, <1>4, LiveStatuses DEF Apart, BlockedPairsApart

LEMMA BlockCreateApart ==
  ASSUME Serial, IInv, Apart, NEW s \in Slots, NEW u \in Users, NEW v \in Users,
         BlockCreate(s, u, v)
  PROVE  Apart'
  <1> DEFINE j == Serving("block_cancel", u, None, NoRow, {}, {u, v})
  <1>1. /\ job' = [job EXCEPT ![s] = j] /\ UNCHANGED exchange
        /\ blocks' = blocks \cup {<<u, v>>} /\ \A t \in Slots : job[t] = Idle
    BY FreeAlone DEF BlockCreate
  <1>2. j.pc = "block_cancel" /\ j.users = {u, v}
    BY Fields
  <1> HIDE DEF j
  <1>3. job'[s] = j
    BY <1>1 DEF IInv
  <1>4. ASSUME NEW x \in Exchanges, exchange'[x].status \in Live,
               BlockedPair(exchange[x].requester, exchange[x].owner)'
        PROVE  At(s, "block_cancel")' /\ job'[s].users = Parties(x)'
    <2>1. ~BlockedPair(exchange[x].requester, exchange[x].owner)
      BY <1>1, <1>4, NobodyBlocks
    <2>2. Parties(x) = {u, v}
      BY <1>1, <1>4, <2>1 DEF BlockedPair, Parties
    <2> QED BY <1>1, <1>2, <1>3, <2>2 DEF At, Parties
  <1>5. \A t \in Slots : job'[t].pc # "create_insert"
    BY <1>1, <1>2, IdleInv DEF IInv
  <1> QED BY <1>4, <1>5, LiveStatuses DEF Apart, BlockedPairsApart

LEMMA BlockCancelApart ==
  ASSUME IInv, Serially, Apart, NEW s \in Slots, BlockCancel(s)
  PROVE  Apart'
  <1>1. /\ job[s].pc = "block_cancel" /\ Done(s) /\ Alone(s) /\ UNCHANGED blocks
        /\ exchange' = [x \in Exchanges |->
               IF x \in Between(job[s].users) /\ exchange[x].status \in Cancelable
               THEN [exchange[x] EXCEPT !.status = "cancelled"]
               ELSE exchange[x]]
    BY AtWork DEF BlockCancel, At
  <1>2. \A t \in Slots : job'[t].pc = "idle"
    BY <1>1, IdleInv DEF Done, Alone, IInv
  <1>3. ASSUME NEW x \in Exchanges, exchange'[x].status \in Live
        PROVE  ~BlockedPair(exchange[x].requester, exchange[x].owner)'
    <2>1. exchange'[x] = exchange[x]
          /\ ~(x \in Between(job[s].users) /\ exchange[x].status \in Cancelable)
      <3>1. [exchange[x] EXCEPT !.status = "cancelled"].status = "cancelled"
        BY StatusCases DEF Row
      <3> QED BY <1>1, <1>3, <3>1 DEF Live
    <2>2. job[s].users # Parties(x)
      BY <1>3, <2>1, LiveStatuses DEF Between, Live
    <2>3. \A t \in Slots : At(t, "block_cancel") => t = s
      BY <1>1, IdleInv DEF Alone, At
    <2> QED BY <1>1, <1>3, <2>1, <2>2, <2>3, LiveStatuses
            DEF Apart, BlockedPairsApart, BlockedPair
  <1> QED BY <1>2, <1>3, LiveStatuses DEF Apart, BlockedPairsApart

\* The statements that move books, or end exchanges that hold some.
ShelfMoves(s) ==
    \/ AcceptCommit(s)
    \/ CompleteSave(s) \/ CompleteRequested(s) \/ CompleteOffered(s)
    \/ \E u \in Users, x \in Exchanges : ConfirmReturnRead(s, u, x)
    \/ ReturnRequested(s) \/ ReturnOffered(s) \/ ReturnSave(s)
    \/ \E x \in Exchanges : ExpireConditionsSave(s, x)
    \/ ExpireRequested(s) \/ ExpireOffered(s)

LEMMA ShelfMovesMatch ==
  ASSUME IInv, NEW s \in Slots, ShelfMoves(s)
  PROVE  /\ JobsSteady(Matching) /\ UNCHANGED blocks
         /\ \A x \in Exchanges :
               exchange'[x].status = "pending" => exchange[x].status = "pending"
  <1> DEFINE W == Matching
  <1>0. \A pc : pc \in W <=> pc \in {"create_insert", "block_cancel"}
    BY DEF Matching
  <1>1. UNCHANGED blocks
    BY DEF ShelfMoves, AcceptCommit, CompleteSave, CompleteRequested, CompleteOffered,
           ConfirmReturnRead, ReturnRequested, ReturnOffered, ReturnSave,
           ExpireConditionsSave, ExpireRequested, ExpireOffered
  <1>2. CASE AcceptCommit(s)
    <2>1. job[s].pc \notin W /\ "idle" \notin W /\ Done(s)
      BY <1>0, <1>2 DEF AcceptCommit, At
    <2>2. \A x \in Exchanges : exchange'[x].status \in
              {exchange[x].status, "accepted", "declined"}
      BY <1>2, StatusCases DEF AcceptCommit, Row
    <2> QED BY <1>1, <2>1, <2>2, DoneSteady
  <1>3. CASE CompleteSave(s)
    <2>1. /\ job[s].pc \notin W /\ "complete_requested" \notin W
          /\ Goto(s, "complete_requested") /\ "complete_requested" \in PCs
      BY <1>0, <1>3 DEF CompleteSave, At, PCs
    <2>2. transition_to(job[s].mem, "completed").status = "completed"
      BY TransitionTo DEF IInv, Job, Statuses
    <2>3. exchange' = [exchange EXCEPT ![job[s].x].status = "completed"]
      BY <1>3, <2>2 DEF CompleteSave
    <2>4. \A x \in Exchanges : exchange'[x].status \in {exchange[x].status, "completed"}
      BY <2>3, StatusCases DEF Row, IInv
    <2> QED BY <1>1, <2>1, <2>4, GotoSteady
  <1>4. CASE \/ CompleteRequested(s) \/ ReturnRequested(s) \/ ReturnOffered(s)
             \/ ExpireRequested(s)
    <2>1. PICK pc \in {"complete_requested", "return_requested", "return_offered",
                       "expire_requested"},
               next \in {"complete_offered", "return_offered", "return_save",
                         "expire_offered"} :
              At(s, pc) /\ Goto(s, next) /\ UNCHANGED exchange
      BY <1>4 DEF CompleteRequested, ReturnRequested, ReturnOffered, ExpireRequested
    <2>2. job[s].pc \notin W /\ next \notin W /\ next \in PCs
      BY <1>0, <2>1 DEF At, PCs
    <2> QED BY <1>1, <2>1, <2>2, GotoSteady
  <1>5. CASE CompleteOffered(s) \/ ExpireOffered(s)
    <2>1. PICK j : /\ job' = [job EXCEPT ![s] = j] /\ UNCHANGED exchange
                   /\ j.pc \in {"idle", "expire_conditions"}
      BY <1>5, IdleInv, Fields DEF CompleteOffered, ExpireOffered, Done
    <2>2. job[s].pc \notin W /\ j.pc \notin W
      BY <1>0, <1>5, <2>1 DEF CompleteOffered, ExpireOffered, At
    <2> QED BY <1>1, <2>1, <2>2, JobSteady
  <1>6. CASE \E u \in Users, x \in Exchanges : ConfirmReturnRead(s, u, x)
    <2>1. PICK u \in Users, x \in Exchanges : ConfirmReturnRead(s, u, x)
      BY <1>6
    <2> DEFINE mem == [exchange[x] EXCEPT !.returned = @ \cup {u}]
    <2>2. PICK pc \in {"return_requested", "return_save"},
               m \in {mem, transition_to(mem, "returned")} :
              Start(s, pc, u, x, m) /\ Free(s) /\ UNCHANGED exchange
      BY <2>1 DEF ConfirmReturnRead
    <2> HIDE DEF mem
    <2>3. pc \notin W /\ "idle" \notin W
      BY <1>0
    <2> QED BY <1>1, <2>2, <2>3, StartSteady
  <1>7. CASE ReturnSave(s)
    <2>1. job[s].pc \notin W /\ "idle" \notin W /\ Done(s)
      BY <1>0, <1>7 DEF ReturnSave, At
    <2>2. \A x \in Exchanges : exchange'[x].status \in {exchange[x].status, "returned"}
      BY <1>7, StatusCases DEF ReturnSave, Row, IInv
    <2> QED BY <1>1, <2>1, <2>2, DoneSteady
  <1>8. CASE \E x \in Exchanges : ExpireConditionsSave(s, x)
    <2>1. PICK x \in Exchanges : ExpireConditionsSave(s, x)
      BY <1>8
    <2> DEFINE j == [job[s] EXCEPT !.pc = "expire_requested", !.x = x, !.mem = exchange[x]]
    <2>2. job' = [job EXCEPT ![s] = j] /\ j.pc = "expire_requested"
          /\ job[s].pc = "expire_conditions"
      BY <2>1 DEF ExpireConditionsSave, IInv, Job, At
    <2> HIDE DEF j
    <2>3. \A y \in Exchanges : exchange'[y].status \in {exchange[y].status, "expired"}
      BY <2>1, StatusCases DEF ExpireConditionsSave, Row, IInv
    <2> QED BY <1>0, <1>1, <2>2, <2>3, JobSteady
  <1> QED BY <1>2, <1>3, <1>4, <1>5, <1>6, <1>7, <1>8 DEF ShelfMoves

\* Every step but those of the create and block requests.
LEMMA Steps ==
  ASSUME Serial, IInv, Serially, ~Crashes, [Next]_vars
  PROVE  \/ Steady
         \/ \E s \in Slots : ShelfMoves(s)
         \/ \E s \in Slots, u \in Users, b, o \in Books, permanent \in SwapTypes,
               x \in Exchanges : CreateCheck(s, u, b, o, permanent, x)
         \/ \E s \in Slots : CreateInsert(s) \/ BlockCancel(s)
         \/ \E s \in Slots, u, v \in Users : BlockCreate(s, u, v)
         \/ \E u, v \in Users : Unblock(u, v)
  <1>1. CASE NegotiationNext
    <2>1. CASE NegotiationMoves
      BY <2>1, NegotiationSteady
    <2>2. CASE ~NegotiationMoves
      BY <1>1, <2>2 DEF NegotiationNext, NegotiationRequest, NegotiationStep,
                        NegotiationMoves, ShelfMoves, Slots
    <2> QED BY <2>1, <2>2
  <1>2. CASE FulfilmentNext
    <2>1. CASE FulfilmentSteadily
      BY <2>1, FulfilmentSteady
    <2>2. CASE ~FulfilmentSteadily
      BY <1>2, <2>2 DEF FulfilmentNext, FulfilmentRequest, FulfilmentStep,
                        FulfilmentSteadily, ShelfMoves, Slots
    <2> QED BY <2>1, <2>2
  <1>3. CASE UNCHANGED vars
    <2>1. UNCHANGED <<exchange, book, blocks, job>>
      BY <1>3 DEF vars
    <2> QED BY <2>1 DEF Steady, JobsSteady, RowsSteady
  <1> QED BY <1>1, <1>2, <1>3 DEF Next, Crash

LEMMA NextApart ==
  ASSUME Serial, IInv, Serially, ~Crashes, Apart, [Next]_vars PROVE Apart'
  <1>1. RowsStep /\ RowsFollow
    BY NextInv, NextSerial DEF Kept
  <1>2. CASE Steady
    <2>1. /\ JobsSteady(Matching) /\ blocks' \subseteq blocks
          /\ \A x \in Exchanges :
                exchange'[x].status = "pending" => exchange[x].status = "pending"
      BY <1>2 DEF Steady, JobsSteady, RowsSteady, Onward
    <2> QED BY <1>1, <2>1, ApartStays
  <1>3. CASE \E s \in Slots : ShelfMoves(s)
    <2>1. PICK s \in Slots : ShelfMoves(s)
      BY <1>3
    <2> QED BY <1>1, <2>1, ShelfMovesMatch, ApartStays
  <1>4. CASE \E u, v \in Users : Unblock(u, v)
    BY <1>1, <1>4, ApartStays DEF Unblock, JobsSteady
  <1> QED
    BY <1>1, <1>2, <1>3, <1>4, Steps, CreateCheckApart, CreateInsertApart,
       BlockCreateApart, BlockCancelApart

\* Served one at a time by processes that do not die half-way, two users of
\* whom one blocks the other have no request and no exchange that goes on, but
\* for the moment between the block and the cancelling: however requests,
\* counter-offers, blocks and unblocks follow each other.
\* (BlockViewSet.create, _cancel_exchanges_between; create)
THEOREM BlocksSeparate == Serial /\ ~Crashes => (Spec => []BlockedPairsApart)
  <1> SUFFICES ASSUME Serial, ~Crashes PROVE Spec => []BlockedPairsApart
    OBVIOUS
  <1>1. Init => Apart
    BY IdleInv DEF Init, NegotiationInit, Apart, BlockedPairsApart, BlockedPair
  <1>2. IInv /\ Serially /\ Apart /\ [Next]_vars => Apart'
    BY NextApart
  <1>3. Apart => BlockedPairsApart
    BY DEF Apart
  <1> QED BY <1>1, <1>2, <1>3, InductiveInvariant, ServedInTurn, PTL DEF Spec

-----------------------------------------------------------------------------
(* Books. *)

\* An exchange that holds its books, or is about to release them.
Held(x) == exchange[x].status \in Holding \cup {"cancelled"} \/ Releasing(x)

OnShelf(b) == book[b].status # "in_exchange"

\* What a step may do to the books and to what accounts for them.
ShelfStep ==
    /\ \A b \in Books : OnShelf(b) /\ ~OnShelf(b)' =>
          \E x \in Exchanges : b \in BooksOf(x)' /\ exchange'[x].status = "accepted"
    /\ \A b \in Books : ~OnShelf(b) /\ OnShelf(b)' =>
          \E y \in Exchanges : b \in BooksOf(y) /\ Freed(y)
    /\ \A x \in Exchanges :
          exchange'[x].status \in Holding /\ exchange[x].status \notin Holding =>
             \A b \in BooksOf(x)' : ~OnShelf(b)'
    /\ \A y \in Exchanges : Freed(y) => Freed(y)'
    /\ \A x \in Exchanges : \A b \in BooksOf(x) :
          Held(x) /\ ~OnShelf(b)' => Held(x)'
    /\ \A s \in Slots : Shelved(job[s])'

LEMMA ShelfPcs ==
  Shelving = {"complete_requested", "complete_offered", "return_requested",
              "return_offered", "return_save", "expire_requested", "expire_offered"}
  BY DEF Shelving, FreeingPcs, ReturnPcs, ReleasePcs

\* What a process that releases books has in its hands.
LEMMA ReleasingReads ==
  ASSUME IInv, Serially, NEW s \in Slots, job[s].pc \in Shelving \cup {"complete_save"}
  PROVE  /\ job[s].x \in Exchanges /\ job[s].mem \in Row
         /\ BooksOf(job[s].x) = {job[s].mem.requested, job[s].mem.offered}
         /\ BooksOf(job[s].x) \subseteq Books
         /\ Alone(s)
         /\ Decided(exchange[job[s].x])
         /\ job[s].pc \in {"complete_requested", "complete_offered", "expire_requested",
                           "expire_offered"} => exchange[job[s].x].status \in Ended
         /\ job[s].pc \in ReturnPcs => ReturnReads(job[s], exchange[job[s].x])
  <1>1. job[s].pc \in FreeingPcs /\ job[s].pc \in MemPcs /\ job[s].pc \in RowPcs
    BY DEF Shelving, FreeingPcs, ReturnPcs, ReleasePcs, MemPcs, RowPcs, SwappedPcs,
           CompletePcs
  <1>2. /\ job[s].x \in Exchanges /\ job[s].mem \in Row /\ Loaded(job[s].mem)
        /\ SameBooks(job[s].mem, exchange[job[s].x])
    BY <1>1 DEF IInv, JobInv, Job, Serially, Reads
  <1>3. BooksOf(job[s].x) = {job[s].mem.requested, job[s].mem.offered}
    BY <1>2 DEF SameBooks, BooksOf
  <1>4. Alone(s)
    BY <1>1, AtWork DEF FreeingPcs, ReturnPcs, ReleasePcs
  <1>5. exchange[job[s].x].status \in {"swap_confirmed", "completed", "expired",
                                       "return_requested"}
    BY <1>1 DEF Serially, Reads, FreeingPcs, ReturnPcs, ReleasePcs, ReturnReads
  <1>6. job[s].pc \in {"complete_requested", "complete_offered", "expire_requested",
                       "expire_offered"} => exchange[job[s].x].status \in Ended
    BY DEF Serially, Reads, ReleasePcs, Ended
  <1>7. job[s].pc \in ReturnPcs => ReturnReads(job[s], exchange[job[s].x])
    BY DEF Serially, Reads
  <1> QED BY <1>2, <1>3, <1>4, <1>5, <1>6, <1>7 DEF Loaded, Decided

\* An exchange that holds or has released books was decided: they are fixed.
LEMMA BooksFixed ==
  ASSUME IInv, Serially, RowsStep, NEW x \in Exchanges, Held(x) \/ Freed(x)
  PROVE  Decided(exchange[x]) /\ BooksOf(x)' = BooksOf(x)
  <1>1. Decided(exchange[x])
    <2>1. CASE exchange[x].status \in Holding \cup {"cancelled"} \cup Ended
      BY <2>1 DEF Holding, Ended, Decided
    <2>2. CASE \E s \in Slots : job[s].x = x /\ job[s].pc \in Shelving
      BY <2>2, ReleasingReads
    <2> QED BY <2>1, <2>2, ShelfPcs DEF Held, Releasing, Freed, Freeing, Shelving
  <1> QED BY <1>1 DEF RowsStep, RowStep, TermsOf, BooksOf

LEMMA ShelvesStep ==
  ASSUME IInv, IInv', Serially, RowsStep, Shelves, ShelfStep PROVE Shelves'
  <1>1. ASSUME NEW b \in Books, book'[b].status = "in_exchange"
        PROVE  \E x \in Exchanges : b \in BooksOf(x)' /\ Held(x)'
    <2>1. CASE OnShelf(b)
      BY <1>1, <2>1 DEF ShelfStep, OnShelf, Held, Holding
    <2>2. CASE ~OnShelf(b)
      <3>1. PICK x \in Exchanges : b \in BooksOf(x) /\ Held(x)
        BY <2>2 DEF Shelves, LockedBooksAccountedFor, OnShelf, Held
      <3> QED BY <1>1, <3>1, BooksFixed DEF ShelfStep, OnShelf
    <2> QED BY <2>1, <2>2
  <1>2. LockedBooksAccountedFor'
    BY <1>1 DEF LockedBooksAccountedFor, Held
  <1>3. ASSUME NEW x \in Exchanges, NEW b \in BooksOf(x)', exchange'[x].status \in Holding,
               \A y \in Exchanges : b \in BooksOf(y)' => ~Freed(y)'
        PROVE  book'[b].status = "in_exchange"
    <2>1. CASE exchange[x].status \notin Holding
      BY <1>3, <2>1 DEF ShelfStep, OnShelf
    <2>2. CASE exchange[x].status \in Holding
      <3>1. b \in BooksOf(x)
        BY <2>2, BooksFixed DEF Held
      <3>2. \A y \in Exchanges : b \in BooksOf(y) => ~Freed(y)
        BY <1>3, BooksFixed DEF ShelfStep
      <3>3. book[b].status = "in_exchange"
        BY <2>2, <3>1, <3>2 DEF Shelves, Locked
      <3>4. b \in Books
        BY <2>2, <3>1 DEF IInv, RowInv, Loaded, BooksOf, Holding
      <3> QED BY <3>2, <3>3, <3>4 DEF ShelfStep, OnShelf
    <2> QED BY <2>1, <2>2
  <1>4. Locked'
    BY <1>3 DEF Locked
  <1> QED BY <1>2, <1>4 DEF Shelves, ShelfStep

\* A process that is not releasing books leaves what is held and freed alone.
LEMMA EndedStays ==
  ASSUME IInv, RowsFollow, NEW y \in Exchanges, exchange[y].status \in Ended
  PROVE  exchange'[y].status \in Ended
  BY EdgeTable DEF RowsFollow, Follow, Ended

LEMMA SteadyShelves ==
  ASSUME IInv, Serially, RowsStep, RowsFollow, Shelves, UNCHANGED book,
         JobsSteady(Shelving),
         \A x \in Exchanges : \/ exchange'[x].status = exchange[x].status
                              \/ exchange'[x].status \in Onward \cup {"pending"}
                              \/ /\ exchange[x].status = "pending"
                                 /\ exchange'[x].status = "expired"
  PROVE  ShelfStep
  <1>1. \A b : OnShelf(b)' = OnShelf(b)
    BY DEF OnShelf
  <1>2. ASSUME NEW x \in Exchanges, exchange'[x].status \in Holding
        PROVE  exchange[x].status \in Holding
    <2>1. exchange'[x].status # "accepted" \/ exchange[x].status = "accepted"
      BY DEF Onward
    <2>2. exchange[x].status \in Statuses
      BY StatusCases
    <2> QED BY <1>2, <2>1, <2>2, EdgeTable DEF RowsFollow, Follow, Holding, Statuses
  <1>3. ASSUME NEW y \in Exchanges, Freed(y) PROVE Freed(y)'
    BY <1>3, EndedStays DEF Freed, Freeing, JobsSteady, Shelving
  <1>4. ASSUME NEW x \in Exchanges, Held(x) PROVE Held(x)'
    <2>1. CASE Releasing(x)
      BY <2>1, ShelfPcs DEF Held, Releasing, JobsSteady
    <2>2. CASE exchange[x].status \in Holding \cup {"cancelled"}
      <3>1. exchange'[x].status \in Holding \cup {"cancelled"}
        BY <2>2, EdgeTable DEF RowsFollow, Follow, Holding, Onward
      <3> QED BY <3>1 DEF Held
    <2> QED BY <1>4, <2>1, <2>2 DEF Held
  <1>5. ASSUME NEW s \in Slots PROVE Shelved(job[s])'
    <2>1. CASE job'[s].pc \in Shelving
      BY <2>1 DEF JobsSteady, Shelves, Shelved, Available
    <2>2. CASE job'[s].pc \notin Shelving
      BY <2>2, ShelfPcs DEF Shelved
    <2> QED BY <2>1, <2>2
  <1> QED BY <1>1, <1>2, <1>3, <1>4, <1>5 DEF ShelfStep

LEMMA AcceptShelves ==
  ASSUME IInv, Serially, RowsFollow, NEW s \in Slots, AcceptCommit(s) PROVE ShelfStep
  <1>1. job[s].pc = "accept_commit" /\ Alone(s) /\ Done(s)
    BY AtWork DEF AcceptCommit, At
  <1>2. PICK x \in Exchanges :
        /\ x = job[s].x /\ exchange[x].status = "pending"
        /\ \A y \in job[s].todo \ {x} : exchange[y].status = "pending"
    BY <1>1 DEF Serially, Reads, PendingPcs, IInv, JobInv, RowPcs
  <1>3. /\ exchange'[x].status = "accepted" /\ BooksOf(x)' = Takes(x)
        /\ \A y \in Exchanges \ {x} :
              exchange'[y].status = exchange[y].status \/ exchange'[y].status = "declined"
        /\ \A b \in Books : book'[b].status = IF b \in Takes(x) THEN "in_exchange"
                                                              ELSE book[b].status
    <2>1. /\ exchange'[x] = [exchange[x] EXCEPT !.status = "accepted"]
          /\ \A y \in Exchanges \ {x} :
                \/ exchange'[y] = exchange[y]
                \/ exchange'[y] = [exchange[y] EXCEPT !.status = "declined"]
      BY <1>2 DEF AcceptCommit
    <2>2. \A b \in Books : book[b] \in BookRow
      BY DEF IInv
    <2>3. \A b \in Books : book'[b].status = IF b \in Takes(x) THEN "in_exchange"
                                                              ELSE book[b].status
      BY <1>2, <2>2 DEF AcceptCommit, BookRow, Takes
    <2>4. exchange'[x].status = "accepted" /\ BooksOf(x)' = Takes(x)
      BY <1>2, <2>1, StatusCases DEF Row, BooksOf, Takes
    <2>5. \A y \in Exchanges \ {x} :
             exchange'[y].status = exchange[y].status \/ exchange'[y].status = "declined"
      BY <2>1, StatusCases DEF Row
    <2> QED BY <2>3, <2>4, <2>5
  <1>4. Takes(x) \subseteq Books
    BY <1>2 DEF IInv, RowInv, Loaded, Takes
  <1>5. \A t \in Slots : job'[t].pc = "idle" /\ job[t].pc \notin Shelving
    BY <1>1, IdleInv, ShelfPcs DEF Done, Alone, IInv
  <1>6. \A y \in Exchanges : ~Releasing(y)
    BY <1>5, ShelfPcs DEF Releasing
  <1>7. \A y \in Exchanges : Freed(y) => exchange[y].status \in Ended
    BY <1>5 DEF Freed, Freeing, Shelving
  <1>8. \A b \in Books : OnShelf(b) /\ ~OnShelf(b)' => b \in Takes(x)
    BY <1>3 DEF OnShelf
  <1>9. \A b \in Books : ~OnShelf(b) => ~OnShelf(b)'
    BY <1>3 DEF OnShelf
  <1>10. \A b \in Takes(x) : ~OnShelf(b)'
    BY <1>3, <1>4 DEF OnShelf
  <1>11. \A y \in Exchanges : Freed(y) => Freed(y)'
    BY <1>7, EndedStays DEF Freed
  <1>12. \A y \in Exchanges :
            exchange'[y].status \in Holding /\ exchange[y].status \notin Holding => y = x
    BY <1>3 DEF Holding
  <1>13. \A y \in Exchanges : Held(y) => Held(y)'
    <2> SUFFICES ASSUME NEW y \in Exchanges, Held(y) PROVE Held(y)'
      OBVIOUS
    <2>1. exchange[y].status \in Holding \cup {"cancelled"}
      BY <1>6 DEF Held
    <2>2. exchange'[y].status = exchange[y].status
      BY <1>2, <1>3, <2>1, EdgeTable DEF RowsFollow, Follow, Holding
    <2> QED BY <2>1, <2>2 DEF Held
  <1>14. \A t \in Slots : Shelved(job[t])'
    BY <1>5 DEF Shelved
  <1> QED BY <1>2, <1>3, <1>8, <1>9, <1>10, <1>11, <1>12, <1>13, <1>14 DEF ShelfStep

\* The statement that ends an exchange before its books are released.
LEMMA EndShelves ==
  ASSUME IInv, Serially, RowsFollow, NEW s \in Slots, Alone(s), job[s].pc \notin Shelving,
         NEW x \in Exchanges, UNCHANGED book, exchange'[x].status \in Ended,
         \A y \in Exchanges \ {x} : exchange'[y] = exchange[y],
         job'[s].x = x, job'[s].pc \in {"complete_requested", "expire_requested"},
         \A t \in Slots \ {s} : job'[t] = job[t]
  PROVE  ShelfStep
  <1>1. \A t \in Slots : job[t].pc \notin Shelving
    BY IdleInv, ShelfPcs DEF Alone
  <1>2. \A y \in Exchanges : ~Releasing(y) /\ (Freed(y) => exchange[y].status \in Ended)
    BY <1>1, ShelfPcs DEF Releasing, Freed, Freeing, Shelving
  <1>3. Releasing(x)'
    BY DEF Releasing
  <1>4. \A y \in Exchanges : Held(y) => Held(y)'
    BY <1>2, <1>3 DEF Held
  <1>5. \A y \in Exchanges : Freed(y) => Freed(y)'
    BY <1>2, EndedStays DEF Freed
  <1>6. \A y \in Exchanges : exchange'[y].status \in Holding => exchange[y].status \in Holding
    BY DEF Ended, Holding
  <1>7. \A t \in Slots : Shelved(job[t])'
    BY IdleInv DEF Shelved, Alone
  <1> QED BY <1>4, <1>5, <1>6, <1>7 DEF ShelfStep, OnShelf

LEMMA CompleteSaveShelves ==
  ASSUME IInv, Serially, RowsFollow, NEW s \in Slots, CompleteSave(s) PROVE ShelfStep
  <1>1. job[s].pc = "complete_save" /\ Goto(s, "complete_requested") /\ UNCHANGED book
    BY DEF CompleteSave, At
  <1>2. PICK x \in Exchanges : x = job[s].x /\ job[s].mem \in Row /\ Alone(s)
    BY <1>1, ReleasingReads
  <1>3. exchange' = [exchange EXCEPT ![x].status = "completed"]
    <2>1. transition_to(job[s].mem, "completed").status = "completed"
      BY <1>2, TransitionTo DEF Statuses
    <2> QED BY <1>2, <2>1 DEF CompleteSave
  <1>4. /\ exchange'[x].status \in Ended
        /\ \A y \in Exchanges \ {x} : exchange'[y] = exchange[y]
    BY <1>3, StatusCases DEF IInv, Row, Ended
  <1>5. /\ job'[s].x = x /\ job'[s].pc = "complete_requested"
        /\ \A t \in Slots \ {s} : job'[t] = job[t]
    BY <1>1, <1>2 DEF Goto, IInv, Job
  <1>6. job[s].pc \notin Shelving
    BY <1>1, ShelfPcs
  <1> QED BY <1>1, <1>2, <1>4, <1>5, <1>6, EndShelves

LEMMA ExpireConditionsSaveShelves ==
  ASSUME IInv, Serially, RowsFollow, NEW s \in Slots, NEW x \in Exchanges,
         ExpireConditionsSave(s, x)
  PROVE  ShelfStep
  <1>1. job[s].pc = "expire_conditions" /\ Alone(s) /\ UNCHANGED book
    BY AtWork DEF ExpireConditionsSave, At
  <1>2. /\ exchange'[x].status \in Ended
        /\ \A y \in Exchanges \ {x} : exchange'[y] = exchange[y]
    BY StatusCases DEF ExpireConditionsSave, IInv, Row, Ended
  <1>3. /\ job'[s].x = x /\ job'[s].pc = "expire_requested"
        /\ \A t \in Slots \ {s} : job'[t] = job[t]
    BY DEF ExpireConditionsSave, IInv, Job
  <1>4. job[s].pc \notin Shelving
    BY <1>1, ShelfPcs
  <1> QED BY <1>1, <1>2, <1>3, <1>4, EndShelves

LEMMA ReleasedBook ==
  ASSUME IInv, NEW b \in Books, NEW u, Release(b, u)
  PROVE  /\ \A c \in Books : book'[c].status = IF c = b THEN "available" ELSE book[c].status
         /\ Available(b)'
  BY DEF Release, IInv, Available

\* Who releases one book and goes on to the next statement.
LEMMA ReleaseShelves ==
  ASSUME IInv, Serially, Shelves, NEW s \in Slots,
         CompleteRequested(s) \/ ReturnRequested(s) \/ ReturnOffered(s) \/ ExpireRequested(s)
  PROVE  ShelfStep
  <1>1. PICK pc \in Shelving, next \in Shelving :
          /\ job[s].pc = pc /\ Goto(s, next) /\ pc # "return_save"
          /\ \/ pc = "return_offered" /\ next = "return_save"
             \/ /\ pc \in {"complete_requested", "return_requested", "expire_requested"}
                /\ next \in {"complete_offered", "return_offered", "expire_offered"}
    BY ShelfPcs DEF CompleteRequested, ReturnRequested, ReturnOffered, ExpireRequested, At
  <1>2. UNCHANGED exchange
    BY DEF CompleteRequested, ReturnRequested, ReturnOffered, ExpireRequested
  <1>3. PICK x \in Exchanges, m \in Row :
          /\ x = job[s].x /\ m = job[s].mem /\ BooksOf(x) = {m.requested, m.offered}
          /\ BooksOf(x) \subseteq Books /\ Alone(s)
          /\ pc \in ReturnPcs => m.status = "returned"
    BY <1>1, ReleasingReads DEF ReturnReads
  <1>4. PICK b \in BooksOf(x) : /\ \E u : Release(b, u)
                                /\ b = IF pc = "return_offered" THEN m.offered
                                                                ELSE m.requested
    BY <1>1, <1>3
       DEF CompleteRequested, ReturnRequested, ReturnOffered, ExpireRequested, At
  <1>5. /\ \A c \in Books : book'[c].status = IF c = b THEN "available" ELSE book[c].status
        /\ Available(b)'
    BY <1>3, <1>4, ReleasedBook
  <1>6. /\ job'[s].x = x /\ job'[s].pc = next /\ job'[s].mem = m
        /\ \A t \in Slots \ {s} : job'[t] = job[t] /\ job[t].pc = "idle"
    BY <1>1, <1>3, IdleInv DEF Goto, IInv, Job, Alone
  <1>7. Freeing(job[s]) /\ Freed(x)
    BY <1>1, <1>3 DEF Freeing, Freed, Shelving
  <1>8. Freeing(job[s])'
    BY <1>1, <1>3, <1>6, ShelfPcs DEF Freeing, Shelving, ReturnPcs
  <1>9. \A y \in Exchanges : Freed(y) => Freed(y)'
    BY <1>2, <1>3, <1>6, <1>8 DEF Freed, Freeing, FreeingPcs, ReturnPcs, ReleasePcs
  <1>10. \A y \in Exchanges : Held(y) => Held(y)'
    <2>1. next \in Shelving
      OBVIOUS
    <2> QED BY <1>2, <1>3, <1>6, <2>1, ShelfPcs DEF Held, Releasing
  <1>11. Shelved(job[s])'
    <2>1. CASE next # "return_save"
      BY <1>1, <1>4, <1>5, <1>6, <2>1 DEF Shelved
    <2>2. CASE next = "return_save"
      <3>1. Available(m.requested) /\ m.requested \in Books
        BY <1>1, <1>3, <2>2 DEF Shelves, Shelved
      <3>2. Available(m.requested)'
        BY <1>5, <3>1 DEF Available
      <3> QED BY <1>1, <1>4, <1>5, <1>6, <2>2, <3>2 DEF Shelved
    <2> QED BY <2>1, <2>2
  <1>12. \A t \in Slots : Shelved(job[t])'
    BY <1>6, <1>11 DEF Shelved
  <1>13. \A c \in Books : OnShelf(c) => OnShelf(c)'
    BY <1>5 DEF OnShelf
  <1>14. \A c \in Books : ~OnShelf(c) /\ OnShelf(c)' => c = b
    BY <1>5 DEF OnShelf
  <1> QED BY <1>2, <1>4, <1>7, <1>9, <1>10, <1>12, <1>13, <1>14 DEF ShelfStep

\* Who releases the second book and is done with the exchange.
LEMMA LastReleaseShelves ==
  ASSUME IInv, Serially, Shelves, NEW s \in Slots, CompleteOffered(s) \/ ExpireOffered(s)
  PROVE  ShelfStep
  <1>1. job[s].pc \in {"complete_offered", "expire_offered"} /\ UNCHANGED exchange
    BY DEF CompleteOffered, ExpireOffered, At
  <1>2. PICK x \in Exchanges, m \in Row :
          /\ x = job[s].x /\ m = job[s].mem /\ BooksOf(x) = {m.requested, m.offered}
          /\ BooksOf(x) \subseteq Books /\ Alone(s) /\ exchange[x].status \in Ended
    BY <1>1, ReleasingReads, ShelfPcs
  <1>3. PICK u : Release(m.offered, u)
    BY <1>2 DEF CompleteOffered, ExpireOffered
  <1>4. /\ \A c \in Books : book'[c].status = IF c = m.offered THEN "available"
                                                              ELSE book[c].status
        /\ Available(m.offered)'
    BY <1>2, <1>3, ReleasedBook
  <1>5. Available(m.requested)'
    <2>1. Available(m.requested)
      BY <1>1, <1>2 DEF Shelves, Shelved
    <2> QED BY <1>2, <1>4, <2>1 DEF Available
  <1>6. \A t \in Slots : job'[t].pc \notin Shelving
    <2>1. PICK j : job' = [job EXCEPT ![s] = j] /\ j.pc \in {"idle", "expire_conditions"}
      BY IdleInv, Fields DEF CompleteOffered, ExpireOffered, Done
    <2>2. job'[s] = j /\ \A t \in Slots \ {s} : job'[t].pc = "idle"
      BY <1>2, <2>1, IdleInv DEF IInv, Alone
    <2> QED BY <2>1, <2>2, ShelfPcs
  <1>7. \A y \in Exchanges : Releasing(y) => y = x
    BY <1>2, IdleInv DEF Releasing, Alone
  <1>8. \A y \in Exchanges : Freed(y) => exchange[y].status \in Ended
    BY <1>2, IdleInv DEF Freed, Freeing, FreeingPcs, ReturnPcs, ReleasePcs, Alone
  <1>9. \A y \in Exchanges : Freed(y) => Freed(y)'
    BY <1>1, <1>8 DEF Freed
  <1>10. ASSUME NEW y \in Exchanges, NEW c \in BooksOf(y), Held(y), ~OnShelf(c)'
         PROVE  Held(y)'
    <2>1. y # x
      BY <1>2, <1>4, <1>5, <1>10 DEF OnShelf, Available
    <2> QED BY <1>1, <1>7, <1>10, <2>1 DEF Held
  <1>11. \A t \in Slots : Shelved(job[t])'
    BY <1>6, ShelfPcs DEF Shelved
  <1>12. \A c \in Books : OnShelf(c) => OnShelf(c)'
    BY <1>4 DEF OnShelf
  <1>13. \A c \in Books : ~OnShelf(c) /\ OnShelf(c)' => c \in BooksOf(x) /\ Freed(x)
    BY <1>2, <1>4 DEF OnShelf, Freed
  <1> QED BY <1>1, <1>9, <1>10, <1>11, <1>12, <1>13 DEF ShelfStep

LEMMA ConfirmReturnReadShelves ==
  ASSUME Serial, IInv, RowsFollow, NEW s \in Slots, NEW u \in Users,
         NEW x \in Exchanges, ConfirmReturnRead(s, u, x)
  PROVE  ShelfStep
  <1> DEFINE mem == [exchange[x] EXCEPT !.returned = @ \cup {u}]
  <1>1. /\ \A t \in Slots : job[t] = Idle /\ job[t].pc = "idle"
        /\ UNCHANGED <<exchange, book>> /\ exchange[x].status = "return_requested"
        /\ \/ \E m : Start(s, "return_requested", u, x, m)
           \/ Start(s, "return_save", u, x, mem)
    BY FreeAlone, IdleInv DEF ConfirmReturnRead
  <1>2. mem.status = "return_requested"
    BY <1>1, StatusCases DEF Row
  <1> HIDE DEF mem
  <1>3. PICK j : /\ job' = [job EXCEPT ![s] = j]
                 /\ \/ j.pc = "return_requested"
                    \/ j.pc = "return_save" /\ j.mem.status = "return_requested"
    <2>1. CASE \E m : Start(s, "return_requested", u, x, m)
      <3>1. PICK m : job' = [job EXCEPT ![s] = Serving("return_requested", u, x, m, {}, {})]
        BY <2>1 DEF Start
      <3>2. Serving("return_requested", u, x, m, {}, {}).pc = "return_requested"
        BY Fields
      <3> QED BY <3>1, <3>2
    <2>2. CASE Start(s, "return_save", u, x, mem)
      <3>1. job' = [job EXCEPT ![s] = Serving("return_save", u, x, mem, {}, {})]
        BY <2>2 DEF Start
      <3>2. /\ Serving("return_save", u, x, mem, {}, {}).pc = "return_save"
            /\ Serving("return_save", u, x, mem, {}, {}).mem.status = "return_requested"
        BY <1>2, Fields
      <3> QED BY <3>1, <3>2
    <2> QED BY <1>1, <2>1, <2>2
  <1>4. job'[s] = j /\ \A t \in Slots \ {s} : job'[t] = Idle
    BY <1>1, <1>3 DEF IInv
  <1>5. \A t \in Slots : Shelved(job[t])'
    BY <1>3, <1>4, IdleInv DEF Shelved
  <1>6. \A y \in Exchanges : ~Releasing(y) /\ (Freed(y) => exchange[y].status \in Ended)
    BY <1>1 DEF Releasing, Freed, Freeing, FreeingPcs, ReturnPcs, ReleasePcs
  <1>7. \A y \in Exchanges : (Held(y) => Held(y)') /\ (Freed(y) => Freed(y)')
    BY <1>1, <1>6 DEF Held, Freed
  <1> QED BY <1>1, <1>5, <1>7 DEF ShelfStep, OnShelf

LEMMA ReturnSaveShelves ==
  ASSUME IInv, Serially, RowsFollow, Shelves, NEW s \in Slots, ReturnSave(s)
  PROVE  ShelfStep
  <1>1. job[s].pc = "return_save" /\ Done(s) /\ UNCHANGED book
    BY DEF ReturnSave, At
  <1>2. PICK x \in Exchanges, m \in Row :
          /\ x = job[s].x /\ m = job[s].mem /\ BooksOf(x) = {m.requested, m.offered}
          /\ Alone(s) /\ ReturnReads(job[s], exchange[x])
    BY <1>1, ReleasingReads, ShelfPcs DEF ReturnPcs
  <1>3. /\ exchange[x].status = "return_requested"
        /\ exchange'[x].status = m.status /\ m.status \in {"return_requested", "returned"}
        /\ \A y \in Exchanges \ {x} : exchange'[y] = exchange[y]
    BY <1>2, StatusCases DEF ReturnSave, ReturnReads, IInv, Row
  <1>4. m.status = "returned" => Available(m.requested) /\ Available(m.offered)
    BY <1>1, <1>2 DEF Shelves, Shelved
  <1>5. \A t \in Slots : job'[t] = Idle /\ job'[t].pc = "idle"
    BY <1>1, <1>2, IdleInv DEF Done, Alone, IInv
  <1>6. \A t \in Slots : Shelved(job[t])'
    BY <1>5 DEF Shelved
  <1>7. ASSUME NEW y \in Exchanges, Freed(y) PROVE Freed(y)'
    <2>1. CASE exchange[y].status \in Ended
      BY <2>1, EndedStays DEF Freed
    <2>2. CASE \E t \in Slots : job[t].x = y /\ Freeing(job[t])
      <3>1. y = x /\ m.status = "returned"
        BY <1>1, <1>2, <2>2, IdleInv DEF Freeing, FreeingPcs, ReturnPcs, ReleasePcs, Alone
      <3> QED BY <1>3, <3>1 DEF Freed, Ended
    <2> QED BY <1>7, <2>1, <2>2 DEF Freed
  <1>8. \A y \in Exchanges : Releasing(y) => y = x
    BY <1>2, IdleInv DEF Releasing, Alone
  <1>9. ASSUME NEW y \in Exchanges, NEW c \in BooksOf(y), Held(y), ~OnShelf(c)'
        PROVE  Held(y)'
    <2>1. CASE y = x
      <3>1. m.status # "returned"
        BY <1>1, <1>2, <1>4, <1>9, <2>1 DEF OnShelf, Available
      <3> QED BY <1>3, <2>1, <3>1 DEF Held, Holding
    <2>2. CASE y # x
      BY <1>3, <1>8, <1>9, <2>2 DEF Held
    <2> QED BY <2>1, <2>2
  <1>10. \A y \in Exchanges : exchange'[y].status \in Holding => exchange[y].status \in Holding
    BY <1>3 DEF Holding
  <1> QED BY <1>1, <1>6, <1>7, <1>9, <1>10 DEF ShelfStep, OnShelf

LEMMA MatchingShelves ==
  ASSUME Serial, IInv, Serially, NEW s \in Slots,
         \/ \E u \in Users, b, o \in Books, permanent \in SwapTypes, x \in Exchanges :
               CreateCheck(s, u, b, o, permanent, x)
         \/ \E u, v \in Users : BlockCreate(s, u, v)
         \/ CreateInsert(s) \/ BlockCancel(s)
  PROVE  /\ UNCHANGED book /\ JobsSteady(Shelving)
         /\ \A x \in Exchanges : \/ exchange'[x].status = exchange[x].status
                                 \/ exchange'[x].status \in Onward \cup {"pending"}
  <1> DEFINE W == Shelving
  <1>0. \A pc \in {"idle", "create_insert", "block_cancel"} : pc \notin W
    BY ShelfPcs
  <1>1. CASE \E u \in Users, b, o \in Books, permanent \in SwapTypes, x \in Exchanges :
                CreateCheck(s, u, b, o, permanent, x)
    BY <1>0, <1>1, StartSteady DEF CreateCheck
  <1>2. CASE \E u, v \in Users : BlockCreate(s, u, v)
    <2>1. PICK u \in Users, v \in Users : BlockCreate(s, u, v)
      BY <1>2
    <2> DEFINE j == Serving("block_cancel", u, None, NoRow, {}, {u, v})
    <2>2. /\ job' = [job EXCEPT ![s] = j] /\ j.pc = "block_cancel" /\ job[s].pc = "idle"
          /\ UNCHANGED <<exchange, book>>
      BY <2>1, Fields, IdleInv DEF BlockCreate, Free
    <2> HIDE DEF j
    <2> QED BY <1>0, <2>1, <2>2, JobSteady
  <1>3. CASE CreateInsert(s)
    <2>1. job[s].pc = "create_insert" /\ Done(s) /\ UNCHANGED book
      BY <1>3 DEF CreateInsert, At
    <2>2. job[s].mem.status = "pending"
      BY <2>1 DEF IInv, JobInv
    <2>3. \A x \in Exchanges : \/ exchange'[x] = exchange[x]
                               \/ exchange'[x] = job[s].mem
      BY <1>3 DEF CreateInsert, IInv
    <2> QED BY <1>0, <2>1, <2>2, <2>3, DoneSteady
  <1>4. CASE BlockCancel(s)
    <2>1. job[s].pc = "block_cancel" /\ Done(s) /\ UNCHANGED book
      BY <1>4 DEF BlockCancel, At
    <2>2. \A x \in Exchanges :
             exchange'[x].status = exchange[x].status \/ exchange'[x].status = "cancelled"
      BY <1>4, StatusCases DEF BlockCancel, Row
    <2> QED BY <1>0, <2>1, <2>2, DoneSteady DEF Onward
  <1> QED BY <1>1, <1>2, <1>3, <1>4

LEMMA NextShelves ==
  ASSUME Serial, IInv, Serially, ~Crashes, Shelves, [Next]_vars PROVE Shelves'
  <1>1. RowsStep /\ RowsFollow /\ IInv'
    BY NextInv, NextSerial DEF Kept
  <1>2. CASE Steady
    <2>1. JobsSteady(Shelving) /\ UNCHANGED book
      BY <1>2 DEF Steady, JobsSteady
    <2> QED BY <1>1, <1>2, <2>1, SteadyShelves, ShelvesStep DEF Steady, RowsSteady
  <1>3. CASE \E s \in Slots : ShelfMoves(s)
    <2>1. PICK s \in Slots : ShelfMoves(s)
      BY <1>3
    <2>2. ShelfStep
      BY <1>1, <2>1, AcceptShelves, CompleteSaveShelves, ExpireConditionsSaveShelves,
         ReleaseShelves, LastReleaseShelves, ConfirmReturnReadShelves, ReturnSaveShelves
         DEF ShelfMoves
    <2> QED BY <1>1, <2>2, ShelvesStep
  <1>4. CASE \E u, v \in Users : Unblock(u, v)
    <2>1. UNCHANGED <<exchange, book, job>>
      BY <1>4 DEF Unblock
    <2> QED BY <1>1, <2>1, SteadyShelves, ShelvesStep DEF JobsSteady
  <1>5. ASSUME NEW s \in Slots,
               \/ \E u \in Users, b, o \in Books, permanent \in SwapTypes, x \in Exchanges :
                     CreateCheck(s, u, b, o, permanent, x)
               \/ \E u, v \in Users : BlockCreate(s, u, v)
               \/ CreateInsert(s) \/ BlockCancel(s)
        PROVE  Shelves'
    BY <1>1, <1>5, MatchingShelves, SteadyShelves, ShelvesStep
  <1> QED BY <1>2, <1>3, <1>4, <1>5, Steps

LEMMA InitShelves == ASSUME Init PROVE Shelves
  <1>1. \A b \in Books : book[b].status = "available"
    BY DEF Init, NegotiationInit, BookInit
  <1>2. \A x \in Exchanges : exchange[x].status = "absent"
    BY DEF Init, NegotiationInit, NoRow, NewRow
  <1>3. \A s \in Slots : job[s] = Idle /\ job[s].pc = "idle"
    BY IdleInv DEF Init, NegotiationInit
  <1> QED BY <1>1, <1>2, <1>3 DEF Shelves, LockedBooksAccountedFor, Locked, Shelved, Holding

LEMMA AlwaysShelves == Serial /\ ~Crashes => (Spec => []Shelves)
  <1> SUFFICES ASSUME Serial, ~Crashes PROVE Spec => []Shelves
    OBVIOUS
  <1>1. Init => Shelves
    BY InitShelves
  <1>2. IInv /\ Serially /\ Shelves /\ [Next]_vars => Shelves'
    BY NextShelves
  <1> QED BY <1>1, <1>2, InductiveInvariant, ServedInTurn, PTL DEF Spec

\* Served one at a time by processes that do not die half-way, no book is stuck:
\* a book in exchange belongs to an exchange that holds it, to one that is
\* releasing it, or to one that a block cancelled.  (accept; complete,
\* confirm_return, expire_stale_conditions; _cancel_exchanges_between)
THEOREM NoBookIsStuck == Serial /\ ~Crashes => (Spec => []LockedBooksAccountedFor)
  <1> SUFFICES ASSUME Serial, ~Crashes PROVE Spec => []LockedBooksAccountedFor
    OBVIOUS
  <1>1. Shelves => LockedBooksAccountedFor
    BY DEF Shelves
  <1> QED BY <1>1, AlwaysShelves, PTL

\* Served one at a time by processes that do not die half-way, the books of an
\* exchange in progress are off the market, unless another exchange with the
\* same book got further than being requested.  (accept; complete,
\* confirm_return, expire_stale_conditions)
THEOREM HeldBooksAreLocked == Serial /\ ~Crashes => (Spec => []HeldBooksLocked)
  <1> SUFFICES ASSUME Serial, ~Crashes PROVE Spec => []HeldBooksLocked
    OBVIOUS
  <1>1. IInv /\ Serially /\ Shelves => HeldBooksLocked
    <2> SUFFICES ASSUME IInv, Serially, Shelves, NEW x \in Exchanges, NEW b \in BooksOf(x),
                        exchange[x].status \in Holding, ~Releasing(x),
                        \A y \in Exchanges \ {x} : b \in BooksOf(y) =>
                           exchange[y].status \in {"pending", "declined", "cancelled"}
                 PROVE  book[b].status = "in_exchange"
      BY DEF HeldBooksLocked
    <2>1. ASSUME NEW y \in Exchanges, b \in BooksOf(y), Freed(y) PROVE FALSE
      <3>1. exchange[y].status \in Ended \/ Releasing(y)
        BY <2>1 DEF Freed, Freeing, Releasing, FreeingPcs, ReturnPcs, ReleasePcs
      <3>2. CASE exchange[y].status \in Ended
        BY <2>1, <3>2 DEF Ended, Holding
      <3>3. CASE Releasing(y)
        <4>1. PICK s \in Slots : job[s].x = y /\ job[s].pc \in Shelving
          BY <3>3, ShelfPcs DEF Releasing
        <4>2. exchange[y].status \in Ended \cup {"return_requested"}
          BY <4>1, ReleasingReads, ShelfPcs DEF ReturnPcs, ReturnReads
        <4> QED BY <2>1, <3>3, <4>2 DEF Ended
      <3> QED BY <3>1, <3>2, <3>3
    <2> QED BY <2>1 DEF Shelves, Locked
  <1> QED BY <1>1, AlwaysShelves, InductiveInvariant, ServedInTurn, PTL

=============================================================================
