------------------------------ MODULE Negotiation -----------------------------
(***************************************************************************)
(* The first half of an exchange: a request is created, countered,          *)
(* approved, accepted, declined, cancelled or expired (apps/exchanges       *)
(* views.py, serializers.py, tasks.py), and a user blocks another           *)
(* (apps/trust_safety/views.py).                                            *)
(***************************************************************************)
EXTENDS ExchangeBase

-----------------------------------------------------------------------------
(* POST /exchanges/ *)

\* The requester's exchange for the book that is not over (validate).
OpenRequest(u, b) ==
    \E y \in Exchanges : /\ exchange[y].requester = u
                         /\ exchange[y].requested = b
                         /\ exchange[y].status \notin Terminal

\* The serializer's checks and the block check.
CreateCheck(s, u, b, o, permanent, x) ==
    /\ Free(s)
    /\ exchange[x].status = "absent"
    /\ \A t \in Slots : At(t, "create_insert") => job[t].x # x
    /\ book[b].owner # u
    /\ book[b].status = "available"
    /\ book[o].owner = u
    /\ book[o].status = "available"
    /\ ~OpenRequest(u, b)
    /\ ~BlockedPair(u, book[b].owner)
    /\ Start(s, "create_insert", u, x,
             NewRow("pending", u, book[b].owner, b, o, permanent))
    /\ UNCHANGED <<exchange, book, blocks, swapCount>>

\* Mutant: the table has no such constraint.
NoConstraint(row) == FALSE

\* UniqueConstraint unique_pending_request_per_book.
DuplicatePending(row) ==
    \E y \in Exchanges : /\ exchange[y].requester = row.requester
                         /\ exchange[y].requested = row.requested
                         /\ exchange[y].status = "pending"

\* The INSERT waits for the rows it references and either succeeds or is
\* refused by the unique constraint (400).
CreateInsert(s) ==
    LET row == job[s].mem
    IN  /\ At(s, "create_insert")
        /\ BookFree(row.requested) /\ BookFree(row.offered)
        /\ UserFree(row.requester) /\ UserFree(row.owner)
        /\ IF DuplicatePending(row)
              THEN UNCHANGED exchange
              ELSE exchange' = [exchange EXCEPT ![job[s].x] = row]
        /\ Done(s)
        /\ UNCHANGED <<book, blocks, swapCount>>

-----------------------------------------------------------------------------
(* POST /exchanges/{id}/counter/ : one transaction that locks the row. *)

\* Mutants: no maximum, no waiting for one's turn, no check of the status.
MayCounterUncapped(u, x) ==
    exchange[x].status = "pending" /\ exchange[x].counterBy # u

MayCounterTwice(u, x) ==
    exchange[x].status = "pending" /\ exchange[x].counters[u] < MaxCounters

MayCounterAnytime(u, x) ==
    exchange[x].counterBy # u /\ exchange[x].counters[u] < MaxCounters

MayCounter(u, x) ==
    /\ exchange[x].status = "pending"
    /\ exchange[x].counterBy # u
    /\ exchange[x].counters[u] < MaxCounters

\* The instance that the counter-offer saves.
Countered(row, u, b) ==
    [row EXCEPT !.original = IF row.original = None THEN row.offered
                                                   ELSE row.original,
                !.offered = b,
                !.counterBy = u,
                !.approvedBy = None,
                !.counters = [row.counters EXCEPT ![u] = @ + 1]]

Counter(u, x, b) ==
    /\ \E s \in Workers : Free(s)
    /\ Visible(u, x)
    /\ ExchangeFree(x)
    /\ MayCounter(u, x)
    /\ book[b].owner \in Parties(x) \ {u}
    /\ book[b].status = "available"
    /\ b # exchange[x].offered
    /\ exchange' = [exchange EXCEPT ![x] = Countered(exchange[x], u, b)]
    /\ UNCHANGED <<book, blocks, swapCount, job>>

(* POST /exchanges/{id}/approve-counter/ *)

\* Mutant: whoever made the counter-offer may approve it.
MayApproveOwn(u, x) ==
    /\ exchange[x].status = "pending"
    /\ exchange[x].counterBy # None
    /\ exchange[x].approvedBy = None

MayApprove(u, x) ==
    /\ exchange[x].status = "pending"
    /\ exchange[x].counterBy \notin {None, u}
    /\ exchange[x].approvedBy = None

ApproveRead(s, u, x) ==
    /\ Free(s)
    /\ Visible(u, x)
    /\ MayApprove(u, x)
    /\ Start(s, "approve_save", u, x, NoRow)
    /\ UNCHANGED <<exchange, book, blocks, swapCount>>

ApproveSave(s) ==
    /\ At(s, "approve_save")
    /\ RowFree(job[s].x)
    /\ exchange' = [exchange EXCEPT ![job[s].x].approvedBy = job[s].user]
    /\ Done(s)
    /\ UNCHANGED <<book, blocks, swapCount>>

-----------------------------------------------------------------------------
(* POST /exchanges/{id}/accept/ : one transaction, in two steps because      *)
(* readers and requests that are not locked get in between.                  *)

\* auto_declined_pks
Competing(x) ==
    {y \in Exchanges \ {x} :
        /\ exchange[y].status = "pending"
        /\ \/ exchange[y].requested = exchange[x].requested
           \/ exchange[y].offered = exchange[x].offered}

\* Mutant: an unapproved counter-offer can be accepted.
TermsUnchecked(x) == TRUE

TermsAgreed(x) == exchange[x].counterBy # None => exchange[x].approvedBy # None

AcceptLock(s, u, x) ==
    /\ Free(s)
    /\ u = exchange[x].owner
    /\ Visible(u, x)
    /\ ExchangeFree(x)
    /\ exchange[x].status = "pending"
    /\ TermsAgreed(x)
    /\ job' = [job EXCEPT
           ![s] = Serving("accept_commit", u, x, NoRow, Competing(x), {})]
    /\ UNCHANGED <<exchange, book, blocks, swapCount>>

\* Mutant: only the requested book is locked.
TakesRequested(x) == {exchange[x].requested}

\* The books that accepting puts in exchange.
Takes(x) == {exchange[x].requested, exchange[x].offered}

\* The listed requests are declined whatever has become of them meanwhile.
AcceptCommit(s) ==
    LET x == job[s].x
    IN  /\ At(s, "accept_commit")
        /\ exchange' = [y \in Exchanges |->
               IF y = x THEN [exchange[y] EXCEPT !.status = "accepted"]
               ELSE IF y \in job[s].todo
                    THEN [exchange[y] EXCEPT !.status = "declined"]
                    ELSE exchange[y]]
        /\ book' = [b \in Books |->
               IF b \in Takes(x)
               THEN [book[b] EXCEPT !.status = "in_exchange"]
               ELSE book[b]]
        /\ Done(s)
        /\ UNCHANGED <<blocks, swapCount>>

-----------------------------------------------------------------------------
(* POST /exchanges/{id}/decline/ and /cancel/ *)

DeclineRead(s, u, x) ==
    /\ Free(s)
    /\ u = exchange[x].owner
    /\ Visible(u, x)
    /\ exchange[x].status = "pending"
    /\ Start(s, "decline_save", u, x, NoRow)
    /\ UNCHANGED <<exchange, book, blocks, swapCount>>

DeclineSave(s) ==
    /\ At(s, "decline_save")
    /\ RowFree(job[s].x)
    /\ exchange' = [exchange EXCEPT ![job[s].x].status = "declined"]
    /\ Done(s)
    /\ UNCHANGED <<book, blocks, swapCount>>

CancelRead(s, u, x) ==
    /\ Free(s)
    /\ u = exchange[x].requester
    /\ Visible(u, x)
    /\ exchange[x].status = "pending"
    /\ Start(s, "cancel_save", u, x, NoRow)
    /\ UNCHANGED <<exchange, book, blocks, swapCount>>

CancelSave(s) ==
    /\ At(s, "cancel_save")
    /\ RowFree(job[s].x)
    /\ exchange' = [exchange EXCEPT ![job[s].x].status = "cancelled"]
    /\ Done(s)
    /\ UNCHANGED <<book, blocks, swapCount>>

-----------------------------------------------------------------------------
(* exchanges.expire_stale_requests.  Time is abstracted: any pending         *)
(* request may have turned 14 days old when the task lists them.             *)

\* Mutant: the filter of the other expiry task.
RequestListedCopied(x) ==
    exchange[x].status \in {"accepted", "conditions_pending"}

RequestListed(x) == exchange[x].status = "pending"

ExpireRequestsList(T) ==
    /\ Free("expire_stale_requests")
    /\ T # {}
    /\ \A x \in T : RequestListed(x)
    /\ job' = [job EXCEPT !["expire_stale_requests"] =
           Serving("expire_requests", None, None, NoRow, T, {})]
    /\ UNCHANGED <<exchange, book, blocks, swapCount>>

\* One row of the list: saved as expired without reading it again.
ExpireRequestSave(s, x) ==
    /\ At(s, "expire_requests")
    /\ x \in job[s].todo
    /\ RowFree(x)
    /\ exchange' = [exchange EXCEPT ![x].status = "expired"]
    /\ IF job[s].todo = {x} THEN Done(s)
       ELSE job' = [job EXCEPT ![s].todo = @ \ {x}]
    /\ UNCHANGED <<book, blocks, swapCount>>

-----------------------------------------------------------------------------
(* POST /users/block/ and DELETE /users/block/{id}/ *)

BlockCreate(s, u, v) ==
    /\ Free(s)
    /\ u # v
    /\ <<u, v>> \notin blocks
    /\ UserFree(u) /\ UserFree(v)
    /\ blocks' = blocks \cup {<<u, v>>}
    /\ job' = [job EXCEPT
           ![s] = Serving("block_cancel", u, None, NoRow, {}, {u, v})]
    /\ UNCHANGED <<exchange, book, swapCount>>

\* _cancel_exchanges_between: one UPDATE statement.
Between(pair) ==
    {x \in Exchanges : /\ exchange[x].status # "absent"
                       /\ Parties(x) = pair}

BlockCancel(s) ==
    /\ At(s, "block_cancel")
    /\ \A x \in Between(job[s].users) : RowFree(x)
    /\ exchange' = [x \in Exchanges |->
           IF x \in Between(job[s].users) /\ exchange[x].status \in Cancelable
           THEN [exchange[x] EXCEPT !.status = "cancelled"]
           ELSE exchange[x]]
    /\ Done(s)
    /\ UNCHANGED <<book, blocks, swapCount>>

Unblock(u, v) ==
    /\ \E s \in Workers : Free(s)
    /\ <<u, v>> \in blocks
    /\ blocks' = blocks \ {<<u, v>>}
    /\ UNCHANGED <<exchange, book, swapCount, job>>

-----------------------------------------------------------------------------

NegotiationRequest(s) ==
    \/ \E u \in Users, b, o \in Books, permanent \in SwapTypes, x \in Exchanges :
          CreateCheck(s, u, b, o, permanent, x)
    \/ \E u \in Users, x \in Exchanges :
          \/ ApproveRead(s, u, x)
          \/ AcceptLock(s, u, x)
          \/ DeclineRead(s, u, x)
          \/ CancelRead(s, u, x)
    \/ \E u, v \in Users : BlockCreate(s, u, v)

\* The later statements of a request that is being served.
NegotiationStep(s) ==
    \/ CreateInsert(s)
    \/ ApproveSave(s)
    \/ AcceptCommit(s)
    \/ DeclineSave(s)
    \/ CancelSave(s)
    \/ BlockCancel(s)
    \/ \E x \in Exchanges : ExpireRequestSave(s, x)

NegotiationNext ==
    \/ \E s \in Workers : NegotiationRequest(s)
    \/ \E s \in Slots : NegotiationStep(s)
    \/ \E u \in Users, x \in Exchanges, b \in Books : Counter(u, x, b)
    \/ \E T \in SUBSET Exchanges : ExpireRequestsList(T)
    \/ \E u, v \in Users : Unblock(u, v)

NegotiationInit ==
    /\ exchange = [x \in Exchanges |-> NoRow]
    /\ BookInit
    /\ blocks = {}
    /\ swapCount = [u \in Users |-> 0]
    /\ job = [s \in Slots |-> Idle]

NegotiationSpec ==
    NegotiationInit /\ [][NegotiationNext \/ \E s \in Slots : Crash(s)]_vars

-----------------------------------------------------------------------------
(* Fairness: a statement whose turn has come is executed.  Beat runs each    *)
(* task again and again; a run lists only the rows that are old enough, so a *)
(* row that is eligible whenever the task starts is in the list of some run  *)
(* (strong fairness).  Users are under no obligation to do anything.         *)

NegotiationFairness ==
    /\ \A s \in Slots : WF_vars(NegotiationStep(s))
    /\ \A x \in Exchanges :
          SF_vars(\E T \in SUBSET Exchanges : x \in T /\ ExpireRequestsList(T))

-----------------------------------------------------------------------------
(* Properties. *)

\* Counter-offers alternate: whoever made the last one has made as many as
\* the other party or one more, and nobody's count moves before an offer is
\* made.  (counter, views.py; that no count passes the maximum is in TypeOK.)
CountersAlternate ==
    \A x \in Exchanges :
        LET count == exchange[x].counters
            last  == exchange[x].counterBy
        IN  exchange[x].status # "absent" =>
            \/ last = None /\ \A u \in Parties(x) : count[u] = 0
            \/ /\ last \in Parties(x)
               /\ count[last] > 0
               /\ \A u \in Parties(x) : count[last] \in {count[u], count[u] + 1}

\* An exchange is only ever carried out on agreed terms: the original offer,
\* or a counter-offer that was approved, however approvals, counter-offers
\* and stale saves interleave.  (accept and counter, views.py)
AgreedTerms ==
    \A x \in Exchanges :
        exchange[x].status \in Holding \cup Swapped =>
            exchange[x].counterBy = None \/ exchange[x].approvedBy # None

\* Once a request has left pending it never becomes pending again, and what
\* was agreed (books, kind of swap, counters, approval) does not change under
\* the parties.  (counter re-reads the status under the lock, views.py)
Terms(x) ==
    <<exchange[x].requester, exchange[x].owner, exchange[x].requested,
      exchange[x].offered, exchange[x].original, exchange[x].permanent,
      exchange[x].counterBy, exchange[x].counters>>

TermsFrozen ==
    [][\A x \in Exchanges : exchange[x].status \notin {"absent", "pending"} =>
          /\ exchange'[x].status \notin {"absent", "pending"}
          /\ Terms(x)' = Terms(x)
          /\ exchange[x].approvedBy # None => exchange'[x].approvedBy # None]_vars

\* A requester has at most one pending request for a book, even when two
\* create requests run at the same time.  (the unique constraint, models.py)
OnePendingRequest ==
    \A x, y \in Exchanges :
        /\ exchange[x].status = "pending" /\ exchange[y].status = "pending"
        /\ exchange[x].requester = exchange[y].requester
        /\ exchange[x].requested = exchange[y].requested
        => x = y

\* Requests served one at a time: a counter-offer is approved by the party
\* that did not make it.  (approve_counter, views.py)
ApprovedByOther ==
    \A x \in Exchanges :
        exchange[x].approvedBy # None =>
            exchange[x].approvedBy \in Parties(x) \ {exchange[x].counterBy}

\* Requests served one at a time: while one of two users blocks the other,
\* no exchange between them is pending, accepted or active, except between
\* the two statements of the block itself.  (BlockViewSet.create, create)
BlockedPairsApart ==
    \A x \in Exchanges :
        exchange[x].status \in {"pending"} \cup (Holding \ Swapped)
            /\ BlockedPair(exchange[x].requester, exchange[x].owner)
        => \E s \in Slots : At(s, "block_cancel") /\ job[s].users = Parties(x)

\* Every pending request is eventually settled by somebody, at the latest by
\* the daily task.  (expire_stale_requests)
RequestsSettle ==
    \A x \in Exchanges :
        exchange[x].status = "pending" ~> exchange[x].status # "pending"

=============================================================================
