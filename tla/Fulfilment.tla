------------------------------- MODULE Fulfilment ------------------------------
(***************************************************************************)
(* The second half of an exchange: the conditions, the two confirmations of *)
(* the handover, completion, the return, and the Celery tasks that expire   *)
(* unanswered conditions and fill in a missing confirmation                 *)
(* (apps/exchanges/views.py and tasks.py).                                  *)
(***************************************************************************)
EXTENDS ExchangeBase

-----------------------------------------------------------------------------
(* POST /exchanges/{id}/accept-conditions/ : four statements. *)

ConditionsRead(s, u, x) ==
    /\ Free(s)
    /\ Visible(u, x)
    /\ exchange[x].status \in {"accepted", "conditions_pending"}
    /\ u \notin exchange[x].accepted
    /\ Start(s, "conditions_insert", u, x, exchange[x])
    /\ UNCHANGED <<exchange, book, blocks, swapCount>>

\* The INSERT of the acceptance, which the unique constraint on (exchange,
\* user) refuses (500) if a second request of the same user came first.
ConditionsInsert(s) ==
    LET x == job[s].x
        u == job[s].user
    IN  /\ At(s, "conditions_insert")
        /\ RowFree(x) /\ UserFree(u)
        /\ exchange' = [exchange EXCEPT ![x].accepted = @ \cup {u}]
        /\ IF u \in exchange[x].accepted THEN Done(s)
                                         ELSE Goto(s, "conditions_count")
        /\ UNCHANGED <<book, blocks, swapCount>>

both_conditions_accepted(x) == exchange[x].accepted = Parties(x)

\* The count decides the status to save.  From an instance read as accepted,
\* the transition to active raises ValueError (500).
ConditionsCount(s) ==
    LET mem == job[s].mem
        new == IF both_conditions_accepted(job[s].x) THEN "active"
               ELSE "conditions_pending"
    IN  /\ At(s, "conditions_count")
        /\ IF can_transition_to(mem, new)
              THEN job' = [job EXCEPT ![s].pc = "conditions_save",
                                      ![s].mem = transition_to(mem, new)]
           ELSE IF new = mem.status THEN Goto(s, "conditions_save")
           ELSE Done(s)
        /\ UNCHANGED <<exchange, book, blocks, swapCount>>

ConditionsSave(s) ==
    /\ At(s, "conditions_save")
    /\ RowFree(job[s].x)
    /\ exchange' = [exchange EXCEPT ![job[s].x].status = job[s].mem.status]
    /\ Done(s)
    /\ UNCHANGED <<book, blocks, swapCount>>

-----------------------------------------------------------------------------
(* POST /exchanges/{id}/confirm-swap/ : one transaction that locks the row. *)

\* Mutant: the status is not checked.
MayConfirmAnytime(u, x) == u \notin exchange[x].confirmed

MayConfirm(u, x) ==
    exchange[x].status = "active" /\ u \notin exchange[x].confirmed

is_swap_confirmed(row) == row.confirmed = {row.requester, row.owner}

\* Mutant: every confirmation is counted as a swap.
CreditedEach(row) == {row.requester, row.owner}

\* The users whose swap_count the confirmation increments.
Credited(row) ==
    IF is_swap_confirmed(row) THEN {row.requester, row.owner} ELSE {}

ConfirmSwap(u, x) ==
    LET row == [exchange[x] EXCEPT !.confirmed = @ \cup {u}]
    IN  /\ \E s \in Workers : Free(s)
        /\ Visible(u, x)
        /\ RowFree(x)
        /\ MayConfirm(u, x)
        /\ \A v \in Credited(row) : UserFree(v)
        /\ exchange' = [exchange EXCEPT
               ![x] = IF is_swap_confirmed(row)
                      THEN transition_to(row, "swap_confirmed") ELSE row]
        /\ swapCount' = [v \in Users |->
               IF v \in Credited(row) THEN swapCount[v] + 1 ELSE swapCount[v]]
        /\ UNCHANGED <<book, blocks, job>>

-----------------------------------------------------------------------------
(* POST /exchanges/{id}/complete/ : the status, then each book. *)

CompleteRead(s, u, x) ==
    /\ Free(s)
    /\ Visible(u, x)
    /\ exchange[x].status = "swap_confirmed"
    /\ Start(s, "complete_save", u, x, exchange[x])
    /\ UNCHANGED <<exchange, book, blocks, swapCount>>

\* update_fields names status only: the completed_at that transition_to set
\* on the instance is not written.
CompleteSave(s) ==
    LET mem == transition_to(job[s].mem, "completed")
    IN  /\ At(s, "complete_save")
        /\ RowFree(job[s].x)
        /\ exchange' = [exchange EXCEPT ![job[s].x].status = mem.status]
        /\ Goto(s, "complete_requested")
        /\ UNCHANGED <<book, blocks, swapCount>>

\* A book goes back on the shelf of newOwner.
Release(b, newOwner) ==
    /\ BookFree(b)
    /\ book' = [book EXCEPT ![b] = [owner |-> newOwner, status |-> "available"]]

\* Mutant: a temporary swap changes the owner, too.
CompleteRequestedAlways(s) ==
    LET mem == job[s].mem
        b == mem.requested
    IN  /\ At(s, "complete_requested")
        /\ Release(b, mem.requester)
        /\ Goto(s, "complete_offered")
        /\ UNCHANGED <<exchange, blocks, swapCount>>

CompleteRequested(s) ==
    LET mem == job[s].mem
        b == mem.requested
    IN  /\ At(s, "complete_requested")
        /\ Release(b, IF mem.permanent THEN mem.requester ELSE book[b].owner)
        /\ Goto(s, "complete_offered")
        /\ UNCHANGED <<exchange, blocks, swapCount>>

CompleteOffered(s) ==
    LET mem == job[s].mem
        b == mem.offered
    IN  /\ At(s, "complete_offered")
        /\ Release(b, IF mem.permanent THEN mem.owner ELSE book[b].owner)
        /\ Done(s)
        /\ UNCHANGED <<exchange, blocks, swapCount>>

-----------------------------------------------------------------------------
(* POST /exchanges/{id}/request-return/ and /confirm-return/ *)

RequestReturnRead(s, u, x) ==
    /\ Free(s)
    /\ Visible(u, x)
    /\ ~exchange[x].permanent
    /\ exchange[x].status = "swap_confirmed"
    /\ Start(s, "request_return_save", u, x, NoRow)
    /\ UNCHANGED <<exchange, book, blocks, swapCount>>

RequestReturnSave(s) ==
    /\ At(s, "request_return_save")
    /\ RowFree(job[s].x)
    /\ exchange' = [exchange EXCEPT ![job[s].x].status = "return_requested"]
    /\ Done(s)
    /\ UNCHANGED <<book, blocks, swapCount>>

\* Mutant: one confirmation is enough.
is_return_confirmed_once(row) == row.returned # {}

is_return_confirmed(row) == row.returned = {row.requester, row.owner}

\* The instance remembers the confirmations as they were read.  If they are
\* complete, the books are released before the exchange is saved.
ConfirmReturnRead(s, u, x) ==
    LET mem == [exchange[x] EXCEPT !.returned = @ \cup {u}]
    IN  /\ Free(s)
        /\ Visible(u, x)
        /\ exchange[x].status = "return_requested"
        /\ u \notin exchange[x].returned
        /\ IF is_return_confirmed(mem)
              THEN Start(s, "return_requested", u, x,
                         transition_to(mem, "returned"))
              ELSE Start(s, "return_save", u, x, mem)
        /\ UNCHANGED <<exchange, book, blocks, swapCount>>

ReturnRequested(s) ==
    LET b == job[s].mem.requested
    IN  /\ At(s, "return_requested")
        /\ Release(b, book[b].owner)
        /\ Goto(s, "return_offered")
        /\ UNCHANGED <<exchange, blocks, swapCount>>

ReturnOffered(s) ==
    LET b == job[s].mem.offered
    IN  /\ At(s, "return_offered")
        /\ Release(b, book[b].owner)
        /\ Goto(s, "return_save")
        /\ UNCHANGED <<exchange, blocks, swapCount>>

\* Mutant: the return reuses the columns of the swap's confirmations.
ReturnSaveReuses(s) ==
    LET x == job[s].x
        mem == job[s].mem
    IN  /\ At(s, "return_save")
        /\ RowFree(x)
        /\ exchange' = [exchange EXCEPT
               ![x].returned = mem.returned,
               ![x].confirmed = mem.returned,
               ![x].status = IF mem.status = "returned" THEN mem.status ELSE @]
        /\ Done(s)
        /\ UNCHANGED <<book, blocks, swapCount>>

\* Both confirmation columns are written from the instance, the status only
\* when the return is complete, completed_at never.
ReturnSave(s) ==
    LET x == job[s].x
        mem == job[s].mem
    IN  /\ At(s, "return_save")
        /\ RowFree(x)
        /\ exchange' = [exchange EXCEPT
               ![x].returned = mem.returned,
               ![x].status = IF mem.status = "returned" THEN mem.status ELSE @]
        /\ Done(s)
        /\ UNCHANGED <<book, blocks, swapCount>>

-----------------------------------------------------------------------------
(* exchanges.expire_stale_conditions: for each listed exchange, the status,  *)
(* then each book.  Any listed exchange may have been untouched for 14 days. *)

\* Mutants: active exchanges are listed, too; only accepted ones are.
ConditionsListedActive(x) ==
    exchange[x].status \in {"accepted", "conditions_pending", "active"}

ConditionsListedAccepted(x) == exchange[x].status = "accepted"

ConditionsListed(x) ==
    exchange[x].status \in {"accepted", "conditions_pending"}

ExpireConditionsList(T) ==
    /\ Free("expire_stale_conditions")
    /\ T # {}
    /\ \A x \in T : ConditionsListed(x)
    /\ job' = [job EXCEPT !["expire_stale_conditions"] =
           Serving("expire_conditions", None, None, NoRow, T, {})]
    /\ UNCHANGED <<exchange, book, blocks, swapCount>>

ExpireConditionsSave(s, x) ==
    /\ At(s, "expire_conditions")
    /\ x \in job[s].todo
    /\ RowFree(x)
    /\ exchange' = [exchange EXCEPT ![x].status = "expired"]
    /\ job' = [job EXCEPT ![s].pc = "expire_requested", ![s].x = x,
                          ![s].mem = exchange[x]]
    /\ UNCHANGED <<book, blocks, swapCount>>

ExpireRequested(s) ==
    LET b == job[s].mem.requested
    IN  /\ At(s, "expire_requested")
        /\ Release(b, book[b].owner)
        /\ Goto(s, "expire_offered")
        /\ UNCHANGED <<exchange, blocks, swapCount>>

\* Mutant: the requested book is released twice, the offered one never.
ExpireOfferedForgets(s) ==
    LET b == job[s].mem.requested
        rest == job[s].todo \ {job[s].x}
    IN  /\ At(s, "expire_offered")
        /\ Release(b, book[b].owner)
        /\ IF rest = {} THEN Done(s)
           ELSE job' = [job EXCEPT
                    ![s] = Serving("expire_conditions", None, None, NoRow,
                                   rest, {})]
        /\ UNCHANGED <<exchange, blocks, swapCount>>

ExpireOffered(s) ==
    LET b == job[s].mem.offered
        rest == job[s].todo \ {job[s].x}
    IN  /\ At(s, "expire_offered")
        /\ Release(b, book[b].owner)
        /\ IF rest = {} THEN Done(s)
           ELSE job' = [job EXCEPT
                    ![s] = Serving("expire_conditions", None, None, NoRow,
                                   rest, {})]
        /\ UNCHANGED <<exchange, blocks, swapCount>>

-----------------------------------------------------------------------------
(* exchanges.auto_confirm_stale_swaps: a pass over the exchanges only the    *)
(* requester confirmed, a pass over those only the owner confirmed, then one *)
(* UPDATE of the swap counts.  Any confirmation may be 60 days old.          *)

\* Mutant: the list asks only that the owner has not confirmed.
RequesterOnlyLoose(x) == /\ exchange[x].status = "active"
                         /\ exchange[x].owner \notin exchange[x].confirmed

RequesterOnly(x) == /\ exchange[x].status = "active"
                    /\ exchange[x].confirmed = {exchange[x].requester}

\* Mutant: the second pass repeats the filter of the first.
OwnerOnlyCopied(x) == /\ exchange[x].status = "active"
                      /\ exchange[x].confirmed = {exchange[x].requester}

OwnerOnly(x) == /\ exchange[x].status = "active"
                /\ exchange[x].confirmed = {exchange[x].owner}

AutoRequesterOnlyList(T) ==
    /\ Free("auto_confirm_stale_swaps")
    /\ \A x \in T : RequesterOnly(x)
    /\ \E x \in Exchanges : RequesterOnly(x) \/ OwnerOnly(x)
    /\ job' = [job EXCEPT !["auto_confirm_stale_swaps"] =
           Serving("auto_requester_only", None, None, NoRow, T, {})]
    /\ UNCHANGED <<exchange, book, blocks, swapCount>>

\* One listed exchange: the missing confirmation and the new status are saved
\* from the instance as it was listed.
AutoConfirm(s, x, u) ==
    /\ x \in job[s].todo
    /\ RowFree(x)
    /\ exchange' = [exchange EXCEPT ![x].confirmed = @ \cup {u},
                                    ![x].status = "swap_confirmed"]
    /\ job' = [job EXCEPT ![s].todo = @ \ {x},
                          ![s].users = @ \cup Parties(x)]
    /\ UNCHANGED <<book, blocks, swapCount>>

AutoRequesterOnlySave(s, x) ==
    At(s, "auto_requester_only") /\ AutoConfirm(s, x, exchange[x].owner)

AutoOwnerOnlyList(s, T) ==
    /\ At(s, "auto_requester_only")
    /\ job[s].todo = {}
    /\ \A x \in T : OwnerOnly(x)
    /\ job' = [job EXCEPT ![s].pc = "auto_owner_only", ![s].todo = T]
    /\ UNCHANGED <<exchange, book, blocks, swapCount>>

AutoOwnerOnlySave(s, x) ==
    At(s, "auto_owner_only") /\ AutoConfirm(s, x, exchange[x].requester)

\* affected_user_ids is a set: each user in it is counted once.
AutoCount(s) ==
    /\ At(s, "auto_owner_only")
    /\ job[s].todo = {}
    /\ \A u \in job[s].users : UserFree(u)
    /\ swapCount' = [u \in Users |-> IF u \in job[s].users THEN swapCount[u] + 1
                                                          ELSE swapCount[u]]
    /\ Done(s)
    /\ UNCHANGED <<exchange, book, blocks>>

-----------------------------------------------------------------------------

FulfilmentRequest(s) ==
    \E u \in Users, x \in Exchanges :
        \/ ConditionsRead(s, u, x)
        \/ CompleteRead(s, u, x)
        \/ RequestReturnRead(s, u, x)
        \/ ConfirmReturnRead(s, u, x)

\* The later statements of a request or a task.
FulfilmentStep(s) ==
    \/ ConditionsInsert(s) \/ ConditionsCount(s) \/ ConditionsSave(s)
    \/ CompleteSave(s) \/ CompleteRequested(s) \/ CompleteOffered(s)
    \/ RequestReturnSave(s)
    \/ ReturnRequested(s) \/ ReturnOffered(s) \/ ReturnSave(s)
    \/ ExpireRequested(s) \/ ExpireOffered(s)
    \/ AutoCount(s)
    \/ \E x \in Exchanges :
          \/ ExpireConditionsSave(s, x)
          \/ AutoRequesterOnlySave(s, x)
          \/ AutoOwnerOnlySave(s, x)
    \/ \E T \in SUBSET Exchanges : AutoOwnerOnlyList(s, T)

FulfilmentNext ==
    \/ \E s \in Workers : FulfilmentRequest(s)
    \/ \E s \in Slots : FulfilmentStep(s)
    \/ \E u \in Users, x \in Exchanges : ConfirmSwap(u, x)
    \/ \E T \in SUBSET Exchanges :
          ExpireConditionsList(T) \/ AutoRequesterOnlyList(T)

\* The state an accepted request leaves behind: exchanges of different books,
\* each accepted, with its two books in exchange.
AcceptedRow(b, o, permanent) ==
    NewRow("accepted", Shelf[o], Shelf[b], b, o, permanent)

FulfilmentInit ==
    /\ exchange \in [Exchanges -> {AcceptedRow(b, o, permanent) :
           b \in Books, o \in Books, permanent \in SwapTypes}]
    /\ \A x, y \in Exchanges :
           /\ exchange[x].requester # exchange[x].owner
           /\ x # y => BooksOf(x) \cap BooksOf(y) = {}
    /\ book = [b \in Books |->
           [owner |-> Shelf[b],
            status |-> IF \E x \in Exchanges : b \in BooksOf(x)
                       THEN "in_exchange" ELSE "available"]]
    /\ blocks = {}
    /\ swapCount = [u \in Users |-> 0]
    /\ job = [s \in Slots |-> Idle]

FulfilmentSpec ==
    FulfilmentInit /\ [][FulfilmentNext \/ \E s \in Slots : Crash(s)]_vars

-----------------------------------------------------------------------------
(* Fairness, as in Negotiation: statements weakly, the rows a task lists     *)
(* strongly; the weekly task starts whenever there is something to confirm.  *)

FulfilmentFairness ==
    /\ \A s \in Slots : WF_vars(FulfilmentStep(s))
    /\ WF_vars(\E T \in SUBSET Exchanges : AutoRequesterOnlyList(T))
    /\ \A x \in Exchanges :
          /\ SF_vars(\E T \in SUBSET Exchanges :
                        x \in T /\ ExpireConditionsList(T))
          /\ SF_vars(\E T \in SUBSET Exchanges :
                        x \in T /\ AutoRequesterOnlyList(T))
          /\ SF_vars(\E T \in SUBSET Exchanges, s \in Slots :
                        x \in T /\ AutoOwnerOnlyList(s, T))

-----------------------------------------------------------------------------
(* Properties. *)

\* An exchange is active, and everything after it, only if both parties
\* accepted the conditions, whatever stale instance a request saves.
\* (accept_conditions, views.py)
ActiveNeedsBothConditions ==
    \A x \in Exchanges :
        exchange[x].status \in Swapped \cup {"active"} =>
            exchange[x].accepted = Parties(x)

\* An exchange counts as swapped only if both confirmations are recorded, by
\* the parties or by the weekly task.  (confirm_swap, auto_confirm_stale_swaps)
SwappedNeedsBothConfirmations ==
    \A x \in Exchanges :
        exchange[x].status \in Swapped => exchange[x].confirmed = Parties(x)

\* No recorded acceptance of the conditions and no confirmation of the swap
\* is ever lost to a concurrent save (ADV-202, confirm_swap's docstring).
ConfirmationsKept ==
    [][\A x \in Exchanges :
          /\ exchange[x].accepted \subseteq exchange'[x].accepted
          /\ exchange[x].confirmed \subseteq exchange'[x].confirmed]_vars

\* A book changes hands only by a permanent exchange of that book which both
\* parties confirmed, and goes to the party that asked for it or was offered
\* it; a return leaves it on its shelf.  (complete, confirm_return)
Receives(x, b, u) ==
    \/ b = exchange[x].requested /\ u = exchange[x].requester
    \/ b = exchange[x].offered /\ u = exchange[x].owner

OwnershipMovesBySwap ==
    [][\A b \in Books : book'[b].owner # book[b].owner =>
          \E x \in Exchanges : /\ exchange[x].permanent
                               /\ exchange[x].confirmed = Parties(x)
                               /\ Receives(x, b, book'[b].owner)]_vars

\* Requests served one at a time: an exchange is returned exactly when both
\* parties confirmed the return and no save of it is outstanding.
\* (confirm_return)
ReturnedByBoth ==
    \A x \in Exchanges :
        /\ exchange[x].status = "returned" => exchange[x].returned = Parties(x)
        /\ exchange[x].returned = Parties(x) /\ exchange[x].status # "absent"
           => exchange[x].status = "returned"

\* Requests served one at a time: nobody is credited with more swaps than
\* exchanges of theirs were swapped.  (confirm_swap, auto_confirm_stale_swaps)
SwapsOf(u) ==
    {x \in Exchanges : u \in Parties(x) /\ exchange[x].status \in Swapped}

SwapCountBounded ==
    \A u \in Users : swapCount[u] <= Cardinality(SwapsOf(u))

\* Every accepted exchange eventually becomes active or ends, for good, even
\* if stale saves throw it back.  (accept_conditions, expire_stale_conditions)
ConditionsSettle ==
    \A x \in Exchanges :
        exchange[x].status = "accepted" ~>
            [](exchange[x].status \notin {"accepted", "conditions_pending"})

\* Once one party has confirmed an active swap, the exchange does not stay
\* active: the other confirms, or the weekly task fills in the confirmation.  (auto_confirm_stale_swaps)
SwapsSettle ==
    \A x \in Exchanges :
        exchange[x].status = "active" /\ exchange[x].confirmed # {} ~>
            exchange[x].status # "active"

=============================================================================
