------------------------------- MODULE Documented ------------------------------
(***************************************************************************)
(* What the documentation, the comments and the tests of the repository say *)
(* of exchanges and the code does not keep.  MCSystem extends this module:  *)
(* put a statement in the place of the properties of a configuration, and   *)
(* TLC shows how it fails (README, "Where the code departs").               *)
(***************************************************************************)
EXTENDS ExchangeSystem

\* "... both books return to Available" when an exchange is cancelled
\* (User Stories, US-504).  A block cancels and leaves them in exchange.
NoBookStranded ==
    \A b \in Books : book[b].status = "in_exchange" =>
        \E x \in Exchanges :
            b \in BooksOf(x) /\ (exchange[x].status \in Holding \/ Releasing(x))

\* "Lock both books so they can't be requested by others" (accept, views.py);
\* a request whose offered book was accepted elsewhere is auto-cancelled (User
\* Stories, US-501).  A book requested here and offered there is not noticed.
NoDoubleBooking ==
    \A x, y \in Exchanges :
        /\ exchange[x].status \in Holding
        /\ exchange[y].status \in Holding
        /\ BooksOf(x) \cap BooksOf(y) # {}
        => x = y

\* "After BOTH accept: exchange moves to ACTIVE state" (User Stories, US-503).
\* Two overlapping requests both read accepted, and neither activates it.
BothAcceptedIsActive ==
    \A x \in Exchanges :
        exchange[x].status \in {"accepted", "conditions_pending"}
            /\ both_conditions_accepted(x)
        => \E s \in Slots : job[s].x = x

\* completed_at is the "timestamp when the exchange first entered a ratable
\* state" (models.py).  complete and confirm_return never write the column.
RatingWindowAnchored ==
    \A x \in Exchanges :
        exchange[x].status \in COMPLETED_STATUSES => exchange[x].completedAt

\* "Both users confirm the return happened (same two-phase confirmation as
\* US-504)" (User Stories, US-505).  A stale save erases a confirmation.
ReturnConfirmationsKept ==
    [][\A x \in Exchanges :
          exchange[x].returned \subseteq exchange'[x].returned]_vars

\* swap_count is "Total completed swaps." (bookswap/models.py).  The weekly
\* task counts a user once however many exchanges it confirms for them.
SwapCountExact ==
    job["auto_confirm_stale_swaps"] = Idle =>
        \A u \in Users : swapCount[u] = Cardinality(SwapsOf(u))

\* "You cannot approve your own counter offer." (approve_counter, views.py,
\* and its test)  An approval read before a counter-offer approves that one.
OwnCounterNotApproved ==
    \A x \in Exchanges :
        exchange[x].approvedBy # None =>
            exchange[x].approvedBy # exchange[x].counterBy

=============================================================================
