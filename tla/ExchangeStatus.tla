---------------------------- MODULE ExchangeStatus ----------------------------
(***************************************************************************)
(* The statuses of an exchange request and the table of the transitions     *)
(* between them, as apps/exchanges/models.py declares them.                 *)
(***************************************************************************)

\* A row that has not been inserted yet has the status "absent".
Statuses ==
    {"absent", "pending", "accepted", "conditions_pending", "active",
     "swap_confirmed", "completed", "declined", "cancelled", "expired",
     "return_requested", "returned"}

VALID_TRANSITIONS ==
    [st \in Statuses |->
        CASE st = "pending" ->
                {"accepted", "declined", "cancelled", "expired"}
          [] st = "accepted" -> {"conditions_pending", "cancelled", "expired"}
          [] st = "conditions_pending" -> {"active", "cancelled", "expired"}
          [] st = "active" -> {"swap_confirmed"}
          [] st = "swap_confirmed" -> {"completed", "return_requested"}
          [] st = "return_requested" -> {"returned"}
          [] OTHER -> {}]

\* The statuses in which an exchange holds its two books.
Holding ==
    {"accepted", "conditions_pending", "active", "swap_confirmed",
     "return_requested"}

\* The statuses reached only after both parties confirmed the handover.
Swapped == {"swap_confirmed", "completed", "return_requested", "returned"}

\* What the create serializer counts as over (terminal_statuses).
Terminal == {"cancelled", "expired", "declined", "completed", "returned"}

\* Mutant: the block forgets the exchanges that were accepted.
CancelablePending == {"pending"}

\* What blocking a user cancels (cancelable).
Cancelable == {"pending", "accepted", "conditions_pending", "active"}

\* ExchangeRequest.COMPLETED_STATUSES
COMPLETED_STATUSES == {"completed", "returned"}

=============================================================================
