----------------------------- MODULE ExchangeSystem ----------------------------
(***************************************************************************)
(* The whole exchange backend: negotiation, fulfilment, blocks and tasks on *)
(* the same tables, served by the same workers.                             *)
(***************************************************************************)
EXTENDS Negotiation, Fulfilment

Init == NegotiationInit

Next ==
    \/ NegotiationNext
    \/ FulfilmentNext
    \/ \E s \in Slots : Crash(s)

Spec == Init /\ [][Next]_vars

FairSpec == Spec /\ NegotiationFairness /\ FulfilmentFairness

-----------------------------------------------------------------------------
(* Properties. *)

\* The statements that release the books of x are still to come.
Releasing(x) ==
    \E s \in Slots :
        /\ job[s].x = x
        /\ job[s].pc \in {"complete_requested", "complete_offered",
                          "return_requested", "return_offered", "return_save",
                          "expire_requested", "expire_offered"}

\* Requests served one at a time: no book stays in exchange without a reason:
\* an exchange that holds it, one whose release is under way, or one that a
\* block cancelled.  (accept, complete, confirm_return,
\* expire_stale_conditions; a block does not release)
LockedBooksAccountedFor ==
    \A b \in Books : book[b].status = "in_exchange" =>
        \E x \in Exchanges :
            /\ b \in BooksOf(x)
            /\ \/ exchange[x].status \in Holding \cup {"cancelled"}
               \/ Releasing(x)

\* Requests served one at a time: as long as no other exchange with the same
\* book was accepted, the books of an exchange in progress are off the market.
\* (accept; complete, confirm_return, expire_stale_conditions)
HeldBooksLocked ==
    \A x \in Exchanges : \A b \in BooksOf(x) :
        /\ exchange[x].status \in Holding
        /\ ~Releasing(x)
        /\ \A y \in Exchanges \ {x} :
              b \in BooksOf(y) =>
                  exchange[y].status \in {"pending", "declined", "cancelled"}
        => book[b].status = "in_exchange"

-----------------------------------------------------------------------------
(* Served one at a time, the rows follow the abstract life cycle. *)

L == INSTANCE Lifecycle WITH status <- [x \in Exchanges |-> exchange[x].status]

LifecycleSpec == L!Spec

=============================================================================
