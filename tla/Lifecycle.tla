------------------------------- MODULE Lifecycle -------------------------------
(***************************************************************************)
(* What an exchange promises: its status moves along VALID_TRANSITIONS, one *)
(* edge at a time, and an ended exchange never comes back.  The one edge    *)
(* the table does not list is the block's: it cancels active exchanges too. *)
(***************************************************************************)
EXTENDS ExchangeStatus

CONSTANT Exchanges

VARIABLE status

Edges(st) ==
    IF st = "absent" THEN {"pending"}
    ELSE IF st = "active" THEN VALID_TRANSITIONS[st] \cup {"cancelled"}
    ELSE VALID_TRANSITIONS[st]

Init == status = [x \in Exchanges |-> "absent"]

\* One request or task may move several exchanges: accepting one declines its
\* rivals, a block cancels all exchanges of a pair.
Move(S) ==
    /\ S # {}
    /\ \A x \in S : status'[x] \in Edges(status[x])
    /\ \A x \in Exchanges \ S : status'[x] = status[x]
    /\ DOMAIN status' = Exchanges

Next == \E S \in SUBSET Exchanges : Move(S)

Spec == Init /\ [][Next]_status

=============================================================================
