------------------------------ MODULE MCFulfilment ------------------------------
(***************************************************************************)
(* A small instance of Fulfilment for TLC, starting from an accepted        *)
(* exchange between u1 and u2.                                              *)
(***************************************************************************)
EXTENDS ExchangeScreens, TLC

CONSTANTS u1, u2, a1, b1, w1, w2

TwoUsers == {u1, u2}

\* One exchange.
TwoBooks == {a1, b1}
TwoBookShelf == a1 :> u1 @@ b1 :> u2

\* The two users, each with a book, and the two workers are interchangeable.
Symmetry ==
    Permutations({w1, w2}) \cup
    {f \in Permutations({u1, u2, a1, b1}) :
        /\ f[u1] \in {u1, u2} /\ f[a1] \in {a1, b1}
        /\ f[u1] = u1 <=> f[a1] = a1}

=============================================================================
