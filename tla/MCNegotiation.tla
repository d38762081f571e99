----------------------------- MODULE MCNegotiation -----------------------------
(***************************************************************************)
(* Small instances of Negotiation for TLC.                                  *)
(***************************************************************************)
EXTENDS ExchangeScreens, TLC

CONSTANTS u1, u2, a1, a2, b1, w1, w2, x1, x2

\* Two users, three books: u2 can counter with the second book of u1.
TwoUsers == {u1, u2}
ThreeBooks == {a1, a2, b1}
ThreeBookShelf == a1 :> u1 @@ a2 :> u1 @@ b1 :> u2

\* Workers and primary keys are interchangeable.
Symmetry == Permutations({w1, w2}) \cup Permutations({x1, x2})

=============================================================================
