-------------------------------- MODULE MCSystem -------------------------------
(***************************************************************************)
(* Small instances of ExchangeSystem for TLC.                               *)
(***************************************************************************)
EXTENDS Documented, TLC

CONSTANTS u1, u2, a1, a2, b1, x1, x2

TwoUsers == {u1, u2}

\* One book each.
TwoBooks == {a1, b1}
TwoBookShelf == a1 :> u1 @@ b1 :> u2

\* u1 has a second book, so that u2 can counter with it.
ThreeBooks == {a1, a2, b1}
ThreeBookShelf == a1 :> u1 @@ a2 :> u1 @@ b1 :> u2

\* Primary keys are interchangeable, and so are the two books of u1.
Symmetry == Permutations({x1, x2}) \cup Permutations({a1, a2})

=============================================================================
