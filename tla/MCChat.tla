--------------------------------- MODULE MCChat ---------------------------------
(***************************************************************************)
(* A small instance of ChatSockets for TLC.                                 *)
(***************************************************************************)
EXTENDS ChatSockets, TLC

CONSTANTS c1, c2

TwoConns == {c1, c2}

Symmetry == Permutations(TwoConns)

=============================================================================
