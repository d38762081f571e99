-------------------------------- MODULE MCMobile -------------------------------
(***************************************************************************)
(* Small instances of MobileClient for TLC.                                 *)
(***************************************************************************)
EXTENDS MobileClient, TLC

CONSTANTS alice, bob, m1, m2, d1, d2

TwoUsers == {alice, bob}
TwoMutations == {m1, m2}
TwoDrains == {d1, d2}

Symmetry == Permutations(TwoUsers) \cup Permutations(TwoMutations)
            \cup Permutations(TwoDrains)

=============================================================================
