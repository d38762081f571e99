-------------------------------- MODULE MCScreens -------------------------------
(***************************************************************************)
(* A small instance of MobileNavigation for TLC.                            *)
(***************************************************************************)
EXTENDS MobileNavigation, TLC

=============================================================================
