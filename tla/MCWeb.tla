---------------------------------- MODULE MCWeb ---------------------------------
(***************************************************************************)
(* A small instance of WebNavigation for TLC.                               *)
(***************************************************************************)
EXTENDS WebNavigation, TLC

=============================================================================
