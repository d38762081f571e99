------------------------------ MODULE MCWebSession ------------------------------
(***************************************************************************)
(* A small instance of WebSession for TLC: two accounts, one tab that is    *)
(* followed step by step and the others of its browser.                     *)
(***************************************************************************)
EXTENDS WebSession, TLC

CONSTANTS alice, bob, t1

=============================================================================
