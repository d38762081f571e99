-------------------------------- MODULE MCQueries -------------------------------
(***************************************************************************)
(* Every pair of a query and a mutation of both clients, with two calls of  *)
(* the mutation, a lost connection, a logout and a killed app.              *)
(***************************************************************************)
EXTENDS QueryCache, TLC

CONSTANTS alice, c1, c2

Mobile == INSTANCE MobileQueries
Web    == INSTANCE WebQueries

\* Pairs the hooks treat alike are the same case.
ClientCases == Mobile!MobileCases \cup Web!WebCases

=============================================================================
