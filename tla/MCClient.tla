------------------------------ MODULE MCClient ------------------------------
(***************************************************************************)
(* Values of the constants of Client for TLC.                              *)
(***************************************************************************)
EXTENDS Client

CONSTANTS h1

OneHost == {h1}
=============================================================================
