-------------------------- MODULE MCSessionHistory --------------------------
(***************************************************************************)
(* SessionHistory for TLC: the bounds are in the configurations.           *)
(***************************************************************************)
EXTENDS SessionHistory
=============================================================================
