---------------------------- MODULE MCModelStream ----------------------------
(***************************************************************************)
(* ModelStream for TLC; the bounds are in the configuration.               *)
(***************************************************************************)
EXTENDS ModelStream
=============================================================================
