--------------------------- MODULE MCSessionStream ---------------------------
(***************************************************************************)
(* SessionStream for TLC: one session that is kept, one that is temporary,  *)
(* and one workflow run; the bounds are in the configurations.              *)
(***************************************************************************)
EXTENDS SessionStream

CONSTANTS s1, s2, f1
=============================================================================
