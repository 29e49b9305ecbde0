------------------------------ MODULE MCTaskRun ------------------------------
(***************************************************************************)
(* TaskRun for TLC: a prompt with a session of its own and a silent or a    *)
(* talking workflow; the bounds are in the configurations.                  *)
(***************************************************************************)
EXTENDS TaskRun

CONSTANTS p, w
=============================================================================
