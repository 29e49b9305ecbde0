--------------------------- MODULE MCTaskSchedule ---------------------------
(***************************************************************************)
(* TaskSchedule for TLC: the bounds are in the configurations.  One task is *)
(* enough for the passing run: two tasks meet only in the file, and there   *)
(* only when operations overlap, where its properties are silent.           *)
(***************************************************************************)
EXTENDS TaskSchedule

CONSTANTS t1, t2

\* Nobody touches a task after its creation: its firings alone are looked at.
OnlyCreated == \A o \in Busy : ops[o].tick \/ ops[o].kind = "create"
=============================================================================
