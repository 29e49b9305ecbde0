--------------------------- MODULE ScheduledTasks ---------------------------
(***************************************************************************)
(* What the two halves of the Scheduler have in common: TaskSchedule says   *)
(* when a task fires, TaskRun what becomes of it then.                      *)
(***************************************************************************)
CONSTANTS
    Tasks,  \* task ids
    None,   \* an absent entry, object or file
    Torn    \* a file that does not parse
=============================================================================
