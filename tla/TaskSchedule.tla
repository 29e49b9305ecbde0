---------------------------- MODULE TaskSchedule ----------------------------
(***************************************************************************)
(* When scheduled tasks fire: the timer of the Scheduler, the registry it  *)
(* looks at, the tasks' file, the operations that rewrite that file (the   *)
(* timer's own, and create, update, pause, resume and delete from the API  *)
(* and the tools), and the updater that reads it after each change.        *)
(*                                                                         *)
(* An operation of JsonScheduledTaskRepository reads the file, waits, and  *)
(* writes all tasks back; an update reads it twice.  Nothing serialises    *)
(* them.  A cron task is due at every unit of time.                        *)
(***************************************************************************)
EXTENDS ScheduledTasks, Naturals, Sequences, FiniteSets, SequencesExt, Functions

CONSTANTS
    Slots,      \* bound: operations on the file in flight at a time
    MaxTime,    \* bound: the last moment of the clock
    MaxReads,   \* bound: handlers of the updater in flight at a time
    MaxOps,     \* bound: operations asked for by the API or a tool
    Crashes     \* whether the process may crash

Times == 0..MaxTime + 1

\* The fields of a task that decide when it fires: at is nextFireAt, which for a
\* task that is not cron is schedule.at.
Task == [cron : BOOLEAN, at : Times, enabled : BOOLEAN]
Content == [Tasks -> Task \cup {None}]

ASSUME TaskScheduleAssumption ==
    /\ {MaxTime, MaxReads, MaxOps} \subseteq Nat
    /\ Crashes \in BOOLEAN
    /\ None \notin Task /\ Torn \notin Content

VARIABLES
    alive,        \* the process runs
    now,       \* the clock
    registry,  \* ScheduledTaskRegistry
    file,      \* the tasks' file
    ops,       \* the operations on it
    changed,   \* the watcher owes the updater an event
    reads,     \* what each handler of the updater has read
    prints,    \* ScheduledTaskUpdater.fingerprints
    requests,     \* operations the API or a tool has asked for so far
    orders,    \* history: what the callers of the API were last told of a task
    fired,     \* history: the occurrences of a task that fired
    faults,    \* history: firings again for an occurrence, or against orders
    calm,      \* history: no two operations or handlers were under way at once
    whole      \* history: no crash came in the middle of one

clock == <<alive, now>>
updater == <<changed, reads, prints>>
timerHistory == <<orders, fired, faults>>
timerVars == <<clock, registry, file, ops, updater, requests, timerHistory, calm, whole>>

OpPhases == {"find", "load", "write"}
NoOp == [task |-> None]
Op == [kind   : {"create", "patch", "delete"},
       task   : Tasks,
       fields : SUBSET {"at", "enabled", "cron"},  \* what a patch changes
       to     : Task \cup {None},                  \* the task after it
       tick   : BOOLEAN,                           \* asked for by the timer
       phase  : OpPhases,
       found  : Task \cup {None},                  \* what findById returned
       data   : Content \cup {None},               \* what is being written
       mixed  : BOOLEAN]                           \* another write is under way

TimerTypeOK ==
    /\ {alive, changed, calm, whole} \subseteq BOOLEAN
    /\ now \in 0..MaxTime
    /\ registry \in Content
    /\ file \in Content \cup {Torn}
    /\ ops \in [Slots -> Op \cup {NoOp}]
    /\ reads \in Seq(Content) /\ Len(reads) <= MaxReads
    /\ prints \in Content
    /\ requests \in 0..MaxOps
    /\ orders \in [Tasks -> {"new", "asked", "on", "paused", "gone"}]
    /\ fired \in [Tasks -> SUBSET Times]
    /\ faults \subseteq [task : Tasks, kind : {"again", "refused"}, cron : BOOLEAN]

Nothing == [t \in Tasks |-> None]

TimerInit ==
    /\ alive = TRUE
    /\ now = 0
    /\ registry = Nothing /\ file = Nothing
    /\ ops = [o \in Slots |-> NoOp]
    /\ changed = FALSE /\ reads = <<>> /\ prints = Nothing
    /\ requests = 0
    /\ orders = [t \in Tasks |-> "new"]
    /\ fired = [t \in Tasks |-> {}]
    /\ faults = {}
    /\ calm = TRUE /\ whole = TRUE

Busy == {o \in Slots : ops[o] # NoOp}
Quiet == Busy = {} /\ reads = <<>>
Writing == {o \in Busy : ops[o].phase = "write"}

-----------------------------------------------------------------------------
(***************************************************************************)
(* Operations on the tasks' file.                                          *)
(***************************************************************************)
NewOp(kind, t, fields, to, tick) ==
    [kind |-> kind, task |-> t, fields |-> fields, to |-> to, tick |-> tick,
     phase |-> IF kind = "patch" THEN "find" ELSE "load",
     found |-> None, data |-> None, mixed |-> FALSE]

Begin(new) ==
    LET free == {o \in Slots : ops[o] = NoOp} IN
    /\ Cardinality(new) <= Cardinality(free)
    /\ LET slot == CHOOSE f \in Injection(new, free) : TRUE IN
         ops' = [o \in Slots |-> IF \E op \in new : slot[op] = o
                                THEN CHOOSE op \in new : slot[op] = o ELSE ops[o]]
    /\ calm' = (calm /\ Quiet /\ \A op1, op2 \in new : op1 = op2)

\* The first read of an update; the operation throws when the task is not there.
Find(o) ==
    /\ alive /\ o \in Busy /\ ops[o].phase = "find" /\ file # Torn
    /\ LET t == ops[o].task IN
         ops' = [ops EXCEPT ![o] = IF file[t] = None THEN NoOp
                                   ELSE [@ EXCEPT !.phase = "load", !.found = file[t]]]
    /\ UNCHANGED <<clock, registry, file, updater, requests, timerHistory, calm, whole>>

\* What an operation makes of the tasks it has read.
Rewritten(op, tasks) ==
    [tasks EXCEPT ![op.task] =
       CASE op.kind = "delete" -> None
         [] op.kind = "create" -> op.to
         [] OTHER -> [cron    |-> IF "cron" \in op.fields THEN op.to.cron ELSE op.found.cron,
                      at      |-> IF "at" \in op.fields THEN op.to.at ELSE op.found.at,
                      enabled |-> IF "enabled" \in op.fields THEN op.to.enabled
                                  ELSE op.found.enabled]]

\* The read right before the write, and the start of the write.
Load(o) ==
    /\ alive /\ o \in Busy /\ ops[o].phase = "load" /\ file # Torn
    /\ ops' = [p \in Slots |->
         IF p = o THEN [ops[o] EXCEPT !.phase = "write", !.data = Rewritten(ops[o], file),
                                      !.mixed = (Writing # {})]
         ELSE IF p \in Writing THEN [ops[p] EXCEPT !.mixed = TRUE] ELSE ops[p]]
    /\ UNCHANGED <<clock, registry, file, updater, requests, timerHistory, calm, whole>>

\* Half a file, while another operation writes it or since two did, is an error.
ReadFails(o) ==
    /\ alive /\ o \in Busy /\ ops[o].phase # "write"
    /\ file = Torn \/ Writing # {}
    /\ ops' = [ops EXCEPT ![o] = NoOp]
    /\ UNCHANGED <<clock, registry, file, updater, requests, timerHistory, calm, whole>>

\* The write has ended.  The API and the tools now put the task into the registry
\* as they saw it when they began, or take it out; the timer did so at once.
Written(o) ==
    LET op == ops[o] IN
    /\ alive /\ o \in Writing
    /\ file' \in {op.data} \cup (IF op.mixed THEN {Torn} ELSE {})
    /\ ops' = [ops EXCEPT ![o] = NoOp]
    /\ changed' = TRUE
    /\ registry' = IF op.tick THEN registry ELSE [registry EXCEPT ![op.task] = op.to]
    /\ orders' = IF op.tick THEN orders
                 ELSE [orders EXCEPT ![op.task] =
                         IF op.to = None THEN "gone" ELSE IF op.to.enabled THEN "on" ELSE "paused"]
    /\ fired' = IF "cron" \in op.fields THEN [fired EXCEPT ![op.task] = {}] ELSE fired
    /\ UNCHANGED <<clock, reads, prints, requests, faults, calm, whole>>

-----------------------------------------------------------------------------
(***************************************************************************)
(* The timer.                                                              *)
(***************************************************************************)
Due(t) == registry[t] # None /\ registry[t].enabled /\ registry[t].at <= now

\* History of the firings.
Fires(due) ==
    /\ fired' = [t \in Tasks |-> fired[t] \cup {registry[u].at : u \in due \cap {t}}]
    /\ faults' = faults \cup
         {f \in [task : due, kind : {"again", "refused"}, cron : BOOLEAN] :
            /\ f.cron = registry[f.task].cron
            /\ IF f.kind = "again" THEN registry[f.task].at \in fired[f.task]
               ELSE orders[f.task] \in {"paused", "gone"}}
    /\ UNCHANGED orders

\* A timer that leaves a task that is to fire once in the registry.
BadRescheduled(t) ==
    IF registry[t].cron THEN [registry[t] EXCEPT !.at = now + 1] ELSE registry[t]

\* The registry's entry of a task that fires: a cron task is due again after now,
\* however many occurrences passed since it was due.
Rescheduled(t) ==
    IF registry[t].cron THEN [registry[t] EXCEPT !.at = now + 1] ELSE None

\* The tasks that are due fire one after the other with no wait in between.
Tick ==
    LET due == {t \in Tasks : Due(t)} IN
    /\ alive /\ due # {}
    /\ Fires(due)
    /\ registry' = [t \in Tasks |-> IF t \in due THEN Rescheduled(t) ELSE registry[t]]
    /\ Begin({NewOp(IF registry[t].cron THEN "patch" ELSE "delete", t, {"at"}, Rescheduled(t), TRUE) :
                 t \in due})
    /\ UNCHANGED <<clock, file, updater, requests, whole>>

-----------------------------------------------------------------------------
(***************************************************************************)
(* The API and the schedule tools.                                         *)
(***************************************************************************)
Ask(op) ==
    /\ alive
    /\ requests < MaxOps /\ requests' = requests + 1
    /\ orders' = [orders EXCEPT ![op.task] = IF @ = "new" THEN "asked" ELSE @]
    /\ Begin({op})
    /\ UNCHANGED <<clock, registry, file, updater, fired, faults, whole>>

\* The first occurrence of a schedule: computeInitialNextFireAt.
Initial(cron, at) == IF cron THEN now + 1 ELSE at

\* Ids are random, so a task is created once.
Create(t, cron, at) ==
    /\ orders[t] = "new"
    /\ Ask(NewOp("create", t, {}, [cron |-> cron, at |-> Initial(cron, at), enabled |-> TRUE], FALSE))

\* A new schedule; the tool without one keeps nextFireAt as the registry has it.
Update(t, cron, at) ==
    LET old == registry[t] IN
    /\ old # None
    /\ \E new \in {[old EXCEPT !.cron = cron, !.at = Initial(cron, at)], old} :
         Ask(NewOp("patch", t, {"at", "enabled", "cron"}, new, FALSE))

Pause(t) ==
    /\ registry[t] # None
    /\ Ask(NewOp("patch", t, {"enabled"}, [registry[t] EXCEPT !.enabled = FALSE], FALSE))

\* A resumption that leaves the next occurrence as it was in the file.
BadResume(t) ==
    LET old == registry[t] IN
    /\ old # None
    /\ Ask(NewOp("patch", t, {"enabled"},
                 [old EXCEPT !.at = Initial(old.cron, old.at), !.enabled = TRUE], FALSE))

\* The occurrences of the pause are not made up for.
Resume(t) ==
    LET old == registry[t] IN
    /\ old # None
    /\ Ask(NewOp("patch", t, {"at", "enabled"},
                 [old EXCEPT !.at = Initial(old.cron, old.at), !.enabled = TRUE], FALSE))

Delete(t) ==
    /\ registry[t] # None
    /\ Ask(NewOp("delete", t, {}, None, FALSE))

-----------------------------------------------------------------------------
(***************************************************************************)
(* The updater: the watcher reports a change, the handler reads the file,  *)
(* and takes over the tasks it has not seen like this before.              *)
(***************************************************************************)
Notice ==
    /\ alive /\ changed /\ Len(reads) < MaxReads
    /\ changed' = FALSE
    /\ \/ file # Torn /\ reads' = Append(reads, file)
       \/ (file = Torn \/ Writing # {}) /\ UNCHANGED reads
    /\ calm' = (calm /\ Quiet)
    /\ UNCHANGED <<clock, registry, file, ops, prints, requests, timerHistory, whole>>

\* ScheduledTaskUpdater.handleUpsert after its read.
Apply(i) ==
    LET tasks == reads[i] IN
    /\ alive
    /\ registry' = [t \in Tasks |->
         IF tasks[t] = None THEN None
         ELSE IF tasks[t] = prints[t] THEN registry[t]
         ELSE tasks[t]]
    /\ prints' = [t \in Tasks |->
         IF tasks[t] # None THEN tasks[t]
         ELSE IF registry[t] # None THEN None
         ELSE prints[t]]
    /\ reads' = RemoveAt(reads, i)
    /\ UNCHANGED <<clock, file, ops, changed, requests, timerHistory, calm, whole>>

-----------------------------------------------------------------------------
Passes ==
    /\ now < MaxTime /\ now' = now + 1
    /\ UNCHANGED <<alive, registry, file, ops, updater, requests, timerHistory, calm, whole>>

\* The process dies; a write under way reached the file, did not, or tore it.
TimerCrash ==
    /\ Crashes /\ alive /\ alive' = FALSE
    /\ file' \in {file} \cup {ops[o].data : o \in Writing} \cup (IF Writing = {} THEN {} ELSE {Torn})
    /\ ops' = [o \in Slots |-> NoOp]
    /\ registry' = Nothing /\ changed' = FALSE /\ reads' = <<>> /\ prints' = Nothing
    /\ whole' = (whole /\ Quiet)
    /\ UNCHANGED <<now, requests, timerHistory, calm>>

\* Bootstrap registers what the file holds; it throws when the file is torn.
Boot ==
    /\ ~alive /\ file # Torn
    /\ alive' = TRUE
    /\ registry' = file
    /\ UNCHANGED <<now, file, ops, updater, requests, timerHistory, calm, whole>>

TimerNext ==
    \/ \E o \in Slots : Find(o) \/ Load(o) \/ ReadFails(o) \/ Written(o)
    \/ \E t \in Tasks : Pause(t) \/ Resume(t) \/ Delete(t)
    \/ \E t \in Tasks, cron \in BOOLEAN, at \in Times : Create(t, cron, at) \/ Update(t, cron, at)
    \/ Notice \/ \E i \in DOMAIN reads : Apply(i)
    \/ Tick \/ Passes \/ TimerCrash \/ Boot

TimerSpec == TimerInit /\ [][TimerNext]_timerVars

-----------------------------------------------------------------------------
(***************************************************************************)
(* Properties.                                                             *)
(***************************************************************************)

\* When nothing is under way the timer goes by what the file says, as a restart
\* would: also after a crash in the middle of an operation or of a handler of the
\* updater, which compares what it reads with what it took over last and not with
\* the registry; provided that no two of those who use the file met.
Converges == alive /\ calm /\ Quiet /\ ~changed => registry = file

\* The registry is well formed at all times and equal to the file in the end.
TimerIsTrue == TimerTypeOK /\ Converges

\* No task fires twice for an occurrence, nor after its caller was told that it is
\* paused or deleted, through updates of the task, restarts, and the updater that
\* comes after each change; provided that no two of those who use the file met
\* and that no crash came between a firing and the end of its write.
FiresAsOrdered == calm /\ whole => faults = {}

\* The schedule skill on one-off reminders: a task fires exactly once, then it is
\* gone; at least if no crash came between a firing and the end of its write.
FiresExactlyOnce == whole => ~ \E f \in faults : f.kind = "again" /\ ~f.cron
=============================================================================
