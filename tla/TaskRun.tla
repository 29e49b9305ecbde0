------------------------------ MODULE TaskRun ------------------------------
(***************************************************************************)
(* What becomes of a scheduled task once it fires (TaskSchedule says when): *)
(* the execution of a prompt or of a workflow by the Scheduler, the record  *)
(* JsonScheduledTaskRunRepository keeps of it, the task's own session, the  *)
(* chat its outcome is delivered to, the deletion of each of them, and the  *)
(* recovery of the records when the process starts.                         *)
(*                                                                         *)
(* Executions overlap at every await.  Runs are numbered in the order they  *)
(* start, so a number stands for startedAt.  A session object carries the   *)
(* number of the run that created it.  A save of the chat writes a copy of  *)
(* what the chat holds when the write begins; nothing keeps two saves apart. *)
(* A definition whose name starts with Bad is a bug the code does not have, *)
(* for the checks of the properties.                                       *)
(***************************************************************************)
EXTENDS ScheduledTasks, Naturals, FiniteSets, FiniteSetsExt

CONSTANTS
    Workflow,    \* the tasks that run a workflow; the others prompt an agent
    Persistent,  \* the prompt tasks that keep one session, scheduler-<id>
    Silent,      \* the tasks without a destination
    MaxRuns,     \* bound: firings
    MaxCrashes,  \* bound: crashes
    MaxDeletes,  \* bound: deletions asked for
    Keep         \* MAX_RUNS_PER_TASK

ASSUME TaskRunAssumption ==
    /\ Workflow \cup Persistent \cup Silent \subseteq Tasks
    /\ Workflow \cap Persistent = {}
    /\ {MaxRuns, MaxCrashes, MaxDeletes} \subseteq Nat /\ Keep \in Nat \ {0}
    /\ None # Torn /\ {None, Torn} \cap Nat = {}

Runs == 1..MaxRuns
Outcomes == {"skip", "message", "error"}
Finals == {"completed", "failed", "skipped", "interrupted"}
Record == [task : Tasks, status : {"running"} \cup Finals, outcome : Outcomes \cup {None}]
Phases == {"create", "resolve", "session", "send", "stream", "deliver", "check",
           "save", "saving", "channel", "find", "write", "prune"}
Exec == [task : Tasks, phase : Phases,
         session : Runs \cup {None},               \* the session object it runs in
         status : Finals, outcome : Outcomes,      \* what completeRun will record
         early  : BOOLEAN]                         \* it returns without pruning
Idle == [phase |-> "idle"]

VARIABLES
    up,        \* "off", "recovering" or "on"
    fires,     \* runs started so far
    crashes,   \* crashes so far
    deletes,   \* deletions asked for so far
    tasks,     \* the tasks that exist (registry and tasks' file)
    exec,      \* the executions of this process
    record,    \* the run records on disk
    own,       \* SessionManager.cache at scheduler-<id>
    ownFile,   \* the tasks whose session is on disk
    chat,      \* the chat: in the cache, its messages in memory and on disk, and
               \* whether its file is about to be deleted
    copy,      \* what each run is writing into the chat's file
    deletion,  \* what is left to do of a task's deletion
    threw,     \* history: the runs whose execution threw
    killed,    \* history: the runs a crash ended, and the deletions
    caught,    \* history: the runs under way when their task was deleted
    dropped,   \* history: the tasks whose session was deleted
    early,     \* history: the runs that ended without pruning
    met        \* history: the runs that wrote the chat's file while another did

sessions == <<own, ownFile, chat, copy>>
history == <<threw, killed, caught, dropped, early, met>>
process == <<up, crashes>>
asked == <<fires, deletes>>
vars == <<process, asked, tasks, exec, record, sessions, deletion, history>>

TypeOK ==
    /\ up \in {"off", "recovering", "on"} /\ crashes \in 0..MaxCrashes
    /\ fires \in 0..MaxRuns /\ deletes \in 0..MaxDeletes
    /\ tasks \subseteq Tasks
    /\ exec \in [Runs -> Exec \cup {Idle}]
    /\ record \in [Runs -> Record \cup {None, Torn}]
    /\ own \in [Tasks -> Runs \cup {None}] /\ ownFile \subseteq Tasks
    /\ chat \in [cached : BOOLEAN, memory : SUBSET Runs,
                disk : (SUBSET Runs) \cup {None, Torn}, going : BOOLEAN]
    /\ copy \in [Runs -> (SUBSET Runs) \cup {None}]
    /\ deletion \in [Tasks -> {"none", "session", "records"}]
    /\ threw \subseteq Runs /\ caught \in [Tasks -> SUBSET Runs]
    /\ killed \subseteq Runs \cup Tasks /\ dropped \subseteq Tasks
    /\ early \subseteq Runs /\ met \subseteq Runs

Init ==
    /\ up = "on" /\ crashes = 0 /\ fires = 0 /\ deletes = 0
    /\ tasks = Tasks
    /\ exec = [r \in Runs |-> Idle]
    /\ record = [r \in Runs |-> None]
    /\ own = [t \in Tasks |-> None] /\ ownFile = {}
    /\ chat = [cached |-> TRUE, memory |-> {}, disk |-> {}, going |-> FALSE]
    /\ copy = [r \in Runs |-> None]
    /\ deletion = [t \in Tasks |-> "none"]
    /\ threw = {} /\ killed = {} /\ caught = [t \in Tasks |-> {}] /\ dropped = {}
    /\ early = {} /\ met = {}

Live == {r \in Runs : exec[r] # Idle}
Recorded(r) == record[r] \notin {None, Torn}
RecordsOf(t) == {r \in Runs : Recorded(r) /\ record[r].task = t}

-----------------------------------------------------------------------------
(***************************************************************************)
(* An execution, from await to await.                                      *)
(***************************************************************************)
At(r, phase) == up = "on" /\ r \in Live /\ exec[r].phase = phase
Go(r, phase) == exec' = [exec EXCEPT ![r].phase = phase]
Settle(r, phase, status, outcome) ==
    exec' = [exec EXCEPT ![r].phase = phase, ![r].status = status, ![r].outcome = outcome]
\* A run that cannot begin has failed; it delivers nothing and prunes nothing.
Refuse(r) ==
    exec' = [exec EXCEPT ![r].phase = "find", ![r].status = "failed",
                         ![r].outcome = "error", ![r].early = TRUE]
\* The promise of the execution rejects: it is logged, and the record stays as it is.
Throw(r) == exec' = [exec EXCEPT ![r] = Idle] /\ threw' = threw \cup {r}

HasChat(r) == exec[r].task \notin Silent

\* tick or runNow: the task comes from the registry, and a record is to be written.
Fire(t) ==
    /\ up = "on" /\ t \in tasks /\ fires < MaxRuns
    /\ fires' = fires + 1
    /\ exec' = [exec EXCEPT ![fires + 1] =
                  [task |-> t, phase |-> "create", session |-> None,
                   status |-> "completed", outcome |-> "skip", early |-> FALSE]]
    /\ UNCHANGED <<process, deletes, tasks, record, sessions, deletion, history>>

CreateRecord(r) ==
    /\ At(r, "create")
    /\ record' = [record EXCEPT ![r] =
                    [task |-> exec[r].task, status |-> "running", outcome |-> None]]
    /\ Go(r, "resolve")
    /\ UNCHANGED <<process, asked, tasks, sessions, deletion, history>>

BadResolveDestination(r) ==
    /\ At(r, "resolve")
    /\ IF HasChat(r) /\ ~chat.cached THEN exec' = [exec EXCEPT ![r] = Idle]
       ELSE IF exec[r].task \in Workflow THEN Go(r, "stream") \/ Refuse(r)
       ELSE Go(r, "session")
    /\ UNCHANGED <<process, asked, tasks, record, sessions, deletion, history>>

\* resolveDestination, and for a workflow task the lookup of its workflow.
ResolveDestination(r) ==
    /\ At(r, "resolve")
    /\ IF HasChat(r) /\ ~chat.cached THEN Refuse(r)
       ELSE IF exec[r].task \in Workflow THEN Go(r, "stream") \/ Refuse(r)
       ELSE Go(r, "session")
    /\ UNCHANGED <<process, asked, tasks, record, sessions, deletion, history>>

\* resolveExecutionSession: a session of its own, or the task's, created on first use.
ResolveSession(r) ==
    /\ At(r, "session")
    /\ LET t == exec[r].task
           keeps == t \in Persistent
           found == keeps /\ own[t] # None
       IN /\ exec' = [exec EXCEPT ![r].phase = "send",
                                  ![r].session = IF found THEN own[t] ELSE r]
          /\ own' = IF keeps /\ ~found THEN [own EXCEPT ![t] = r] ELSE own
          /\ ownFile' = IF keeps /\ ~found THEN ownFile \cup {t} ELSE ownFile
    /\ UNCHANGED <<process, asked, tasks, record, chat, copy, deletion, history>>

\* AgentDispatcher.send: the agent refuses a session that another run holds.
Send(r) ==
    /\ At(r, "send")
    /\ IF \E q \in Live : exec[q].phase = "stream" /\ exec[q].session = exec[r].session
       THEN Settle(r, "find", "skipped", "skip")
       ELSE Go(r, "stream")
    /\ UNCHANGED <<process, asked, tasks, record, sessions, deletion, history>>

\* The events end.  A failure of the agent or of a node is an outcome; one of the
\* workflow runner itself throws.
StreamEnds(r) ==
    /\ At(r, "stream")
    /\ LET next == IF HasChat(r) THEN "deliver" ELSE "find"
           flow == exec[r].task \in Workflow
       IN \/ /\ \/ HasChat(r) /\ Settle(r, next, "completed", "message")
                \/ ~(flow /\ HasChat(r)) /\ Settle(r, next, "completed", "skip")
                \/ ~flow /\ Settle(r, next, "completed", "error")
                \/ Settle(r, next, "failed", "error")
             /\ UNCHANGED threw
          \/ flow /\ Throw(r)
    /\ UNCHANGED <<process, asked, tasks, record, sessions, deletion, killed, caught, dropped, early, met>>

\* deliver: the outcome becomes a message of the chat, and the chat is saved;
\* SessionManager.save puts it (back) into the cache first.
Deliver(r) ==
    /\ At(r, "deliver")
    /\ IF exec[r].outcome = "skip"
       THEN Go(r, "channel") /\ UNCHANGED chat
       ELSE /\ Go(r, "check")
            /\ chat' = [chat EXCEPT !.memory = @ \cup {r}, !.cached = TRUE]
    /\ UNCHANGED <<process, asked, tasks, record, own, ownFile, copy, deletion, history>>

\* JsonSessionRepository.update throws when the session's file is not there, or when
\* somebody is writing it and it does not parse.
CheckChat(r) ==
    /\ At(r, "check")
    /\ IF chat.disk \in {None, Torn} THEN Throw(r) ELSE Go(r, "save") /\ UNCHANGED threw
    /\ UNCHANGED <<process, asked, tasks, record, sessions, deletion, killed, caught, dropped, early, met>>

BadSaveChat(r) ==
    /\ At(r, "save")
    /\ Go(r, "channel")
    /\ UNCHANGED <<process, asked, tasks, record, sessions, deletion, history>>

\* persist: what the chat holds is copied, and its file is emptied to be written, or
\* created.
SaveChat(r) ==
    /\ At(r, "save")
    /\ chat' = [chat EXCEPT !.disk = Torn]
    /\ copy' = [copy EXCEPT ![r] = chat.memory]
    /\ LET others == {q \in Runs : copy[q] # None} IN
         met' = IF others = {} THEN met ELSE met \cup others \cup {r}
    /\ Go(r, "saving")
    /\ UNCHANGED <<process, asked, tasks, record, own, ownFile, deletion, threw, killed, caught,
                   dropped, early>>

\* The write ends.  Those that wrote together leave the copy of one of them, or a mixture;
\* one that wrote a file that was deleted meanwhile leaves nothing.
ChatSaved(r) ==
    /\ At(r, "saving")
    /\ \E left \in {copy[r], Torn, chat.disk} :
         /\ copy[r] = None => left = chat.disk
         /\ copy[r] # None /\ r \notin met => left = copy[r]
         /\ chat' = [chat EXCEPT !.disk = left]
    /\ copy' = [copy EXCEPT ![r] = None]
    /\ Go(r, "channel")
    /\ UNCHANGED <<process, asked, tasks, record, own, ownFile, deletion, history>>

\* channel.send, which may throw (a bot that is not started, a network error).
ChannelSend(r) ==
    /\ At(r, "channel")
    /\ \/ Go(r, "find") /\ UNCHANGED threw
       \/ Throw(r)
    /\ UNCHANGED <<process, asked, tasks, record, sessions, deletion, killed, caught, dropped, early, met>>

\* completeRun: JsonScheduledTaskRunRepository.update reads the record,
FindRecord(r) ==
    /\ At(r, "find")
    /\ IF Recorded(r) THEN Go(r, "write") /\ UNCHANGED threw ELSE Throw(r)
    /\ UNCHANGED <<process, asked, tasks, record, sessions, deletion, killed, caught, dropped, early, met>>

\* and writes it, with its directory.
WriteRecord(r) ==
    /\ At(r, "write")
    /\ record' = [record EXCEPT ![r] = [task |-> exec[r].task, status |-> exec[r].status,
                                        outcome |-> exec[r].outcome]]
    /\ IF exec[r].early
       THEN exec' = [exec EXCEPT ![r] = Idle] /\ early' = early \cup {r}
       ELSE Go(r, "prune") /\ UNCHANGED early
    /\ UNCHANGED <<process, asked, tasks, sessions, deletion, threw, killed, caught, dropped, met>>

\* pruneOldest: beyond the newest Keep records, whatever their status.
Excess(t) == {r \in RecordsOf(t) : Cardinality({q \in RecordsOf(t) : q > r}) >= Keep}

Prune(r) ==
    /\ At(r, "prune")
    /\ record' = [q \in Runs |-> IF q \in Excess(exec[r].task) THEN None ELSE record[q]]
    /\ exec' = [exec EXCEPT ![r] = Idle]
    /\ UNCHANGED <<process, asked, tasks, sessions, deletion, history>>

Step(r) ==
    \/ CreateRecord(r) \/ ResolveDestination(r) \/ ResolveSession(r) \/ Send(r)
    \/ StreamEnds(r) \/ Deliver(r) \/ CheckChat(r) \/ SaveChat(r) \/ ChatSaved(r)
    \/ ChannelSend(r) \/ FindRecord(r) \/ WriteRecord(r) \/ Prune(r)

-----------------------------------------------------------------------------
(***************************************************************************)
(* Deletion of a task (the API and schedule_delete) and of a session.       *)
(***************************************************************************)
AskDelete == deletes < MaxDeletes /\ deletes' = deletes + 1

\* The task leaves the file and the registry, its session leaves the cache,
DeleteTask(t) ==
    /\ AskDelete /\ up = "on" /\ t \in tasks
    /\ tasks' = tasks \ {t}
    /\ caught' = [caught EXCEPT ![t] = {r \in Live : exec[r].task = t}]
    /\ IF t \in Persistent
       THEN /\ own' = [own EXCEPT ![t] = None] /\ dropped' = dropped \cup {t}
            /\ deletion' = [deletion EXCEPT ![t] = "session"]
       ELSE deletion' = [deletion EXCEPT ![t] = "records"] /\ UNCHANGED <<own, dropped>>
    /\ UNCHANGED <<process, fires, exec, record, ownFile, chat, copy, threw, killed, early, met>>

\* then the session's file goes,
DeleteOwnFile(t) ==
    /\ up = "on" /\ deletion[t] = "session"
    /\ ownFile' = ownFile \ {t}
    /\ deletion' = [deletion EXCEPT ![t] = "records"]
    /\ UNCHANGED <<process, asked, tasks, exec, record, own, chat, copy, history>>

BadDeleteRecords(t) ==
    /\ up = "on" /\ deletion[t] = "records"
    /\ deletion' = [deletion EXCEPT ![t] = "none"]
    /\ UNCHANGED <<process, asked, tasks, exec, record, sessions, history>>

\* then the records that are there.
DeleteRecords(t) ==
    /\ up = "on" /\ deletion[t] = "records"
    /\ record' = [r \in Runs |-> IF r \in RecordsOf(t) THEN None ELSE record[r]]
    /\ deletion' = [deletion EXCEPT ![t] = "none"]
    /\ UNCHANGED <<process, asked, tasks, exec, sessions, history>>

\* SessionsController.deleteSession, of the chat or of a task's session.
DeleteChat ==
    /\ AskDelete /\ up = "on" /\ chat.cached
    /\ chat' = [chat EXCEPT !.cached = FALSE, !.going = TRUE]
    /\ UNCHANGED <<process, fires, tasks, exec, record, own, ownFile, copy, deletion, history>>

DeleteChatFile ==
    /\ up = "on" /\ chat.going
    /\ chat' = [chat EXCEPT !.disk = None, !.going = FALSE]
    /\ copy' = [r \in Runs |-> None]
    /\ UNCHANGED <<process, asked, tasks, exec, record, own, ownFile, deletion, history>>

DeleteOwn(t) ==
    /\ AskDelete /\ up = "on" /\ own[t] # None
    /\ own' = [own EXCEPT ![t] = None]
    /\ ownFile' = ownFile \ {t}
    /\ dropped' = dropped \cup {t}
    /\ UNCHANGED <<process, fires, tasks, exec, record, chat, copy, deletion, threw, killed, caught, early, met>>

Deletions(t) == DeleteTask(t) \/ DeleteOwnFile(t) \/ DeleteRecords(t) \/ DeleteOwn(t)

-----------------------------------------------------------------------------
(***************************************************************************)
(* Crashes, and the start of the process.                                  *)
(***************************************************************************)
BadUnsettled == {r \in Runs : Recorded(r) /\ record[r].status \in {"running", "skipped"}}

Unsettled == {r \in Runs : Recorded(r) /\ record[r].status = "running"}

\* What is being written is torn, or as it was.
Crash ==
    /\ up # "off" /\ crashes < MaxCrashes
    /\ up' = "off" /\ crashes' = crashes + 1
    /\ LET written == IF up = "on" THEN {r \in Live : exec[r].phase \in {"create", "write"}}
                      ELSE Unsettled
       IN \E torn \in SUBSET written :
            /\ up = "recovering" => Cardinality(torn) <= 1
            /\ record' = [r \in Runs |-> IF r \in torn THEN Torn ELSE record[r]]
    /\ killed' = killed \cup Live \cup {t \in Tasks : deletion[t] # "none"}
    /\ exec' = [r \in Runs |-> Idle]
    /\ deletion' = [t \in Tasks |-> "none"]
    /\ copy' = [r \in Runs |-> None] /\ chat' = [chat EXCEPT !.going = FALSE]
    /\ UNCHANGED <<asked, tasks, own, ownFile, threw, caught, dropped, early, met>>

\* SessionManager.initialize reads the sessions; then start calls recoverInterruptedRuns.
\* With a session's file that does not parse the process does not start.
Restart ==
    /\ up = "off" /\ chat.disk # Torn
    /\ up' = "recovering"
    /\ own' = [t \in Tasks |-> IF t \in ownFile THEN fires ELSE None]
    /\ chat' = [chat EXCEPT !.cached = chat.disk # None,
                            !.memory = IF chat.disk = None THEN {} ELSE chat.disk]
    /\ UNCHANGED <<crashes, asked, tasks, exec, record, ownFile, copy, deletion, history>>

Recover(r) ==
    /\ up = "recovering" /\ r \in Unsettled
    /\ record' = [record EXCEPT ![r].status = "interrupted"]
    /\ UNCHANGED <<process, asked, tasks, exec, sessions, deletion, history>>

\* start sets the timer, and the API comes up, only after the recovery.
RecoveryEnds ==
    /\ up = "recovering" /\ Unsettled = {}
    /\ up' = "on"
    /\ UNCHANGED <<crashes, asked, tasks, exec, record, sessions, deletion, history>>

Next ==
    \/ \E t \in Tasks : Fire(t) \/ Deletions(t)
    \/ \E r \in Runs : Step(r) \/ Recover(r)
    \/ DeleteChat \/ DeleteChatFile \/ Crash \/ Restart \/ RecoveryEnds

\* A promise that can continue does; nothing promises that a process is started again.
Fairness ==
    /\ \A r \in Runs : WF_vars(Step(r)) /\ WF_vars(Recover(r))
    /\ WF_vars(RecoveryEnds) /\ WF_vars(DeleteChatFile)

Spec == Init /\ [][Next]_vars /\ Fairness

-----------------------------------------------------------------------------
(***************************************************************************)
(* Properties.                                                             *)
(***************************************************************************)
\* In a running process, a record says "running" only of an execution that is under
\* way, or of one that threw: every other path through executePromptTask and
\* executeWorkflowTask completes its record, and so does the recovery.
RunningIsUnderWay ==
    up = "on" => Unsettled \subseteq Live \cup threw

\* A run is recorded as interrupted only if a crash cut it short or its delivery
\* threw, never because of a recovery that met a run under way.
InterruptedByFault ==
    \A r \in Runs : Recorded(r) /\ record[r].status = "interrupted" => r \in killed \cup threw

\* What a record finally says stays: no recovery, late completion or second write
\* turns one outcome into another.
FinalStays ==
    [][\A r \in Runs : Recorded(r) /\ record[r].status \in Finals /\ Recorded(r)'
            => record'[r] = record[r]]_vars

\* A run recorded as completed with something to say has said it: its message is in
\* the chat's file as long as that parses, whatever deliveries, saves and crashes came
\* later; only a run that wrote the file while another one did may have been undone.
CompletedWasDelivered ==
    \A r \in Runs :
        /\ Recorded(r) /\ record[r].status = "completed"
        /\ record[r].outcome # "skip" /\ record[r].task \notin Silent
        /\ chat.disk \notin {None, Torn} /\ r \notin met
        => r \in chat.disk

\* A task with a session of its own talks to its agent one run at a time, unless
\* somebody deleted that session under it.
OneAtATime ==
    \A t \in Persistent \ dropped :
        Cardinality({r \in Live : exec[r].task = t /\ exec[r].phase = "stream"}) <= 1

\* What a record says of its run is so: running, interrupted or completed; and
\* two runs never speak in one session at a time.
RecordsAreTrue ==
    /\ TypeOK
    /\ RunningIsUnderWay
    /\ InterruptedByFault
    /\ CompletedWasDelivered
    /\ OneAtATime

\* Of a deleted task nothing remains, neither records nor a session, but what the
\* runs under way at that moment leave, or a deletion a crash cut short.
DeletedLeavesNothing ==
    \A t \in Tasks \ (tasks \cup killed) :
        deletion[t] = "none" =>
            /\ RecordsOf(t) \subseteq caught[t]
            /\ caught[t] = {} => own[t] = None /\ t \notin ownFile

\* The history of a task stays bounded: beyond the newest Keep there are only records
\* of runs under way, and of runs that ended without pruning.
HistoryBounded ==
    \A t \in Tasks :
        Cardinality(RecordsOf(t) \ (Live \cup early \cup threw \cup killed)) <= Keep

\* The files of tasks do not pile up, neither while a task lives nor after it.
NothingPilesUp == DeletedLeavesNothing /\ HistoryBounded

\* A recorded run does not stay "running": the record says how it ended, or is gone,
\* or the execution threw, or the process is down.
RunsSettle ==
    \A r \in Runs : r \in Unsettled ~> r \notin Unsettled \/ r \in threw \/ up = "off"
=============================================================================
