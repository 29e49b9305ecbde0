------------------------------ MODULE AgentRun ------------------------------
(***************************************************************************)
(* The life of an agent run: AgentDispatcher.send and stop, Agent.run and  *)
(* stop, the status of the session, the abort signal of the run, and the   *)
(* guardrail request a tool call may be waiting on.                        *)
(*                                                                         *)
(* One element of Runs is one invocation of AgentDispatcher.send.  The     *)
(* code is single threaded: an action is what runs between two awaits or   *)
(* two yields, and every interleaving of such pieces is a behaviour.       *)
(*                                                                         *)
(* pc[r] says where the run is suspended:                                  *)
(*   new        not called yet                                             *)
(*   preparing  startTrace .. the end of the tool pool                     *)
(*   ready      about to start a forced call or to pass the loop head;     *)
(*              also the yields of the events in between                   *)
(*   thinking   awaiting the next decision of the thinking strategy        *)
(*   called     the TOOL_CALL message is in the session, the guardrails    *)
(*              are about to look at it                                    *)
(*   forced     a forced TOOL_CALL message is in the session: every caller  *)
(*              that forces a call has it bypass the guardrails            *)
(*   asked      a GUARDRAIL_REQUEST was yielded, its consumer is busy      *)
(*   waiting    the request is in a guardrail's pending map                *)
(*   granted    the guardrails let the call through                        *)
(*   executing  the tool runs, raced against the abort signal              *)
(*   deaf       the tool runs, started when the signal had already fired   *)
(*   unwinding  the finally block of Agent.run is due                      *)
(*   leaving    that of AgentDispatcher.send is due                        *)
(*   done       returned or thrown                                         *)
(***************************************************************************)
EXTENDS Naturals

CONSTANTS
    Runs,       \* invocations of AgentDispatcher.send
    Sessions,   \* session ids
    Agents,     \* agents in the registry
    None,       \* an absent map entry
    MaxForced,  \* bound: forced tool calls of one run
    Requests    \* what callers may ask for: a set of jobs

\* What the run does about a guardrail that asks: put the request to the user
\* (standard), fail the run (fail), let the call through (safe_skip), or not
\* run the guardrails at all (skip).
Policies == {"standard", "fail", "safe_skip", "skip"}

AgentRunRequest ==
    [agent   : Agents,
     session : Sessions,
     policy  : Policies,
     forced  : 0..MaxForced,   \* forced tool calls still to make
     slow    : BOOLEAN]        \* the consumer awaits its own I/O between two events

ASSUME AgentRunAssumption ==
    /\ None \notin Runs
    /\ None \notin Agents
    /\ None \notin Sessions
    /\ MaxForced \in Nat
    /\ Requests \subseteq AgentRunRequest

VARIABLES
    status,       \* Session._status, by session
    active,       \* AgentDispatcher.activeAgentSessions
    controllers,  \* Agent.abortControllers: the run a (agent, session) entry belongs to
    aborted,      \* the runs whose abort signal has fired
    pending,      \* the runs with an entry in a guardrail's pending map
    pc,           \* where each run is
    job,          \* what each run was asked to do
    late          \* history: tools a run started after its signal had fired

vars == <<status, active, controllers, aborted, pending, pc, job, late>>

NoJob == [agent |-> None, session |-> None, policy |-> "skip", forced |-> 0, slow |-> FALSE]

PCs == {"new", "preparing", "ready", "thinking", "called", "forced", "asked", "waiting",
        "granted", "executing", "deaf", "unwinding", "leaving", "done"}

TypeOK ==
    /\ status \in [Sessions -> {"idle", "running"}]
    /\ active \in [Sessions -> Agents \cup {None}]
    /\ controllers \in [Agents -> [Sessions -> Runs \cup {None}]]
    /\ aborted \subseteq Runs
    /\ pending \subseteq Runs
    /\ pc \in [Runs -> PCs]
    /\ job \in [Runs -> AgentRunRequest \cup {NoJob}]
    /\ late \in [Runs -> Nat]

Init ==
    /\ status = [s \in Sessions |-> "idle"]
    /\ active = [s \in Sessions |-> None]
    /\ controllers = [a \in Agents |-> [s \in Sessions |-> None]]
    /\ aborted = {}
    /\ pending = {}
    /\ pc = [r \in Runs |-> "new"]
    /\ job = [r \in Runs |-> NoJob]
    /\ late = [r \in Runs |-> 0]

\* The run is inside the body of Agent.run.
InBody(r) == pc[r] \notin {"new", "leaving", "done"}

\* The run is inside AgentDispatcher.send.
InSend(r) == pc[r] \notin {"new", "done"}

Goto(r, to) == pc' = [pc EXCEPT ![r] = to]

(***************************************************************************)
(* A definition whose name starts with Bad is a bug the code does not have *)
(* (a check left out, a cleanup forgotten).  No action uses it: it is what *)
(* a property of this module is there to rule out.                         *)
(***************************************************************************)

(***************************************************************************)
(* AgentDispatcher.send up to the first await of Agent.run.                *)
(***************************************************************************)
SendAccepted(r, j) ==
    /\ pc[r] = "new"
    /\ status[j.session] = "idle"
    /\ active' = [active EXCEPT ![j.session] = j.agent]
    /\ controllers' = [controllers EXCEPT ![j.agent][j.session] = r]
    /\ status' = [status EXCEPT ![j.session] = "running"]
    /\ job' = [job EXCEPT ![r] = j]
    /\ Goto(r, "preparing")
    /\ UNCHANGED <<aborted, pending, late>>

\* The session is running: Agent.run throws, when the dispatcher's entry of the
\* session has been overwritten.
SendRefused(r, j) ==
    /\ pc[r] = "new"
    /\ status[j.session] = "running"
    /\ active' = [active EXCEPT ![j.session] = j.agent]
    /\ job' = [job EXCEPT ![r] = j]
    /\ Goto(r, "leaving")
    /\ UNCHANGED <<status, controllers, aborted, pending, late>>

(***************************************************************************)
(* Preparation: input guardrails, system prompts, session optimisation,    *)
(* budget, tool pool.  Any of these may throw.                             *)
(***************************************************************************)
Prepared(r) ==
    /\ pc[r] = "preparing"
    /\ Goto(r, "ready")
    /\ UNCHANGED <<status, active, controllers, aborted, pending, job, late>>

PrepareFails(r) ==
    /\ pc[r] = "preparing"
    /\ Goto(r, "unwinding")
    /\ UNCHANGED <<status, active, controllers, aborted, pending, job, late>>

(***************************************************************************)
(* The forced tool calls come first and do not look at the signal; the     *)
(* loop head does.                                                         *)
(***************************************************************************)
ForcedCall(r) ==
    /\ pc[r] = "ready"
    /\ job[r].forced > 0
    /\ job' = [job EXCEPT ![r].forced = @ - 1]
    /\ Goto(r, "forced")
    /\ UNCHANGED <<status, active, controllers, aborted, pending, late>>

\* The strategy loop without its look at the signal.
BadLoopHead(r) ==
    /\ pc[r] = "ready"
    /\ job[r].forced = 0
    /\ Goto(r, "thinking")
    /\ UNCHANGED <<status, active, controllers, aborted, pending, job, late>>

LoopHead(r) ==
    /\ pc[r] = "ready"
    /\ job[r].forced = 0
    /\ IF r \in aborted THEN Goto(r, "unwinding") ELSE Goto(r, "thinking")
    /\ UNCHANGED <<status, active, controllers, aborted, pending, job, late>>

\* The strategy decided on a tool call.
StrategyCall(r) ==
    /\ pc[r] = "thinking"
    /\ Goto(r, "called")
    /\ UNCHANGED <<status, active, controllers, aborted, pending, job, late>>

\* Any other decision that does not end the run: deltas, messages, plan, steps,
\* iterations within the budget.
StrategyEvent(r) ==
    /\ pc[r] = "thinking"
    /\ Goto(r, "ready")
    /\ UNCHANGED <<status, active, controllers, aborted, pending, job, late>>

\* DONE, the end of the strategy's generator, or an error: provider, output
\* guardrail, exceeded budget.
StrategyEnds(r) ==
    /\ pc[r] = "thinking"
    /\ Goto(r, "unwinding")
    /\ UNCHANGED <<status, active, controllers, aborted, pending, job, late>>

(***************************************************************************)
(* checkToolCallGuardrails.  Which calls a rule allows or denies is the    *)
(* subject of ToolPermission; here each outcome is possible.               *)
(***************************************************************************)
CheckAllows(r) ==
    /\ pc[r] = "called"
    /\ Goto(r, "granted")
    /\ UNCHANGED <<status, active, controllers, aborted, pending, job, late>>

\* A saved rule denies the call: its result is the reason.
CheckDenies(r) ==
    /\ pc[r] = "called"
    /\ job[r].policy # "skip"
    /\ Goto(r, "ready")
    /\ UNCHANGED <<status, active, controllers, aborted, pending, job, late>>

\* No rule decides and nobody may be asked: AgentGuardrailDecisionRequiredError.
CheckFails(r) ==
    /\ pc[r] = "called"
    /\ job[r].policy = "fail"
    /\ Goto(r, "unwinding")
    /\ UNCHANGED <<status, active, controllers, aborted, pending, job, late>>

\* The guardrail yields its request first and registers it when the consumer
\* asks for the next event: at once, unless the consumer awaits in between.
Ask(r) ==
    /\ pc[r] = "called"
    /\ job[r].policy = "standard"
    /\ IF job[r].slow
         THEN Goto(r, "asked") /\ UNCHANGED pending
         ELSE Goto(r, "waiting") /\ pending' = pending \cup {r}
    /\ UNCHANGED <<status, active, controllers, aborted, job, late>>

Register(r) ==
    /\ pc[r] = "asked"
    /\ pending' = pending \cup {r}
    /\ Goto(r, "waiting")
    /\ UNCHANGED <<status, active, controllers, aborted, job, late>>

\* GuardrailResolver.resolve: the user answers a request, for or against the call;
\* an answer to be remembered may fail to be written, which fails the run.  An
\* answer to a request that is not registered changes nothing.
Outcomes == {"granted", "ready", "unwinding"}

Decide(r, outcome) ==
    /\ r \in pending
    /\ pending' = pending \ {r}
    /\ Goto(r, outcome)
    /\ UNCHANGED <<status, active, controllers, aborted, job, late>>

(***************************************************************************)
(* ToolOrchestrator.execute.  The abort listener is added when the race is *)
(* set up, so a signal that fired before is never heard.                   *)
(***************************************************************************)
StartTool(r) ==
    /\ pc[r] \in {"granted", "forced"}
    /\ Goto(r, IF r \in aborted THEN "deaf" ELSE "executing")
    /\ late' = [late EXCEPT ![r] = IF r \in aborted THEN @ + 1 ELSE @]
    /\ UNCHANGED <<status, active, controllers, aborted, pending, job>>

ToolReturns(r) ==
    /\ pc[r] \in {"executing", "deaf"}
    /\ Goto(r, "ready")
    /\ UNCHANGED <<status, active, controllers, aborted, pending, job, late>>

\* A tool that is awaited without the race against the signal.
BadToolAborted(r) == FALSE /\ ToolReturns(r)

ToolAborted(r) ==
    /\ pc[r] = "executing"
    /\ r \in aborted
    /\ Goto(r, "ready")
    /\ UNCHANGED <<status, active, controllers, aborted, pending, job, late>>

(***************************************************************************)
(* The consumer of the events throws or returns at a yield: the generators *)
(* run their finally blocks.                                               *)
(***************************************************************************)
Abandon(r) ==
    /\ job[r].slow
    /\ pc[r] \in {"ready", "called", "forced", "asked"}
    /\ Goto(r, "unwinding")
    /\ UNCHANGED <<status, active, controllers, aborted, pending, job, late>>

\* A finally block that forgets the session's status, or the controller.
BadFinishStatus(r) ==
    /\ pc[r] = "unwinding"
    /\ controllers' = [controllers EXCEPT ![job[r].agent][job[r].session] = None]
    /\ Goto(r, "leaving")
    /\ UNCHANGED <<status, active, aborted, pending, job, late>>

BadFinishController(r) ==
    /\ pc[r] = "unwinding"
    /\ status' = [status EXCEPT ![job[r].session] = "idle"]
    /\ Goto(r, "leaving")
    /\ UNCHANGED <<controllers, active, aborted, pending, job, late>>

\* The finally block of Agent.run, from the deletion of the controller on.
Finish(r) ==
    LET s == job[r].session IN
    /\ pc[r] = "unwinding"
    /\ controllers' = [controllers EXCEPT ![job[r].agent][s] = None]
    /\ status' = [status EXCEPT ![s] = "idle"]
    /\ Goto(r, "leaving")
    /\ UNCHANGED <<active, aborted, pending, job, late>>

\* The finally block of AgentDispatcher.send: it deletes the entry of the session,
\* whoever it belongs to by then.
Leave(r) ==
    /\ pc[r] = "leaving"
    /\ active' = [active EXCEPT ![job[r].session] = None]
    /\ job' = [job EXCEPT ![r] = NoJob]
    /\ Goto(r, "done")
    /\ UNCHANGED <<status, controllers, aborted, pending, late>>

\* A stop that does not wait for the run to unwind before it frees the session.
BadStopFrees(s) ==
    LET a == active[s] IN
    /\ a # None
    /\ controllers[a][s] # None
    /\ aborted' = aborted \cup {controllers[a][s]}
    /\ controllers' = [controllers EXCEPT ![a][s] = None]
    /\ status' = [status EXCEPT ![s] = "idle"]
    /\ LET blocked == {r \in pending : job[r].session = s} IN
         /\ pending' = pending \ blocked
         /\ pc' = [r \in Runs |-> IF r \in blocked THEN "ready" ELSE pc[r]]
    /\ UNCHANGED <<active, job, late>>

(***************************************************************************)
(* AgentDispatcher.stop: a session with no entry, or whose agent has no    *)
(* controller for it, is left alone.                                       *)
(***************************************************************************)
Stop(s) ==
    LET a == active[s] IN
    /\ a # None
    /\ controllers[a][s] # None
    /\ aborted' = aborted \cup {controllers[a][s]}
    /\ controllers' = [controllers EXCEPT ![a][s] = None]
    /\ LET blocked == {r \in pending : job[r].session = s} IN
         /\ pending' = pending \ blocked
         /\ pc' = [r \in Runs |-> IF r \in blocked THEN "ready" ELSE pc[r]]
    /\ UNCHANGED <<status, active, job, late>>

-----------------------------------------------------------------------------
\* The steps the process owes a run: its promises settle, and the provider
\* answers or times out.
RunStep(r) ==
    \/ Prepared(r) \/ PrepareFails(r)
    \/ ForcedCall(r) \/ LoopHead(r)
    \/ StrategyCall(r) \/ StrategyEvent(r) \/ StrategyEnds(r)
    \/ CheckAllows(r) \/ CheckDenies(r) \/ CheckFails(r)
    \/ Ask(r) \/ Register(r)
    \/ StartTool(r) \/ ToolAborted(r)
    \/ Finish(r) \/ Leave(r)

\* What happens only if somebody outside makes it happen: a caller, the user,
\* the consumer of the events, a tool.
Environment ==
    \/ \E r \in Runs, j \in Requests : SendAccepted(r, j) \/ SendRefused(r, j)
    \/ \E r \in Runs : ToolReturns(r) \/ Abandon(r)
    \/ \E r \in Runs, outcome \in Outcomes : Decide(r, outcome)
    \/ \E s \in Sessions : Stop(s)

Next == Environment \/ \E r \in Runs : RunStep(r)

Spec == Init /\ [][Next]_vars

FairSpec == Spec /\ \A r \in Runs : WF_vars(RunStep(r))

-----------------------------------------------------------------------------
(***************************************************************************)
(* Properties.                                                             *)
(***************************************************************************)

\* Two runs never work on one session at the same time: between the check of
\* session.status in Agent.run and the IDLE of its finally block no second run
\* gets in, whatever agent, channel or scheduler sent it.
OneRunPerSession ==
    \A r, q \in Runs : InBody(r) /\ InBody(q) /\ job[r].session = job[q].session => r = q

\* A session is RUNNING exactly while a run is in its body: no path out of
\* Agent.run (error, abort, abandoned consumer) leaves the session locked, and
\* none frees it early.
StatusTracksRun ==
    \A s \in Sessions :
        status[s] = "running" <=> \E r \in Runs : InBody(r) /\ job[r].session = s

\* An entry of Agent.abortControllers belongs to the run its key names, that run
\* is alive and not stopped; and a live run that was not stopped has one.  A
\* stop that reaches the agent therefore always hits the right run.
ControllersMatchRuns ==
    /\ \A a \in Agents, s \in Sessions : LET r == controllers[a][s] IN
         r # None => /\ InBody(r) /\ r \notin aborted
                     /\ job[r].agent = a /\ job[r].session = s
    /\ \A r \in Runs : InBody(r) /\ r \notin aborted
                          => controllers[job[r].agent][job[r].session] = r

\* A guardrail's pending map holds the requests of the runs that wait for one,
\* and nothing else: an abandoned, stopped or answered request is not leaked.
PendingMatchesWaiting == \A r \in Runs : r \in pending <=> pc[r] = "waiting"

\* The dispatcher never points at an agent that nobody is sending anything to on
\* that session: however sends overtake each other on their way in and out, the
\* last to leave takes the entry along.
ActiveIsSending ==
    \A s \in Sessions : active[s] # None =>
        \E r \in Runs : InSend(r) /\ job[r].session = s /\ job[r].agent = active[s]

\* The places that know about a run agree: the status of its session, the
\* dispatcher's entry, the guardrails' pending maps, and where the run is; and
\* no two runs share a session.
SessionsAgree ==
    /\ TypeOK
    /\ OneRunPerSession
    /\ StatusTracksRun
    /\ ActiveIsSending
    /\ PendingMatchesWaiting

\* How many tools a run may start after it was stopped: the call the strategy
\* was about to decide on, or the forced calls, which do not look at the signal.
LateBound == IF MaxForced = 0 THEN 1 ELSE MaxForced

\* A stopped run starts only that many tools: the loop head breaks before the
\* strategy is asked again.
LateToolsBounded == \A r \in Runs : late[r] <= LateBound

\* Once its session was stopped, a run that has come back to the strategy loop,
\* or whose tool was already running, ends: nothing more is needed of the user,
\* of the provider or of the tool.
StoppedRunEnds ==
    \A r \in Runs :
        (r \in aborted /\ job[r].forced = 0 /\ pc[r] \in {"ready", "executing"})
            ~> (pc[r] = "done")

\* What the message of AgentSessionError tells the caller of a busy session to
\* rely on: a session that was stopped becomes free for a new run.
StopFreesSession ==
    \A r \in Runs : (r \in aborted) ~> (pc[r] = "done")

\* AgentDispatcher.stop reaches every running session.
RunningIsStoppable ==
    \A s \in Sessions : status[s] = "running" => active[s] # None

\* The session's status is a lock: see SessionLock.
HoldersOf(s) == {r \in Runs : InBody(r) /\ job[r].session = s}
Lock == INSTANCE SessionLock
            WITH holders <- [s \in Sessions |-> HoldersOf(s)],
                 finished <- {r \in Runs : pc[r] \in {"leaving", "done"}}
ImplementsLock == Lock!Spec
=============================================================================
