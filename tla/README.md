# flowwit-backend: a verification project

TLA+ models of the parts of the flowwit backend where its behaviour depends on
the order of events: agent runs that share sessions, permission rules that
change while a tool call is being checked, messages that several actors write,
scheduled tasks, event streams, workflow graphs, connections that are lost,
plans that are revised, configuration that is reloaded, replies of a model that
arrive in pieces, and the files all of this is saved to. TLC checks the models
on small instances; TLAPS proves the invariants of eight of them for every
instance.

Paths are relative to the repository (`src/core/...` is the directory of that
name under its `src`). `map` in `PROJECT.json` gives the lines of the source
each definition stands for.

## 1. The system

The backend is one Node.js process. It is single threaded: code runs without
interruption between two `await`s (or two `yield`s of an async generator), and
whatever is ready next may run at each of them. Nothing is shared with another
process except files, which are rewritten whole with `fs.writeFile`.

| component | state it keeps | operations | who calls it | module |
|---|---|---|---|---|
| `AgentDispatcher` | `activeAgentSessions`: session -> agent | `send`, `stop` | channels, scheduler, agent commands, workflow nodes | `AgentRun` |
| `Agent` | `abortControllers`: session -> controller; its configuration | `run` (an event stream), `stop`, `update` | dispatcher, updaters | `AgentRun`, `SessionHistory`, `ConfigReload` |
| `Session`, `SessionManager` | messages, status, usage; a cache of sessions | add, optimise, commit, save, create, delete | agents, channels, scheduler, API | `SessionHistory`, `ChatSessions` |
| `JsonSessionRepository` | one JSON file per session | read, rewrite, delete | session manager | `SessionHistory`, `ChatSessions` |
| Guardrails | `pending`: request -> resolver | check a call, `resolve`, `abort` | agent; the answer comes from a channel | `ToolPermission`, `AgentRun` |
| `GuardrailRulesStore` | global and session rules in memory, one JSON file | look up, set, delete, clear | guardrails, API | `ToolPermission` |
| `ToolOrchestrator` | none | execute a call, raced against the abort signal | agent | `AgentRun` |
| `Scheduler`, registry, updater | tasks in memory and in a file; one file per run; a timer | tick, run now, recover | timer, API, tools, file watcher | `TaskSchedule`, `TaskRun` |
| `AgentSessionEventBus`, web channel | per session: a buffer of events and its subscribers | start, subscribe | HTTP requests, scheduler's deliveries | `SessionStream` |
| Telegram channel | the chats' agents and sessions, one file; sessions with a message under way | commands, buttons, messages, answers | Bot API | `ChatSessions`, `PlanExecution` |
| `WorkFlowRunner` | node executions of a run, its controller, its file | run, stop | API, scheduler, commands | `WorkFlowRun` |
| `MCPConnectionManager`, `MCPClient` | per server: client, status, reconnect timer | register, remove, connect, disconnect | bootstrap, updater, API | `MCPConnection` |
| `FileWatcher` and the updaters | fingerprints; the registries of agents, skills, workflows | reload a file after a change | the file system | `ConfigReload`, `TaskSchedule` |
| Thinking strategies | a plan, the leaf it is at | decide what the agent does next | agent | `PlanExecution`, `ModelStream` |
| `Budget` | iterations, tool calls, tokens | charge, check | agent | `PlanExecution`, `ModelStream` |
| Providers | a timer and a buffer per request | stream a reply | strategies, through the agent | `ModelStream` |
| Memory, skill resources, tools, commands, console, observability, logger | caches, files | input and output | the rest | none |

A message takes this way: a channel finds the `Session` object and calls
`AgentDispatcher.send`, which notes the agent and iterates `Agent.run`. The run
takes the session (`status = RUNNING`), rebuilds the system prompts, lets the
optimizers shorten the history, adds the user's message, makes the forced tool
calls and then asks its strategy for decisions until it is done. The strategy
asks the provider, whose reply is a stream of chunks. A tool call is added to the
history, put to the guardrails (which may yield a request to the user and wait),
executed and answered with a result. Every way out goes through the two
`finally` blocks (agent, dispatcher); the channel then saves the session. The
scheduler sends the same way and delivers the outcome into another session; a
workflow's agent node does so from within a graph.

### What is hard here

* **Sharing.** Channels, the scheduler and commands reach the same session at
  any time; `status`, the dispatcher's map, the agent's controllers and the
  guardrails' pending requests must agree at every `await`.
* **Stops.** `stop` fires a signal that is heard only by what listens at that
  moment, and removes the means to stop again.
* **Read, wait, write back.** System prompts, optimisation, tasks, chats, agents'
  entries and sessions are read, an `await` passes, and what was made of them is
  written back.
* **Files.** Writers of one file are not serialised, a write is not atomic, and
  a file that does not parse stops the next start of the process.
* **Objects, not names.** A running agent holds the skills, workflows and
  sub-agents it was given; replacing one in a registry does not reach its holders.
* **Late consumers.** An event stream advances when its consumer asks; a
  consumer that awaits its own I/O delays the run, and one that throws ends it.
* **Late answers.** Connections, timers, deliveries and recoveries finish after
  what they were started for is gone.
* **Streams.** The network cuts lines anywhere, calls arrive interleaved, and a
  server that goes away looks like one that is done.

### What makes each component correct

* Agent runs: one run per session; no way out leaves a session locked; a stop
  hits the run it is meant for and that run ends; nothing is left in the maps.
* Permission: no call runs against a rule; what was not ruled was consented to;
  a remembered decision is remembered; nobody waits for a user who is not there.
* History: messages keep their order and are not lost; a model sees calls with
  their results and results with their calls; what is quiet is on disk.
* Sessions: they disappear when they are deleted, and only then, with their file
  and their rules; a chat refers to what exists.
* Scheduler: a task fires once per occurrence, never after its deletion or while
  paused; every run's record reaches a final status, and keeps it.
* Event bus: a client sees every event of a stream once and in order, also when
  it joins late or the stream is replaced; a response ends.
* Workflow runner: a node starts once per execution, when its inputs are there;
  a run that failed or was stopped does not count as completed.
* MCP connections: "connected" means an open transport; a lost connection is
  tried again until it is up or given up, one that was disconnected is not.
* Strategies: no leaf of a plan is skipped or done twice; a run ends within its
  budget, and with a message.
* Reload: when nothing is under way, the registries say what the files say, and
  agents hold what is registered.
* Providers: what a run shows, runs and pays for is what the model wrote; every
  connection is closed.

## 2. The modules

| module | models | state |
|---|---|---|
| `SessionLock` | what a session's status promises: an abstract lock | `holders`, `finished` |
| `AgentRun` | `AgentDispatcher.send/stop`, `Agent.run/stop`, the signal, pending requests | `status`, `active`, `controllers`, `aborted`, `pending`, and `pc`, `job` of each run |
| `ToolPermission` | `checkToolCallGuardrails`, the two guardrails, the rules and their file | `check` of each session, `rules`, `agentRules`, `disk`, `saves` |
| `SessionHistory` | the messages of one session, optimizers, deliveries, the session's file | `msgs`, `snapshot`, `wire`, `disk`, `torn`, `reads`, `writes` |
| `TaskSchedule` | the scheduler's timer and registry, the tasks' file and those who rewrite it, the updater | `registry`, `file`, `ops`, `reads`, `prints`, `now` |
| `TaskRun` | what becomes of a task that fired: prompt or workflow, record, own session, delivery, pruning, recovery | `exec`, `record`, `own`, `ownFile`, `chat`, `copy`, `deletion`, `tasks` |
| `SessionStream` | `AgentSessionEventBus`, the workflow runs' bus, `WebChannelResponse`, the message and event routes, saves of the sessions | entries of the bus, readers, holders of sessions, saves under way, files |
| `WorkFlowRun` | `WorkFlowRunner`: the tree of node streams, branches, loops, races, merges, stop, the run's file | streams, deliveries, executions, the run's record |
| `MCPConnection` | `MCPConnectionManager`, registry, `MCPClient`, REST requests, shutdown | clients with their transports, calls under way, timers |
| `PlanExecution` | Plan-and-Execute with the ReAct loop it uses, budget, the chat's step line | plan, index, frontier, phase, limits, counters |
| `ChatSessions` | sessions as chats and API create, choose, use and delete them | cache, files, the chats' file, `activeSessions`, handlers under way, those whose writes meet |
| `ConfigReload` | watcher, three updaters, REST handlers and tools, the start | the files, registries, agents and what they hold, fingerprints, handlers, writes under way |
| `ModelStream` | `generateStream`, the four `executeGenerateStream`, their mappers, `processStream` | timer, connection, packets, lines, the strategy's buffers |
| `AgentRun_proofs`, `ToolPermission_proofs`, `ChatSessions_proofs`, `SessionHistory_proofs` | theorems about the module of that name | |
| `Streams_proofs` | theorems about `SessionStream` and `ModelStream`, the server's two streams, which share nothing | |
| `Scheduler_proofs` | theorems about `TaskRun` and `TaskSchedule`, which share the constants of `ScheduledTasks` and no variable | |
| `Execution_proofs` | theorems about `WorkFlowRun` and `PlanExecution`, which share nothing but that each walks a graph of steps | |
| `Configuration_proofs` | theorems about `MCPConnection` and `ConfigReload`, the two components that follow what the configuration says | |

The modules `MC...` give the constants their values for TLC. Definitions whose
name starts with `Bad` are bugs the code does not have (a forgotten cleanup, a
dropped check). No specification uses them; each property of a run is violated
when one of them takes the place of the definition it distorts.

**How state corresponds to the code.** A variable is a field, map, local or file
of the source, under its name where there is one. An action is the code between
two suspension points, so the place of a run or handler (`pc`, `at`, `place`)
names the `await` or `yield` it is suspended at. A handler that is under way is a
row of a sequence or function (`ops`, `handlers`, `calls`). A write of a file is
two steps, its beginning, at which the content is fixed and the file emptied, and
its end, at which the content is there. Nothing in the code orders the writes of a
file, and nothing does in the models: who reads in between, or starts after a
crash, meets a file that does not parse; writes that meet leave one content or
another, or none that parses; and a write of a file that was deleted meanwhile
leaves nothing.

**History variables** (marked `history` where they are declared) record what
happened, for the properties; no action's guard reads them.

**How the modules fit together.**

* `AgentRun` leaves open which calls the guardrails let through; `ToolPermission`
  decides that. `ToolPermission` and `SessionHistory` let a session have one run
  at a time, which is `OneRunPerSession`, proved for `AgentRun`.
* `AgentRun` implements `SessionLock` under the mapping *holders of s = the runs in
  their body on s*, *finished = the runs that left it*.
* `TaskSchedule` says when a task fires, `TaskRun` what becomes of it,
  `SessionHistory` what its delivery does to the session it is put into,
  `SessionStream` what clients of that session see.
* `PlanExecution` takes the tool calls of a response as given; `ModelStream` says
  how a response becomes calls. Its run is the ReAct loop, which Plan-and-Execute
  uses for its subtasks.
* `ChatSessions` has whole sessions, `SessionHistory` the messages of one.

**Data.** A message is a number with a kind; a summary covers the numbers it
replaces. A tool call is what the guardrails tell apart; `KeyOf` and `Covers` stand
for the rule keys and the glob patterns. A skill or workflow is a version number,
an agent an object with what it holds. A piece of a reply is its number, so that
order and loss can be stated; an execution id of a workflow is the path of
`<<connection, pass>>` pairs it was minted along: every connection out of the branch
of a loop mints one of its own in every turn.

**Composites.** A property that is the conjunction of several named parts is
checked as one:

| property | parts |
|---|---|
| `SessionsAgree` | type, one run per session, status, dispatcher and pending entries agree |
| `CallsAreLawful` | type, `NeverAgainstTheRules`, `RuleOrConsent` |
| `WireIsCoherent` | type, order, calls with their results, pairs kept together |
| `TimerIsTrue` | type, `Converges` |
| `RecordsAreTrue` | type, running is under way, completed was delivered, one execution per session at a time |
| `ChatsAreSound` | type, `SelectedIsListed`, `ListedIsOnDisk`, `ListsAreKept` |
| `DeletionIsExact` | `KeptUnlessDeleted`, `DeletedStaysGone` |
| `RegistriesAreTrue` | type, `RegistriesFollowFiles` |
| `RepliesAreTrue` | type, `HeardInOrder`, `MessagesAreWhole`, `NothingLost`, `CallsAreWhole`, `ChargedOnce` |
| `NothingPilesUp` | `DeletedLeavesNothing`, `HistoryBounded` |
| `BusIsCurrent` | type, `BusTracksGeneration`, `NoStaleEntry` |
| `WalkIsSound` | type, `NoNodeTwice`, `LoopsTakeTurns` |
| `CompletedIsTrue` | `NothingLeftBehind`, `CompletedIsWhole` |
| `StatusIsHonest` | type, `ConnectedIsReal`, `LostIsRetried` |
| `PlanIsTrue` | type, `FrontierIsReal`, `IdsAreDistinct`, `ShownIsReached` |

## 3. The runs

All runs pass. They use `CHECK_DEADLOCK FALSE`: inputs are bounded, so every
instance comes to an end when they are used up, and a quiet backend is a correct
state.

| run | what it asks | instance | states |
|---|---|---|---|
| `runs` | exclusion, agreement of status, dispatcher, controllers and pending requests, late tools, the lock, the end of stopped runs | 3 sends, 2 agents, 2 sessions, 2 forced calls | 274,000 |
| `rules` | may a call run, what is remembered, does an unattended check end | 1 session, 2 guardrails, 2 keys, 1 pattern, 2 writes of rules | 60,000 |
| `history` | what the model is shown, what is lost, what survives | 5 messages, 1 delivery, saves that overlap, crashes | 3,668,000 |
| `schedule` | is the timer right, do occurrences fire once and as ordered | 1 task, 3 operations, 2 at a time, 2 moments, crashes | 1,713,000 |
| `task_runs` | what records of runs say, does every run settle, what remains of deleted tasks | a prompt task with its own session and a workflow task, 2 runs whose saves may meet, 1 crash, 1 deletion | 565,000 |
| `streams` | what clients are sent, what the bus keeps, do responses end | a session, a temporary one, a workflow; 2 streams, 1 later client, 2 events, 1 delivery, other save, deletion or foreign run | 219,000 |
| `workflow` | each node once, nothing ready left behind, stops | a for loop; in its branch a race and an inner while loop around a condition; a branch that does not come back; a merge behind; 2 nodes that may fail | 218,000 |
| `connections` | what "connected" is worth, when retries stop | 2 clients of one name, 2 attempts, 3 calls, 2 REST requests, 1 lost connection | 245,000 |
| `plans` | leaves, budget, messages, end | plans of up to 3 leaves in 2 levels, at most 6 by revision, reports of 2 leaves, up to 5 forced calls, 13 iterations or no limit, 5 tool calls or no limit | 291,000 |
| `chats` | sessions, chats, rules, active sessions | 2 chats, 2 sessions, 4 handlers, crashes | 783,000 |
| `reload` | do registries follow files, do agents hold what is registered | 2 agents, a skill, 2 workflows, 3 changes, 2 handlers, 1 restart | 1,421,000 |
| `replies` | is what is shown, run and paid for what the model wrote; are connections closed | 4 lines in all, 1 unread but for what the buffer holds, 3 pieces, 2 requests, all 4 providers | 1,071,000 |

**Why the bounds are enough.**

* `runs`: the disagreements the invariants exclude need two runs on one session
  and a bystander on another. Three sends let a refused send, a live run and an
  unrelated session meet; two forced calls let a late tool be followed by a
  second one. The requests are those of a Telegram chat (a slow consumer), of a
  scheduled task with two skills that may not ask, and of a web chat.
* `rules`: a change has to fall between the two guardrails, and a second one has to
  undo or confirm it. One pattern that covers both keys gives
  exact-against-pattern and level-against-level conflicts.
* `history`: with `Preserve = 1` the messages *user, call, result* already put the
  split of a summary between a call and its result, the fourth starts the run
  that would show it to a model, and the fifth is the delivery in the middle.
* `schedule`: creating a task, changing it and changing it back is what the
  updater's comparison with its last fingerprint could miss; `at` may lie in the
  past, now, or after the last moment.
* `task_runs`: two runs are what may meet in one task, in one destination and in
  the writes of its file, and around one crash; `Keep = 1` makes the second run
  prune the first.
* `streams`: the second stream of a session replaces the first, and the saves of
  their two responses may meet; the later client joins either; two events tell
  order and loss apart.
* `workflow`: every kind of walk (fork, branch, loop, race, merge, failure) occurs.
  The for loop has two connections into its branch, whose ids must not meet; one does
  not come back. The loser of the race arrives after the race was won. An inner loop
  with its own branch makes ids two deep, and coming back from it must lead to the
  outer one's. One turn of each is enough for a loop to open its branch, be fed again
  and be done.
* `connections`: one registration, one that replaces it, and one request in
  between; two attempts put the second failure at the limit and the first before.
* `plans`: three leaves give a frontier that lags, jumps and passes a top step; 13
  iterations take such a plan through a revision to its summary, and run out before
  where answers are unreadable. Five forced calls spend the tool calls before the
  first request. Without a limit nothing is counted, so that a run may go on for ever
  in finitely many states; `MaxLeaves` bounds the plans it revises.
* `chats`: four handlers suffice for a creation, a deletion and two that overlap it,
  or for two chats that undo each other's change; two of them may write one file.
  Chats are interchangeable, and so are handlers (`SYMMETRY`).
* `reload`: three changes let a file change while it is read and once more before it
  is read again, or two requests write it at once. An agent uses another one and a
  skill, or two workflows instead, so that an update leaves out a whole category; a
  removal and an addition list it before its sub-agent instead of behind it. The two
  workflows are interchangeable (`SYMMETRY`).
* `replies`: a call in two parts with another in between, text before, usage after;
  the network may cut after any line or inside one, and any line may be malformed.
  A line may follow the half of one that was read, so that a packet ends two lines.

**Fairness.** It is stated where a property needs it, and only of what the process
does by itself:

| run | assumed | because |
|---|---|---|
| `runs` (`StoppedRunEnds`) | weak, each run's own steps | promises the process settles (preparation, the provider's answer or its timeout, `finally`) are settled |
| `rules` (`UnattendedCheckEnds`) | weak, the steps of a check | the same |
| `task_runs` (`RunsSettle`) | weak, each run's steps, its recovery, and the deletion of the chat's file | `settle` runs after the recovery of all records; an `unlink` ends |
| `streams` (`ResponsesEnd`) | weak, beginning and end of a stream, each reader's and each save's steps | the loops of `consume` and of the responses, and reads and writes of files, go on; that a run ends is the business of the other modules |
| `workflow` (`StoppedEnds`) | weak, the runner's steps | its consumer pulls as long as there are events. Not of a node's end: a stopped run ends beside a node that never returns |
| `connections` (`LostSettles`) | weak, the answer of a handshake or a close; strong, the timers | the SDK's requests time out; a timer may be disarmed and set again while it waits, hence strong |
| `plans` (`RunEnds`) | weak, `Next` | providers and tools answer or fail; `RunEnds` shows that a limit to the iterations, not luck, ends a run |
| `replies` (`StreamsEnd`) | weak, the consumer, the timer, the read that an abort makes fail | `fetch` rejects when its signal is aborted |

Nothing is assumed of a user, of a tool, of a model or of another server: a
response that stays open because the model is silent is ended by the timer alone.

**Statements the models refute.** Where code and a document, message or test
disagree, the module has the statement as a definition that no run checks;
TLC violates it within a few states of the instance above.

| definition | who says so | what the code does |
|---|---|---|
| `AgentRun!RunningIsStoppable` | the message of `AgentSessionError` (`Agent.ts:68`): stop the session first | the `finally` of a refused `send` deletes the entry of the run that holds the session (`AgentDispatcher.ts:29`); `stop` then finds nothing |
| `AgentRun!StopFreesSession` | the same message | a stop before a tool or a request listens is not heard (`createAbortPromise.ts:13`), and the controller is gone |
| `ToolPermission!PermanentlyDenied` | the agent is told of a permanent denial (`BaseToolPermissionGuardrail.ts:130`) | two writes of the rules' file may end in either order (`JsonGuardrailRulesRepository.ts:40`); after a restart the denial is gone |
| `SessionHistory!ResultsHaveCalls` | `SessionSummarizer.spec.ts:243`: a call is never cut from its result | a delivery between the two hides the call from `findSafeSplitIndex`, which looks at the messages right before the split |
| `SessionHistory!DeliveredMessagesKept` | a delivered message is part of the chat | one that arrives while system prompts or the context are rebuilt is overwritten (`Agent.ts:1014`) |
| `SessionHistory!DurableWhenQuiet` with `Saving = FALSE` | a persistent task remembers its runs | its session is saved when it is created and never after a run (`Scheduler.ts:180`) |
| `TaskSchedule!FiresExactlyOnce` | the skill of the scheduler (`schedulerManagerSkillMd.ts:2`) | a fired one-off task is removed by reading and rewriting the file; if that read meets another write, the error is swallowed and the next start fires it again |
| `WorkFlowRun!StoppedIsFailed` | `WorkFlowRunner.spec.ts:213` | a run stopped between two nodes ends as completed |
| `WorkFlowRun!SessionsDestroyed` | `workflowManagerNodesMd.ts`: sessions of agent nodes last for one execution | a stop leaves the node's generator where it waits, and its `finally` (`AgentNode.ts:94`) is not reached |
| `MCPConnection!DeletedIsDisconnected` | `DeleteMCPTool.ts:10` | an attempt under way connects after the removal (`MCPConnectionManager.ts:135`) |
| `PlanExecution!CompletedNeverDiscarded` | `PlanAndExecuteStrategySystemPrompt.ts:12` | a revision keeps completed top steps, not the completed leaves of one that is under way (`PlanAndExecuteStrategy.ts:232`) |
| `ConfigReload!FileIsLive` | `README.md:68`: files are picked up live | what an agent's entry no longer names stays with the agent (`hydrateAgentConfig.ts:105` merges) |

What the passing runs say around these: the history loses no message of a run
(`OwnMessagesKept`), pairs are only separated by a delivery between them
(`PairsStayTogether`); rules are remembered as long as writes do not overlap; a
schedule is kept as long as no two of those who use the file meet
(`FiresAsOrdered`), and then registry and file agree; a run at its loop head or in
a tool that listens ends after a stop; a stopped workflow starts nothing more.
The premises are history variables (`calm`, `raced`, `inUse`, `unseen`, ...),
named where they are declared. What a premise excludes goes wrong in the code, and
in the models:

* Saves of a session that meet (two responses, a delivery, a request) may leave a
  file that does not parse, with which the process does not start again
  (`JsonSessionRepository.ts:114-116`). One that reads half a file throws; the web
  response it belongs to is then never ended (`WebChannelResponse.ts:49-52`), nor is
  one whose session was deleted. `clean`, `met` and `mixed` name where that happened.
* A crash between the creation of a session and the opening of its file loses it
  (`unmade`).
* Handlers that write the chats' file at once, of one chat or of two, undo each
  other's change or leave a file that no handler can read (`raced`, `torn`). The same
  goes for requests and the agents' file (`half`), which then has to be mended by hand.
* A delivery into a temporary session lets a second message in, whose response
  deletes the session under the first one's run.
* Nothing ends the run of an agent without a limit to its iterations, the default
  one included, if its model goes on calling tools or its steps go on failing.
* Pieces of a reply in the line that carries the finish reason are dropped by all
  four mappers (`OpenAIMapper.ts:324`).
* A line of a reply without choices makes the mapper throw where nobody closes the
  connection, and its timer is cleared (`OpenAIProvider.ts:132`).

## 4. The proofs

TLAPS checks the theorems below for all values of the constants; the runs check
the same formulas on the instances above.

| module | theorems | for all |
|---|---|---|
| `AgentRun_proofs` | `SessionsAlwaysAgree`, `StopHitsItsRun`, `LateToolsAreBounded`, `RefinesLock` | runs, sessions, agents, requests, numbers of forced calls (`AgentRunAssumption`) |
| `ToolPermission_proofs` | `Lawful`, `DenialsStay` | sessions, guardrails, keys, patterns, numbers of writes (`ToolPermissionAssumption`) |
| `Execution_proofs` | `BudgetHolds`, `NeverSilent`, `PlanStaysTrue`, `TopStepsStay` | plans, batches of calls, judgements, budgets with and without limits, forced calls (`BoundsArePositive`, `LimitsAreNumbers`, `DraftsHaveSteps`) |
| `ChatSessions_proofs` | `ChatsStaySound`, `DeletedExactly`, `ActiveStaysExact` | chats, agents, handlers, numbers of sessions (`BoundsAreNatural`) |
| `Streams_proofs` | `EventsAreAllSent`, `BusStaysCurrent`, `SessionsOutliveRuns` | sessions, workflow runs, numbers of streams, later clients and events (`SessionStreamAssumption`) |
| `Streams_proofs` | `RepliesStayTrue` | numbers of lines, of lines unread, of pieces of a reply and of requests (`ModelStreamAssumption`) |
| `Scheduler_proofs` | `RecordsStayTrue`, `NothingEverPilesUp`, `OutcomesAreFinal` | tasks, numbers of firings, crashes, deletions and kept records (`TaskRunAssumption`) |
| `Scheduler_proofs` | `TimerStaysTrue`, `AlwaysFiresAsOrdered` | tasks, moments of the clock, numbers of operations, of those in flight and of handlers, with and without crashes (`TaskScheduleAssumption`) |
| `Configuration_proofs` | `StatusStaysHonest`, `NoRetryAfterwards` | clients, numbers of attempts, overlapping calls, transports, requests and drops (`MCPConnectionAssumption`) |
| `Configuration_proofs` | `RegistriesStayTrue`, `HeldStaysRegistered` | agents, skills, workflows, entries, files at the start, numbers of changes, handlers and restarts (`ConfigReloadAssumption`) |
| `SessionHistory_proofs` | `WireStaysCoherent`, `OwnMessagesStay`, `QuietIsDurable` (the last for `Saving = TRUE`) | numbers of messages, runs, deliveries, saves, crashes and preserved messages (`SessionHistoryAssumption`) |
| `Execution_proofs` | `NodesRunOnce`, `CompletedStaysTrue`, `StoppedBeginsNothing` | graphs, nested or not, numbers of turns, nodes that may fail (`WorkFlowRunAssumption`) |
| `Execution_proofs` | `WalkStaysSound` | the same, if the loops are nested (`Nested`) |

The assumptions say that numbers are natural numbers, that `None` and the other
markers are none of the values they stand beside, and that requests are well
typed. None of the properties is inductive by itself:

* **`AgentRun`.** `IInv` adds `LiveJobs` (a run inside `send` has a job that names a
  real agent and session), `Sharing` (exclusion, status, controllers and dispatcher
  entries together: a send is accepted on an idle session, where by
  `StatusTracksRun` no run is in its body; conversely the status is freed by the
  only run there is, by `OneRunPerSession`) and `LateAccount` (tools started late +
  forced calls still to make + a call in flight never exceed `LateBound`;
  `LateToolsBounded` alone does not exclude a stopped run with an exhausted
  allowance and another call on its way). Most actions move one run within its body
  and touch no shared map; `Within` and its lemmas treat them at once. The
  refinement shows that accept, refuse and finish are `Acquire`, `Refuse` and
  `Release`, and that the rest leaves the mapped state alone.
* **`ToolPermission`.** `IInv` says of each session what its check may believe at
  each stage (`InOrder`): the rules a guardrail read are still those of its stage
  unless a change is on record, and what passed one guardrail is either ruled or
  approved. The heart is the lemmas on the rules themselves: `MapDecides` (exact
  keys before patterns, a denial before an allowance), `DenialDecides` and
  `RuleAgrees` (the three levels), `ApprovalIsSaid`.
* **`PlanExecution`.** `WithinBudget` needs to know that a phase that asks the model
  again was entered with room under each limit there is, unless it is the first
  (`RoomLeft`), `EndsWithAMessage` that a message can
  only be missing inside a subtask (`OpenInSubtask`). Every action charges in one
  of two ways, and the lemma `Charged` says what either leaves.
  `PlanIsTrue` rests on `Reached`: the leaves of a plan are in order, no top-level
  step is without one, and exactly the first `index + frontier` of them are done;
  `Stage` says which leaf each phase works on. `TopStepsIs`, `HydrateIs`, `KeptIs`,
  `RevisedIs` and `MarkedIs` say what the operators on plans return; with them
  `TopStepsStay` shows that neither a revision nor a judgement takes back or moves
  a top-level step that was completed.
* **`ChatSessions`.** `IInv` follows each handler (`HandlerOK`): the state it holds of
  the chats' file could be written at any time (`Sound`), the session it works on
  was created, it has seen all that was told to its chat unless it is stale, and a
  deleted session that was not in use is in no handler's hands but those of its
  removal. `Marked` says which writes under way may have met another one (`met`)
  or lost their file (`lost`): any other leaves its file whole. `Kept` and `Gone` tie
  cache, files and rules to that, `ActiveOK` adds that a session has one message at
  most unless it is blurred: otherwise the end of one would free the other's. `Silent`
  and `Quiet` treat the steps only one handler knows of; creation, beginning and end of
  each write, deletion, crash and start have a proof each.
* **`SessionStream`.** The bus replaces and deletes entries without asking whose they
  are. That no stream under way loses its entry (`StreamsTracked`) rests on the agent
  holding a session for exactly one open stream (`HolderIsOpen`) and on `Settled`: no
  response of an earlier stream is about to delete an entry, or to take its
  session away, while a later stream of that session is under way. `NoEventLost` is
  `AllServed`, which does not need the bus: a reader holds its stream, whatever takes
  its place. The saves touch no stream but in a delivery, whose session is on record.
* **`TaskRun`.** `RunOK` says what an execution may rely on in each of its phases:
  its record has no outcome yet, what it said is in the chat (and, once its own write
  began, in the file and in every copy that is being written: `InFile`), its
  session is the one of its task, and if its task is gone the deletion
  has seen it. `RecordOK` adds that a chat that was deleted under its runs is
  written again only with all that was said in it: `CompletedWasDelivered` alone would
  not survive the next save. `Cleaned` follows a deletion through its three steps.
  For `HistoryBounded`, `NewestAreFew` maps each kept record to the number of newer
  ones, which is an injection into `0 .. Keep - 1`.
* **`TaskSchedule`.** Both properties are about moments; the invariant is about what
  is under way between them. `OnItsWay` says that an operation that is alone brings
  the file exactly where the registry is or will be (`Aim`): what a patch does not
  name is the same in the file and in what the caller saw. `Obeyed` says that no
  entry of the registry, or of the file while the process is down, is due for an
  occurrence that fired or against what its caller was told, and `Told` that no
  operation under way brings one back. `BegunAlone` shows that the tick that keeps
  the premise fires a single task, `RewrittenIs` that what is written is `Aim`.
* **`MCPConnection`.** `LostIsRetried` allows an attempt under way in place of a timer,
  which no step preserves. `Retried` drops that: whenever the manager shows a wanted
  connection as lost, a timer is set. It needs to know what else writes that status.
  `Shape` says that a disconnect, a removal or a replacement waits only on clients
  that were told so before (`manual`), `Fresh` and `AddedOnce` that the registration of
  a client is over before there is a connection to lose. The lemmas on `Cleared`,
  `Scheduled` and `Lost` say once what each helper makes of a client's record.
* **`ConfigReload`.** Both properties are about moments at which nothing is under way.
  Before that, `AgentsFollow`, `SkillFollows` and `FlowFollows` say of a file with no
  event to come: the handler of its updater that was called last has read what the
  file says, or it has been applied, and those still waiting were called before it
  (`AllLate`). The updaters skip what their fingerprints know, so `PrintsAreTrue` says
  that a fingerprint is that of what is registered, and `EventsAreTrue` that a handler
  for a removal runs only while the file is gone or being written again. Every end
  of a write, also of one that met another, is followed by an event, so that what the
  file holds in the end is read again. What an agent holds is true at all
  times (`HeldIsTrue`): each updater that changes an object changes its holders
  in the same step. The lemmas `ApplyAgentsIs`, `ApplySkillIs`, `ApplyFlowsIs` and the
  like say what each handler leaves, `OvertakenIs`, `ServedIs` and `UnlinkedIs` what
  becomes of the handlers beside it, and one lemma for each part of `ReloadInv` goes
  through the actions (`FilesStayFit` to `HeldStaysTrue`).
* **`SessionHistory`.** Every list of messages there is, in memory, in the hands of a
  run, on disk and in each write under way, is `Sound`: its messages are in the order
  they were added, a result is directly behind its call unless the scheduler
  delivered something between the two, and the messages of earlier runs come first.
  The last part is what keeps the optimizers harmless: what they replace is a prefix
  (`PastIsPrefix`), and the place where they cut it never separates a call from the
  result behind it (`SafeSplitIs`, `OptimizedSound`). `Opened` says that the call that
  waits for its result is the last message, `Settled` that a list nobody is working
  on has no current calls. A file that nobody writes holds what a commit of the
  messages would write (`Saved`); that this lasts is `CommitAgain`, a commit of what
  was committed. `Array.filter` is the recursive function `Picked`. Nothing but its
  recursion is assumed of it: `PickedSteps` shows that the recursion has a solution, and
  `PickedIs` what it returns, by an induction over sets of numbers that follows from
  the well-foundedness of `<` (`Induction`).

* **`WorkFlowRun`.** A step of a stream is first described by what it does to the
  streams and to the executions (`Advances`, `Opened`), so that each part of `WalkInv`
  is proved against five kinds of steps and the opening of streams instead of eighteen
  actions. `Numbered` counts the passes of an execution from one, so that a stream that
  opens is a new one. `Turns` says who works: the stream of the last pass, and only if
  the entry is marked; this alone gives `NoNodeTwice`. `CompletedIsWhole` needs `Tree`
  (a stream is done only after all below it are) and that the run's file is mixed only
  while somebody writes it (`FileIsTrue`). `NothingLeftBehind` speaks of the end of a
  run, and follows from what has become of each output before the end: whoever put it
  out works no more, and an output other than into a branch is the last of its execution
  (`Sends`); the entries behind it have received it once its stream forwards
  (`Delivered`); an execution that is ready and never ran is still to be asked by a
  stream that forwards to it (`Asked`), unless the run was stopped; and a loop whose
  branch has come back has taken a later pass or is over (`Returned`). For the last one
  has to know that the id of a branch names a pass that has put it out (`Paths`).
* **Turns in order.** `validate` does not look at how loops lie in one another, and
  a connection from elsewhere into a `loop` port could start a turn before the last has
  come back. `LoopsTakeTurns` is proved for graphs whose loops are
  nested: there is an assignment of places to nodes, a path of branches each, along
  which a connection into a branch goes one deeper and the one back to the loop one
  up (`Nested`). Then an execution's id is the place of its node (`Placed`), so a first
  turn is opened only by an output from before the loop and a later one only by the
  branch of the turn before (`InOrder`). `ForTurns` counts a for loop's outputs against
  its state. That the instance is such a graph is an `ASSUME` of its module, which TLC
  evaluates; the other theorems about `WorkFlowRun` do not need it.

* **`ModelStream`.** `ReplyInv` says where every piece of a reply is. The lines on the
  wire and those of the packet join without a gap (`Joins`), each beginning with the
  piece behind the one the last ended with, so that what the strategy has taken is at
  any time a beginning of what the provider hands on (`GotIs`): the network only moves the
  place where the wire ends and the packet begins (`ReadJoins`, `SortJoins`). Every step
  but the taking of a piece and a new request leaves that beginning as it is (`Steady`).
  `TextsAreTrue` says that each piece of text or thinking in it is in exactly one
  message or buffer, in order; `CallsAreTrue` the same of the calls and their indexes, and
  that a call's name comes from its first piece. For `MessagesAreWhole` one has to
  know what the strategy collects after what it gave last (`Follows`): a buffer of the
  same type with nothing in it was flushed because another type is next.
  `IsDrained` and `UsageComes` say what is left when the stream is over: nothing on the
  way, and the usage last reported taken; so a reply that was not cut is whole and
  charged in full.

Only model-checked: liveness (`StoppedRunEnds`, `UnattendedCheckEnds`, `RunsSettle`,
`ResponsesEnd`, `StoppedEnds`, `LostSettles`, `RunEnds`, `StreamsEnd`), which needs
fairness.

## 5. What is abstracted, and what is not modelled

**Abstractions a reader should know of.**

* `AgentRun`: the strategy's decisions are a tool call, another event or the end.
* `ToolPermission`: input and output guardrails allow everything in this code.
* `TaskSchedule`: hand edits and removal of the tasks' file are left out.
* `PlanExecution`: plans have at most two levels; tokens, cost and duration are
  compared where the iterations are and may end a run at any of them (`Throw`). What
  is counted without a limit is not followed.
* `TaskRun`: the chat is saved by deliveries only; those of responses and requests
  are in `SessionStream` and `ChatSessions`.
* `WorkFlowRun`: the graph is one that `validate` accepts (`WorkFlowRunAssumption`).
  The workflow tools call it; the requests that create and start a workflow do not, so
  nothing is said of a graph that only they let in.
* `ChatSessions`: sessions are whole; of a run only its end is there.
* `ConfigReload`: entries that do not hydrate, an id listed twice, the editing of single fields
  (`agent_update`) and skills attached to a running agent are left out. `update` reads the
  agents' file twice with no write of its own between; that is one reading. What the model
  has: a merge keeps what an entry no longer names, in the agent and, by `updateAgent`, in
  the file; the default agents are written where there are none; the removal of any workflow
  file clears all workflows and the agents' lists (`WorkFlowUpdater.ts:73`); the
  start hydrates agents before workflows are registered, in the order of the file
  (`index.ts:378-424`); fingerprints are stale after a deletion by the API; a
  workflow file that is torn while another is reloaded is unregistered.
* `ModelStream`: the server writes only while the client waits, and the timer fires
  only where it is felt; otherwise neither is observable. Finish reasons are not read
  by anyone, and a provider has started before it is used (`index.ts:201`). What the
  model shows besides its properties: what the line with the finish reason carries in
  addition is lost, and so is a last line without a newline; a malformed line leaves its
  connection open until the server ends it, which is not modelled; a reply that the server cuts off
  counts as finished, and its calls run with whatever of their arguments
  parses, `{}` otherwise; Ollama and LM Studio call a timeout while connecting "Could not
  reach"; a stopped run leaves its generator suspended, so the connection is
  closed by the 30 s timer alone.

**Not modelled.**

| part | reason |
|---|---|
| request mapping, model lists, `generate` without a stream | one conversion and one request; no state |
| memory, skill resources, most tools, commands, workflow nodes' own work | files, processes and requests of one step; the wait they cause is a step of the modules that call them |
| observability, console channel, rendering in Telegram, routing, validation, authentication | input and output |
| editing and validating workflows | synchronous, on a copy that is saved at the end |
| what a connected MCP client is used for | request and answer of the SDK |
| titles, working directories, usage of sessions; tokens, cost and duration of the budget | written and shown only |
| the updater of channels | it stops and starts a channel; both are wiring |

The modelled lines are about a sixth of the implementation's. Most of the rest is
tools with their schemas and descriptions, type declarations, request and model
tables, and prompts: text and conversions without an order that could go wrong.

**Hazards seen and not covered.** The traces of `LoggerObservability` are never
removed (`LoggerObservability.ts:27`), nor are the entries of finished workflow runs
(`WorkFlowRunEventBus.ts:16`). A torn rules file blocks the next start
(`JsonGuardrailRulesRepository.ts:29`). When the model returns no choice, the summary
that replaces the messages is a placeholder (`SessionSummarizer.ts:128`). Writes of
a workflow run's file are not serialised (`JsonWorkFlowRunRepository.ts:49`), and runs
that a crash left running are not recovered at the start. An MCP server whose first
connection fails is not tried again; a REST disconnect reconnects after a second;
the first of two overlapping registrations is not closed, and a slow removal
deletes the entry of a newer one. Revisions of a plan are bounded by the budget
alone, if the agent has one; its check discards a final summary made in its last iteration; all
tool calls of one response are made, also past `maxToolCalls`, and those after
`done` are dropped; structured output is extracted outside the budget.
