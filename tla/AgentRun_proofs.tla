--------------------------- MODULE AgentRun_proofs ---------------------------
(***************************************************************************)
(* AgentRun for every number of runs, sessions, agents and forced calls.   *)
(*                                                                         *)
(* The invariant IInv is the conjunction of what the runs check and of two *)
(* facts that make it inductive: a run in its body has a real job          *)
(* (LiveJobs), and the tools a stopped run started, the forced calls it    *)
(* still has to make and the call it has in flight never exceed the bound  *)
(* together (LateAccount).                                                 *)
(***************************************************************************)
EXTENDS AgentRun, TLAPS

\* A send under way has an agent and a session of the system.
LiveJobs == \A r \in Runs : InSend(r) => job[r] \in AgentRunRequest

\* A call that is decided on, or may still be, and has not started its tool.
InFlight(r) == pc[r] \in {"thinking", "called", "forced", "asked", "waiting", "granted"}

LateAccount ==
    \A r \in Runs :
        /\ pc[r] = "new" => r \notin aborted
        /\ r \notin aborted => late[r] = 0
        /\ late[r] + job[r].forced + (IF InFlight(r) THEN 1 ELSE 0) <= LateBound

\* Run q is alive, not stopped, and works for agent a on session s.
Owns(q, a, s) ==
    InBody(q) /\ q \notin aborted /\ job[q].agent = a /\ job[q].session = s

\* Where each session's runs, its status, its controllers and the dispatcher's
\* entry agree: the part of the invariant that is about sharing sessions.
Sharing == OneRunPerSession /\ StatusTracksRun /\ ControllersMatchRuns /\ ActiveIsSending

IInv == TypeOK /\ LiveJobs /\ Sharing /\ PendingMatchesWaiting /\ LateAccount

-----------------------------------------------------------------------------
(***************************************************************************)
(* Most actions only move one run within its body.  They are treated once: *)
(* such a step leaves the shared maps alone and keeps the run's job, up to *)
(* the count of its forced calls.                                          *)
(***************************************************************************)
SameJob(r) == /\ job'[r].agent = job[r].agent
              /\ job'[r].session = job[r].session

Within(r) ==
    /\ r \in Runs
    /\ InBody(r) /\ InBody(r)'
    /\ \E to \in PCs : Goto(r, to)
    /\ \/ job' = job
       \/ \E n \in 0..MaxForced : job' = [job EXCEPT ![r].forced = n]
    /\ UNCHANGED <<status, active, controllers, aborted>>

\* A step within the body keeps the types of pc and job.
LEMMA WithinTypes ==
    ASSUME TypeOK, LiveJobs, NEW r, Within(r)
    PROVE  /\ pc' \in [Runs -> PCs]
           /\ job' \in [Runs -> AgentRunRequest \cup {NoJob}]
           /\ LiveJobs'
           /\ \A q \in Runs : SameJob(q)
           /\ \A q \in Runs : InBody(q)' <=> InBody(q)
           /\ \A q \in Runs : InSend(q)' <=> InSend(q)
<1>1. pc' \in [Runs -> PCs]
  BY DEF TypeOK, Within, Goto
<1>2. \A q \in Runs : q # r => pc'[q] = pc[q] /\ job'[q] = job[q]
  BY DEF TypeOK, Within, Goto
<1>3. job[r] \in AgentRunRequest
  BY DEF LiveJobs, Within, InBody, InSend
<1>4. job'[r] \in AgentRunRequest /\ SameJob(r)
  <2>1. CASE job' = job
    BY <2>1, <1>3 DEF SameJob
  <2>2. CASE \E n \in 0..MaxForced : job' = [job EXCEPT ![r].forced = n]
    BY <2>2, <1>3 DEF SameJob, AgentRunRequest, TypeOK, Within
  <2> QED BY <2>1, <2>2 DEF Within
<1>5. job' \in [Runs -> AgentRunRequest \cup {NoJob}]
  BY <1>2, <1>4 DEF TypeOK, Within
<1>6. \A q \in Runs : (InBody(q)' <=> InBody(q)) /\ (InSend(q)' <=> InSend(q))
  BY <1>2 DEF Within, InBody, InSend
<1>7. \A q \in Runs : SameJob(q)
  BY <1>2, <1>4 DEF SameJob
<1>8. LiveJobs'
  BY <1>2, <1>4, <1>6 DEF LiveJobs
<1> QED BY <1>1, <1>5, <1>6, <1>7, <1>8

\* A step within the body keeps what the sessions agree on.
LEMMA WithinSharing ==
    ASSUME TypeOK, LiveJobs, Sharing, NEW r, Within(r)
    PROVE  Sharing'
<1>1. /\ \A q \in Runs : SameJob(q)
      /\ \A q \in Runs : InBody(q)' <=> InBody(q)
      /\ \A q \in Runs : InSend(q)' <=> InSend(q)
  BY WithinTypes
<1>2. UNCHANGED <<status, active, controllers, aborted>>
  BY DEF Within
<1>3. OneRunPerSession'
  BY <1>1 DEF Sharing, OneRunPerSession, SameJob
<1>4. StatusTracksRun'
  BY <1>1, <1>2 DEF Sharing, StatusTracksRun, SameJob
<1>5. ControllersMatchRuns'
  <2>1. ASSUME NEW a \in Agents, NEW s \in Sessions, controllers[a][s] # None
        PROVE  controllers[a][s] \in Runs
    BY <2>1 DEF TypeOK
  <2> QED BY <1>1, <1>2, <2>1 DEF Sharing, ControllersMatchRuns, SameJob
<1>6. ActiveIsSending'
  BY <1>1, <1>2 DEF Sharing, ActiveIsSending, SameJob
<1> QED BY <1>3, <1>4, <1>5, <1>6 DEF Sharing

\* Which moves within the body keep the account of late tools: the forced calls
\* and the call in flight do not grow together, unless a run that was not
\* stopped asks its strategy.
Affordable(r) ==
    /\ late' = late
    /\ \/ job'[r].forced + (IF InFlight(r)' THEN 1 ELSE 0)
              <= job[r].forced + (IF InFlight(r) THEN 1 ELSE 0)
       \/ job'[r].forced = 0 /\ r \notin aborted

\* An affordable step within the body keeps the account.
LEMMA WithinAccount ==
    ASSUME TypeOK, LiveJobs, LateAccount, NEW r, Within(r), Affordable(r)
    PROVE  LateAccount'
<1> USE AgentRunAssumption
<1>1. /\ \A q \in Runs : q # r => pc'[q] = pc[q] /\ job'[q] = job[q]
      /\ aborted' = aborted /\ late' = late
  BY DEF TypeOK, Within, Goto, Affordable
<1>2. /\ job[r] \in AgentRunRequest /\ job'[r] \in AgentRunRequest
      /\ job[r].forced \in 0..MaxForced /\ job'[r].forced \in 0..MaxForced
  BY WithinTypes DEF LiveJobs, Within, InBody, InSend, AgentRunRequest
<1>3. late[r] \in Nat /\ LateBound \in Nat /\ LateBound >= 1 /\ LateBound >= MaxForced
  BY DEF TypeOK, Within, LateBound
<1>4. late[r] + job'[r].forced + (IF InFlight(r)' THEN 1 ELSE 0) <= LateBound
  BY <1>2, <1>3 DEF LateAccount, Affordable, Within
<1>5. \A q \in Runs : q # r => (InFlight(q)' <=> InFlight(q))
  BY <1>1 DEF InFlight
<1>6. pc'[r] # "new" /\ pc[r] # "new" /\ r \in Runs
  BY DEF Within, InBody
<1>7. \A q \in Runs : q # r =>
         late'[q] + job'[q].forced + (IF InFlight(q)' THEN 1 ELSE 0) <= LateBound
  BY <1>1, <1>5 DEF LateAccount
<1>8. \A q \in Runs : /\ pc'[q] = "new" => q \notin aborted'
                      /\ q \notin aborted' => late'[q] = 0
  BY <1>1, <1>6 DEF LateAccount
<1> QED BY <1>1, <1>4, <1>7, <1>8 DEF LateAccount

\* A step within the body that keeps pending and waiting in step, and is
\* affordable, keeps the whole invariant.
LEMMA WithinInvariant ==
    ASSUME IInv, NEW r, Within(r), Affordable(r), PendingMatchesWaiting',
           pending' \in SUBSET Runs
    PROVE  IInv'
<1>1. TypeOK'
  BY WithinTypes DEF IInv, TypeOK, Within, Affordable
<1>2. LiveJobs'
  BY WithinTypes DEF IInv
<1>3. Sharing'
  BY WithinSharing DEF IInv
<1>4. LateAccount'
  BY WithinAccount DEF IInv
<1> QED BY <1>1, <1>2, <1>3, <1>4 DEF IInv

-----------------------------------------------------------------------------
\* The actions that only move the program counter of one run.
Plain(r) ==
    \/ Prepared(r) \/ PrepareFails(r) \/ LoopHead(r)
    \/ StrategyCall(r) \/ StrategyEvent(r) \/ StrategyEnds(r)
    \/ CheckAllows(r) \/ CheckDenies(r) \/ CheckFails(r)
    \/ ToolReturns(r) \/ ToolAborted(r) \/ Abandon(r)

\* They keep the invariant.
LEMMA PlainInvariant ==
    ASSUME IInv, NEW r \in Runs, Plain(r)
    PROVE  IInv'
<1> USE AgentRunAssumption
<1>1. /\ TypeOK /\ PendingMatchesWaiting
      /\ pc[r] \in PCs
      /\ job[r].forced \in 0..MaxForced
  BY DEF IInv, TypeOK, AgentRunRequest, NoJob
<1>2. PICK to \in PCs :
         /\ Goto(r, to)
         /\ to \notin {"new", "leaving", "done", "asked", "waiting"}
         /\ pc[r] \notin {"new", "leaving", "done", "waiting"}
         /\ \/ to \notin {"thinking", "called", "forced", "granted"}
            \/ pc[r] \in {"thinking", "called"}
            \/ to = "thinking" /\ r \notin aborted /\ job[r].forced = 0
  <2>1. CASE Prepared(r) BY <2>1 DEF Prepared, PCs
  <2>2. CASE PrepareFails(r) BY <2>2 DEF PrepareFails, PCs
  <2>3. CASE LoopHead(r) BY <2>3 DEF LoopHead, PCs
  <2>4. CASE StrategyCall(r) BY <2>4 DEF StrategyCall, PCs
  <2>5. CASE StrategyEvent(r) BY <2>5 DEF StrategyEvent, PCs
  <2>6. CASE StrategyEnds(r) BY <2>6 DEF StrategyEnds, PCs
  <2>7. CASE CheckAllows(r) BY <2>7 DEF CheckAllows, PCs
  <2>8. CASE CheckDenies(r) BY <2>8 DEF CheckDenies, PCs
  <2>9. CASE CheckFails(r) BY <2>9 DEF CheckFails, PCs
  <2>10. CASE ToolReturns(r) BY <2>10 DEF ToolReturns, PCs
  <2>11. CASE ToolAborted(r) BY <2>11 DEF ToolAborted, PCs
  <2>12. CASE Abandon(r) BY <2>12 DEF Abandon, PCs
  <2> QED BY <2>1, <2>2, <2>3, <2>4, <2>5, <2>6, <2>7, <2>8, <2>9, <2>10, <2>11, <2>12 DEF Plain
<1>3. UNCHANGED <<status, active, controllers, aborted, pending, job, late>>
  BY DEF Plain, Prepared, PrepareFails, LoopHead, StrategyCall, StrategyEvent, StrategyEnds,
         CheckAllows, CheckDenies, CheckFails, ToolReturns, ToolAborted, Abandon
<1>4. pc'[r] = to /\ \A q \in Runs : q # r => pc'[q] = pc[q]
  BY <1>1, <1>2 DEF TypeOK, Goto
<1>5. Within(r)
  BY <1>2, <1>3, <1>4 DEF Within, InBody
<1>6. Affordable(r)
  BY <1>1, <1>2, <1>3, <1>4 DEF Affordable, InFlight
<1>7. PendingMatchesWaiting' /\ pending' \in SUBSET Runs
  BY <1>1, <1>2, <1>3, <1>4 DEF PendingMatchesWaiting, TypeOK
<1> QED BY <1>5, <1>6, <1>7, WithinInvariant

\* A forced call trades one forced call for one in flight.
LEMMA ForcedCallInvariant ==
    ASSUME IInv, NEW r \in Runs, ForcedCall(r)
    PROVE  IInv'
<1> USE AgentRunAssumption
<1>1. /\ TypeOK /\ PendingMatchesWaiting
      /\ job[r] \in AgentRunRequest
      /\ job[r].forced \in 0..MaxForced /\ job[r].forced - 1 \in 0..MaxForced
  BY DEF IInv, LiveJobs, InSend, ForcedCall, AgentRunRequest
<1>2. /\ pc'[r] = "forced" /\ pc[r] = "ready"
      /\ \A q \in Runs : q # r => pc'[q] = pc[q]
      /\ job' = [job EXCEPT ![r].forced = job[r].forced - 1]
      /\ UNCHANGED <<status, active, controllers, aborted, pending, late>>
  BY <1>1 DEF ForcedCall, Goto, TypeOK
<1>3. job'[r].forced = job[r].forced - 1
  BY <1>1, <1>2 DEF TypeOK, AgentRunRequest
<1>4. Within(r)
  BY <1>1, <1>2 DEF Within, InBody, ForcedCall, PCs
<1>5. Affordable(r)
  BY <1>1, <1>2, <1>3 DEF Affordable, InFlight
<1>6. PendingMatchesWaiting' /\ pending' \in SUBSET Runs
  BY <1>1, <1>2 DEF PendingMatchesWaiting, TypeOK
<1> QED BY <1>4, <1>5, <1>6, WithinInvariant

\* Asking, registering and deciding move a run in and out of "waiting" together
\* with its entry in the pending map.
LEMMA RequestInvariant ==
    ASSUME IInv, NEW r \in Runs,
           Ask(r) \/ Register(r) \/ \E outcome \in Outcomes : Decide(r, outcome)
    PROVE  IInv'
<1> USE AgentRunAssumption
<1>1. /\ TypeOK /\ PendingMatchesWaiting
      /\ job[r].forced \in 0..MaxForced
  BY DEF IInv, TypeOK, AgentRunRequest, NoJob
<1>2. /\ pc[r] \in {"called", "asked", "waiting"}
      /\ UNCHANGED <<status, active, controllers, aborted, job, late>>
      /\ \E to \in {"asked", "waiting", "granted", "ready", "unwinding"} :
           /\ Goto(r, to)
           /\ pending' = IF to = "waiting" THEN pending \cup {r} ELSE pending \ {r}
  <2>1. CASE Ask(r)
    BY <2>1, <1>1 DEF Ask, PendingMatchesWaiting
  <2>2. CASE Register(r)
    BY <2>2 DEF Register
  <2>3. CASE \E outcome \in Outcomes : Decide(r, outcome)
    BY <2>3, <1>1 DEF Decide, Outcomes, PendingMatchesWaiting
  <2> QED BY <2>1, <2>2, <2>3
<1>3. PICK to \in {"asked", "waiting", "granted", "ready", "unwinding"} :
           /\ pc'[r] = to
           /\ Goto(r, to)
           /\ \A q \in Runs : q # r => pc'[q] = pc[q]
           /\ pending' = IF to = "waiting" THEN pending \cup {r} ELSE pending \ {r}
  BY <1>1, <1>2 DEF Goto, TypeOK
<1>4. Within(r)
  BY <1>2, <1>3 DEF Within, InBody, PCs
<1>5. Affordable(r)
  BY <1>1, <1>2, <1>3 DEF Affordable, InFlight
<1>6. PendingMatchesWaiting' /\ pending' \in SUBSET Runs
  BY <1>1, <1>2, <1>3 DEF PendingMatchesWaiting, TypeOK
<1> QED BY <1>4, <1>5, <1>6, WithinInvariant

-----------------------------------------------------------------------------
\* Starting the tool spends the call in flight; only here does late grow.
LEMMA StartToolInvariant ==
    ASSUME IInv, NEW r \in Runs, StartTool(r)
    PROVE  IInv'
<1> USE AgentRunAssumption
<1>1. /\ TypeOK /\ LiveJobs /\ Sharing /\ PendingMatchesWaiting /\ LateAccount
      /\ job[r].forced \in 0..MaxForced /\ late[r] \in Nat /\ LateBound \in Nat
  BY DEF IInv, TypeOK, AgentRunRequest, NoJob, LateBound
<1>2. /\ pc[r] \in {"granted", "forced"} /\ pc'[r] \in {"executing", "deaf"}
      /\ \A q \in Runs : q # r => pc'[q] = pc[q] /\ late'[q] = late[q]
      /\ late'[r] = IF r \in aborted THEN late[r] + 1 ELSE late[r]
      /\ UNCHANGED <<status, active, controllers, aborted, pending, job>>
      /\ \E to \in {"executing", "deaf"} : Goto(r, to)
  BY <1>1 DEF StartTool, Goto, TypeOK
<1>3. Within(r)
  BY <1>2 DEF Within, InBody, PCs
<1>4. TypeOK'
  <2>1. late' \in [Runs -> Nat]
    BY <1>1 DEF StartTool, TypeOK
  <2> QED BY <1>1, <1>2, <1>3, <2>1, WithinTypes DEF TypeOK
<1>5. LiveJobs'
  BY <1>1, <1>3, WithinTypes
<1>6. Sharing'
  BY <1>1, <1>3, WithinSharing
<1>7. PendingMatchesWaiting'
  BY <1>1, <1>2 DEF PendingMatchesWaiting
<1>8. LateAccount'
  BY <1>1, <1>2 DEF LateAccount, InFlight
<1> QED BY <1>4, <1>5, <1>6, <1>7, <1>8 DEF IInv

\* A run enters its body only when no other is in the session.
LEMMA SendAcceptedInvariant ==
    ASSUME IInv, NEW r \in Runs, NEW j \in Requests, SendAccepted(r, j)
    PROVE  IInv'
<1> USE AgentRunAssumption
<1>1. /\ TypeOK /\ LiveJobs /\ Sharing /\ PendingMatchesWaiting /\ LateAccount
      /\ OneRunPerSession /\ StatusTracksRun /\ ControllersMatchRuns /\ ActiveIsSending
  BY DEF IInv, Sharing
<1>2. /\ j \in AgentRunRequest /\ j.agent \in Agents /\ j.session \in Sessions
      /\ j.forced \in 0..MaxForced
  BY DEF AgentRunRequest
<1>3. /\ pc[r] = "new" /\ pc'[r] = "preparing" /\ job'[r] = j
      /\ status[j.session] = "idle"
      /\ \A q \in Runs : q # r => pc'[q] = pc[q] /\ job'[q] = job[q]
      /\ UNCHANGED <<aborted, pending, late>>
  BY <1>1 DEF SendAccepted, Goto, TypeOK
<1>4. /\ \A s \in Sessions : status'[s] = IF s = j.session THEN "running" ELSE status[s]
      /\ \A s \in Sessions : active'[s] = IF s = j.session THEN j.agent ELSE active[s]
      /\ \A a \in Agents, s \in Sessions :
            controllers'[a][s] = IF a = j.agent /\ s = j.session THEN r ELSE controllers[a][s]
  BY <1>1, <1>2 DEF SendAccepted, TypeOK
<1>5. \A q \in Runs : /\ InBody(q)' <=> InBody(q) \/ q = r
                      /\ InSend(q)' <=> InSend(q) \/ q = r
  BY <1>3 DEF InBody, InSend
<1>6. \A q \in Runs : InBody(q) => q # r /\ job[q].session # j.session
  BY <1>1, <1>2, <1>3 DEF StatusTracksRun, InBody
<1>7. TypeOK'
  <2>1. pc' \in [Runs -> PCs] /\ job' \in [Runs -> AgentRunRequest \cup {NoJob}]
    BY <1>1, <1>2 DEF SendAccepted, Goto, TypeOK, PCs
  <2>2. /\ status' \in [Sessions -> {"idle", "running"}]
        /\ active' \in [Sessions -> Agents \cup {None}]
        /\ controllers' \in [Agents -> [Sessions -> Runs \cup {None}]]
    BY <1>1, <1>2 DEF SendAccepted, TypeOK
  <2> QED BY <1>1, <1>3, <2>1, <2>2 DEF TypeOK
<1>8. LiveJobs'
  BY <1>1, <1>2, <1>3, <1>5 DEF LiveJobs
<1>9. OneRunPerSession'
  BY <1>1, <1>3, <1>5, <1>6 DEF OneRunPerSession
<1>10. StatusTracksRun'
  BY <1>1, <1>3, <1>4, <1>5, <1>6 DEF StatusTracksRun
<1>11. r \notin aborted
  BY <1>1, <1>3 DEF LateAccount
<1>12. ControllersMatchRuns'
  <2>1. ASSUME NEW a \in Agents, NEW s \in Sessions, controllers'[a][s] # None
        PROVE  \E q \in Runs : q = controllers'[a][s] /\ Owns(q, a, s)'
    <3>1. CASE a = j.agent /\ s = j.session
      BY <3>1, <1>3, <1>4, <1>5, <1>11 DEF Owns
    <3>2. CASE ~(a = j.agent /\ s = j.session)
      <4>1. controllers'[a][s] = controllers[a][s] /\ controllers[a][s] \in Runs
        BY <2>1, <3>2, <1>1, <1>4 DEF TypeOK
      <4>2. InBody(controllers[a][s]) /\ controllers[a][s] # r
        BY <2>1, <4>1, <1>1, <1>3 DEF ControllersMatchRuns, InBody
      <4> QED BY <2>1, <4>1, <4>2, <1>1, <1>3, <1>5 DEF ControllersMatchRuns, Owns
    <3> QED BY <3>1, <3>2
  <2>2. ASSUME NEW q \in Runs, InBody(q)', q \notin aborted'
        PROVE  controllers'[job'[q].agent][job'[q].session] = q
    <3>1. CASE q = r
      BY <3>1, <1>2, <1>3, <1>4
    <3>2. CASE q # r
      <4>1. InBody(q) /\ job'[q] = job[q] /\ job[q].session # j.session
        BY <3>2, <2>2, <1>3, <1>5, <1>6
      <4>2. job[q].agent \in Agents /\ job[q].session \in Sessions
        BY <4>1, <1>1 DEF LiveJobs, InBody, InSend, AgentRunRequest
      <4> QED BY <4>1, <4>2, <2>2, <1>1, <1>3, <1>4 DEF ControllersMatchRuns
    <3> QED BY <3>1, <3>2
  <2> QED BY <2>1, <2>2 DEF ControllersMatchRuns, Owns
<1>13. ActiveIsSending'
  <2>1. \A q \in Runs : InSend(q) => q # r
    BY <1>3 DEF InSend
  <2>2. ASSUME NEW s \in Sessions, active'[s] # None
        PROVE  \E q \in Runs : InSend(q)' /\ job'[q].session = s /\ job'[q].agent = active'[s]
    <3>1. CASE s = j.session
      BY <3>1, <1>3, <1>4, <1>5
    <3>2. CASE s # j.session
      BY <3>2, <2>1, <2>2, <1>1, <1>3, <1>4, <1>5 DEF ActiveIsSending
    <3> QED BY <3>1, <3>2
  <2> QED BY <2>2 DEF ActiveIsSending
<1>14. PendingMatchesWaiting'
  BY <1>1, <1>3 DEF PendingMatchesWaiting
<1>15. LateAccount'
  <2>1. late[r] = 0 /\ LateBound \in Nat /\ LateBound >= MaxForced
    BY <1>1, <1>11 DEF LateAccount, LateBound
  <2> QED BY <2>1, <1>1, <1>2, <1>3, <1>11 DEF LateAccount, InFlight
<1> QED BY <1>7, <1>8, <1>9, <1>10, <1>12, <1>13, <1>14, <1>15 DEF IInv, Sharing

\* A refused send overwrites the dispatcher's entry and nothing else.
LEMMA SendRefusedInvariant ==
    ASSUME IInv, NEW r \in Runs, NEW j \in Requests, SendRefused(r, j)
    PROVE  IInv'
<1> USE AgentRunAssumption
<1>1. /\ TypeOK /\ LiveJobs /\ Sharing /\ PendingMatchesWaiting /\ LateAccount
      /\ OneRunPerSession /\ StatusTracksRun /\ ControllersMatchRuns /\ ActiveIsSending
  BY DEF IInv, Sharing
<1>2. /\ j \in AgentRunRequest /\ j.agent \in Agents /\ j.session \in Sessions
      /\ j.forced \in 0..MaxForced
  BY DEF AgentRunRequest
<1>3. /\ pc[r] = "new" /\ pc'[r] = "leaving" /\ job'[r] = j
      /\ \A q \in Runs : q # r => pc'[q] = pc[q] /\ job'[q] = job[q]
      /\ UNCHANGED <<status, controllers, aborted, pending, late>>
  BY <1>1 DEF SendRefused, Goto, TypeOK
<1>4. \A s \in Sessions : active'[s] = IF s = j.session THEN j.agent ELSE active[s]
  BY <1>1, <1>2 DEF SendRefused, TypeOK
<1>5. /\ ~InBody(r) /\ ~InBody(r)' /\ ~InSend(r) /\ InSend(r)'
      /\ \A q \in Runs : InBody(q)' <=> InBody(q)
      /\ \A q \in Runs : InSend(q)' <=> InSend(q) \/ q = r
  BY <1>3 DEF InBody, InSend
<1>6. TypeOK'
  <2>1. /\ pc' \in [Runs -> PCs] /\ job' \in [Runs -> AgentRunRequest \cup {NoJob}]
        /\ active' \in [Sessions -> Agents \cup {None}]
    BY <1>1, <1>2 DEF SendRefused, Goto, TypeOK, PCs
  <2> QED BY <2>1, <1>1, <1>3 DEF TypeOK
<1>7. LiveJobs'
  BY <1>1, <1>2, <1>3, <1>5 DEF LiveJobs
<1>8. OneRunPerSession' /\ StatusTracksRun'
  BY <1>1, <1>3, <1>5 DEF OneRunPerSession, StatusTracksRun
<1>9. ActiveIsSending'
  <2>1. ASSUME NEW s \in Sessions, active'[s] # None
        PROVE  \E q \in Runs : InSend(q)' /\ job'[q].session = s /\ job'[q].agent = active'[s]
    <3>1. CASE s = j.session
      BY <3>1, <1>3, <1>4, <1>5
    <3>2. CASE s # j.session
      BY <3>2, <2>1, <1>1, <1>3, <1>4, <1>5 DEF ActiveIsSending
    <3> QED BY <3>1, <3>2
  <2> QED BY <2>1 DEF ActiveIsSending
<1>10. ControllersMatchRuns'
  <2>1. \A a \in Agents, s \in Sessions : controllers[a][s] # None => controllers[a][s] \in Runs
    BY <1>1 DEF TypeOK
  <2> QED BY <2>1, <1>1, <1>3, <1>5 DEF ControllersMatchRuns
<1>11. PendingMatchesWaiting'
  BY <1>1, <1>3 DEF PendingMatchesWaiting
<1>12. LateAccount'
  <2>1. late[r] = 0 /\ LateBound \in Nat /\ LateBound >= MaxForced
    BY <1>1, <1>3 DEF LateAccount, LateBound
  <2> QED BY <2>1, <1>1, <1>2, <1>3 DEF LateAccount, InFlight
<1> QED BY <1>6, <1>7, <1>8, <1>9, <1>10, <1>11, <1>12 DEF IInv, Sharing

\* The finally block of the run frees the session of the one run that was in it.
LEMMA FinishInvariant ==
    ASSUME IInv, NEW r \in Runs, Finish(r)
    PROVE  IInv'
<1> USE AgentRunAssumption
<1> DEFINE a0 == job[r].agent
           s0 == job[r].session
<1>1. /\ TypeOK /\ LiveJobs /\ Sharing /\ PendingMatchesWaiting /\ LateAccount
      /\ OneRunPerSession /\ StatusTracksRun /\ ControllersMatchRuns /\ ActiveIsSending
  BY DEF IInv, Sharing
<1>2. /\ pc[r] = "unwinding" /\ pc'[r] = "leaving"
      /\ \A q \in Runs : q # r => pc'[q] = pc[q]
      /\ UNCHANGED <<active, aborted, pending, job, late>>
  BY <1>1 DEF Finish, Goto, TypeOK
<1>3. a0 \in Agents /\ s0 \in Sessions /\ InBody(r)
  BY <1>1, <1>2 DEF LiveJobs, InBody, InSend, AgentRunRequest
<1>4. /\ \A s \in Sessions : status'[s] = IF s = s0 THEN "idle" ELSE status[s]
      /\ \A a \in Agents, s \in Sessions :
            controllers'[a][s] = IF a = a0 /\ s = s0 THEN None ELSE controllers[a][s]
  BY <1>1, <1>3 DEF Finish, TypeOK
<1>5. \A q \in Runs : /\ InBody(q)' <=> InBody(q) /\ q # r
                      /\ InSend(q)' <=> InSend(q)
  BY <1>2 DEF InBody, InSend
<1>6. \A q \in Runs : InBody(q) /\ q # r => job[q].session # s0
  BY <1>1, <1>3 DEF OneRunPerSession
<1>7. TypeOK'
  <2>1. pc' \in [Runs -> PCs]
    BY <1>1 DEF Finish, Goto, TypeOK, PCs
  <2>2. /\ status' \in [Sessions -> {"idle", "running"}]
        /\ controllers' \in [Agents -> [Sessions -> Runs \cup {None}]]
    BY <1>1, <1>3 DEF Finish, TypeOK
  <2> QED BY <1>1, <1>2, <2>1, <2>2 DEF TypeOK
<1>8. LiveJobs' /\ OneRunPerSession'
  BY <1>1, <1>2, <1>5 DEF LiveJobs, OneRunPerSession
<1>9. StatusTracksRun'
  BY <1>1, <1>2, <1>3, <1>4, <1>5, <1>6 DEF StatusTracksRun
<1>10. ControllersMatchRuns'
  <2>1. ASSUME NEW a \in Agents, NEW s \in Sessions, controllers'[a][s] # None
        PROVE  \E q \in Runs : q = controllers'[a][s] /\ Owns(q, a, s)'
    <3>1. controllers'[a][s] = controllers[a][s] /\ controllers[a][s] \in Runs
      BY <2>1, <1>1, <1>4 DEF TypeOK
    <3>2. controllers[a][s] # r
      BY <2>1, <3>1, <1>1, <1>3, <1>4 DEF ControllersMatchRuns
    <3> QED BY <2>1, <3>1, <3>2, <1>1, <1>2, <1>5 DEF ControllersMatchRuns, Owns
  <2>2. ASSUME NEW q \in Runs, InBody(q)', q \notin aborted'
        PROVE  controllers'[job'[q].agent][job'[q].session] = q
    <3>1. InBody(q) /\ q # r /\ job[q].session # s0
      BY <2>2, <1>5, <1>6
    <3>2. job[q].agent \in Agents /\ job[q].session \in Sessions
      BY <3>1, <1>1 DEF LiveJobs, InBody, InSend, AgentRunRequest
    <3> QED BY <2>2, <3>1, <3>2, <1>1, <1>2, <1>4 DEF ControllersMatchRuns
  <2> QED BY <2>1, <2>2 DEF ControllersMatchRuns, Owns
<1>11. ActiveIsSending'
  BY <1>1, <1>2, <1>5 DEF ActiveIsSending
<1>12. PendingMatchesWaiting'
  BY <1>1, <1>2 DEF PendingMatchesWaiting
<1>13. LateAccount'
  <2>1. LateBound \in Nat /\ late[r] \in Nat /\ job[r].forced \in Nat
    BY <1>1 DEF LateBound, TypeOK, AgentRunRequest, NoJob
  <2> QED BY <2>1, <1>1, <1>2 DEF LateAccount, InFlight
<1> QED BY <1>7, <1>8, <1>9, <1>10, <1>11, <1>12, <1>13 DEF IInv, Sharing

\* The finally block of the dispatcher takes its session's entry away, and leaves
\* the runs in their bodies alone.
LEMMA LeaveInvariant ==
    ASSUME IInv, NEW r \in Runs, Leave(r)
    PROVE  IInv'
<1> USE AgentRunAssumption
<1> DEFINE s0 == job[r].session
<1>1. /\ TypeOK /\ LiveJobs /\ Sharing /\ PendingMatchesWaiting /\ LateAccount
      /\ OneRunPerSession /\ StatusTracksRun /\ ControllersMatchRuns /\ ActiveIsSending
  BY DEF IInv, Sharing
<1>2. /\ pc[r] = "leaving" /\ pc'[r] = "done" /\ job'[r] = NoJob
      /\ \A q \in Runs : q # r => pc'[q] = pc[q] /\ job'[q] = job[q]
      /\ UNCHANGED <<status, controllers, aborted, pending, late>>
  BY <1>1 DEF Leave, Goto, TypeOK
<1>3. s0 \in Sessions
  BY <1>1, <1>2 DEF LiveJobs, InSend, AgentRunRequest
<1>4. \A s \in Sessions : active'[s] = IF s = s0 THEN None ELSE active[s]
  BY <1>1, <1>3 DEF Leave, TypeOK
<1>5. /\ ~InBody(r)
      /\ \A q \in Runs : InBody(q)' <=> InBody(q)
      /\ \A q \in Runs : InSend(q)' <=> InSend(q) /\ q # r
  BY <1>2 DEF InBody, InSend
<1>6. TypeOK'
  <2>1. /\ pc' \in [Runs -> PCs] /\ job' \in [Runs -> AgentRunRequest \cup {NoJob}]
        /\ active' \in [Sessions -> Agents \cup {None}]
    BY <1>1, <1>3 DEF Leave, Goto, TypeOK, PCs
  <2> QED BY <2>1, <1>1, <1>2 DEF TypeOK
<1>7. LiveJobs' /\ OneRunPerSession' /\ StatusTracksRun'
  BY <1>1, <1>2, <1>5 DEF LiveJobs, OneRunPerSession, StatusTracksRun
<1>8. ActiveIsSending'
  <2> SUFFICES ASSUME NEW s \in Sessions, active'[s] # None
               PROVE  \E q \in Runs : InSend(q)' /\ job'[q].session = s /\ job'[q].agent = active'[s]
    BY DEF ActiveIsSending
  <2>1. s # s0 /\ active'[s] = active[s]
    BY <1>4
  <2>2. PICK q \in Runs : InSend(q) /\ job[q].session = s /\ job[q].agent = active[s]
    BY <2>1, <1>1 DEF ActiveIsSending
  <2> QED BY <2>1, <2>2, <1>2, <1>5
<1>9. ControllersMatchRuns'
  <2>1. \A a \in Agents, s \in Sessions : controllers[a][s] # None => controllers[a][s] \in Runs
    BY <1>1 DEF TypeOK
  <2> QED BY <2>1, <1>1, <1>2, <1>5 DEF ControllersMatchRuns
<1>10. PendingMatchesWaiting'
  BY <1>1, <1>2 DEF PendingMatchesWaiting
<1>11. LateAccount'
  <2>1. LateBound \in Nat /\ late[r] \in Nat /\ job[r].forced \in Nat
    BY <1>1 DEF LateBound, TypeOK, AgentRunRequest, NoJob
  <2> QED BY <2>1, <1>1, <1>2 DEF LateAccount, InFlight, NoJob
<1> QED BY <1>6, <1>7, <1>8, <1>9, <1>10, <1>11 DEF IInv, Sharing

\* A stop takes the controller of the one run it hits and wakes the requests of
\* its session with a refusal.
LEMMA StopInvariant ==
    ASSUME IInv, NEW s0 \in Sessions, Stop(s0)
    PROVE  IInv'
<1> USE AgentRunAssumption
<1> DEFINE a0 == active[s0]
           hit == controllers[a0][s0]
           blocked == {r \in pending : job[r].session = s0}
<1>1. /\ TypeOK /\ LiveJobs /\ Sharing /\ PendingMatchesWaiting /\ LateAccount
      /\ OneRunPerSession /\ StatusTracksRun /\ ControllersMatchRuns /\ ActiveIsSending
  BY DEF IInv, Sharing
<1>2. /\ a0 \in Agents /\ hit \in Runs /\ Owns(hit, a0, s0)
  BY <1>1 DEF Stop, TypeOK, ControllersMatchRuns, Owns
<1>3. /\ aborted' = aborted \cup {hit} /\ pending' = pending \ blocked
      /\ \A q \in Runs : pc'[q] = IF q \in blocked THEN "ready" ELSE pc[q]
      /\ pc' = [q \in Runs |-> IF q \in blocked THEN "ready" ELSE pc[q]]
      /\ \A a \in Agents, s \in Sessions :
            controllers'[a][s] = IF a = a0 /\ s = s0 THEN None ELSE controllers[a][s]
      /\ UNCHANGED <<status, active, job, late>>
  BY <1>1, <1>2 DEF Stop, TypeOK
<1>4. \A q \in blocked : q \in Runs /\ pc[q] = "waiting" /\ InBody(q)
  BY <1>1 DEF PendingMatchesWaiting, InBody, TypeOK
<1>5. \A q \in Runs : (InBody(q)' <=> InBody(q)) /\ (InSend(q)' <=> InSend(q))
  BY <1>3, <1>4 DEF InBody, InSend
<1>6. TypeOK'
  <2>1. pc' \in [Runs -> PCs]
    BY <1>1, <1>3 DEF TypeOK, PCs
  <2>2. controllers' \in [Agents -> [Sessions -> Runs \cup {None}]]
    BY <1>1, <1>2 DEF Stop, TypeOK
  <2> QED BY <1>1, <1>2, <1>3, <2>1, <2>2 DEF TypeOK
<1>7. LiveJobs' /\ OneRunPerSession' /\ StatusTracksRun' /\ ActiveIsSending'
  BY <1>1, <1>3, <1>5 DEF LiveJobs, OneRunPerSession, StatusTracksRun, ActiveIsSending
<1>8. ControllersMatchRuns'
  <2>1. ASSUME NEW a \in Agents, NEW s \in Sessions, controllers'[a][s] # None
        PROVE  \E q \in Runs : q = controllers'[a][s] /\ Owns(q, a, s)'
    <3>1. controllers'[a][s] = controllers[a][s] /\ controllers[a][s] \in Runs
      BY <2>1, <1>1, <1>3 DEF TypeOK
    <3>2. Owns(controllers[a][s], a, s)
      BY <2>1, <3>1, <1>1 DEF ControllersMatchRuns, Owns
    <3>3. controllers[a][s] # hit
      BY <2>1, <3>2, <1>2, <1>3 DEF Owns
    <3> QED BY <3>1, <3>2, <3>3, <1>3, <1>5 DEF Owns
  <2>2. ASSUME NEW q \in Runs, InBody(q)', q \notin aborted'
        PROVE  controllers'[job'[q].agent][job'[q].session] = q
    <3>1. InBody(q) /\ q # hit /\ q \notin aborted
      BY <2>2, <1>3, <1>5
    <3>2. job[q].agent \in Agents /\ job[q].session \in Sessions
      BY <3>1, <1>1 DEF LiveJobs, InBody, InSend, AgentRunRequest
    <3>3. job[q].session # s0
      BY <3>1, <1>1, <1>2 DEF OneRunPerSession, Owns
    <3> QED BY <3>1, <3>2, <3>3, <1>1, <1>3 DEF ControllersMatchRuns
  <2> QED BY <2>1, <2>2 DEF ControllersMatchRuns, Owns
<1>9. PendingMatchesWaiting'
  BY <1>1, <1>3, <1>4 DEF PendingMatchesWaiting
<1>10. LateAccount'
  <2>1. pc[hit] # "new"
    BY <1>2 DEF Owns, InBody
  <2>2. \A q \in Runs : job[q].forced \in Nat /\ late[q] \in Nat
    BY <1>1 DEF TypeOK, AgentRunRequest, NoJob
  <2>3. LateBound \in Nat
    BY DEF LateBound
  <2> QED BY <2>1, <2>2, <2>3, <1>1, <1>3, <1>4 DEF LateAccount, InFlight
<1> QED BY <1>6, <1>7, <1>8, <1>9, <1>10 DEF IInv, Sharing

-----------------------------------------------------------------------------
\* The initial states satisfy the invariant.
LEMMA InitInvariant == Init => IInv
<1> USE AgentRunAssumption
<1> SUFFICES ASSUME Init PROVE IInv
  OBVIOUS
<1>1. \A r \in Runs : ~InBody(r) /\ ~InSend(r) /\ ~InFlight(r) /\ pc[r] = "new" /\ late[r] = 0 /\ job[r].forced = 0
  BY DEF Init, InBody, InSend, InFlight, NoJob
<1>2. TypeOK
  BY DEF Init, TypeOK, PCs
<1>3. LiveJobs /\ OneRunPerSession /\ PendingMatchesWaiting
  BY <1>1 DEF LiveJobs, OneRunPerSession, PendingMatchesWaiting, Init
<1>4. StatusTracksRun /\ ControllersMatchRuns /\ ActiveIsSending
  BY <1>1 DEF StatusTracksRun, ControllersMatchRuns, ActiveIsSending, Init
<1>5. LateAccount
  <2>1. LateBound \in Nat
    BY DEF LateBound
  <2> SUFFICES ASSUME NEW r \in Runs
               PROVE  late[r] + job[r].forced + (IF InFlight(r) THEN 1 ELSE 0) <= LateBound
    BY <1>1 DEF LateAccount, Init
  <2> QED BY <1>1, <2>1
<1> QED BY <1>2, <1>3, <1>4, <1>5 DEF IInv, Sharing

\* Every step keeps it.
LEMMA StepInvariant == IInv /\ [Next]_vars => IInv'
<1> SUFFICES ASSUME IInv, [Next]_vars PROVE IInv'
  OBVIOUS
<1>1. ASSUME NEW r \in Runs, NEW j \in Requests, SendAccepted(r, j)
      PROVE  IInv'
  BY <1>1, SendAcceptedInvariant
<1>2. ASSUME NEW r \in Runs, NEW j \in Requests, SendRefused(r, j)
      PROVE  IInv'
  BY <1>2, SendRefusedInvariant
<1>3. ASSUME NEW r \in Runs, Plain(r)
      PROVE  IInv'
  BY <1>3, PlainInvariant
<1>4. ASSUME NEW r \in Runs, ForcedCall(r)
      PROVE  IInv'
  BY <1>4, ForcedCallInvariant
<1>5. ASSUME NEW r \in Runs, Ask(r) \/ Register(r) \/ \E outcome \in Outcomes : Decide(r, outcome)
      PROVE  IInv'
  BY <1>5, RequestInvariant
<1>6. ASSUME NEW r \in Runs, StartTool(r)
      PROVE  IInv'
  BY <1>6, StartToolInvariant
<1>7. ASSUME NEW r \in Runs, Finish(r)
      PROVE  IInv'
  BY <1>7, FinishInvariant
<1>8. ASSUME NEW r \in Runs, Leave(r)
      PROVE  IInv'
  BY <1>8, LeaveInvariant
<1>9. ASSUME NEW s \in Sessions, Stop(s)
      PROVE  IInv'
  BY <1>9, StopInvariant
<1>10. CASE UNCHANGED vars
  BY <1>10 DEF vars, IInv, TypeOK, LiveJobs, Sharing, OneRunPerSession, StatusTracksRun,
             ControllersMatchRuns, ActiveIsSending, PendingMatchesWaiting, LateAccount,
             InBody, InSend, InFlight
<1> QED
  BY <1>1, <1>2, <1>3, <1>4, <1>5, <1>6, <1>7, <1>8, <1>9, <1>10
  DEF Next, Environment, RunStep, Plain

\* The strengthened invariant holds throughout.
LEMMA Invariance == Spec => []IInv
<1> QED BY InitInvariant, StepInvariant, PTL DEF Spec

\* Agent.run is mutually exclusive per session; the session's status, the
\* dispatcher's entry and the guardrails' pending maps agree with where the
\* session's run is; and every variable keeps its type.
THEOREM SessionsAlwaysAgree == Spec => []SessionsAgree
<1>1. IInv => SessionsAgree
  BY DEF IInv, Sharing, SessionsAgree
<1> QED BY <1>1, Invariance, PTL

\* Abort controllers point at live runs of their session, and a live run that was
\* not stopped keeps its controller: a stop hits the right run.
THEOREM StopHitsItsRun == Spec => []ControllersMatchRuns
<1>1. IInv => ControllersMatchRuns
  BY DEF IInv, Sharing
<1> QED BY <1>1, Invariance, PTL

\* A stopped run starts no more tools than the bound.
THEOREM LateToolsAreBounded == Spec => []LateToolsBounded
<1>1. IInv => LateToolsBounded
  <2> SUFFICES ASSUME IInv, NEW r \in Runs PROVE late[r] <= LateBound
    BY DEF LateToolsBounded
  <2>1. late[r] \in Nat /\ job[r].forced \in Nat
    BY AgentRunAssumption DEF IInv, TypeOK, AgentRunRequest, NoJob
  <2>2. LateBound \in Nat
    BY AgentRunAssumption DEF LateBound
  <2> QED BY <2>1, <2>2 DEF IInv, LateAccount
<1> QED BY <1>1, Invariance, PTL

-----------------------------------------------------------------------------
(***************************************************************************)
(* AgentRun implements SessionLock: the holders of a session are the runs  *)
(* in their body on it.                                                    *)
(***************************************************************************)
Held == [s \in Sessions |-> HoldersOf(s)]
Left(r) == pc[r] \in {"leaving", "done"}
Over == {r \in Runs : Left(r)}

\* A step that keeps the bodies, the sessions of the runs in them and the
\* finished runs is a stuttering step of the lock.
LEMMA LockStutters ==
    ASSUME \A q \in Runs : InBody(q)' <=> InBody(q),
           \A q \in Runs : InBody(q) => job'[q].session = job[q].session,
           \A q \in Runs : Left(q)' <=> Left(q)
    PROVE  UNCHANGED Lock!vars
BY DEF Lock!vars, HoldersOf, Left

\* Entering the body takes the lock.
LEMMA AcceptedAcquires ==
    ASSUME IInv, NEW r \in Runs, NEW j \in Requests, SendAccepted(r, j)
    PROVE  Lock!Next
<1> USE AgentRunAssumption
<1>1. TypeOK /\ StatusTracksRun /\ j.session \in Sessions
  BY DEF IInv, Sharing, AgentRunRequest
<1>2. /\ pc[r] = "new" /\ pc'[r] = "preparing" /\ job'[r] = j
      /\ status[j.session] = "idle"
      /\ \A q \in Runs : q # r => pc'[q] = pc[q] /\ job'[q] = job[q]
  BY <1>1 DEF SendAccepted, Goto, TypeOK
<1>3. \A q \in Runs : InBody(q)' <=> InBody(q) \/ q = r
  BY <1>2 DEF InBody
<1>4. \A s \in Sessions : r \notin HoldersOf(s)
  BY <1>2 DEF HoldersOf, InBody
<1>5. HoldersOf(j.session) = {}
  BY <1>1, <1>2 DEF HoldersOf, StatusTracksRun
<1>6. \A s \in Sessions : HoldersOf(s)' = IF s = j.session THEN {r} ELSE HoldersOf(s)
  BY <1>2, <1>3, <1>4, <1>5 DEF HoldersOf
<1>7. Held' = [Held EXCEPT ![j.session] = {r}]
  BY <1>1, <1>6 DEF Held
<1>8. Over' = Over /\ r \notin Over
  BY <1>2 DEF Over, Left
<1>9. Lock!Acquire(r, j.session)
  BY <1>1, <1>4, <1>5, <1>7, <1>8 DEF Lock!Acquire, Lock!Holds, Held, Over, Left
<1> QED BY <1>1, <1>9 DEF Lock!Next

\* A refused send found the session held.
LEMMA RefusedIsRefused ==
    ASSUME IInv, NEW r \in Runs, NEW j \in Requests, SendRefused(r, j)
    PROVE  Lock!Next
<1> USE AgentRunAssumption
<1>1. TypeOK /\ StatusTracksRun /\ j.session \in Sessions
  BY DEF IInv, Sharing, AgentRunRequest
<1>2. /\ pc[r] = "new" /\ pc'[r] = "leaving" /\ status[j.session] = "running"
      /\ \A q \in Runs : q # r => pc'[q] = pc[q] /\ job'[q] = job[q]
  BY <1>1 DEF SendRefused, Goto, TypeOK
<1>3. \A s \in Sessions : r \notin HoldersOf(s)
  BY <1>2 DEF HoldersOf, InBody
<1>4. HoldersOf(j.session) # {}
  BY <1>1, <1>2 DEF HoldersOf, StatusTracksRun
<1>5. \A s \in Sessions : HoldersOf(s)' = HoldersOf(s)
  BY <1>2 DEF HoldersOf, InBody
<1>6. Held' = Held
  BY <1>5 DEF Held
<1>7. Over' = Over \cup {r} /\ r \notin Over
  BY <1>2 DEF Over, Left
<1>8. Lock!Refuse(r, j.session)
  BY <1>1, <1>3, <1>4, <1>6, <1>7 DEF Lock!Refuse, Lock!Holds, Held, Over, Left
<1> QED BY <1>1, <1>8 DEF Lock!Next

\* The finally block of the run releases it.
LEMMA FinishReleases ==
    ASSUME IInv, NEW r \in Runs, Finish(r)
    PROVE  Lock!Next
<1> USE AgentRunAssumption
<1>1. TypeOK /\ LiveJobs
  BY DEF IInv
<1>2. /\ pc[r] = "unwinding" /\ pc'[r] = "leaving"
      /\ \A q \in Runs : q # r => pc'[q] = pc[q] /\ job'[q] = job[q]
  BY <1>1 DEF Finish, Goto, TypeOK
<1>3. InBody(r) /\ ~InBody(r)' /\ job[r].session \in Sessions
  BY <1>1, <1>2 DEF InBody, InSend, LiveJobs, AgentRunRequest
<1>4. PICK s0 \in Sessions : s0 = job[r].session
  BY <1>3
<1>5. \A s \in Sessions : HoldersOf(s)' = IF s = s0 THEN HoldersOf(s) \ {r} ELSE HoldersOf(s)
  <2>1. \A q \in Runs : InBody(q)' <=> InBody(q) /\ q # r
    BY <1>2, <1>3 DEF InBody
  <2> QED BY <2>1, <1>4, <1>2, <1>3 DEF HoldersOf
<1>6. Held' = [Held EXCEPT ![s0] = @ \ {r}]
  BY <1>3, <1>5 DEF Held
<1>7. Over' = Over \cup {r}
  BY <1>2 DEF Over, Left
<1>8. r \in HoldersOf(s0)
  BY <1>4, <1>3 DEF HoldersOf
<1>9. Lock!Release(r, s0)
  BY <1>3, <1>6, <1>7, <1>8 DEF Lock!Release, Lock!Holds, Held, Over, Left
<1> QED BY <1>9 DEF Lock!Next

\* Leaving the dispatcher is nothing to it.
LEMMA LeaveStutters ==
    ASSUME IInv, NEW r \in Runs, Leave(r)
    PROVE  UNCHANGED Lock!vars
<1>1. TypeOK
  BY DEF IInv
<1>2. /\ pc[r] = "leaving" /\ pc'[r] = "done"
      /\ \A q \in Runs : q # r => pc'[q] = pc[q] /\ job'[q] = job[q]
  BY <1>1 DEF Leave, Goto, TypeOK
<1>3. /\ \A q \in Runs : InBody(q)' <=> InBody(q)
      /\ \A q \in Runs : Left(q)' <=> Left(q)
      /\ ~InBody(r)
  BY <1>2 DEF InBody, Left
<1> QED BY <1>2, <1>3, LockStutters

\* A step that moves runs within their bodies.
LEMMA BodyStepStutters ==
    ASSUME IInv, NEW r \in Runs,
           \/ Plain(r) \/ ForcedCall(r) \/ Ask(r) \/ Register(r) \/ StartTool(r)
           \/ \E outcome \in Outcomes : Decide(r, outcome)
    PROVE  UNCHANGED Lock!vars
<1>1. TypeOK /\ PendingMatchesWaiting
  BY DEF IInv
<1>2. \E to \in PCs \ {"new", "leaving", "done"} : Goto(r, to)
  <2>1. CASE Plain(r)
    BY <2>1 DEF Plain, Prepared, PrepareFails, LoopHead, StrategyCall, StrategyEvent, StrategyEnds,
         CheckAllows, CheckDenies, CheckFails, ToolReturns, ToolAborted, Abandon, PCs
  <2>2. CASE ForcedCall(r) \/ Ask(r) \/ Register(r) \/ StartTool(r)
    BY <2>2 DEF ForcedCall, Ask, Register, StartTool, PCs
  <2>3. CASE \E outcome \in Outcomes : Decide(r, outcome)
    BY <2>3 DEF Decide, Outcomes, PCs
  <2> QED BY <2>1, <2>2, <2>3
<1>3. InBody(r)
  <2>1. CASE Plain(r)
    BY <2>1 DEF Plain, Prepared, PrepareFails, LoopHead, StrategyCall, StrategyEvent, StrategyEnds,
         CheckAllows, CheckDenies, CheckFails, ToolReturns, ToolAborted, Abandon, InBody
  <2>2. CASE ForcedCall(r) \/ Ask(r) \/ Register(r) \/ StartTool(r)
    BY <2>2 DEF ForcedCall, Ask, Register, StartTool, InBody
  <2>3. CASE \E outcome \in Outcomes : Decide(r, outcome)
    BY <2>3, <1>1 DEF Decide, Outcomes, PendingMatchesWaiting, InBody
  <2> QED BY <2>1, <2>2, <2>3
<1>4. \A q \in Runs : job'[q].session = job[q].session
  <2>1. CASE ForcedCall(r)
    BY <2>1, <1>1, <1>3 DEF ForcedCall, IInv, LiveJobs, InBody, InSend, AgentRunRequest, TypeOK
  <2>2. CASE ~ForcedCall(r)
    BY <2>2 DEF Plain, Prepared, PrepareFails, LoopHead, StrategyCall, StrategyEvent, StrategyEnds,
         CheckAllows, CheckDenies, CheckFails, ToolReturns, ToolAborted, Abandon,
         Ask, Register, StartTool, Decide, Outcomes
  <2> QED BY <2>1, <2>2
<1>5. /\ \A q \in Runs : InBody(q)' <=> InBody(q)
      /\ \A q \in Runs : Left(q)' <=> Left(q)
  BY <1>1, <1>2, <1>3 DEF Goto, TypeOK, InBody, Left
<1> QED BY <1>4, <1>5, LockStutters

\* A stop moves its session's waiting run within its body.
LEMMA StopStutters ==
    ASSUME IInv, NEW s \in Sessions, Stop(s)
    PROVE  UNCHANGED Lock!vars
<1>1. TypeOK /\ PendingMatchesWaiting
  BY DEF IInv
<1>2. /\ job' = job
      /\ \A q \in Runs : pc'[q] # pc[q] => pc'[q] = "ready" /\ pc[q] = "waiting"
  BY <1>1 DEF Stop, PendingMatchesWaiting
<1>3. /\ \A q \in Runs : InBody(q)' <=> InBody(q)
      /\ \A q \in Runs : Left(q)' <=> Left(q)
  BY <1>2 DEF InBody, Left
<1> QED BY <1>2, <1>3, LockStutters

\* Every behaviour of the agent runs is one of the lock.
THEOREM RefinesLock == Spec => ImplementsLock
<1>1. Init => Lock!Init
  BY DEF Init, Lock!Init, HoldersOf, InBody
<1>2. IInv /\ [Next]_vars => [Lock!Next]_(Lock!vars)
  <2> SUFFICES ASSUME IInv, [Next]_vars PROVE Lock!Next \/ UNCHANGED Lock!vars
    OBVIOUS
  <2>1. ASSUME NEW r \in Runs, NEW j \in Requests, SendAccepted(r, j) \/ SendRefused(r, j)
        PROVE  Lock!Next
    BY <2>1, AcceptedAcquires, RefusedIsRefused
  <2>2. ASSUME NEW r \in Runs,
               \/ Plain(r) \/ ForcedCall(r) \/ Ask(r) \/ Register(r) \/ StartTool(r)
               \/ \E outcome \in Outcomes : Decide(r, outcome)
        PROVE  UNCHANGED Lock!vars
    BY <2>2, BodyStepStutters
  <2>3. ASSUME NEW r \in Runs, Finish(r)
        PROVE  Lock!Next
    BY <2>3, FinishReleases
  <2>4. ASSUME NEW r \in Runs, Leave(r)
        PROVE  UNCHANGED Lock!vars
    BY <2>4, LeaveStutters
  <2>5. ASSUME NEW s \in Sessions, Stop(s)
        PROVE  UNCHANGED Lock!vars
    BY <2>5, StopStutters
  <2>6. CASE UNCHANGED vars
    BY <2>6, LockStutters DEF vars, InBody, Left
  <2> QED BY <2>1, <2>2, <2>3, <2>4, <2>5, <2>6 DEF Next, Environment, RunStep, Plain
<1> QED BY <1>1, <1>2, Invariance, PTL DEF Spec, ImplementsLock, Lock!Spec
=============================================================================
