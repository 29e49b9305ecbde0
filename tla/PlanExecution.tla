--------------------------- MODULE PlanExecution ---------------------------
(***************************************************************************)
(* One run of the Plan-and-Execute thinking strategy:                      *)
(* src/core/strategy/implementations/PlanAndExecuteStrategy, the ReAct     *)
(* loop it uses for its subtasks (ReActStrategy.ts), the budget the agent  *)
(* charges for every iteration (Budget.ts, Agent.ts:506-549), and the      *)
(* "step n of m" line a Telegram chat shows of it                          *)
(* (TelegramChannelResponse.ts:97-143).                                    *)
(*                                                                         *)
(* The strategy prepares, asks the model whether a plan is wanted, asks it *)
(* for the plan, then works on the leaves of the plan in order: a subtask  *)
(* on the leaf, then a judgement of all the leaves that remain.  A leaf    *)
(* judged failed, or tried too often, has the plan revised from its top    *)
(* level step on.                                                          *)
(*                                                                         *)
(* The plan is kept as flattenLeafSteps returns it, as the sequence of its *)
(* leaves; a leaf has the two parts of its id, "3.2" being top 3, sub 2,   *)
(* and a top level step that is itself a leaf has sub 0.  Plans nested     *)
(* deeper are not modelled.  A draft is the sequence of the numbers of     *)
(* sub-steps of its steps.  What the model writes is chosen freely from    *)
(* Batches (the tool calls of one response), Drafts and Reports.           *)
(*                                                                         *)
(* An operator Bad... is a mistake of the operator that follows it, for    *)
(* the mutation runs; it is no part of the specification.                  *)
(***************************************************************************)
EXTENDS Integers, Sequences, FiniteSets, SequencesExt, FiniteSetsExt

CONSTANTS
    Batches,          \* the sequences of tool calls a response may carry
    Drafts,           \* the drafts of a plan a response may carry
    MaxLeaves,        \* how long plans may grow by revisions (a bound of the model)
    MaxReport,        \* how many steps a judgement may report
    MaxStructured,    \* maxStructuredOutputAttempts, 3 in the code
    MaxStepAttempts,  \* maxStepAttempts, 3 in the code
    Limits,           \* the budgets an agent may have: each limit is the set
                      \* of the number it is, empty where there is none
    MaxForced         \* how many tools may be forced on a run

ASSUME BoundsArePositive ==
    /\ MaxStructured \in Nat \ {0} /\ MaxStepAttempts \in Nat \ {0}
    /\ MaxReport \in Nat

ASSUME LimitsAreNumbers ==
    MaxForced \in Nat /\ \A l \in Limits : \A n \in l.iterations \cup l.calls : n \in Nat

ASSUME DraftsHaveSteps == \A d \in Drafts : d \in Seq(Nat) /\ d # << >>

VARIABLES
    pc,         \* what the strategy does next
    plan,       \* the leaves of the plan
    index,      \* the leaves done when advanceSteps was last called
    frontier,   \* the leaves advanceSteps has seen done since
    attempt,    \* attempts at the active leaf
    round,      \* attempts at the structured answer that is awaited
    open,       \* a response of the model is being handled
    batch,      \* its tool calls that are still to be made
    finished,   \* the subtask ends with this response
    told,       \* a message was sent since the last subtask began
    limits,     \* maxIterations and maxToolCalls of the run's budget
    budget,     \* usedIterations and usedToolCalls
    shown       \* startedLeafCount and totalLeafCount of the chat

vars == <<pc, plan, index, frontier, attempt, round, open, batch, finished,
          told, limits, budget, shown>>

Subtasks   == {"prepare", "step"}
Structured == {"gate", "build", "judge", "replan"}
Closing    == {"fallback", "summary"}
Ended      == {"done", "failed"}

Leaf(top, sub) == [top |-> top, sub |-> sub, status |-> "pending"]
Id(leaf)       == <<leaf.top, leaf.sub>>
Done(k)        == plan[k].status = "completed"
Count(leaves)  == Cardinality({k \in DOMAIN leaves : leaves[k].status = "completed"})

Response == <<open, batch, finished>>
Progress == <<plan, index, frontier, attempt>>

\* The tools forced on the run by its message (a skill's command) were called
\* before the strategy begins: they are charged, and no limit is looked at.
Init ==
    /\ pc = "prepare"
    /\ plan = << >> /\ index = 0 /\ frontier = 0 /\ attempt = 0 /\ round = 1
    /\ open = FALSE /\ batch = << >> /\ finished = FALSE
    /\ told = FALSE
    /\ limits \in Limits
    /\ \E forced \in 0 .. MaxForced : budget = [iterations |-> 0, calls |-> forced]
    /\ shown = [started |-> 0, total |-> 0]

-----------------------------------------------------------------------------
(* The budget.  An iteration is counted once the response was read, and    *)
(* only then are the limits looked at: of the calls of one response each   *)
(* is made, whatever the limit.  A budget that is spent ends the run.  An  *)
(* agent may have no budget, or one without these limits; what is counted  *)
(* without a limit is read by nobody, and kept as 1.                       *)

Counted(used, limit) == IF limit = {} THEN 1 ELSE used + 1

BadExceeded(used) ==
    \/ \E n \in limits.iterations : used.iterations > n
    \/ \E n \in limits.calls : used.calls >= n

Exceeded(used) ==
    \/ \E n \in limits.iterations : used.iterations >= n
    \/ \E n \in limits.calls : used.calls >= n

\* An iteration that is not counted.
BadCharge(next) ==
    /\ budget' = budget
    /\ pc' = IF Exceeded(budget') THEN "failed" ELSE next
    /\ UNCHANGED limits

\* The run goes on to `next` if the budget allows it.
Charge(next) ==
    /\ budget' = [budget EXCEPT !.iterations = Counted(@, limits.iterations)]
    /\ pc' = IF Exceeded(budget') THEN "failed" ELSE next
    /\ UNCHANGED limits

-----------------------------------------------------------------------------
(* A subtask: the ReAct loop                                               *)

\* A response with a text and some tool calls.  Each call is made and its
\* result given back to the loop before the next one.
Respond(text, calls) ==
    /\ pc \in Subtasks /\ ~open
    /\ open' = TRUE /\ batch' = calls /\ finished' = (calls = << >>)
    /\ told' = (told \/ text)
    /\ UNCHANGED <<pc, Progress, round, limits, budget, shown>>

\* A call the guardrails refuse is not counted.  What stands after a call of
\* the tool "done" is never made.
CallTool(allowed) ==
    /\ open /\ batch # << >> /\ pc \in Subtasks
    /\ budget' = IF allowed THEN [budget EXCEPT !.calls = Counted(@, limits.calls)] ELSE budget
    /\ finished' = (Head(batch) = "done")
    /\ batch' = IF Head(batch) = "done" THEN << >> ELSE Tail(batch)
    /\ UNCHANGED <<pc, Progress, round, open, told, limits, shown>>

\* The iteration is charged; the loop asks again unless the subtask is over.
IterationEnds ==
    /\ open /\ batch = << >> /\ pc \in Subtasks
    /\ Charge(IF ~finished THEN pc ELSE IF pc = "prepare" THEN "gate" ELSE "judge")
    /\ open' = FALSE /\ finished' = FALSE /\ round' = 1
    /\ UNCHANGED <<Progress, batch, told, shown>>

-----------------------------------------------------------------------------
(* Structured answers: they are asked for again while they do not parse    *)

Answer(next) ==
    /\ round' = 1
    /\ Charge(next)
    /\ UNCHANGED Response

Garbled ==
    /\ pc \in Structured
    /\ Charge(IF round < MaxStructured THEN pc ELSE "failed")
    /\ round' = round + 1
    /\ UNCHANGED <<Progress, Response, told, shown>>

BadGate(proceed) ==
    /\ pc = "gate"
    /\ Answer(IF proceed THEN "build" ELSE "done")
    /\ UNCHANGED <<Progress, told, shown>>

\* The gate after the preparation.  A run that needs no plan ends here, with
\* a message: one is asked for if the preparation sent none.
Gate(proceed) ==
    /\ pc = "gate"
    /\ Answer(IF proceed THEN "build" ELSE IF told THEN "done" ELSE "fallback")
    /\ UNCHANGED <<Progress, told, shown>>

\* The leaves of a step with so many sub-steps.
StepLeaves(top, subs) ==
    IF subs = 0 THEN <<Leaf(top, 0)>> ELSE [j \in 1 .. subs |-> Leaf(top, j)]

\* flattenLeafSteps of hydratePlanDraft: ids are positions, counted on from
\* the steps kept.
Hydrate(draft, kept) ==
    LET leaves[k \in 0 .. Len(draft)] ==
            IF k = 0 THEN << >> ELSE leaves[k - 1] \o StepLeaves(kept + k, draft[k])
    IN  leaves[Len(draft)]

\* advanceSteps starts on the first leaf that is left: STEP_STARTED.
Begun(leaves, k) == [leaves EXCEPT ![k].status = "in_progress"]

\* The chat on a PLAN event, and on one that a STEP_STARTED follows.
PlanShown(leaves) == [started |-> Count(leaves), total |-> Len(leaves)]
StepShown(chat)   == [chat EXCEPT !.started = @ + 1]

\* The work on the leaves of a plan begins after the first `from` of them.
\* Nothing happens if the budget ended the run.
WorkOn(leaves, from) ==
    IF pc' = "failed"
    THEN UNCHANGED <<Progress, told, shown>>
    ELSE /\ plan' = Begun(leaves, from + 1)
         /\ index' = from /\ frontier' = 0 /\ attempt' = 1
         /\ told' = FALSE
         /\ shown' = StepShown(PlanShown(leaves))

BuildPlan(draft) ==
    /\ pc = "build"
    /\ Answer("step")
    /\ WorkOn(Hydrate(draft, 0), 0)

\* The step before the failed one goes with it.
BadKept ==
    LET failed == plan[index + 1].top
    IN  SubSeq(plan, 1, Min({k \in DOMAIN plan : plan[k].top >= failed - 1}) - 1)

\* replan: the steps before the top level step of the failed leaf are kept,
\* the draft replaces that step and the ones after it.
Kept ==
    LET failed == plan[index + 1].top
    IN  SubSeq(plan, 1, Min({k \in DOMAIN plan : plan[k].top = failed}) - 1)

TopSteps(leaves) == Cardinality({leaves[k].top : k \in DOMAIN leaves})

Revised(draft) == Kept \o Hydrate(draft, TopSteps(Kept))

\* The first leaf that is not completed, as findIndex counts.
NextPending(leaves) == Min({k \in DOMAIN leaves : leaves[k].status # "completed"}) - 1

Replan(draft) ==
    /\ pc = "replan" /\ Len(Revised(draft)) <= MaxLeaves
    /\ Answer("step")
    /\ WorkOn(Revised(draft), NextPending(Revised(draft)))

-----------------------------------------------------------------------------
(* The judgement of the leaves that remain                                 *)

Reports == SeqOf({Id(plan[k]) : k \in DOMAIN plan}, MaxReport)

\* applyCompletedSteps: what is reported counts as long as it names the
\* leaves of the window one after the other.
Confirmed(report) ==
    LET first   == index + frontier
        Matches(i) == first + i \in DOMAIN plan /\ report[i] = Id(plan[first + i])
    IN  Max({0} \cup {n \in DOMAIN report : \A i \in 1 .. n : Matches(i)})

\* Completed are the leaves reported, wherever they stand.
BadMarked(report) ==
    [k \in DOMAIN plan |->
        IF \E i \in DOMAIN report : report[i] = Id(plan[k])
        THEN [plan[k] EXCEPT !.status = "completed"] ELSE plan[k]]

Marked(report) ==
    [k \in DOMAIN plan |->
        IF k \in index + frontier + 1 .. index + frontier + Confirmed(report)
        THEN [plan[k] EXCEPT !.status = "completed"] ELSE plan[k]]

Active == index + frontier + 1

\* The budget allows it and the judgement is acted upon.
Heard(next) == Answer(next) /\ pc' # "failed"

\* The judgement cost the last of the budget: it is not read.
JudgeUnheard ==
    /\ pc = "judge"
    /\ Answer("judge") /\ pc' = "failed"
    /\ UNCHANGED <<Progress, told, shown>>

\* Every leaf is done: the plan is shown once more and summed up.
AllDone(report) ==
    /\ pc = "judge" /\ Confirmed(report) > 0
    /\ index + frontier + Confirmed(report) = Len(plan)
    /\ Heard("summary")
    /\ plan' = Marked(report)
    /\ index' = Len(plan) /\ frontier' = 0
    /\ shown' = PlanShown(plan')
    /\ UNCHANGED <<attempt, told>>

\* Some leaves are done: the next one starts, whatever else was said of it.
SomeDone(report) ==
    /\ pc = "judge" /\ Confirmed(report) > 0
    /\ index + frontier + Confirmed(report) < Len(plan)
    /\ Heard("step")
    /\ frontier' = frontier + Confirmed(report)
    /\ plan' = Begun(Marked(report), index + frontier' + 1)
    /\ attempt' = 1 /\ told' = FALSE
    /\ shown' = StepShown(shown)
    /\ UNCHANGED index

\* Nothing is done and the user is waited for: the run ends with a message.
Waits(report) ==
    /\ pc = "judge" /\ Confirmed(report) = 0
    /\ Heard(IF told THEN "done" ELSE "fallback")
    /\ index' = index + frontier /\ frontier' = 0
    /\ shown' = IF told THEN PlanShown(plan) ELSE shown
    /\ UNCHANGED <<plan, attempt, told>>

\* The leaf failed, or was tried as often as it may: the plan is revised.
LeafFails ==
    /\ plan' = [plan EXCEPT ![Active].status = "failed"]
    /\ index' = index + frontier /\ frontier' = 0
    /\ UNCHANGED <<attempt, told, shown>>

FailedStep(report) ==
    /\ pc = "judge" /\ Confirmed(report) = 0
    /\ Heard("replan")
    /\ LeafFails

Incomplete(report) ==
    /\ pc = "judge" /\ Confirmed(report) = 0
    /\ IF attempt < MaxStepAttempts
       THEN /\ Heard("step")
            /\ attempt' = attempt + 1 /\ told' = FALSE
            /\ UNCHANGED <<plan, index, frontier, shown>>
       ELSE Heard("replan") /\ LeafFails

-----------------------------------------------------------------------------
(* The last message, and the ways to fail                                  *)

\* ensureFinalMessage and finalizeSummary: the iteration is charged before
\* the text is sent.
Close ==
    /\ pc \in Closing
    /\ Answer("done")
    /\ told' = (told \/ pc' = "done")
    /\ shown' = IF pc' = "done" /\ plan # << >> THEN PlanShown(plan) ELSE shown
    /\ UNCHANGED Progress

\* The provider fails, a guardrail blocks, the run is aborted.
Throw ==
    /\ pc \notin Ended
    /\ pc' = "failed"
    /\ UNCHANGED <<Progress, Response, round, told, limits, budget, shown>>

Subtask == IterationEnds \/ (\E text \in BOOLEAN, calls \in Batches : Respond(text, calls))
                         \/ (\E allowed \in BOOLEAN : CallTool(allowed))

Planning == \/ Garbled
            \/ \E proceed \in BOOLEAN : Gate(proceed)
            \/ \E draft \in Drafts : BuildPlan(draft) \/ Replan(draft)

Judge == \/ JudgeUnheard
         \/ \E report \in Reports :
               AllDone(report) \/ SomeDone(report) \/ Waits(report)
               \/ FailedStep(report) \/ Incomplete(report)

Next == Subtask \/ Planning \/ Judge \/ Close \/ Throw

\* The generator is driven to its end by the agent: while it can go on, it
\* does.  That a response never comes is the provider's timeout, a Throw.
Spec == Init /\ [][Next]_vars /\ WF_vars(Next)

-----------------------------------------------------------------------------
(* Properties                                                              *)

LeafStatus == {"pending", "in_progress", "completed", "failed"}

\* Every variable has a value of its kind.
TypeOK ==
    /\ pc \in Subtasks \cup Structured \cup Closing \cup Ended
    /\ \A k \in DOMAIN plan :
          /\ plan[k].top \in Nat \ {0} /\ plan[k].sub \in Nat
          /\ plan[k].status \in LeafStatus
    /\ index \in 0 .. Len(plan) /\ frontier \in 0 .. Len(plan)
    /\ attempt \in 0 .. MaxStepAttempts
    /\ round \in 1 .. MaxStructured + 1
    /\ open \in BOOLEAN /\ finished \in BOOLEAN /\ told \in BOOLEAN
    /\ limits \in Limits
    /\ budget \in [iterations : Nat, calls : Nat]
    /\ shown \in [started : Nat, total : Nat]

\* The leaves completed are exactly the first ones, as many as index and
\* frontier count, through every partial judgement and every revision; so no
\* leaf is skipped, and none is worked on twice (advanceSteps and the
\* findIndex of execute, PlanAndExecuteStrategy.ts:93-125).
FrontierIsReal ==
    /\ \A k \in DOMAIN plan : Done(k) <=> k <= index + frontier
    /\ pc \in {"step", "judge"} => Active \in DOMAIN plan /\ plan[Active].status = "in_progress"
    /\ pc = "replan" => plan[Active].status = "failed"

\* No two leaves of a plan have the same id, after any number of revisions:
\* the judgement names leaves by id, and the revision finds the failed step
\* by it (stepContainsId).
IdsAreDistinct ==
    \A i, j \in DOMAIN plan : Id(plan[i]) = Id(plan[j]) => i = j

\* A run that ends normally told the user something after its last subtask
\* began: it does not stop in silence, neither without a plan, nor waiting in
\* the middle of one, nor at its end.
EndsWithAMessage == pc = "done" => told

\* After the first request of a run the model is never asked more often than
\* the budget has iterations, in whatever phase the last of them is spent, and
\* never again once the tool calls are spent, by the tools forced on the run
\* or by the model's.  A request is counted when its answer was read.  The
\* first one is made whatever the budget, and whatever was spent before it.
WithinBudget ==
    /\ LET asked == budget.iterations + (IF open THEN 1 ELSE 0)
       IN  \A n \in limits.iterations : asked <= n \/ asked <= 1
    /\ pc \notin Ended /\ ~open /\ budget.iterations > 0 =>
           \A n \in limits.calls : budget.calls < n

\* The chat never shows more steps begun than were, nor more than the plan
\* has, however many are confirmed at once and however the plan is revised.
ShownIsReached ==
    pc \in {"step", "judge"} =>
        /\ shown.total = Len(plan)
        /\ shown.started \in 1 .. Active

\* Plan, index and frontier, the ids the judgement goes by and the steps the
\* chat counts all tell the same of how far the work has come.
PlanIsTrue == TypeOK /\ FrontierIsReal /\ IdsAreDistinct /\ ShownIsReached

\* A top level step that was completed keeps its place, its leaves and its
\* result in every later plan.
TopSteps_Kept ==
    \A k \in DOMAIN plan :
        (\A j \in DOMAIN plan : plan[j].top = plan[k].top => Done(j))
            => k \in DOMAIN plan' /\ plan'[k] = plan[k]
CompletedTopStepsKept == [][TopSteps_Kept]_vars

\* What the system prompt promises of a revision: "Already completed steps
\* are never discarded."  A leaf that was completed stays in the plan.
CompletedNeverDiscarded ==
    [][\A k \in DOMAIN plan : Done(k) => k \in DOMAIN plan' /\ plan'[k] = plan[k]]_vars

\* Every run with a limit to its iterations ends: there is no limit to the
\* revisions of a plan, nor to the responses of a subtask, but each costs an
\* iteration.  (Without it nothing ends a run whose model goes on calling tools
\* or has its steps fail, whatever its limit of tool calls.)
RunEnds == limits.iterations # {} => <>(pc \in Ended)
=============================================================================
