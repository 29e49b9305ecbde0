---------------------------- MODULE WorkFlowRun ----------------------------
(***************************************************************************)
(* One run of a workflow by WorkFlowRunner: a tree of asynchronous streams  *)
(* over the graph of nodes.  A stream runs one node for one execution id,   *)
(* hands its outputs to the nodes behind it, and merges their streams into  *)
(* its own; the run merges the streams of the start nodes.  Streams advance *)
(* between awaits, and past a yield only while everyone above still merges: *)
(* a merge that throws abandons the other streams at their next event.      *)
(*                                                                         *)
(* Every connection out of the branch of a loop mints an execution id of    *)
(* its own in every turn; the model's id is the path of <<connection, turn>>*)
(* pairs, which is what childToParent records.  The value of an output is   *)
(* left out.  A definition whose name starts with Bad is a  *)
(* bug the code does not have, for the checks of the properties.            *)
(***************************************************************************)
EXTENDS Naturals, Sequences, FiniteSets, SequencesExt

CONSTANTS
    Nodes,        \* the ids of the workflow's entries
    Kind,         \* the type of each
    Connections,  \* records [from, port, to, into]
    Fragile,      \* the nodes whose mapping or work may throw
    Iterations,   \* config.iterations of each for loop; bound: turns of each while loop
    Torn          \* a run file that does not parse

Kinds == {"start", "work", "agent", "condition", "merge", "race", "for", "while"}
Loops == {n \in Nodes : Kind[n] \in {"for", "while"}}
Ports == {"$input", "in", "a", "b", "value", "loop"}

Statuses == {"pending", "running", "completed", "failed"}

ASSUME WorkFlowRunAssumption ==
    /\ Kind \in [Nodes -> Kinds] /\ Fragile \subseteq Nodes
    /\ \A c \in Connections : c.from \in Nodes /\ c.to \in Nodes /\ c.into \in Ports
    \* validate, which the tools call and the REST handlers do not: into a port that the
    \* target has; start nodes declare none, and are not checked
    /\ \A c \in Connections : c.to \in Loops => c.into \in {"value", "loop"}
    \* addConnection: one connection into a port
    /\ \A c, d \in Connections : c.to = d.to /\ c.into = d.into => c = d
    \* validate: there is a node to start from
    /\ \E n \in Nodes : Kind[n] = "start" /\ \A c \in Connections : c.to # n
    /\ Iterations \in [Loops -> Nat]
    /\ Torn \notin Statuses \cup {"mixed"}

VARIABLES
    run,        \* the phase of executeRun and run.status
    stopped,    \* the abort signal of the run
    execution,  \* entry.executions: <<node, id>> to its status, receivedPorts and state
    stream,     \* <<node, id, pass>> to the stream that runs it
    sessions,   \* the streams whose AgentNode holds a session it created
    orphans,    \* those of them still working after their stream gave up
    file,       \* the run's file: its status, Torn, or "mixed" while writes overlap
    sent        \* history: the outputs of nodes, <<node, id, pass, port>>

walkVars == <<run, stopped, execution, stream, sessions, orphans, file, sent>>

Root == <<>>
Ids == Seq(Connections \X Nat)
Waiting == {"starting", "ending", "forwarding", "failing"}   \* for runRepository.update
Yielding == {"started", "event", "ended", "failed"}
Over == {"done", "threw"}
Working == {"starting", "started", "node", "event"}          \* the execution is running

WalkTypeOK ==
    /\ run \in [phase : {"new", "starting", "merging", "closing", "ended"}, status : Statuses]
    /\ stopped \in BOOLEAN
    /\ DOMAIN execution \subseteq Nodes \X Ids
    /\ \A x \in DOMAIN execution :
          execution[x] \in [status : Statuses, got : SUBSET Ports, turn : Nat]
    /\ DOMAIN stream \subseteq Nodes \X Ids \X Nat
    /\ \A f \in DOMAIN stream :
          /\ <<f[1], f[2]>> \in DOMAIN execution
          /\ stream[f] \in [parent : DOMAIN stream \cup {Root}, above : SUBSET DOMAIN stream,
                            next : SUBSET DOMAIN execution, aborts : BOOLEAN,
                            phase : Waiting \cup Yielding \cup Over \cup {"node", "branches"}]
    /\ orphans \subseteq sessions /\ sessions \subseteq DOMAIN stream
    /\ file \in Statuses \cup {Torn, "mixed"}
    /\ \A o \in sent : o = <<o[1], o[2], o[3], o[4]>> /\ <<o[1], o[2], o[3]>> \in DOMAIN stream

\* The constructor of WorkFlowRun, and the repository's create.
WalkInit ==
    /\ run = [phase |-> "new", status |-> "pending"] /\ stopped = FALSE
    /\ execution = <<>> /\ stream = <<>>
    /\ sessions = {} /\ orphans = {} /\ file = "pending" /\ sent = {}

-----------------------------------------------------------------------------
(***************************************************************************)
(* The graph.                                                              *)
(***************************************************************************)
\* isReady, by the type of the node.
Ready(n, got) ==
    CASE Kind[n] = "start" -> "$input" \in got
      [] Kind[n] = "merge" -> {"a", "b"} \subseteq got
      [] Kind[n] = "race"  -> got \cap {"a", "b"} # {}
      [] n \in Loops       -> got \cap {"value", "loop"} # {}
      [] OTHER             -> "in" \in got

\* The ports a node may put its output on, in the turn it is about to take.
Outputs(n, turn) ==
    CASE Kind[n] = "condition" -> {"true", "false"}
      [] Kind[n] = "for"   -> IF turn + 1 <= Iterations[n] THEN {"loop"} ELSE {"done"}
      [] Kind[n] = "while" -> IF turn < Iterations[n] THEN {"loop", "done"} ELSE {"done"}
      [] OTHER -> {"result"}

NewBranch(n, port) == n \in Loops /\ port = "loop"

\* What a connection out of this pass feeds, and under which execution id: a new one on
\* the branch of a loop, the loop's own on the way back to it, the same one otherwise.
Receiver(f, c) ==
    <<c.to, IF NewBranch(f[1], c.port) THEN Append(f[2], <<c, f[3]>>)
            ELSE IF f[2] # <<>> /\ Last(f[2])[1].from = c.to THEN Front(f[2])
            ELSE f[2]>>

\* The loops of a graph are nested: every node has its place, the path of the branches it is
\* in; a branch comes back to its loop, and only to its "loop" port, or ends within.
Nested(place) ==
    /\ place \in [Nodes -> Seq(Connections)]
    /\ \A n \in Nodes : Kind[n] = "start" => place[n] = <<>>
    /\ \A c \in Connections :
          LET from == place[c.from]
              back == from # <<>> /\ Last(from).from = c.to
          IN  IF NewBranch(c.from, c.port)
              THEN place[c.to] = Append(from, c) /\ c.into # "loop"
              ELSE /\ place[c.to] = IF back THEN Front(from) ELSE from
                   /\ c.into = "loop" <=> back

Of(x) == {f \in DOMAIN stream : <<f[1], f[2]>> = x}
Passes(x) == Cardinality(Of(x))
Children(f) == {g \in DOMAIN stream : stream[g].parent = f}

\* Everyone above still merges: the event this stream yielded is taken, and it goes on.
Pulled(f) ==
    /\ run.phase = "merging"
    /\ \A g \in stream[f].above : stream[g].phase = "branches"

At(f, phase) == f \in DOMAIN stream /\ stream[f].phase = phase
Go(f, phase) == stream' = [stream EXCEPT ![f].phase = phase]

-----------------------------------------------------------------------------
(***************************************************************************)
(* The run's file.  Updates are not serialised: two that overlap may leave  *)
(* either content, or one cut by the other.                                *)
(***************************************************************************)
Writers ==
    {f \in DOMAIN stream : stream[f].phase \in Waiting}
        \cup (IF run.phase \in {"starting", "closing"} THEN {Root} ELSE {})

Lands(f, status) ==
    file' \in IF Writers # {f} THEN {"mixed"}
              ELSE IF file = "mixed" THEN {status, Torn} ELSE {status}

\* A stream's update holds the status the run had when it was serialised.
Saved(f) == \E status \in {"running", run.status} : Lands(f, status)

-----------------------------------------------------------------------------
(***************************************************************************)
(* executeEntries: a stream for each pending entry, started at once.        *)
(***************************************************************************)
BadStartable(x, entries) ==
    ~stopped /\ entries[x].status # "completed" /\ Ready(x[1], entries[x].got)

\* The early returns of executeEntry.
Startable(x, entries) ==
    ~stopped /\ entries[x].status = "pending" /\ Ready(x[1], entries[x].got)

\* Under `parent`, whose ancestors and itself are `above`: the entries that can start do,
\* except those whose mapping throws before anything is recorded.
Open(parent, above, pending, entries, streams) ==
    LET go == {x \in pending : Startable(x, entries)} IN
    \E throws \in SUBSET {x \in go : x[1] \in Fragile} :
        /\ execution' = [x \in DOMAIN entries |->
                           IF x \in go \ throws THEN [entries[x] EXCEPT !.status = "running"]
                           ELSE entries[x]]
        /\ LET fresh == {<<x[1], x[2], Passes(x) + 1>> : x \in go} IN
           stream' = [f \in DOMAIN streams \cup fresh |->
               IF f \in DOMAIN streams THEN streams[f]
               ELSE [parent |-> parent, above |-> above, next |-> {}, aborts |-> FALSE,
                     phase |-> IF <<f[1], f[2]>> \in throws THEN "threw" ELSE "starting"]]

\* The catch of executeEntry: the entry has failed, whatever it was before.
Fail(f, aborts) ==
    /\ execution' = [execution EXCEPT ![<<f[1], f[2]>>].status = "failed"]
    /\ stream' = [stream EXCEPT ![f].phase = "failing", ![f].aborts = aborts]

StartSaved(f) ==
    /\ At(f, "starting") /\ Saved(f) /\ Go(f, "started")
    /\ UNCHANGED <<run, stopped, execution, sessions, orphans, sent>>

BadBeginNode(f) ==
    /\ At(f, "started") /\ Pulled(f)
    /\ Go(f, "node")
    /\ sessions' = sessions \cup {g \in {f} : Kind[f[1]] = "agent"}
    /\ UNCHANGED <<run, stopped, execution, orphans, file, sent>>

\* executeNode: an aborted run throws before the node does anything.
BeginNode(f) ==
    /\ At(f, "started") /\ Pulled(f)
    /\ IF stopped THEN Fail(f, TRUE) /\ UNCHANGED sessions
       ELSE /\ Go(f, "node")
            /\ sessions' = sessions \cup {g \in {f} : Kind[f[1]] = "agent"}
            /\ UNCHANGED execution
    /\ UNCHANGED <<run, stopped, orphans, file, sent>>

\* An agent's event, passed on; the generator waits for the next pull.
NodeEvent(f) ==
    /\ At(f, "node") /\ Kind[f[1]] = "agent" /\ Go(f, "event")
    /\ UNCHANGED <<run, stopped, execution, sessions, orphans, file, sent>>

NodeGoesOn(f) ==
    /\ At(f, "event") /\ Pulled(f)
    /\ IF stopped THEN Fail(f, TRUE) ELSE Go(f, "node") /\ UNCHANGED execution
    /\ UNCHANGED <<run, stopped, sessions, orphans, file, sent>>

\* The node returned first: its output and state; a node with a new branch stays pending.
NodeEnds(f) ==
    LET x == <<f[1], f[2]>> IN
    /\ At(f, "node") /\ Go(f, "ending")
    /\ \E port \in Outputs(f[1], execution[x].turn) :
          /\ execution' = [execution EXCEPT
                ![x].status = IF NewBranch(f[1], port) THEN "pending" ELSE "completed",
                ![x].turn = IF f[1] \in Loops THEN @ + 1 ELSE @]
          /\ sent' = sent \cup {<<f[1], f[2], f[3], port>>}
    /\ sessions' = sessions \ {f}
    /\ UNCHANGED <<run, stopped, orphans, file>>

NodeThrows(f) ==
    /\ At(f, "node") /\ f[1] \in Fragile /\ Fail(f, FALSE)
    /\ sessions' = sessions \ {f}
    /\ UNCHANGED <<run, stopped, orphans, file, sent>>

BadNodeAborted(f) ==
    /\ At(f, "event") /\ Pulled(f) /\ stopped /\ Fail(f, TRUE)
    /\ UNCHANGED <<run, stopped, sessions, orphans, file, sent>>

\* The abort won the race.  Nobody returns the node's generator: an agent works on alone.
NodeAborted(f) ==
    /\ At(f, "node") /\ stopped /\ Fail(f, TRUE)
    /\ orphans' = orphans \cup (sessions \cap {f})
    /\ UNCHANGED <<run, stopped, sessions, file, sent>>

\* It ends, and its finally deletes the session; or it stops for good at its next event.
OrphanEnds(f) ==
    /\ f \in orphans /\ orphans' = orphans \ {f}
    /\ sessions' \in {sessions, sessions \ {f}}
    /\ UNCHANGED <<run, stopped, execution, stream, file, sent>>

EndSaved(f) ==
    /\ At(f, "ending") /\ Saved(f) /\ Go(f, "ended")
    /\ UNCHANGED <<run, stopped, execution, sessions, orphans, sent>>

-----------------------------------------------------------------------------
(***************************************************************************)
(* From a node to the ones behind it.                                      *)
(***************************************************************************)
\* The connections that deliver an output of this pass.
Taken(f) == {c \in Connections : c.from = f[1] /\ <<f[1], f[2], f[3], c.port>> \in sent}

BadForward(f) ==
    LET pending == {Receiver(f, c) : c \in Taken(f)}
        got(x) == {c.into : c \in {d \in Taken(f) : Receiver(f, d) = x}}
    IN
    /\ At(f, "ended") /\ Pulled(f)
    /\ IF \A c \in Connections : c.from # f[1]
       THEN Go(f, "done") /\ UNCHANGED execution
       ELSE /\ execution' = [x \in DOMAIN execution \cup pending |->
                  IF x \notin DOMAIN execution
                  THEN [status |-> "pending", got |-> got(x), turn |-> 0]
                  ELSE IF x \in pending THEN [execution[x] EXCEPT !.got = got(x)] ELSE execution[x]]
            /\ stream' = [stream EXCEPT ![f].phase = "forwarding", ![f].next = pending]
    /\ UNCHANGED <<run, stopped, sessions, orphans, file, sent>>

\* receivedPorts of the targets are set, and each target is pending once.
Forward(f) ==
    LET pending == {Receiver(f, c) : c \in Taken(f)}
        got(x) == {c.into : c \in {d \in Taken(f) : Receiver(f, d) = x}}
    IN
    /\ At(f, "ended") /\ Pulled(f)
    /\ IF \A c \in Connections : c.from # f[1]
       THEN Go(f, "done") /\ UNCHANGED execution
       ELSE /\ execution' = [x \in DOMAIN execution \cup pending |->
                  IF x \notin DOMAIN execution
                  THEN [status |-> "pending", got |-> got(x), turn |-> 0]
                  ELSE [execution[x] EXCEPT !.got = @ \cup got(x)]]
            /\ stream' = [stream EXCEPT ![f].phase = "forwarding", ![f].next = pending]
    /\ UNCHANGED <<run, stopped, sessions, orphans, file, sent>>

Branch(f) ==
    /\ At(f, "forwarding") /\ Saved(f)
    /\ Open(f, stream[f].above \cup {f}, stream[f].next, execution,
            [stream EXCEPT ![f].phase = "branches"])
    /\ UNCHANGED <<run, stopped, sessions, orphans, sent>>

\* The merge of the streams behind this one: all of them ended, or one threw.  (That an
\* abandoned merge takes nothing more after its next event is not modelled: it may.)
BranchesDone(f) ==
    /\ At(f, "branches") /\ \A g \in Children(f) : stream[g].phase = "done"
    /\ Go(f, "done")
    /\ UNCHANGED <<run, stopped, execution, sessions, orphans, file, sent>>

BranchThrew(f) ==
    /\ At(f, "branches")
    /\ \E g \in Children(f) : stream[g].phase = "threw" /\ Fail(f, stream[g].aborts)
    /\ UNCHANGED <<run, stopped, sessions, orphans, file, sent>>

\* Only a failure that is not an abort is told, and then thrown on.
FailSaved(f) ==
    /\ At(f, "failing") /\ Saved(f)
    /\ Go(f, IF stream[f].aborts THEN "threw" ELSE "failed")
    /\ UNCHANGED <<run, stopped, execution, sessions, orphans, sent>>

Rethrow(f) ==
    /\ At(f, "failed") /\ Pulled(f) /\ Go(f, "threw")
    /\ UNCHANGED <<run, stopped, execution, sessions, orphans, file, sent>>

-----------------------------------------------------------------------------
(***************************************************************************)
(* executeRun, and stop.                                                   *)
(***************************************************************************)
Begin ==
    /\ run.phase = "new"
    /\ run' = [phase |-> "starting", status |-> "running"]
    /\ UNCHANGED <<stopped, execution, stream, sessions, orphans, file, sent>>

\* RUN_STARTED is taken, and the start nodes receive the input.
OpenRun ==
    LET first == {n \in Nodes : Kind[n] = "start"} \X {<<>>} IN
    /\ run.phase = "starting" /\ Lands(Root, "running")
    /\ run' = [run EXCEPT !.phase = "merging"]
    /\ Open(Root, {}, first,
            [x \in first |-> [status |-> "pending", got |-> {"$input"}, turn |-> 0]], stream)
    /\ UNCHANGED <<stopped, sessions, orphans, sent>>

CloseRun ==
    /\ run.phase = "merging"
    /\ \/ /\ \A f \in Children(Root) : stream[f].phase = "done"
          /\ run' = [phase |-> "closing", status |-> "completed"]
       \/ /\ \E f \in Children(Root) : stream[f].phase = "threw"
          /\ run' = [phase |-> "closing", status |-> "failed"]
    /\ UNCHANGED <<stopped, execution, stream, sessions, orphans, file, sent>>

\* RUN_COMPLETED or RUN_FAILED is the last event; the controller is forgotten.
EndRun ==
    /\ run.phase = "closing" /\ Lands(Root, run.status)
    /\ run' = [run EXCEPT !.phase = "ended"]
    /\ UNCHANGED <<stopped, execution, stream, sessions, orphans, sent>>

Stop ==
    /\ run.phase \in {"starting", "merging", "closing"} /\ ~stopped
    /\ stopped' = TRUE
    /\ UNCHANGED <<run, execution, stream, sessions, orphans, file, sent>>

-----------------------------------------------------------------------------
\* What the runner does by itself once it is pulled; how long a node works is its own affair.
Step(f) ==
    \/ StartSaved(f) \/ BeginNode(f) \/ NodeGoesOn(f) \/ NodeAborted(f) \/ EndSaved(f)
    \/ Forward(f) \/ Branch(f) \/ BranchesDone(f) \/ BranchThrew(f) \/ FailSaved(f) \/ Rethrow(f)

RunStep == Begin \/ OpenRun \/ CloseRun \/ EndRun \/ \E f \in DOMAIN stream : Step(f)

WalkNext ==
    \/ RunStep \/ Stop
    \/ \E f \in DOMAIN stream : NodeEvent(f) \/ NodeEnds(f) \/ NodeThrows(f) \/ OrphanEnds(f)

\* The consumer (the bus, the scheduler, the tool) pulls as long as there are events.
WalkSpec == WalkInit /\ [][WalkNext]_walkVars /\ WF_walkVars(RunStep)

-----------------------------------------------------------------------------
(***************************************************************************)
(* Properties.                                                             *)
(***************************************************************************)
Completed == run.phase = "ended" /\ run.status = "completed"

(* However the branches that lead to a node end, and whoever decides that it is ready, a   *)
(* node that has begun is not begun again for the same execution id, and a loop runs one   *)
(* turn at a time (executeEntry, :123).  Only an entry whose mapping threw may be tried    *)
(* again by another branch: nothing has been recorded of it.                               *)
NoNodeTwice ==
    \A f, g \in DOMAIN stream : f # g /\ <<f[1], f[2]>> = <<g[1], g[2]>> =>
        /\ f[1] \in Loops \/ "threw" \in {stream[f].phase, stream[g].phase}
        /\ ~({stream[f].phase, stream[g].phase} \subseteq Working)

\* The branch of a loop's pass has delivered to the loop again.
CameBack(x, pass) ==
    \E o \in sent : \E c, d \in Connections :
        /\ d.from = x[1] /\ o[2] = Append(x[2], <<d, pass>>)
        /\ c.from = o[1] /\ c.port = o[4] /\ c.into = "loop" /\ Receiver(o, c) = x

(* A run that completes without being stopped leaves nothing behind: what a node put out   *)
(* was received behind every connection, under the id of its turn, and every node with the *)
(* inputs it waits for has completed, a merge of two branches included.  Only a loop whose *)
(* last branch did not come back to it waits for ever, as the node's manual says.          *)
NothingLeftBehind ==
    Completed /\ ~stopped =>
        \A o \in sent : \A c \in Connections :
            c.from = o[1] /\ c.port = o[4] =>
                LET x == Receiver(o, c) IN
                /\ x \in DOMAIN execution /\ c.into \in execution[x].got
                /\ Ready(c.to, execution[x].got) =>
                      \/ execution[x].status = "completed"
                      \/ c.to \in Loops /\ ~CameBack(x, Passes(x))

(* A loop takes its turns in order, each under an id of its own and not before the one     *)
(* before has come back to it; a for loop that completes has taken every turn.             *)
LoopsTakeTurns ==
    /\ \A f \in DOMAIN stream : f[1] \in Loops /\ f[3] > 1 => CameBack(<<f[1], f[2]>>, f[3] - 1)
    /\ \A x \in DOMAIN execution : Kind[x[1]] = "for" /\ execution[x].status = "completed" =>
          Cardinality({o \in sent : <<o[1], o[2]>> = x /\ o[4] = "loop"}) = Iterations[x[1]]

(* Nodes run once for an execution id, and loops take their turns one after the other.     *)
WalkIsSound == WalkTypeOK /\ NoNodeTwice /\ LoopsTakeTurns

(* COMPLETED is the whole truth, stopped or not: no node has failed or still runs, no      *)
(* agent's session is left, nothing is still being written, and the file says so too.      *)
CompletedIsWhole ==
    Completed =>
        /\ \A x \in DOMAIN execution : execution[x].status \in {"pending", "completed"}
        /\ \A f \in DOMAIN stream : stream[f].phase = "done"
        /\ sessions = {} /\ file = "completed"

(* Together: a run that says it completed did all of its work, and only then says so.      *)
CompletedIsTrue == NothingLeftBehind /\ CompletedIsWhole

(* Once a run is stopped no node begins to work, wherever the streams were (executeEntry's *)
(* and executeNode's checks of the signal).                                                *)
NoWorkAfterStop ==
    [][stopped => \A f \in DOMAIN stream : stream'[f].phase = "node" => stream[f].phase = "node"]_walkVars

(* A stopped run ends, even beside a node that never returns.                              *)
StoppedEnds == stopped ~> run.phase = "ended"

(* The session of an agent node is "created and destroyed for this node execution only"    *)
(* (workflowManagerNodesMd.ts): none is left when a run has ended and nobody works.        *)
SessionsDestroyed ==
    run.phase = "ended" /\ orphans = {} /\ (\A f \in DOMAIN stream : stream[f].phase # "node")
        => sessions = {}

(* Stopping a run that still walks its graph "results in RUN_FAILED"                       *)
(* (WorkFlowRunner.spec.ts).  A run stopped between two nodes ends COMPLETED.               *)
StoppedIsFailed ==
    [][stopped /\ run.phase = "merging" /\ run'.phase = "closing" => run'.status = "failed"]_walkVars
=============================================================================
