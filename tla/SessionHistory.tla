--------------------------- MODULE SessionHistory ---------------------------
(***************************************************************************)
(* The messages of one session: the runs that add to them and rewrite them *)
(* (system prompts, optimisation, commit), the scheduler that delivers a   *)
(* message into them at any time, and the file they are saved to.          *)
(*                                                                         *)
(* A message is numbered when it is added; a summary covers the numbers of *)
(* the messages it replaces.  System messages are left out: every run      *)
(* rebuilds them, and the file does not hold them.                         *)
(*                                                                         *)
(* pc says where the session's run is (runs exclude each other: AgentRun): *)
(*   idle        no run                                                    *)
(*   prompting   rebuildSystemPrompts awaits the memory                    *)
(*   prepared    between rebuildSystemPrompts and session.optimize         *)
(*   optimizing  session.optimize awaits the summary                       *)
(*   optimized   before the user's message is added                        *)
(*   forcing     before the strategy starts: forced tool calls             *)
(*   forced_call one of them runs                                          *)
(*   looping     the strategy decides                                      *)
(*   call        one of its tool calls runs                                *)
(*   unwinding   the finally block of Agent.run is due                     *)
(***************************************************************************)
EXTENDS Naturals, Sequences, FiniteSets, SequencesExt

CONSTANTS
    Preserve,       \* preserveRecentCount of the optimizers
    Saving,         \* whether whoever sent the run saves the session afterwards
    Crashes,        \* whether the process may die
    MaxMessages,    \* bound: messages ever added
    MaxDeliveries,  \* bound: messages among them that the scheduler delivers
    MaxSaves        \* bound: saves in progress when a run or the REST API starts

ASSUME SessionHistoryAssumption ==
    /\ {Preserve, MaxMessages, MaxDeliveries, MaxSaves} \subseteq Nat
    /\ {Saving, Crashes} \subseteq BOOLEAN

Numbers == 1..MaxMessages
Message == [covers : SUBSET Numbers, kind : {"said", "call", "result", "summary"},
            of : 0..MaxMessages, current : BOOLEAN]

VARIABLES
    up,         \* the process runs
    pc,         \* where the run of the session is
    msgs,       \* Session._messages without the system messages
    snapshot,   \* what rebuildSystemPrompts or optimize took from it
    open,       \* the number of the call whose tool runs
    wire,       \* the messages the run gave its strategy
    added,      \* how many messages were added
    disk,       \* the messages in the session's file
    torn,       \* a crash cut the write of the file: it is not JSON
    reads,      \* saves that look for the file first (JsonSessionRepository.update)
    writes,     \* saves whose writeFile is in flight
    expected,   \* history: the numbers that were added and not withdrawn
    delivered,  \* history: the numbers that the scheduler added
    clean       \* history: no two writes of the file overlapped

runVars == <<pc, msgs, snapshot, open, wire>>
fileVars == <<disk, torn, reads, writes, clean>>
history == <<added, expected, delivered>>
vars == <<up, runVars, fileVars, history>>

PCs == {"idle", "prompting", "prepared", "optimizing", "optimized", "forcing",
        "forced_call", "looping", "call", "unwinding"}

TypeOK ==
    /\ up \in BOOLEAN
    /\ pc \in PCs
    /\ {msgs, snapshot, wire, disk} \subseteq Seq(Message)
    /\ open \in 0..MaxMessages
    /\ open # 0 <=> pc \in {"forced_call", "call"}
    /\ added \in 0..MaxMessages
    /\ reads \in Nat
    /\ writes \in Seq([data : Seq(Message), mixed : BOOLEAN])
    /\ expected \subseteq Numbers
    /\ delivered \subseteq Numbers
    /\ {torn, clean} \subseteq BOOLEAN

Init ==
    /\ up = TRUE
    /\ pc = "idle"
    /\ msgs = <<>> /\ snapshot = <<>> /\ wire = <<>>
    /\ open = 0
    /\ added = 0
    /\ disk = <<>> /\ reads = 0 /\ writes = <<>>
    /\ expected = {} /\ delivered = {}
    /\ torn = FALSE /\ clean = TRUE

-----------------------------------------------------------------------------
(***************************************************************************)
(* Operations on a sequence of messages.                                   *)
(***************************************************************************)
\* Array.filter: those at the given positions, in their order.  (SelectSeq is built into
\* the tools and has no definition that a proof could use.)
Picked(ms, positions) ==
    LET upTo[n \in 0..Len(ms)] ==
            IF n = 0 THEN <<>>
            ELSE IF n \in positions THEN Append(upTo[n - 1], ms[n]) ELSE upTo[n - 1]
    IN upTo[Len(ms)]

Past(ms) == Picked(ms, {i \in DOMAIN ms : ~ms[i].current})
Current(ms) == Picked(ms, {i \in DOMAIN ms : ms[i].current})
Covered(ms) == UNION {m.covers : m \in ToSet(ms)}

\* The numbers of the calls that have a result among the messages.
Answered(ms) == {m.of : m \in {x \in ToSet(ms) : x.kind = "result"}}

IsOrphan(m, ms) == m.kind = "call" /\ m.covers \cap Answered(ms) = {}

\* Session.stripOrphanedToolCalls
Orphans(ms) == {i \in DOMAIN ms : IsOrphan(ms[i], ms)}
StripOrphans(ms) == Picked(ms, DOMAIN ms \ Orphans(ms))

\* Session.commitSession
Commit(ms) == LET kept == StripOrphans(ms) IN
    [i \in DOMAIN kept |-> [kept[i] EXCEPT !.current = FALSE]]

\* SessionSummarizer without findSafeSplitIndex.
BadSafeSplit(past, upTo) == upTo

\* SessionSummarizer.findSafeSplitIndex: the split moves back over the calls
\* right before it whose results are behind it.
SafeSplit(past, upTo) ==
    LET preserved == Answered(SubSeq(past, upTo + 1, Len(past)))
        cut(i) == past[i].kind = "call" /\ past[i].covers \cap preserved # {}
    IN CHOOSE n \in 0..upTo :
         /\ \A i \in n + 1..upTo : cut(i)
         /\ n = 0 \/ ~cut(n)

\* ToolCallCompressor.runOptimize, which also moves the current messages behind
\* the others.
Compressed(ms) ==
    IF Len(Past(ms)) <= Preserve THEN ms ELSE Past(ms) \o Current(ms)

\* A summarizer that does not cut the preserved messages again when the split
\* has moved.
BadSummarized(ms) ==
    LET past == Past(ms)
        last == Len(past) - Preserve
        split == IF Len(past) <= Preserve THEN 0 ELSE SafeSplit(past, last)
    IN IF split = 0 THEN ms
       ELSE <<[covers |-> Covered(SubSeq(past, 1, split)), kind |-> "summary",
               of |-> 0, current |-> FALSE]>>
            \o SubSeq(past, last + 1, Len(past)) \o Current(ms)

\* SessionSummarizer.runOptimize
Summarized(ms) ==
    LET past == Past(ms)
        split == IF Len(past) <= Preserve THEN 0 ELSE SafeSplit(past, Len(past) - Preserve)
    IN IF split = 0 THEN ms
       ELSE <<[covers |-> Covered(SubSeq(past, 1, split)), kind |-> "summary",
               of |-> 0, current |-> FALSE]>>
            \o SubSeq(past, split + 1, Len(past)) \o Current(ms)

\* Session.addMessage
Append1(kind, of) ==
    /\ added < MaxMessages
    /\ added' = added + 1
    /\ msgs' = Append(msgs, [covers |-> {added + 1}, kind |-> kind, of |-> of, current |-> TRUE])
    /\ expected' = expected \cup {added + 1}

-----------------------------------------------------------------------------
(***************************************************************************)
(* A run.                                                                  *)
(***************************************************************************)
\* rebuildSystemPrompts reads the messages and asks the memory.
Start ==
    /\ up /\ pc = "idle"
    /\ reads + Len(writes) <= MaxSaves
    /\ pc' = "prompting"
    /\ snapshot' = msgs
    /\ UNCHANGED <<up, msgs, open, wire, fileVars, history>>

\* It writes back the messages it had read.
PromptsBuilt ==
    /\ up /\ pc = "prompting"
    /\ pc' = "prepared"
    /\ msgs' = snapshot /\ snapshot' = <<>>
    /\ UNCHANGED <<up, open, wire, fileVars, history>>

\* Session.optimize reads the messages and runs the optimizers on them.
OptimizeStarts ==
    /\ up /\ pc = "prepared"
    /\ pc' = "optimizing"
    /\ snapshot' = msgs
    /\ UNCHANGED <<up, msgs, open, wire, fileVars, history>>

\* It writes back what they made of them.  The usage decides which of them act:
\* none, the compressor (from 0.5 of the window), the summarizer too (from 0.7).
OptimizeEnds ==
    /\ up /\ pc = "optimizing"
    /\ pc' = "optimized"
    /\ msgs' \in {snapshot, Compressed(snapshot), Summarized(Compressed(snapshot))}
    /\ snapshot' = <<>>
    /\ UNCHANGED <<up, open, wire, fileVars, history>>

UserMessage ==
    /\ up /\ pc = "optimized"
    /\ pc' = "forcing"
    /\ Append1("said", 0)
    /\ UNCHANGED <<up, snapshot, open, wire, fileVars, delivered>>

\* The strategy gets the messages once, and goes on with its own copy.
Think ==
    /\ up /\ pc = "forcing"
    /\ pc' = "looping"
    /\ wire' = msgs
    /\ UNCHANGED <<up, msgs, snapshot, open, fileVars, history>>

\* A message or a plan of the strategy.
Say ==
    /\ up /\ pc = "looping"
    /\ Append1("said", 0)
    /\ UNCHANGED <<up, pc, snapshot, open, wire, fileVars, delivered>>

\* A tool call is added before the guardrails look at it and the tool runs.
Call ==
    /\ up /\ pc \in {"forcing", "looping"}
    /\ pc' = IF pc = "forcing" THEN "forced_call" ELSE "call"
    /\ Append1("call", 0)
    /\ open' = added + 1
    /\ UNCHANGED <<up, snapshot, wire, fileVars, delivered>>

\* The result is added when the tool has ended.
Result ==
    /\ up /\ pc \in {"forced_call", "call"}
    /\ pc' = IF pc = "forced_call" THEN "forcing" ELSE "looping"
    /\ Append1("result", open)
    /\ open' = 0
    /\ UNCHANGED <<up, snapshot, wire, fileVars, delivered>>

\* The run is over: done, stopped, failed, or left by its consumer, at any point.
RunEnds ==
    /\ up /\ pc \notin {"idle", "unwinding"}
    /\ pc' = "unwinding"
    /\ open' = 0 /\ wire' = <<>> /\ snapshot' = <<>>
    /\ UNCHANGED <<up, msgs, fileVars, history>>

\* The finally block of Agent.run, and the save of the channel that sent the run.
\* The scheduler does not save the session its task ran in.
Finish ==
    /\ up /\ pc = "unwinding"
    /\ pc' = "idle"
    /\ msgs' = Commit(msgs)
    /\ expected' = expected \ UNION {msgs[i].covers : i \in Orphans(msgs)}
    /\ reads' = reads + (IF Saving THEN 1 ELSE 0)
    /\ UNCHANGED <<up, snapshot, open, wire, disk, torn, writes, clean, added, delivered>>

-----------------------------------------------------------------------------
\* Scheduler.deliver without its save.
BadDeliver ==
    /\ up
    /\ Cardinality(delivered) < MaxDeliveries
    /\ Append1("said", 0)
    /\ delivered' = delivered \cup {added + 1}
    /\ UNCHANGED <<up, pc, snapshot, open, wire, fileVars>>

\* Scheduler.deliver: the outcome of a task is added to the destination session,
\* whatever the session is doing, and the session is saved.
Deliver ==
    /\ up
    /\ Cardinality(delivered) < MaxDeliveries
    /\ Append1("said", 0)
    /\ delivered' = delivered \cup {added + 1}
    /\ reads' = reads + 1
    /\ UNCHANGED <<up, pc, snapshot, open, wire, disk, torn, writes, clean>>

\* The REST API saves a session whose title or directory it changed.
ApiSaves ==
    /\ up
    /\ reads + Len(writes) < MaxSaves
    /\ reads' = reads + 1
    /\ UNCHANGED <<up, runVars, disk, torn, writes, clean, history>>

(***************************************************************************)
(* The file.  A save takes the messages when the file was found, and then  *)
(* writes them; saves are not serialised, and two of them that meet may    *)
(* leave a file that does not parse.                                       *)
(***************************************************************************)
SaveWrites ==
    /\ up
    /\ reads > 0
    /\ reads' = reads - 1
    /\ LET alone == writes = <<>> IN
         /\ writes' = Append([i \in DOMAIN writes |-> [writes[i] EXCEPT !.mixed = TRUE]],
                             [data |-> msgs, mixed |-> ~alone])
         /\ clean' = (clean /\ alone)
    /\ UNCHANGED <<up, runVars, disk, torn, history>>

\* A save that looks for the file while another one is writing it may find half
\* of it, and throws, as does one that finds a torn file.
SaveFails ==
    /\ up
    /\ reads > 0 /\ (torn \/ writes # <<>>)
    /\ reads' = reads - 1
    /\ clean' = FALSE
    /\ UNCHANGED <<up, runVars, disk, torn, writes, history>>

SaveEnds ==
    /\ up
    /\ \E i \in DOMAIN writes :
         /\ writes' = RemoveAt(writes, i)
         /\ \/ disk' = writes[i].data /\ torn' = FALSE
            \/ writes[i].mixed /\ disk' = disk /\ torn' = TRUE
    /\ UNCHANGED <<up, runVars, reads, clean, history>>

\* The process dies; a write in flight reached the file, did not touch it, or
\* left a part of it there.
Crash ==
    /\ up /\ Crashes
    /\ up' = FALSE
    /\ \/ UNCHANGED <<disk, torn>>
       \/ writes # <<>> /\ disk' = disk /\ torn' = TRUE
       \/ \E i \in DOMAIN writes : disk' = writes[i].data /\ torn' = FALSE
    /\ reads' = 0 /\ writes' = <<>>
    /\ pc' = "idle" /\ open' = 0 /\ wire' = <<>> /\ snapshot' = <<>> /\ msgs' = <<>>
    /\ UNCHANGED <<clean, history>>

\* SessionManager.initialize commits what the file holds; it throws, and the
\* process does not start, when the file is torn.
Boot ==
    /\ ~up /\ ~torn
    /\ up' = TRUE
    /\ msgs' = Commit(disk)
    /\ expected' = Covered(StripOrphans(disk))
    /\ UNCHANGED <<pc, snapshot, open, wire, fileVars, added, delivered>>

Next ==
    \/ Start \/ PromptsBuilt \/ OptimizeStarts \/ OptimizeEnds
    \/ UserMessage \/ Think \/ Say \/ Call \/ Result \/ RunEnds \/ Finish
    \/ Deliver \/ ApiSaves \/ SaveWrites \/ SaveFails \/ SaveEnds
    \/ Crash \/ Boot

Spec == Init /\ [][Next]_vars

-----------------------------------------------------------------------------
(***************************************************************************)
(* Properties.                                                             *)
(***************************************************************************)

\* The messages stay in the order in which they were added, through summaries,
\* deliveries in the middle of a run, commits and restarts.
InOrder ==
    \A i, j \in DOMAIN msgs : i < j =>
        \A m \in msgs[i].covers, n \in msgs[j].covers : m < n

\* A model that is shown a tool call is shown its result: however an earlier run
\* ended, the call it left open was withdrawn before the next one starts.
CallsAreAnswered ==
    \A i \in DOMAIN wire : wire[i].kind = "call" => wire[i].covers \subseteq Answered(wire)

\* A model that is shown a tool result was shown the call before it: the summary
\* never cuts a tool call from its result.
ResultsHaveCalls ==
    \A i \in DOMAIN wire : wire[i].kind = "result" =>
        \E j \in 1..i - 1 : wire[j].kind = "call" /\ wire[i].of \in wire[j].covers

\* The same, as far as the summarizer looks: a call and its result stay together
\* when nothing was delivered between them, through splits that move, stripped
\* calls, crashes in the middle of a tool and files saved there.
Interrupted(m) == \E d \in delivered : m.of < d /\ \A n \in m.covers : d < n
PairsStayTogether ==
    \A i \in DOMAIN wire : wire[i].kind = "result" /\ ~Interrupted(wire[i]) =>
        \E j \in 1..i - 1 : wire[j].kind = "call" /\ wire[i].of \in wire[j].covers

\* What a provider is sent is a conversation it accepts: in order, every call
\* with its result, and every result behind its call unless a delivery came
\* between them.
WireIsCoherent == TypeOK /\ InOrder /\ CallsAreAnswered /\ PairsStayTogether

\* No message of a run disappears, except into a summary or as an open call.
OwnMessagesKept == up => expected \ delivered \subseteq Covered(msgs)

\* A delivered message is in the chat as if its agent had said it there.
DeliveredMessagesKept == up => expected \cap delivered \subseteq Covered(msgs)

\* When nothing runs and nothing is being saved, a restart would bring back the
\* messages as they are, unless two writes of the file ran into each other.
DurableWhenQuiet ==
    up /\ clean /\ pc = "idle" /\ reads = 0 /\ writes = <<>> => ~torn /\ Commit(disk) = Commit(msgs)
=============================================================================
