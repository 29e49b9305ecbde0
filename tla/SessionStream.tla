---------------------------- MODULE SessionStream ----------------------------
(***************************************************************************)
(* How what an agent says reaches the clients of the web channel: POST      *)
(* /messages starts a stream under its session's name on the event bus and  *)
(* answers with it, GET /sessions/:id/events joins it later, the scheduler  *)
(* publishes its deliveries there, and workflow runs use a bus of the same  *)
(* make that keeps its entries.                                            *)
(*                                                                         *)
(* What a handler does between two waits for input or output happens before *)
(* anything else: the check of isActive and the start of the stream, the    *)
(* copy of the buffer and the subscription are one step, and a request is   *)
(* handled only when nobody can go on without waiting (Drained).            *)
(*                                                                         *)
(* A save of a session reads its file, makes the directory and writes the   *)
(* file, with a wait after each, and nothing keeps two saves apart: one may *)
(* read what another has half written, two may mix what they write, and a   *)
(* deletion may come in between.                                            *)
(*                                                                         *)
(* A definition whose name starts with Bad is a bug the code does not have, *)
(* for the checks of the properties.                                       *)
(***************************************************************************)
EXTENDS Naturals, Sequences, FiniteSets

CONSTANTS
    Sessions,     \* session ids
    Temporary,    \* the sessions created with temporary: true
    Flows,        \* ids of workflow runs, the keys of WorkFlowRunEventBus
    MaxStreams,   \* bound: streams started
    MaxJoins,     \* bound: clients that join later
    MaxEvents,    \* bound: events of a stream
    MaxMeddling,  \* bound: deliveries, deletions, other saves, and runs of other channels
    Other,        \* a run of another channel, as the holder of a session
    None          \* no stream, no holder

ASSUME SessionStreamAssumption ==
    /\ Temporary \subseteq Sessions /\ Sessions \cap Flows = {}
    /\ {MaxStreams, MaxJoins, MaxEvents, MaxMeddling} \subseteq Nat
    /\ {None, Other} \cap Nat = {} /\ None # Other

Streams == 1..MaxStreams
\* The response that started a stream has its number; the others joined.
Readers == 1..MaxStreams + MaxJoins
Keys == Sessions \cup Flows
\* The save of a response has its number, those of the other requests follow.
Savers == 1..MaxStreams + MaxMeddling

VARIABLES
    entry,     \* AgentSessionEventBus.entries and WorkFlowRunEventBus.entries
    stream,    \* the streams, and the length of each one's buffer
    started,   \* streams started so far
    joined,    \* later clients so far
    meddled,   \* other requests so far
    reader,    \* the clients: what each was sent and what is queued for it
    holder,    \* the run that holds the session (its status is not idle)
    cached,    \* the sessions SessionManager knows
    save,      \* the saves under way
    file,      \* the sessions' files; a torn one does not parse
    unlinks,   \* the files about to be deleted
    delivered, \* history: the sessions that had a delivery
    deleted,   \* history: the sessions deleted by request
    met        \* history: the sessions of which two saves were under way at once

bus == <<entry, stream, started>>
files == <<save, file, unlinks, met>>
history == <<delivered, deleted>>
vars == <<bus, joined, meddled, reader, holder, cached, history, files>>

Stream == [key : Keys, status : {"new", "open", "done"}, length : 0..MaxEvents]
Absent == [status |-> "absent"]
Reader == [of : Streams, got : Seq(1..MaxEvents), queue : Seq(1..MaxEvents),
           phase : {"reading", "saving", "ended", "hung"}]
Nobody == [phase |-> "absent"]
\* "mixing": another save has written the file since this one began to;
\* "lost": the file was deleted since.
Save == [of : Sessions \ Temporary, for : {"response", "delivery", "change"},
         phase : {"looking", "storing", "writing", "mixing", "lost"}]
NoSave == [phase |-> "none"]

BusTyped ==
    /\ entry \in [Keys -> Streams \cup {None}]
    /\ stream \in [Streams -> Stream \cup {Absent}]
    /\ started \in 0..MaxStreams /\ joined \in 0..MaxJoins /\ meddled \in 0..MaxMeddling
    /\ reader \in [Readers -> Reader \cup {Nobody}]
    /\ holder \in [Sessions -> Streams \cup {None, Other}]
    /\ cached \subseteq Sessions
    /\ delivered \subseteq Sessions /\ deleted \subseteq Sessions

FilesTyped ==
    /\ save \in [Savers -> Save \cup {NoSave}]
    /\ file \in [Sessions -> {"whole", "torn", "none"}]
    /\ unlinks \subseteq Sessions /\ met \subseteq Sessions

TypeOK == BusTyped /\ FilesTyped

Init ==
    /\ entry = [k \in Keys |-> None]
    /\ stream = [i \in Streams |-> Absent]
    /\ started = 0 /\ joined = 0 /\ meddled = 0
    /\ reader = [c \in Readers |-> Nobody]
    /\ holder = [s \in Sessions |-> None]
    /\ cached = Sessions
    /\ delivered = {} /\ deleted = {}
    /\ save = [w \in Savers |-> NoSave]
    /\ file = [s \in Sessions |-> IF s \in Temporary THEN "none" ELSE "whole"]
    /\ unlinks = {} /\ met = {}

Under(i) == stream[i].status \in {"new", "open"}   \* entry.completed is false
Reading(c) == reader[c].phase = "reading"
ReadersOf(i) == {c \in Readers : Reading(c) /\ reader[c].of = i}
IsActive(k) == entry[k] # None /\ Under(entry[k])

\* No stream waits to be begun, and no reader has anything to do.
Drained ==
    /\ \A i \in Streams : stream[i].status # "new"
    /\ \A c \in Readers : Reading(c) => reader[c].queue = <<>> /\ Under(reader[c].of)

BadSubscribedLate(i, n) ==
    [of |-> i, got |-> <<>>, queue |-> <<>>, phase |-> "reading"]

\* buildIterable: what is buffered is sent at once, then the subscription is live.
Subscribed(i, n) ==
    [of |-> i, got |-> [e \in 1..n |-> e], queue |-> <<>>, phase |-> "reading"]

SavesOf(s) == {w \in Savers : save[w] # NoSave /\ save[w].of = s}
WritersOf(s) == {w \in SavesOf(s) : save[w].phase \in {"writing", "mixing"}}

-----------------------------------------------------------------------------
(***************************************************************************)
(* The requests.                                                           *)
(***************************************************************************)
Start(k) ==
    /\ Drained /\ started < MaxStreams
    /\ started' = started + 1
    /\ entry' = [entry EXCEPT ![k] = started + 1]
    /\ stream' = [stream EXCEPT ![started + 1] = [key |-> k, status |-> "new", length |-> 0]]

BadPost(s) ==
    /\ s \in cached
    /\ Start(s)
    /\ reader' = [reader EXCEPT ![started + 1] = Subscribed(started + 1, 0)]
    /\ UNCHANGED <<joined, meddled, holder, cached, history, files>>

\* POST /messages of a session that exists: WebChannelResponse.stream starts the stream
\* and reads it.  A session that is generating is refused (409), and nothing changes.
Post(s) ==
    /\ s \in cached /\ ~IsActive(s)
    /\ Start(s)
    /\ reader' = [reader EXCEPT ![started + 1] = Subscribed(started + 1, 0)]
    /\ UNCHANGED <<joined, meddled, holder, cached, history, files>>

\* WorkFlowController.startRun: the run goes on with no reader.
StartRun(f) ==
    /\ entry[f] = None
    /\ Start(f)
    /\ UNCHANGED <<joined, meddled, reader, holder, cached, history, files>>

\* GET /sessions/:id/events: 404 without an active stream or without the session.
Join(s) ==
    /\ Drained /\ joined < MaxJoins /\ joined' = joined + 1
    /\ reader' = IF IsActive(s) /\ s \in cached
                 THEN [reader EXCEPT ![MaxStreams + joined + 1] =
                         Subscribed(entry[s], stream[entry[s]].length)]
                 ELSE reader
    /\ UNCHANGED <<bus, meddled, holder, cached, history, files>>

\* GET /runs/:id/events, of a run the bus has, whether it has ended or not.
JoinRun(f) ==
    /\ Drained /\ joined < MaxJoins /\ joined' = joined + 1
    /\ entry[f] # None
    /\ reader' = [reader EXCEPT ![MaxStreams + joined + 1] =
                    Subscribed(entry[f], stream[entry[f]].length)]
    /\ UNCHANGED <<bus, meddled, holder, cached, history, files>>

Meddle == Drained /\ meddled < MaxMeddling /\ meddled' = meddled + 1

StartSave(w, s, for) ==
    /\ save' = [save EXCEPT ![w] = [of |-> s, for |-> for, phase |-> "looking"]]
    /\ met' = IF SavesOf(s) = {} THEN met ELSE met \cup {s}
    /\ UNCHANGED <<file, unlinks>>

\* WebChannel.send of a delivery: a stream of one event that is over before anybody
\* can join it, and with it the entry of the session.
Send(s) ==
    /\ entry' = [entry EXCEPT ![s] = None]
    /\ delivered' = delivered \cup {s}
    /\ UNCHANGED <<stream, started, deleted>>

\* Scheduler.deliver, to a session that was found when its run began: it is put back
\* into the cache, and what is delivered is sent when it is saved.
Deliver(s) ==
    /\ Meddle
    /\ cached' = cached \cup {s}
    /\ IF s \in Temporary THEN Send(s) /\ UNCHANGED files
       ELSE StartSave(MaxStreams + meddled + 1, s, "delivery") /\ UNCHANGED <<bus, history>>
    /\ UNCHANGED <<joined, reader, holder>>

\* SessionsController.setWorkingDirectory and clearWorkingDirectory, or the response of
\* another channel.
Change(s) ==
    /\ Meddle /\ s \in cached \ Temporary
    /\ StartSave(MaxStreams + meddled + 1, s, "change")
    /\ UNCHANGED <<bus, joined, reader, holder, cached, history>>

\* SessionsController.deleteSession.
DeleteSession(s) ==
    /\ Meddle /\ s \in cached
    /\ cached' = cached \ {s}
    /\ deleted' = deleted \cup {s}
    /\ unlinks' = unlinks \cup {s}
    /\ UNCHANGED <<bus, joined, reader, holder, delivered, save, file, met>>

\* A run of another channel in the same session.
OtherTakes(s) ==
    /\ Meddle /\ s \in cached /\ holder[s] = None
    /\ holder' = [holder EXCEPT ![s] = Other]
    /\ UNCHANGED <<bus, joined, reader, cached, history, files>>

OtherEnds(s) ==
    /\ holder[s] = Other
    /\ holder' = [holder EXCEPT ![s] = None]
    /\ UNCHANGED <<bus, joined, meddled, reader, cached, history, files>>

-----------------------------------------------------------------------------
(***************************************************************************)
(* consume, and the readers.                                               *)
(***************************************************************************)
BadComplete(i) ==
    /\ stream' = [stream EXCEPT ![i].status = "done"]
    /\ UNCHANGED entry

\* The end of a stream: its entry is completed, the session's entry is removed, whoever
\* it is, and the readers of this stream are told.  A workflow run keeps its entry.
Complete(i) ==
    /\ stream' = [stream EXCEPT ![i].status = "done"]
    /\ entry' = IF stream[i].key \in Sessions THEN [entry EXCEPT ![stream[i].key] = None]
                ELSE entry

\* The first event is asked for: the agent takes the session, or refuses it.  The bus
\* swallows the refusal, and the stream is over without an event.
Begin(i) ==
    /\ stream[i].status = "new"
    /\ LET k == stream[i].key IN
         \/ /\ k \in Sessions => holder[k] = None
            /\ holder' = IF k \in Sessions THEN [holder EXCEPT ![k] = i] ELSE holder
            /\ stream' = [stream EXCEPT ![i].status = "open"]
            /\ UNCHANGED entry
         \/ /\ k \in Sessions /\ holder[k] # None
            /\ Complete(i) /\ UNCHANGED holder
    /\ UNCHANGED <<started, joined, meddled, reader, cached, history, files>>

Emit(i) ==
    /\ stream[i].status = "open" /\ stream[i].length < MaxEvents
    /\ LET e == stream[i].length + 1 IN
         /\ stream' = [stream EXCEPT ![i].length = e]
         /\ reader' = [c \in Readers |-> IF c \in ReadersOf(i)
                          THEN [reader[c] EXCEPT !.queue = Append(@, e)] ELSE reader[c]]
    /\ UNCHANGED <<entry, started, joined, meddled, holder, cached, history, files>>

BadFinish(i) ==
    /\ stream[i].status = "open" /\ entry[stream[i].key] = i
    /\ Complete(i)
    /\ holder' = IF stream[i].key \in Sessions THEN [holder EXCEPT ![stream[i].key] = None]
                 ELSE holder
    /\ UNCHANGED <<started, joined, meddled, reader, cached, history, files>>

\* The run ends, by itself, by an error or because it was stopped.
Finish(i) ==
    /\ stream[i].status = "open"
    /\ Complete(i)
    /\ holder' = IF stream[i].key \in Sessions THEN [holder EXCEPT ![stream[i].key] = None]
                 ELSE holder
    /\ UNCHANGED <<started, joined, meddled, reader, cached, history, files>>

Pull(c) ==
    /\ Reading(c) /\ reader[c].queue # <<>>
    /\ reader' = [reader EXCEPT ![c].got = Append(@, Head(reader[c].queue)),
                                ![c].queue = Tail(@)]
    /\ UNCHANGED <<bus, joined, meddled, holder, cached, history, files>>

\* The end of the loop: a client that joined is done; the response saves its session
\* first, or deletes it when it is temporary.
ReadEnds(c) ==
    /\ Reading(c) /\ reader[c].queue = <<>> /\ stream[reader[c].of].status = "done"
    /\ LET s == stream[reader[c].of].key
           keeps == c \in Streams /\ s \notin Temporary
       IN /\ reader' = [reader EXCEPT ![c].phase = IF keeps THEN "saving" ELSE "ended"]
          /\ cached' = IF c \notin Streams THEN cached
                       ELSE IF keeps THEN cached \cup {s} ELSE cached \ {s}
          /\ IF keeps THEN StartSave(c, s, "response") ELSE UNCHANGED files
    /\ UNCHANGED <<bus, joined, meddled, holder, history>>

-----------------------------------------------------------------------------
(***************************************************************************)
(* The saves, JsonSessionRepository.update, and the deletion of a file.     *)
(***************************************************************************)
Replied(w, how) ==
    reader' = IF save[w].for = "response" THEN [reader EXCEPT ![w].phase = how] ELSE reader

\* update's findById: a file that is gone or does not parse makes the save throw.  A
\* delivery is not sent then, and a response is never ended.
Look(w) ==
    /\ Drained /\ save[w].phase = "looking"
    /\ \/ /\ file[save[w].of] = "whole"
          /\ save' = [save EXCEPT ![w].phase = "storing"]
          /\ UNCHANGED reader
       \/ /\ file[save[w].of] # "whole"
          /\ save' = [save EXCEPT ![w] = NoSave]
          /\ Replied(w, "hung")
    /\ UNCHANGED <<bus, joined, meddled, holder, cached, history, file, unlinks, met>>

\* persist, once the directory is there: writeFile empties the file, or creates it.
Write(w) ==
    /\ Drained /\ save[w].phase = "storing"
    /\ LET s == save[w].of
           others == WritersOf(s)
       IN /\ file' = [file EXCEPT ![s] = "torn"]
          /\ save' = [v \in Savers |->
               IF v = w THEN [save[w] EXCEPT !.phase = IF others = {} THEN "writing" ELSE "mixing"]
               ELSE IF v \in others THEN [save[v] EXCEPT !.phase = "mixing"] ELSE save[v]]
    /\ UNCHANGED <<bus, joined, meddled, reader, holder, cached, history, unlinks, met>>

\* The file is written; what two saves wrote together may be anything.
SaveEnds(w) ==
    /\ Drained /\ save[w].phase \in {"writing", "mixing", "lost"}
    /\ LET s == save[w].of IN
         /\ file' \in {[file EXCEPT ![s] = f] :
               f \in IF save[w].phase = "lost" THEN {file[s]}
                     ELSE IF save[w].phase = "writing" THEN {"whole"} ELSE {"whole", "torn"}}
         /\ IF save[w].for = "delivery" THEN Send(s) ELSE UNCHANGED <<bus, history>>
    /\ save' = [save EXCEPT ![w] = NoSave]
    /\ Replied(w, "ended")
    /\ UNCHANGED <<joined, meddled, holder, cached, unlinks, met>>

\* Who was writing the file goes on writing what has no name any more.
Unlink(s) ==
    /\ Drained /\ s \in unlinks
    /\ unlinks' = unlinks \ {s}
    /\ file' = [file EXCEPT ![s] = "none"]
    /\ save' = [w \in Savers |-> IF w \in WritersOf(s) THEN [save[w] EXCEPT !.phase = "lost"]
                                 ELSE save[w]]
    /\ UNCHANGED <<bus, joined, meddled, reader, holder, cached, history, met>>

Next ==
    \/ \E s \in Sessions : \/ Post(s) \/ Join(s) \/ Deliver(s) \/ Change(s) \/ DeleteSession(s)
                           \/ OtherTakes(s) \/ OtherEnds(s) \/ Unlink(s)
    \/ \E f \in Flows : StartRun(f) \/ JoinRun(f)
    \/ \E i \in Streams : Begin(i) \/ Emit(i) \/ Finish(i)
    \/ \E c \in Readers : Pull(c) \/ ReadEnds(c)
    \/ \E w \in Savers : Look(w) \/ Write(w) \/ SaveEnds(w)

\* The loops of consume and of the readers go on; a run ends (AgentRun says when).
Fairness ==
    /\ \A i \in Streams : WF_vars(Begin(i)) /\ WF_vars(Finish(i))
    /\ \A c \in Readers : WF_vars(Pull(c)) /\ WF_vars(ReadEnds(c))
    /\ \A w \in Savers : WF_vars(Look(w)) /\ WF_vars(Write(w)) /\ WF_vars(SaveEnds(w))

Spec == Init /\ [][Next]_vars /\ Fairness

-----------------------------------------------------------------------------
(***************************************************************************)
(* Properties.                                                             *)
(***************************************************************************)
\* Whoever reads a stream, from its start or joining in the middle, is sent its events
\* from the first on, each once and in order, and all of them before the end, also when
\* another stream has taken its place on the bus meanwhile.
NoEventLost ==
    \A c \in Readers : reader[c] # Nobody =>
        LET i == reader[c].of
            n == stream[i].length
        IN /\ reader[c].got \o reader[c].queue = [e \in 1..n |-> e]
           /\ ~Reading(c) => Len(reader[c].got) = n /\ stream[i].status = "done"

\* Unless something was delivered to it, the bus knows of a session's stream exactly
\* while it is under way, and there is one at most: a second message is refused.
BusTracksGeneration ==
    \A s \in Sessions \ delivered :
        LET live == {i \in Streams : Under(i) /\ stream[i].key = s} IN
        /\ Cardinality(live) <= 1
        /\ \A i \in live : entry[s] = i
        /\ live = {} => entry[s] = None

\* Deliveries included, the bus keeps no stream of a session that is over: the map does
\* not grow with the conversations.
NoStaleEntry ==
    \A s \in Sessions : entry[s] # None => Under(entry[s])

\* What the bus keeps is what is under way: without deliveries one stream of a
\* session at most, and never one that is over.
BusIsCurrent == TypeOK /\ BusTracksGeneration /\ NoStaleEntry

\* The session of a run is not taken out of the cache under it by a response, whatever
\* other messages, joins, saves and deletions overlap: only a request to delete it does
\* that, or, to a temporary session, a response let in by a delivery (Send).
SessionOutlivesRun ==
    \A s \in Sessions \ (deleted \cup (delivered \cap Temporary)) :
        holder[s] \in Streams => s \in cached

\* Every client's response ends after its stream does, also when the bus has forgotten
\* the stream; the only ones that never end are those whose session was deleted or was
\* being saved by somebody else as well.
ResponsesEnd ==
    \A c \in Readers :
        Reading(c) ~> \/ reader[c].phase = "ended"
                      \/ reader[c].phase = "hung" /\ stream[reader[c].of].key \in deleted \cup met
=============================================================================
