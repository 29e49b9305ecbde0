----------------------------- MODULE ModelStream -----------------------------
(***************************************************************************)
(* A model's reply, from the provider's server to what the agent shows and *)
(* runs: BaseProvider.generateStream with its timer, executeGenerateStream *)
(* and the chunk mappers of the four providers, and the ReAct strategy     *)
(* that turns chunks into messages, thinking and tool calls.               *)
(*                                                                         *)
(* The server writes lines, the network cuts them anywhere, and the server *)
(* may fall silent or go away at any time.  The timer aborts the request.  *)
(* The consumer takes one piece at a time, hands it to the agent, and the  *)
(* agent, once stopped, does not come back for the next.                   *)
(*                                                                         *)
(* Time is left out: the timer may fire whenever it is set.  So are the    *)
(* finish reasons, which nobody reads, and the start of a provider, which  *)
(* is over before anybody can ask it (index.ts:201).                       *)
(*                                                                         *)
(* An operator Bad... is a mistake of the operator that follows it, for    *)
(* the mutation runs; it is no part of the specification.                  *)
(***************************************************************************)
EXTENDS Naturals, Sequences, SequencesExt, FiniteSets

CONSTANTS
    MaxChunks,      \* lines written in one run
    MaxUnread,      \* lines written and not read
    MaxPieces,      \* pieces of text, thinking and calls in one reply
    MaxIterations,  \* requests of one run
    Nothing

Tools  == {"tool", "done"}
Errors == {"refused", "unreachable", "timeout", "broken", "malformed"}

ASSUME ModelStreamAssumption ==
    /\ {MaxChunks, MaxUnread, MaxPieces, MaxIterations} \subseteq Nat
    /\ Nothing \notin Tools \cup Errors

VARIABLES
    provider,  \* the provider that is asked
    at,        \* where the stream's consumer is
    back,      \* where it goes on after what it has handed to the agent
    stopped,   \* the run's signal is aborted
    failure,   \* the error the stream ended with
    timer,     \* "on", "fired" or "off"
    open,      \* the connection is open
    wire,      \* the lines the server has written and the client has not read to their end
    torn,      \* the last of them breaks off
    closed,    \* the server has written all it will
    buffer,    \* executeGenerateStream.buffer: how many parts of the first of them it holds
    lines,     \* the lines of the packet that are left
    todo,      \* the pieces of the chunk that are left, by their numbers
    react,     \* the locals of ReActStrategy.processStream
    said,      \* the THINKING and MESSAGE decisions of this reply
    ran,       \* its TOOL_CALL decisions
    charged,   \* Budget.usedTokens
    sent,      \* the pieces of this reply, as the server wrote them
    usage,     \* history: the usage it last reported
    finished,  \* history: it said that it was finished
    written,   \* history: the lines of the run so far
    cut,       \* history: it went away before
    owed,      \* history: what the run's replies cost
    iteration  \* requests of the run so far

server == <<provider, open, wire, torn, closed, sent, usage, finished, written, cut>>
result == <<said, ran, charged, owed, iteration>>
replyVars == <<server, result, at, back, stopped, failure, timer, buffer, lines, todo, react>>

\* What the providers do differently: the mapper hands thinking on, and a
\* fetch that fails is called unreachable, whatever was the reason.
OpenAI     == [thinks |-> TRUE,  wraps |-> FALSE]
OpenRouter == [thinks |-> TRUE,  wraps |-> FALSE]
Ollama     == [thinks |-> FALSE, wraps |-> TRUE]
LMStudio   == [thinks |-> FALSE, wraps |-> TRUE]

Fresh == [thinking |-> << >>, text |-> << >>, calls |-> << >>, state |-> "idle", usage |-> 0]

ReplyInit ==
    /\ provider \in {OpenAI, OpenRouter, Ollama, LMStudio}
    /\ at = "idle" /\ back = "idle" /\ stopped = FALSE /\ failure = Nothing
    /\ timer = "off" /\ open = FALSE
    /\ wire = << >> /\ torn = FALSE /\ closed = TRUE /\ buffer = 0 /\ lines = << >> /\ todo = {}
    /\ react = Fresh /\ said = << >> /\ ran = << >> /\ charged = 0
    /\ sent = << >> /\ usage = 0 /\ finished = FALSE /\ written = 0 /\ cut = FALSE
    /\ owed = 0 /\ iteration = 0

Over == at \in {"left", "failed", "done"}

-----------------------------------------------------------------------------
(* The server and the network                                              *)

\* A piece of the reply.  The first piece of a call names the tool.
Piece(type, index, name) == [type |-> type, index |-> index, name |-> name, last |-> FALSE]

\* A line: the pieces it carries, by the numbers between which they are; the end of
\* the reply, its usage; or nothing of interest, as a comment, "[DONE]" or the first
\* chunk, which only names the role.
Chunk(pieces, finish, tokens) ==
    [from |-> Len(sent), to |-> Len(sent) + pieces, finish |-> finish, usage |-> tokens,
     chunk |-> TRUE]

\* A line comes in two parts, the second of them with its end: what nobody has read.
Unread == 2 * Len(wire) - buffer - (IF torn THEN 1 ELSE 0)

\* Only while the client waits: what the server writes before, it reads then.
Writes == at = "waiting" /\ open /\ ~closed

\* Nobody looks at what follows a line that is no chunk.
Looked == \A i \in DOMAIN wire : wire[i].chunk

Puts(chunk) ==
    /\ Writes /\ Looked /\ written < MaxChunks /\ Unread < 2 * MaxUnread
    /\ wire' = Append(wire, chunk)
    /\ written' = written + 1
    /\ UNCHANGED <<provider, at, back, stopped, failure, timer, open, torn, closed, buffer, lines,
                   todo, react, result, cut>>

CallsSent == {sent[i].index : i \in {j \in DOMAIN sent : sent[j].type = "call"}}

Spoke(type) == Piece(type, 0, Nothing)
Continues   == {Piece("call", i, Nothing) : i \in CallsSent}
BeginsCall  == {Piece("call", Cardinality(CallsSent), name) : name \in Tools}

OnePiece == {Spoke("thinking"), Spoke("text")} \cup Continues \cup BeginsCall

\* One piece in a line, or the end of a text with a call.
SendPieces ==
    /\ ~finished
    /\ \E pieces \in {<<p>> : p \in OnePiece}
                 \cup {<<Spoke("text"), call>> : call \in BeginsCall} :
          /\ Len(sent) + Len(pieces) <= MaxPieces
          /\ Puts(Chunk(Len(pieces), FALSE, 0))
          /\ sent' = sent \o pieces
    /\ UNCHANGED <<usage, finished>>

SendNothing == Puts(Chunk(0, FALSE, 0)) /\ UNCHANGED <<sent, usage, finished>>

\* The end of the reply, with its usage or without, and with a last piece perhaps.
SendFinish ==
    /\ ~finished
    /\ \E tokens \in {0, 1}, pieces \in {<< >>} \cup {<<[p EXCEPT !.last = TRUE]>> : p \in OnePiece} :
          /\ Len(sent) + Len(pieces) <= MaxPieces
          /\ Puts(Chunk(Len(pieces), TRUE, tokens))
          /\ sent' = sent \o pieces
          /\ usage' = tokens
    /\ finished' = TRUE

\* A line that is no chunk: an error in the middle of the reply.
Malformed ==
    [from |-> Len(sent), to |-> Len(sent), finish |-> FALSE, usage |-> 0, chunk |-> FALSE]

SendError ==
    /\ ~finished
    /\ Puts(Malformed)
    /\ UNCHANGED <<sent, usage, finished>>

\* The usage in a line of its own, a second time perhaps.
SendUsage ==
    /\ finished
    /\ Puts(Chunk(0, FALSE, 2))
    /\ usage' = 2
    /\ UNCHANGED <<sent, finished>>

Closes(within) ==
    /\ Writes
    /\ closed' = TRUE /\ open' = FALSE /\ torn' = within
    /\ UNCHANGED <<provider, at, back, stopped, failure, timer, wire, buffer, lines, todo, react,
                   result, sent, usage, finished, written>>

Close      == finished /\ Closes(FALSE) /\ UNCHANGED cut
CloseEarly == /\ \/ ~finished /\ Closes(FALSE)
                 \/ Unread # 0 /\ Closes(TRUE)
              /\ cut' = TRUE

-----------------------------------------------------------------------------
(* The request                                                             *)

\* BaseProvider.generateStream sets the timer, then the request is sent.
Requests ==
    /\ at = "idle" /\ ~stopped /\ iteration < MaxIterations
    /\ at' = "connecting" /\ timer' = "on" /\ iteration' = iteration + 1
    /\ open' = TRUE /\ closed' = TRUE /\ wire' = << >> /\ torn' = FALSE
    /\ buffer' = 0 /\ lines' = << >>
    /\ react' = Fresh /\ said' = << >> /\ ran' = << >>
    /\ sent' = << >> /\ usage' = 0 /\ finished' = FALSE /\ cut' = FALSE
    /\ UNCHANGED <<provider, back, stopped, failure, todo, charged, owed, written>>

Connects ==
    /\ at = "connecting" /\ timer = "on"
    /\ at' = "waiting" /\ closed' = FALSE
    /\ UNCHANGED <<provider, back, stopped, failure, timer, open, wire, torn, buffer, lines, todo, react,
                   result, sent, usage, finished, written, cut>>

Fails(error) ==
    /\ at' = "failed" /\ failure' = error /\ timer' = "off"
    /\ UNCHANGED <<provider, back, stopped, closed, wire, torn, buffer, lines, todo, react,
                   result, sent, usage, finished, written, cut>>

\* The server refuses the request: an error of the provider's own.
Refused ==
    /\ at = "connecting" /\ timer = "on"
    /\ Fails("refused") /\ open' = FALSE

\* fetch throws: nobody is there, or the timer has fired.
ConnectFails ==
    /\ at = "connecting"
    /\ Fails(IF provider.wraps THEN "unreachable" ELSE IF timer = "fired" THEN "timeout" ELSE "broken")
    /\ open' = FALSE

\* The timer counts while the client waits, and when nobody will come back.
BadAbortable == at \in {"connecting", "waiting"}
Abortable == at \in {"connecting", "waiting", "left"}

\* The timer aborts the request.  What it does in between is felt at the next read.
Fire ==
    /\ timer = "on" /\ Abortable
    /\ timer' = "fired" /\ open' = FALSE /\ closed' = TRUE
    /\ UNCHANGED <<provider, at, back, stopped, failure, wire, torn, buffer, lines, todo, react, result,
                   sent, usage, finished, written, cut>>

\* The read throws: the request was aborted, or the connection broke.
ReadFails ==
    /\ at = "waiting"
    /\ timer = "fired" \/ open
    /\ Fails(IF timer = "fired" THEN "timeout" ELSE "broken")
    /\ open' = FALSE

-----------------------------------------------------------------------------
(* executeGenerateStream                                                   *)

\* The lines that are whole when that many parts were read: what was left of the packet
\* before comes first.
BadParsed(parts) == SubSeq(wire, 1 + buffer, parts \div 2)
Parsed(parts) == SubSeq(wire, 1, parts \div 2)

Read ==
    /\ at = "waiting" /\ timer = "on"
    /\ \E k \in 1 .. Unread :
          /\ lines'  = Parsed(buffer + k)
          /\ wire'   = SubSeq(wire, (buffer + k) \div 2 + 1, Len(wire))
          /\ buffer' = (buffer + k) % 2
    /\ at' = "sorting"
    /\ UNCHANGED <<provider, back, stopped, failure, timer, open, torn, closed, todo, react, result,
                   sent, usage, finished, written, cut>>

\* mapStreamChunkFrom...: the pieces to hand on, or the usage of the end: what came with
\* the end is dropped.
Handed(i) == (provider.thinks \/ sent[i].type # "thinking") /\ ~sent[i].last
PiecesOf(chunk) == IF chunk.finish THEN {} ELSE {i \in chunk.from + 1 .. chunk.to : Handed(i)}

\* A later usage replaces an earlier one.
Reported(chunk) == IF chunk.usage # 0 THEN chunk.usage ELSE react.usage

Sort ==
    /\ at = "sorting" /\ lines # << >> /\ Head(lines).chunk
    /\ lines' = Tail(lines)
    /\ todo' = PiecesOf(Head(lines))
    /\ at' = IF todo' = {} THEN "sorting" ELSE "holding"
    /\ react' = [react EXCEPT !.usage = Reported(Head(lines))]
    /\ UNCHANGED <<server, back, stopped, failure, timer, buffer, result>>

\* The mapper throws at what has no choices, outside the try around the parser: the
\* reader's lock is released, the timer is cleared, and the connection stays open until
\* the server ends it, if it does, which is left out.
SortFails ==
    /\ at = "sorting" /\ lines # << >> /\ ~Head(lines).chunk
    /\ Fails("malformed") /\ UNCHANGED open

ReadOn ==
    /\ at = "sorting" /\ lines = << >>
    /\ at' = "waiting"
    /\ UNCHANGED <<server, back, stopped, failure, timer, buffer, lines, todo, react, result>>

\* The server has closed the connection: the end, whatever had been said.
StreamEnds ==
    /\ at = "waiting" /\ closed /\ Unread = 0 /\ timer = "on"
    /\ at' = "ending" /\ timer' = "off"
    /\ UNCHANGED <<server, back, stopped, failure, buffer, lines, todo, react, result>>

-----------------------------------------------------------------------------
(* ReActStrategy.processStream                                             *)

\* A decision goes to the agent, who comes back for the next unless stopped.
Give(next) == at' = "given" /\ back' = next

Resume ==
    /\ at = "given"
    /\ at' = IF stopped THEN "left" ELSE back
    /\ back' = "idle"
    /\ UNCHANGED <<server, stopped, failure, timer, buffer, lines, todo, react, result>>

FlushThinking ==
    /\ react' = [react EXCEPT !.thinking = << >>]
    /\ said' = Append(said, [type |-> "thinking", pieces |-> react.thinking])

FlushText ==
    /\ react' = [react EXCEPT !.text = << >>]
    /\ said' = Append(said, [type |-> "text", pieces |-> react.text])

\* Thinking that has ended, and text that has.
StaleThinking(type) == react.state = "thinking" /\ type # "thinking" /\ react.thinking # << >>
StaleText(type)     == react.state = "text" /\ type # "text" /\ react.text # << >>

\* The piece that comes next.
Comes(i) == i \in todo /\ \A j \in todo : i <= j

Flush ==
    /\ at = "holding"
    /\ \E i \in todo :
          /\ Comes(i)
          /\ \/ StaleThinking(sent[i].type) /\ FlushThinking
             \/ StaleText(sent[i].type) /\ FlushText
    /\ Give("holding")
    /\ UNCHANGED <<server, stopped, failure, timer, buffer, lines, todo, ran, charged, owed, iteration>>

\* The call a piece belongs to: by its index, whatever comes in between.
CallOf(i) == {c \in DOMAIN react.calls : react.calls[c].index = sent[i].index}

Called(i) ==
    IF CallOf(i) = {}
    THEN Append(react.calls, [index |-> sent[i].index, name |-> sent[i].name, pieces |-> <<i>>])
    ELSE [c \in DOMAIN react.calls |->
            IF c \in CallOf(i) THEN [react.calls[c] EXCEPT !.pieces = Append(@, i)]
            ELSE react.calls[c]]

Took(i) ==
    CASE sent[i].type = "thinking" -> [react EXCEPT !.state = "thinking", !.thinking = Append(@, i)]
      [] sent[i].type = "text"     -> [react EXCEPT !.state = "text", !.text = Append(@, i)]
      [] sent[i].type = "call"     -> [react EXCEPT !.state = "call", !.calls = Called(i)]

Take ==
    /\ at = "holding"
    /\ \E i \in todo :
          /\ Comes(i) /\ ~StaleThinking(sent[i].type) /\ ~StaleText(sent[i].type)
          /\ react' = Took(i)
          /\ todo' = todo \ {i}
    /\ Give(IF todo' = {} THEN "sorting" ELSE "holding")
    /\ UNCHANGED <<server, stopped, failure, timer, buffer, lines, result>>

\* What is left is flushed, thinking first, and then the calls are run.
FlushRest ==
    /\ at = "ending" /\ (react.thinking # << >> \/ react.text # << >>)
    /\ IF react.thinking # << >> THEN FlushThinking ELSE FlushText
    /\ Give("ending")
    /\ UNCHANGED <<server, stopped, failure, timer, buffer, lines, todo, ran, charged, owed, iteration>>

Flushed == react.thinking = << >> /\ react.text = << >>

\* The calls run in their order, and none after the tool `done`.
IsDone == ran # << >> /\ Last(ran).name = "done"
AllRan == IsDone \/ Len(ran) = Len(react.calls)

RunCall ==
    /\ at = "ending" /\ Flushed /\ ~AllRan
    /\ ran' = Append(ran, react.calls[Len(ran) + 1])
    /\ Give("ending")
    /\ UNCHANGED <<server, stopped, failure, timer, buffer, lines, todo, react, said, charged, owed,
                   iteration>>

\* ITERATION: the agent's budget is charged, and without calls the run is over.
Iterate ==
    /\ at = "ending" /\ Flushed /\ AllRan
    /\ charged' = charged + react.usage
    /\ owed' = owed + (IF cut THEN react.usage ELSE usage)
    /\ at' = IF IsDone \/ react.calls = << >> THEN "done" ELSE IF stopped THEN "left" ELSE "idle"
    /\ UNCHANGED <<server, back, stopped, failure, timer, buffer, lines, todo, react, said, ran,
                   iteration>>

\* The user stops the run.
Stop ==
    /\ ~stopped /\ ~Over
    /\ stopped' = TRUE
    /\ UNCHANGED <<server, at, back, failure, timer, buffer, lines, todo, react, result>>

Leave ==
    /\ at = "idle" /\ stopped
    /\ at' = "left"
    /\ UNCHANGED <<server, back, stopped, failure, timer, buffer, lines, todo, react, result>>

Server ==
    \/ SendPieces \/ SendNothing \/ SendFinish \/ SendUsage \/ SendError
    \/ Close \/ CloseEarly

Consumer ==
    \/ Read \/ Sort \/ SortFails \/ ReadOn \/ StreamEnds \/ Resume \/ Flush \/ Take \/ FlushRest
    \/ RunCall \/ Iterate

ReplyNext ==
    \/ Server \/ Requests \/ Connects \/ Refused \/ ConnectFails \/ Fire \/ ReadFails
    \/ Consumer \/ Stop \/ Leave

ReplyFairness ==
    /\ WF_replyVars(Consumer \/ Requests \/ Leave)
    /\ WF_replyVars(Fire)
    /\ WF_replyVars(timer = "fired" /\ (ReadFails \/ ConnectFails))

ReplySpec == ReplyInit /\ [][ReplyNext]_replyVars /\ ReplyFairness

-----------------------------------------------------------------------------
(* Properties                                                              *)

\* The pieces up to the n-th that the provider hands on: to be shown, and of a call.
Told(n)         == {i \in 1 .. n : sent[i].type # "call" /\ Handed(i)}
Asked(index, n) == {i \in 1 .. n : sent[i].type = "call" /\ sent[i].index = index /\ Handed(i)}

Increasing(s) == \A i, j \in DOMAIN s : i < j => s[i] < s[j]

\* What was shown, decision by decision, and what will be next.
Texts == [i \in DOMAIN said |-> said[i].pieces] \o <<react.thinking, react.text>>
Heard == UNION {Range(Texts[i]) : i \in DOMAIN Texts}

ReplyTypeOK ==
    /\ provider \in {OpenAI, OpenRouter, Ollama, LMStudio}
    /\ at \in {"idle", "connecting", "waiting", "sorting", "holding", "given", "ending",
              "left", "failed", "done"}
    /\ failure \in Errors \cup {Nothing}
    /\ timer \in {"on", "fired", "off"} /\ stopped \in BOOLEAN /\ open \in BOOLEAN
    /\ Len(sent) <= MaxPieces /\ written <= MaxChunks /\ iteration <= MaxIterations

\* Text and thinking are shown in the order the model wrote them, however the
\* network cuts the lines (OpenAIProvider.ts:113-116).
HeardInOrder ==
    /\ \A i \in DOMAIN Texts : Increasing(Texts[i])
    /\ \A i, j \in DOMAIN Texts : i < j => \A m \in Range(Texts[i]), n \in Range(Texts[j]) : m < n
    /\ \E n \in 0 .. Len(sent) : Heard = Told(n)

\* A message ends where thinking or a call begins, and nowhere else
\* (ReActStrategy.ts:103-129).
MessagesAreWhole ==
    \A i \in 1 .. Len(said) - 1 :
        said[i].type = said[i + 1].type =>
            \E p \in Last(said[i].pieces) .. Head(said[i + 1].pieces) : sent[p].type = "call"

\* The stream is over, without an error.
Received == iteration > 0 /\ timer = "off" /\ failure = Nothing

\* A reply the server finished is heard to its end, but for what it wrote into the line
\* that carries the finish reason: the mappers return before they look at the delta of
\* that line (OpenAIMapper.ts:324-330, 332).
NothingLost == Received /\ ~cut => Heard = Told(Len(sent))

\* A call runs once the reply is there, each once, with the name and all of
\* the arguments the model wrote, in whatever order their pieces came, but for
\* what came with the finish reason.  Of a reply that was cut the arguments may
\* be cut (ReActStrategy.ts:136-143, 192-200).
CallsAreWhole ==
    /\ ran # << >> => Received
    /\ \A c \in DOMAIN ran :
          /\ Increasing(ran[c].pieces)
          /\ ran[c].name # Nothing /\ ran[c].name = sent[Head(ran[c].pieces)].name
          /\ \E n \in 0 .. Len(sent) : Range(ran[c].pieces) = Asked(ran[c].index, n)
          /\ ~cut => Range(ran[c].pieces) = Asked(ran[c].index, Len(sent))
          /\ \A d \in 1 .. c - 1 : Head(ran[d].pieces) < Head(ran[c].pieces)

\* A reply is charged once, with the usage the server last reported, whether
\* it came with the end or in a line of its own, or in both (OpenAIProvider.ts:145-158).
ChargedOnce == charged = owed

\* What the run shows, runs and pays for is what the model wrote.
RepliesAreTrue ==
    ReplyTypeOK /\ HeardInOrder /\ MessagesAreWhole /\ NothingLost /\ CallsAreWhole /\ ChargedOnce

\* Every connection is closed at last, also that of a reply a stopped run has
\* turned its back on, but for one on which a line came that is no chunk: nobody
\* cancels that, and its timer is cleared (OpenAIProvider.ts:132, 161-163,
\* BaseProvider.ts:141-143).  And a run that is stopped ends, also while the model
\* is silent (BaseProvider.ts:246-268).
StreamsEnd == (open ~> ~open \/ failure = "malformed") /\ (stopped ~> Over)
=============================================================================
