---------------------------- MODULE ChatSessions ----------------------------
(***************************************************************************)
(* Sessions as a Telegram chat and the REST API create, choose, use and    *)
(* delete them: TelegramChannel.ts with its commands /start and /new,      *)
(* JsonTelegramChatStateRepository.ts, SessionManager.ts,                  *)
(* JsonSessionRepository.ts, SessionsController.ts, and of the guardrail   *)
(* rules whether a session has any.                                        *)
(*                                                                         *)
(* The manager keeps every session in a cache and, one file each, on disk. *)
(* What the chats have chosen is in one file for all chats, which every    *)
(* change reads, awaits and writes back.  Nothing orders the writes of a   *)
(* file: it does not parse from the beginning of one to its end, who reads *)
(* it then fails, and what two that meet leave is the content of either or *)
(* neither.  Every handler is a row of `ops`, and each of its awaits ends  *)
(* a step; updates arrive by webhook, so any two handlers overlap, also    *)
(* two of one chat.                                                        *)
(*                                                                         *)
(* The contents of the sessions are in SessionHistory, the rules in        *)
(* ToolPermission, the runs in AgentRun; here a run only ends.             *)
(*                                                                         *)
(* An operator Bad... is a mistake of the operator that follows it, for    *)
(* the mutation runs; it is no part of the specification.                  *)
(***************************************************************************)
EXTENDS Naturals

CONSTANTS
    Chats,        \* the chats of the bot
    Agents,       \* the agents that can be chosen
    MaxSessions,  \* how many sessions are ever created
    Ops,          \* bound: the handlers that are ever started
    None

ASSUME BoundsAreNatural == MaxSessions \in Nat /\ None \notin Nat \cup Chats

Sessions == 1 .. MaxSessions

VARIABLES
    up,      \* the process runs
    cache,   \* the sessions SessionManager.cache knows
    file,    \* the file of each session: "none", "whole" or "torn"
    store,   \* TelegramChatState of each chat, as on disk ...
    torn,    \* ... unless the file of the chats does not parse
    rules,   \* the sessions that have rules of their own
    active,  \* TelegramChannel.activeSessions
    ops,     \* the handlers under way
    met,     \* of them, those whose write meets another one of the file
    lost,    \* of them, those that write a file that was deleted
    born,    \* sessions created so far
    gone,    \* history: the sessions whose deletion began
    inUse,   \* history: of those, the ones a handler was using then
    made,    \* history: the sessions each chat was told of
    raced,   \* history: chats of which a change was written over unseen
    blurred, \* history: sessions two messages overlapped on, or lost their typing
    unmade,  \* history: sessions whose creation a crash ended before their file
    mixed    \* history: sessions of whose file two writes met

vars == <<up, cache, file, store, torn, rules, active, ops, met, lost, born,
          gone, inUse, made, raced, blurred, unmade, mixed>>
Past == <<gone, inUse, made, raced, blurred, unmade, mixed>>
Disk == <<file, store, torn, met, lost>>

Idle == [kind |-> "none", at |-> "idle", chat |-> None, session |-> None,
         state |-> None, stale |-> {}]

State(session, agent, listed) == [session |-> session, agent |-> agent, listed |-> listed]
NoState == State(None, None, {})

Init ==
    /\ up = TRUE /\ cache = {} /\ file = [s \in Sessions |-> "none"]
    /\ store = [c \in Chats |-> NoState] /\ torn = FALSE
    /\ rules = {} /\ active = {}
    /\ ops = [o \in {} |-> Idle] /\ met = {} /\ lost = {} /\ born = 0
    /\ gone = {} /\ inUse = {} /\ made = [c \in Chats |-> {}]
    /\ raced = {} /\ blurred = {} /\ unmade = {} /\ mixed = {}

At(o, place)   == up /\ o \in DOMAIN ops /\ ops[o].at = place
Go(o, place)   == ops' = [ops EXCEPT ![o].at = place]
Ends(o)        == ops' = [ops EXCEPT ![o] = Idle]
Uses(s)        == {o \in DOMAIN ops : ops[o].session = s /\ ops[o].at # "idle"}
Texts(s)       == {o \in Uses(s) : ops[o].kind = "text"}
Busy(s)        == {o \in Uses(s) : ops[o].at \in {"creating", "filling", "writing"}}

\* The handlers with a row more.
Row(o, new) == [p \in DOMAIN ops \cup {o} |-> IF p = o THEN new ELSE ops[p]]

Begin(kind, at, chat, session, state) ==
    /\ up
    /\ \E o \in Ops \ DOMAIN ops :
          ops' = Row(o, [kind |-> kind, at |-> at, chat |-> chat, session |-> session,
                         state |-> state, stale |-> {}])

-----------------------------------------------------------------------------
(* Creating a session: it is in the cache at once; the directory is made   *)
(* sure of, then its file is written.                                      *)

CanCreate == born < MaxSessions

Creates ==
    /\ born' = born + 1
    /\ cache' = cache \cup {born + 1}

\* /start creates the session first and reads the chat's state then.
StartCommand(chat) ==
    /\ CanCreate
    /\ Begin("start", "creating", chat, born + 1, None)
    /\ Creates
    /\ UNCHANGED <<up, Disk, rules, active, Past>>

\* /new, a press of a button and a message read the chat's state first.
Reads(kind, chat, session, state) ==
    /\ Begin(kind, "reading", chat, session, state)
    /\ UNCHANGED <<up, cache, Disk, rules, active, born, Past>>

FillBegins(o) ==
    /\ At(o, "creating")
    /\ file' = [file EXCEPT ![ops[o].session] = "torn"]
    /\ Go(o, "filling")
    /\ UNCHANGED <<up, cache, store, torn, met, lost, rules, active, born, Past>>

\* A write is over.  To a file that was deleted meanwhile it changed nothing.
Written(o) ==
    /\ \E content \in IF o \in lost THEN {file[ops[o].session]}
                     ELSE IF o \in met THEN {"whole", "torn", file[ops[o].session]}
                     ELSE {"whole"} :
          file' = [file EXCEPT ![ops[o].session] = content]
    /\ met' = met \ {o} /\ lost' = lost \ {o}

CreateEnds(o) ==
    /\ At(o, "filling")
    /\ Written(o)
    /\ Go(o, IF ops[o].kind = "start" THEN "reading" ELSE "loading")
    /\ UNCHANGED <<up, cache, store, torn, rules, active, born, Past>>

-----------------------------------------------------------------------------
(* The chat's state                                                        *)

\* A read of a file that does not parse throws, and the handler is over.
ReadFails(o) ==
    /\ up /\ o \in DOMAIN ops /\ ops[o].at \in {"reading", "loading"}
    /\ torn
    /\ Ends(o)
    /\ UNCHANGED <<up, cache, Disk, rules, active, born, Past>>

Found(o) == At(o, "reading") /\ ~torn
Seen(o)  == store[ops[o].chat]

\* The session joins the list the handler read, and is selected.
Joined(o, agent, session) == State(session, agent, Seen(o).listed \cup {session})

StartRead(o) ==
    /\ Found(o) /\ ops[o].kind = "start"
    /\ \E agent \in Agents :
          ops' = [ops EXCEPT ![o].at = "loading",
                             ![o].state = Joined(o, agent, ops[o].session)]
    /\ UNCHANGED <<up, cache, Disk, rules, active, born, Past>>

\* NewCommand: without an agent there is nothing to do.
NewRead(o) ==
    /\ Found(o) /\ ops[o].kind = "new" /\ Seen(o).agent # None /\ CanCreate
    /\ Creates
    /\ ops' = [ops EXCEPT ![o].at = "creating", ![o].session = born + 1,
                          ![o].state = Joined(o, Seen(o).agent, born + 1)]
    /\ UNCHANGED <<up, Disk, rules, active, Past>>

BadSelectable(o) == ops[o].state.session \in cache

\* handleSessionsCallback: the session is one of the chat's and still exists.
Selectable(o) ==
    /\ ops[o].state.session \in Seen(o).listed
    /\ ops[o].state.session \in cache

SelectRead(o) ==
    /\ Found(o) /\ ops[o].kind = "session" /\ Selectable(o)
    /\ ops' = [ops EXCEPT ![o].at = "loading",
                          ![o].state = [Seen(o) EXCEPT !.session = ops[o].state.session]]
    /\ UNCHANGED <<up, cache, Disk, rules, active, born, Past>>

\* handleAgentsCallback
AgentRead(o) ==
    /\ Found(o) /\ ops[o].kind = "agent" /\ Seen(o) # NoState
    /\ ops' = [ops EXCEPT ![o].at = "loading",
                          ![o].state = [Seen(o) EXCEPT !.agent = ops[o].state.agent]]
    /\ UNCHANGED <<up, cache, Disk, rules, active, born, Past>>

\* handleTextMessage: the chosen session must be in the cache.
Usable(o) == Seen(o).session # None /\ Seen(o).agent # None /\ Seen(o).session \in cache

TextRead(o) ==
    /\ Found(o) /\ ops[o].kind = "text" /\ Usable(o)
    /\ ops' = [ops EXCEPT ![o].at = "typing", ![o].session = Seen(o).session]
    /\ active' = active \cup {Seen(o).session}
    /\ blurred' = IF Texts(Seen(o).session) = {} THEN blurred
                  ELSE blurred \cup {Seen(o).session}
    /\ UNCHANGED <<up, cache, Disk, rules, born, gone, inUse, made, raced, unmade, mixed>>

\* There is nothing to do, and the chat is told so.
NothingToDo(o) ==
    /\ Found(o)
    /\ CASE ops[o].kind = "new"     -> Seen(o).agent = None
         [] ops[o].kind = "session" -> ~Selectable(o)
         [] ops[o].kind = "agent"   -> Seen(o) = NoState
         [] ops[o].kind = "text"    -> ~Usable(o)
         [] OTHER                   -> FALSE
    /\ Ends(o)
    /\ UNCHANGED <<up, cache, Disk, rules, active, born, Past>>

\* JsonTelegramChatStateRepository.save reads the file of all chats again ...
Load(o) ==
    /\ At(o, "loading") /\ ~torn
    /\ ops' = [ops EXCEPT ![o].at = "merging",
                          ![o].state = [store EXCEPT ![ops[o].chat] = ops[o].state]]
    /\ UNCHANGED <<up, cache, Disk, rules, active, born, Past>>

\* ... and writes it, whoever has read or is writing it by then ...
Storing == {o \in DOMAIN ops : ops[o].at = "storing"}

\* Whose writes meet, now that o begins one beside those of the others.
Meeting(o, others) == IF others = {} THEN met ELSE met \cup others \cup {o}

StoreBegins(o) ==
    /\ At(o, "merging")
    /\ torn' = TRUE
    /\ met' = Meeting(o, Storing)
    /\ Go(o, "storing")
    /\ UNCHANGED <<up, cache, file, store, lost, rules, active, born, Past>>

\* ... so that those who hold what they read before have not seen the change.
Unseen(p, o) ==
    \/ ops[p].at \in {"merging", "storing"}
    \/ /\ ops[p].chat = ops[o].chat
       /\ \/ ops[p].at = "loading"
          \/ ops[p].at \in {"creating", "filling"} /\ ops[p].kind = "new"

Stored(o) ==
    /\ store' = ops[o].state /\ torn' = FALSE
    /\ raced' = raced \cup ops[o].stale

\* The content of another, or no content at all, is there in the end.
Overwritten(o) ==
    /\ o \in met
    /\ torn' \in {torn, TRUE} /\ UNCHANGED store
    /\ raced' = raced \cup {ops[o].chat}

\* A command that created a session then saves it once more.
AfterStore(o) == IF ops[o].kind \in {"start", "new"} THEN "checking" ELSE "idle"

Store(o) ==
    /\ At(o, "storing")
    /\ Stored(o) \/ Overwritten(o)
    /\ met' = met \ {o}
    /\ made' = IF ops[o].session = None THEN made
               ELSE [made EXCEPT ![ops[o].chat] = @ \cup {ops[o].session}]
    /\ cache' = IF AfterStore(o) = "idle" THEN cache ELSE cache \cup {ops[o].session}
    /\ ops' = [p \in DOMAIN ops |->
                  IF p = o
                  THEN IF AfterStore(o) = "idle" THEN Idle
                       ELSE [ops[o] EXCEPT !.at = AfterStore(o), !.state = None, !.stale = {}]
                  ELSE [ops[p] EXCEPT !.stale = IF Unseen(p, o) THEN @ \cup {ops[o].chat} ELSE @]]
    /\ UNCHANGED <<up, file, lost, rules, active, born, gone, inUse, blurred, unmade, mixed>>

-----------------------------------------------------------------------------
(* A message of the chat                                                   *)

TypingShown(o) ==
    /\ At(o, "typing")
    /\ Go(o, "running")
    /\ UNCHANGED <<up, cache, Disk, rules, active, born, Past>>

\* sendChatAction throws outside the try: the session stays in activeSessions.
TypingFails(o) ==
    /\ At(o, "typing")
    /\ Ends(o)
    /\ blurred' = blurred \cup {ops[o].session}
    /\ UNCHANGED <<up, cache, Disk, rules, active, born, gone, inUse, made, raced, unmade, mixed>>

\* The user answers a request of the run once and for all.
AnswerAlways(o) ==
    /\ At(o, "running")
    /\ rules' = rules \cup {ops[o].session}
    /\ UNCHANGED <<up, cache, Disk, active, ops, born, Past>>

\* TelegramChannelResponse.stream saves the session at its end.
RunEnds(o) ==
    /\ At(o, "running")
    /\ cache' = cache \cup {ops[o].session}
    /\ Go(o, "checking")
    /\ UNCHANGED <<up, Disk, rules, active, born, Past>>

-----------------------------------------------------------------------------
(* SessionManager.save and JsonSessionRepository.update                    *)

\* A handler of the API that changes a session and saves it.
ApiSaves(s) ==
    /\ s \in cache
    /\ Begin("save", "checking", None, s, None)
    /\ UNCHANGED <<up, cache, Disk, rules, active, born, Past>>

\* The handler of a message takes the session out of activeSessions.
BadLeaves(o) == active' = active
Leaves(o) == active' = IF ops[o].kind = "text" THEN active \ {ops[o].session} ELSE active

\* The file must exist and parse; then the directory is made sure of ...
Checked(o) ==
    /\ At(o, "checking")
    /\ file[ops[o].session] = "whole"
    /\ Go(o, "saving")
    /\ UNCHANGED <<up, cache, Disk, rules, active, born, Past>>

CheckFails(o) ==
    /\ At(o, "checking")
    /\ file[ops[o].session] # "whole"
    /\ Ends(o) /\ Leaves(o)
    /\ UNCHANGED <<up, cache, Disk, rules, born, Past>>

\* ... and it is written, whether or not it still exists, and whoever else is
\* writing it by then.
Writing(s) == {o \in Uses(s) : ops[o].at \in {"filling", "writing"}}

WriteBegins(o) ==
    /\ At(o, "saving")
    /\ LET others == Writing(ops[o].session) \ lost
       IN  /\ met' = Meeting(o, others)
           /\ mixed' = IF others = {} THEN mixed ELSE mixed \cup {ops[o].session}
    /\ file' = [file EXCEPT ![ops[o].session] = "torn"]
    /\ Go(o, "writing")
    /\ UNCHANGED <<up, cache, store, torn, lost, rules, active, born, gone, inUse, made, raced, blurred, unmade>>

WriteEnds(o) ==
    /\ At(o, "writing")
    /\ Written(o)
    /\ Ends(o) /\ Leaves(o)
    /\ UNCHANGED <<up, cache, store, torn, rules, born, Past>>

-----------------------------------------------------------------------------
(* Deletion, crash and restart                                             *)

\* The session stays in the cache.
BadDeleteSession(s) ==
    /\ s \in cache
    /\ Begin("delete", "unlinking", None, s, None)
    /\ gone' = gone \cup {s}
    /\ inUse' = IF Uses(s) = {} THEN inUse ELSE inUse \cup {s}
    /\ UNCHANGED <<up, cache, Disk, rules, active, born, made, raced, blurred, unmade, mixed>>

\* SessionsController.deleteSession: out of the cache, then off the disk ...
DeleteSession(s) ==
    /\ s \in cache
    /\ Begin("delete", "unlinking", None, s, None)
    /\ cache' = cache \ {s}
    /\ gone' = gone \cup {s}
    /\ inUse' = IF Uses(s) = {} THEN inUse ELSE inUse \cup {s}
    /\ UNCHANGED <<up, Disk, rules, active, born, made, raced, blurred, unmade, mixed>>

\* ... and its rules with it.  Who is writing the file goes on writing what is
\* no more.
Unlinked(o) ==
    /\ At(o, "unlinking")
    /\ file' = [file EXCEPT ![ops[o].session] = "none"]
    /\ lost' = lost \cup Writing(ops[o].session)
    /\ rules' = rules \ {ops[o].session}
    /\ Ends(o)
    /\ UNCHANGED <<up, cache, store, torn, met, active, born, Past>>

\* The process dies: the files stay as they are.
Dying(place) == {ops[o].session : o \in {p \in DOMAIN ops : ops[p].at = place}}

Crash ==
    /\ up
    /\ up' = FALSE /\ cache' = {} /\ active' = {}
    /\ ops' = [o \in DOMAIN ops |-> Idle] /\ met' = {} /\ lost' = {}
    /\ inUse' = inUse \cup Dying("unlinking")
    /\ unmade' = unmade \cup Dying("creating")
    /\ UNCHANGED <<file, store, torn, rules, born, gone, made, raced, blurred, mixed>>

\* A file of a session that does not parse keeps the process from starting.
Boot ==
    /\ ~up /\ \A s \in Sessions : file[s] # "torn"
    /\ up' = TRUE
    /\ cache' = {s \in Sessions : file[s] = "whole"}
    /\ UNCHANGED <<Disk, rules, active, ops, born, Past>>

Arrives ==
    \/ \E c \in Chats : StartCommand(c) \/ Reads("new", c, None, None)
                        \/ Reads("text", c, None, None)
    \/ \E c \in Chats, s \in 1 .. born : Reads("session", c, None, State(s, None, {}))
    \/ \E c \in Chats, a \in Agents : Reads("agent", c, None, State(None, a, {}))
    \/ \E s \in Sessions : ApiSaves(s) \/ DeleteSession(s)

OpStep(o) ==
    \/ FillBegins(o) \/ CreateEnds(o) \/ ReadFails(o) \/ StartRead(o) \/ NewRead(o) \/ SelectRead(o)
    \/ AgentRead(o) \/ TextRead(o) \/ NothingToDo(o)
    \/ Load(o) \/ StoreBegins(o) \/ Store(o)
    \/ TypingShown(o) \/ TypingFails(o) \/ AnswerAlways(o) \/ RunEnds(o)
    \/ Checked(o) \/ CheckFails(o) \/ WriteBegins(o) \/ WriteEnds(o) \/ Unlinked(o)

Next == Arrives \/ (\E o \in Ops : OpStep(o)) \/ Crash \/ Boot

Spec == Init /\ [][Next]_vars

-----------------------------------------------------------------------------
(* Properties                                                              *)

Kinds  == {"none", "start", "new", "session", "agent", "text", "save", "delete"}
Places == {"idle", "creating", "filling", "reading", "loading", "merging", "storing",
           "typing", "running", "checking", "saving", "writing", "unlinking"}

\* Every variable has a value of its kind, and only sessions that were
\* created are known anywhere.
TypeOK ==
    /\ up \in BOOLEAN /\ torn \in BOOLEAN /\ raced \subseteq Chats
    /\ born \in 0 .. MaxSessions
    /\ \A known \in {cache, rules, active, gone, inUse, blurred, unmade, mixed} : known \subseteq 1 .. born
    /\ file \in [Sessions -> {"none", "whole", "torn"}]
    /\ \A c \in Chats : store[c].listed \subseteq 1 .. born /\ made[c] \subseteq 1 .. born
    /\ DOMAIN ops \subseteq Ops
    /\ \A o \in DOMAIN ops : ops[o].kind \in Kinds /\ ops[o].at \in Places

\* The session a chat has chosen is one of its list, in whatever order
\* commands and presses of buttons write back what they had read
\* (TelegramChannel.ts:308-313).
SelectedIsListed ==
    \A c \in Chats : store[c].session # None => store[c].session \in store[c].listed

\* A chat never refers to a session that was not on disk before: a crash
\* between the two files leaves a session without a chat, not a chat whose
\* session is gone (StartCommand.ts:25-37, NewCommand.ts:21-31).
ListedIsOnDisk ==
    \A c \in Chats : \A s \in store[c].listed : file[s] # "none" \/ s \in gone

\* A chat keeps every session its commands created, as long as no handler,
\* of this chat or of another, wrote over a change of the chat's it had not
\* seen (JsonTelegramChatStateRepository.ts:20-25).
ListsAreKept == \A c \in Chats \ raced : made[c] \subseteq store[c].listed

\* What the chats' file says, while it parses, can be acted upon, and is not
\* forgotten.
ChatsAreSound == TypeOK /\ (~torn => SelectedIsListed /\ ListedIsOnDisk /\ ListsAreKept)

\* A session nobody deleted is in the cache, and whole on disk unless a write
\* of it is under way: through handlers that overlap, crashes and restarts.
\* Two things go wrong in the code: a session is gone whose creation a crash
\* cut off before its file was opened, and a file two writes of which met may
\* be left torn; but it is there.
KeptUnlessDeleted ==
    up => \A s \in (1 .. born) \ (gone \cup unmade) :
        /\ s \in cache
        /\ file[s] = "none" => \E o \in Uses(s) : ops[o].at = "creating"
        /\ s \notin mixed => file[s] = "whole" \/ Busy(s) # {}

\* A deleted session stays deleted, with its file and its rules, although
\* chats still list it and buttons still offer it; unless a handler was using
\* it, or the process died, while it was being deleted (SessionManager.ts:40
\* puts a session back into the cache when it is saved).
DeletedStaysGone ==
    \A s \in gone \ inUse :
        /\ s \notin cache
        /\ (\A o \in Uses(s) : ops[o].at # "unlinking") => file[s] = "none" /\ s \notin rules

\* Sessions disappear when they are deleted, and only then.
DeletionIsExact == KeptUnlessDeleted /\ DeletedStaysGone

\* What stop() goes by is exactly the sessions with a message under way,
\* except where two messages overlapped on a session or its typing failed
\* (TelegramChannel.ts:244-255).
ActiveIsExact == \A s \in Sessions \ blurred : s \in active <=> Texts(s) # {}
=============================================================================
