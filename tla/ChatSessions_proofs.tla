------------------------- MODULE ChatSessions_proofs -------------------------
(***************************************************************************)
(* ChatSessions for any number of chats, agents, sessions and handlers.    *)
(*                                                                         *)
(* The invariant follows each handler (HandlerOK): what it holds of the    *)
(* chats' file can be written at any time, what it works on was created,   *)
(* and a deleted session nobody was using is in no handler's hands but the *)
(* one that removes its file.                                              *)
(***************************************************************************)
EXTENDS ChatSessions, TLAPS

Born == 1 .. born
ChatState == [session : Sessions \cup {None}, agent : Agents \cup {None}, listed : SUBSET Sessions]
Handler == [kind : Kinds, at : Places, chat : Chats \cup {None}, session : Sessions \cup {None},
            state : {None} \cup ChatState \cup [Chats -> ChatState], stale : SUBSET Chats]

Doomed == gone \ inUse
OnDisk(s) == s \in Born /\ (file[s] # "none" \/ s \in gone)

\* A state that may be written: it lists what was on disk, and what it selects.
Sound(st) ==
    /\ \A s \in st.listed : OnDisk(s)
    /\ st.session # None => st.session \in st.listed

OfChats == {"start", "new", "session", "agent", "text"}

\* Where a handler writes the file of its session, is at it, and is at any file.
Writes  == {"filling", "writing"}
AtFile  == Writes \cup {"creating"}
Writers == AtFile \cup {"storing", "unlinking"}

HandlerOK(r) ==
    /\ r \in Handler
    /\ ~up => r.at = "idle"
    /\ r.session \in Born \cup {None}
    /\ r.at \in {"creating", "filling", "typing", "running", "checking", "saving", "writing", "unlinking"}
         => r.session \in Born
    /\ r.at \in {"creating", "filling", "reading", "loading", "merging", "storing"}
         => r.chat \in Chats /\ r.kind \in OfChats
    /\ r.at = "reading" =>
         /\ r.kind = "start" => OnDisk(r.session)
         /\ r.kind # "start" => r.session = None
         /\ r.kind = "agent" => r.state \in ChatState
    /\ r.at \in {"creating", "filling"} =>
         /\ r.kind \in {"start", "new"}
         /\ r.kind = "new" =>
              /\ r.state \in ChatState /\ r.state.session = r.session
              /\ r.session \in r.state.listed
              /\ \A s \in r.state.listed \ {r.session} : OnDisk(s)
    /\ r.at = "filling" => OnDisk(r.session)
    /\ r.at \in {"loading", "merging", "storing"} =>
         /\ r.kind \in {"start", "new"} => r.session \in Born
         /\ r.kind = "text" => r.session = None
    /\ r.at = "loading" =>
         /\ r.state \in ChatState /\ Sound(r.state)
         /\ r.session # None => r.session \in r.state.listed
    /\ r.at \in {"merging", "storing"} =>
         /\ r.state \in [Chats -> ChatState] /\ \A c \in Chats : Sound(r.state[c])
         /\ r.session # None => r.session \in r.state[r.chat].listed
    /\ r.at = "loading" \/ (r.at \in {"creating", "filling"} /\ r.kind = "new") =>
         (r.chat \notin raced \cup r.stale => made[r.chat] \subseteq r.state.listed)
    /\ r.at \in {"merging", "storing"} =>
         \A c \in Chats \ (raced \cup r.stale) : made[c] \subseteq r.state[c].listed
    /\ r.at = "unlinking" => r.session \in gone /\ r.kind = "delete"
    /\ r.session \in Doomed /\ r.at # "idle" => r.at = "unlinking"

HandlersOK == ops \in [DOMAIN ops -> Handler] /\ \A o \in DOMAIN ops : HandlerOK(ops[o])

Types ==
    /\ TypeOK
    /\ store \in [Chats -> ChatState]
    /\ made \in [Chats -> SUBSET Sessions]

ChatsOK ==
    \A c \in Chats : Sound(store[c]) /\ (c \notin raced => made[c] \subseteq store[c].listed)

\* Some handler is at one of the places with s.
Some(s, places) == \E p \in DOMAIN ops : ops[p].session = s /\ ops[p].at \in places

KeptOne(s) ==
    /\ up => s \in cache
    /\ file[s] = "none" => up /\ Some(s, {"creating"})
    /\ up => file[s] = "whole" \/ s \in mixed \/ Some(s, AtFile)

Kept ==
    /\ \A s \in Born \ (gone \cup unmade) : KeptOne(s)
    /\ \A s \in Sessions \ Born : file[s] = "none"

\* Who writes what was deleted, and whose writes met.
Marked ==
    /\ \A p \in lost : p \in DOMAIN ops /\ ops[p].at \in Writes /\ ops[p].session \in gone
    /\ \A p \in met :
          /\ p \in DOMAIN ops
          /\ ops[p].at = "storing" \/ (ops[p].at \in Writes /\ ops[p].session \in mixed)

\* Every use of a doomed session is its removal, by HandlerOK.
Gone ==
    \A s \in Doomed : s \notin cache /\ (Uses(s) = {} => file[s] = "none" /\ s \notin rules)

ActiveOK ==
    \A s \in Sessions \ blurred :
        /\ s \in active <=> Texts(s) # {}
        /\ \A o, p \in Texts(s) : o = p

IInv == Types /\ HandlersOK /\ ChatsOK /\ Kept /\ Marked /\ Gone /\ ActiveOK

USE BoundsAreNatural DEF Sessions

-----------------------------------------------------------------------------
(***************************************************************************)
(* A step of one handler, or the arrival of one.                           *)
(***************************************************************************)
\* The row o of ops becomes new, the others stay.
Moves(o, new) ==
    /\ new \in Handler /\ ops' \in [DOMAIN ops' -> Handler] /\ DOMAIN ops' \subseteq Ops
    /\ o \in DOMAIN ops' /\ DOMAIN ops \subseteq DOMAIN ops' /\ DOMAIN ops' \subseteq DOMAIN ops \cup {o}
    /\ ops'[o] = new
    /\ \A p \in DOMAIN ops \ {o} : ops'[p] = ops[p]

LEMMA Replaced ==
    ASSUME IInv, NEW o \in DOMAIN ops, NEW new \in Handler, ops' = [ops EXCEPT ![o] = new]
    PROVE  Moves(o, new)
BY DEF IInv, HandlersOK, Types, TypeOK, Moves

LEMMA Arrived ==
    ASSUME IInv, NEW kind, NEW at, NEW chat, NEW session, NEW state,
           Begin(kind, at, chat, session, state),
           [kind |-> kind, at |-> at, chat |-> chat, session |-> session, state |-> state,
            stale |-> {}] \in Handler
    PROVE  up /\ \E o : /\ o \notin DOMAIN ops
                       /\ Moves(o, [kind |-> kind, at |-> at, chat |-> chat, session |-> session,
                                    state |-> state, stale |-> {}])
<1> DEFINE new == [kind |-> kind, at |-> at, chat |-> chat, session |-> session, state |-> state,
                   stale |-> {}]
<1>1. PICK o \in Ops \ DOMAIN ops : ops' = Row(o, new)
  BY DEF Begin
<1> HIDE DEF new
<1>2. new \in Handler
  BY DEF new
<1>3. ops \in [DOMAIN ops -> Handler] /\ DOMAIN ops \subseteq Ops
  BY DEF IInv, HandlersOK, Types, TypeOK
<1>4. DOMAIN ops' = DOMAIN ops \cup {o} /\ ops'[o] = new /\ \A p \in DOMAIN ops : ops'[p] = ops[p]
  BY <1>1 DEF Row
<1>5. ops' \in [DOMAIN ops' -> Handler]
  BY <1>1, <1>2, <1>3, <1>4 DEF Row
<1>6. Moves(o, new) /\ up
  BY <1>2, <1>3, <1>4, <1>5 DEF Moves, Begin
<1> QED BY <1>6 DEF new

LEMMA MovedTypes ==
    ASSUME NEW o, NEW new, Moves(o, new)
    PROVE  \A p \in DOMAIN ops' : ops'[p].kind \in Kinds /\ ops'[p].at \in Places
<1>1. ops' \in [DOMAIN ops' -> Handler]
  BY DEF Moves
<1>2. \A p \in DOMAIN ops' : ops'[p] \in Handler
  BY <1>1
<1> QED BY <1>2 DEF Handler

\* The handlers a step does not touch stay in order, if nothing they rely on is taken away.
LEMMA OthersStay ==
    ASSUME IInv, NEW p \in DOMAIN ops, ops'[p] = ops[p], up' = up, born' \in Nat, born <= born',
           \A s \in Sessions : OnDisk(s) => OnDisk(s)',
           made' = made, raced' = raced, gone \subseteq gone',
           ops[p].at # "idle" => ops[p].session \notin Doomed' \ Doomed
    PROVE  HandlerOK(ops[p])'
<1>1. HandlerOK(ops[p])
  BY DEF IInv, HandlersOK
<1>2. Born \subseteq Born' /\ Born \subseteq Sessions
  BY DEF Born, IInv, Types, TypeOK
<1>3. \A st \in ChatState : Sound(st) => Sound(st)'
  BY DEF Sound, ChatState
<1>4. /\ ops[p] \in Handler
      /\ (~up => ops[p].at = "idle")'
      /\ (ops[p].session \in Born \cup {None})'
      /\ (ops[p].at \in {"creating", "filling", "typing", "running", "checking", "saving", "writing",
                           "unlinking"}
            => ops[p].session \in Born)'
      /\ (ops[p].at \in {"creating", "filling", "reading", "loading", "merging", "storing"}
            => ops[p].chat \in Chats /\ ops[p].kind \in OfChats)'
      /\ (ops[p].at = "unlinking" => ops[p].session \in gone /\ ops[p].kind = "delete")'
      /\ (ops[p].session \in Doomed /\ ops[p].at # "idle" => ops[p].at = "unlinking")'
  BY <1>1, <1>2 DEF HandlerOK
<1>5. /\ (ops[p].at = "reading" =>
            /\ ops[p].kind = "start" => OnDisk(ops[p].session)
            /\ ops[p].kind # "start" => ops[p].session = None
            /\ ops[p].kind = "agent" => ops[p].state \in ChatState)'
      /\ (ops[p].at = "filling" => OnDisk(ops[p].session))'
  <2>1. \A x : OnDisk(x) => OnDisk(x)'
    BY <1>2 DEF OnDisk
  <2> QED BY <1>1, <2>1 DEF HandlerOK
<1>6. (ops[p].at \in {"creating", "filling"} =>
         /\ ops[p].kind \in {"start", "new"}
         /\ ops[p].kind = "new" =>
              /\ ops[p].state \in ChatState /\ ops[p].state.session = ops[p].session
              /\ ops[p].session \in ops[p].state.listed
              /\ \A s \in ops[p].state.listed \ {ops[p].session} : OnDisk(s))'
  BY <1>1 DEF HandlerOK, ChatState
<1>7. (/\ ops[p].at \in {"loading", "merging", "storing"} =>
            /\ ops[p].kind \in {"start", "new"} => ops[p].session \in Born
            /\ ops[p].kind = "text" => ops[p].session = None
       /\ ops[p].at = "loading" =>
            /\ ops[p].state \in ChatState /\ Sound(ops[p].state)
            /\ ops[p].session # None => ops[p].session \in ops[p].state.listed
       /\ ops[p].at \in {"merging", "storing"} =>
            /\ ops[p].state \in [Chats -> ChatState] /\ \A c \in Chats : Sound(ops[p].state[c])
            /\ ops[p].session # None => ops[p].session \in ops[p].state[ops[p].chat].listed)'
  BY <1>1, <1>2, <1>3 DEF HandlerOK
<1>8. (/\ ops[p].at = "loading" \/ (ops[p].at \in {"creating", "filling"} /\ ops[p].kind = "new") =>
            (ops[p].chat \notin raced \cup ops[p].stale => made[ops[p].chat] \subseteq ops[p].state.listed)
       /\ ops[p].at \in {"merging", "storing"} =>
            \A c \in Chats \ (raced \cup ops[p].stale) : made[c] \subseteq ops[p].state[c].listed)'
  BY <1>1 DEF HandlerOK
<1> QED BY <1>4, <1>5, <1>6, <1>7, <1>8 DEF HandlerOK

LEMMA ChatsStay ==
    ASSUME IInv, UNCHANGED <<store, made, raced>>, \A s \in Sessions : OnDisk(s) => OnDisk(s)'
    PROVE  ChatsOK'
<1>1. \A st \in ChatState : Sound(st) => Sound(st)'
  BY DEF Sound, ChatState
<1> QED BY <1>1 DEF IInv, Types, ChatsOK

\* Who is at the file of a session stays there while another handler moves.
LEMMA SomeStay ==
    ASSUME NEW o, NEW new, Moves(o, new), NEW s, NEW places, Some(s, places),
           o \in DOMAIN ops => ops[o].at \notin places \/ ops[o].session # s
    PROVE  Some(s, places)'
<1>1. PICK p \in DOMAIN ops : ops[p].session = s /\ ops[p].at \in places
  BY DEF Some
<1>2. p \in DOMAIN ops' /\ ops'[p] = ops[p]
  BY <1>1 DEF Moves
<1> QED BY <1>1, <1>2 DEF Some

LEMMA KeptStays ==
    ASSUME IInv, NEW o, NEW new, Moves(o, new), up, up', file' = file, born' = born,
           UNCHANGED <<unmade, mixed>>, gone \subseteq gone', cache \subseteq cache' \cup gone',
           o \in DOMAIN ops => ops[o].at \notin AtFile
    PROVE  Kept'
<1>1. ASSUME NEW s \in Born \ (gone' \cup unmade) PROVE KeptOne(s)'
  <2>1. KeptOne(s)
    BY <1>1 DEF IInv, Kept
  <2>2. Some(s, {"creating"}) => Some(s, {"creating"})'
    <3>1. o \in DOMAIN ops => ops[o].at \notin {"creating"}
      BY DEF AtFile, Writes
    <3> QED BY <3>1, SomeStay
  <2>3. Some(s, AtFile) => Some(s, AtFile)'
    BY SomeStay DEF AtFile, Writes
  <2> QED BY <1>1, <2>1, <2>2, <2>3 DEF KeptOne
<1> QED BY <1>1 DEF IInv, Kept, Born

\* A handler that is no writer moves on without a mark.
LEMMA MarksStay ==
    ASSUME IInv, NEW o, NEW new, Moves(o, new), lost' \subseteq lost, met' \subseteq met,
           gone \subseteq gone', mixed \subseteq mixed',
           o \in DOMAIN ops => ops[o].at \notin AtFile \cup {"storing"} \/ o \notin lost' \cup met'
    PROVE  Marked'
<1>1. ASSUME NEW p \in lost' \cup met' PROVE p \in DOMAIN ops' /\ ops'[p] = ops[p] /\ p \in DOMAIN ops
  <2>1. p \in DOMAIN ops /\ ops[p].at \in AtFile \cup {"storing"}
    BY <1>1 DEF IInv, Marked, AtFile, Writes
  <2>2. p # o
    BY <1>1, <2>1
  <2> QED BY <2>1, <2>2 DEF Moves
<1> QED BY <1>1 DEF IInv, Marked

LEMMA GoneStays ==
    ASSUME IInv, NEW o, NEW new, Moves(o, new), file' = file, gone' = gone, inUse' = inUse,
           \A s \in Doomed : (s \in cache' => s \in cache) /\ (s \in rules' => s \in rules),
           o \in DOMAIN ops => ops[o].at # "unlinking"
    PROVE  Gone'
<1>1. ASSUME NEW s \in Doomed, Uses(s)' = {} PROVE Uses(s) = {}
  <2>1. ASSUME NEW p \in Uses(s) PROVE FALSE
    <3>1. p \in DOMAIN ops /\ ops[p].session = s /\ ops[p].at # "idle"
      BY DEF Uses
    <3>2. ops[p].at = "unlinking"
      BY <3>1 DEF IInv, HandlersOK, HandlerOK
    <3>3. p \in Uses(s)'
      BY <3>1, <3>2 DEF Moves, Uses
    <3> QED BY <1>1, <3>3
  <2> QED BY <2>1
<1> QED BY <1>1 DEF IInv, Gone, Doomed

TextOn(r, s) == r.kind = "text" /\ r.at # "idle" /\ r.session = s

LEMMA TextsAre == \A s : Texts(s) = {o \in DOMAIN ops : TextOn(ops[o], s)}
BY DEF Texts, Uses, TextOn

LEMMA ActiveStays ==
    ASSUME IInv, NEW o, NEW new, Moves(o, new), blurred \subseteq blurred',
           \A s \in Sessions \ blurred' : s \in active' <=> s \in active,
           \A s \in Sessions \ blurred' : TextOn(new, s) <=> o \in DOMAIN ops /\ TextOn(ops[o], s)
    PROVE  ActiveOK'
<1>1. ASSUME NEW s \in Sessions \ blurred' PROVE Texts(s)' = Texts(s)
  <2>1. Texts(s) = {p \in DOMAIN ops : TextOn(ops[p], s)}
    BY TextsAre
  <2>2. Texts(s)' = {p \in DOMAIN ops' : TextOn(ops'[p], s)}
    BY DEF Texts, Uses, TextOn
  <2> QED BY <2>1, <2>2 DEF Moves
<1> QED BY <1>1 DEF IInv, ActiveOK

\* A step that leaves the files alone.
LEMMA Quiet ==
    ASSUME IInv, NEW o, NEW new, Moves(o, new), HandlerOK(ops[o])', up, torn' \in BOOLEAN,
           UNCHANGED <<up, file, store, gone, inUse, made, raced, born, unmade, mixed>>,
           cache \subseteq cache', cache' \subseteq Born, rules' \subseteq Born,
           active' \subseteq Born, blurred' \subseteq Born, ActiveOK', Marked',
           \A s \in Doomed : (s \in cache' => s \in cache) /\ (s \in rules' => s \in rules),
           o \in DOMAIN ops => ops[o].at \notin AtFile \cup {"unlinking"}
    PROVE  IInv'
<1>1. born \in Nat /\ (\A s : OnDisk(s) <=> OnDisk(s)') /\ Doomed' = Doomed
  BY DEF IInv, Types, TypeOK, OnDisk, Born, Doomed
<1>2. HandlersOK'
  <2>1. ASSUME NEW p \in DOMAIN ops \ {o} PROVE HandlerOK(ops[p])'
    BY <1>1, OthersStay DEF Moves
  <2> QED BY <2>1 DEF HandlersOK, Moves
<1>3. Types'
  BY MovedTypes DEF IInv, Types, TypeOK, Moves, Born
<1>4. ChatsOK'
  BY <1>1, ChatsStay
<1>5. Kept'
  BY KeptStays
<1>6. Gone'
  BY GoneStays
<1> QED BY <1>2, <1>3, <1>4, <1>5, <1>6 DEF IInv

\* One that leaves the sessions with messages alone, too.
LEMMA Silent ==
    ASSUME IInv, NEW o, NEW new, Moves(o, new), HandlerOK(ops[o])', up,
           UNCHANGED <<up, file, store, torn, gone, inUse, made, raced, born, active, blurred, unmade, mixed,
                       met, lost>>,
           cache \subseteq cache', cache' \subseteq Born, rules' \subseteq Born,
           \A s \in Doomed : (s \in cache' => s \in cache) /\ (s \in rules' => s \in rules),
           o \in DOMAIN ops => ops[o].at \notin Writers,
           \A s \in Sessions : TextOn(new, s) <=> o \in DOMAIN ops /\ TextOn(ops[o], s)
    PROVE  IInv'
<1>1. ActiveOK'
  BY ActiveStays
<1>2. active' \subseteq Born /\ blurred' \subseteq Born /\ torn' \in BOOLEAN
  BY DEF IInv, Types, TypeOK, Born
<1>3. Marked'
  BY MarksStay DEF Writers
<1>4. o \in DOMAIN ops => ops[o].at \notin AtFile \cup {"unlinking"}
  BY DEF Writers
<1> QED BY <1>1, <1>2, <1>3, <1>4, Quiet

-----------------------------------------------------------------------------
(***************************************************************************)
(* What becomes of a handler's row.                                        *)
(***************************************************************************)
States == {None} \cup ChatState \cup [Chats -> ChatState]

LEMMA Went ==
    ASSUME IInv, NEW o \in DOMAIN ops, NEW at \in Places, Go(o, at)
    PROVE  /\ Moves(o, ops'[o]) /\ ops'[o].at = at
           /\ ops'[o].kind = ops[o].kind /\ ops'[o].chat = ops[o].chat
           /\ ops'[o].session = ops[o].session /\ ops'[o].state = ops[o].state
           /\ ops'[o].stale = ops[o].stale
<1> DEFINE new == [ops[o] EXCEPT !.at = at]
<1>1. ops \in [DOMAIN ops -> Handler] /\ ops[o] \in Handler
  BY DEF IInv, HandlersOK, HandlerOK
<1>2. ops' = [ops EXCEPT ![o] = new]
  BY DEF Go
<1>3. /\ new \in Handler /\ new.at = at
      /\ new.kind = ops[o].kind /\ new.chat = ops[o].chat
      /\ new.session = ops[o].session /\ new.state = ops[o].state /\ new.stale = ops[o].stale
  BY <1>1 DEF Handler
<1> HIDE DEF new
<1>4. Moves(o, new) /\ ops'[o] = new
  BY <1>2, <1>3, Replaced DEF Moves
<1> QED BY <1>3, <1>4

Takes(o, at, st) == ops' = [ops EXCEPT ![o].at = at, ![o].state = st]

LEMMA WentWith ==
    ASSUME IInv, NEW o \in DOMAIN ops, NEW at \in Places, NEW st \in States,
           Takes(o, at, st)
    PROVE  /\ Moves(o, ops'[o]) /\ ops'[o].at = at /\ ops'[o].state = st
           /\ ops'[o].kind = ops[o].kind /\ ops'[o].chat = ops[o].chat
           /\ ops'[o].session = ops[o].session /\ ops'[o].stale = ops[o].stale
<1> DEFINE placed == [ops[o] EXCEPT !.at = at]
           new == [placed EXCEPT !.state = st]
<1>1. ops \in [DOMAIN ops -> Handler] /\ ops[o] \in Handler
  BY DEF IInv, HandlersOK, HandlerOK
<1>2. ops' = [ops EXCEPT ![o] = new]
  BY <1>1 DEF Takes
<1>3. /\ placed \in Handler /\ placed.at = at
      /\ placed.kind = ops[o].kind /\ placed.chat = ops[o].chat
      /\ placed.session = ops[o].session /\ placed.stale = ops[o].stale
  BY <1>1 DEF Handler
<1> HIDE DEF placed
<1>4. /\ new \in Handler /\ new.at = at /\ new.state = st
      /\ new.kind = ops[o].kind /\ new.chat = ops[o].chat
      /\ new.session = ops[o].session /\ new.stale = ops[o].stale
  BY <1>3 DEF Handler, States
<1> HIDE DEF new
<1>5. Moves(o, new) /\ ops'[o] = new
  BY <1>2, <1>4, Replaced DEF Moves
<1> QED BY <1>4, <1>5

Begins(o, at, s, st) == ops' = [ops EXCEPT ![o].at = at, ![o].session = s, ![o].state = st]

LEMMA WentOn ==
    ASSUME IInv, NEW o \in DOMAIN ops, NEW at \in Places, NEW s \in Sessions, NEW st \in States,
           Begins(o, at, s, st)
    PROVE  /\ Moves(o, ops'[o]) /\ ops'[o].at = at /\ ops'[o].session = s /\ ops'[o].state = st
           /\ ops'[o].kind = ops[o].kind /\ ops'[o].chat = ops[o].chat
           /\ ops'[o].stale = ops[o].stale
<1> DEFINE placed == [ops[o] EXCEPT !.at = at]
           given == [placed EXCEPT !.session = s]
           new == [given EXCEPT !.state = st]
<1>1. ops \in [DOMAIN ops -> Handler] /\ ops[o] \in Handler
  BY DEF IInv, HandlersOK, HandlerOK
<1>2. ops' = [ops EXCEPT ![o] = new]
  BY <1>1 DEF Begins
<1>3. /\ placed \in Handler /\ placed.at = at
      /\ placed.kind = ops[o].kind /\ placed.chat = ops[o].chat /\ placed.stale = ops[o].stale
  BY <1>1 DEF Handler
<1> HIDE DEF placed
<1>4. /\ given \in Handler /\ given.at = at /\ given.session = s
      /\ given.kind = ops[o].kind /\ given.chat = ops[o].chat /\ given.stale = ops[o].stale
  BY <1>3 DEF Handler
<1> HIDE DEF given
<1>5. /\ new \in Handler /\ new.at = at /\ new.session = s /\ new.state = st
      /\ new.kind = ops[o].kind /\ new.chat = ops[o].chat /\ new.stale = ops[o].stale
  BY <1>4 DEF Handler, States
<1> HIDE DEF new
<1>6. Moves(o, new) /\ ops'[o] = new
  BY <1>2, <1>5, Replaced DEF Moves
<1> QED BY <1>5, <1>6

Turns(o, at, s) == ops' = [ops EXCEPT ![o].at = at, ![o].session = s]

LEMMA WentTo ==
    ASSUME IInv, NEW o \in DOMAIN ops, NEW at \in Places, NEW s \in Sessions,
           Turns(o, at, s)
    PROVE  /\ Moves(o, ops'[o]) /\ ops'[o].at = at /\ ops'[o].session = s
           /\ ops'[o].kind = ops[o].kind /\ ops'[o].chat = ops[o].chat
           /\ ops'[o].state = ops[o].state /\ ops'[o].stale = ops[o].stale
<1> DEFINE placed == [ops[o] EXCEPT !.at = at]
           new == [placed EXCEPT !.session = s]
<1>1. ops \in [DOMAIN ops -> Handler] /\ ops[o] \in Handler
  BY DEF IInv, HandlersOK, HandlerOK
<1>2. ops' = [ops EXCEPT ![o] = new]
  BY <1>1 DEF Turns
<1>3. /\ placed \in Handler /\ placed.at = at /\ placed.state = ops[o].state
      /\ placed.kind = ops[o].kind /\ placed.chat = ops[o].chat /\ placed.stale = ops[o].stale
  BY <1>1 DEF Handler
<1> HIDE DEF placed
<1>4. /\ new \in Handler /\ new.at = at /\ new.session = s /\ new.state = ops[o].state
      /\ new.kind = ops[o].kind /\ new.chat = ops[o].chat /\ new.stale = ops[o].stale
  BY <1>3 DEF Handler
<1> HIDE DEF new
<1>5. Moves(o, new) /\ ops'[o] = new
  BY <1>2, <1>4, Replaced DEF Moves
<1> QED BY <1>4, <1>5

LEMMA Ended ==
    ASSUME IInv, NEW o \in DOMAIN ops, Ends(o)
    PROVE  Moves(o, Idle) /\ ops'[o] = Idle /\ Idle.at = "idle" /\ HandlerOK(ops[o])'
<1>1. Idle \in Handler /\ Idle.at = "idle" /\ Idle.session = None
  BY DEF Idle, Handler, Kinds, Places
<1>2. Moves(o, Idle) /\ ops'[o] = Idle
  BY <1>1, Replaced DEF Ends, Moves
<1>3. HandlerOK(ops[o])'
  BY <1>1, <1>2 DEF HandlerOK
<1> QED BY <1>1, <1>2, <1>3

\* Where a handler is, it is sound.
LEMMA HandlerIs ==
    ASSUME IInv, NEW o, NEW place, At(o, place)
    PROVE  /\ o \in DOMAIN ops /\ up /\ HandlerOK(ops[o]) /\ ops[o].at = place
           /\ ops[o] \in Handler
BY DEF At, IInv, HandlersOK, HandlerOK

\* What is sound stays sound while nobody creates, deletes or tells anything.
LEMMA SameWorld ==
    ASSUME UNCHANGED <<up, born, file, gone, inUse, made, raced>>
    PROVE  \A r : HandlerOK(r) => HandlerOK(r)'
<1>1. Born' = Born /\ Doomed' = Doomed
  BY DEF Born, Doomed
<1>2. \A s : OnDisk(s) <=> OnDisk(s)'
  BY <1>1 DEF OnDisk
<1>3. \A st : Sound(st) <=> Sound(st)'
  BY <1>2 DEF Sound
<1> QED BY <1>1, <1>2, <1>3 DEF HandlerOK

\* A handler of no message takes a step that only it knows of.
LEMMA Steps ==
    ASSUME IInv, NEW o \in DOMAIN ops, NEW new, Moves(o, new), HandlerOK(new), up,
           UNCHANGED <<up, cache, Disk, rules, active, born, Past>>,
           ops[o].at \notin Writers,
           \A s \in Sessions : TextOn(new, s) <=> TextOn(ops[o], s)
    PROVE  IInv'
<1>1. HandlerOK(ops[o])'
  BY SameWorld DEF Moves, Disk, Past
<1>2. cache' \subseteq Born /\ rules' \subseteq Born
  BY DEF IInv, Types, TypeOK, Born
<1> QED BY <1>1, <1>2, Silent DEF Disk, Past

-----------------------------------------------------------------------------
(***************************************************************************)
(* Handlers arrive.                                                        *)
(***************************************************************************)
LEMMA ReadsKeeps ==
    ASSUME IInv, NEW kind \in OfChats \ {"start"}, NEW c \in Chats, NEW st \in States,
           kind = "agent" => st \in ChatState, Reads(kind, c, None, st)
    PROVE  IInv'
<1> DEFINE new == [kind |-> kind, at |-> "reading", chat |-> c, session |-> None,
                   state |-> st, stale |-> {}]
<1>1. new \in Handler
  BY DEF Handler, OfChats, Kinds, Places, States
<1>2. /\ Begin(kind, "reading", c, None, st)
      /\ UNCHANGED <<up, cache, file, store, torn, rules, active, born, gone, inUse, made, raced,
                     blurred, unmade, mixed, met, lost>>
  BY DEF Reads, Disk, Past
<1>3. PICK o : up /\ o \notin DOMAIN ops /\ Moves(o, new)
  BY <1>1, <1>2, Arrived
<1>4. ops'[o] = new
  BY <1>3 DEF Moves
<1>5. HandlerOK(new)
  <2>1. None \notin Doomed
    BY DEF Doomed, IInv, Types, TypeOK
  <2>2. /\ new.kind = kind /\ new.at = "reading" /\ new.chat = c /\ new.session = None
        /\ new.state = st /\ new.stale = {}
    OBVIOUS
  <2> HIDE DEF new
  <2> QED BY <1>1, <1>3, <2>1, <2>2 DEF HandlerOK, OfChats
<1>6. \A s \in Sessions : ~TextOn(new, s)
  BY DEF TextOn
<1> HIDE DEF new
<1>7. HandlerOK(ops[o])'
  BY <1>2, <1>4, <1>5, SameWorld
<1>8. cache' \subseteq Born /\ rules' \subseteq Born
  BY <1>2 DEF IInv, Types, TypeOK, Born
<1> QED BY <1>2, <1>3, <1>6, <1>7, <1>8, Silent

LEMMA ApiSavesKeeps == ASSUME IInv, NEW s \in Sessions, ApiSaves(s) PROVE IInv'
<1> DEFINE new == [kind |-> "save", at |-> "checking", chat |-> None, session |-> s,
                   state |-> None, stale |-> {}]
<1>1. new \in Handler
  BY DEF Handler, Kinds, Places
<1>2. /\ s \in cache /\ Begin("save", "checking", None, s, None)
      /\ UNCHANGED <<up, cache, file, store, torn, rules, active, born, gone, inUse, made, raced,
                     blurred, unmade, mixed, met, lost>>
  BY DEF ApiSaves, Disk, Past
<1>3. PICK o : up /\ o \notin DOMAIN ops /\ Moves(o, new)
  BY <1>1, <1>2, Arrived
<1>4. ops'[o] = new
  BY <1>3 DEF Moves
<1>5. HandlerOK(new)
  <2>1. s \in Born /\ s \notin Doomed
    BY <1>2 DEF IInv, Types, TypeOK, Born, Gone
  <2>2. /\ new.kind = "save" /\ new.at = "checking" /\ new.session = s
    OBVIOUS
  <2> HIDE DEF new
  <2> QED BY <1>1, <1>3, <2>1, <2>2 DEF HandlerOK
<1>6. \A x \in Sessions : ~TextOn(new, x)
  BY DEF TextOn
<1> HIDE DEF new
<1>7. HandlerOK(ops[o])'
  BY <1>2, <1>4, <1>5, SameWorld
<1>8. cache' \subseteq Born /\ rules' \subseteq Born
  BY <1>2 DEF IInv, Types, TypeOK, Born
<1> QED BY <1>2, <1>3, <1>6, <1>7, <1>8, Silent

-----------------------------------------------------------------------------
(***************************************************************************)
(* Sessions are created.                                                   *)
(***************************************************************************)
LEMMA CreatingKeeps ==
    ASSUME IInv, NEW o, NEW new, Moves(o, new), HandlerOK(ops[o])', up, CanCreate, Creates,
           UNCHANGED <<up, file, store, torn, rules, active, gone, inUse, made, raced,
                       blurred, unmade, mixed, met, lost>>,
           new.at = "creating", new.session = born + 1, new.kind # "text",
           o \in DOMAIN ops => ops[o].at = "reading" /\ ops[o].kind # "text"
    PROVE  IInv'
<1>1. /\ born \in Nat /\ born' = born + 1 /\ born + 1 \in Sessions /\ cache' = cache \cup {born + 1}
      /\ Born' = Born \cup {born + 1} /\ born + 1 \notin Born
  BY DEF Creates, CanCreate, IInv, Types, TypeOK, Born
<1>2. Doomed' = Doomed /\ (\A s \in Sessions : OnDisk(s) => OnDisk(s)') /\ Doomed \subseteq Born
  BY <1>1 DEF Doomed, OnDisk, Born, IInv, Types, TypeOK
<1>3. HandlersOK'
  <2>1. ASSUME NEW p \in DOMAIN ops \ {o} PROVE HandlerOK(ops[p])'
    BY <1>1, <1>2, OthersStay DEF Moves
  <2> QED BY <2>1 DEF HandlersOK, Moves
<1>4. Types'
  BY <1>1, MovedTypes DEF IInv, Types, TypeOK, Moves, Born
<1>5. ChatsOK'
  BY <1>2, ChatsStay
<1>6. Kept'
  <2> PICK n : n = born + 1
    OBVIOUS
  <2>1. Some(n, {"creating"})' /\ Some(n, AtFile)'
    <3>1. ops'[o] = new /\ o \in DOMAIN ops'
      BY DEF Moves
    <3> QED BY <3>1 DEF Some, AtFile, Writes
  <2>2. ASSUME NEW s \in Born \ (gone \cup unmade) PROVE KeptOne(s)'
    <3>1. KeptOne(s)
      BY <2>2 DEF IInv, Kept
    <3>2. Some(s, {"creating"}) => Some(s, {"creating"})'
      <4>1. o \in DOMAIN ops => ops[o].at \notin {"creating"}
        OBVIOUS
      <4> QED BY <4>1, SomeStay
    <3>3. Some(s, AtFile) => Some(s, AtFile)'
      BY SomeStay DEF AtFile, Writes
    <3> QED BY <1>1, <3>1, <3>2, <3>3 DEF KeptOne
  <2>3. KeptOne(n)'
    BY <1>1, <2>1 DEF KeptOne
  <2> QED BY <1>1, <2>2, <2>3 DEF IInv, Kept
<1>7. Gone'
  <2>1. ASSUME NEW s \in Doomed, Uses(s)' = {} PROVE Uses(s) = {}
    <3>1. ASSUME NEW p \in Uses(s) PROVE FALSE
      <4>1. p \in DOMAIN ops /\ ops[p].session = s /\ ops[p].at # "idle"
        BY DEF Uses
      <4>2. ops[p].at = "unlinking"
        BY <4>1 DEF IInv, HandlersOK, HandlerOK
      <4>3. p \in Uses(s)'
        BY <4>1, <4>2 DEF Moves, Uses
      <4> QED BY <2>1, <4>3
    <3> QED BY <3>1
  <2> QED BY <1>1, <1>2, <2>1 DEF IInv, Gone
<1>8. ActiveOK'
  <2>1. \A s \in Sessions \ blurred' : TextOn(new, s) <=> o \in DOMAIN ops /\ TextOn(ops[o], s)
    BY DEF TextOn
  <2> QED BY <2>1, ActiveStays
<1>9. Marked'
  BY MarksStay DEF AtFile, Writes
<1> QED BY <1>3, <1>4, <1>5, <1>6, <1>7, <1>8, <1>9 DEF IInv

LEMMA StartCommandKeeps == ASSUME IInv, NEW c \in Chats, StartCommand(c) PROVE IInv'
<1> DEFINE new == [kind |-> "start", at |-> "creating", chat |-> c, session |-> born + 1,
                   state |-> None, stale |-> {}]
<1>1. /\ CanCreate /\ Creates /\ Begin("start", "creating", c, born + 1, None)
      /\ UNCHANGED <<up, file, store, torn, rules, active, gone, inUse, made, raced,
                     blurred, unmade, mixed, met, lost>>
  BY DEF StartCommand, Disk, Past
<1>2. born \in Nat /\ born' = born + 1 /\ born + 1 \in Sessions /\ born + 1 \in Born' /\ born + 1 \notin Doomed'
  BY <1>1 DEF Creates, CanCreate, IInv, Types, TypeOK, Born, Doomed
<1>3. new \in Handler
  BY <1>2 DEF Handler, Kinds, Places
<1>4. PICK o : up /\ o \notin DOMAIN ops /\ Moves(o, new)
  BY <1>1, <1>3, Arrived
<1>5. /\ new.kind = "start" /\ new.at = "creating" /\ new.chat = c /\ new.session = born + 1
  OBVIOUS
<1> HIDE DEF new
<1>6. HandlerOK(ops[o])'
  <2>1. ops'[o] = new /\ up'
    BY <1>1, <1>4 DEF Moves
  <2> QED BY <1>2, <1>3, <1>5, <2>1 DEF HandlerOK, OfChats
<1> QED BY <1>1, <1>4, <1>5, <1>6, CreatingKeeps

LEMMA NewReadKeeps == ASSUME IInv, NEW o, NewRead(o) PROVE IInv'
<1> PICK n : n = born + 1
  OBVIOUS
<1>1. /\ At(o, "reading") /\ ops[o].kind = "new" /\ CanCreate /\ Creates
      /\ UNCHANGED <<up, file, store, torn, rules, active, gone, inUse, made, raced,
                     blurred, unmade, mixed, met, lost>>
      /\ ops' = [ops EXCEPT ![o].at = "creating", ![o].session = n,
                            ![o].state = Joined(o, Seen(o).agent, n)]
  BY DEF NewRead, Found, Disk, Past
<1>2. o \in DOMAIN ops /\ up /\ HandlerOK(ops[o]) /\ ops[o] \in Handler /\ ops[o].at = "reading"
  BY <1>1, HandlerIs
<1>3. born \in Nat /\ born' = n /\ n \in Sessions /\ n \in Born'
      /\ Born \subseteq Born' /\ n \notin Doomed' /\ Doomed' = Doomed
  BY <1>1 DEF Creates, CanCreate, IInv, Types, TypeOK, Born, Doomed
<1>4. ops[o].chat \in Chats /\ Seen(o) \in ChatState /\ Sound(Seen(o))
      /\ (ops[o].chat \notin raced => made[ops[o].chat] \subseteq Seen(o).listed)
  BY <1>1, <1>2 DEF HandlerOK, IInv, Types, ChatsOK, Seen
<1> PICK st : st = Joined(o, Seen(o).agent, n)
  OBVIOUS
<1>5. st \in ChatState /\ st.session = n /\ st.listed = Seen(o).listed \cup {n}
  BY <1>3, <1>4 DEF Joined, State, ChatState
<1>6. /\ Moves(o, ops'[o]) /\ ops'[o].at = "creating" /\ ops'[o].session = n
      /\ ops'[o].state = st /\ ops'[o].kind = "new" /\ ops'[o].chat = ops[o].chat
      /\ ops'[o].stale = ops[o].stale
  <2>1. "creating" \in Places /\ st \in States
    BY <1>5 DEF Places, States
  <2>2. Begins(o, "creating", n, st)
    BY <1>1 DEF Begins
  <2>3. n \in Sessions
    BY <1>3
  <2>4. /\ Moves(o, ops'[o]) /\ ops'[o].at = "creating" /\ ops'[o].session = n /\ ops'[o].state = st
        /\ ops'[o].kind = ops[o].kind /\ ops'[o].chat = ops[o].chat
        /\ ops'[o].stale = ops[o].stale
    BY <1>2, <2>1, <2>2, <2>3, WentOn
  <2> QED BY <1>1, <2>4
<1>7. HandlerOK(ops[o])'
  <2>1. \A s \in Seen(o).listed : OnDisk(s)'
    BY <1>1, <1>3, <1>4 DEF Sound, OnDisk
  <2>2. \A s \in st.listed \ {n} : OnDisk(s)'
    BY <1>5, <2>1
  <2>3. ops'[o] \in Handler /\ up'
    BY <1>1, <1>2, <1>6 DEF Moves
  <2> PICK r : r = ops'[o]
    OBVIOUS
  <2>4. /\ r \in Handler /\ r.at = "creating" /\ r.session = n /\ r.state = st /\ r.kind = "new"
        /\ r.chat \in Chats /\ n \in Born' /\ n \notin Doomed' /\ up'
        /\ st \in ChatState /\ st.session = n /\ n \in st.listed
        /\ \A s \in st.listed \ {n} : OnDisk(s)'
        /\ r.chat \notin raced' => made'[r.chat] \subseteq st.listed
    <3>1. /\ r \in Handler /\ r.at = "creating" /\ r.session = n /\ r.state = st /\ r.kind = "new"
          /\ r.chat = ops[o].chat /\ r.chat \in Chats
      BY <1>4, <1>6, <2>3
    <3>2. made' = made /\ raced' = raced /\ up'
      BY <1>1, <2>3
    <3>3. r.chat \notin raced => made[r.chat] \subseteq st.listed
      BY <1>4, <1>5, <3>1
    <3> QED BY <1>3, <1>5, <2>2, <3>1, <3>2, <3>3
  <2>5. HandlerOK(r)'
    BY <2>4 DEF HandlerOK, OfChats
  <2> QED BY <2>5
<1> QED BY <1>1, <1>2, <1>6, <1>7, CreatingKeeps

-----------------------------------------------------------------------------
(***************************************************************************)
(* The chats' file is read.                                                *)
(***************************************************************************)
\* What a handler finds there.
LEMMA FoundIs ==
    ASSUME IInv, NEW o, Found(o)
    PROVE  /\ o \in DOMAIN ops /\ up /\ ops[o].at = "reading" /\ HandlerOK(ops[o])
           /\ ops[o] \in Handler /\ ops[o].chat \in Chats
           /\ Seen(o) \in ChatState /\ Sound(Seen(o))
           /\ ops[o].chat \notin raced => made[ops[o].chat] \subseteq Seen(o).listed
<1>1. o \in DOMAIN ops /\ up /\ ops[o].at = "reading" /\ HandlerOK(ops[o]) /\ ops[o] \in Handler
  BY HandlerIs DEF Found
<1>2. ops[o].chat \in Chats
  BY <1>1 DEF HandlerOK
<1> QED BY <1>1, <1>2 DEF IInv, Types, ChatsOK, Seen

\* It goes on with a state to be saved.
LEMMA LoadingKeeps ==
    ASSUME IInv, NEW o, Found(o), NEW st \in ChatState, Sound(st), Takes(o, "loading", st),
           UNCHANGED <<up, cache, Disk, rules, active, born, Past>>,
           Seen(o).listed \subseteq st.listed,
           ops[o].session # None => ops[o].session \in st.listed,
           ops[o].kind \notin {"text", "new"}
    PROVE  IInv'
<1>1. /\ o \in DOMAIN ops /\ up /\ ops[o].at = "reading" /\ HandlerOK(ops[o])
      /\ ops[o] \in Handler /\ (ops[o].chat \notin raced => made[ops[o].chat] \subseteq Seen(o).listed)
  BY FoundIs
<1> DEFINE new == ops'[o]
<1>2. /\ Moves(o, new) /\ new.at = "loading" /\ new.state = st /\ new.kind = ops[o].kind
      /\ new.chat = ops[o].chat /\ new.session = ops[o].session /\ new.stale = ops[o].stale
  <2>1. "loading" \in Places /\ st \in States
    BY DEF Places, States
  <2> QED BY <1>1, <2>1, WentWith
<1>3. new \in Handler
  BY <1>2 DEF Moves
<1> HIDE DEF new
<1>4. HandlerOK(new)
  <2>1. /\ ops[o].chat \in Chats /\ ops[o].kind \in OfChats /\ ops[o].session \in Born \cup {None}
        /\ (ops[o].kind = "start" => ops[o].session \in Born)
    BY <1>1 DEF HandlerOK, OnDisk
  <2> QED BY <1>1, <1>2, <1>3, <2>1 DEF HandlerOK
<1>5. \A s \in Sessions : TextOn(new, s) <=> TextOn(ops[o], s)
  BY <1>1, <1>2 DEF TextOn
<1>6. ops[o].at \notin Writers
  BY <1>1 DEF Writers, AtFile, Writes
<1> QED BY <1>1, <1>2, <1>4, <1>5, <1>6, Steps

LEMMA StartReadKeeps == ASSUME IInv, NEW o, StartRead(o) PROVE IInv'
<1>1. /\ Found(o) /\ ops[o].kind = "start"
      /\ UNCHANGED <<up, cache, Disk, rules, active, born, Past>>
  BY DEF StartRead
<1>2. PICK agent \in Agents : ops' = [ops EXCEPT ![o].at = "loading",
                                           ![o].state = Joined(o, agent, ops[o].session)]
  BY DEF StartRead
<1>3. /\ o \in DOMAIN ops /\ ops[o].at = "reading" /\ HandlerOK(ops[o])
      /\ Seen(o) \in ChatState /\ Sound(Seen(o))
  BY <1>1, FoundIs
<1>4. ops[o].session \in Sessions /\ OnDisk(ops[o].session)
  BY <1>1, <1>3 DEF HandlerOK, OnDisk, Born, IInv, Types, TypeOK
<1>5. PICK st : st = Joined(o, agent, ops[o].session)
  OBVIOUS
<1>6. /\ st \in ChatState /\ st.session = ops[o].session
      /\ st.listed = Seen(o).listed \cup {ops[o].session}
  BY <1>3, <1>4, <1>5 DEF Joined, State, ChatState
<1>7. Sound(st)
  BY <1>3, <1>4, <1>6 DEF Sound
<1>8. Takes(o, "loading", st)
  BY <1>2, <1>5 DEF Takes
<1> QED BY <1>1, <1>6, <1>7, <1>8, LoadingKeeps

LEMMA SelectReadKeeps == ASSUME IInv, NEW o, SelectRead(o) PROVE IInv'
<1>1. /\ Found(o) /\ ops[o].kind = "session" /\ ops[o].state.session \in Seen(o).listed
      /\ UNCHANGED <<up, cache, Disk, rules, active, born, Past>>
  BY DEF SelectRead, Selectable
<1>2. PICK st : st = [Seen(o) EXCEPT !.session = ops[o].state.session]
  OBVIOUS
<1>3. /\ o \in DOMAIN ops /\ ops[o].at = "reading" /\ HandlerOK(ops[o])
      /\ Seen(o) \in ChatState /\ Sound(Seen(o))
  BY <1>1, FoundIs
<1>4. /\ st \in ChatState /\ st.session = ops[o].state.session /\ st.listed = Seen(o).listed
  BY <1>1, <1>2, <1>3 DEF ChatState
<1>5. Sound(st)
  BY <1>1, <1>3, <1>4 DEF Sound
<1>6. Takes(o, "loading", st)
  BY <1>2 DEF SelectRead, Takes
<1>7. ops[o].session = None
  BY <1>1, <1>3 DEF HandlerOK
<1> QED BY <1>1, <1>4, <1>5, <1>6, <1>7, LoadingKeeps

LEMMA AgentReadKeeps == ASSUME IInv, NEW o, AgentRead(o) PROVE IInv'
<1>1. /\ Found(o) /\ ops[o].kind = "agent"
      /\ UNCHANGED <<up, cache, Disk, rules, active, born, Past>>
  BY DEF AgentRead
<1>2. PICK st : st = [Seen(o) EXCEPT !.agent = ops[o].state.agent]
  OBVIOUS
<1>3. /\ o \in DOMAIN ops /\ ops[o].at = "reading" /\ HandlerOK(ops[o])
      /\ Seen(o) \in ChatState /\ Sound(Seen(o))
  BY <1>1, FoundIs
<1>4. ops[o].session = None /\ ops[o].state \in ChatState
  BY <1>1, <1>3 DEF HandlerOK
<1>5. /\ st \in ChatState /\ st.session = Seen(o).session /\ st.listed = Seen(o).listed
  BY <1>2, <1>3, <1>4 DEF ChatState
<1>6. Sound(st)
  BY <1>3, <1>5 DEF Sound
<1>7. Takes(o, "loading", st)
  BY <1>2 DEF AgentRead, Takes
<1> QED BY <1>1, <1>4, <1>5, <1>6, <1>7, LoadingKeeps

\* A handler ends that no message waits for.
LEMMA EndKeeps ==
    ASSUME IInv, NEW o \in DOMAIN ops, Ends(o), up, ops[o].at \in {"reading", "loading"},
           UNCHANGED <<up, cache, Disk, rules, active, born, Past>>
    PROVE  IInv'
<1>1. Moves(o, Idle) /\ Idle.at = "idle"
  BY Ended
<1>2. HandlerOK(Idle)
  <2>1. Idle \in Handler /\ Idle.at = "idle" /\ Idle.session = None
    BY DEF Idle, Handler, Kinds, Places
  <2> QED BY <2>1 DEF HandlerOK
<1>3. \A s \in Sessions : TextOn(Idle, s) <=> TextOn(ops[o], s)
  <2>1. HandlerOK(ops[o])
    BY DEF IInv, HandlersOK
  <2>2. ops[o].kind = "text" => ops[o].session = None
    BY <2>1 DEF HandlerOK
  <2> QED BY <1>1, <2>2 DEF TextOn
<1>4. ops[o].at \notin Writers
  BY DEF Writers, AtFile, Writes
<1> QED BY <1>1, <1>2, <1>3, <1>4, Steps

LEMMA ReadFailsKeeps == ASSUME IInv, NEW o, ReadFails(o) PROVE IInv'
BY EndKeeps DEF ReadFails

LEMMA NothingToDoKeeps == ASSUME IInv, NEW o, NothingToDo(o) PROVE IInv'
<1>1. o \in DOMAIN ops /\ up /\ ops[o].at = "reading"
  BY FoundIs DEF NothingToDo
<1> QED BY <1>1, EndKeeps DEF NothingToDo

-----------------------------------------------------------------------------
(***************************************************************************)
(* The chats' file is read again, and a message runs.                      *)
(***************************************************************************)
LEMMA LoadKeeps == ASSUME IInv, NEW o, Load(o) PROVE IInv'
<1>1. /\ At(o, "loading") /\ UNCHANGED <<up, cache, Disk, rules, active, born, Past>>
  BY DEF Load
<1>2. o \in DOMAIN ops /\ up /\ HandlerOK(ops[o]) /\ ops[o].at = "loading" /\ ops[o] \in Handler
  BY <1>1, HandlerIs
<1>3. /\ ops[o].chat \in Chats /\ ops[o].kind \in OfChats
      /\ ops[o].state \in ChatState /\ Sound(ops[o].state)
      /\ ops[o].session \in Born \cup {None}
      /\ ops[o].kind \in {"start", "new"} => ops[o].session \in Born
      /\ ops[o].kind = "text" => ops[o].session = None
      /\ ops[o].session # None => ops[o].session \in ops[o].state.listed
      /\ ops[o].chat \notin raced \cup ops[o].stale => made[ops[o].chat] \subseteq ops[o].state.listed
      /\ ops[o].session \notin Doomed
  BY <1>2 DEF HandlerOK
<1>4. PICK st : st = [store EXCEPT ![ops[o].chat] = ops[o].state]
  OBVIOUS
<1>5. /\ st \in [Chats -> ChatState] /\ st[ops[o].chat] = ops[o].state
      /\ \A c \in Chats : c # ops[o].chat => st[c] = store[c]
  BY <1>3, <1>4 DEF IInv, Types
<1>6. \A c \in Chats : Sound(st[c])
  BY <1>3, <1>5 DEF IInv, ChatsOK
<1>7. \A c \in Chats \ (raced \cup ops[o].stale) : made[c] \subseteq st[c].listed
  BY <1>3, <1>5 DEF IInv, ChatsOK
<1> DEFINE new == ops'[o]
<1>8. /\ Moves(o, new) /\ new.at = "merging" /\ new.state = st /\ new.kind = ops[o].kind
      /\ new.chat = ops[o].chat /\ new.session = ops[o].session /\ new.stale = ops[o].stale
  <2>1. "merging" \in Places /\ st \in States /\ Takes(o, "merging", st)
    BY <1>4, <1>5 DEF Places, States, Takes, Load
  <2> QED BY <1>2, <2>1, WentWith
<1>9. new \in Handler
  BY <1>8 DEF Moves
<1> HIDE DEF new
<1>10. HandlerOK(new)
  BY <1>2, <1>3, <1>5, <1>6, <1>7, <1>8, <1>9 DEF HandlerOK
<1>11. /\ \A s \in Sessions : TextOn(new, s) <=> TextOn(ops[o], s)
       /\ ops[o].at \notin Writers
  BY <1>2, <1>8 DEF TextOn, Writers, AtFile, Writes
<1> QED BY <1>1, <1>2, <1>8, <1>10, <1>11, Steps

\* Handlers of messages and of the API move on with their session.
LEMMA GoKeeps ==
    ASSUME IInv, NEW o, NEW from \in {"typing", "running", "checking"}, At(o, from),
           NEW to \in {"running", "checking", "saving"}, Go(o, to)
    PROVE  /\ o \in DOMAIN ops /\ up /\ Moves(o, ops'[o]) /\ HandlerOK(ops'[o])
           /\ ops[o].session \in Born /\ ops[o].session \notin Doomed
           /\ ops[o].at \notin Writers
           /\ \A s \in Sessions : TextOn(ops'[o], s) <=> TextOn(ops[o], s)
<1>1. o \in DOMAIN ops /\ up /\ HandlerOK(ops[o]) /\ ops[o].at = from /\ ops[o] \in Handler
  BY HandlerIs
<1>2. ops[o].session \in Born /\ ops[o].session \notin Doomed
  BY <1>1 DEF HandlerOK
<1> DEFINE new == ops'[o]
<1>3. /\ Moves(o, new) /\ new.at = to /\ new.kind = ops[o].kind /\ new.session = ops[o].session
  <2>1. to \in Places
    BY DEF Places
  <2> QED BY <1>1, <2>1, Went
<1>4. new \in Handler
  BY <1>3 DEF Moves
<1> HIDE DEF new
<1>5. HandlerOK(new)
  BY <1>1, <1>2, <1>3, <1>4 DEF HandlerOK
<1>6. /\ ops[o].at \notin Writers
      /\ \A s \in Sessions : TextOn(new, s) <=> TextOn(ops[o], s)
  BY <1>1, <1>3 DEF Writers, AtFile, Writes, TextOn
<1> QED BY <1>1, <1>2, <1>3, <1>5, <1>6 DEF new

LEMMA TypingShownKeeps == ASSUME IInv, NEW o, TypingShown(o) PROVE IInv'
<1>1. /\ At(o, "typing") /\ Go(o, "running") /\ UNCHANGED <<up, cache, Disk, rules, active, born, Past>>
  BY DEF TypingShown
<1>2. /\ o \in DOMAIN ops /\ up /\ Moves(o, ops'[o]) /\ HandlerOK(ops'[o])
      /\ ops[o].at \notin Writers
      /\ \A s \in Sessions : TextOn(ops'[o], s) <=> TextOn(ops[o], s)
  BY <1>1, GoKeeps
<1> DEFINE new == ops'[o]
<1> HIDE DEF new
<1>3. Moves(o, new) /\ HandlerOK(new) /\ \A s \in Sessions : TextOn(new, s) <=> TextOn(ops[o], s)
  BY <1>2 DEF new
<1> QED BY <1>1, <1>2, <1>3, Steps

LEMMA CheckedKeeps == ASSUME IInv, NEW o, Checked(o) PROVE IInv'
<1>1. /\ At(o, "checking") /\ Go(o, "saving") /\ UNCHANGED <<up, cache, Disk, rules, active, born, Past>>
  BY DEF Checked
<1>2. /\ o \in DOMAIN ops /\ up /\ Moves(o, ops'[o]) /\ HandlerOK(ops'[o])
      /\ ops[o].at \notin Writers
      /\ \A s \in Sessions : TextOn(ops'[o], s) <=> TextOn(ops[o], s)
  BY <1>1, GoKeeps
<1> DEFINE new == ops'[o]
<1> HIDE DEF new
<1>3. Moves(o, new) /\ HandlerOK(new) /\ \A s \in Sessions : TextOn(new, s) <=> TextOn(ops[o], s)
  BY <1>2 DEF new
<1> QED BY <1>1, <1>2, <1>3, Steps

\* The save after a run puts the session into the cache, where it was unless deleted.
LEMMA RunEndsKeeps == ASSUME IInv, NEW o, RunEnds(o) PROVE IInv'
<1>1. /\ At(o, "running") /\ Go(o, "checking") /\ cache' = cache \cup {ops[o].session}
      /\ UNCHANGED <<up, file, store, torn, rules, active, born, gone, inUse, made, raced,
                     blurred, unmade, mixed, met, lost>>
  BY DEF RunEnds, Disk, Past
<1>2. /\ o \in DOMAIN ops /\ up /\ Moves(o, ops'[o]) /\ HandlerOK(ops'[o])
      /\ ops[o].session \in Born /\ ops[o].session \notin Doomed
      /\ ops[o].at \notin Writers
      /\ \A s \in Sessions : TextOn(ops'[o], s) <=> TextOn(ops[o], s)
  BY <1>1, GoKeeps
<1> DEFINE new == ops'[o]
<1> HIDE DEF new
<1>3. Moves(o, new) /\ HandlerOK(new) /\ \A s \in Sessions : TextOn(new, s) <=> TextOn(ops[o], s)
  BY <1>2 DEF new
<1>4. HandlerOK(ops[o])'
  BY <1>1, <1>3, SameWorld DEF Moves
<1>5. /\ cache \subseteq cache' /\ cache' \subseteq Born /\ rules' \subseteq Born
      /\ \A s \in Doomed : (s \in cache' => s \in cache) /\ (s \in rules' => s \in rules)
  BY <1>1, <1>2 DEF IInv, Types, TypeOK, Born
<1> QED BY <1>1, <1>2, <1>3, <1>4, <1>5, Silent

\* A rule is stored for a session in use.
LEMMA AnswerAlwaysKeeps == ASSUME IInv, NEW o, AnswerAlways(o) PROVE IInv'
<1>1. /\ At(o, "running") /\ rules' = rules \cup {ops[o].session}
      /\ UNCHANGED <<up, cache, file, store, torn, active, ops, born, gone, inUse, made, raced,
                     blurred, unmade, mixed, met, lost>>
  BY DEF AnswerAlways, Disk, Past
<1>2. o \in DOMAIN ops /\ up /\ HandlerOK(ops[o]) /\ ops[o].at = "running" /\ ops[o] \in Handler
  BY <1>1, HandlerIs
<1>3. ops[o].session \in Born /\ ops[o].session \notin Doomed
  BY <1>2 DEF HandlerOK
<1> DEFINE new == ops[o]
<1>4. Moves(o, new)
  BY <1>1, <1>2 DEF Moves, IInv, HandlersOK, Types, TypeOK
<1> HIDE DEF new
<1>5. HandlerOK(ops[o])'
  BY <1>1, <1>2, SameWorld
<1>6. /\ cache' \subseteq Born /\ rules' \subseteq Born
      /\ \A s \in Doomed : (s \in cache' => s \in cache) /\ (s \in rules' => s \in rules)
  BY <1>1, <1>3 DEF IInv, Types, TypeOK, Born
<1>7. \A s \in Sessions : TextOn(new, s) <=> TextOn(ops[o], s)
  BY DEF new
<1>8. new.at = ops[o].at /\ ops[o].at \notin Writers
  BY <1>2 DEF new, Writers, AtFile, Writes
<1> QED BY <1>1, <1>2, <1>4, <1>5, <1>6, <1>7, <1>8, Silent

-----------------------------------------------------------------------------
(***************************************************************************)
(* Files are written.                                                      *)
(***************************************************************************)
\* Only its removal uses a doomed session, and nothing else ends that.
LEMMA UsesStay ==
    ASSUME IInv, NEW o, NEW new, Moves(o, new), NEW s \in Doomed, Uses(s)' = {},
           o \in DOMAIN ops => ops[o].at # "unlinking" \/ ops[o].session # s
    PROVE  Uses(s) = {}
<1>1. ASSUME NEW p \in Uses(s) PROVE FALSE
  <2>1. p \in DOMAIN ops /\ ops[p].session = s /\ ops[p].at # "idle"
    BY DEF Uses
  <2>2. ops[p].at = "unlinking"
    BY <2>1 DEF IInv, HandlersOK, HandlerOK
  <2>3. p \in Uses(s)'
    BY <2>1, <2>2 DEF Moves, Uses
  <2> QED BY <1>1, <2>3
<1> QED BY <1>1

\* A file is written, be it the beginning of that or the end.
LEMMA FileKeeps ==
    ASSUME IInv, NEW o \in DOMAIN ops, NEW new, Moves(o, new), HandlerOK(ops[o])', up,
           NEW w, w = ops[o].session, w \in Born, w \notin Doomed, NEW content \in {"none", "whole", "torn"},
           file' = [file EXCEPT ![w] = content],
           file[w] # "none" \/ w \in gone => content # "none" \/ w \in gone,
           UNCHANGED <<up, cache, store, torn, rules, born, gone, inUse, made, raced, blurred, unmade>>,
           mixed \subseteq mixed', mixed' \subseteq Born, ops[o].at # "unlinking",
           active' \subseteq active, ActiveOK', Marked', w \notin gone \cup unmade => KeptOne(w)'
    PROVE  IInv'
<1>1. Born \subseteq Sessions /\ born \in Nat
  BY DEF IInv, Types, TypeOK, Born
<1>2. /\ file' \in [Sessions -> {"none", "whole", "torn"}] /\ file'[w] = content
      /\ \A s \in Sessions \ {w} : file'[s] = file[s]
  BY <1>1 DEF IInv, Types, TypeOK
<1>3. Doomed' = Doomed /\ Born' = Born /\ (\A s \in Sessions : OnDisk(s) => OnDisk(s)')
  BY <1>2 DEF Doomed, Born, OnDisk
<1>4. HandlersOK'
  <2>1. ASSUME NEW p \in DOMAIN ops \ {o} PROVE HandlerOK(ops[p])'
    BY <1>1, <1>3, OthersStay DEF Moves
  <2> QED BY <2>1 DEF HandlersOK, Moves
<1>5. Types'
  BY <1>2, MovedTypes DEF IInv, Types, TypeOK, Moves, Born
<1>6. ChatsOK'
  BY <1>3, ChatsStay
<1>7. Kept'
  <2>1. ASSUME NEW s \in Born \ (gone \cup unmade) PROVE KeptOne(s)'
    <3>1. CASE s = w
      BY <2>1, <3>1
    <3>2. CASE s # w
      <4>1. KeptOne(s) /\ file'[s] = file[s]
        BY <1>1, <1>2, <2>1, <3>2 DEF IInv, Kept
      <4>2. Some(s, {"creating"}) => Some(s, {"creating"})'
        BY <3>2, SomeStay
      <4>3. Some(s, AtFile) => Some(s, AtFile)'
        BY <3>2, SomeStay
      <4> QED BY <4>1, <4>2, <4>3 DEF KeptOne
    <3> QED BY <3>1, <3>2
  <2>2. \A s \in Sessions \ Born : file'[s] = "none"
    BY <1>2 DEF IInv, Kept
  <2> QED BY <1>3, <2>1, <2>2 DEF Kept
<1>8. Gone'
  <2>1. ASSUME NEW s \in Doomed
        PROVE  s \notin cache' /\ (Uses(s)' = {} => file'[s] = "none" /\ s \notin rules')
    <3>1. Uses(s)' = {} => Uses(s) = {}
      BY UsesStay
    <3>2. s \in Sessions \ {w}
      BY DEF Doomed, IInv, Types, TypeOK
    <3> QED BY <1>2, <3>1, <3>2 DEF IInv, Gone
  <2> QED BY <1>3, <2>1 DEF Gone
<1> QED BY <1>4, <1>5, <1>6, <1>7, <1>8 DEF IInv

\* What a handler at a file works on.
LEMMA WriterIs ==
    ASSUME IInv, NEW o \in DOMAIN ops, ops[o].at \in AtFile \cup {"saving"}
    PROVE  /\ HandlerOK(ops[o]) /\ ops[o].session \in Born /\ ops[o].session \in Sessions
           /\ ops[o].session \notin Doomed
<1>1. HandlerOK(ops[o])
  BY DEF IInv, HandlersOK
<1>2. ops[o].session \in Born /\ ops[o].session \notin Doomed
  BY <1>1 DEF HandlerOK, AtFile, Writes
<1> QED BY <1>1, <1>2 DEF Born, IInv, Types, TypeOK

\* The beginning leaves it torn.
LEMMA BeginningKeeps ==
    ASSUME IInv, NEW o \in DOMAIN ops, NEW new, Moves(o, new), HandlerOK(ops[o])', up,
           ops[o].at \in {"creating", "saving"}, new.at \in AtFile, new.session = ops[o].session,
           new.kind = ops[o].kind, file' = [file EXCEPT ![ops[o].session] = "torn"],
           UNCHANGED <<up, cache, store, torn, rules, active, born, gone, inUse, made, raced, blurred, unmade>>,
           mixed \subseteq mixed', mixed' \subseteq Born, Marked'
    PROVE  IInv'
<1> PICK w : w = ops[o].session
  OBVIOUS
<1>1. w \in Born /\ w \in Sessions /\ w \notin Doomed
  BY WriterIs DEF AtFile, Writes
<1>2. file'[w] = "torn"
  BY <1>1 DEF IInv, Types, TypeOK
<1>3. Some(w, AtFile)'
  BY DEF Some, Moves
<1>4. w \notin gone \cup unmade => KeptOne(w)'
  BY <1>1, <1>2, <1>3 DEF KeptOne, IInv, Kept
<1>5. ActiveOK'
  <2>1. \A s \in Sessions \ blurred' : TextOn(new, s) <=> o \in DOMAIN ops /\ TextOn(ops[o], s)
    BY DEF TextOn, AtFile, Writes
  <2> QED BY <2>1, ActiveStays
<1> QED BY <1>1, <1>4, <1>5, FileKeeps

LEMMA FillBeginsKeeps == ASSUME IInv, NEW o, FillBegins(o) PROVE IInv'
<1>1. /\ At(o, "creating") /\ file' = [file EXCEPT ![ops[o].session] = "torn"] /\ Go(o, "filling")
      /\ UNCHANGED <<up, cache, store, torn, met, lost, rules, active, born, gone, inUse, made, raced, blurred,
                     unmade, mixed>>
  BY DEF FillBegins, Past
<1>2. o \in DOMAIN ops /\ up /\ HandlerOK(ops[o]) /\ ops[o].at = "creating"
  BY <1>1, HandlerIs
<1> PICK new : new = ops'[o]
  OBVIOUS
<1>3. /\ Moves(o, new) /\ new.at = "filling" /\ new.kind = ops[o].kind /\ new.chat = ops[o].chat
      /\ new.session = ops[o].session /\ new.state = ops[o].state /\ new.stale = ops[o].stale
  BY <1>1, <1>2, Went DEF Places
<1>4. new \in Handler
  BY <1>3 DEF Moves
<1>5. /\ \A s \in Sessions : OnDisk(s) => OnDisk(s)'
      /\ ops[o].session \in Sessions
  BY <1>1, <1>2, WriterIs DEF OnDisk, Born, IInv, Types, TypeOK, AtFile, Writes
<1>6. Born' = Born /\ Doomed' = Doomed
  BY <1>1 DEF Born, Doomed
<1>7. HandlerOK(new)'
  <2> PICK w : w = ops[o].session
    OBVIOUS
  <2>1. (\A s : OnDisk(s) => OnDisk(s)') /\ OnDisk(w)'
    <3>1. file'[w] = "torn" /\ w \in Born
      BY <1>1, <1>2, <1>5 DEF IInv, Types, TypeOK, HandlerOK
    <3>2. \A s : s \in Born => s \in Sessions
      BY DEF Born, IInv, Types, TypeOK
    <3> QED BY <1>1, <1>5, <1>6, <3>1, <3>2 DEF OnDisk
  <2> QED BY <1>1, <1>2, <1>3, <1>4, <1>6, <2>1 DEF HandlerOK, AtFile, Writes
<1>8. HandlerOK(ops[o])'
  BY <1>7
<1>9. Marked'
  <2>1. o \notin lost \cup met
    BY <1>2 DEF IInv, Marked, Writes
  <2> QED BY <1>1, <1>3, <2>1, MarksStay
<1>10. mixed' \subseteq Born
  BY <1>1 DEF IInv, Types, TypeOK, Born
<1> QED BY <1>1, <1>2, <1>3, <1>8, <1>9, <1>10, BeginningKeeps DEF AtFile, Writes

LEMMA WriteBeginsKeeps == ASSUME IInv, NEW o, WriteBegins(o) PROVE IInv'
<1> PICK w : w = ops[o].session
  OBVIOUS
<1> PICK others : others = Writing(w) \ lost
  OBVIOUS
<1>1. /\ At(o, "saving") /\ file' = [file EXCEPT ![w] = "torn"] /\ Go(o, "writing")
      /\ met' = Meeting(o, others)
      /\ mixed' = IF others = {} THEN mixed ELSE mixed \cup {w}
      /\ UNCHANGED <<up, cache, store, torn, lost, rules, active, born, gone, inUse, made, raced, blurred, unmade>>
  BY DEF WriteBegins
<1>2. o \in DOMAIN ops /\ up /\ HandlerOK(ops[o]) /\ ops[o].at = "saving"
  BY <1>1, HandlerIs
<1>3. w \in Born /\ w \in Sessions /\ w \notin Doomed
  BY <1>2, WriterIs
<1> PICK new : new = ops'[o]
  OBVIOUS
<1>4. /\ Moves(o, new) /\ new.at = "writing" /\ new.kind = ops[o].kind /\ new.session = w
  BY <1>1, <1>2, Went DEF Places
<1>5. new \in Handler
  BY <1>4 DEF Moves
<1>6. Born' = Born /\ Doomed' = Doomed
  BY <1>1 DEF Born, Doomed
<1>7. HandlerOK(new)'
  BY <1>1, <1>2, <1>3, <1>4, <1>5, <1>6 DEF HandlerOK, AtFile, Writes
<1>8. HandlerOK(ops[o])'
  BY <1>7
<1>9. Marked'
  <2>1. ASSUME NEW p \in lost
        PROVE  p \in DOMAIN ops' /\ ops'[p].at \in Writes /\ ops'[p].session \in gone
    <3>1. p \in DOMAIN ops /\ ops[p].at \in Writes /\ ops[p].session \in gone /\ p # o
      BY <1>2 DEF IInv, Marked, Writes
    <3> QED BY <1>4, <3>1 DEF Moves
  <2>2. ASSUME NEW p \in met
        PROVE  /\ p \in DOMAIN ops'
               /\ ops'[p].at = "storing" \/ (ops'[p].at \in Writes /\ ops'[p].session \in mixed')
    <3>1. /\ p \in DOMAIN ops /\ p # o
          /\ ops[p].at = "storing" \/ (ops[p].at \in Writes /\ ops[p].session \in mixed)
      BY <1>2 DEF IInv, Marked, Writes
    <3>2. ops'[p] = ops[p] /\ p \in DOMAIN ops' /\ mixed \subseteq mixed'
      BY <1>1, <1>4, <3>1 DEF Moves
    <3> QED BY <3>1, <3>2
  <2>3. ASSUME others # {}, NEW p \in others \cup {o}
        PROVE  p \in DOMAIN ops' /\ ops'[p].at \in Writes /\ ops'[p].session \in mixed'
    <3>1. CASE p = o
      BY <1>1, <1>4, <2>3, <3>1 DEF Moves, AtFile, Writes
    <3>2. CASE p # o
      <4>1. p \in DOMAIN ops /\ ops[p].session = w /\ ops[p].at \in Writes
        BY <2>3, <3>2 DEF Writing, Uses, AtFile, Writes
      <4> QED BY <1>1, <1>4, <2>3, <3>2, <4>1 DEF Moves
    <3> QED BY <3>1, <3>2
  <2>4. CASE others = {}
    BY <1>1, <2>1, <2>2, <2>4 DEF Marked, Meeting
  <2>5. CASE others # {}
    <3>1. met' = met \cup (others \cup {o}) /\ lost' = lost /\ gone' = gone
      BY <1>1, <2>5 DEF Meeting
    <3> QED BY <2>1, <2>2, <2>3, <2>5, <3>1 DEF Marked
  <2> QED BY <2>4, <2>5
<1>10. mixed \subseteq mixed' /\ mixed' \subseteq Born
  BY <1>1, <1>3 DEF IInv, Types, TypeOK, Born
<1> QED BY <1>1, <1>2, <1>3, <1>4, <1>8, <1>9, <1>10, BeginningKeeps DEF AtFile, Writes

\* The end leaves it whole, unless it met another one.
LEMMA WrittenKeeps ==
    ASSUME IInv, NEW o \in DOMAIN ops, NEW new, Moves(o, new), HandlerOK(ops[o])', up,
           ops[o].at \in {"filling", "writing"}, Written(o),
           UNCHANGED <<up, cache, store, torn, rules, born, gone, inUse, made, raced, blurred, unmade, mixed>>,
           active' \subseteq active, ActiveOK'
    PROVE  IInv'
<1> PICK w : w = ops[o].session
  OBVIOUS
<1>1. w \in Born /\ w \in Sessions /\ w \notin Doomed
  BY WriterIs DEF AtFile, Writes
<1>2. PICK content \in {"none", "whole", "torn"} :
         /\ file' = [file EXCEPT ![w] = content]
         /\ o \in lost => content = file[w]
         /\ o \notin lost /\ o \notin met => content = "whole"
         /\ content \in {"whole", "torn", file[w]}
  BY <1>1 DEF Written, IInv, Types, TypeOK
<1>3. o \in lost => w \in gone
  BY DEF IInv, Marked
<1>4. o \in met => w \in mixed
  BY DEF IInv, Marked
<1>5. file'[w] = content
  BY <1>1, <1>2 DEF IInv, Types, TypeOK
<1>6. w \notin gone \cup unmade => KeptOne(w)'
  <2>1. ASSUME w \notin gone \cup unmade PROVE KeptOne(w)'
    <3>1. KeptOne(w)
      BY <1>1, <2>1 DEF IInv, Kept
    <3>2. Some(w, {"creating"}) => Some(w, {"creating"})'
      <4>1. ops[o].at \notin {"creating"}
        OBVIOUS
      <4> QED BY <4>1, SomeStay
    <3>3. content = "whole" \/ w \in mixed
      BY <1>2, <1>3, <1>4, <2>1
    <3> QED BY <1>2, <1>5, <3>1, <3>2, <3>3 DEF KeptOne
  <2> QED BY <2>1
<1>7. Marked'
  <2>1. lost' \subseteq lost /\ met' \subseteq met /\ o \notin lost' \cup met'
    BY DEF Written
  <2> QED BY <2>1, MarksStay
<1>8. mixed' \subseteq Born
  BY DEF IInv, Types, TypeOK, Born
<1> QED BY <1>1, <1>2, <1>6, <1>7, <1>8, FileKeeps

LEMMA CreateEndsKeeps == ASSUME IInv, NEW o, CreateEnds(o) PROVE IInv'
<1>1. /\ At(o, "filling") /\ Written(o)
      /\ Go(o, IF ops[o].kind = "start" THEN "reading" ELSE "loading")
      /\ UNCHANGED <<up, cache, store, torn, rules, active, born, gone, inUse, made, raced, blurred, unmade,
                     mixed>>
  BY DEF CreateEnds, Past
<1>2. o \in DOMAIN ops /\ up /\ HandlerOK(ops[o]) /\ ops[o].at = "filling" /\ ops[o] \in Handler
  BY <1>1, HandlerIs
<1>3. PICK at \in {"reading", "loading"} : /\ at = "reading" <=> ops[o].kind = "start"
                                           /\ Go(o, at)
  BY <1>1
<1>4. /\ ops[o].session \in Born /\ ops[o].session \in Sessions /\ ops[o].session \notin Doomed
      /\ ops[o].chat \in Chats /\ ops[o].kind \in {"start", "new"}
  BY <1>2 DEF HandlerOK, Born, IInv, Types, TypeOK
<1> DEFINE new == ops'[o]
<1>5. /\ Moves(o, new) /\ new.at = at /\ new.kind = ops[o].kind /\ new.chat = ops[o].chat
      /\ new.session = ops[o].session /\ new.state = ops[o].state /\ new.stale = ops[o].stale
  BY <1>2, <1>3, Went DEF Places
<1>6. new \in Handler
  BY <1>5 DEF Moves
<1> HIDE DEF new
<1>7. PICK s : s = ops[o].session
  OBVIOUS
<1>8. Born' = Born /\ Doomed' = Doomed /\ (\A x : OnDisk(x) => OnDisk(x)') /\ OnDisk(s)'
  <2>1. PICK content \in {"none", "whole", "torn"} :
           /\ file' = [file EXCEPT ![s] = content]
           /\ content \in {"whole", "torn", file[s]}
    BY <1>1, <1>4, <1>7 DEF Written, IInv, Types, TypeOK
  <2>2. OnDisk(s)
    BY <1>2, <1>7 DEF HandlerOK
  <2>3. /\ \A x \in Sessions \ {s} : file'[x] = file[x]
        /\ file'[s] = content
    BY <1>4, <1>7, <2>1 DEF IInv, Types, TypeOK
  <2> QED BY <1>1, <1>4, <1>7, <2>1, <2>2, <2>3 DEF Born, Doomed, OnDisk, IInv, Types, TypeOK
<1>9. OnDisk(s)' /\ new.session = s
  BY <1>5, <1>7, <1>8
<1>10. at = "loading" => /\ new.state \in ChatState /\ new.state.session = s /\ s \in new.state.listed
                         /\ \A x \in new.state.listed : OnDisk(x)'
                         /\ new.chat \notin raced \cup new.stale => made[new.chat] \subseteq new.state.listed
  BY <1>2, <1>3, <1>4, <1>5, <1>7, <1>8, <1>9 DEF HandlerOK
<1>11. PICK st : st = new.state
  OBVIOUS
<1>12. at = "loading" => Sound(st)'
  BY <1>10, <1>11 DEF Sound
<1>13. ops'[o] = new /\ up'
  BY <1>1, <1>2 DEF new
<1>14. HandlerOK(ops[o])'
  BY <1>1, <1>3, <1>4, <1>5, <1>6, <1>7, <1>8, <1>9, <1>10, <1>11, <1>12, <1>13 DEF HandlerOK, OfChats
<1>15. ActiveOK'
  BY <1>1, <1>4, <1>5, ActiveStays DEF TextOn
<1> QED BY <1>1, <1>2, <1>5, <1>14, <1>15, WrittenKeeps

\* The last step of a message takes its session out of activeSessions.
LEMMA LeavesKeeps ==
    ASSUME IInv, NEW o \in DOMAIN ops, ops[o].at # "idle", Ends(o), Leaves(o), blurred' = blurred
    PROVE  ActiveOK' /\ active' \subseteq active
<1>1. Moves(o, Idle) /\ Idle.at = "idle"
  BY Ended
<1>2. ASSUME NEW s \in Sessions \ blurred
      PROVE  (s \in active' <=> Texts(s)' # {}) /\ (\A p, q \in Texts(s)' : p = q)
  <2>1. (s \in active <=> Texts(s) # {}) /\ (\A p, q \in Texts(s) : p = q)
    BY DEF IInv, ActiveOK
  <2>2. Texts(s) = {p \in DOMAIN ops : TextOn(ops[p], s)}
    BY TextsAre
  <2>3. Texts(s)' = {p \in DOMAIN ops' : TextOn(ops'[p], s)}
    BY DEF Texts, Uses, TextOn
  <2>4. Texts(s)' = Texts(s) \ {o}
    BY <1>1, <2>2, <2>3 DEF Moves, TextOn
  <2>5. CASE ops[o].kind = "text" /\ ops[o].session = s
    <3>1. o \in Texts(s)
      BY <2>2, <2>5 DEF TextOn
    <3> QED BY <2>1, <2>4, <2>5, <3>1 DEF Leaves
  <2>6. CASE ~(ops[o].kind = "text" /\ ops[o].session = s)
    <3>1. o \notin Texts(s)
      BY <2>2, <2>6 DEF TextOn
    <3> QED BY <2>1, <2>4, <2>6, <3>1 DEF Leaves
  <2> QED BY <2>5, <2>6
<1> QED BY <1>2 DEF ActiveOK, Leaves

LEMMA WriteEndsKeeps == ASSUME IInv, NEW o, WriteEnds(o) PROVE IInv'
<1>1. /\ At(o, "writing") /\ Written(o) /\ Ends(o) /\ Leaves(o)
      /\ UNCHANGED <<up, cache, store, torn, rules, born, gone, inUse, made, raced, blurred, unmade, mixed>>
  BY DEF WriteEnds, Past
<1>2. o \in DOMAIN ops /\ up /\ ops[o].at = "writing"
  BY <1>1, HandlerIs
<1>3. Moves(o, Idle) /\ HandlerOK(ops[o])'
  BY <1>1, <1>2, Ended
<1>4. ActiveOK' /\ active' \subseteq active
  BY <1>1, <1>2, LeavesKeeps
<1> QED BY <1>1, <1>2, <1>3, <1>4, WrittenKeeps

LEMMA CheckFailsKeeps == ASSUME IInv, NEW o, CheckFails(o) PROVE IInv'
<1>1. /\ At(o, "checking") /\ Ends(o) /\ Leaves(o)
      /\ UNCHANGED <<up, cache, file, store, torn, rules, born, gone, inUse, made, raced,
                     blurred, unmade, mixed, met, lost>>
  BY DEF CheckFails, Disk, Past
<1>2. o \in DOMAIN ops /\ up /\ ops[o].at = "checking"
  BY <1>1, HandlerIs
<1>3. Moves(o, Idle) /\ HandlerOK(ops[o])'
  BY <1>1, <1>2, Ended
<1>4. ActiveOK' /\ active' \subseteq active
  BY <1>1, <1>2, LeavesKeeps
<1>5. /\ cache' \subseteq Born /\ rules' \subseteq Born /\ active' \subseteq Born /\ blurred' \subseteq Born
      /\ ops[o].at \notin AtFile \cup {"unlinking", "storing"}
  BY <1>1, <1>2, <1>4 DEF IInv, Types, TypeOK, Born, AtFile, Writes
<1>6. Marked' /\ torn' \in BOOLEAN
  BY <1>1, <1>3, <1>5, MarksStay DEF IInv, Types, TypeOK
<1> QED BY <1>1, <1>2, <1>3, <1>4, <1>5, <1>6, Quiet

-----------------------------------------------------------------------------
(***************************************************************************)
(* A message begins, and its typing fails.                                 *)
(***************************************************************************)
LEMMA TypingFailsKeeps == ASSUME IInv, NEW o, TypingFails(o) PROVE IInv'
<1>1. /\ At(o, "typing") /\ Ends(o) /\ blurred' = blurred \cup {ops[o].session}
      /\ UNCHANGED <<up, cache, file, store, torn, rules, active, born, gone, inUse, made, raced, unmade, mixed, met, lost>>
  BY DEF TypingFails, Disk
<1>2. o \in DOMAIN ops /\ up /\ ops[o].at = "typing" /\ HandlerOK(ops[o])
  BY <1>1, HandlerIs
<1>3. Moves(o, Idle) /\ HandlerOK(ops[o])' /\ Idle.at = "idle"
  BY <1>1, <1>2, Ended
<1>4. ActiveOK'
  BY <1>1, <1>3, ActiveStays DEF TextOn
<1>5. /\ cache' \subseteq Born /\ rules' \subseteq Born /\ active' \subseteq Born /\ blurred' \subseteq Born
      /\ ops[o].at \notin AtFile \cup {"unlinking", "storing"}
  BY <1>1, <1>2 DEF IInv, Types, TypeOK, Born, AtFile, Writes, HandlerOK
<1>6. Marked' /\ torn' \in BOOLEAN
  BY <1>1, <1>3, <1>5, MarksStay DEF IInv, Types, TypeOK
<1> QED BY <1>1, <1>2, <1>3, <1>4, <1>5, <1>6, Quiet

LEMMA TextReadKeeps == ASSUME IInv, NEW o, TextRead(o) PROVE IInv'
<1> PICK t : t = Seen(o).session
  OBVIOUS
<1>1. /\ Found(o) /\ ops[o].kind = "text" /\ t \in cache
      /\ ops' = [ops EXCEPT ![o].at = "typing", ![o].session = t]
      /\ active' = active \cup {t}
      /\ blurred' = IF Texts(t) = {} THEN blurred ELSE blurred \cup {t}
      /\ UNCHANGED <<up, cache, file, store, torn, rules, born, gone, inUse, made, raced, unmade, mixed, met, lost>>
  BY DEF TextRead, Usable, Disk
<1>2. o \in DOMAIN ops /\ up /\ ops[o].at = "reading" /\ HandlerOK(ops[o])
  BY <1>1, FoundIs
<1>3. ops[o].session = None /\ t \in Born /\ t \in Sessions /\ t \notin Doomed
  BY <1>1, <1>2 DEF HandlerOK, IInv, Types, TypeOK, Born, Gone
<1> DEFINE new == ops'[o]
<1>4. /\ Moves(o, new) /\ new.at = "typing" /\ new.session = t /\ new.kind = "text"
      /\ new.chat = ops[o].chat
  <2>1. "typing" \in Places /\ Turns(o, "typing", t)
    BY <1>1 DEF Places, Turns
  <2>2. ops[o].kind = "text"
    BY <1>1
  <2> QED BY <1>2, <1>3, <2>1, <2>2, WentTo
<1>5. new \in Handler
  BY <1>4 DEF Moves
<1> HIDE DEF new
<1>6. HandlerOK(new)
  BY <1>2, <1>3, <1>4, <1>5 DEF HandlerOK
<1>7. HandlerOK(ops[o])'
  BY <1>1, <1>4, <1>6, SameWorld DEF Moves
<1>8. ActiveOK'
  <2>1. ASSUME NEW s \in Sessions \ blurred'
        PROVE  (s \in active' <=> Texts(s)' # {}) /\ (\A p, q \in Texts(s)' : p = q)
    <3>1. (s \in active <=> Texts(s) # {}) /\ (\A p, q \in Texts(s) : p = q)
      BY <1>1 DEF IInv, ActiveOK
    <3>2. Texts(s) = {p \in DOMAIN ops : TextOn(ops[p], s)}
      BY TextsAre
    <3>3. Texts(s)' = {p \in DOMAIN ops' : TextOn(ops'[p], s)}
      BY DEF Texts, Uses, TextOn
    <3>4. CASE s = t
      <4>1. Texts(s) = {}
        BY <1>1, <2>1, <3>4
      <4>2. Texts(s)' = {o}
        BY <1>4, <3>2, <3>3, <3>4, <4>1 DEF Moves, TextOn
      <4> QED BY <1>1, <3>4, <4>2
    <3>5. CASE s # t
      <4>1. o \notin Texts(s)
        BY <1>3, <3>2 DEF TextOn
      <4>2. Texts(s)' = Texts(s)
        BY <1>4, <3>2, <3>3, <3>5, <4>1 DEF Moves, TextOn
      <4> QED BY <1>1, <3>1, <3>5, <4>2
    <3> QED BY <3>4, <3>5
  <2> QED BY <2>1 DEF ActiveOK
<1>9. /\ cache' \subseteq Born /\ rules' \subseteq Born /\ active' \subseteq Born /\ blurred' \subseteq Born
      /\ ops[o].at \notin AtFile \cup {"unlinking", "storing"}
  BY <1>1, <1>2, <1>3 DEF IInv, Types, TypeOK, Born, AtFile, Writes
<1>10. Marked' /\ torn' \in BOOLEAN
  BY <1>1, <1>4, <1>9, MarksStay DEF IInv, Types, TypeOK
<1> QED BY <1>1, <1>2, <1>4, <1>7, <1>8, <1>9, <1>10, Quiet

-----------------------------------------------------------------------------
(***************************************************************************)
(* Sessions are deleted.                                                   *)
(***************************************************************************)
LEMMA DeleteSessionKeeps == ASSUME IInv, NEW s \in Sessions, DeleteSession(s) PROVE IInv'
<1> DEFINE new == [kind |-> "delete", at |-> "unlinking", chat |-> None, session |-> s,
                   state |-> None, stale |-> {}]
<1>1. /\ s \in cache /\ Begin("delete", "unlinking", None, s, None)
      /\ cache' = cache \ {s} /\ gone' = gone \cup {s}
      /\ inUse' = IF Uses(s) = {} THEN inUse ELSE inUse \cup {s}
      /\ UNCHANGED <<up, file, store, torn, rules, active, born, made, raced,
                     blurred, unmade, mixed, met, lost>>
  BY DEF DeleteSession, Disk
<1>2. new \in Handler
  BY DEF Handler, Kinds, Places
<1>3. PICK o : up /\ o \notin DOMAIN ops /\ Moves(o, new)
  BY <1>1, <1>2, Arrived
<1>4. new.kind = "delete" /\ new.at = "unlinking" /\ new.session = s
  OBVIOUS
<1> HIDE DEF new
<1>5. /\ s \in Born /\ Born' = Born /\ born \in Nat /\ Doomed' \subseteq Doomed \cup {s}
      /\ s \in Doomed' => Uses(s) = {}
  BY <1>1 DEF IInv, Types, TypeOK, Born, Doomed
<1>6. \A x \in Sessions : OnDisk(x) => OnDisk(x)'
  BY <1>1, <1>5 DEF OnDisk
<1>7. HandlersOK'
  <2>1. ASSUME NEW p \in DOMAIN ops \ {o} PROVE HandlerOK(ops[p])'
    <3>1. ops[p].at # "idle" => ops[p].session \notin Doomed' \ Doomed
      BY <1>5 DEF Uses
    <3> QED BY <1>1, <1>3, <1>5, <1>6, <3>1, OthersStay DEF Moves
  <2>2. HandlerOK(ops[o])'
    BY <1>1, <1>2, <1>3, <1>4, <1>5 DEF HandlerOK, Moves
  <2> QED BY <1>3, <2>1, <2>2 DEF HandlersOK, Moves
<1>8. Types'
  BY <1>1, <1>3, <1>5, MovedTypes DEF IInv, Types, TypeOK, Moves, Born
<1>9. ChatsOK'
  BY <1>1, <1>6, ChatsStay
<1>10. Kept'
  BY <1>1, <1>3, KeptStays
<1>11. Gone'
  <2>1. ASSUME NEW x \in Doomed', Uses(x)' = {} PROVE x \in Doomed /\ Uses(x) = {}
    <3>1. x # s
      <4>1. o \in Uses(s)'
        BY <1>3, <1>4 DEF Uses, Moves
      <4> QED BY <2>1, <4>1
    <3>2. x \in Doomed
      BY <1>5, <3>1
    <3> QED BY <1>3, <2>1, <3>2, UsesStay
  <2> QED BY <1>1, <1>5, <2>1 DEF IInv, Gone
<1>12. ActiveOK'
  BY <1>1, <1>3, <1>4, ActiveStays DEF TextOn
<1>13. Marked'
  BY <1>1, <1>3, MarksStay
<1> QED BY <1>7, <1>8, <1>9, <1>10, <1>11, <1>12, <1>13 DEF IInv

LEMMA UnlinkedKeeps == ASSUME IInv, NEW o, Unlinked(o) PROVE IInv'
<1> PICK w : w = ops[o].session
  OBVIOUS
<1>1. /\ At(o, "unlinking") /\ file' = [file EXCEPT ![w] = "none"] /\ rules' = rules \ {w} /\ Ends(o)
      /\ lost' = lost \cup Writing(w)
      /\ UNCHANGED <<up, cache, store, torn, active, born, gone, inUse, made, raced,
                     blurred, unmade, mixed, met>>
  BY DEF Unlinked, Past
<1>2. /\ o \in DOMAIN ops /\ up /\ ops[o].at = "unlinking" /\ HandlerOK(ops[o])
      /\ w \in gone /\ ops[o].kind = "delete" /\ w \in Sessions
  BY <1>1, HandlerIs DEF HandlerOK, Born, IInv, Types, TypeOK
<1>3. Moves(o, Idle) /\ HandlerOK(ops[o])' /\ Idle.at = "idle"
  BY <1>1, <1>2, Ended
<1>4. /\ file' \in [Sessions -> {"none", "whole", "torn"}] /\ file'[w] = "none"
      /\ \A s \in Sessions \ {w} : file'[s] = file[s]
  BY <1>1, <1>2 DEF IInv, Types, TypeOK
<1>5. /\ Doomed' = Doomed /\ Born' = Born /\ born \in Nat
      /\ \A s \in Sessions : OnDisk(s) => OnDisk(s)'
  BY <1>1, <1>2, <1>4 DEF Doomed, Born, OnDisk, IInv, Types, TypeOK
<1>6. HandlersOK'
  <2>1. ASSUME NEW p \in DOMAIN ops \ {o} PROVE HandlerOK(ops[p])'
    BY <1>1, <1>3, <1>5, OthersStay DEF Moves
  <2> QED BY <1>3, <2>1 DEF HandlersOK, Moves
<1>7. Types'
  BY <1>1, <1>3, <1>4, MovedTypes DEF IInv, Types, TypeOK, Moves
<1>8. ChatsOK'
  BY <1>1, <1>5, ChatsStay
<1>9. Kept'
  <2>1. ASSUME NEW s \in Born \ (gone \cup unmade) PROVE KeptOne(s)'
    <3>1. KeptOne(s) /\ s # w /\ s \in Sessions
      BY <1>2, <2>1 DEF Born, IInv, Types, TypeOK, Kept
    <3>2. Some(s, {"creating"}) => Some(s, {"creating"})'
      BY <1>3, <3>1, SomeStay
    <3>3. Some(s, AtFile) => Some(s, AtFile)'
      BY <1>3, <3>1, SomeStay
    <3> QED BY <1>1, <1>4, <3>1, <3>2, <3>3 DEF KeptOne
  <2>2. \A s \in Sessions \ Born' : file'[s] = "none"
    BY <1>4, <1>5 DEF IInv, Kept
  <2> QED BY <1>1, <1>5, <2>1, <2>2 DEF Kept
<1>10. Gone'
  <2>1. ASSUME NEW s \in Doomed
        PROVE  s \notin cache' /\ (Uses(s)' = {} => file'[s] = "none" /\ s \notin rules')
    <3>1. CASE s = w
      BY <1>1, <1>4, <3>1 DEF IInv, Gone
    <3>2. CASE s # w
      <4>1. Uses(s)' = {} => Uses(s) = {}
        BY <1>3, <3>2, UsesStay
      <4>2. s \in Sessions
        BY DEF Doomed, IInv, Types, TypeOK
      <4> QED BY <1>1, <1>4, <3>2, <4>1, <4>2 DEF IInv, Gone
    <3> QED BY <3>1, <3>2
  <2> QED BY <1>5, <2>1 DEF Gone
<1>11. ActiveOK'
  BY <1>1, <1>2, <1>3, ActiveStays DEF TextOn
<1>12. Marked'
  <2>1. ASSUME NEW p \in lost'
        PROVE  p \in DOMAIN ops' /\ ops'[p].at \in Writes /\ ops'[p].session \in gone'
    <3>1. p \in DOMAIN ops /\ ops[p].at \in Writes /\ ops[p].session \in gone
      <4>1. CASE p \in lost
        BY <4>1 DEF IInv, Marked
      <4>2. CASE p \in Writing(w)
        BY <1>2, <4>2 DEF Writing, Uses, AtFile, Writes
      <4> QED BY <1>1, <2>1, <4>1, <4>2
    <3>2. p # o
      BY <1>2, <3>1 DEF AtFile, Writes
    <3> QED BY <1>1, <1>3, <3>1, <3>2 DEF Moves
  <2>2. ASSUME NEW p \in met
        PROVE  /\ p \in DOMAIN ops'
               /\ ops'[p].at = "storing" \/ (ops'[p].at \in Writes /\ ops'[p].session \in mixed)
    <3>1. /\ p \in DOMAIN ops /\ p # o
          /\ ops[p].at = "storing" \/ (ops[p].at \in Writes /\ ops[p].session \in mixed)
      BY <1>2 DEF IInv, Marked, Writes
    <3> QED BY <1>3, <3>1 DEF Moves
  <2> QED BY <1>1, <2>1, <2>2 DEF Marked
<1> QED BY <1>6, <1>7, <1>8, <1>9, <1>10, <1>11, <1>12 DEF IInv

-----------------------------------------------------------------------------
(***************************************************************************)
(* The chats' file is written: the other handlers may turn stale.          *)
(***************************************************************************)
LEMMA StoreBeginsKeeps == ASSUME IInv, NEW o, StoreBegins(o) PROVE IInv'
<1>1. /\ At(o, "merging") /\ torn' = TRUE /\ met' = Meeting(o, Storing) /\ Go(o, "storing")
      /\ UNCHANGED <<up, cache, file, store, lost, rules, active, born, gone, inUse, made, raced, blurred,
                     unmade, mixed>>
  BY DEF StoreBegins, Past
<1>2. o \in DOMAIN ops /\ up /\ HandlerOK(ops[o]) /\ ops[o].at = "merging"
  BY <1>1, HandlerIs
<1> PICK new : new = ops'[o]
  OBVIOUS
<1>3. /\ Moves(o, new) /\ new.at = "storing" /\ new.kind = ops[o].kind /\ new.chat = ops[o].chat
      /\ new.session = ops[o].session /\ new.state = ops[o].state /\ new.stale = ops[o].stale
  BY <1>1, <1>2, Went DEF Places
<1>4. new \in Handler
  BY <1>3 DEF Moves
<1>5. HandlerOK(new)
  BY <1>2, <1>3, <1>4 DEF HandlerOK, AtFile, Writes
<1>6. HandlerOK(ops[o])'
  <2>1. HandlerOK(new)'
    BY <1>1, <1>5, SameWorld
  <2> QED BY <2>1
<1>7. ActiveOK'
  <2>1. \A s \in Sessions \ blurred' : TextOn(new, s) <=> o \in DOMAIN ops /\ TextOn(ops[o], s)
    BY <1>2, <1>3 DEF TextOn
  <2> QED BY <1>1, <1>3, <2>1, ActiveStays
<1>8. Marked'
  <2>1. ASSUME NEW p \in lost
        PROVE  p \in DOMAIN ops' /\ ops'[p].at \in Writes /\ ops'[p].session \in gone
    <3>1. p \in DOMAIN ops /\ ops[p].at \in Writes /\ ops[p].session \in gone /\ p # o
      BY <1>2 DEF IInv, Marked, Writes
    <3> QED BY <1>3, <3>1 DEF Moves
  <2>2. ASSUME NEW p \in met
        PROVE  /\ p \in DOMAIN ops'
               /\ ops'[p].at = "storing" \/ (ops'[p].at \in Writes /\ ops'[p].session \in mixed)
    <3>1. /\ p \in DOMAIN ops /\ p # o
          /\ ops[p].at = "storing" \/ (ops[p].at \in Writes /\ ops[p].session \in mixed)
      BY <1>2 DEF IInv, Marked, Writes
    <3> QED BY <1>3, <3>1 DEF Moves
  <2>3. ASSUME NEW p \in Storing \cup {o} PROVE p \in DOMAIN ops' /\ ops'[p].at = "storing"
    <3>1. CASE p = o
      BY <1>3, <3>1 DEF Moves
    <3>2. CASE p # o
      BY <1>3, <2>3, <3>2 DEF Moves, Storing
    <3> QED BY <3>1, <3>2
  <2>4. \A p \in met' : p \in met \/ p \in Storing \cup {o}
    BY <1>1 DEF Meeting
  <2> QED BY <1>1, <2>1, <2>2, <2>3, <2>4 DEF Marked
<1>9. /\ cache \subseteq cache' /\ cache' \subseteq Born /\ rules' \subseteq Born
      /\ active' \subseteq Born /\ blurred' \subseteq Born /\ torn' \in BOOLEAN
      /\ ops[o].at \notin AtFile \cup {"unlinking"}
  BY <1>1, <1>2 DEF IInv, Types, TypeOK, Born, AtFile, Writes
<1>10. \A s \in Doomed : (s \in cache' => s \in cache) /\ (s \in rules' => s \in rules)
  BY <1>1
<1> QED BY <1>1, <1>2, <1>3, <1>6, <1>7, <1>8, <1>9, <1>10, Quiet

LEMMA StoreKeeps == ASSUME IInv, NEW o, Store(o) PROVE IInv'
<1> PICK st : st = ops[o].state
  OBVIOUS
<1> PICK told : told = ops[o].session
  OBVIOUS
<1> PICK c : c = ops[o].chat
  OBVIOUS
<1> DEFINE final == IF AfterStore(o) = "idle" THEN Idle
                    ELSE [ops[o] EXCEPT !.at = AfterStore(o), !.state = None, !.stale = {}]
           row(p) == IF p = o THEN final
                     ELSE [ops[p] EXCEPT !.stale = IF Unseen(p, o) THEN @ \cup {c} ELSE @]
<1>1. /\ At(o, "storing")
      /\ \/ store' = st /\ torn' = FALSE /\ raced' = raced \cup ops[o].stale
         \/ store' = store /\ torn' \in {torn, TRUE} /\ raced' = raced \cup {c}
      /\ met' = met \ {o}
      /\ made' = IF told = None THEN made ELSE [made EXCEPT ![c] = @ \cup {told}]
      /\ cache' = IF AfterStore(o) = "idle" THEN cache ELSE cache \cup {told}
      /\ ops' = [p \in DOMAIN ops |-> row(p)]
      /\ UNCHANGED <<up, file, lost, rules, active, born, gone, inUse, blurred, unmade, mixed>>
  BY DEF Store, Stored, Overwritten
<1>2. o \in DOMAIN ops /\ up /\ ops[o].at = "storing" /\ HandlerOK(ops[o]) /\ ops[o] \in Handler
  BY <1>1, HandlerIs
<1>3. /\ c \in Chats /\ st \in [Chats -> ChatState] /\ \A x \in Chats : Sound(st[x])
      /\ told \in Born \cup {None} /\ told \notin Doomed
      /\ told # None => told \in st[c].listed
      /\ ops[o].kind \in {"start", "new"} => told \in Born
      /\ ops[o].kind = "text" => told = None
      /\ \A x \in Chats \ (raced \cup ops[o].stale) : made[x] \subseteq st[x].listed
      /\ Born \subseteq Sessions
  BY <1>2 DEF HandlerOK, Born, IInv, Types, TypeOK
<1>4. /\ Born' = Born /\ Doomed' = Doomed /\ (\A s : OnDisk(s) <=> OnDisk(s)')
      /\ \A x : Sound(x) <=> Sound(x)'
  BY <1>1 DEF Born, Doomed, OnDisk, Sound
<1>5. /\ final \in Handler /\ final.at \in {"idle", "checking"}
      /\ final.at = "checking" =>
            final.kind = ops[o].kind /\ final.session = told /\ ops[o].kind \in {"start", "new"}
      /\ final.at = "idle" => final.session = None
  <2>1. CASE AfterStore(o) = "idle"
    <3>1. Idle \in Handler /\ Idle.at = "idle" /\ Idle.session = None
      BY DEF Idle, Handler, Kinds, Places
    <3> QED BY <2>1, <3>1
  <2>2. CASE AfterStore(o) = "checking" /\ ops[o].kind \in {"start", "new"}
    <3> DEFINE placed == [ops[o] EXCEPT !.at = "checking"]
               freed  == [placed EXCEPT !.state = None]
               fresh  == [freed EXCEPT !.stale = {}]
    <3>1. placed \in Handler /\ placed.at = "checking" /\ placed.kind = ops[o].kind /\ placed.session = told
      BY <1>2 DEF Handler, Places
    <3>2. final = fresh
      BY <1>2, <2>2
    <3> HIDE DEF placed, final
    <3>3. freed \in Handler /\ freed.at = "checking" /\ freed.kind = ops[o].kind /\ freed.session = told
      BY <3>1 DEF Handler
    <3> HIDE DEF freed
    <3>4. fresh \in Handler /\ fresh.at = "checking" /\ fresh.kind = ops[o].kind /\ fresh.session = told
      BY <3>3 DEF Handler
    <3> HIDE DEF fresh
    <3> QED BY <2>2, <3>2, <3>4
  <2> QED BY <2>1, <2>2 DEF AfterStore
<1>6. \A p \in DOMAIN ops \ {o} :
         /\ row(p) \in Handler
         /\ row(p).kind = ops[p].kind /\ row(p).at = ops[p].at /\ row(p).chat = ops[p].chat
         /\ row(p).session = ops[p].session /\ row(p).state = ops[p].state
         /\ row(p).stale = IF Unseen(p, o) THEN ops[p].stale \cup {c} ELSE ops[p].stale
  <2>1. ASSUME NEW p \in DOMAIN ops \ {o}, NEW b \in SUBSET Chats, NEW r, r = [ops[p] EXCEPT !.stale = b]
        PROVE  /\ r \in Handler /\ r.stale = b
               /\ r.kind = ops[p].kind /\ r.at = ops[p].at /\ r.chat = ops[p].chat
               /\ r.session = ops[p].session /\ r.state = ops[p].state
    <3>1. ops[p] \in Handler
      BY DEF IInv, HandlersOK, HandlerOK
    <3> QED BY <2>1, <3>1 DEF Handler
  <2>2. ASSUME NEW p \in DOMAIN ops \ {o}
        PROVE  /\ row(p) \in Handler
               /\ row(p).kind = ops[p].kind /\ row(p).at = ops[p].at /\ row(p).chat = ops[p].chat
               /\ row(p).session = ops[p].session /\ row(p).state = ops[p].state
               /\ row(p).stale = IF Unseen(p, o) THEN ops[p].stale \cup {c} ELSE ops[p].stale
    <3>1. ops[p].stale \in SUBSET Chats
      BY DEF IInv, HandlersOK, HandlerOK, Handler
    <3>2. PICK b \in SUBSET Chats : b = IF Unseen(p, o) THEN ops[p].stale \cup {c} ELSE ops[p].stale
      BY <1>3, <3>1
    <3>3. row(p) = [ops[p] EXCEPT !.stale = b]
      BY <3>2 DEF row
    <3> PICK r : r = row(p)
      OBVIOUS
    <3> HIDE DEF row
    <3>4. /\ r \in Handler /\ r.stale = b
          /\ r.kind = ops[p].kind /\ r.at = ops[p].at /\ r.chat = ops[p].chat
          /\ r.session = ops[p].session /\ r.state = ops[p].state
      BY <2>1, <3>3
    <3> QED BY <3>2, <3>4
  <2> QED BY <2>2
<1>7. row(o) = final
  BY DEF row
<1> HIDE DEF row, final
<1>8. /\ ops' \in [DOMAIN ops' -> Handler] /\ DOMAIN ops' = DOMAIN ops
      /\ \A p \in DOMAIN ops : ops'[p] = row(p)
  <2>1. \A p \in DOMAIN ops : row(p) \in Handler
    BY <1>5, <1>6, <1>7
  <2>2. ops' = [p \in DOMAIN ops |-> row(p)]
    BY <1>1
  <2> QED BY <2>1, <2>2
<1>9. /\ made' \in [Chats -> SUBSET Sessions]
      /\ \A x \in Chats \ {c} : made'[x] = made[x]
      /\ made'[c] = made[c] \cup ({told} \ {None})
      /\ \A x \in Chats : made[x] \subseteq made'[x] /\ made'[x] \subseteq Born
  BY <1>1, <1>3 DEF IInv, Types, TypeOK, Born
<1>10. ASSUME NEW p \in DOMAIN ops \ {o} PROVE HandlerOK(ops[p])'
  <2>1. PICK q : q = ops[p]
    OBVIOUS
  <2>2. PICK r : r = ops'[p]
    OBVIOUS
  <2>3. HandlerOK(q)
    BY <2>1 DEF IInv, HandlersOK
  <2>4. /\ r \in Handler /\ r.kind = q.kind /\ r.at = q.at /\ r.chat = q.chat
        /\ r.session = q.session /\ r.state = q.state
        /\ r.stale = IF Unseen(p, o) THEN q.stale \cup {c} ELSE q.stale
    BY <1>6, <1>8, <2>1, <2>2
  <2>5. /\ q.stale \subseteq r.stale
        /\ r.at \in {"merging", "storing"} => c \in r.stale
        /\ r.at = "loading" \/ (r.at \in {"creating", "filling"} /\ r.kind = "new") =>
              q.chat \in Chats /\ (q.chat = c => c \in r.stale)
    BY <2>1, <2>3, <2>4 DEF Unseen, HandlerOK
  <2>6. raced \subseteq raced'
    BY <1>1
  <2>7. (/\ r.at = "loading" \/ (r.at \in {"creating", "filling"} /\ r.kind = "new") =>
              (r.chat \notin raced \cup r.stale => made[r.chat] \subseteq r.state.listed)
         /\ r.at \in {"merging", "storing"} =>
              \A x \in Chats \ (raced \cup r.stale) : made[x] \subseteq r.state[x].listed)'
    <3>1. ASSUME r.at = "loading" \/ (r.at \in {"creating", "filling"} /\ r.kind = "new"),
                 r.chat \notin raced' \cup r.stale
          PROVE  made'[r.chat] \subseteq r.state.listed
      <4>1. q.chat # c /\ q.chat \in Chats /\ q.chat \notin raced \cup q.stale
        BY <2>4, <2>5, <2>6, <3>1
      <4>2. made[q.chat] \subseteq q.state.listed
        BY <2>3, <2>4, <3>1, <4>1 DEF HandlerOK
      <4> QED BY <1>9, <2>4, <4>1, <4>2
    <3>2. ASSUME r.at \in {"merging", "storing"}, NEW x \in Chats \ (raced' \cup r.stale)
          PROVE  made'[x] \subseteq r.state[x].listed
      <4>1. x # c /\ x \notin raced \cup q.stale
        BY <2>5, <2>6, <3>2
      <4>2. made[x] \subseteq q.state[x].listed
        BY <2>3, <2>4, <3>2, <4>1 DEF HandlerOK
      <4> QED BY <1>9, <2>4, <4>1, <4>2
    <3> QED BY <2>2, <3>1, <3>2
  <2>8. HandlerOK(r)'
    BY <1>1, <1>4, <2>3, <2>4, <2>7 DEF HandlerOK
  <2> QED BY <2>2, <2>8
<1>11. HandlerOK(ops[o])'
  <2>1. PICK r : r = ops'[o]
    OBVIOUS
  <2>2. r = final
    BY <1>2, <1>7, <1>8, <2>1
  <2>3. HandlerOK(r)'
    BY <1>1, <1>2, <1>3, <1>4, <1>5, <2>2 DEF HandlerOK
  <2> QED BY <2>1, <2>3
<1>12. HandlersOK'
  BY <1>8, <1>10, <1>11 DEF HandlersOK
<1>13. Types'
  <2>1. \A p \in DOMAIN ops' : ops'[p].kind \in Kinds /\ ops'[p].at \in Places
    <3>1. \A p \in DOMAIN ops' : ops'[p] \in Handler
      BY <1>8
    <3> QED BY <3>1 DEF Handler
  <2>2. \A x \in Chats : store'[x].listed \subseteq Born'
    BY <1>1, <1>3, <1>4 DEF Sound, OnDisk, IInv, ChatsOK
  <2>3. cache' \subseteq Born'
    BY <1>1, <1>2, <1>3, <1>4 DEF IInv, Types, TypeOK, Born, AfterStore
  <2>4. raced' \subseteq Chats /\ torn' \in BOOLEAN
    BY <1>1, <1>2, <1>3 DEF IInv, Types, TypeOK, HandlerOK, Handler
  <2>5. store' \in [Chats -> ChatState]
    BY <1>1, <1>3 DEF IInv, Types
  <2> QED BY <1>1, <1>3, <1>4, <1>8, <1>9, <2>1, <2>2, <2>3, <2>4, <2>5 DEF IInv, Types, TypeOK, Born
<1>14. ChatsOK'
  <2>1. ASSUME NEW x \in Chats PROVE Sound(store[x])'
    <3>1. PICK y : y = store'[x]
      OBVIOUS
    <3>2. Sound(y)
      BY <1>1, <1>3, <3>1 DEF IInv, ChatsOK
    <3>3. Sound(y)'
      BY <1>4, <3>2
    <3> QED BY <3>1, <3>3
  <2>2. ASSUME NEW x \in Chats, x \notin raced' PROVE made'[x] \subseteq store'[x].listed
    <3>1. CASE store' = st /\ raced' = raced \cup ops[o].stale
      BY <1>3, <1>9, <2>2, <3>1
    <3>2. CASE store' = store /\ raced' = raced \cup {c}
      BY <1>9, <2>2, <3>2 DEF IInv, ChatsOK
    <3> QED BY <1>1, <3>1, <3>2
  <2> QED BY <2>1, <2>2 DEF ChatsOK
<1>15. \A p \in DOMAIN ops \ {o} : p \in DOMAIN ops' /\ ops'[p].session = ops[p].session /\ ops'[p].at = ops[p].at
  BY <1>6, <1>8
<1>16. Kept'
  <2>1. ASSUME NEW s, NEW places \in {{"creating"}, AtFile}, Some(s, places) PROVE Some(s, places)'
    <3>1. PICK p \in DOMAIN ops : ops[p].session = s /\ ops[p].at \in places
      BY <2>1 DEF Some
    <3>2. p # o
      BY <1>2, <3>1 DEF AtFile, Writes
    <3> QED BY <1>15, <3>1, <3>2 DEF Some
  <2>2. ASSUME NEW s \in Born \ (gone \cup unmade) PROVE KeptOne(s)'
    <3>1. KeptOne(s)
      BY <2>2 DEF IInv, Kept
    <3>2. cache \subseteq cache'
      BY <1>1
    <3> QED BY <1>1, <2>1, <3>1, <3>2 DEF KeptOne
  <2> QED BY <1>1, <1>4, <2>2 DEF IInv, Kept
<1>17. Gone'
  <2>1. ASSUME NEW s \in Doomed, Uses(s)' = {} PROVE Uses(s) = {}
    <3>1. ASSUME NEW p \in Uses(s) PROVE FALSE
      <4>1. p \in DOMAIN ops /\ ops[p].session = s /\ ops[p].at # "idle"
        BY DEF Uses
      <4>2. ops[p].at = "unlinking"
        BY <4>1 DEF IInv, HandlersOK, HandlerOK
      <4>3. p \in Uses(s)'
        BY <1>2, <1>6, <1>8, <4>1, <4>2 DEF Uses
      <4> QED BY <2>1, <4>3
    <3> QED BY <3>1
  <2> QED BY <1>1, <1>3, <1>4, <2>1 DEF IInv, Gone
<1>18. ActiveOK'
  <2>1. ASSUME NEW s \in Sessions PROVE Texts(s)' = Texts(s)
    <3>1. Texts(s) = {p \in DOMAIN ops : TextOn(ops[p], s)}
      BY TextsAre
    <3>2. Texts(s)' = {p \in DOMAIN ops' : TextOn(ops'[p], s)}
      BY DEF Texts, Uses, TextOn
    <3>3. \A p \in DOMAIN ops \ {o} : TextOn(ops'[p], s) <=> TextOn(ops[p], s)
      BY <1>6, <1>8 DEF TextOn
    <3>4. ~TextOn(ops[o], s) /\ ~TextOn(ops'[o], s)
      BY <1>2, <1>3, <1>5, <1>7, <1>8 DEF TextOn
    <3> QED BY <1>8, <3>1, <3>2, <3>3, <3>4
  <2> QED BY <1>1, <2>1 DEF IInv, ActiveOK
<1>19. Marked'
  <2>1. ASSUME NEW p \in lost
        PROVE  p \in DOMAIN ops' /\ ops'[p].at \in Writes /\ ops'[p].session \in gone
    <3>1. p \in DOMAIN ops /\ ops[p].at \in Writes /\ ops[p].session \in gone /\ p # o
      BY <1>2 DEF IInv, Marked, Writes
    <3> QED BY <1>15, <3>1
  <2>2. ASSUME NEW p \in met \ {o}
        PROVE  /\ p \in DOMAIN ops'
               /\ ops'[p].at = "storing" \/ (ops'[p].at \in Writes /\ ops'[p].session \in mixed)
    <3>1. /\ p \in DOMAIN ops /\ p # o
          /\ ops[p].at = "storing" \/ (ops[p].at \in Writes /\ ops[p].session \in mixed)
      BY DEF IInv, Marked
    <3> QED BY <1>15, <3>1
  <2> QED BY <1>1, <2>1, <2>2 DEF Marked
<1> QED BY <1>12, <1>13, <1>14, <1>16, <1>17, <1>18, <1>19 DEF IInv

-----------------------------------------------------------------------------
(***************************************************************************)
(* The process dies and starts.                                            *)
(***************************************************************************)
LEMMA CrashKeeps == ASSUME IInv, Crash PROVE IInv'
<1>1. /\ up /\ up' = FALSE /\ cache' = {} /\ active' = {} /\ met' = {} /\ lost' = {}
      /\ ops' = [o \in DOMAIN ops |-> Idle]
      /\ inUse' = inUse \cup Dying("unlinking") /\ unmade' = unmade \cup Dying("creating")
      /\ UNCHANGED <<file, store, torn, rules, born, gone, made, raced, blurred, mixed>>
  BY DEF Crash
<1>2. Idle \in Handler /\ Idle.at = "idle" /\ Idle.session = None
  BY DEF Idle, Handler, Kinds, Places
<1>3. /\ ops' \in [DOMAIN ops' -> Handler] /\ DOMAIN ops' = DOMAIN ops
      /\ \A o \in DOMAIN ops : ops'[o] = Idle
  BY <1>1, <1>2
<1>4. /\ Born' = Born /\ Doomed' \subseteq Doomed /\ (\A s \in Doomed' : Uses(s) = {})
      /\ Born \subseteq Sessions /\ inUse' \subseteq Born /\ unmade' \subseteq Born
  <2>1. \A o \in DOMAIN ops : HandlerOK(ops[o])
    BY DEF IInv, HandlersOK
  <2>2. \A o \in DOMAIN ops : ops[o].at = "unlinking" => ops[o].session \in Born /\ ops[o].session \in inUse'
    BY <1>1, <2>1 DEF HandlerOK, Dying
  <2>3. ASSUME NEW s \in Doomed', NEW o \in Uses(s) PROVE FALSE
    <3>1. s \in Doomed /\ o \in DOMAIN ops /\ ops[o].session = s /\ ops[o].at # "idle"
      BY <1>1, <2>3 DEF Doomed, Uses
    <3>2. ops[o].at = "unlinking"
      BY <2>1, <3>1 DEF HandlerOK
    <3> QED BY <2>2, <3>1, <3>2 DEF Doomed
  <2>4. inUse' \subseteq Born /\ unmade' \subseteq Born
    BY <1>1, <2>1 DEF Dying, HandlerOK, AtFile, Writes, Born, IInv, Types, TypeOK
  <2> QED BY <1>1, <2>3, <2>4 DEF Born, Doomed, IInv, Types, TypeOK
<1>5. file' = file
  BY <1>1
<1>6. /\ \A s \in Sessions : OnDisk(s) => OnDisk(s)'
      /\ \A st \in ChatState : Sound(st) => Sound(st)'
  BY <1>1, <1>4, <1>5 DEF OnDisk, Sound, ChatState
<1>7. HandlersOK'
  BY <1>2, <1>3 DEF HandlersOK, HandlerOK
<1>8. Types'
  <2>1. \A o \in DOMAIN ops' : ops'[o].kind \in Kinds /\ ops'[o].at \in Places
    BY <1>2, <1>3 DEF Handler
  <2>2. DOMAIN ops' \subseteq Ops
    BY <1>3 DEF IInv, Types, TypeOK
  <2> QED BY <1>1, <1>4, <2>1, <2>2 DEF IInv, Types, TypeOK, Born
<1>9. ChatsOK'
  BY <1>1, <1>6 DEF IInv, Types, ChatsOK
<1>10. Kept'
  <2>1. ASSUME NEW s \in Born \ (gone \cup unmade') PROVE KeptOne(s)'
    <3>1. KeptOne(s)
      BY <1>1, <2>1 DEF IInv, Kept
    <3>2. ~Some(s, {"creating"})
      BY <1>1, <2>1 DEF Some, Dying
    <3> QED BY <1>1, <3>1, <3>2 DEF KeptOne
  <2> QED BY <1>1, <1>4, <2>1 DEF IInv, Kept
<1>11. Gone'
  <2>1. ASSUME NEW s \in Doomed' PROVE file'[s] = "none" /\ s \notin rules'
    <3>1. s \in Doomed /\ Uses(s) = {} /\ s \in Sessions
      BY <1>4 DEF Doomed, IInv, Types, TypeOK
    <3>2. file[s] = "none" /\ s \notin rules
      BY <3>1 DEF IInv, Gone
    <3> QED BY <1>1, <1>5, <3>1, <3>2
  <2> QED BY <1>1, <2>1 DEF Gone
<1>12. ActiveOK'
  BY <1>1, <1>2, <1>3 DEF ActiveOK, Texts, Uses
<1>13. Marked'
  BY <1>1 DEF Marked
<1> QED BY <1>7, <1>8, <1>9, <1>10, <1>11, <1>12, <1>13 DEF IInv

LEMMA BootKeeps == ASSUME IInv, Boot PROVE IInv'
<1>1. /\ ~up /\ up' = TRUE /\ (\A s \in Sessions : file[s] # "torn")
      /\ cache' = {s \in Sessions : file[s] = "whole"}
      /\ UNCHANGED <<file, store, torn, rules, active, ops, born, gone, inUse, made, raced,
                     blurred, unmade, mixed, met, lost>>
  BY DEF Boot, Disk, Past
<1>2. \A o \in DOMAIN ops : HandlerOK(ops[o]) /\ ops[o].at = "idle"
  BY <1>1 DEF IInv, HandlersOK, HandlerOK
<1>3. Born' = Born /\ Doomed' = Doomed /\ Born \subseteq Sessions /\ \A s : Uses(s) = {} /\ Uses(s)' = {}
  BY <1>1, <1>2 DEF Born, Doomed, Uses, IInv, Types, TypeOK
<1>4. /\ \A s : OnDisk(s) <=> OnDisk(s)'
      /\ \A st : Sound(st) <=> Sound(st)'
  BY <1>1, <1>3 DEF OnDisk, Sound
<1>5. HandlersOK'
  <2>1. ASSUME NEW r, HandlerOK(r), r.at = "idle" PROVE HandlerOK(r)'
    BY <1>1, <1>3, <2>1 DEF HandlerOK
  <2> QED BY <1>1, <1>2, <2>1 DEF IInv, HandlersOK
<1>6. cache' \subseteq Born'
  BY <1>1, <1>3 DEF IInv, Kept
<1>7. Types'
  BY <1>1, <1>6 DEF IInv, Types, TypeOK, Born
<1>8. ChatsOK'
  BY <1>1, <1>4 DEF IInv, ChatsOK
<1>9. Kept'
  <2>1. ASSUME NEW s \in Born \ (gone \cup unmade) PROVE KeptOne(s)'
    <3>1. file[s] # "none" /\ s \in Sessions
      BY <1>1, <1>3, <2>1 DEF IInv, Kept, KeptOne
    <3>2. file[s] = "whole"
      BY <1>1, <3>1 DEF IInv, Types, TypeOK
    <3> QED BY <1>1, <3>1, <3>2 DEF KeptOne
  <2> QED BY <1>1, <1>3, <2>1 DEF IInv, Kept
<1>10. Gone'
  BY <1>1, <1>3 DEF IInv, Gone, Doomed
<1>11. ActiveOK'
  BY <1>1 DEF IInv, ActiveOK, Texts, Uses
<1>12. Marked'
  BY <1>1 DEF IInv, Marked
<1> QED BY <1>5, <1>7, <1>8, <1>9, <1>10, <1>11, <1>12 DEF IInv

LEMMA InitHolds == Init => IInv
<1> SUFFICES ASSUME Init PROVE IInv
  OBVIOUS
<1>1. ops = [o \in {} |-> Idle] /\ DOMAIN ops = {} /\ ops \in [DOMAIN ops -> Handler]
  BY DEF Init
<1>2. NoState \in ChatState /\ NoState.session = None /\ NoState.listed = {}
  BY DEF NoState, State, ChatState
<1>3. Types
  <2>1. store \in [Chats -> ChatState] /\ made \in [Chats -> SUBSET Sessions]
    BY <1>2 DEF Init
  <2>2. \A c \in Chats : store[c].listed = {} /\ made[c] = {}
    BY <1>2 DEF Init
  <2>3. /\ up = TRUE /\ torn = FALSE /\ raced = {} /\ born = 0
        /\ cache = {} /\ rules = {} /\ active = {} /\ gone = {} /\ inUse = {} /\ blurred = {}
        /\ unmade = {} /\ mixed = {}
    BY DEF Init
  <2>4. file \in [Sessions -> {"none", "whole", "torn"}]
    BY DEF Init
  <2>5. TypeOK
    <3>1. \A known \in {cache, rules, active, gone, inUse, blurred, unmade, mixed} : known \subseteq 1 .. born
      BY <2>3
    <3>2. up \in BOOLEAN /\ torn \in BOOLEAN /\ raced \subseteq Chats
      BY <2>3
    <3>3. born \in 0 .. MaxSessions
      BY <2>3
    <3>4. \A c \in Chats : store[c].listed \subseteq 1 .. born /\ made[c] \subseteq 1 .. born
      BY <2>2
    <3>5. \A o \in DOMAIN ops : ops[o].kind \in Kinds /\ ops[o].at \in Places
      BY <1>1
    <3> QED BY <1>1, <2>4, <3>1, <3>2, <3>3, <3>4, <3>5 DEF TypeOK
  <2> QED BY <1>1, <2>1, <2>5 DEF Types
<1>4. ChatsOK
  BY <1>2 DEF Init, ChatsOK, Sound
<1>5. HandlersOK
  BY <1>1 DEF HandlersOK
<1>6. Kept /\ Gone /\ ActiveOK /\ Marked
  BY <1>1 DEF Init, Kept, Marked, Gone, Doomed, Born, ActiveOK, Texts, Uses
<1> QED BY <1>3, <1>4, <1>5, <1>6 DEF IInv

LEMMA StepKeeps == IInv /\ [Next]_vars => IInv'
<1> SUFFICES ASSUME IInv, [Next]_vars PROVE IInv'
  OBVIOUS
<1>1. CASE Arrives
  <2>1. None \in States /\ \A s \in 1 .. born : State(s, None, {}) \in States
    BY DEF States, State, ChatState, IInv, Types, TypeOK
  <2>2. \A a \in Agents : State(None, a, {}) \in ChatState /\ State(None, a, {}) \in States
    BY DEF States, State, ChatState
  <2>3. ASSUME NEW c \in Chats, Reads("new", c, None, None) \/ Reads("text", c, None, None) PROVE IInv'
    BY <2>1, <2>3, ReadsKeeps DEF OfChats
  <2>4. ASSUME NEW c \in Chats, NEW s \in 1 .. born, Reads("session", c, None, State(s, None, {})) PROVE IInv'
    BY <2>1, <2>4, ReadsKeeps DEF OfChats
  <2>5. ASSUME NEW c \in Chats, NEW a \in Agents, Reads("agent", c, None, State(None, a, {})) PROVE IInv'
    BY <2>2, <2>5, ReadsKeeps DEF OfChats
  <2> QED
    BY <1>1, <2>3, <2>4, <2>5, StartCommandKeeps, ApiSavesKeeps, DeleteSessionKeeps DEF Arrives
<1>2. CASE \E o \in Ops : OpStep(o)
  <2>1. PICK o \in Ops : OpStep(o)
    BY <1>2
  <2>2. CASE FillBegins(o) \/ CreateEnds(o) \/ ReadFails(o) \/ StartRead(o) \/ NewRead(o) \/ SelectRead(o)
    BY <2>2, FillBeginsKeeps, CreateEndsKeeps, ReadFailsKeeps, StartReadKeeps, NewReadKeeps, SelectReadKeeps
  <2>3. CASE AgentRead(o) \/ TextRead(o) \/ NothingToDo(o) \/ Load(o) \/ StoreBegins(o) \/ Store(o)
    BY <2>3, AgentReadKeeps, TextReadKeeps, NothingToDoKeeps, LoadKeeps, StoreBeginsKeeps, StoreKeeps
  <2>4. CASE TypingShown(o) \/ TypingFails(o) \/ AnswerAlways(o) \/ RunEnds(o)
    BY <2>4, TypingShownKeeps, TypingFailsKeeps, AnswerAlwaysKeeps, RunEndsKeeps
  <2>5. CASE Checked(o) \/ CheckFails(o) \/ WriteBegins(o) \/ WriteEnds(o) \/ Unlinked(o)
    BY <2>5, CheckedKeeps, CheckFailsKeeps, WriteBeginsKeeps, WriteEndsKeeps, UnlinkedKeeps
  <2> QED BY <2>1, <2>2, <2>3, <2>4, <2>5 DEF OpStep
<1>3. CASE Crash \/ Boot
  BY <1>3, CrashKeeps, BootKeeps
<1>4. CASE UNCHANGED vars
  <2>1. UNCHANGED <<up, cache, file, store, torn, rules, active, ops, born, gone, inUse, made, raced,
                    blurred, unmade, mixed, met, lost>>
    BY <1>4 DEF vars
  <2>2. HandlersOK'
    BY <2>1, SameWorld DEF IInv, HandlersOK
  <2> QED
    BY <2>1, <2>2 DEF IInv, Types, TypeOK, ChatsOK, Sound, OnDisk, Kept, KeptOne, Some, Marked, Gone, Doomed, Born,
                      ActiveOK, Texts, Uses
<1> QED BY <1>1, <1>2, <1>3, <1>4 DEF Next

LEMMA Invariance == Spec => []IInv
BY InitHolds, StepKeeps, PTL DEF Spec

-----------------------------------------------------------------------------
(***************************************************************************)
(* What holds of every number of chats, sessions and handlers.             *)
(***************************************************************************)
\* While the chats' file parses, what a chat has chosen is one of its sessions
\* and was on disk, and no session a command created is forgotten unless a
\* change of that chat's was written over unseen: whichever commands, buttons
\* and messages overlap, and however their writes of the file meet
\* (TelegramChannel.ts, JsonTelegramChatStateRepository.ts).
THEOREM ChatsStaySound == Spec => []ChatsAreSound
<1>1. IInv => ChatsAreSound
  BY DEF IInv, Types, ChatsOK, Sound, OnDisk, ChatsAreSound, SelectedIsListed, ListedIsOnDisk, ListsAreKept
<1> QED BY <1>1, Invariance, PTL

\* Nobody loses a session that was not deleted, but for one whose creation a
\* crash cut off before its file was there; its file is whole or being written,
\* unless two writes of it met; and a deleted session that was not in use then
\* never comes back (SessionManager.ts, JsonSessionRepository.ts,
\* SessionsController.ts).
THEOREM DeletedExactly == Spec => []DeletionIsExact
<1>1. IInv => KeptUnlessDeleted
  <2> SUFFICES ASSUME IInv, up, NEW s \in (1 .. born) \ (gone \cup unmade)
               PROVE  /\ s \in cache
                      /\ file[s] = "none" => \E o \in Uses(s) : ops[o].at = "creating"
                      /\ s \notin mixed => file[s] = "whole" \/ Busy(s) # {}
    BY DEF KeptUnlessDeleted
  <2>1. KeptOne(s)
    BY DEF IInv, Kept, Born
  <2>2. ASSUME Some(s, {"creating"}) PROVE \E o \in Uses(s) : ops[o].at = "creating"
    BY <2>2 DEF Some, Uses
  <2>3. ASSUME Some(s, AtFile) PROVE Busy(s) # {}
    BY <2>3 DEF Some, Uses, Busy, AtFile, Writes
  <2> QED BY <2>1, <2>2, <2>3 DEF KeptOne
<1>2. IInv => DeletedStaysGone
  <2> SUFFICES ASSUME IInv, NEW s \in gone \ inUse
               PROVE  /\ s \notin cache
                      /\ (\A o \in Uses(s) : ops[o].at # "unlinking") => file[s] = "none" /\ s \notin rules
    BY DEF DeletedStaysGone
  <2>1. \A o \in Uses(s) : ops[o].at = "unlinking"
    BY DEF IInv, HandlersOK, HandlerOK, Uses, Doomed
  <2> QED BY <2>1 DEF IInv, Gone, Doomed
<1> QED BY <1>1, <1>2, Invariance, PTL DEF DeletionIsExact

\* activeSessions says what is under way, where messages neither overlap nor
\* lose their typing (TelegramChannel.ts).
THEOREM ActiveStaysExact == Spec => []ActiveIsExact
<1>1. IInv => ActiveIsExact
  BY DEF IInv, ActiveOK, ActiveIsExact
<1> QED BY <1>1, Invariance, PTL
=============================================================================
