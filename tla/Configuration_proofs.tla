------------------------ MODULE Configuration_proofs ------------------------
(***************************************************************************)
(* MCPConnection and ConfigReload, for any number of clients, attempts,     *)
(* calls, agents, skills, workflows, handlers and changes.  The two share   *)
(* nothing but this module.                                                *)
(***************************************************************************)
EXTENDS MCPConnection, ConfigReload, FiniteSetTheorems, SequenceTheorems, TLAPS

-----------------------------------------------------------------------------
(***************************************************************************)
(* MCPConnection.  A lost connection has a timer at every moment at which   *)
(* it is shown as lost (Retried): whatever else writes that status, a       *)
(* disconnect or a removal, works on a client that was told so before it    *)
(* waited (Shape), and the registration of a client is over before there is *)
(* anything to lose (Fresh).                                               *)
(***************************************************************************)
IdleTimers(x) == \A a \in Attempts : x.timers[a] = 0

\* The manager never had a connection of the client: no callback, timer or attempt.
Fresh(c) ==
    /\ ~server[c].subscribed /\ IdleTimers(server[c])
    /\ \A s \in Waiting : calls[s].kind = "timer" => calls[s].on # c

Shape(s) ==
    LET call == calls[s] IN
    /\ call.of <= made /\ call.on <= made
    /\ call.kind \in {"remove", "disconnect"} => call.phase = "close"
    /\ call.kind \in {"add", "remove", "disconnect"} /\ call.phase = "close"
         => server[call.on].manual
    /\ call.kind = "timer" => call.phase # "close"
    /\ call.kind = "add" /\ call.phase # "close" => call.on = call.of

AddedOnce ==
    \A s, q \in Waiting :
        calls[s].kind = "add" /\ calls[q].kind = "add" /\ calls[s].of = calls[q].of => s = q

\* A client's record by itself.
Real(x) == x.status = "connected" => x.link \in x.open
TimerIsSet(x) == x.timer # None => x.timers[x.timer] > 0
Wanted(x) == x.subscribed /\ ~x.manual /\ x.managed \in {"disconnected", "error"} /\ ~x.gaveUp

Retried(c) == tracked = c /\ Wanted(server[c]) => ~IdleTimers(server[c])

IInv ==
    /\ TypeOK
    /\ \A c \in {registry, tracked} : c # None => c <= made
    /\ \A c \in Clients : Real(server[c]) /\ TimerIsSet(server[c]) /\ Retried(c)
    /\ \A c \in Clients : c > made => Fresh(c)
    /\ \A s \in Waiting : Shape(s) /\ (calls[s].kind = "add" => Fresh(calls[s].of))
    /\ AddedOnce

-----------------------------------------------------------------------------
(***************************************************************************)
(* What a function of the manager or the client may make y of a record x.   *)
(***************************************************************************)
Follows(x, y) == y \in Server /\ Real(y) /\ TimerIsSet(y) /\ (x.manual => y.manual)
Quiet(x, y) == x.subscribed = y.subscribed /\ (~x.subscribed /\ IdleTimers(x) => IdleTimers(y))
Keeps(x, y) == Wanted(y) /\ IdleTimers(y) => Wanted(x) /\ IdleTimers(x)
Good(x) == x \in Server /\ Real(x) /\ TimerIsSet(x)

LEMMA Bounds ==
    /\ MaxRequests \in Nat /\ MaxDrops \in Nat /\ None \notin Nat
    /\ MaxClients \in Nat \ {0} /\ MaxAttempts \in Nat \ {0}
    /\ MaxCalls \in Nat \ {0} /\ MaxLinks \in Nat \ {0}
    /\ 1 \in Attempts /\ None \notin Attempts /\ None \notin Clients
  BY MCPConnectionAssumption DEF Attempts, Clients

LEMMA ClearedIs ==
    ASSUME NEW x, Good(x)
    PROVE  /\ Good(Cleared(x)) /\ Cleared(x).timer = None
           /\ Follows(x, Cleared(x)) /\ Quiet(x, Cleared(x))
           /\ Cleared(x).managed = x.managed /\ Cleared(x).manual = x.manual
           /\ Cleared(x).status = x.status /\ Cleared(x).subscribed = x.subscribed
<1> USE Bounds
<1>1. CASE x.timer = None
  BY <1>1 DEF Cleared, Good, Follows, Quiet, IdleTimers
<1>2. CASE x.timer # None
  <2> DEFINE a == x.timer
             y == [x EXCEPT !.timers[a] = @ - 1, !.timer = None]
  <2>1. a \in Attempts /\ x.timers \in [Attempts -> Nat] /\ x.timers[a] > 0
    BY <1>2 DEF Good, Server, TimerIsSet
  <2>2. [x.timers EXCEPT ![a] = @ - 1] \in [Attempts -> Nat]
    BY <2>1
  <2>3. /\ y \in Server /\ y.timer = None /\ y.manual = x.manual /\ y.status = x.status
        /\ y.link = x.link /\ y.open = x.open /\ y.managed = x.managed
        /\ y.subscribed = x.subscribed
    BY <2>2 DEF Good, Server
  <2>4. Real(y) /\ TimerIsSet(y) /\ ~IdleTimers(x)
    BY <2>1, <2>3 DEF Good, Real, TimerIsSet, IdleTimers
  <2>5. Cleared(x) = y
    BY <1>2 DEF Cleared
  <2> HIDE DEF y
  <2> QED BY <2>3, <2>4, <2>5 DEF Good, Follows, Quiet
<1> QED BY <1>1, <1>2

LEMMA ScheduledIs ==
    ASSUME NEW x, Good(x), NEW a \in Nat \ {0}
    PROVE  /\ Good(Scheduled(x, a)) /\ Follows(x, Scheduled(x, a))
           /\ Scheduled(x, a).gaveUp \/ ~IdleTimers(Scheduled(x, a))
           /\ a <= MaxAttempts => ~IdleTimers(Scheduled(x, a))
           /\ Scheduled(x, a).subscribed = x.subscribed
<1> USE Bounds
<1>1. CASE a > MaxAttempts
  <2> DEFINE y == [x EXCEPT !.managed = "error", !.gaveUp = TRUE]
  <2>1. /\ y \in Server /\ y.gaveUp = TRUE /\ y.status = x.status /\ y.link = x.link /\ y.open = x.open
        /\ y.timer = x.timer /\ y.timers = x.timers /\ y.manual = x.manual
        /\ y.subscribed = x.subscribed
    BY DEF Good, Server, Statuses
  <2>2. Scheduled(x, a) = y
    BY <1>1 DEF Scheduled
  <2> HIDE DEF y
  <2> QED BY <1>1, <2>1, <2>2 DEF Good, Follows, Real, TimerIsSet
<1>2. CASE a <= MaxAttempts
  <2> DEFINE y == [x EXCEPT !.timers[a] = @ + 1, !.timer = a]
  <2>1. a \in Attempts /\ x.timers \in [Attempts -> Nat]
    BY <1>2 DEF Good, Server, Attempts
  <2>2. /\ [x.timers EXCEPT ![a] = @ + 1] \in [Attempts -> Nat]
        /\ [x.timers EXCEPT ![a] = @ + 1][a] > 0
    BY <2>1
  <2>3. /\ y \in Server /\ y.timer = a /\ y.manual = x.manual /\ y.status = x.status
        /\ y.link = x.link /\ y.open = x.open /\ y.subscribed = x.subscribed
        /\ y.timers = [x.timers EXCEPT ![a] = @ + 1]
    BY <2>1, <2>2 DEF Good, Server
  <2>4. Scheduled(x, a) = y
    BY <1>2 DEF Scheduled
  <2> HIDE DEF y
  <2> QED BY <2>1, <2>2, <2>3, <2>4 DEF Good, Follows, Real, TimerIsSet, IdleTimers
<1> QED BY <1>1, <1>2

LEMMA LostIs ==
    ASSUME NEW x, Good(x), NEW l \in Links
    PROVE  Follows(x, Lost(x, l)) /\ Quiet(x, Lost(x, l)) /\ Keeps(x, Lost(x, l))
<1> DEFINE closed == [x EXCEPT !.open = @ \ {l}]
           down == [closed EXCEPT !.status = "disconnected"]
           lost == [down EXCEPT !.managed = "disconnected"]
<1>1. /\ closed \in Server /\ closed.status = x.status /\ closed.timer = x.timer
      /\ closed.timers = x.timers /\ closed.manual = x.manual /\ closed.subscribed = x.subscribed
      /\ closed.managed = x.managed /\ closed.gaveUp = x.gaveUp
  BY DEF Good, Server
<1>2. /\ down \in Server /\ down.status = "disconnected" /\ down.timer = x.timer
      /\ down.timers = x.timers /\ down.manual = x.manual /\ down.subscribed = x.subscribed
      /\ lost \in Server /\ lost.status = "disconnected" /\ lost.timer = x.timer
      /\ lost.timers = x.timers /\ lost.manual = x.manual /\ lost.subscribed = x.subscribed
  BY DEF Good, Server, Statuses
<1> HIDE DEF closed
<1>3. CASE x.status # "connected"
  <2>1. Lost(x, l) = closed
    BY <1>3 DEF Lost, closed
  <2> QED BY <1>1, <1>3, <2>1 DEF Good, Follows, Quiet, Keeps, Real, TimerIsSet, IdleTimers, Wanted
<1> HIDE DEF down
<1>4. CASE x.status = "connected" /\ (~x.subscribed \/ x.manual)
  <2>1. Lost(x, l) = down
    BY <1>4 DEF Lost, down, closed
  <2> QED BY <1>2, <1>4, <2>1 DEF Good, Follows, Quiet, Keeps, Real, TimerIsSet, IdleTimers, Wanted
<1>5. CASE x.status = "connected" /\ x.subscribed /\ ~x.manual
  <2>1. Lost(x, l) = Scheduled(lost, 1)
    BY <1>5 DEF Lost, lost, down, closed
  <2> HIDE DEF lost
  <2>2. Good(lost)
    BY <1>2 DEF Good, Real, TimerIsSet
  <2>3. /\ Follows(lost, Scheduled(lost, 1)) /\ ~IdleTimers(Scheduled(lost, 1))
        /\ Scheduled(lost, 1).subscribed = x.subscribed
    BY <2>2, <1>2, ScheduledIs, Bounds
  <2> QED BY <1>2, <1>5, <2>1, <2>3 DEF Follows, Quiet, Keeps
<1> QED BY <1>3, <1>4, <1>5

LEMMA PartedIs ==
    ASSUME NEW x, Good(x)
    PROVE  /\ Good(Parted(x)) /\ Follows(x, Parted(x)) /\ Quiet(x, Parted(x)) /\ Keeps(x, Parted(x))
           /\ Parted(x).manual = x.manual
<1> DEFINE y == [x EXCEPT !.link = None, !.status = "disconnected"]
<1>1. /\ y \in Server /\ y.status = "disconnected" /\ y.timer = x.timer /\ y.timers = x.timers
      /\ y.manual = x.manual /\ y.subscribed = x.subscribed /\ y.managed = x.managed
      /\ y.gaveUp = x.gaveUp
  BY DEF Good, Server, Statuses
<1>2. Parted(x) = y
  BY DEF Parted
<1> HIDE DEF y
<1> QED BY <1>1, <1>2 DEF Good, Follows, Quiet, Keeps, Real, TimerIsSet, IdleTimers, Wanted

LEMMA ManualIs ==
    ASSUME NEW x, Good(x)
    PROVE  /\ Good(Manual(x)) /\ Follows(x, Manual(x)) /\ Quiet(x, Manual(x))
           /\ Manual(x).manual = TRUE /\ ~Wanted(Manual(x))
<1> DEFINE z == Cleared(x)
           y == [z EXCEPT !.manual = TRUE]
<1>1. Good(z) /\ Quiet(x, z) /\ z.subscribed = x.subscribed
  BY ClearedIs
<1> HIDE DEF z
<1>2. /\ y \in Server /\ y.manual = TRUE /\ y.timer = z.timer /\ y.timers = z.timers
      /\ y.status = z.status /\ y.link = z.link /\ y.open = z.open /\ y.subscribed = z.subscribed
  BY <1>1 DEF Good, Server
<1>3. Manual(x) = y
  BY DEF Manual, z
<1> HIDE DEF y
<1> QED BY <1>1, <1>2, <1>3 DEF Good, Follows, Quiet, Real, TimerIsSet, IdleTimers, Wanted

-----------------------------------------------------------------------------
(***************************************************************************)
(* Slots and connecting.                                                   *)
(***************************************************************************)
LEMMA SlotsAreFinite == IsFiniteSet(Slots \ Waiting)
<1>1. IsFiniteSet(Slots)
  BY Bounds, FS_Interval DEF Slots
<1> QED BY <1>1, FS_Difference

LEMMA SpareIs ==
    ASSUME Spare(1)
    PROVE  Slot \in Slots /\ Slot \notin Waiting
<1>1. Slots \ Waiting # {}
  BY FS_EmptySet DEF Spare
<1> QED BY <1>1 DEF Slot

LEMMA TwoAreSpare ==
    ASSUME Spare(2)
    PROVE  /\ Spare(1)
           /\ LET other == CHOOSE s \in Slots \ {Slot} : s \notin Waiting
              IN  other \in Slots /\ other # Slot /\ other \notin Waiting
<1>1. Cardinality(Slots \ Waiting) \in Nat
  BY SlotsAreFinite, FS_CardinalityType
<1>2. Spare(1)
  BY <1>1 DEF Spare
<1>3. Slot \in Slots \ Waiting
  BY <1>2, SpareIs
<1>4. Cardinality((Slots \ Waiting) \ {Slot}) = Cardinality(Slots \ Waiting) - 1
  BY <1>3, SlotsAreFinite, FS_RemoveElement
<1>5. (Slots \ Waiting) \ {Slot} # {}
  BY <1>1, <1>4, FS_EmptySet DEF Spare
<1> QED BY <1>2, <1>5

LEMMA GoodServers == IInv => \A c \in Clients : Good(server[c])
  BY DEF IInv, TypeOK, Good

LEMMA WaitingIsCall ==
    ASSUME TypeOK, NEW s \in Waiting
    PROVE  s \in Slots /\ calls[s] \in Call
  BY DEF TypeOK, Waiting

\* client.connect, on records that may have changed in the same step.
LEMMA ConnectIs ==
    ASSUME TypeOK, NEW S \in [Clients -> Server], NEW c \in Clients, Good(S[c]),
           NEW slot \in Slots, NEW kind \in Kinds, NEW attempt \in Attempts,
           Connect(slot, kind, c, attempt, S)
    PROVE  /\ server' \in [Clients -> Server] /\ \A d \in Clients \ {c} : server'[d] = S[d]
           /\ Follows(S[c], server'[c]) /\ Quiet(S[c], server'[c]) /\ Keeps(S[c], server'[c])
           /\ server'[c].managed = S[c].managed
           /\ \E call \in Call : /\ calls' = [calls EXCEPT ![slot] = call]
                                 /\ call.kind = kind /\ call.of = c /\ call.on = c
                                 /\ call.phase # "close"
<1> DEFINE y == [S[c] EXCEPT !.status = "connecting"]
           made0 == [Closing(kind, c, c) EXCEPT !.attempt = attempt]
           again == [made0 EXCEPT !.phase = "reclose"]
           first == [made0 EXCEPT !.phase = "handshake", !.link = None, !.first = FALSE]
<1>1. S[c] \in Server
  OBVIOUS
<1>2. /\ y \in Server /\ y.status = "connecting" /\ y.timer = S[c].timer /\ y.timers = S[c].timers
      /\ y.manual = S[c].manual /\ y.subscribed = S[c].subscribed /\ y.managed = S[c].managed
      /\ y.gaveUp = S[c].gaveUp
  BY <1>1 DEF Server, Statuses
<1>3. Follows(S[c], y) /\ Quiet(S[c], y) /\ Keeps(S[c], y)
  BY <1>2 DEF Good, Follows, Quiet, Keeps, Real, TimerIsSet, IdleTimers, Wanted
<1>4. server' = IF S[c].status = "connected" THEN S ELSE [S EXCEPT ![c] = y]
  BY DEF Connect
<1> HIDE DEF y
<1>5. /\ server' \in [Clients -> Server] /\ \A d \in Clients \ {c} : server'[d] = S[d]
      /\ server'[c] = S[c] \/ server'[c] = y
  BY <1>2, <1>4
<1>6. Follows(S[c], S[c]) /\ Quiet(S[c], S[c]) /\ Keeps(S[c], S[c])
  BY DEF Good, Follows, Quiet, Keeps
<1>7. server[c].link \in Links \cup {None}
  BY DEF TypeOK, Server
<1>8. again \in Call /\ again.kind = kind /\ again.of = c /\ again.on = c /\ again.phase # "close"
  BY <1>7 DEF Closing, Call
<1>9. first \in Call /\ first.kind = kind /\ first.of = c /\ first.on = c /\ first.phase # "close"
  BY <1>7 DEF Closing, Call
<1>10. calls' = [calls EXCEPT ![slot] = IF S[c].status = "connected" THEN again ELSE first]
  BY DEF Connect
<1> HIDE DEF again, first
<1>11. \E call \in Call : /\ calls' = [calls EXCEPT ![slot] = call]
                          /\ call.kind = kind /\ call.of = c /\ call.on = c
                          /\ call.phase # "close"
  BY <1>8, <1>9, <1>10
<1> QED BY <1>2, <1>3, <1>5, <1>6, <1>11

\* connectClient: nothing is lost any more.
LEMMA ManagerConnectsIs ==
    ASSUME TypeOK, NEW S \in [Clients -> Server], NEW c \in Clients, Good(S[c]),
           NEW slot \in Slots, NEW kind \in Kinds, NEW attempt \in Attempts,
           ManagerConnects(slot, kind, c, attempt, S)
    PROVE  /\ server' \in [Clients -> Server] /\ \A d \in Clients \ {c} : server'[d] = S[d]
           /\ Follows(S[c], server'[c]) /\ Quiet(S[c], server'[c]) /\ ~Wanted(server'[c])
           /\ \E call \in Call : /\ calls' = [calls EXCEPT ![slot] = call]
                                 /\ call.kind = kind /\ call.of = c /\ call.on = c
                                 /\ call.phase # "close"
<1> DEFINE z == Cleared(S[c])
           y == [z EXCEPT !.managed = "connecting"]
           T == [S EXCEPT ![c] = y]
<1>1. Good(z) /\ Follows(S[c], z) /\ Quiet(S[c], z)
  BY ClearedIs
<1> HIDE DEF z
<1>2. /\ y \in Server /\ y.managed = "connecting" /\ y.timer = z.timer /\ y.timers = z.timers
      /\ y.status = z.status /\ y.link = z.link /\ y.open = z.open /\ y.manual = z.manual
      /\ y.subscribed = z.subscribed
  BY <1>1 DEF Good, Server, Statuses
<1>3. Connect(slot, kind, c, attempt, T)
  BY DEF ManagerConnects, z
<1> HIDE DEF y
<1>4. Good(y) /\ Follows(z, y) /\ Quiet(z, y)
  BY <1>1, <1>2 DEF Good, Follows, Quiet, Real, TimerIsSet, IdleTimers
<1>5. T \in [Clients -> Server] /\ T[c] = y /\ \A d \in Clients \ {c} : T[d] = S[d]
  BY <1>2
<1> HIDE DEF T
<1>6. /\ server' \in [Clients -> Server] /\ \A d \in Clients \ {c} : server'[d] = T[d]
      /\ Follows(T[c], server'[c]) /\ Quiet(T[c], server'[c])
      /\ server'[c].managed = T[c].managed
      /\ \E call \in Call : /\ calls' = [calls EXCEPT ![slot] = call]
                            /\ call.kind = kind /\ call.of = c /\ call.on = c
                            /\ call.phase # "close"
  BY <1>3, <1>4, <1>5, ConnectIs
<1>7. ~Wanted(server'[c])
  BY <1>2, <1>5, <1>6 DEF Wanted
<1>8. Follows(S[c], server'[c]) /\ Quiet(S[c], server'[c])
  BY <1>1, <1>4, <1>5, <1>6 DEF Follows, Quiet
<1> QED BY <1>5, <1>6, <1>7, <1>8

\* What remove does before it waits.
LEMMA RemovingIs ==
    ASSUME IInv
    PROVE  /\ Removing \in [Clients -> Server]
           /\ \A d \in Clients : /\ Good(Removing[d]) /\ Follows(server[d], Removing[d])
                                 /\ Quiet(server[d], Removing[d]) /\ Keeps(server[d], Removing[d])
           /\ tracked # None => tracked \in Clients /\ Removing[tracked].manual
<1>1. server \in [Clients -> Server] /\ tracked \in Clients \cup {None}
  BY DEF IInv, TypeOK
<1>2. \A d \in Clients : /\ Good(server[d]) /\ Follows(server[d], server[d])
                         /\ Quiet(server[d], server[d]) /\ Keeps(server[d], server[d])
  BY GoodServers DEF Good, Follows, Quiet, Keeps
<1>3. CASE tracked = None
  BY <1>1, <1>2, <1>3 DEF Removing
<1>4. CASE tracked # None
  <2> DEFINE y == Manual(server[tracked])
  <2>1. /\ Good(y) /\ Follows(server[tracked], y) /\ Quiet(server[tracked], y)
        /\ y.manual = TRUE /\ ~Wanted(y)
    BY <1>1, <1>2, <1>4, ManualIs
  <2>2. Removing = [server EXCEPT ![tracked] = y]
    BY <1>4 DEF Removing
  <2> HIDE DEF y
  <2>3. y \in Server /\ Keeps(server[tracked], y)
    BY <2>1 DEF Good, Keeps
  <2>4. /\ Removing \in [Clients -> Server] /\ Removing[tracked] = y
        /\ \A d \in Clients \ {tracked} : Removing[d] = server[d]
    BY <1>1, <1>4, <2>2, <2>3
  <2> QED BY <1>1, <1>2, <1>4, <2>1, <2>3, <2>4
<1> QED BY <1>3, <1>4

-----------------------------------------------------------------------------
(***************************************************************************)
(* A step of the system.                                                   *)
(***************************************************************************)
LEMMA StepLemma ==
    ASSUME IInv, TypeOK', made' \in {made, made + 1},
           \A c \in {registry', tracked'} : c # None => c <= made',
           \A d \in Clients : Follows(server[d], server'[d]) /\ Retried(d)',
           \A d \in Clients : \/ Quiet(server[d], server'[d])
                              \/ /\ d <= made
                                 /\ \A s \in Waiting' : calls'[s].kind = "add" => calls'[s].of # d,
           \A s \in Waiting' :
              \/ s \in Waiting /\ calls'[s] = calls[s]
              \/ /\ s \in Waiting /\ Shape(s)'
                 /\ calls'[s].kind = calls[s].kind /\ calls'[s].of = calls[s].of
                 /\ calls[s].kind = "timer" => calls'[s].on = calls[s].on
              \/ /\ s \notin Waiting /\ Shape(s)'
                 /\ calls'[s].kind = "timer" => ~IdleTimers(server[calls'[s].on])
                 /\ calls'[s].kind = "add" => calls'[s].of = made + 1 /\ made' = made + 1,
           \A s, q \in Waiting' \ Waiting :
              calls'[s].kind = "add" /\ calls'[q].kind = "add" => s = q
    PROVE  IInv'
<1>1. made \in Nat /\ made' \in Nat /\ made <= made'
  BY Bounds DEF IInv, TypeOK
<1>2. \A s \in Waiting : s \in Slots /\ calls[s] \in Call
  BY WaitingIsCall DEF IInv
<1>3. \A s \in Waiting' : s \in Slots /\ calls'[s] \in Call
  BY DEF TypeOK, Waiting
<1>4. ASSUME NEW c \in Clients, Fresh(c), Quiet(server[c], server'[c])
      PROVE  Fresh(c)'
  <2>1. ~server'[c].subscribed /\ IdleTimers(server'[c])
    BY <1>4 DEF Fresh, Quiet
  <2>2. ASSUME NEW s \in Waiting', calls'[s].kind = "timer", calls'[s].on = c PROVE FALSE
    <3>1. CASE s \in Waiting
      BY <2>2, <3>1, <1>4 DEF Fresh
    <3>2. CASE s \notin Waiting
      BY <2>2, <3>2, <1>4 DEF Fresh
    <3> QED BY <3>1, <3>2
  <2> QED BY <2>1, <2>2 DEF Fresh, IdleTimers
<1>5. \A c \in Clients : c > made' => Fresh(c)'
  <2>1. SUFFICES ASSUME NEW c \in Clients, c > made' PROVE Fresh(c)'
    OBVIOUS
  <2>2. c > made
    BY <2>1, <1>1 DEF Clients
  <2>3. Fresh(c) /\ Quiet(server[c], server'[c])
    BY <2>2, <1>1 DEF IInv, Clients
  <2> QED BY <2>3, <1>4
<1>6. \A s \in Waiting' : Shape(s)'
  <2>1. SUFFICES ASSUME NEW s \in Waiting, s \in Waiting', calls'[s] = calls[s] PROVE Shape(s)'
    OBVIOUS
  <2>2. Shape(s) /\ calls[s].of \in Clients /\ calls[s].on \in Clients
    BY <1>2 DEF IInv, Call
  <2>3. calls[s].of <= made' /\ calls[s].on <= made'
    BY <2>2, <1>1 DEF Shape, Clients
  <2>4. server[calls[s].on].manual => server'[calls[s].on].manual
    BY <2>2 DEF Follows
  <2> QED BY <2>1, <2>2, <2>3, <2>4 DEF Shape
<1>7. ASSUME NEW s \in Waiting', calls'[s].kind = "add"
      PROVE  Fresh(calls[s].of)'
  <2>1. PICK c \in Clients : c = calls'[s].of
    BY <1>3, <1>7 DEF Call
  <2>2. Fresh(c)
    <3>1. CASE s \in Waiting
      BY <1>7, <2>1, <3>1 DEF IInv
    <3>2. CASE s \notin Waiting
      <4>1. c = made + 1
        BY <1>7, <2>1, <3>2
      <4> QED BY <4>1, <1>1 DEF IInv
    <3> QED BY <3>1, <3>2
  <2>3. Quiet(server[c], server'[c])
    BY <1>7, <2>1
  <2>4. Fresh(c)'
    BY <2>2, <2>3, <1>4
  <2> QED BY <2>1, <2>4 DEF Fresh, IdleTimers
<1>8. AddedOnce'
  <2>1. SUFFICES ASSUME NEW s \in Waiting', NEW q \in Waiting', calls'[s].kind = "add",
                        calls'[q].kind = "add", calls'[s].of = calls'[q].of
                 PROVE  s = q
    BY DEF AddedOnce
  <2>2. \A p \in Waiting : calls[p].of <= made /\ calls[p].of \in Nat
    BY <1>2 DEF IInv, Shape, Call, Clients
  <2>3. CASE s \in Waiting /\ q \in Waiting
    BY <2>1, <2>3 DEF IInv, AddedOnce
  <2>4. CASE s \notin Waiting /\ q \notin Waiting
    BY <2>1, <2>4
  <2>5. CASE s \in Waiting /\ q \notin Waiting
    <3>1. calls'[q].of = made + 1 /\ calls'[s].of = calls[s].of
      BY <2>1, <2>5
    <3>2. calls[s].of <= made /\ calls[s].of \in Nat
      BY <2>2, <2>5
    <3>3. calls[s].of = made + 1
      BY <2>1, <3>1
    <3> QED BY <3>2, <3>3, <1>1
  <2>6. CASE s \notin Waiting /\ q \in Waiting
    <3>1. calls'[s].of = made + 1 /\ calls'[q].of = calls[q].of
      BY <2>1, <2>6
    <3>2. calls[q].of <= made /\ calls[q].of \in Nat
      BY <2>2, <2>6
    <3>3. calls[q].of = made + 1
      BY <2>1, <3>1
    <3> QED BY <3>2, <3>3, <1>1
  <2> QED BY <2>3, <2>4, <2>5, <2>6
<1>9. \A c \in Clients : Real(server'[c]) /\ TimerIsSet(server'[c]) /\ Retried(c)'
  BY DEF Follows
<1> QED BY <1>5, <1>6, <1>7, <1>8, <1>9 DEF IInv, Real, TimerIsSet

\* What becomes of the calls: one ends, or one begins or goes on.
LEMMA CallsEnd ==
    ASSUME TypeOK, NEW s \in Slots, calls' = calls \/ End(s)
    PROVE  /\ calls' \in [Slots -> Call \cup {Free}] /\ Waiting' \subseteq Waiting
           /\ \A q \in Waiting' : calls'[q] = calls[q]
           /\ End(s) => s \notin Waiting'
  BY DEF TypeOK, End, Waiting

LEMMA CallGoesOn ==
    ASSUME TypeOK, NEW s \in Slots, NEW call \in Call, calls' = [calls EXCEPT ![s] = call]
    PROVE  /\ calls' \in [Slots -> Call \cup {Free}] /\ Waiting' = Waiting \cup {s}
           /\ calls'[s] = call /\ \A q \in Waiting' \ {s} : calls'[q] = calls[q]
<1>1. call # Free
  BY DEF Call, Free
<1> QED BY <1>1 DEF TypeOK, Waiting

\* What becomes of the records: one changes.
LEMMA ServerChanges ==
    ASSUME IInv, NEW c \in Clients, NEW y, Follows(server[c], y), server' = [server EXCEPT ![c] = y]
    PROVE  /\ server' \in [Clients -> Server] /\ server'[c] = y
           /\ \A d \in Clients : Follows(server[d], server'[d])
           /\ \A d \in Clients \ {c} : server'[d] = server[d]
           /\ \A d \in Clients \ {c} : Quiet(server[d], server'[d]) /\ Keeps(server[d], server'[d])
<1>1. server \in [Clients -> Server] /\ y \in Server
  BY DEF IInv, TypeOK, Follows
<1>2. \A d \in Clients : Follows(server[d], server[d]) /\ Quiet(server[d], server[d]) /\ Keeps(server[d], server[d])
  BY GoodServers DEF Good, Follows, Quiet, Keeps
<1>3. server'[c] = y /\ \A d \in Clients \ {c} : server'[d] = server[d]
  BY <1>1
<1>4. server' \in [Clients -> Server]
  BY <1>1
<1> QED BY <1>2, <1>3, <1>4

LEMMA ServersStay ==
    ASSUME IInv, server' = server
    PROVE  /\ server' \in [Clients -> Server]
           /\ \A d \in Clients : /\ Follows(server[d], server'[d])
                                 /\ Quiet(server[d], server'[d]) /\ Keeps(server[d], server'[d])
  BY GoodServers DEF IInv, TypeOK, Good, Follows, Quiet, Keeps

LEMMA RetriedStays ==
    ASSUME IInv, NEW c \in Clients, Keeps(server[c], server'[c]), tracked' = c => tracked = c
    PROVE  Retried(c)'
<1>1. Retried(c)
  BY DEF IInv
<1>2. tracked' = c /\ Wanted(server'[c]) => ~IdleTimers(server'[c])
  BY <1>1 DEF Retried, Keeps
<1> QED BY <1>2 DEF Retried, Wanted, IdleTimers

LEMMA UnwantedIsRetried ==
    ASSUME NEW c \in Clients,
           tracked' # c \/ ~Wanted(server'[c]) \/ ~IdleTimers(server'[c])
    PROVE  Retried(c)'
  BY DEF Retried, Wanted, IdleTimers

\* The manager's attempt that ends was the only one that could register the client.
LEMMA AloneAtTheEnd ==
    ASSUME IInv, NEW s \in Waiting, calls[s].kind \in {"add", "timer"}, calls[s].phase # "close", End(s)
    PROVE  /\ calls[s].on <= made
           /\ \A q \in Waiting' : calls'[q].kind = "add" => calls'[q].of # calls[s].on
<1>1. Shape(s) /\ calls[s].on <= made
  BY DEF IInv, Shape
<1>2. SUFFICES ASSUME NEW q \in Waiting', calls'[q].kind = "add", calls'[q].of = calls[s].on
               PROVE  FALSE
  BY <1>1
<1>3. q \in Waiting /\ calls'[q] = calls[q] /\ q # s
  BY <1>2, WaitingIsCall, CallsEnd DEF IInv
<1>4. CASE calls[s].kind = "add"
  BY <1>1, <1>2, <1>3, <1>4 DEF IInv, AddedOnce, Shape
<1>5. CASE calls[s].kind = "timer"
  BY <1>2, <1>3, <1>5 DEF IInv, Fresh
<1> QED BY <1>4, <1>5

-----------------------------------------------------------------------------
(***************************************************************************)
(* The steps of a call.                                                    *)
(***************************************************************************)
LEMMA ReclosedKeeps ==
    ASSUME IInv, NEW s \in Slots, Reclosed(s)
    PROVE  IInv'
<1>1. s \in Waiting /\ calls[s].phase = "reclose" /\ calls[s] \in Call
  BY WaitingIsCall DEF IInv, Reclosed, At
<1>2. PICK c \in Clients : c = calls[s].on
  BY <1>1 DEF Call
<1> DEFINE z == Parted(server[c])
           y == [z EXCEPT !.status = "connecting"]
<1>3. /\ Good(z) /\ Follows(server[c], z) /\ Quiet(server[c], z) /\ Keeps(server[c], z)
  BY GoodServers, PartedIs
<1>4. server' = [server EXCEPT ![c] = y]
  BY <1>2 DEF Reclosed
<1> HIDE DEF z
<1>5. /\ y \in Server /\ y.status = "connecting" /\ y.timer = z.timer /\ y.timers = z.timers
      /\ y.manual = z.manual /\ y.subscribed = z.subscribed /\ y.managed = z.managed
      /\ y.gaveUp = z.gaveUp
  BY <1>3 DEF Good, Server, Statuses
<1> HIDE DEF y
<1>6. Follows(server[c], y) /\ Quiet(server[c], y) /\ Keeps(server[c], y)
  BY <1>3, <1>5 DEF Good, Follows, Quiet, Keeps, Real, TimerIsSet, IdleTimers, Wanted
<1>7. /\ server' \in [Clients -> Server]
      /\ \A d \in Clients : Follows(server[d], server'[d]) /\ Quiet(server[d], server'[d])
                            /\ Keeps(server[d], server'[d])
  BY <1>4, <1>6, ServerChanges
<1>8. PICK call \in Call : /\ calls' = [calls EXCEPT ![s] = call]
                           /\ call.kind = calls[s].kind /\ call.of = calls[s].of
                           /\ call.on = calls[s].on /\ call.phase = "handshake"
  <2> DEFINE call == [calls[s] EXCEPT !.phase = "handshake", !.link = None, !.first = FALSE]
  <2>1. /\ call \in Call /\ call.kind = calls[s].kind /\ call.of = calls[s].of
        /\ call.on = calls[s].on /\ call.phase = "handshake"
    BY <1>1 DEF Call
  <2>2. calls' = [calls EXCEPT ![s] = call]
    BY DEF Reclosed
  <2> QED BY <2>1, <2>2
<1>9. /\ calls' \in [Slots -> Call \cup {Free}] /\ Waiting' = Waiting \cup {s}
      /\ calls'[s] = call /\ \A q \in Waiting' \ {s} : calls'[q] = calls[q]
  BY <1>8, CallGoesOn DEF IInv
<1>10. UNCHANGED <<registry, tracked, made, requests, drops>>
  BY DEF Reclosed
<1>11. Shape(s)'
  <2>1. Shape(s)
    BY <1>1 DEF IInv
  <2> QED BY <2>1, <1>1, <1>8, <1>9, <1>10 DEF Shape
<1>12. TypeOK'
  BY <1>7, <1>9, <1>10 DEF IInv, TypeOK
<1>13. \A d \in Clients : Retried(d)'
  BY <1>7, <1>10, RetriedStays
<1>14. \A q \in Waiting' : \/ q \in Waiting /\ calls'[q] = calls[q]
                           \/ /\ q \in Waiting /\ Shape(q)'
                              /\ calls'[q].kind = calls[q].kind /\ calls'[q].of = calls[q].of
                              /\ calls[q].kind = "timer" => calls'[q].on = calls[q].on
  <2>1. SUFFICES ASSUME NEW q \in Waiting', q = s
                 PROVE  /\ q \in Waiting /\ Shape(q)'
                        /\ calls'[q].kind = calls[q].kind /\ calls'[q].of = calls[q].of
                        /\ calls[q].kind = "timer" => calls'[q].on = calls[q].on
    BY <1>1, <1>9
  <2> QED BY <2>1, <1>1, <1>8, <1>9, <1>11
<1>15. \A c0 \in {registry', tracked'} : c0 # None => c0 <= made'
  BY <1>10 DEF IInv
<1>16. Waiting' \ Waiting = {}
  BY <1>1, <1>9
<1> QED BY <1>7, <1>10, <1>12, <1>13, <1>14, <1>15, <1>16, StepLemma

LEMMA SucceedKeeps ==
    ASSUME IInv, NEW s \in Slots, Succeed(s)
    PROVE  IInv'
<1>1. s \in Waiting /\ calls[s].phase = "handshake" /\ calls[s] \in Call /\ Shape(s) /\ End(s)
  BY WaitingIsCall DEF IInv, Succeed, At
<1>2. PICK c \in Clients : c = calls[s].on
  BY <1>1 DEF Call
<1>3. PICK l \in Links : /\ l = CHOOSE k \in Links : k \notin server[c].open
                         /\ l \notin server[c].open
  BY <1>2 DEF Succeed
<1> DEFINE up == [server[c] EXCEPT !.open = @ \cup {l}, !.link = l, !.status = "connected"]
           known == [up EXCEPT !.managed = "connected", !.subscribed = TRUE]
           y == IF calls[s].kind = "rest" THEN up ELSE known
<1>4. server[c] \in Server /\ Good(server[c])
  BY GoodServers DEF IInv, TypeOK
<1>5. /\ up \in Server /\ up.status = "connected" /\ up.link = l /\ l \in up.open
      /\ up.timer = server[c].timer /\ up.timers = server[c].timers
      /\ up.manual = server[c].manual /\ up.subscribed = server[c].subscribed
      /\ up.managed = server[c].managed /\ up.gaveUp = server[c].gaveUp
  BY <1>4 DEF Server, Statuses
<1>6. /\ known \in Server /\ known.status = "connected" /\ known.link = l /\ l \in known.open
      /\ known.timer = server[c].timer /\ known.timers = server[c].timers
      /\ known.manual = server[c].manual /\ known.managed = "connected"
  BY <1>4 DEF Server, Statuses
<1>7. server' = [server EXCEPT ![c] = y]
  BY <1>2, <1>3 DEF Succeed
<1> HIDE DEF up, known
<1>8. Follows(server[c], y)
  BY <1>4, <1>5, <1>6 DEF Good, Follows, Real, TimerIsSet
<1>9. calls[s].kind = "rest" => Quiet(server[c], y) /\ Keeps(server[c], y)
  BY <1>5 DEF Quiet, Keeps, IdleTimers, Wanted
<1>10. calls[s].kind # "rest" => ~Wanted(y)
  BY <1>6 DEF Wanted
<1> HIDE DEF y
<1>11. /\ server' \in [Clients -> Server] /\ server'[c] = y
       /\ \A d \in Clients : Follows(server[d], server'[d])
       /\ \A d \in Clients \ {c} : Quiet(server[d], server'[d]) /\ Keeps(server[d], server'[d])
  BY <1>7, <1>8, ServerChanges
<1>12. UNCHANGED <<registry, tracked, made, requests, drops>>
  BY DEF Succeed
<1>13. /\ calls' \in [Slots -> Call \cup {Free}] /\ Waiting' \subseteq Waiting
       /\ \A q \in Waiting' : calls'[q] = calls[q]
  BY <1>1, CallsEnd DEF IInv
<1>14. TypeOK'
  BY <1>11, <1>12, <1>13 DEF IInv, TypeOK
<1>15. \A d \in Clients : Retried(d)'
  <2>1. \A d \in Clients \ {c} : Retried(d)'
    BY <1>11, <1>12, RetriedStays
  <2>2. Retried(c)'
    <3>1. CASE calls[s].kind = "rest"
      BY <3>1, <1>9, <1>11, <1>12, RetriedStays
    <3>2. CASE calls[s].kind # "rest"
      BY <3>2, <1>10, <1>11, UnwantedIsRetried
    <3> QED BY <3>1, <3>2
  <2> QED BY <2>1, <2>2
<1>16. \/ Quiet(server[c], server'[c])
       \/ c <= made /\ \A q \in Waiting' : calls'[q].kind = "add" => calls'[q].of # c
  <2>1. CASE calls[s].kind = "rest"
    BY <2>1, <1>9, <1>11
  <2>2. CASE calls[s].kind # "rest"
    <3>1. calls[s].kind \in {"add", "timer"}
      BY <2>2, <1>1 DEF Shape, Call, Kinds
    <3> QED BY <3>1, <1>1, <1>2, AloneAtTheEnd
  <2> QED BY <2>1, <2>2
<1>17. \A c0 \in {registry', tracked'} : c0 # None => c0 <= made'
  BY <1>12 DEF IInv
<1> QED BY <1>11, <1>12, <1>13, <1>14, <1>15, <1>16, <1>17, StepLemma

LEMMA HandshakeFailsKeeps ==
    ASSUME IInv, NEW s \in Slots, HandshakeFails(s)
    PROVE  IInv'
<1>1. s \in Waiting /\ calls[s].phase = "handshake" /\ calls[s] \in Call /\ Shape(s) /\ End(s)
  BY WaitingIsCall DEF IInv, HandshakeFails, At
<1>2. PICK c \in Clients : c = calls[s].on
  BY <1>1 DEF Call
<1>3. PICK n \in Nat \ {0} : n = calls[s].attempt + 1
  BY <1>1, Bounds DEF Call, Attempts
<1> DEFINE down == [server[c] EXCEPT !.status = "error", !.link = None]
           failed == [down EXCEPT !.managed = "error"]
           y == CASE calls[s].kind = "rest" -> down
                  [] calls[s].kind = "add" -> failed
                  [] OTHER -> Scheduled(failed, n)
<1>4. server[c] \in Server /\ Good(server[c])
  BY GoodServers DEF IInv, TypeOK
<1>5. /\ down \in Server /\ down.status = "error"
      /\ down.timer = server[c].timer /\ down.timers = server[c].timers
      /\ down.manual = server[c].manual /\ down.subscribed = server[c].subscribed
      /\ down.managed = server[c].managed /\ down.gaveUp = server[c].gaveUp
  BY <1>4 DEF Server, Statuses
<1>6. /\ failed \in Server /\ failed.status = "error"
      /\ failed.timer = server[c].timer /\ failed.timers = server[c].timers
      /\ failed.manual = server[c].manual /\ failed.subscribed = server[c].subscribed
  BY <1>4 DEF Server, Statuses
<1>7. server' = [server EXCEPT ![c] = y]
  BY <1>2, <1>3 DEF HandshakeFails
<1> HIDE DEF down, failed
<1>8. Good(down) /\ Good(failed) /\ Follows(server[c], down) /\ Follows(server[c], failed)
  BY <1>4, <1>5, <1>6 DEF Good, Follows, Real, TimerIsSet
<1>9. /\ Follows(failed, Scheduled(failed, n))
      /\ ~Wanted(Scheduled(failed, n)) \/ ~IdleTimers(Scheduled(failed, n))
  BY <1>3, <1>8, ScheduledIs DEF Wanted
<1>10. /\ Follows(server[c], y)
       /\ \/ Quiet(server[c], y) /\ Keeps(server[c], y)
          \/ /\ calls[s].kind \in {"add", "timer"}
             /\ ~Wanted(y) \/ ~IdleTimers(y)
  <2>1. CASE calls[s].kind = "rest"
    <3>1. y = down
      BY <2>1
    <3> HIDE DEF y
    <3> QED BY <1>5, <1>8, <3>1 DEF Quiet, Keeps, IdleTimers, Wanted
  <2>2. CASE calls[s].kind = "add"
    <3>1. y = failed
      BY <2>2
    <3> HIDE DEF y
    <3>2. c = calls[s].of /\ Fresh(c)
      BY <1>1, <1>2, <2>2 DEF IInv, Shape
    <3>3. ~Wanted(y)
      BY <1>6, <3>1, <3>2 DEF Fresh, Wanted
    <3> QED BY <2>2, <1>8, <3>1, <3>3
  <2>3. CASE calls[s].kind \notin {"rest", "add"}
    <3>1. calls[s].kind = "timer"
      BY <1>1, <2>3 DEF Shape, Call, Kinds
    <3>2. y = Scheduled(failed, n)
      BY <3>1
    <3> HIDE DEF y
    <3>3. Follows(server[c], y)
      BY <1>8, <1>9, <3>2 DEF Follows
    <3> QED BY <1>9, <3>1, <3>2, <3>3
  <2> QED BY <2>1, <2>2, <2>3
<1> HIDE DEF y
<1>11. /\ server' \in [Clients -> Server] /\ server'[c] = y
       /\ \A d \in Clients : Follows(server[d], server'[d])
       /\ \A d \in Clients \ {c} : Quiet(server[d], server'[d]) /\ Keeps(server[d], server'[d])
  BY <1>7, <1>10, ServerChanges
<1>12. UNCHANGED <<registry, tracked, made, requests, drops>>
  BY DEF HandshakeFails
<1>13. /\ calls' \in [Slots -> Call \cup {Free}] /\ Waiting' \subseteq Waiting
       /\ \A q \in Waiting' : calls'[q] = calls[q]
  BY <1>1, CallsEnd DEF IInv
<1>14. TypeOK'
  BY <1>11, <1>12, <1>13 DEF IInv, TypeOK
<1>15. \A d \in Clients : Retried(d)'
  <2>1. \A d \in Clients \ {c} : Retried(d)'
    BY <1>11, <1>12, RetriedStays
  <2>2. Retried(c)'
    <3>1. CASE Keeps(server[c], y)
      BY <3>1, <1>11, <1>12, RetriedStays
    <3>2. CASE ~Keeps(server[c], y)
      BY <3>2, <1>10, <1>11, UnwantedIsRetried
    <3> QED BY <3>1, <3>2
  <2> QED BY <2>1, <2>2
<1>16. \/ Quiet(server[c], server'[c])
       \/ c <= made /\ \A q \in Waiting' : calls'[q].kind = "add" => calls'[q].of # c
  <2>1. CASE Quiet(server[c], y)
    BY <2>1, <1>11
  <2>2. CASE ~Quiet(server[c], y)
    <3>1. calls[s].kind \in {"add", "timer"}
      BY <2>2, <1>10
    <3> QED BY <3>1, <1>1, <1>2, AloneAtTheEnd
  <2> QED BY <2>1, <2>2
<1>17. \A c0 \in {registry', tracked'} : c0 # None => c0 <= made'
  BY <1>12 DEF IInv
<1> QED BY <1>11, <1>12, <1>13, <1>14, <1>15, <1>16, <1>17, StepLemma

\* Closing, with or without a removal or a registration behind it.
LEMMA CloseReturnsKeeps ==
    ASSUME IInv, NEW s \in Slots, CloseReturns(s)
    PROVE  IInv'
<1>1. s \in Waiting /\ calls[s].phase = "close" /\ calls[s] \in Call /\ Shape(s)
  BY WaitingIsCall DEF IInv, CloseReturns, At
<1>2. PICK c \in Clients : c = calls[s].on
  BY <1>1 DEF Call
<1>3. UNCHANGED <<registry, made, requests, drops>>
  BY DEF CloseReturns
<1> DEFINE z == Parted(server[c])
           y == [z EXCEPT !.managed = "disconnected"]
           after == [server EXCEPT ![c] = y]
<1>4. /\ Good(z) /\ Follows(server[c], z) /\ Quiet(server[c], z) /\ Keeps(server[c], z)
      /\ z.manual = server[c].manual
  BY GoodServers, PartedIs
<1>5. CASE calls[s].kind = "rest"
  <2>1. server' = [server EXCEPT ![c] = z] /\ End(s) /\ tracked' = tracked
    BY <1>2, <1>5 DEF CloseReturns
  <2> HIDE DEF z
  <2>2. /\ server' \in [Clients -> Server]
        /\ \A d \in Clients : Follows(server[d], server'[d]) /\ Quiet(server[d], server'[d])
                              /\ Keeps(server[d], server'[d])
    BY <1>4, <2>1, ServerChanges
  <2>3. /\ calls' \in [Slots -> Call \cup {Free}] /\ Waiting' \subseteq Waiting
        /\ \A q \in Waiting' : calls'[q] = calls[q]
    BY <2>1, CallsEnd DEF IInv
  <2>4. TypeOK'
    BY <1>3, <2>1, <2>2, <2>3 DEF IInv, TypeOK
  <2>5. \A d \in Clients : Retried(d)'
    BY <2>1, <2>2, RetriedStays
  <2>6. \A c0 \in {registry', tracked'} : c0 # None => c0 <= made'
    BY <1>3, <2>1 DEF IInv
  <2> QED BY <1>3, <2>2, <2>3, <2>4, <2>5, <2>6, StepLemma
<1> HIDE DEF z
<1>6. /\ y \in Server /\ y.status = z.status /\ y.link = z.link /\ y.open = z.open
      /\ y.timer = z.timer /\ y.timers = z.timers
      /\ y.manual = server[c].manual /\ y.subscribed = z.subscribed
  BY <1>4 DEF Good, Server, Statuses
<1> HIDE DEF y
<1>7. Good(y) /\ Follows(server[c], y) /\ Quiet(server[c], y)
  BY <1>4, <1>6 DEF Good, Follows, Quiet, Real, TimerIsSet, IdleTimers
<1>8. CASE calls[s].kind \in {"disconnect", "remove"}
  <2>1. server' = after /\ End(s) /\ tracked' \in {tracked, None}
    BY <1>2, <1>8 DEF CloseReturns, y, z
  <2>2. /\ server' \in [Clients -> Server] /\ server'[c] = y
        /\ \A d \in Clients : Follows(server[d], server'[d])
        /\ \A d \in Clients \ {c} : Quiet(server[d], server'[d]) /\ Keeps(server[d], server'[d])
    BY <1>7, <2>1, ServerChanges
  <2>3. /\ calls' \in [Slots -> Call \cup {Free}] /\ Waiting' \subseteq Waiting
        /\ \A q \in Waiting' : calls'[q] = calls[q]
    BY <2>1, CallsEnd DEF IInv
  <2>4. TypeOK'
    BY <1>3, <2>1, <2>2, <2>3 DEF IInv, TypeOK
  <2>5. \A d \in Clients : Retried(d)'
    <3>1. ~Wanted(y)
      BY <1>1, <1>2, <1>6, <1>8 DEF Shape, Wanted
    <3>2. Retried(c)'
      BY <2>2, <3>1, UnwantedIsRetried
    <3>3. \A d \in Clients \ {c} : Retried(d)'
      BY <2>1, <2>2, RetriedStays, Bounds
    <3> QED BY <3>2, <3>3
  <2>6. \A c0 \in {registry', tracked'} : c0 # None => c0 <= made'
    BY <1>3, <2>1 DEF IInv
  <2>7. \A d \in Clients : Quiet(server[d], server'[d])
    BY <1>7, <2>2
  <2> QED BY <1>3, <2>2, <2>3, <2>4, <2>5, <2>6, <2>7, StepLemma
<1>9. CASE calls[s].kind = "add"
  <2>1. PICK new \in Clients : new = calls[s].of
    BY <1>1 DEF Call
  <2>2. tracked' = new /\ ManagerConnects(s, "add", new, 1, after)
    BY <1>2, <1>9, <2>1 DEF CloseReturns, y, z
  <2>3. /\ after \in [Clients -> Server] /\ after[c] = y
        /\ \A d \in Clients \ {c} : after[d] = server[d]
    BY <1>7 DEF IInv, TypeOK, Good
  <2> HIDE DEF after
  <2>4. \A d \in Clients : /\ Good(after[d]) /\ Follows(server[d], after[d])
                           /\ Quiet(server[d], after[d])
    BY <1>7, <2>3, GoodServers DEF Good, Follows, Quiet
  <2>5. /\ server' \in [Clients -> Server] /\ \A d \in Clients \ {new} : server'[d] = after[d]
        /\ Follows(after[new], server'[new]) /\ Quiet(after[new], server'[new])
        /\ ~Wanted(server'[new])
        /\ \E call \in Call : /\ calls' = [calls EXCEPT ![s] = call]
                              /\ call.kind = "add" /\ call.of = new /\ call.on = new
                              /\ call.phase # "close"
    BY <2>2, <2>3, <2>4, ManagerConnectsIs, Bounds DEF IInv, Kinds
  <2>6. PICK call \in Call : /\ calls' = [calls EXCEPT ![s] = call]
                            /\ call.kind = "add" /\ call.of = new /\ call.on = new
                            /\ call.phase # "close"
    BY <2>5
  <2>7. /\ calls' \in [Slots -> Call \cup {Free}] /\ Waiting' = Waiting \cup {s}
        /\ calls'[s] = call /\ \A q \in Waiting' \ {s} : calls'[q] = calls[q]
    BY <2>6, CallGoesOn DEF IInv
  <2>8. \A d \in Clients : Follows(server[d], server'[d]) /\ Quiet(server[d], server'[d])
    BY <2>4, <2>5 DEF Follows, Quiet
  <2>9. TypeOK'
    BY <1>3, <2>2, <2>5, <2>7 DEF IInv, TypeOK
  <2>10. \A d \in Clients : Retried(d)'
    BY <2>2, <2>5, UnwantedIsRetried
  <2>11. new <= made
    BY <1>1, <2>1 DEF Shape
  <2>12. \A c0 \in {registry', tracked'} : c0 # None => c0 <= made'
    BY <1>3, <2>2, <2>11 DEF IInv
  <2>13. Shape(s)'
    BY <1>3, <2>6, <2>7, <2>11 DEF Shape
  <2>14. \A q \in Waiting' : \/ q \in Waiting /\ calls'[q] = calls[q]
                             \/ /\ q \in Waiting /\ Shape(q)'
                                /\ calls'[q].kind = calls[q].kind /\ calls'[q].of = calls[q].of
                                /\ calls[q].kind = "timer" => calls'[q].on = calls[q].on
    <3>1. SUFFICES ASSUME NEW q \in Waiting', q = s
                   PROVE  /\ q \in Waiting /\ Shape(q)'
                          /\ calls'[q].kind = calls[q].kind /\ calls'[q].of = calls[q].of
                          /\ calls[q].kind = "timer" => calls'[q].on = calls[q].on
      BY <1>1, <2>7
    <3> QED BY <3>1, <1>1, <1>9, <2>1, <2>6, <2>7, <2>13
  <2>15. Waiting' \ Waiting = {}
    BY <1>1, <2>7
  <2> QED BY <1>3, <2>8, <2>9, <2>10, <2>12, <2>14, <2>15, StepLemma
<1> QED BY <1>5, <1>8, <1>9 DEF CloseReturns

\* A transport is closed, by whoever closes it.
LEMMA LossKeeps ==
    ASSUME IInv, NEW c \in Clients, NEW l \in Links,
           server' = [server EXCEPT ![c] = Lost(@, l)], drops' \in 0..MaxDrops,
           UNCHANGED <<registry, tracked, made, calls, requests>>
    PROVE  IInv'
<1> DEFINE y == Lost(server[c], l)
<1>1. Follows(server[c], y) /\ Quiet(server[c], y) /\ Keeps(server[c], y)
  BY GoodServers, LostIs
<1>2. server' = [server EXCEPT ![c] = y]
  OBVIOUS
<1> HIDE DEF y
<1>3. /\ server' \in [Clients -> Server]
      /\ \A d \in Clients : Follows(server[d], server'[d]) /\ Quiet(server[d], server'[d])
                            /\ Keeps(server[d], server'[d])
  BY <1>1, <1>2, ServerChanges
<1>4. TypeOK'
  BY <1>3 DEF IInv, TypeOK
<1>5. \A d \in Clients : Retried(d)'
  BY <1>3, RetriedStays
<1>6. Waiting' = Waiting /\ \A q \in Waiting' : calls'[q] = calls[q]
  BY DEF Waiting
<1>7. \A c0 \in {registry', tracked'} : c0 # None => c0 <= made'
  BY DEF IInv
<1> QED BY <1>3, <1>4, <1>5, <1>6, <1>7, StepLemma

LEMMA TransportClosesKeeps ==
    ASSUME IInv, NEW s \in Slots, TransportCloses(s)
    PROVE  IInv'
<1>1. PICK c \in Clients : c = calls[s].on
  BY WaitingIsCall DEF TransportCloses, Call, IInv
<1>2. PICK l \in Links : l = calls[s].link
  BY <1>1 DEF TransportCloses, IInv, TypeOK, Server
<1>3. drops' \in 0..MaxDrops
  BY DEF TransportCloses, IInv, TypeOK
<1> QED BY <1>1, <1>2, <1>3, LossKeeps DEF TransportCloses

LEMMA ServerClosesKeeps ==
    ASSUME IInv, NEW c \in Clients, NEW l \in Links, ServerCloses(c, l)
    PROVE  IInv'
<1>1. drops' \in 0..MaxDrops
  BY Bounds DEF ServerCloses, IInv, TypeOK
<1> QED BY <1>1, LossKeeps DEF ServerCloses

LEMMA TimerFiresKeeps ==
    ASSUME IInv, NEW c \in Clients, NEW a \in Attempts, TimerFires(c, a)
    PROVE  IInv'
<1> DEFINE y == [server[c] EXCEPT !.timers[a] = @ - 1, !.timer = None]
           fired == [server EXCEPT ![c] = y]
<1>1. /\ server[c] \in Server /\ Good(server[c]) /\ server[c].timers \in [Attempts -> Nat]
      /\ server[c].timers[a] > 0
  BY GoodServers DEF IInv, TypeOK, TimerFires, Server
<1>2. [server[c].timers EXCEPT ![a] = @ - 1] \in [Attempts -> Nat]
  BY <1>1
<1>3. /\ y \in Server /\ y.timer = None /\ y.status = server[c].status /\ y.link = server[c].link
      /\ y.open = server[c].open /\ y.manual = server[c].manual
      /\ y.subscribed = server[c].subscribed
  BY <1>1, <1>2 DEF Server
<1>4. [server EXCEPT ![c].timers[a] = @ - 1, ![c].timer = None] = fired
  BY <1>1 DEF IInv, TypeOK
<1>5. UNCHANGED <<registry, tracked, made, requests, drops>> /\ Spare(1)
  BY DEF TimerFires
<1> HIDE DEF y
<1>6. ~IdleTimers(server[c])
  BY <1>1 DEF IdleTimers
<1>7. Good(y) /\ Follows(server[c], y) /\ Quiet(server[c], y)
  BY <1>1, <1>3, <1>6 DEF Good, Follows, Quiet, Real, TimerIsSet
<1>8. \A c0 \in {registry', tracked'} : c0 # None => c0 <= made'
  BY <1>5 DEF IInv
<1>9. CASE server[c].manual \/ tracked = None
  <2>1. server' = fired /\ calls' = calls
    BY <1>4, <1>9 DEF TimerFires
  <2>2. /\ server' \in [Clients -> Server] /\ server'[c] = y
        /\ \A d \in Clients : Follows(server[d], server'[d])
        /\ \A d \in Clients \ {c} : Quiet(server[d], server'[d]) /\ Keeps(server[d], server'[d])
    BY <1>7, <2>1, ServerChanges
  <2>3. TypeOK'
    BY <1>5, <2>1, <2>2 DEF IInv, TypeOK
  <2>4. \A d \in Clients : Retried(d)'
    <3>1. ~Wanted(y) \/ tracked' # c
      BY <1>3, <1>5, <1>9, Bounds DEF Wanted
    <3>2. Retried(c)'
      BY <2>2, <3>1, UnwantedIsRetried
    <3>3. \A d \in Clients \ {c} : Retried(d)'
      BY <1>5, <2>2, RetriedStays
    <3> QED BY <3>2, <3>3
  <2>5. Waiting' = Waiting /\ \A q \in Waiting' : calls'[q] = calls[q]
    BY <2>1 DEF Waiting
  <2>6. \A d \in Clients : Quiet(server[d], server'[d])
    BY <1>7, <2>2
  <2> QED BY <1>5, <1>8, <2>2, <2>3, <2>4, <2>5, <2>6, StepLemma
<1>10. CASE ~(server[c].manual \/ tracked = None)
  <2>1. ManagerConnects(Slot, "timer", c, a, fired)
    BY <1>4, <1>10 DEF TimerFires
  <2>2. fired \in [Clients -> Server] /\ fired[c] = y /\ \A d \in Clients \ {c} : fired[d] = server[d]
    BY <1>3 DEF IInv, TypeOK
  <2> HIDE DEF fired
  <2>3. PICK s \in Slots : s = Slot /\ s \notin Waiting
    BY <1>5, SpareIs
  <2>4. /\ server' \in [Clients -> Server] /\ \A d \in Clients \ {c} : server'[d] = fired[d]
        /\ Follows(fired[c], server'[c]) /\ Quiet(fired[c], server'[c])
        /\ ~Wanted(server'[c])
        /\ \E call \in Call : /\ calls' = [calls EXCEPT ![s] = call]
                              /\ call.kind = "timer" /\ call.of = c /\ call.on = c
                              /\ call.phase # "close"
    BY <1>7, <2>1, <2>2, <2>3, ManagerConnectsIs DEF IInv, Kinds
  <2>5. PICK call \in Call : /\ calls' = [calls EXCEPT ![s] = call]
                            /\ call.kind = "timer" /\ call.of = c /\ call.on = c
                            /\ call.phase # "close"
    BY <2>4
  <2>6. /\ calls' \in [Slots -> Call \cup {Free}] /\ Waiting' = Waiting \cup {s}
        /\ calls'[s] = call /\ \A q \in Waiting' \ {s} : calls'[q] = calls[q]
    BY <2>5, CallGoesOn DEF IInv
  <2>7. \A d \in Clients : Follows(server[d], server'[d]) /\ Quiet(server[d], server'[d])
    BY <1>7, <2>2, <2>4, GoodServers DEF Good, Follows, Quiet
  <2>8. TypeOK'
    BY <1>5, <2>4, <2>6 DEF IInv, TypeOK
  <2>9. \A d \in Clients : Retried(d)'
    <3>1. Retried(c)'
      BY <2>4, UnwantedIsRetried
    <3>2. \A d \in Clients \ {c} : Keeps(server[d], server'[d])
      BY <2>2, <2>4 DEF Keeps
    <3> QED BY <1>5, <3>1, <3>2, RetriedStays
  <2>10. c <= made
    <3>1. ~(c > made)
      BY <1>6 DEF IInv, Fresh
    <3> QED BY <3>1 DEF IInv, TypeOK, Clients
  <2>11. Shape(s)'
    BY <1>5, <2>5, <2>6, <2>10 DEF Shape
  <2>12. \A q \in Waiting' : \/ q \in Waiting /\ calls'[q] = calls[q]
                             \/ /\ q \notin Waiting /\ Shape(q)'
                                /\ ~IdleTimers(server[calls'[q].on]) /\ calls'[q].kind = "timer"
    <3>1. SUFFICES ASSUME NEW q \in Waiting', q = s
                   PROVE  /\ q \notin Waiting /\ Shape(q)'
                          /\ ~IdleTimers(server[calls'[q].on]) /\ calls'[q].kind = "timer"
      BY <2>6
    <3> QED BY <3>1, <1>6, <2>3, <2>5, <2>6, <2>11
  <2>13. \A p, q \in Waiting' \ Waiting : p = q
    BY <2>6
  <2> QED BY <1>5, <1>8, <2>7, <2>8, <2>9, <2>12, <2>13, StepLemma
<1> QED BY <1>9, <1>10

-----------------------------------------------------------------------------
(***************************************************************************)
(* Registrations, removals and requests: the calls that begin.             *)
(***************************************************************************)
LEMMA ClosingIs ==
    ASSUME TypeOK, NEW kind \in Kinds, NEW of \in Clients, NEW on \in Clients
    PROVE  /\ Closing(kind, of, on) \in Call /\ Closing(kind, of, on).kind = kind
           /\ Closing(kind, of, on).of = of /\ Closing(kind, of, on).on = on
           /\ Closing(kind, of, on).phase = "close"
<1>1. server[on].link \in Links \cup {None}
  BY DEF TypeOK, Server
<1> QED BY <1>1, Bounds DEF Closing, Call

\* One call begins that is not an attempt of a timer.
LEMMA CallBegins ==
    ASSUME IInv, NEW s \in Slots, s \notin Waiting, NEW call \in Call,
           calls' = [calls EXCEPT ![s] = call], call.kind # "timer",
           call.kind = "add" => call.of = made + 1 /\ made' = made + 1,
           Shape(s)',
           made' \in 0..MaxClients, made' \in {made, made + 1}, requests' \in 0..MaxRequests, drops' = drops,
           {registry', tracked'} \subseteq Clients \cup {None},
           \A c \in {registry', tracked'} : c # None => c <= made',
           server' \in [Clients -> Server],
           \A d \in Clients : Follows(server[d], server'[d]) /\ Quiet(server[d], server'[d]) /\ Retried(d)'
    PROVE  IInv'
<1>1. /\ calls' \in [Slots -> Call \cup {Free}] /\ Waiting' = Waiting \cup {s}
      /\ calls'[s] = call /\ \A q \in Waiting' \ {s} : calls'[q] = calls[q]
  BY CallGoesOn DEF IInv
<1>2. TypeOK'
  BY <1>1 DEF IInv, TypeOK
<1>3. \A q \in Waiting' : \/ q \in Waiting /\ calls'[q] = calls[q]
                          \/ /\ q \notin Waiting /\ Shape(q)' /\ calls'[q].kind # "timer"
                             /\ calls'[q].kind = "add" => calls'[q].of = made + 1 /\ made' = made + 1
  <2>1. SUFFICES ASSUME NEW q \in Waiting', q = s
                 PROVE  /\ q \notin Waiting /\ Shape(q)' /\ calls'[q].kind # "timer"
                        /\ calls'[q].kind = "add" => calls'[q].of = made + 1 /\ made' = made + 1
    BY <1>1
  <2> QED BY <2>1, <1>1
<1>4. \A p, q \in Waiting' \ Waiting : p = q
  BY <1>1
<1> QED BY <1>2, <1>3, <1>4, StepLemma

LEMMA UnregisterKeeps ==
    ASSUME IInv, Unregister
    PROVE  IInv'
<1>1. /\ registry' = None /\ requests' = requests + 1 /\ server' = Removing /\ Spare(1)
      /\ made' = made /\ drops' = drops /\ requests < MaxRequests
  BY DEF Unregister
<1>2. /\ server' \in [Clients -> Server]
      /\ \A d \in Clients : Follows(server[d], server'[d]) /\ Quiet(server[d], server'[d])
                            /\ Keeps(server[d], server'[d])
      /\ tracked # None => tracked \in Clients /\ server'[tracked].manual
  BY <1>1, RemovingIs
<1>3. made \in 0..MaxClients /\ requests' \in 0..MaxRequests
  BY <1>1, Bounds DEF IInv, TypeOK
<1>4. CASE RemoveWaits
  <2>1. PICK c \in Clients : c = tracked /\ c <= made /\ server'[c].manual
    BY <1>2, <1>4 DEF RemoveWaits, IInv
  <2>2. PICK s \in Slots : s = Slot /\ s \notin Waiting
    BY <1>1, SpareIs
  <2>3. PICK call \in Call : /\ calls' = [calls EXCEPT ![s] = call]
                             /\ call.kind = "remove" /\ call.of = c /\ call.on = c
                             /\ call.phase = "close"
    <3>1. calls' = [calls EXCEPT ![s] = Closing("remove", c, c)]
      BY <1>4, <2>1, <2>2 DEF Unregister
    <3>2. /\ Closing("remove", c, c) \in Call /\ Closing("remove", c, c).kind = "remove"
         /\ Closing("remove", c, c).of = c /\ Closing("remove", c, c).on = c
         /\ Closing("remove", c, c).phase = "close"
      <4>1. TypeOK /\ "remove" \in Kinds
        BY DEF IInv, Kinds
      <4> QED BY <4>1, ClosingIs
    <3> QED BY <3>1, <3>2
  <2>4. tracked' = tracked
    BY <1>4 DEF Unregister
  <2>5. calls'[s] = call
    BY <2>3, CallGoesOn DEF IInv
  <2>6. Shape(s)'
    BY <1>1, <2>1, <2>3, <2>5 DEF Shape
  <2>7. \A d \in Clients : Retried(d)'
    BY <1>2, <2>4, RetriedStays
  <2>8. \A d \in {registry', tracked'} : d # None => d <= made'
    BY <1>1, <2>1, <2>4
  <2>9. {registry', tracked'} \subseteq Clients \cup {None}
    BY <1>1, <2>1, <2>4
  <2> QED BY <1>1, <1>2, <1>3, <2>2, <2>3, <2>6, <2>7, <2>8, <2>9, CallBegins
<1>5. CASE ~RemoveWaits
  <2>1. tracked' = None /\ calls' = calls
    BY <1>5 DEF Unregister
  <2>2. TypeOK'
    BY <1>1, <1>2, <1>3, <2>1 DEF IInv, TypeOK
  <2>3. \A d \in Clients : Retried(d)'
    BY <2>1, UnwantedIsRetried, Bounds
  <2>4. Waiting' = Waiting /\ \A q \in Waiting' : calls'[q] = calls[q]
    BY <2>1 DEF Waiting
  <2> QED BY <1>1, <1>2, <2>1, <2>2, <2>3, <2>4, StepLemma
<1> QED BY <1>4, <1>5

LEMMA DisconnectAllKeeps ==
    ASSUME IInv, DisconnectAll
    PROVE  IInv'
<1>1. /\ requests' = requests + 1 /\ Spare(1) /\ requests < MaxRequests
      /\ UNCHANGED <<registry, tracked, made, drops>>
  BY DEF DisconnectAll
<1>2. PICK c \in Clients : c = tracked /\ c <= made
  BY DEF DisconnectAll, IInv, TypeOK
<1> DEFINE y == Manual(server[c])
<1>3. Follows(server[c], y) /\ Quiet(server[c], y) /\ y.manual = TRUE /\ ~Wanted(y)
  BY GoodServers, ManualIs
<1>4. server' = [server EXCEPT ![c] = y]
  BY <1>2 DEF DisconnectAll
<1> HIDE DEF y
<1>5. /\ server' \in [Clients -> Server] /\ server'[c] = y
      /\ \A d \in Clients : Follows(server[d], server'[d])
      /\ \A d \in Clients \ {c} : Quiet(server[d], server'[d]) /\ Keeps(server[d], server'[d])
  BY <1>3, <1>4, ServerChanges
<1>6. PICK s \in Slots : s = Slot /\ s \notin Waiting
  BY <1>1, SpareIs
<1>7. PICK call \in Call : /\ calls' = [calls EXCEPT ![s] = call]
                           /\ call.kind = "disconnect" /\ call.of = c /\ call.on = c
                           /\ call.phase = "close"
  <2>1. calls' = [calls EXCEPT ![s] = Closing("disconnect", c, c)]
    BY <1>2, <1>6 DEF DisconnectAll
  <2>2. /\ Closing("disconnect", c, c) \in Call /\ Closing("disconnect", c, c).kind = "disconnect"
       /\ Closing("disconnect", c, c).of = c /\ Closing("disconnect", c, c).on = c
       /\ Closing("disconnect", c, c).phase = "close"
    <3>1. TypeOK /\ "disconnect" \in Kinds
      BY DEF IInv, Kinds
    <3> QED BY <3>1, ClosingIs
  <2> QED BY <2>1, <2>2
<1>8. calls'[s] = call
  BY <1>7, CallGoesOn DEF IInv
<1>9. Shape(s)'
  BY <1>1, <1>2, <1>3, <1>5, <1>7, <1>8 DEF Shape
<1>10. \A d \in Clients : Retried(d)'
  <2>1. Retried(c)'
    BY <1>3, <1>5, UnwantedIsRetried
  <2> QED BY <2>1, <1>1, <1>5, RetriedStays
<1>11. \A d \in Clients : Quiet(server[d], server'[d])
  BY <1>3, <1>5
<1>12. /\ made' \in 0..MaxClients /\ requests' \in 0..MaxRequests
       /\ {registry', tracked'} \subseteq Clients \cup {None}
       /\ \A d \in {registry', tracked'} : d # None => d <= made'
  BY <1>1, Bounds DEF IInv, TypeOK
<1> QED BY <1>1, <1>5, <1>6, <1>7, <1>9, <1>10, <1>11, <1>12, CallBegins

LEMMA RestKeeps ==
    ASSUME IInv, RestConnect \/ RestDisconnect
    PROVE  IInv'
<1>1. /\ requests' = requests + 1 /\ Spare(1) /\ requests < MaxRequests
      /\ UNCHANGED <<registry, tracked, made, drops>>
  BY DEF RestConnect, RestDisconnect
<1>2. PICK c \in Clients : c = registry /\ c <= made
  BY DEF RestConnect, RestDisconnect, IInv, TypeOK
<1>3. PICK s \in Slots : s = Slot /\ s \notin Waiting
  BY <1>1, SpareIs
<1>4. /\ server' \in [Clients -> Server]
      /\ \A d \in Clients : Follows(server[d], server'[d]) /\ Quiet(server[d], server'[d])
                            /\ Keeps(server[d], server'[d])
      /\ \E call \in Call : /\ calls' = [calls EXCEPT ![s] = call]
                            /\ call.kind = "rest" /\ call.of = c /\ call.on = c
  <2>1. CASE RestConnect
    <3>1. Connect(s, "rest", c, 1, server)
      BY <1>2, <1>3, <2>1 DEF RestConnect
    <3>2. /\ server' \in [Clients -> Server] /\ \A d \in Clients \ {c} : server'[d] = server[d]
          /\ Follows(server[c], server'[c]) /\ Quiet(server[c], server'[c])
          /\ Keeps(server[c], server'[c])
          /\ \E call \in Call : /\ calls' = [calls EXCEPT ![s] = call]
                                /\ call.kind = "rest" /\ call.of = c /\ call.on = c
                                /\ call.phase # "close"
      BY <3>1, ConnectIs, GoodServers, Bounds DEF IInv, TypeOK, Kinds
    <3>3. \A d \in Clients \ {c} : /\ Follows(server[d], server'[d]) /\ Quiet(server[d], server'[d])
                                   /\ Keeps(server[d], server'[d])
      BY <3>2, GoodServers DEF Good, Follows, Quiet, Keeps
    <3> QED BY <3>2, <3>3
  <2>2. CASE RestDisconnect
    <3>1. server' = server
      BY <2>2 DEF RestDisconnect
    <3>2. \E call \in Call : /\ calls' = [calls EXCEPT ![s] = call]
                             /\ call.kind = "rest" /\ call.of = c /\ call.on = c
      <4>1. calls' = [calls EXCEPT ![s] = Closing("rest", c, c)]
        BY <1>2, <1>3, <2>2 DEF RestDisconnect
      <4>2. /\ Closing("rest", c, c) \in Call /\ Closing("rest", c, c).kind = "rest"
           /\ Closing("rest", c, c).of = c /\ Closing("rest", c, c).on = c
           /\ Closing("rest", c, c).phase = "close"
        <5>1. TypeOK /\ "rest" \in Kinds
          BY DEF IInv, Kinds
        <5> QED BY <5>1, ClosingIs
      <4> QED BY <4>1, <4>2
    <3> QED BY <3>1, <3>2, ServersStay
  <2> QED BY <2>1, <2>2
<1>5. PICK call \in Call : /\ calls' = [calls EXCEPT ![s] = call]
                           /\ call.kind = "rest" /\ call.of = c /\ call.on = c
  BY <1>4
<1>6. calls'[s] = call
  BY <1>5, CallGoesOn DEF IInv
<1>7. Shape(s)'
  BY <1>1, <1>2, <1>5, <1>6 DEF Shape
<1>8. \A d \in Clients : Retried(d)'
  BY <1>1, <1>4, RetriedStays
<1>9. /\ made' \in 0..MaxClients /\ requests' \in 0..MaxRequests
      /\ {registry', tracked'} \subseteq Clients \cup {None}
      /\ \A d \in {registry', tracked'} : d # None => d <= made'
  BY <1>1, Bounds DEF IInv, TypeOK
<1> QED BY <1>1, <1>3, <1>4, <1>5, <1>7, <1>8, <1>9, CallBegins

LEMMA RegisterKeeps ==
    ASSUME IInv, Register
    PROVE  IInv'
<1>1. PICK c \in Clients : /\ c = made + 1 /\ made' = c /\ registry' = c /\ c > made
                           /\ requests' = requests /\ drops' = drops /\ Spare(2)
  BY Bounds DEF Register, IInv, TypeOK, Clients
<1>2. /\ Removing \in [Clients -> Server]
      /\ \A d \in Clients : /\ Good(Removing[d]) /\ Follows(server[d], Removing[d])
                            /\ Quiet(server[d], Removing[d]) /\ Keeps(server[d], Removing[d])
      /\ tracked # None => tracked \in Clients /\ Removing[tracked].manual
  BY RemovingIs
<1>3. /\ made \in Nat /\ made' \in 0..MaxClients /\ requests' \in 0..MaxRequests
      /\ \A d : d \in Clients /\ d <= made => d <= made'
  BY <1>1, Bounds DEF IInv, TypeOK, Clients
<1>4. PICK s \in Slots : s = Slot /\ s \notin Waiting
  BY <1>1, TwoAreSpare, SpareIs
<1>5. TypeOK /\ "add" \in Kinds /\ "remove" \in Kinds
  BY DEF IInv, Kinds
<1>6. CASE RemoveWaits
  <2>1. PICK b \in Clients : b = tracked /\ b <= made /\ Removing[b].manual
    BY <1>2, <1>6 DEF RemoveWaits, IInv
  <2>2. server' = Removing /\ tracked' = tracked
    BY <1>6 DEF Register
  <2>3. \A d \in Clients : Retried(d)'
    BY <1>2, <2>2, RetriedStays
  <2>4. PICK add \in Call : /\ add = Closing("add", c, b) /\ add.kind = "add" /\ add.of = c
                            /\ add.on = b /\ add.phase = "close"
    BY <1>5, ClosingIs
  <2>5. /\ {registry', tracked'} \subseteq Clients \cup {None}
        /\ \A d \in {registry', tracked'} : d # None => d <= made'
    BY <1>1, <1>3, <2>1, <2>2
  <2>6. CASE calls' = [calls EXCEPT ![s] = add]
    <3>1. calls'[s] = add
      BY <2>6, CallGoesOn, <1>5
    <3>2. Shape(s)'
      BY <1>1, <1>3, <2>1, <2>2, <2>4, <3>1 DEF Shape
    <3> QED BY <1>1, <1>2, <1>3, <1>4, <2>2, <2>3, <2>4, <2>5, <2>6, <3>2, CallBegins
  <2>7. CASE calls' # [calls EXCEPT ![s] = add]
    <3>1. PICK r \in Slots : /\ r = CHOOSE q \in Slots \ {Slot} : q \notin Waiting
                             /\ r # s /\ r \notin Waiting
      BY <1>1, <1>4, TwoAreSpare
    <3>2. PICK remove \in Call : /\ remove = Closing("remove", b, b) /\ remove.kind = "remove"
                                 /\ remove.of = b /\ remove.on = b /\ remove.phase = "close"
      BY <1>5, ClosingIs
    <3>3. PICK behind \in Call : /\ behind = [add EXCEPT !.first = FALSE] /\ behind.kind = "add"
                                 /\ behind.of = c /\ behind.on = b /\ behind.phase = "close"
      <4>1. /\ [add EXCEPT !.first = FALSE] \in Call /\ [add EXCEPT !.first = FALSE].kind = add.kind
            /\ [add EXCEPT !.first = FALSE].of = add.of /\ [add EXCEPT !.first = FALSE].on = add.on
            /\ [add EXCEPT !.first = FALSE].phase = add.phase
        BY DEF Call
      <4> QED BY <4>1, <2>4
    <3>4. calls' = [calls EXCEPT ![s] = remove, ![r] = behind]
      BY <1>1, <1>4, <1>6, <2>1, <2>4, <2>7, <3>1, <3>2, <3>3 DEF Register
    <3>5. remove # Free /\ behind # Free
      BY DEF Call, Free
    <3>6. /\ calls' \in [Slots -> Call \cup {Free}] /\ Waiting' = Waiting \cup {s, r}
          /\ calls'[s] = remove /\ calls'[r] = behind
          /\ \A q \in Waiting' \ {s, r} : calls'[q] = calls[q]
      BY <1>5, <3>1, <3>4, <3>5 DEF TypeOK, Waiting
    <3>7. Shape(s)' /\ Shape(r)'
      BY <1>1, <1>3, <2>1, <2>2, <3>2, <3>3, <3>6 DEF Shape
    <3>8. TypeOK'
      BY <1>1, <1>2, <1>3, <2>2, <2>5, <3>6 DEF IInv, TypeOK
    <3>9. \A q \in Waiting' :
             \/ q \in Waiting /\ calls'[q] = calls[q]
             \/ /\ q \notin Waiting /\ Shape(q)' /\ calls'[q].kind # "timer"
                /\ calls'[q].kind = "add" => calls'[q].of = made + 1 /\ made' = made + 1
      <4>1. SUFFICES ASSUME NEW q \in {s, r}
                     PROVE  /\ q \notin Waiting /\ Shape(q)' /\ calls'[q].kind # "timer"
                            /\ calls'[q].kind = "add" => calls'[q].of = made + 1 /\ made' = made + 1
        BY <3>6
      <4>2. CASE q = s
        BY <4>2, <1>4, <3>2, <3>6, <3>7
      <4>3. CASE q = r
        BY <4>3, <1>1, <3>1, <3>3, <3>6, <3>7
      <4> QED BY <4>2, <4>3
    <3>10. \A p, q \in Waiting' \ Waiting : calls'[p].kind = "add" /\ calls'[q].kind = "add" => p = q
      BY <3>2, <3>6
    <3> QED BY <1>1, <1>2, <2>2, <2>3, <2>5, <3>8, <3>9, <3>10, StepLemma
  <2> QED BY <2>6, <2>7
<1>7. CASE ~RemoveWaits
  <2>1. tracked' = c /\ ManagerConnects(s, "add", c, 1, Removing)
    BY <1>1, <1>4, <1>7 DEF Register
  <2>2. /\ server' \in [Clients -> Server] /\ \A d \in Clients \ {c} : server'[d] = Removing[d]
        /\ Follows(Removing[c], server'[c]) /\ Quiet(Removing[c], server'[c])
        /\ ~Wanted(server'[c])
        /\ \E call \in Call : /\ calls' = [calls EXCEPT ![s] = call]
                              /\ call.kind = "add" /\ call.of = c /\ call.on = c
                              /\ call.phase # "close"
    BY <1>2, <1>5, <2>1, ManagerConnectsIs, Bounds
  <2>3. PICK call \in Call : /\ calls' = [calls EXCEPT ![s] = call]
                             /\ call.kind = "add" /\ call.of = c /\ call.on = c
                             /\ call.phase # "close"
    BY <2>2
  <2>4. calls'[s] = call
    BY <2>3, CallGoesOn, <1>5
  <2>5. \A d \in Clients : Follows(server[d], server'[d]) /\ Quiet(server[d], server'[d])
    BY <1>2, <2>2 DEF Follows, Quiet
  <2>6. \A d \in Clients : Retried(d)'
    BY <2>1, <2>2, UnwantedIsRetried
  <2>7. c <= made'
    BY <1>1 DEF Clients
  <2>8. Shape(s)'
    BY <2>3, <2>4, <2>7 DEF Shape
  <2>9. /\ {registry', tracked'} \subseteq Clients \cup {None}
        /\ \A d \in {registry', tracked'} : d # None => d <= made'
    BY <1>1, <2>1, <2>7
  <2> QED BY <1>1, <1>3, <1>4, <2>2, <2>3, <2>5, <2>6, <2>8, <2>9, CallBegins
<1> QED BY <1>6, <1>7

-----------------------------------------------------------------------------
(***************************************************************************)
(* The invariant.                                                          *)
(***************************************************************************)
LEMMA InitHolds == Init => IInv
<1> SUFFICES ASSUME Init PROVE IInv
  OBVIOUS
<1>1. /\ NewServer \in Server /\ Real(NewServer) /\ TimerIsSet(NewServer)
      /\ ~NewServer.subscribed /\ IdleTimers(NewServer)
  BY DEF NewServer, Server, Statuses, Real, TimerIsSet, IdleTimers
<1>2. Waiting = {} /\ \A c \in Clients : server[c] = NewServer
  BY DEF Init, Waiting
<1> HIDE DEF NewServer
<1>3. TypeOK
  BY <1>1, Bounds DEF Init, TypeOK
<1>4. \A c \in Clients : Real(server[c]) /\ TimerIsSet(server[c]) /\ Retried(c) /\ Fresh(c)
  BY <1>1, <1>2 DEF Retried, Fresh, Wanted
<1> QED BY <1>2, <1>3, <1>4 DEF Init, IInv, AddedOnce

LEMMA StutterKeeps ==
    ASSUME IInv, UNCHANGED vars
    PROVE  IInv'
<1>1. UNCHANGED <<registry, tracked, server, made, calls, requests, drops>>
  BY DEF vars
<1>2. Waiting' = Waiting /\ \A q \in Waiting' : calls'[q] = calls[q]
  BY <1>1 DEF Waiting
<1>3. TypeOK'
  BY <1>1 DEF IInv, TypeOK
<1>4. \A d \in Clients : /\ Follows(server[d], server'[d]) /\ Quiet(server[d], server'[d])
                         /\ Keeps(server[d], server'[d])
  BY <1>1, ServersStay
<1>5. \A d \in Clients : Retried(d)'
  BY <1>1, <1>4, RetriedStays
<1>6. \A c \in {registry', tracked'} : c # None => c <= made'
  BY <1>1 DEF IInv
<1> QED BY <1>1, <1>2, <1>3, <1>4, <1>5, <1>6, StepLemma

LEMMA StepKeeps == IInv /\ [Next]_vars => IInv'
<1> SUFFICES ASSUME IInv, [Next]_vars PROVE IInv'
  OBVIOUS
<1>1. ASSUME NEW s \in Slots, Answers(s) PROVE IInv'
  BY <1>1, ReclosedKeeps, SucceedKeeps, HandshakeFailsKeeps, CloseReturnsKeeps, TransportClosesKeeps
     DEF Answers
<1>2. ASSUME NEW c \in Clients, NEW a \in Attempts, TimerFires(c, a) PROVE IInv'
  BY <1>2, TimerFiresKeeps
<1>3. ASSUME NEW c \in Clients, NEW l \in Links, ServerCloses(c, l) PROVE IInv'
  BY <1>3, ServerClosesKeeps
<1>4. CASE Register \/ Unregister \/ DisconnectAll \/ RestConnect \/ RestDisconnect
  BY <1>4, RegisterKeeps, UnregisterKeeps, DisconnectAllKeeps, RestKeeps
<1>5. CASE UNCHANGED vars
  BY <1>5, StutterKeeps
<1> QED BY <1>1, <1>2, <1>3, <1>4, <1>5 DEF Next

LEMMA Invariance == Spec => []IInv
  BY InitHolds, StepKeeps, PTL DEF Spec

-----------------------------------------------------------------------------
\* However connects, disconnects, drops and registrations overlap, a client that says it
\* is connected has its own transport open, and a connection that the manager shows as
\* lost is being retried, unless it gave up or was told to disconnect.
THEOREM StatusStaysHonest == Spec => []StatusIsHonest
<1>1. IInv => StatusIsHonest
  <2> SUFFICES ASSUME IInv PROVE StatusIsHonest
    OBVIOUS
  <2>1. ConnectedIsReal
    BY DEF IInv, Real, ConnectedIsReal
  <2>2. LostIsRetried
    <3>1. SUFFICES ASSUME NEW c \in Clients, tracked = c, server[c].subscribed, ~server[c].manual,
                          server[c].managed \in {"disconnected", "error"}, ~server[c].gaveUp
                   PROVE  \E a \in Attempts : server[c].timers[a] > 0
      BY DEF LostIsRetried
    <3>2. ~IdleTimers(server[c])
      BY <3>1 DEF IInv, Retried, Wanted
    <3>3. server[c].timers \in [Attempts -> Nat]
      BY DEF IInv, TypeOK, Server
    <3> QED BY <3>2, <3>3 DEF IdleTimers
  <2> QED BY <2>1, <2>2 DEF IInv, StatusIsHonest
<1>2. Spec => []IInv
  BY Invariance
<1> QED BY <1>1, <1>2, PTL

\* No step, whichever timers were forgotten and whatever attempt is under way, starts an
\* attempt of a timer on a client the manager was told to disconnect or to remove.
THEOREM NoRetryAfterwards == Spec => NoRetryOnceDisconnected
<1>1. IInv /\ [Next]_vars =>
        [\A s \in Slots : calls[s] = Free /\ calls'[s] # Free /\ calls'[s].kind = "timer"
           => ~server[calls'[s].on].manual]_vars
  <2> SUFFICES ASSUME IInv, Next, NEW s \in Slots, calls[s] = Free, calls'[s] # Free,
                      calls'[s].kind = "timer"
               PROVE  ~server[calls'[s].on].manual
    OBVIOUS
  <2>1. s \notin Waiting /\ TypeOK /\ {"add", "remove", "disconnect", "rest", "timer"} = Kinds
    BY DEF Waiting, IInv, Kinds
  <2>2. ASSUME NEW q \in Slots, Answers(q) PROVE FALSE
    <3>1. q \in Waiting /\ q # s
      BY <2>1, <2>2 DEF Answers, Reclosed, Succeed, HandshakeFails, CloseReturns, TransportCloses, At
    <3>2. calls'[s] = calls[s]
      <4>1. CASE Reclosed(q) \/ Succeed(q) \/ HandshakeFails(q) \/ TransportCloses(q)
        BY <3>1, <4>1, <2>1 DEF Reclosed, Succeed, HandshakeFails, TransportCloses, End, TypeOK
      <4>2. CASE CloseReturns(q)
        BY <3>1, <4>2, <2>1 DEF CloseReturns, ManagerConnects, Connect, End, TypeOK
      <4> QED BY <2>2, <4>1, <4>2 DEF Answers
    <3> QED BY <3>2
  <2>3. ASSUME NEW c \in Clients, NEW a \in Attempts, TimerFires(c, a)
        PROVE  ~server[calls'[s].on].manual
    <3>1. calls' # calls
      OBVIOUS
    <3>2. /\ ~server[c].manual
          /\ ManagerConnects(Slot, "timer", c, a,
                             [server EXCEPT ![c].timers[a] = @ - 1, ![c].timer = None])
      BY <2>3, <3>1 DEF TimerFires
    <3>3. s = Slot /\ calls'[s].on = c
      BY <2>1, <3>2 DEF ManagerConnects, Connect, Closing, TypeOK
    <3> QED BY <3>2, <3>3
  <2>4. ASSUME NEW c \in Clients, NEW l \in Links, ServerCloses(c, l) PROVE FALSE
    BY <2>4 DEF ServerCloses
  <2>5. \A q, call : calls' = [calls EXCEPT ![q] = call] => calls'[s] = call
    BY <2>1 DEF TypeOK
  <2>6. CASE Register
    <3>1. CASE RemoveWaits
      <4>1. CASE calls' = [calls EXCEPT ![Slot] = Closing("add", made + 1, tracked)]
        <5>1. calls'[s] = Closing("add", made + 1, tracked)
          BY <4>1, <2>5
        <5> QED BY <5>1 DEF Closing
      <4>2. CASE calls' # [calls EXCEPT ![Slot] = Closing("add", made + 1, tracked)]
        <5>1. PICK q : q = CHOOSE p \in Slots \ {Slot} : p \notin Waiting
          OBVIOUS
        <5>2. calls' = [calls EXCEPT ![Slot] = Closing("remove", tracked, tracked),
                                     ![q] = [Closing("add", made + 1, tracked) EXCEPT !.first = FALSE]]
          BY <2>6, <3>1, <4>2, <5>1 DEF Register
        <5>3. \/ calls'[s] = Closing("remove", tracked, tracked)
              \/ calls'[s] = [Closing("add", made + 1, tracked) EXCEPT !.first = FALSE]
          BY <5>2, <2>1 DEF TypeOK
        <5>4. Closing("remove", tracked, tracked).kind = "remove"
          BY DEF Closing
        <5>5. [Closing("add", made + 1, tracked) EXCEPT !.first = FALSE].kind = "add"
          BY DEF Closing
        <5>6. calls'[s].kind = "remove" \/ calls'[s].kind = "add"
          BY <5>3, <5>4, <5>5
        <5>7. calls'[s].kind = "timer"
          OBVIOUS
        <5> QED BY <5>6, <5>7
      <4> QED BY <4>1, <4>2
    <3>2. CASE ~RemoveWaits
      <4>1. ManagerConnects(Slot, "add", made + 1, 1, Removing)
        BY <2>6, <3>2 DEF Register
      <4>2. calls'[s].kind = "add"
        BY <4>1, <2>1 DEF ManagerConnects, Connect, Closing, TypeOK
      <4> QED BY <4>2
    <3> QED BY <3>1, <3>2
  <2>7. CASE Unregister
    <3>1. calls' = [calls EXCEPT ![Slot] = Closing("remove", tracked, tracked)]
      BY <2>7 DEF Unregister
    <3>2. calls'[s] = Closing("remove", tracked, tracked)
      BY <3>1, <2>5
    <3> QED BY <3>2 DEF Closing
  <2>8. CASE DisconnectAll
    <3>1. calls'[s] = Closing("disconnect", tracked, tracked)
      BY <2>5, <2>8 DEF DisconnectAll
    <3> QED BY <3>1 DEF Closing
  <2>9. CASE RestConnect
    <3>1. calls'[s].kind = "rest"
      BY <2>1, <2>9 DEF RestConnect, Connect, Closing, TypeOK
    <3> QED BY <3>1
  <2>10. CASE RestDisconnect
    <3>1. calls'[s] = Closing("rest", registry, registry)
      BY <2>5, <2>10 DEF RestDisconnect
    <3> QED BY <3>1 DEF Closing
  <2> QED BY <2>2, <2>3, <2>4, <2>6, <2>7, <2>8, <2>9, <2>10 DEF Next
<1>2. Spec => [][Next]_vars
  BY DEF Spec
<1> QED BY <1>1, <1>2, Invariance, PTL DEF NoRetryOnceDisconnected

-----------------------------------------------------------------------------
(***************************************************************************)
(* The invariant.                                                          *)
(***************************************************************************)
Lists == {list \in Seq(Entry) : \A i, j \in DOMAIN list : list[i].id = list[j].id => i = j}

Events == {<<>>, <<"upsert">>, <<"unlink">>, <<"unlink", "upsert">>}

Handlers ==
    [file : {AgentsFile}, seen : Lists, late : BOOLEAN]
        \cup [file : Skills, seen : 0..2, late : BOOLEAN]
        \cup [file : Flows, seen : [Flows -> 0..2], late : BOOLEAN]

Ops ==
    [kind : {"part"}, name : Parts, version : Versions]
        \cup {o \in [kind : {"put"}, entry : Entry, fresh : BOOLEAN, seen : Lists, agent : Agent] :
                  o.fresh \/ o.entry.id \in Ids(o.seen)}
        \cup {o \in [kind : {"delete"}, name : Agents, seen : Lists] : o.name \in Ids(o.seen)}
        \cup {o \in [kind : {"rewire"}, name : Agents, seen : Lists, flows : SUBSET Flows] :
                  o.name \in Ids(o.seen)}

OpsFit == changes \in Nat /\ DOMAIN ops \subseteq 1..changes /\ \A i \in DOMAIN ops : ops[i] \in Ops

FilesFit ==
    /\ entries \in Lists /\ half \in BOOLEAN /\ content \in [Parts -> 0..3]
    /\ pending \in [Files -> Events] /\ handlers \in Seq(Handlers) /\ OpsFit

AreAgents(as) == DOMAIN as \subseteq Agents /\ \A a \in DOMAIN as : as[a] \in Agent

RegistriesFit ==
    /\ registries \in [Parts -> 0..2] /\ built \in Nat
    /\ AreAgents(agents)
    /\ DOMAIN prints = Names
    /\ \A a \in Agents : prints[a] \in {NoPrint} \cup Entry
    /\ \A p \in Parts : prints[p] \in {NoPrint} \cup Versions
    /\ unseen \subseteq Names /\ severed \subseteq Names /\ raced \in BOOLEAN

\* A request is writing the file, and nothing has been written yet.
Writing(p) == \E i \in DOMAIN ops : ops[i].kind = "part" /\ ops[i].name = p
Unsettled(p) == Writing(p) /\ content[p] = Torn

\* What is emitted of a file is what became of it.
AgentsEvent == pending[AgentsFile] = <<"unlink">> => entries = <<>>
PartEvent(p) ==
    pending[p] # <<>> =>
        /\ Last(pending[p]) = "upsert" => content[p] # Missing
        /\ Last(pending[p]) = "unlink" => content[p] \in {Missing, Torn}
EventsAreTrue == AgentsEvent /\ \A p \in Parts : PartEvent(p)

\* A fingerprint is that of what is registered.
PrintTrue(n) ==
    prints[n] # NoPrint =>
        IF n \in Parts THEN registries[n] = prints[n]
        ELSE n \in DOMAIN agents /\ agents[n].text = prints[n].text
PrintsAreTrue == \A n \in Names \ unseen : PrintTrue(n)

\* The handler that was called last, of those of an updater.
IsLast(i, F) ==
    /\ i \in DOMAIN handlers /\ handlers[i].file \in F
    /\ \A j \in DOMAIN handlers : j > i => handlers[j].file \notin F
LastSeen(F) == {handlers[i].seen : i \in {j \in DOMAIN handlers : IsLast(j, F)}}
AllLate(F) == \A i \in DOMAIN handlers : handlers[i].file \in F => handlers[i].late

AgentAgrees(a) ==
    /\ a \in DOMAIN agents <=> a \in Ids(entries)
    /\ a \in DOMAIN agents => agents[a].text = EntryOf(entries, a).text

\* When no event is to come, the last handler has read what the file says; or it has been
\* applied, and those before it come too late; as long as the file can be read.
AgentsFollow ==
    ~raced /\ ~half /\ pending[AgentsFile] = <<>> =>
        \/ entries \in LastSeen({AgentsFile})
        \/ AllLate({AgentsFile}) /\ \A a \in Agents \ unseen : AgentAgrees(a)

SkillFollows(s) ==
    ~raced /\ pending[s] = <<>> /\ content[s] # Torn =>
        \/ content[s] \in LastSeen({s}) /\ content[s] \in Versions
        \/ AllLate({s}) /\ (s \notin unseen => registries[s] = Readable(s))

FlowFollows(f) ==
    ~raced /\ pending[f] = <<>> /\ ~Unsettled(f) =>
        \/ \E seen \in LastSeen(Flows) : seen[f] = Readable(f)
        \/ AllLate(Flows) /\ (f \notin unseen => registries[f] \in {Missing, Readable(f)})

\* What agents hold is what is registered, at all times.
HeldIsTrue ==
    ~raced => \A a \in DOMAIN agents :
        /\ \A p \in Parts \ (severed \cup unseen) : agents[a].holds[p] \in {Missing, registries[p]}
        /\ \A b \in Agents \ severed :
              \/ agents[a].holds[b] = Missing
              \/ b \in DOMAIN agents /\ agents[a].holds[b] = agents[b].object

ReloadInv ==
    /\ FilesFit /\ RegistriesFit /\ EventsAreTrue /\ PrintsAreTrue
    /\ AgentsFollow /\ (\A s \in Skills : SkillFollows(s)) /\ (\A f \in Flows : FlowFollows(f))
    /\ HeldIsTrue

-----------------------------------------------------------------------------
(***************************************************************************)
(* Names, sequences and lists of entries.                                  *)
(***************************************************************************)
LEMMA NamesAre ==
    /\ AgentsFile \notin Parts
    /\ \A p \in Parts : p \in Names /\ p \notin Agents /\ p \in Files /\ p # AgentsFile
    /\ \A a \in Agents : a \in Names /\ a \notin Parts
    /\ \A s \in Skills : s \notin Flows /\ s \in Parts
    /\ \A f \in Flows : f \notin Skills /\ f \in Parts
  BY ConfigReloadAssumption DEF Parts, Names, Files

LEMMA RemoveAtIs ==
  ASSUME NEW T, NEW s \in Seq(T), NEW i \in 1..Len(s)
  PROVE  /\ RemoveAt(s, i) \in Seq(T) /\ Len(RemoveAt(s, i)) = Len(s) - 1
         /\ \A j \in 1..Len(s) - 1 : RemoveAt(s, i)[j] = IF j < i THEN s[j] ELSE s[j + 1]
<1>. DEFINE front == SubSeq(s, 1, i - 1)
            back == SubSeq(s, i + 1, Len(s))
<1>1. Len(s) \in Nat
  BY LenProperties
<1>2. front \in Seq(T) /\ Len(front) = i - 1 /\ \A j \in 1..i - 1 : front[j] = s[j]
  <2>1. \A j \in 1..i - 1 : s[j] \in T
    BY <1>1, ElementOfSeq
  <2>. QED  BY <1>1, <2>1, SubSeqProperties
<1>3. back \in Seq(T) /\ Len(back) = Len(s) - i /\ \A j \in 1..Len(s) - i : back[j] = s[i + j]
  <2>1. \A j \in i + 1..Len(s) : s[j] \in T
    BY <1>1, ElementOfSeq
  <2>. QED  BY <1>1, <2>1, SubSeqProperties
<1>. HIDE DEF front, back
<1>4. /\ front \o back \in Seq(T) /\ Len(front \o back) = Len(front) + Len(back)
      /\ \A j \in 1..Len(front) + Len(back) :
            (front \o back)[j] = IF j <= Len(front) THEN front[j] ELSE back[j - Len(front)]
  BY <1>2, <1>3, ConcatProperties
<1>5. RemoveAt(s, i) = front \o back
  BY DEF RemoveAt, front, back
<1>6. ASSUME NEW j \in 1..Len(s) - 1
      PROVE  (front \o back)[j] = IF j < i THEN s[j] ELSE s[j + 1]
  <2>1. CASE j < i
    <3>1. j \in 1..Len(front) + Len(back) /\ j <= Len(front) /\ j \in 1..i - 1
      BY <1>1, <1>2, <1>3, <2>1
    <3>. QED  BY <1>2, <1>4, <2>1, <3>1
  <2>2. CASE ~(j < i)
    <3>1. /\ j \in 1..Len(front) + Len(back) /\ ~(j <= Len(front))
          /\ j - Len(front) \in 1..Len(s) - i /\ i + (j - Len(front)) = j + 1
      BY <1>1, <1>2, <1>3, <2>2
    <3>. QED  BY <1>3, <1>4, <2>2, <3>1
  <2>. QED  BY <2>1, <2>2
<1>. QED  BY <1>1, <1>2, <1>3, <1>4, <1>5, <1>6

LEMMA PlaceIsOne ==
  ASSUME NEW list \in Lists, NEW a \in Ids(list)
  PROVE  /\ PlaceOf(list, a) \in 1..Len(list) /\ list[PlaceOf(list, a)].id = a
         /\ EntryOf(list, a) \in Entry /\ EntryOf(list, a).id = a
         /\ \A i \in DOMAIN list : list[i].id = a => i = PlaceOf(list, a)
<1>1. list \in Seq(Entry) /\ DOMAIN list = 1..Len(list)
  BY LenProperties DEF Lists
<1>2. \E i \in DOMAIN list : list[i].id = a
  BY DEF Ids
<1>3. PlaceOf(list, a) \in DOMAIN list /\ list[PlaceOf(list, a)].id = a
  BY <1>2 DEF PlaceOf
<1>4. EntryOf(list, a) \in Entry
  BY <1>1, <1>3, ElementOfSeq DEF EntryOf
<1>. QED  BY <1>1, <1>3, <1>4 DEF EntryOf, Lists

LEMMA IdsAreAgents ==
  ASSUME NEW list \in Lists
  PROVE  Ids(list) \subseteq Agents
<1>1. \A i \in DOMAIN list : list[i] \in Entry
  BY ElementOfSeq DEF Lists
<1>. QED  BY <1>1 DEF Ids, Entry

LEMMA PutIsList ==
  ASSUME NEW list \in Lists, NEW e \in Entry
  PROVE  Put(list, e) \in Lists
<1>1. list \in Seq(Entry) /\ DOMAIN list = 1..Len(list) /\ Len(list) \in Nat
  BY LenProperties DEF Lists
<1>2. \A i \in 1..Len(list) : list[i] \in Entry
  BY <1>1, ElementOfSeq
<1>3. CASE e.id \in Ids(list)
  <2>. DEFINE r == [i \in DOMAIN list |-> IF list[i].id = e.id THEN e ELSE list[i]]
  <2>1. Put(list, e) = r
    BY <1>3 DEF Put
  <2>2. r \in [1..Len(list) -> Entry]
    BY <1>1, <1>2
  <2>3. r \in Seq(Entry)
    BY <1>1, <2>2, SeqDef
  <2>4. \A i \in DOMAIN list : r[i].id = list[i].id
    OBVIOUS
  <2>5. \A i, j \in DOMAIN r : r[i].id = r[j].id => i = j
    BY <2>4 DEF Lists
  <2>. HIDE DEF r
  <2>. QED  BY <2>1, <2>3, <2>5 DEF Lists
<1>4. CASE e.id \notin Ids(list)
  <2>. DEFINE r == Append(list, e)
  <2>1. Put(list, e) = r
    BY <1>4 DEF Put
  <2>2. /\ r \in Seq(Entry) /\ Len(r) = Len(list) + 1 /\ r[Len(list) + 1] = e
        /\ \A i \in 1..Len(list) : r[i] = list[i]
    BY <1>1, AppendProperties
  <2>3. DOMAIN r = 1..Len(list) + 1
    BY <2>2, LenProperties
  <2>4. \A i \in 1..Len(list) : list[i].id # e.id
    BY <1>1, <1>4 DEF Ids
  <2>. HIDE DEF r
  <2>5. ASSUME NEW i \in DOMAIN r, NEW j \in DOMAIN r, r[i].id = r[j].id  PROVE i = j
    <3>1. (i \in 1..Len(list) \/ i = Len(list) + 1) /\ (j \in 1..Len(list) \/ j = Len(list) + 1)
      BY <1>1, <2>3
    <3>. QED  BY <1>1, <2>2, <2>4, <2>5, <3>1 DEF Lists
  <2>. QED  BY <2>1, <2>2, <2>5 DEF Lists
<1>. QED  BY <1>3, <1>4

LEMMA WithoutIsList ==
  ASSUME NEW list \in Lists, NEW a \in Ids(list)
  PROVE  Without(list, a) \in Lists
<1>. DEFINE i == PlaceOf(list, a)
            r == RemoveAt(list, i)
<1>1. list \in Seq(Entry) /\ DOMAIN list = 1..Len(list) /\ Len(list) \in Nat
  BY LenProperties DEF Lists
<1>2. i \in 1..Len(list)
  BY PlaceIsOne
<1>3. Without(list, a) = r
  BY DEF Without
<1>. HIDE DEF i
<1>4. /\ r \in Seq(Entry) /\ Len(r) = Len(list) - 1
      /\ \A j \in 1..Len(list) - 1 : r[j] = IF j < i THEN list[j] ELSE list[j + 1]
  BY <1>1, <1>2, RemoveAtIs
<1>5. DOMAIN r = 1..Len(list) - 1
  BY <1>4, LenProperties
<1>. DEFINE at(j) == IF j < i THEN j ELSE j + 1
<1>6. \A j \in 1..Len(list) - 1 : at(j) \in DOMAIN list /\ r[j] = list[at(j)]
  BY <1>1, <1>2, <1>4
<1>7. \A j, k \in 1..Len(list) - 1 : at(j) = at(k) => j = k
  BY <1>1, <1>2
<1>. HIDE DEF r, at
<1>8. \A j, k \in DOMAIN r : r[j].id = r[k].id => j = k
  BY <1>5, <1>6, <1>7 DEF Lists
<1>. QED  BY <1>3, <1>4, <1>8 DEF Lists

LEMMA PatchedFits ==
  ASSUME NEW old \in Entry, NEW e \in Entry
  PROVE  Patched(old, e) \in Entry
  BY DEF Patched, Entry

LEMMA BeginningsAreLists ==
  ASSUME NEW list \in Beginnings
  PROVE  list \in Lists
<1>1. /\ list \in Seq(Drafts) /\ Drafts \subseteq Entry
      /\ \A i, j \in DOMAIN list : list[i].id = list[j].id => i = j
  BY ConfigReloadAssumption
<1>2. \A i \in 1..Len(list) : list[i] \in Entry
  BY <1>1, ElementOfSeq
<1>3. DOMAIN list = 1..Len(list) /\ Len(list) \in Nat /\ list = [i \in 1..Len(list) |-> list[i]]
  BY <1>1, LenProperties, SeqDef
<1>4. list \in [1..Len(list) -> Entry]
  BY <1>2, <1>3
<1>5. list \in Seq(Entry)
  BY <1>3, <1>4, SeqDef
<1>. QED  BY <1>1, <1>5 DEF Lists

LEMMA NoEntries ==
  /\ <<>> \in Lists /\ Ids(<<>>) = {}
  BY DEF Lists, Ids

-----------------------------------------------------------------------------
(***************************************************************************)
(* What agents are given.                                                  *)
(***************************************************************************)
LEMMA HydratedFits ==
  ASSUME NEW e \in Entry, NEW parts \in [Parts -> Nat], built \in Nat,
         NEW objects, \A b \in DOMAIN objects : objects[b] \in Nat
  PROVE  /\ Hydrated(e, parts, objects) \in Agent
         /\ Hydrated(e, parts, objects).object = built + 1
         /\ Hydrated(e, parts, objects).text = e.text
         /\ \A n \in Names : Hydrated(e, parts, objects).holds[n] =
               IF n \in e.uses THEN Registered(n, parts, objects) ELSE Missing
<1>. DEFINE h == [n \in Names |-> IF n \in e.uses THEN Registered(n, parts, objects) ELSE Missing]
<1>1. \A n \in Names : Registered(n, parts, objects) \in Nat
  BY DEF Registered, Missing
<1>2. h \in [Names -> Nat]
  BY <1>1 DEF Missing
<1>3. e.text \in Versions
  BY DEF Entry
<1>4. Hydrated(e, parts, objects) = [object |-> built + 1, text |-> e.text, holds |-> h]
  BY DEF Hydrated
<1>5. \A n \in Names : h[n] = IF n \in e.uses THEN Registered(n, parts, objects) ELSE Missing
  OBVIOUS
<1>. HIDE DEF h
<1>. QED  BY <1>2, <1>3, <1>4, <1>5 DEF Agent

LEMMA MergedFits ==
  ASSUME NEW old \in Agent, NEW new \in Agent
  PROVE  /\ Merged(old, new) \in Agent
         /\ Merged(old, new).object = old.object /\ Merged(old, new).text = new.text
         /\ \A n \in Names : Merged(old, new).holds[n] \in {old.holds[n], new.holds[n]}
<1>. DEFINE both(n) == LET K == CHOOSE K \in Categories : n \in K IN
                       IF \E m \in K : new.holds[m] # Missing THEN new.holds[n] ELSE old.holds[n]
            h == [n \in Names |-> both(n)]
<1>1. old.holds \in [Names -> Nat] /\ new.holds \in [Names -> Nat]
  BY DEF Agent
<1>2. \A n \in Names : both(n) \in {old.holds[n], new.holds[n]}
  OBVIOUS
<1>3. Merged(old, new) = [old EXCEPT !.text = new.text, !.holds = h]
  BY DEF Merged
<1>. HIDE DEF both
<1>4. h \in [Names -> Nat] /\ \A n \in Names : h[n] = both(n)
  BY <1>1, <1>2
<1>. HIDE DEF h
<1>. QED  BY <1>2, <1>3, <1>4 DEF Agent

\* The agents as, each with its object and its text, hold something else.
SameBut(given, as) ==
    /\ DOMAIN given = DOMAIN as /\ AreAgents(given)
    /\ \A a \in DOMAIN as : given[a].object = as[a].object /\ given[a].text = as[a].text
IsGiven(given, as, ns, new) ==
    /\ SameBut(given, as)
    /\ \A a \in DOMAIN as, n \in Names : given[a].holds[n] =
          IF n \in ns /\ as[a].holds[n] # Missing THEN new[n] ELSE as[a].holds[n]

LEMMA GivenFits ==
  ASSUME NEW as, AreAgents(as), NEW ns, NEW new, \A n \in ns : new[n] \in Nat
  PROVE  IsGiven(Given(as, ns, new), as, ns, new)
<1>. DEFINE h(a) == [n \in Names |->
                        IF n \in ns /\ as[a].holds[n] # Missing THEN new[n] ELSE as[a].holds[n]]
            g == [a \in DOMAIN as |-> [as[a] EXCEPT !.holds = h(a)]]
<1>1. Given(as, ns, new) = g
  BY DEF Given
<1>2. ASSUME NEW a \in DOMAIN as
      PROVE  /\ g[a] \in Agent /\ g[a].object = as[a].object /\ g[a].text = as[a].text
             /\ g[a].holds = h(a)
  <2>1. as[a] \in Agent /\ as[a].holds \in [Names -> Nat]
    BY DEF AreAgents, Agent
  <2>2. h(a) \in [Names -> Nat]
    BY <2>1
  <2>3. g[a] = [as[a] EXCEPT !.holds = h(a)]
    OBVIOUS
  <2>. HIDE DEF h, g
  <2>. QED  BY <2>1, <2>2, <2>3 DEF Agent
<1>3. DOMAIN g = DOMAIN as
  OBVIOUS
<1>4. \A a \in DOMAIN as : \A n \in Names : h(a)[n] =
         IF n \in ns /\ as[a].holds[n] # Missing THEN new[n] ELSE as[a].holds[n]
  OBVIOUS
<1>. HIDE DEF g, h
<1>. QED  BY <1>1, <1>2, <1>3, <1>4 DEF AreAgents, SameBut, IsGiven

LEMMA TakenFits ==
  ASSUME NEW as, AreAgents(as), NEW ns
  PROVE  /\ SameBut(TakenFrom(as, ns), as)
         /\ \A a \in DOMAIN as, n \in Names : TakenFrom(as, ns)[a].holds[n] =
               IF n \in ns THEN Missing ELSE as[a].holds[n]
<1>. DEFINE new == [n \in ns |-> Missing]
<1>1. \A n \in ns : new[n] \in Nat
  BY DEF Missing
<1>4. \A n \in ns : new[n] = Missing
  OBVIOUS
<1>2. TakenFrom(as, ns) = Given(as, ns, new)
  BY DEF TakenFrom
<1>. HIDE DEF new
<1>3. IsGiven(Given(as, ns, new), as, ns, new)
  BY <1>1, GivenFits
<1>. QED  BY <1>2, <1>3, <1>4 DEF IsGiven

LEMMA UpdatedFits ==
  ASSUME NEW as, AreAgents(as), NEW a, NEW new \in Agent
  PROVE  /\ Updated(as, a, new) \in Agent /\ Updated(as, a, new).text = new.text
         /\ Updated(as, a, new).object = IF a \in DOMAIN as THEN as[a].object ELSE new.object
         /\ \A n \in Names :
               \/ Updated(as, a, new).holds[n] = new.holds[n]
               \/ a \in DOMAIN as /\ Updated(as, a, new).holds[n] = as[a].holds[n]
<1>1. CASE a \in DOMAIN as
  BY <1>1, MergedFits DEF Updated, AreAgents
<1>2. CASE a \notin DOMAIN as
  BY <1>2 DEF Updated
<1>. QED  BY <1>1, <1>2

LEMMA ReadableFits ==
  ASSUME content \in [Parts -> 0..3], NEW p \in Parts
  PROVE  Readable(p) \in 0..2 /\ (content[p] # Torn => Readable(p) = content[p])
  BY DEF Readable, Torn, Missing

-----------------------------------------------------------------------------
(***************************************************************************)
(* The handlers of an updater.                                             *)
(***************************************************************************)
Updaters == {{AgentsFile}} \cup {{s} : s \in Skills} \cup {Flows}

LEMMA UpdatersAre ==
  /\ \A f \in Files : f \in Updater(f) /\ Updater(f) \in Updaters
  /\ \A F \in Updaters, f \in Files : f \in F => Updater(f) = F
  /\ Updater(AgentsFile) = {AgentsFile}
  /\ \A s \in Skills : Updater(s) = {s}
  /\ \A f \in Flows : Updater(f) = Flows
  BY NamesAre DEF Updaters, Updater, Files, Parts

LEMMA HandlersFit ==
  ASSUME NEW h \in Handlers
  PROVE  /\ h.file \in Files /\ h.late \in BOOLEAN
         /\ h.file = AgentsFile => h.seen \in Lists
         /\ h.file \in Skills => h.seen \in 0..2
         /\ h.file \in Flows => h.seen \in [Flows -> 0..2]
         /\ \A late \in BOOLEAN : [h EXCEPT !.late = late] \in Handlers
<1>1. CASE h \in [file : {AgentsFile}, seen : Lists, late : BOOLEAN]
  BY <1>1, NamesAre DEF Files, Handlers, Parts
<1>2. CASE h \in [file : Skills, seen : 0..2, late : BOOLEAN]
  BY <1>2, NamesAre DEF Files, Handlers, Parts
<1>3. CASE h \in [file : Flows, seen : [Flows -> 0..2], late : BOOLEAN]
  BY <1>3, NamesAre DEF Files, Handlers, Parts
<1>. QED  BY <1>1, <1>2, <1>3 DEF Handlers

LEMMA HandlerAt ==
  ASSUME handlers \in Seq(Handlers)
  PROVE  /\ DOMAIN handlers = 1..Len(handlers) /\ Len(handlers) \in Nat
         /\ \A i \in DOMAIN handlers : handlers[i] \in Handlers /\ handlers[i].file \in Files
<1>1. DOMAIN handlers = 1..Len(handlers) /\ Len(handlers) \in Nat
  BY LenProperties
<1>2. \A i \in DOMAIN handlers : handlers[i] \in Handlers
  BY <1>1, ElementOfSeq
<1>. QED  BY <1>1, <1>2, HandlersFit

\* Handlers of the updater of f before the k-th come too late from now on.
LEMMA OvertakenIs ==
  ASSUME handlers \in Seq(Handlers), NEW f \in Files, NEW k \in Nat
  PROVE  /\ Overtaken(f, k) \in Seq(Handlers)
         /\ DOMAIN Overtaken(f, k) = DOMAIN handlers /\ Len(Overtaken(f, k)) = Len(handlers)
         /\ \A j \in DOMAIN handlers :
               /\ Overtaken(f, k)[j].file = handlers[j].file
               /\ Overtaken(f, k)[j].seen = handlers[j].seen
               /\ Overtaken(f, k)[j].late =
                     (handlers[j].late \/ (j < k /\ handlers[j].file \in Updater(f)))
<1>. DEFINE late(j) == handlers[j].late \/ (j < k /\ handlers[j].file \in Updater(f))
            r == [j \in DOMAIN handlers |-> [handlers[j] EXCEPT !.late = late(j)]]
<1>1. Overtaken(f, k) = r
  BY DEF Overtaken
<1>2. ASSUME NEW j \in DOMAIN handlers
      PROVE  /\ r[j] \in Handlers
             /\ r[j].file = handlers[j].file /\ r[j].seen = handlers[j].seen /\ r[j].late = late(j)
  <2>1. handlers[j] \in Handlers /\ late(j) \in BOOLEAN
    BY HandlerAt, HandlersFit
  <2>2. r[j] = [handlers[j] EXCEPT !.late = late(j)]
    OBVIOUS
  <2>. HIDE DEF r, late
  <2>3. [handlers[j] EXCEPT !.late = late(j)] \in Handlers
    BY <2>1, HandlersFit
  <2>4. CASE handlers[j] \in [file : {AgentsFile}, seen : Lists, late : BOOLEAN]
    BY <2>2, <2>3, <2>4
  <2>5. CASE handlers[j] \in [file : Skills, seen : 0..2, late : BOOLEAN]
    BY <2>2, <2>3, <2>5
  <2>6. CASE handlers[j] \in [file : Flows, seen : [Flows -> 0..2], late : BOOLEAN]
    BY <2>2, <2>3, <2>6
  <2>. QED  BY <2>1, <2>4, <2>5, <2>6 DEF Handlers
<1>3. DOMAIN r = DOMAIN handlers /\ DOMAIN handlers = 1..Len(handlers) /\ Len(handlers) \in Nat
  BY HandlerAt
<1>4. r \in [1..Len(handlers) -> Handlers]
  BY <1>2, <1>3
<1>5. r \in Seq(Handlers)
  BY <1>3, <1>4, SeqDef
<1>. HIDE DEF r
<1>6. Len(r) = Len(handlers)
  BY <1>3, <1>5, LenProperties
<1>. QED  BY <1>1, <1>2, <1>3, <1>5, <1>6

LEMMA ServedAt ==
  ASSUME handlers \in Seq(Handlers), NEW i \in DOMAIN handlers, Served(i)
  PROVE  /\ handlers' \in Seq(Handlers)
         /\ DOMAIN handlers' = 1..Len(handlers) - 1
         /\ \A j \in DOMAIN handlers', k \in DOMAIN handlers :
               k = (IF j < i THEN j ELSE j + 1) =>
                  /\ handlers'[j].file = handlers[k].file
                  /\ handlers'[j].seen = handlers[k].seen
                  /\ handlers'[j].late =
                        (handlers[k].late \/ (k < i /\ handlers[k].file \in Updater(handlers[i].file)))
<1>. DEFINE f == handlers[i].file
            o == Overtaken(f, i)
<1>1. /\ DOMAIN handlers = 1..Len(handlers) /\ Len(handlers) \in Nat /\ f \in Files /\ i \in Nat
      /\ i \in 1..Len(handlers)
  BY HandlerAt
<1>2. handlers' = RemoveAt(o, i)
  BY DEF Served
<1>. HIDE DEF f
<1>3. /\ o \in Seq(Handlers)
      /\ DOMAIN o = DOMAIN handlers /\ Len(o) = Len(handlers)
      /\ \A j \in DOMAIN handlers :
               /\ o[j].file = handlers[j].file
               /\ o[j].seen = handlers[j].seen
               /\ o[j].late = (handlers[j].late \/ (j < i /\ handlers[j].file \in Updater(f)))
  BY <1>1, OvertakenIs
<1>. HIDE DEF o
<1>4. /\ handlers' \in Seq(Handlers) /\ Len(handlers') = Len(handlers) - 1
      /\ \A j \in 1..Len(handlers) - 1 : handlers'[j] = IF j < i THEN o[j] ELSE o[j + 1]
  BY <1>1, <1>2, <1>3, RemoveAtIs
<1>5. DOMAIN handlers' = 1..Len(handlers) - 1
  BY <1>4, LenProperties
<1>6. ASSUME NEW j \in DOMAIN handlers', NEW k \in DOMAIN handlers, k = (IF j < i THEN j ELSE j + 1)
      PROVE  handlers'[j] = o[k]
  BY <1>4, <1>5, <1>6
<1>. QED  BY <1>3, <1>4, <1>5, <1>6 DEF f

\* A handler that was served was not the last of its updater, or those left come too late.
LEMMA ServedIs ==
  ASSUME handlers \in Seq(Handlers), NEW i \in DOMAIN handlers, Served(i), NEW F \in Updaters
  PROVE  /\ AllLate(F) => AllLate(F)'
         /\ \A v \in LastSeen(F) :
               \/ v \in LastSeen(F)'
               \/ handlers[i].file \in F /\ v = handlers[i].seen /\ AllLate(F)'
         /\ (handlers[i].file \in F /\ AllLate(F) /\ ~raced') =>
               handlers[i].seen = Reading(handlers[i].file)
<1>1. /\ DOMAIN handlers = 1..Len(handlers) /\ Len(handlers) \in Nat /\ i \in 1..Len(handlers)
      /\ \A j \in DOMAIN handlers : handlers[j].file \in Files
  BY HandlerAt
<1>2. DOMAIN handlers' = 1..Len(handlers) - 1
  BY ServedAt
<1>. DEFINE at(j) == IF j < i THEN j ELSE j + 1
<1>3. ASSUME NEW j \in DOMAIN handlers'
      PROVE  /\ at(j) \in DOMAIN handlers /\ at(j) # i
             /\ handlers'[j].file = handlers[at(j)].file
             /\ handlers'[j].seen = handlers[at(j)].seen
             /\ handlers'[j].late =
                   (handlers[at(j)].late
                       \/ (at(j) < i /\ handlers[at(j)].file \in Updater(handlers[i].file)))
  <2>1. at(j) \in DOMAIN handlers /\ at(j) # i
    BY <1>1, <1>2
  <2>2. at(j) = (IF j < i THEN j ELSE j + 1)
    OBVIOUS
  <2>. HIDE DEF at
  <2>. QED  BY <2>1, <2>2, ServedAt
<1>4. AllLate(F) => AllLate(F)'
  <2>. HIDE DEF at
  <2>. QED  BY <1>3 DEF AllLate
<1>5. ASSUME NEW k \in DOMAIN handlers, IsLast(k, F), k # i
      PROVE  handlers[k].seen \in LastSeen(F)'
  <2>. DEFINE j == IF k < i THEN k ELSE k - 1
  <2>1. j \in DOMAIN handlers' /\ at(j) = k
    BY <1>1, <1>2, <1>5
  <2>2. \A m \in DOMAIN handlers' : m > j => at(m) > k
    BY <1>1, <1>2, <1>5
  <2>. HIDE DEF at, j
  <2>3. handlers'[j].file \in F /\ handlers'[j].seen = handlers[k].seen
    BY <1>3, <1>5, <2>1 DEF IsLast
  <2>4. \A m \in DOMAIN handlers' : m > j => handlers'[m].file \notin F
    BY <1>3, <1>5, <2>2 DEF IsLast
  <2>. QED  BY <2>1, <2>3, <2>4 DEF LastSeen, IsLast
<1>6. ASSUME IsLast(i, F)
      PROVE  AllLate(F)'
  <2>1. Updater(handlers[i].file) = F
    BY <1>1, <1>6, UpdatersAre DEF IsLast
  <2>2. ASSUME NEW j \in DOMAIN handlers', handlers'[j].file \in F
        PROVE  handlers'[j].late
    <3>1. at(j) \in 1..Len(handlers) /\ at(j) # i /\ handlers[at(j)].file \in F
      BY <1>1, <1>3, <2>2
    <3>. HIDE DEF at
    <3>2. ~(at(j) > i)
      BY <1>1, <1>6, <3>1 DEF IsLast
    <3>3. at(j) < i
      BY <1>1, <3>1, <3>2
    <3>. QED  BY <1>3, <2>1, <3>1, <3>3
  <2>. QED  BY <2>2 DEF AllLate
<1>7. ASSUME NEW v \in LastSeen(F)
      PROVE  \/ v \in LastSeen(F)'
             \/ handlers[i].file \in F /\ v = handlers[i].seen /\ AllLate(F)'
  <2>1. PICK k \in DOMAIN handlers : IsLast(k, F) /\ v = handlers[k].seen
    BY <1>7 DEF LastSeen
  <2>2. CASE k = i
    BY <1>6, <2>1, <2>2 DEF IsLast
  <2>3. CASE k # i
    BY <1>5, <2>1, <2>3
  <2>. QED  BY <2>2, <2>3
<1>8. ASSUME handlers[i].file \in F, AllLate(F), ~raced'
      PROVE  handlers[i].seen = Reading(handlers[i].file)
  BY <1>8 DEF AllLate, Served
<1>. QED  BY <1>4, <1>7, <1>8

LEMMA UnlinkedIs ==
  ASSUME handlers \in Seq(Handlers), NEW f \in Files, Unlinked(f)
  PROVE  /\ handlers' \in Seq(Handlers)
         /\ AllLate(Updater(f))'
         /\ \A F \in Updaters : LastSeen(F)' = LastSeen(F) /\ (AllLate(F) => AllLate(F)')
<1>. DEFINE k == Len(handlers) + 1
<1>1. /\ DOMAIN handlers = 1..Len(handlers) /\ k \in Nat
      /\ \A j \in DOMAIN handlers : j < k
  BY HandlerAt
<1>2. handlers' = Overtaken(f, k)
  BY DEF Unlinked
<1>. HIDE DEF k
<1>3. /\ handlers' \in Seq(Handlers) /\ DOMAIN handlers' = DOMAIN handlers
      /\ \A j \in DOMAIN handlers :
               /\ handlers'[j].file = handlers[j].file
               /\ handlers'[j].seen = handlers[j].seen
               /\ handlers'[j].late = (handlers[j].late \/ (j < k /\ handlers[j].file \in Updater(f)))
  BY <1>1, <1>2, OvertakenIs
<1>4. AllLate(Updater(f))'
  BY <1>1, <1>3 DEF AllLate
<1>5. ASSUME NEW F \in Updaters
      PROVE  LastSeen(F)' = LastSeen(F) /\ (AllLate(F) => AllLate(F)')
  <2>1. \A j \in DOMAIN handlers : IsLast(j, F)' <=> IsLast(j, F)
    BY <1>3 DEF IsLast
  <2>2. LastSeen(F)' = LastSeen(F)
    BY <1>3, <2>1 DEF LastSeen
  <2>3. AllLate(F) => AllLate(F)'
    BY <1>3 DEF AllLate
  <2>. QED  BY <2>2, <2>3
<1>. QED  BY <1>3, <1>4, <1>5

LEMMA ReadIs ==
  ASSUME handlers \in Seq(Handlers), NEW f \in Files, Read(f),
         [file |-> f, seen |-> Reading(f), late |-> FALSE] \in Handlers
  PROVE  /\ handlers' \in Seq(Handlers)
         /\ \A F \in Updaters : f \in F => Reading(f) \in LastSeen(F)'
         /\ \A F \in Updaters : f \notin F =>
               LastSeen(F) \subseteq LastSeen(F)' /\ (AllLate(F) => AllLate(F)')
<1>. DEFINE h == [file |-> f, seen |-> Reading(f), late |-> FALSE]
            k == Len(handlers) + 1
<1>1. DOMAIN handlers = 1..Len(handlers) /\ Len(handlers) \in Nat
  BY HandlerAt
<1>2. handlers' = Append(handlers, h) /\ h.file = f /\ h.seen = Reading(f) /\ h \in Handlers
  BY DEF Read
<1>. HIDE DEF h
<1>3. /\ handlers' \in Seq(Handlers) /\ Len(handlers') = k /\ handlers'[k] = h
      /\ \A j \in 1..Len(handlers) : handlers'[j] = handlers[j]
  BY <1>2, AppendProperties
<1>4. DOMAIN handlers' = 1..k
  BY <1>3, LenProperties
<1>5. /\ \A j \in DOMAIN handlers' : (j = k \/ j \in DOMAIN handlers) /\ ~(j > k)
      /\ \A j \in DOMAIN handlers : j \in DOMAIN handlers' /\ j # k
      /\ k \in DOMAIN handlers'
  BY <1>1, <1>4
<1>. HIDE DEF k
<1>6. ASSUME NEW F \in Updaters, f \in F
      PROVE  Reading(f) \in LastSeen(F)'
  <2>1. k \in DOMAIN handlers' /\ handlers'[k].file \in F /\ handlers'[k].seen = Reading(f)
    BY <1>2, <1>3, <1>5, <1>6
  <2>2. \A m \in DOMAIN handlers' : m > k => handlers'[m].file \notin F
    BY <1>5
  <2>. QED  BY <2>1, <2>2 DEF LastSeen, IsLast
<1>7. ASSUME NEW F \in Updaters, f \notin F
      PROVE  LastSeen(F) \subseteq LastSeen(F)' /\ (AllLate(F) => AllLate(F)')
  <2>1. \A j \in DOMAIN handlers : IsLast(j, F) => IsLast(j, F)'
    BY <1>1, <1>2, <1>3, <1>5, <1>7 DEF IsLast
  <2>2. LastSeen(F) \subseteq LastSeen(F)'
    BY <1>1, <1>3, <1>5, <2>1 DEF LastSeen
  <2>3. AllLate(F) => AllLate(F)'
    BY <1>1, <1>2, <1>3, <1>5, <1>7 DEF AllLate
  <2>. QED  BY <2>2, <2>3
<1>. QED  BY <1>3, <1>6, <1>7

LEMMA HandlersStay ==
  ASSUME UNCHANGED handlers, NEW F
  PROVE  LastSeen(F)' = LastSeen(F) /\ AllLate(F)' = AllLate(F)
  BY DEF LastSeen, AllLate, IsLast

-----------------------------------------------------------------------------
(***************************************************************************)
(* Events, requests and readings.                                          *)
(***************************************************************************)
LEMMA EventsAre ==
  /\ <<"upsert">> # <<>> /\ <<"unlink">> # <<>> /\ <<"unlink", "upsert">> # <<>>
  /\ <<"upsert">> # <<"unlink">> /\ <<"unlink", "upsert">> # <<"unlink">>
  /\ Head(<<"upsert">>) = "upsert" /\ Tail(<<"upsert">>) = <<>>
  /\ Head(<<"unlink">>) = "unlink" /\ Tail(<<"unlink">>) = <<>>
  /\ Head(<<"unlink", "upsert">>) = "unlink" /\ Tail(<<"unlink", "upsert">>) = <<"upsert">>
  /\ Last(<<"upsert">>) = "upsert" /\ Last(<<"unlink">>) = "unlink"
  /\ Last(<<"unlink", "upsert">>) = "upsert"
<1>1. Len(<<"upsert">>) = 1 /\ Len(<<"unlink">>) = 1 /\ Len(<<"unlink", "upsert">>) = 2
  OBVIOUS
<1>2. <<"upsert">>[1] = "upsert" /\ <<"unlink">>[1] = "unlink"
  OBVIOUS
<1>3. <<"unlink", "upsert">>[1] = "unlink" /\ <<"unlink", "upsert">>[2] = "upsert"
  OBVIOUS
<1>4. Tail(<<"upsert">>) = <<>> /\ Tail(<<"unlink">>) = <<>>
  OBVIOUS
<1>5. Tail(<<"unlink", "upsert">>) = <<"upsert">>
  OBVIOUS
<1>6. Head(<<"upsert">>) = "upsert" /\ Head(<<"unlink">>) = "unlink"
  OBVIOUS
<1>7. Head(<<"unlink", "upsert">>) = "unlink"
  OBVIOUS
<1>8. Last(<<"upsert">>) = "upsert" /\ Last(<<"unlink">>) = "unlink"
  BY <1>1, <1>2 DEF Last
<1>9. Last(<<"unlink", "upsert">>) = "upsert"
  BY <1>1, <1>3 DEF Last
<1>. QED  BY <1>1, <1>2, <1>4, <1>5, <1>6, <1>7, <1>8, <1>9

LEMMA WrittenIs ==
  ASSUME pending \in [Files -> Events], NEW f \in Files
  PROVE  /\ Written(f) \in [Files -> Events] /\ Removed(f) \in [Files -> Events]
         /\ Written(f)[f] # <<>> /\ Last(Written(f)[f]) = "upsert" /\ Written(f)[f] # <<"unlink">>
         /\ Removed(f)[f] = <<"unlink">> /\ Removed(f)[f] # <<>>
         /\ \A g \in Files : g # f => Written(f)[g] = pending[g] /\ Removed(f)[g] = pending[g]
<1>. DEFINE r == IF pending[f] # <<>> /\ Head(pending[f]) = "unlink"
                 THEN <<"unlink", "upsert">> ELSE <<"upsert">>
<1>1. Written(f) = [pending EXCEPT ![f] = r]
  BY DEF Written
<1>2. Removed(f) = [pending EXCEPT ![f] = <<"unlink">>]
  BY DEF Removed
<1>3. r \in Events /\ r # <<>> /\ Last(r) = "upsert" /\ r # <<"unlink">>
  <2>1. r = <<"unlink", "upsert">> \/ r = <<"upsert">>
    OBVIOUS
  <2>. HIDE DEF r
  <2>. QED  BY <2>1, EventsAre DEF Events
<1>4. <<"unlink">> \in Events
  BY DEF Events
<1>. HIDE DEF r
<1>. QED  BY <1>1, <1>2, <1>3, <1>4, EventsAre

LEMMA EmitIs ==
  ASSUME pending \in [Files -> Events], NEW f \in Files, NEW kind, Emit(f, kind)
  PROVE  /\ pending' \in [Files -> Events]
         /\ \A g \in Files : g # f => pending'[g] = pending[g]
         /\ pending'[f] # <<>> => pending'[f] = <<"upsert">> /\ pending[f] = <<"unlink", "upsert">>
         /\ pending'[f] = <<>> => pending[f] = <<kind>>
<1>1. /\ pending' = [pending EXCEPT ![f] = Tail(pending[f])]
      /\ pending[f] # <<>> /\ Head(pending[f]) = kind
  BY DEF Emit
<1>2. pending[f] \in {<<"upsert">>, <<"unlink">>, <<"unlink", "upsert">>}
  BY <1>1 DEF Events
<1>3. pending'[f] = Tail(pending[f])
  BY <1>1
<1>4. CASE pending[f] = <<"upsert">>
  BY <1>1, <1>3, <1>4, EventsAre DEF Events
<1>5. CASE pending[f] = <<"unlink">>
  BY <1>1, <1>3, <1>5, EventsAre DEF Events
<1>6. CASE pending[f] = <<"unlink", "upsert">>
  BY <1>1, <1>3, <1>6, EventsAre DEF Events
<1>. QED  BY <1>2, <1>4, <1>5, <1>6

LEMMA OpsAre ==
  ASSUME NEW o \in Ops
  PROVE  /\ o.kind = "part" => o.name \in Parts /\ o.version \in Versions
         /\ o.kind = "put" => o.entry \in Entry /\ o.seen \in Lists /\ o.agent \in Agent
                              /\ o.fresh \in BOOLEAN /\ (o.fresh \/ o.entry.id \in Ids(o.seen))
         /\ o.kind = "delete" => o.name \in Ids(o.seen) /\ o.seen \in Lists
         /\ o.kind = "rewire" => o.name \in Ids(o.seen) /\ o.seen \in Lists /\ o.flows \subseteq Flows
<1>1. CASE o \in [kind : {"part"}, name : Parts, version : Versions]
  BY <1>1
<1>2. CASE o \in {r \in [kind : {"put"}, entry : Entry, fresh : BOOLEAN, seen : Lists, agent : Agent] :
                     r.fresh \/ r.entry.id \in Ids(r.seen)}
  BY <1>2
<1>3. CASE o \in {d \in [kind : {"delete"}, name : Agents, seen : Lists] : d.name \in Ids(d.seen)}
  BY <1>3
<1>4. CASE o \in {r \in [kind : {"rewire"}, name : Agents, seen : Lists, flows : SUBSET Flows] :
                     r.name \in Ids(r.seen)}
  BY <1>4
<1>. QED  BY <1>1, <1>2, <1>3, <1>4 DEF Ops

LEMMA BeginIs ==
  ASSUME OpsFit, Change, NEW o \in Ops, Begin(o)
  PROVE  /\ OpsFit'
         /\ \A i \in DOMAIN ops : i \in DOMAIN ops' /\ ops'[i] = ops[i]
         /\ \A i \in DOMAIN ops' : i \in DOMAIN ops \/ ops'[i] = o
         /\ \E i \in DOMAIN ops' : ops'[i] = o
<1>1. changes' = changes + 1 /\ changes' \in Nat
  BY DEF Change, OpsFit
<1>2. ops' = [i \in DOMAIN ops \cup {changes'} |-> IF i \in DOMAIN ops THEN ops[i] ELSE o]
  BY DEF Begin
<1>3. changes' \notin DOMAIN ops /\ DOMAIN ops \cup {changes'} \subseteq 1..changes'
  BY <1>1 DEF OpsFit
<1>. QED  BY <1>1, <1>2, <1>3 DEF OpsFit

LEMMA OpEndsIs ==
  ASSUME OpsFit, UNCHANGED changes, NEW i \in DOMAIN ops, OpEnds(i)
  PROVE  /\ OpsFit'
         /\ \A j \in DOMAIN ops' : j \in DOMAIN ops /\ ops'[j] = ops[j]
         /\ \A j \in DOMAIN ops : j # i => j \in DOMAIN ops' /\ ops'[j] = ops[j]
  BY DEF OpsFit, OpEnds

\* Only a request for the part begins to write it, and only its end stops that.
LEMMA WritingIs ==
  ASSUME NEW p \in Parts
  PROVE  /\ OpsFit /\ Change /\ UNCHANGED ops => OpsFit'
         /\ UNCHANGED ops => Writing(p)' = Writing(p)
         /\ \A o \in Ops : OpsFit /\ Change /\ Begin(o) =>
               /\ Writing(p) => Writing(p)'
               /\ ~(o.kind = "part" /\ o.name = p) => (Writing(p)' <=> Writing(p))
               /\ (o.kind = "part" /\ o.name = p) => Writing(p)'
         /\ \A i \in DOMAIN ops : OpsFit /\ UNCHANGED changes /\ OpEnds(i) =>
               /\ Writing(p)' => Writing(p)
               /\ ~(ops[i].kind = "part" /\ ops[i].name = p) => (Writing(p)' <=> Writing(p))
<1>1. OpsFit /\ Change /\ UNCHANGED ops => OpsFit'
  <2>1. changes \in Nat => 1..changes \subseteq 1..changes + 1
    OBVIOUS
  <2>. QED  BY <2>1 DEF OpsFit, Change
<1>2. UNCHANGED ops => Writing(p)' = Writing(p)
  BY DEF Writing
<1>3. ASSUME NEW o \in Ops, OpsFit, Change, Begin(o)
      PROVE  /\ Writing(p) => Writing(p)'
             /\ ~(o.kind = "part" /\ o.name = p) => (Writing(p)' <=> Writing(p))
             /\ (o.kind = "part" /\ o.name = p) => Writing(p)'
  BY <1>3, BeginIs DEF Writing
<1>4. ASSUME NEW i \in DOMAIN ops, OpsFit, UNCHANGED changes, OpEnds(i)
      PROVE  /\ Writing(p)' => Writing(p)
             /\ ~(ops[i].kind = "part" /\ ops[i].name = p) => (Writing(p)' <=> Writing(p))
  BY <1>4, OpEndsIs DEF Writing
<1>. QED  BY <1>1, <1>2, <1>3, <1>4

LEMMA ReadingFits ==
  ASSUME FilesFit, NEW f \in Files
  PROVE  /\ [file |-> f, seen |-> Reading(f), late |-> FALSE] \in Handlers
         /\ f = AgentsFile => Reading(f) = entries
         /\ f \in Skills => Reading(f) = Readable(f)
         /\ f \in Flows => \A g \in Flows : Reading(f)[g] = Readable(g)
<1>1. \A p \in Parts : Readable(p) \in 0..2
  BY ReadableFits DEF FilesFit
<1>2. CASE f = AgentsFile
  BY <1>2, NamesAre DEF Reading, Handlers, FilesFit
<1>3. CASE f \in Skills
  BY <1>1, <1>3, NamesAre DEF Reading, Handlers
<1>4. CASE f \in Flows
  <2>1. Reading(f) = [g \in Flows |-> Readable(g)]
    BY <1>4, NamesAre DEF Reading
  <2>2. Reading(f) \in [Flows -> 0..2]
    BY <1>1, <2>1, NamesAre
  <2>. QED  BY <1>4, <2>1, <2>2, NamesAre DEF Handlers
<1>. QED  BY <1>2, <1>3, <1>4 DEF Files, Parts

-----------------------------------------------------------------------------
(***************************************************************************)
(* What the updaters make of what they have read.                          *)
(***************************************************************************)
NewIn(list) == {a \in Ids(list) : prints[a] # EntryOf(list, a)}
GoneFrom(list) == DOMAIN agents \ Ids(list)

\* What an agent holds was registered for it, is what it held, or is the agent of now.
HoldsAfter(list, a, n) ==
    LET held == agents'[a].holds[n] IN
    \/ held = Missing
    \/ n \in Parts /\ held = registries[n]
    \/ a \in DOMAIN agents /\ n \notin GoneFrom(list) /\ held = agents[a].holds[n]
    \/ n \in DOMAIN agents' /\ held = agents'[n].object

AgentsApplied(list) ==
    /\ AreAgents(agents') /\ built' \in Nat
    /\ DOMAIN agents' = (DOMAIN agents \cup NewIn(list)) \ GoneFrom(list)
    /\ \A a \in DOMAIN agents' :
          /\ agents'[a].text = IF a \in NewIn(list) THEN EntryOf(list, a).text ELSE agents[a].text
          /\ a \in DOMAIN agents => agents'[a].object = agents[a].object
    /\ \A a \in DOMAIN agents', n \in Names : HoldsAfter(list, a, n)
    /\ prints' = [n \in Names |-> IF n \in GoneFrom(list) THEN NoPrint
                                  ELSE IF n \in Ids(list) THEN EntryOf(list, n) ELSE prints[n]]
    /\ unseen' = unseen \ (GoneFrom(list) \cup NewIn(list))

LEMMA RegisteredFits ==
  ASSUME RegistriesFit
  PROVE  /\ registries \in [Parts -> Nat] /\ built \in Nat
         /\ \A a \in DOMAIN agents : agents[a] \in Agent /\ a \in Agents /\ agents[a].object \in Nat
         /\ \A a \in DOMAIN Objects(agents) : Objects(agents)[a] \in Nat
         /\ DOMAIN Objects(agents) = DOMAIN agents
         /\ \A a \in DOMAIN agents : Objects(agents)[a] = agents[a].object
<1>1. registries \in [Parts -> Nat]
  <2>1. 0..2 \subseteq Nat
    OBVIOUS
  <2>. QED  BY <2>1 DEF RegistriesFit
<1>2. \A a \in DOMAIN agents : agents[a] \in Agent /\ a \in Agents /\ agents[a].object \in Nat
  BY DEF RegistriesFit, AreAgents, Agent
<1>3. /\ DOMAIN Objects(agents) = DOMAIN agents
      /\ \A a \in DOMAIN agents : Objects(agents)[a] = agents[a].object
  BY DEF Objects
<1>. QED  BY <1>1, <1>2, <1>3 DEF RegistriesFit

LEMMA ApplyAgentsIs ==
  ASSUME FilesFit, RegistriesFit, NEW i \in DOMAIN handlers, ApplyAgents(i)
  PROVE  handlers[i].seen \in Lists /\ AgentsApplied(handlers[i].seen)
<1>. DEFINE list == handlers[i].seen
            before(a) == {b \in NewIn(list) : PlaceOf(list, b) < PlaceOf(list, a)}
            known(a) == [b \in DOMAIN agents \cup before(a) |->
                            IF b \in DOMAIN agents THEN agents[b].object ELSE built + 1]
            hydrated(a) == Hydrated(EntryOf(list, a), registries, known(a))
            all == DOMAIN agents \cup NewIn(list)
            upserted == [a \in all |-> IF a \in NewIn(list) THEN Updated(agents, a, hydrated(a))
                                       ELSE agents[a]]
            left == Drop(upserted, GoneFrom(list))
<1>1. list \in Lists /\ Ids(list) \subseteq Agents
  <2>1. list \in Lists
    BY HandlerAt, HandlersFit DEF FilesFit, ApplyAgents
  <2>. QED  BY <2>1, IdsAreAgents
<1>2. NewIn(list) \subseteq Ids(list) /\ DOMAIN upserted = all /\ all \ Ids(list) = GoneFrom(list)
  BY DEF NewIn, GoneFrom
<1>3. /\ agents' = TakenFrom(left, GoneFrom(list))
      /\ built' = Counted(upserted)
      /\ prints' = [n \in Names |-> IF n \in GoneFrom(list) THEN NoPrint
                                    ELSE IF n \in Ids(list) THEN EntryOf(list, n) ELSE prints[n]]
      /\ unseen' = unseen \ (GoneFrom(list) \cup NewIn(list))
  BY <1>2 DEF ApplyAgents, NewIn
<1>4. ASSUME NEW a \in NewIn(list)
      PROVE  /\ hydrated(a) \in Agent /\ hydrated(a).object = built + 1
             /\ hydrated(a).text = EntryOf(list, a).text
             /\ \A n \in Names :
                   \/ hydrated(a).holds[n] = Missing
                   \/ n \in Parts /\ hydrated(a).holds[n] = registries[n]
                   \/ n \in DOMAIN agents /\ hydrated(a).holds[n] = agents[n].object
                   \/ n \in NewIn(list) \ DOMAIN agents /\ hydrated(a).holds[n] = built + 1
  <2>. DEFINE e == EntryOf(list, a)
              objects == known(a)
  <2>1. e \in Entry
    BY <1>1, <1>2, PlaceIsOne
  <2>2. DOMAIN objects = DOMAIN agents \cup before(a) /\ before(a) \subseteq NewIn(list)
    OBVIOUS
  <2>3. \A b \in DOMAIN objects : objects[b] = IF b \in DOMAIN agents THEN agents[b].object ELSE built + 1
    OBVIOUS
  <2>4. hydrated(a) = Hydrated(e, registries, objects)
    OBVIOUS
  <2>. HIDE DEF e, objects, hydrated, before
  <2>5. \A b \in DOMAIN objects : objects[b] \in Nat
    BY <2>3, RegisteredFits
  <2>6. /\ Hydrated(e, registries, objects) \in Agent
        /\ Hydrated(e, registries, objects).object = built + 1
        /\ Hydrated(e, registries, objects).text = e.text
        /\ \A n \in Names : Hydrated(e, registries, objects).holds[n] =
               IF n \in e.uses THEN Registered(n, registries, objects) ELSE Missing
    BY <2>1, <2>5, RegisteredFits, HydratedFits
  <2>7. ASSUME NEW n \in Names
        PROVE  \/ hydrated(a).holds[n] = Missing
               \/ n \in Parts /\ hydrated(a).holds[n] = registries[n]
               \/ n \in DOMAIN agents /\ hydrated(a).holds[n] = agents[n].object
               \/ n \in NewIn(list) \ DOMAIN agents /\ hydrated(a).holds[n] = built + 1
    BY <2>2, <2>3, <2>4, <2>6 DEF Registered
  <2>. QED  BY <2>4, <2>6, <2>7 DEF e
<1>. HIDE DEF hydrated
<1>5. ASSUME NEW a \in all
      PROVE  /\ upserted[a] \in Agent /\ a \in Agents
             /\ upserted[a].object = IF a \in DOMAIN agents THEN agents[a].object ELSE built + 1
             /\ upserted[a].text = IF a \in NewIn(list) THEN EntryOf(list, a).text ELSE agents[a].text
             /\ \A n \in Names :
                   \/ a \in DOMAIN agents /\ upserted[a].holds[n] = agents[a].holds[n]
                   \/ a \in NewIn(list) /\ upserted[a].holds[n] = hydrated(a).holds[n]
  <2>1. CASE a \in NewIn(list)
    <3>1. upserted[a] = Updated(agents, a, hydrated(a))
      BY <2>1
    <3>2. AreAgents(agents) /\ hydrated(a) \in Agent
      BY <1>4, <2>1 DEF RegistriesFit
    <3>3. a \in Agents
      BY <1>1, <1>2, <2>1
    <3>. HIDE DEF upserted
    <3>4. /\ upserted[a] \in Agent /\ upserted[a].text = hydrated(a).text
          /\ upserted[a].object = IF a \in DOMAIN agents THEN agents[a].object ELSE hydrated(a).object
          /\ \A n \in Names : 
               \/ upserted[a].holds[n] = hydrated(a).holds[n]
               \/ a \in DOMAIN agents /\ upserted[a].holds[n] = agents[a].holds[n]
      BY <3>1, <3>2, UpdatedFits
    <3>. QED  BY <1>4, <2>1, <3>3, <3>4
  <2>2. CASE a \notin NewIn(list)
    <3>1. upserted[a] = agents[a] /\ a \in DOMAIN agents
      BY <2>2
    <3>. HIDE DEF upserted
    <3>. QED  BY <2>2, <3>1, RegisteredFits
  <2>. QED  BY <2>1, <2>2
<1>6. DOMAIN upserted = all
  OBVIOUS
<1>7. Counted(upserted) \in Nat
  BY RegisteredFits DEF Counted
<1>. HIDE DEF upserted
<1>8. DOMAIN left = all \ GoneFrom(list) /\ \A a \in DOMAIN left : left[a] = upserted[a] /\ a \in all
  BY <1>6 DEF Drop
<1>. HIDE DEF left
<1>9. AreAgents(left)
  BY <1>5, <1>8 DEF AreAgents
<1>10. /\ SameBut(agents', left)
       /\ \A a \in DOMAIN left, n \in Names : agents'[a].holds[n] =
               IF n \in GoneFrom(list) THEN Missing ELSE left[a].holds[n]
  BY <1>3, <1>9, TakenFits
<1>11. ASSUME NEW a \in DOMAIN agents'
       PROVE  /\ a \in all /\ a \in DOMAIN left
              /\ agents'[a].text = upserted[a].text /\ agents'[a].object = upserted[a].object
              /\ \A n \in Names : agents'[a].holds[n] =
                    IF n \in GoneFrom(list) THEN Missing ELSE upserted[a].holds[n]
  BY <1>8, <1>10 DEF SameBut
<1>12. DOMAIN agents' = all \ GoneFrom(list) /\ AreAgents(agents')
  BY <1>8, <1>10 DEF SameBut
<1>13. ASSUME NEW a \in DOMAIN agents', NEW n \in Names
       PROVE  HoldsAfter(list, a, n)
  <2>1. CASE n \in GoneFrom(list)
    BY <1>11, <2>1 DEF HoldsAfter
  <2>2. CASE n \notin GoneFrom(list)
    <3>1. agents'[a].holds[n] = upserted[a].holds[n] /\ a \in all
      BY <1>11, <2>2
    <3>2. n \in DOMAIN agents => n \in DOMAIN agents' /\ agents'[n].object = agents[n].object
      BY <1>5, <1>11, <1>12, <2>2
    <3>3. n \in NewIn(list) \ DOMAIN agents => n \in DOMAIN agents' /\ agents'[n].object = built + 1
      BY <1>5, <1>11, <1>12, <2>2
    <3>4. CASE a \in DOMAIN agents /\ upserted[a].holds[n] = agents[a].holds[n]
      BY <2>2, <3>1, <3>4 DEF HoldsAfter
    <3>5. CASE a \in NewIn(list) /\ upserted[a].holds[n] = hydrated(a).holds[n]
      <4>1. \/ hydrated(a).holds[n] = Missing
            \/ n \in Parts /\ hydrated(a).holds[n] = registries[n]
            \/ n \in DOMAIN agents /\ hydrated(a).holds[n] = agents[n].object
            \/ n \in NewIn(list) \ DOMAIN agents /\ hydrated(a).holds[n] = built + 1
        BY <1>4, <3>5
      <4>. QED  BY <3>1, <3>2, <3>3, <3>5, <4>1 DEF HoldsAfter
    <3>. QED  BY <1>5, <3>1, <3>4, <3>5
  <2>. QED  BY <2>1, <2>2
<1>14. ASSUME NEW a \in DOMAIN agents'
       PROVE  /\ agents'[a].text = IF a \in NewIn(list) THEN EntryOf(list, a).text ELSE agents[a].text
              /\ a \in DOMAIN agents => agents'[a].object = agents[a].object
  BY <1>5, <1>11
<1>. HIDE DEF list
<1>. QED  BY <1>1, <1>3, <1>7, <1>12, <1>13, <1>14 DEF AgentsApplied, list

LEMMA PartsFit ==
  ASSUME RegistriesFit
  PROVE  \A p \in Parts : registries[p] \in 0..2 /\ p \in Names /\ p \notin Agents
  BY NamesAre DEF RegistriesFit

SkillApplied(s, v) ==
    /\ registries' = [registries EXCEPT ![s] = v]
    /\ prints' = [prints EXCEPT ![s] = v]
    /\ unseen' = unseen \ {s}
    /\ SameBut(agents', agents)
    /\ \A a \in DOMAIN agents, n \in Names : agents'[a].holds[n] =
          IF n = s /\ agents[a].holds[n] # Missing THEN v ELSE agents[a].holds[n]

LEMMA ApplySkillIs ==
  ASSUME FilesFit, RegistriesFit, NEW i \in DOMAIN handlers, ApplySkill(i)
  PROVE  /\ handlers[i].file \in Skills /\ handlers[i].seen \in 0..2
         /\ \/ /\ handlers[i].seen = Missing \/ prints[handlers[i].file] = handlers[i].seen
               /\ UNCHANGED <<registries, agents, prints, unseen>>
            \/ handlers[i].seen # Missing /\ SkillApplied(handlers[i].file, handlers[i].seen)
<1>. DEFINE s == handlers[i].file
            v == handlers[i].seen
            new == [n \in {s} |-> v]
<1>1. s \in Skills /\ v \in 0..2
  BY HandlerAt, HandlersFit DEF FilesFit, ApplySkill
<1>2. CASE v = Missing \/ prints[s] = v
  BY <1>1, <1>2 DEF ApplySkill
<1>3. CASE ~(v = Missing \/ prints[s] = v)
  <2>1. /\ registries' = [registries EXCEPT ![s] = v]
        /\ prints' = [prints EXCEPT ![s] = v]
        /\ unseen' = unseen \ {s}
        /\ agents' = Given(agents, {s}, new)
    BY <1>3 DEF ApplySkill
  <2>. HIDE DEF s, v
  <2>2. new[s] = v
    OBVIOUS
  <2>. HIDE DEF new
  <2>3. \A n \in {s} : new[n] \in Nat
    BY <1>1, <2>2
  <2>4. IsGiven(agents', agents, {s}, new)
    BY <2>1, <2>3, GivenFits DEF RegistriesFit
  <2>5. SkillApplied(s, v)
    BY <2>1, <2>2, <2>4 DEF IsGiven, SkillApplied
  <2>. QED  BY <1>1, <1>3, <2>5 DEF s, v
<1>. QED  BY <1>2, <1>3

ChangedIn(seen) ==
    {g \in Flows : IF seen[g] = Missing THEN registries[g] # Missing ELSE prints[g] # seen[g]}

FlowsApplied(seen) ==
    /\ registries' = [p \in Parts |-> IF p \in ChangedIn(seen) THEN seen[p] ELSE registries[p]]
    /\ prints' = [n \in Names |-> IF n \in ChangedIn(seen)
                                  THEN IF seen[n] = Missing THEN NoPrint ELSE seen[n]
                                  ELSE prints[n]]
    /\ unseen' = unseen \ ChangedIn(seen)
    /\ SameBut(agents', agents)
    /\ \A a \in DOMAIN agents, n \in Names :
          \/ n \in Flows /\ agents'[a].holds[n] \in {Missing, registries'[n]}
          \/ n \notin ChangedIn(seen) /\ agents'[a].holds[n] = agents[a].holds[n]

LEMMA ApplyFlowsIs ==
  ASSUME FilesFit, RegistriesFit, NEW i \in DOMAIN handlers, ApplyFlows(i)
  PROVE  /\ handlers[i].file \in Flows /\ handlers[i].seen \in [Flows -> 0..2]
         /\ FlowsApplied(handlers[i].seen)
<1>. DEFINE seen == handlers[i].seen
            now == [p \in Parts |-> IF p \in ChangedIn(seen) THEN seen[p] ELSE registries[p]]
            touched == {a \in DOMAIN agents : \E g \in ChangedIn(seen) : agents[a].holds[g] # Missing}
            lost == {g \in Flows : seen[g] = Missing}
            kept == {g \in Flows : now[g] # Missing}
            left == TakenFrom(agents, lost)
            given == Given(left, kept, now)
<1>1. handlers[i].file \in Flows /\ seen \in [Flows -> 0..2]
  BY HandlerAt, HandlersFit DEF FilesFit, ApplyFlows
<1>2. /\ registries' = now
      /\ prints' = [n \in Names |-> IF n \in ChangedIn(seen)
                                    THEN IF seen[n] = Missing THEN NoPrint ELSE seen[n]
                                    ELSE prints[n]]
      /\ unseen' = unseen \ ChangedIn(seen)
      /\ agents' = [a \in DOMAIN agents |-> IF a \in touched THEN given[a] ELSE agents[a]]
  BY DEF ApplyFlows, ChangedIn
<1>3. /\ \A p \in Parts : now[p] = IF p \in ChangedIn(seen) THEN seen[p] ELSE registries[p]
      /\ \A g \in Flows : g \in lost <=> seen[g] = Missing
      /\ \A g \in Flows : g \in kept <=> now[g] # Missing
      /\ lost \subseteq Flows /\ kept \subseteq Flows /\ ChangedIn(seen) \subseteq Flows
      /\ Flows \subseteq Parts /\ Flows \subseteq Names
  BY NamesAre DEF ChangedIn
<1>. HIDE DEF seen
<1>4. \A g \in Flows : now[g] \in Nat
  <2>1. \A g \in Flows : seen[g] \in 0..2 /\ registries[g] \in 0..2
    BY <1>1, <1>3, PartsFit
  <2>2. \A g \in Flows : now[g] = seen[g] \/ now[g] = registries[g]
    BY <1>3
  <2>. HIDE DEF now
  <2>. QED  BY <2>1, <2>2
<1>. HIDE DEF now, lost, kept
<1>5. AreAgents(agents)
  BY DEF RegistriesFit
<1>6. /\ SameBut(left, agents)
      /\ \A a \in DOMAIN agents, n \in Names : left[a].holds[n] =
               IF n \in lost THEN Missing ELSE agents[a].holds[n]
  BY <1>5, TakenFits
<1>. HIDE DEF left
<1>7. IsGiven(given, left, kept, now)
  <2>1. AreAgents(left)
    BY <1>6 DEF SameBut
  <2>2. \A g \in kept : now[g] \in Nat
    BY <1>3, <1>4
  <2>. QED  BY <2>1, <2>2, GivenFits
<1>. HIDE DEF given
<1>8. SameBut(given, agents)
  BY <1>6, <1>7 DEF IsGiven, SameBut
<1>9. /\ DOMAIN agents' = DOMAIN agents
      /\ \A a \in DOMAIN agents : agents'[a] = given[a] \/ agents'[a] = agents[a]
      /\ \A a \in DOMAIN agents : a \in touched => agents'[a] = given[a]
      /\ \A a \in DOMAIN agents : a \notin touched => agents'[a] = agents[a]
  BY <1>2
<1>10. SameBut(agents', agents)
  BY <1>5, <1>8, <1>9 DEF SameBut, AreAgents
<1>11. ASSUME NEW a \in DOMAIN agents, NEW n \in Names
       PROVE  \/ n \in Flows /\ agents'[a].holds[n] \in {Missing, registries'[n]}
              \/ n \notin ChangedIn(seen) /\ agents'[a].holds[n] = agents[a].holds[n]
  <2>1. given[a].holds[n] = IF n \in kept /\ left[a].holds[n] # Missing THEN now[n] ELSE left[a].holds[n]
    BY <1>6, <1>7 DEF IsGiven, SameBut
  <2>2. left[a].holds[n] = IF n \in lost THEN Missing ELSE agents[a].holds[n]
    BY <1>6
  <2>3. CASE n \notin Flows
    BY <1>3, <1>9, <2>1, <2>2, <2>3
  <2>4. CASE n \in Flows /\ a \in touched
    <3>1. now[n] = Missing => seen[n] = Missing \/ n \notin ChangedIn(seen)
      BY <1>3, <2>4
    <3>. QED  BY <1>2, <1>3, <1>9, <2>1, <2>2, <2>4, <3>1
  <2>5. CASE n \in Flows /\ a \notin touched
    BY <1>9, <2>5
  <2>. QED  BY <2>3, <2>4, <2>5
<1>. QED  BY <1>1, <1>2, <1>3, <1>10, <1>11 DEF FlowsApplied, seen, now

\* A set of names is taken from the registry and from the agents.
PartsTaken(ns, took) ==
    /\ registries' = [p \in Parts |-> IF p \in ns THEN Missing ELSE registries[p]]
    /\ prints' = Forgotten(took) /\ unseen' = unseen \ took
    /\ took \subseteq ns /\ \A p \in ns \ took : registries[p] = Missing
    /\ SameBut(agents', agents)
    /\ \A a \in DOMAIN agents, n \in Names : agents'[a].holds[n] =
          IF n \in ns THEN Missing ELSE agents[a].holds[n]

LEMMA UnlinkSkillIs ==
  ASSUME FilesFit, RegistriesFit, NEW s \in Skills, UnlinkSkill(s)
  PROVE  \/ registries[s] = Missing /\ UNCHANGED <<registries, agents, prints, unseen>>
         \/ PartsTaken({s}, {s})
<1>1. CASE registries[s] = Missing
  BY <1>1 DEF UnlinkSkill
<1>2. CASE registries[s] # Missing
  <2>1. /\ registries' = [registries EXCEPT ![s] = Missing]
        /\ prints' = Forgotten({s}) /\ unseen' = unseen \ {s} /\ agents' = TakenFrom(agents, {s})
    BY <1>2 DEF UnlinkSkill
  <2>2. registries' = [p \in Parts |-> IF p \in {s} THEN Missing ELSE registries[p]]
    BY <2>1 DEF RegistriesFit
  <2>3. AreAgents(agents)
    BY DEF RegistriesFit
  <2>4. /\ SameBut(TakenFrom(agents, {s}), agents)
        /\ \A a \in DOMAIN agents, n \in Names : TakenFrom(agents, {s})[a].holds[n] =
              IF n \in {s} THEN Missing ELSE agents[a].holds[n]
    BY <2>3, TakenFits
  <2>5. \A p \in {s} \ {s} : registries[p] = Missing
    OBVIOUS
  <2>. QED  BY <2>1, <2>2, <2>4, <2>5 DEF PartsTaken
<1>. QED  BY <1>1, <1>2

LEMMA UnlinkFlowIs ==
  ASSUME FilesFit, RegistriesFit, NEW f \in Flows, UnlinkFlow(f)
  PROVE  PartsTaken(Flows, {g \in Flows : registries[g] # Missing})
<1>1. AreAgents(agents)
  BY DEF RegistriesFit
<1>. QED  BY <1>1, TakenFits DEF PartsTaken, UnlinkFlow

-----------------------------------------------------------------------------
(***************************************************************************)
(* What the start, the requests and the tools make of the agents.          *)
(***************************************************************************)
AgentsBooted(as, list) ==
    /\ AreAgents(as) /\ DOMAIN as = Ids(list)
    /\ \A a \in DOMAIN as :
          /\ as[a].object = 1 /\ as[a].text = EntryOf(list, a).text
          /\ \A p \in Parts : as[a].holds[p] \in {Missing, Readable(p)}
          /\ \A b \in Agents : as[a].holds[b] = Missing \/ (b \in DOMAIN as /\ as[a].holds[b] = 1)

LEMMA BootedIs ==
  ASSUME content \in [Parts -> 0..3], built \in Nat, NEW list \in Lists
  PROVE  AgentsBooted(Booted(list), list)
<1>. DEFINE skills == [p \in Parts |-> IF p \in Skills THEN Readable(p) ELSE Missing]
            before(a) == [b \in {list[i].id : i \in 1..PlaceOf(list, a) - 1} |-> 1]
            new(a) == Hydrated(EntryOf(list, a), skills, before(a))
            as == [a \in Ids(list) |-> [new(a) EXCEPT !.object = 1]]
<1>1. Booted(list) = as
  BY DEF Booted
<1>2. DOMAIN as = Ids(list) /\ Ids(list) \subseteq Agents
  BY IdsAreAgents
<1>3. \A p \in Parts : skills[p] \in {Missing, Readable(p)} /\ skills[p] \in Nat
  BY ReadableFits DEF Missing
<1>4. skills \in [Parts -> Nat]
  BY <1>3
<1>5. ASSUME NEW a \in Ids(list)
      PROVE  /\ as[a] \in Agent /\ as[a].object = 1 /\ as[a].text = EntryOf(list, a).text
             /\ \A p \in Parts : as[a].holds[p] \in {Missing, Readable(p)}
             /\ \A b \in Agents : as[a].holds[b] = Missing \/ (b \in Ids(list) /\ as[a].holds[b] = 1)
  <2>. DEFINE e == EntryOf(list, a)
              objects == before(a)
              h == Hydrated(e, skills, objects)
  <2>1. e \in Entry /\ PlaceOf(list, a) \in 1..Len(list) /\ Len(list) \in Nat
        /\ DOMAIN list = 1..Len(list)
    BY PlaceIsOne, LenProperties DEF Lists
  <2>2. \A b \in DOMAIN objects : objects[b] = 1 /\ objects[b] \in Nat
    OBVIOUS
  <2>3. DOMAIN objects \subseteq Ids(list)
    BY <2>1 DEF Ids
  <2>4. as[a] = [h EXCEPT !.object = 1]
    OBVIOUS
  <2>. HIDE DEF as, e, objects, skills
  <2>5. /\ h \in Agent /\ h.text = e.text
        /\ \A n \in Names : h.holds[n] = IF n \in e.uses THEN Registered(n, skills, objects) ELSE Missing
    BY <1>4, <2>1, <2>2, HydratedFits
  <2>. HIDE DEF h
  <2>6. as[a] \in Agent /\ as[a].object = 1 /\ as[a].text = e.text /\ as[a].holds = h.holds
    BY <2>4, <2>5 DEF Agent
  <2>7. \A p \in Parts : h.holds[p] \in {Missing, Readable(p)}
    BY <1>3, <2>5, NamesAre DEF Registered
  <2>8. \A b \in Agents : h.holds[b] = Missing \/ (b \in Ids(list) /\ h.holds[b] = 1)
    BY <2>2, <2>3, <2>5, NamesAre DEF Registered
  <2>. QED  BY <2>6, <2>7, <2>8 DEF e
<1>. HIDE DEF as
<1>. QED  BY <1>1, <1>2, <1>5 DEF AgentsBooted, AreAgents

AgentPut(o, a) ==
    /\ a \in Agents /\ AreAgents(agents') /\ built' \in Nat /\ DOMAIN agents' = DOMAIN agents \cup {a}
    /\ \A b \in DOMAIN agents \ {a} : agents'[b] = agents[b]
    /\ (a \in DOMAIN agents /\ a \notin severed') => agents'[a].object = agents[a].object
    /\ \A n \in Names :
          \/ agents'[a].holds[n] = o.agent.holds[n]
          \/ a \in DOMAIN agents /\ agents'[a].holds[n] = agents[a].holds[n]

LEMMA PutAgentEndsIs ==
  ASSUME FilesFit, RegistriesFit, NEW i \in DOMAIN ops, PutAgentEnds(i), NEW a, a = ops[i].entry.id
  PROVE  ops[i] \in Ops /\ ops[i].kind = "put" /\ AgentPut(ops[i], a)
<1>. DEFINE o == ops[i]
            new == [o.agent EXCEPT !.object = built + 1]
            register == o.fresh \/ a \notin DOMAIN agents
            given == IF register THEN new ELSE Updated(agents, a, new)
<1>1. o \in Ops /\ o.kind = "put" /\ o.entry \in Entry /\ o.agent \in Agent /\ a \in Agents
  <2>1. o \in Ops /\ o.kind = "put"
    BY DEF FilesFit, OpsFit, PutAgentEnds
  <2>2. o.entry \in Entry /\ o.agent \in Agent
    BY <2>1, OpsAre
  <2>. QED  BY <2>1, <2>2 DEF Entry
<1>2. /\ agents' = Enrolled(agents, a, given)
      /\ built' = IF register THEN built + 1 ELSE built
      /\ severed' = IF register /\ a \in DOMAIN agents THEN severed \cup {a} ELSE severed
  BY DEF PutAgentEnds
<1>. HIDE DEF o
<1>3. new \in Agent /\ new.holds = o.agent.holds /\ built' \in Nat
  <2>1. built + 1 \in Nat /\ built \in Nat
    BY RegisteredFits
  <2>. QED  BY <1>1, <1>2, <2>1 DEF Agent
<1>. HIDE DEF new
<1>4. /\ given \in Agent
      /\ ~register => given.object = agents[a].object
      /\ \A n \in Names :
             given.holds[n] = new.holds[n] \/ (a \in DOMAIN agents /\ given.holds[n] = agents[a].holds[n])
  <2>1. CASE register
    BY <1>3, <2>1
  <2>2. CASE ~register
    <3>1. given = Updated(agents, a, new) /\ AreAgents(agents) /\ a \in DOMAIN agents
      BY <2>2 DEF RegistriesFit
    <3>. HIDE DEF given, register
    <3>. QED  BY <1>3, <2>2, <3>1, UpdatedFits
  <2>. QED  BY <2>1, <2>2
<1>5. /\ DOMAIN agents' = DOMAIN agents \cup {a} /\ agents'[a] = given
      /\ \A b \in DOMAIN agents \ {a} : agents'[b] = agents[b]
  <2>. HIDE DEF given
  <2>. QED  BY <1>2 DEF Enrolled
<1>6. a \in DOMAIN agents /\ a \notin severed' => ~register
  BY <1>2
<1>. HIDE DEF given, register
<1>7. AreAgents(agents')
  BY <1>1, <1>4, <1>5 DEF AreAgents, RegistriesFit
<1>. QED  BY <1>1, <1>3, <1>4, <1>5, <1>6, <1>7 DEF AgentPut, o

LEMMA RewireIs ==
  ASSUME RegistriesFit, NEW a \in Agents, NEW f \in Flows, Rewire(a, f)
  PROVE  /\ SameBut(agents', agents)
         /\ \A b \in DOMAIN agents, n \in Names :
               agents'[b].holds[n] = agents[b].holds[n] \/ agents'[b].holds[n] \in {Missing, registries[n]}
<1>. DEFINE to == IF agents[a].holds[f] # Missing THEN Missing ELSE registries[f]
            h == [agents[a].holds EXCEPT ![f] = to]
            new == [agents[a] EXCEPT !.holds = h]
<1>1. a \in DOMAIN agents /\ agents' = [agents EXCEPT ![a].holds[f] = to]
  BY DEF Rewire
<1>2. agents[a] \in Agent /\ agents[a].holds \in [Names -> Nat] /\ AreAgents(agents)
  BY <1>1, RegisteredFits DEF Agent, RegistriesFit
<1>3. f \in Names /\ f \in Parts /\ to \in Nat /\ to \in {Missing, registries[f]}
  BY NamesAre, PartsFit DEF Missing
<1>4. agents' = [agents EXCEPT ![a] = new]
  BY <1>1
<1>. HIDE DEF to
<1>5. h \in [Names -> Nat] /\ \A n \in Names : h[n] = IF n = f THEN to ELSE agents[a].holds[n]
  BY <1>2, <1>3
<1>. HIDE DEF h
<1>6. new \in Agent /\ new.object = agents[a].object /\ new.text = agents[a].text /\ new.holds = h
  BY <1>2, <1>5 DEF Agent
<1>. HIDE DEF new
<1>7. /\ DOMAIN agents' = DOMAIN agents
      /\ \A b \in DOMAIN agents : agents'[b] = IF b = a THEN new ELSE agents[b]
  BY <1>1, <1>4
<1>8. SameBut(agents', agents)
  BY <1>2, <1>6, <1>7 DEF SameBut, AreAgents
<1>. QED  BY <1>3, <1>5, <1>6, <1>7, <1>8

-----------------------------------------------------------------------------
(***************************************************************************)
(* Every step keeps the shape of files, events, requests and handlers.     *)
(***************************************************************************)
LEMMA FilesStayFit ==
  ASSUME FilesFit, RegistriesFit, ReloadNext
  PROVE  FilesFit'
<1>. USE DEF disk, store, memory, writes, history
<1>0. /\ entries \in Lists /\ half \in BOOLEAN /\ content \in [Parts -> 0..3] /\ pending \in [Files -> Events]
      /\ handlers \in Seq(Handlers) /\ OpsFit
      /\ AgentsFile \in Files /\ Parts \subseteq Files /\ Skills \subseteq Parts /\ Flows \subseteq Parts
      /\ Drafts \subseteq Entry
  BY ConfigReloadAssumption DEF FilesFit, Files, Parts
<1>1. UNCHANGED ops /\ (UNCHANGED changes \/ Change) => OpsFit'
  BY <1>0, WritingIs, NamesAre DEF OpsFit, Change
<1>2. ASSUME NEW e \in Drafts, EditEntry(e)  PROVE FilesFit'
  BY <1>0, <1>1, <1>2, PutIsList, WrittenIs DEF EditEntry, FilesFit
<1>3. ASSUME NEW a \in Agents, RemoveEntry(a)  PROVE FilesFit'
  BY <1>0, <1>1, <1>3, WithoutIsList, WrittenIs DEF RemoveEntry, FilesFit
<1>4. ASSUME RemoveAgentsFile  PROVE FilesFit'
  BY <1>0, <1>1, <1>4, NoEntries, WrittenIs DEF RemoveAgentsFile, FilesFit
<1>5. ASSUME NEW p \in Parts, NEW v \in {Missing} \cup Versions, EditPart(p, v)  PROVE FilesFit'
  <2>1. v \in 0..3
    BY DEF Missing, Versions
  <2>2. content' \in [Parts -> 0..3] /\ pending' \in [Files -> Events]
    BY <1>0, <1>5, <2>1, WrittenIs DEF EditPart
  <2>. QED  BY <1>0, <1>1, <1>5, <2>2 DEF EditPart, FilesFit
<1>6. ASSUME NEW p \in Parts, NEW v \in Versions, PutPart(p, v)  PROVE FilesFit'
  <2>. DEFINE o == [kind |-> "part", name |-> p, version |-> v]
  <2>1. o \in Ops
    BY DEF Ops
  <2>2. Change /\ Begin(o)
    BY <1>6 DEF PutPart
  <2>. HIDE DEF o
  <2>3. OpsFit'
    BY <1>0, <2>1, <2>2, BeginIs
  <2>. QED  BY <1>0, <1>6, <2>3 DEF PutPart, FilesFit, Torn
<1>7. ASSUME NEW p \in Parts, DeletePart(p)  PROVE FilesFit'
  BY <1>0, <1>1, <1>7, WrittenIs DEF DeletePart, FilesFit, Missing
<1>8. ASSUME NEW e \in Drafts, NEW fresh \in BOOLEAN, PutAgent(e, fresh)  PROVE FilesFit'
  <2>. DEFINE h == Hydrated(e, registries, Objects(agents))
              o == [kind |-> "put", entry |-> e, fresh |-> fresh, seen |-> entries, agent |-> h]
  <2>1. e \in Entry /\ h \in Agent
    BY <1>0, RegisteredFits, HydratedFits
  <2>2. Change /\ Begin(o) /\ (fresh \/ e.id \in Ids(entries))
    BY <1>8 DEF PutAgent
  <2>. HIDE DEF h
  <2>3. o \in Ops
    BY <1>0, <2>1, <2>2 DEF Ops
  <2>. HIDE DEF o
  <2>4. OpsFit'
    BY <1>0, <2>2, <2>3, BeginIs
  <2>. QED  BY <1>0, <1>8, <2>4 DEF PutAgent, FilesFit
<1>9. ASSUME NEW a \in Agents, DeleteAgent(a)  PROVE FilesFit'
  <2>. DEFINE o == [kind |-> "delete", name |-> a, seen |-> entries]
  <2>1. o \in Ops /\ Change /\ Begin(o)
    BY <1>0, <1>9 DEF Ops, DeleteAgent
  <2>. HIDE DEF o
  <2>2. OpsFit'
    BY <1>0, <2>1, BeginIs
  <2>. QED  BY <1>0, <1>9, <2>2 DEF DeleteAgent, FilesFit
<1>10. ASSUME NEW a \in Agents, NEW f \in Flows, Rewire(a, f)  PROVE FilesFit'
  <2>. DEFINE flows == {g \in Flows : agents'[a].holds[g] # Missing}
  <2>1. PICK o : o = [kind |-> "rewire", name |-> a, seen |-> entries, flows |-> flows]
    OBVIOUS
  <2>2. Change /\ (UNCHANGED ops \/ (a \in Ids(entries) /\ Begin(o)))
    BY <1>10, <2>1 DEF Rewire
  <2>3. flows \in SUBSET Flows
    OBVIOUS
  <2>. HIDE DEF flows
  <2>4. a \in Ids(entries) => o \in Ops
    BY <1>0, <2>1, <2>3 DEF Ops
  <2>5. OpsFit'
    BY <1>0, <1>1, <2>2, <2>4, BeginIs
  <2>. QED  BY <1>0, <1>10, <2>5 DEF Rewire, FilesFit
<1>11. ASSUME NEW i \in DOMAIN ops, PutPartEnds(i)  PROVE FilesFit'
  <2>1. ops[i].name \in Parts /\ ops[i].version \in 0..3
    BY <1>0, <1>11, OpsAre DEF OpsFit, PutPartEnds, Versions
  <2>2. OpsFit'
    BY <1>0, <1>11, OpEndsIs DEF PutPartEnds
  <2>3. content' \in [Parts -> 0..3] /\ pending' \in [Files -> Events]
    BY <1>0, <1>11, <2>1, WrittenIs DEF PutPartEnds
  <2>. QED  BY <1>0, <1>11, <2>2, <2>3 DEF PutPartEnds, FilesFit
<1>12. ASSUME NEW i \in DOMAIN ops, PutAgentEnds(i)  PROVE FilesFit'
  <2>. DEFINE o == ops[i]
              written == IF o.fresh THEN o.entry ELSE Patched(EntryOf(o.seen, o.entry.id), o.entry)
  <2>1. /\ o.seen \in Lists /\ o.entry \in Entry /\ o.entry.id \in Agents
        /\ o.fresh \/ o.entry.id \in Ids(o.seen)
    BY <1>0, <1>12, OpsAre DEF OpsFit, PutAgentEnds, Entry
  <2>2. OpsFit'
    BY <1>0, <1>12, OpEndsIs DEF PutAgentEnds, Persisted
  <2>4. /\ (entries' = Put(o.seen, written) /\ half' = FALSE) \/ UNCHANGED <<entries, half>>
        /\ pending' = Written(AgentsFile)
    BY <1>12 DEF PutAgentEnds, Persisted
  <2>5. written \in Entry
    <3>1. ~o.fresh => EntryOf(o.seen, o.entry.id) \in Entry
      BY <2>1, PlaceIsOne
    <3>. QED  BY <2>1, <3>1, PatchedFits
  <2>. HIDE DEF written
  <2>3. entries' \in Lists /\ half' \in BOOLEAN /\ pending' \in [Files -> Events]
    BY <1>0, <2>1, <2>4, <2>5, PutIsList, WrittenIs
  <2>. QED  BY <1>0, <1>12, <2>2, <2>3 DEF PutAgentEnds, FilesFit
<1>13. ASSUME NEW i \in DOMAIN ops, DeleteAgentEnds(i)  PROVE FilesFit'
  <2>1. ops[i].seen \in Lists /\ ops[i].name \in Ids(ops[i].seen)
    BY <1>0, <1>13, OpsAre DEF OpsFit, DeleteAgentEnds
  <2>2. OpsFit'
    BY <1>0, <1>13, OpEndsIs DEF DeleteAgentEnds, Persisted
  <2>3. entries' \in Lists /\ half' \in BOOLEAN /\ pending' \in [Files -> Events]
    BY <1>0, <1>13, <2>1, WithoutIsList, WrittenIs DEF DeleteAgentEnds, Persisted
  <2>. QED  BY <1>0, <1>13, <2>2, <2>3 DEF DeleteAgentEnds, FilesFit
<1>14. ASSUME NEW i \in DOMAIN ops, RewireEnds(i)  PROVE FilesFit'
  <2>. DEFINE o == ops[i]
              entry == EntryOf(o.seen, o.name)
              uses == (entry.uses \ Flows) \cup o.flows
              patched == [entry EXCEPT !.uses = uses]
  <2>1. o.seen \in Lists /\ o.name \in Ids(o.seen) /\ o.flows \subseteq Flows
    BY <1>0, <1>14, OpsAre DEF OpsFit, RewireEnds
  <2>2. OpsFit'
    BY <1>0, <1>14, OpEndsIs DEF RewireEnds, Persisted
  <2>3. entry \in Entry
    BY <2>1, PlaceIsOne
  <2>4. /\ (entries' = Put(o.seen, patched) /\ half' = FALSE) \/ UNCHANGED <<entries, half>>
        /\ pending' = Written(AgentsFile)
    BY <1>14 DEF RewireEnds, Persisted
  <2>. HIDE DEF entry
  <2>5. uses \subseteq Names
    BY <2>1, <2>3, NamesAre DEF Entry
  <2>. HIDE DEF uses
  <2>6. patched \in Entry
    BY <2>3, <2>5 DEF Entry
  <2>. HIDE DEF patched
  <2>7. entries' \in Lists /\ half' \in BOOLEAN /\ pending' \in [Files -> Events]
    BY <1>0, <2>1, <2>4, <2>6, PutIsList, WrittenIs
  <2>. QED  BY <1>0, <1>14, <2>2, <2>7 DEF RewireEnds, FilesFit
<1>15. ASSUME NEW f \in Files, Read(f)  PROVE FilesFit'
  <2>1. Emit(f, "upsert") /\ UNCHANGED <<entries, half, content, ops, changes>>
    BY <1>15 DEF Read
  <2>2. handlers' \in Seq(Handlers)
    BY <1>0, <1>15, ReadingFits, ReadIs
  <2>3. pending' \in [Files -> Events]
    BY <1>0, <2>1, EmitIs
  <2>. QED  BY <1>0, <1>1, <2>1, <2>2, <2>3 DEF FilesFit
<1>16. ASSUME NEW i \in DOMAIN handlers, ApplyAgents(i) \/ ApplySkill(i) \/ ApplyFlows(i)  PROVE FilesFit'
  <2>1. Served(i) /\ UNCHANGED <<entries, half, content, pending, ops, changes>>
    BY <1>16 DEF ApplyAgents, ApplySkill, ApplyFlows
  <2>. QED  BY <1>0, <1>1, <2>1, ServedAt DEF FilesFit
<1>17. ASSUME NEW f \in Files, Unlinked(f), UNCHANGED <<entries, half, content, ops, changes>>  PROVE FilesFit'
  <2>1. Emit(f, "unlink")
    BY <1>17 DEF Unlinked
  <2>2. pending' \in [Files -> Events]
    BY <1>0, <2>1, EmitIs
  <2>. QED  BY <1>0, <1>1, <1>17, <2>2, UnlinkedIs DEF FilesFit
<1>18. ASSUME UnlinkAgents  PROVE FilesFit'
  BY <1>0, <1>17, <1>18 DEF UnlinkAgents
<1>19. ASSUME NEW s \in Skills, UnlinkSkill(s)  PROVE FilesFit'
  BY <1>0, <1>17, <1>19 DEF UnlinkSkill
<1>20. ASSUME NEW f \in Flows, UnlinkFlow(f)  PROVE FilesFit'
  BY <1>0, <1>17, <1>20 DEF UnlinkFlow
<1>21. ASSUME Restart  PROVE FilesFit'
  <2>1. pending' \in [Files -> Events] /\ handlers' \in Seq(Handlers)
    BY <1>21 DEF Restart, Boot, Events
  <2>2. OpsFit'
    BY <1>0, <1>21 DEF Restart, Boot, OpsFit
  <2>3. entries' \in Lists
    BY <1>0, <1>21, BeginningsAreLists, ConfigReloadAssumption DEF Restart
  <2>. QED  BY <1>0, <1>21, <2>1, <2>2, <2>3 DEF Restart, FilesFit
<1>22. ASSUME NEW i \in DOMAIN ops, PersistBegins(i)  PROVE FilesFit'
  BY <1>0, <1>1, <1>22 DEF PersistBegins, FilesFit
<1>23. ASSUME ReadFails  PROVE FilesFit'
  <2>1. Emit(AgentsFile, "upsert") /\ UNCHANGED <<entries, half, content, handlers, ops, changes>>
    BY <1>23 DEF ReadFails
  <2>2. pending' \in [Files -> Events]
    BY <1>0, <2>1, EmitIs
  <2>. QED  BY <1>0, <1>1, <2>1, <2>2 DEF FilesFit
<1>. QED  BY <1>2, <1>3, <1>4, <1>5, <1>6, <1>7, <1>8, <1>9, <1>10, <1>11, <1>12, <1>13, <1>14,
             <1>15, <1>16, <1>18, <1>19, <1>20, <1>21, <1>22, <1>23 DEF ReloadNext, ByHand, ByRequest, Watcher

LEMMA EntriesAre ==
  ASSUME NEW list \in Lists, NEW a \in Ids(list)
  PROVE  /\ EntryOf(list, a) \in Entry /\ EntryOf(list, a).id = a /\ EntryOf(list, a).text \in Versions
         /\ EntryOf(list, a) # NoPrint
<1>1. EntryOf(list, a) \in Entry /\ EntryOf(list, a).id = a
  BY PlaceIsOne
<1>2. NoPrint \notin Entry
  BY ConfigReloadAssumption
<1>. QED  BY <1>1, <1>2 DEF Entry

LEMMA RegistriesStayFit ==
  ASSUME FilesFit, RegistriesFit, ReloadNext
  PROVE  RegistriesFit'
<1>. USE DEF disk, store, memory, writes, history
<1>0. /\ registries \in [Parts -> 0..2] /\ built \in Nat /\ AreAgents(agents) /\ DOMAIN prints = Names
      /\ \A a \in Agents : prints[a] \in {NoPrint} \cup Entry
      /\ \A p \in Parts : prints[p] \in {NoPrint} \cup Versions
      /\ unseen \subseteq Names /\ severed \subseteq Names /\ raced \in BOOLEAN
      /\ Agents \subseteq Names /\ Parts \subseteq Names /\ Flows \subseteq Parts /\ Skills \subseteq Parts
      /\ DOMAIN agents \subseteq Agents
  BY NamesAre DEF RegistriesFit, AreAgents
<1>1. ASSUME UNCHANGED <<memory, history>>  PROVE RegistriesFit'
  BY <1>0, <1>1 DEF RegistriesFit
<1>2. ASSUME ByHand  PROVE RegistriesFit'
  BY <1>1, <1>2 DEF ByHand, EditEntry, RemoveEntry, RemoveAgentsFile, EditPart
<1>3. ASSUME NEW p \in Parts, NEW v \in Versions, PutPart(p, v)  PROVE RegistriesFit'
  BY <1>1, <1>3 DEF PutPart
<1>4. ASSUME NEW p \in Parts, DeletePart(p)  PROVE RegistriesFit'
  <2>1. registries' \in [Parts -> 0..2]
    BY <1>0, <1>4 DEF DeletePart, Missing
  <2>2. unseen' \subseteq Names /\ severed' \subseteq Names
    BY <1>0, <1>4 DEF DeletePart
  <2>. QED  BY <1>0, <1>4, <2>1, <2>2 DEF DeletePart, RegistriesFit
<1>5. ASSUME NEW e \in Drafts, NEW fresh \in BOOLEAN, PutAgent(e, fresh)  PROVE RegistriesFit'
  BY <1>1, <1>5 DEF PutAgent
<1>6. ASSUME NEW a \in Agents, DeleteAgent(a)  PROVE RegistriesFit'
  BY <1>1, <1>6 DEF DeleteAgent
<1>7. ASSUME NEW a \in Agents, NEW f \in Flows, Rewire(a, f)  PROVE RegistriesFit'
  <2>1. AreAgents(agents')
    BY <1>7, RewireIs DEF SameBut
  <2>. QED  BY <1>0, <1>7, <2>1 DEF Rewire, RegistriesFit
<1>8. ASSUME NEW i \in DOMAIN ops, PutPartEnds(i)  PROVE RegistriesFit'
  <2>1. ops[i].name \in Parts /\ ops[i].version \in 0..2
    BY <1>8, OpsAre DEF FilesFit, OpsFit, PutPartEnds, Versions
  <2>2. registries' \in [Parts -> 0..2] /\ unseen' \subseteq Names
    BY <1>0, <1>8, <2>1 DEF PutPartEnds
  <2>. QED  BY <1>0, <1>8, <2>2 DEF PutPartEnds, RegistriesFit
<1>9. ASSUME NEW i \in DOMAIN ops, PutAgentEnds(i)  PROVE RegistriesFit'
  <2>. DEFINE a == ops[i].entry.id
  <2>1. a \in Agents /\ AreAgents(agents') /\ built' \in Nat
    BY <1>9, PutAgentEndsIs DEF AgentPut
  <2>2. /\ unseen' = unseen \cup {a} /\ (severed' = severed \/ severed' = severed \cup {a})
        /\ raced' \in BOOLEAN /\ UNCHANGED <<registries, prints>>
    BY <1>9 DEF PutAgentEnds
  <2>. HIDE DEF a
  <2>. QED  BY <1>0, <2>1, <2>2 DEF RegistriesFit
<1>10. ASSUME NEW i \in DOMAIN ops, DeleteAgentEnds(i)  PROVE RegistriesFit'
  <2>. DEFINE a == ops[i].name
  <2>1. a \in Agents
    BY <1>10, OpsAre, IdsAreAgents DEF FilesFit, OpsFit, DeleteAgentEnds
  <2>2. /\ agents' = Drop(agents, {a}) /\ unseen' = unseen \cup {a} /\ severed' = severed \cup {a}
        /\ UNCHANGED <<registries, built, prints, raced>>
    BY <1>10 DEF DeleteAgentEnds
  <2>. HIDE DEF a
  <2>3. AreAgents(agents')
    BY <1>0, <2>2 DEF AreAgents, Drop
  <2>. QED  BY <1>0, <2>1, <2>2, <2>3 DEF RegistriesFit
<1>11. ASSUME NEW i \in DOMAIN ops, RewireEnds(i)  PROVE RegistriesFit'
  BY <1>1, <1>11 DEF RewireEnds
<1>12. ASSUME NEW f \in Files, Read(f)  PROVE RegistriesFit'
  BY <1>1, <1>12 DEF Read
<1>13. ASSUME NEW i \in DOMAIN handlers, Served(i)  PROVE raced' \in BOOLEAN
  BY <1>13 DEF Served
<1>14. ASSUME NEW i \in DOMAIN handlers, ApplyAgents(i)  PROVE RegistriesFit'
  <2>. DEFINE list == handlers[i].seen
  <2>1. list \in Lists /\ AgentsApplied(list)
    BY <1>14, ApplyAgentsIs
  <2>2. Served(i) /\ UNCHANGED <<registries, severed>>
    BY <1>14 DEF ApplyAgents
  <2>. HIDE DEF list
  <2>3. /\ DOMAIN prints' = Names /\ Ids(list) \subseteq Agents /\ GoneFrom(list) \subseteq Agents
        /\ \A n \in Names : prints'[n] = IF n \in GoneFrom(list) THEN NoPrint
                                         ELSE IF n \in Ids(list) THEN EntryOf(list, n) ELSE prints[n]
    BY <1>0, <2>1, IdsAreAgents DEF AgentsApplied, GoneFrom
  <2>4. \A a \in Agents : prints'[a] \in {NoPrint} \cup Entry
    BY <1>0, <2>1, <2>3, EntriesAre
  <2>5. \A p \in Parts : prints'[p] \in {NoPrint} \cup Versions
    BY <1>0, <2>3, NamesAre
  <2>. QED  BY <1>0, <1>13, <2>1, <2>2, <2>3, <2>4, <2>5 DEF AgentsApplied, RegistriesFit
<1>15. ASSUME NEW i \in DOMAIN handlers, ApplySkill(i)  PROVE RegistriesFit'
  <2>. DEFINE s == handlers[i].file
              v == handlers[i].seen
  <2>1. Served(i) /\ UNCHANGED <<built, severed>>
    BY <1>15 DEF ApplySkill
  <2>2. /\ s \in Skills /\ v \in 0..2
        /\ UNCHANGED <<registries, agents, prints, unseen>> \/ (v # Missing /\ SkillApplied(s, v))
    BY <1>15, ApplySkillIs
  <2>. HIDE DEF s, v
  <2>3. CASE UNCHANGED <<registries, agents, prints, unseen>>
    BY <1>0, <1>13, <2>1, <2>3 DEF RegistriesFit
  <2>4. CASE v # Missing /\ SkillApplied(s, v)
    <3>1. s \in Parts /\ s \notin Agents /\ s \in Names /\ v \in Versions
      BY <2>2, <2>4, NamesAre DEF Missing, Versions
    <3>2. registries' \in [Parts -> 0..2] /\ AreAgents(agents') /\ unseen' \subseteq Names
      BY <1>0, <2>2, <2>4, <3>1 DEF SkillApplied, SameBut
    <3>3. DOMAIN prints' = Names /\ \A n \in Names : prints'[n] = IF n = s THEN v ELSE prints[n]
      BY <1>0, <2>4, <3>1 DEF SkillApplied
    <3>4. \A a \in Agents : prints'[a] \in {NoPrint} \cup Entry
      BY <1>0, <3>1, <3>3
    <3>5. \A p \in Parts : prints'[p] \in {NoPrint} \cup Versions
      BY <1>0, <3>1, <3>3
    <3>. QED  BY <1>0, <1>13, <2>1, <3>2, <3>3, <3>4, <3>5 DEF RegistriesFit
  <2>. QED  BY <2>2, <2>3, <2>4
<1>16. ASSUME NEW i \in DOMAIN handlers, ApplyFlows(i)  PROVE RegistriesFit'
  <2>. DEFINE seen == handlers[i].seen
  <2>1. Served(i) /\ UNCHANGED <<built, severed>>
    BY <1>16 DEF ApplyFlows
  <2>2. seen \in [Flows -> 0..2] /\ FlowsApplied(seen)
    BY <1>16, ApplyFlowsIs
  <2>. HIDE DEF seen
  <2>3. ChangedIn(seen) \subseteq Flows
    BY DEF ChangedIn
  <2>4. registries' \in [Parts -> 0..2]
    BY <1>0, <2>2, <2>3 DEF FlowsApplied
  <2>5. /\ DOMAIN prints' = Names
        /\ \A n \in Names : n \notin ChangedIn(seen) => prints'[n] = prints[n]
        /\ \A n \in ChangedIn(seen) : prints'[n] = IF seen[n] = Missing THEN NoPrint ELSE seen[n]
    BY <1>0, <2>2, <2>3 DEF FlowsApplied
  <2>6. \A a \in Agents : prints'[a] \in {NoPrint} \cup Entry
    BY <1>0, <2>3, <2>5, NamesAre
  <2>7. \A g \in Flows : seen[g] # Missing => seen[g] \in Versions
    BY <2>2 DEF Missing, Versions
  <2>8. \A p \in Parts : prints'[p] \in {NoPrint} \cup Versions
    BY <1>0, <2>3, <2>5, <2>7
  <2>9. unseen' \subseteq Names /\ AreAgents(agents')
    BY <1>0, <2>2 DEF FlowsApplied, SameBut
  <2>. QED  BY <1>0, <1>13, <2>1, <2>4, <2>5, <2>6, <2>8, <2>9 DEF RegistriesFit
<1>17. ASSUME NEW ns  PROVE /\ DOMAIN Forgotten(ns) = Names
                            /\ \A a \in Agents : Forgotten(ns)[a] \in {NoPrint} \cup Entry
                            /\ \A p \in Parts : Forgotten(ns)[p] \in {NoPrint} \cup Versions
  BY <1>0 DEF Forgotten
<1>18. ASSUME UnlinkAgents  PROVE RegistriesFit'
  <2>1. AreAgents(agents')
    BY <1>18 DEF UnlinkAgents, AreAgents
  <2>. QED  BY <1>0, <1>17, <1>18, <2>1 DEF UnlinkAgents, RegistriesFit
<1>19. ASSUME NEW ns, NEW took, PartsTaken(ns, took), UNCHANGED <<built, severed, raced>>
       PROVE  RegistriesFit'
  <2>1. registries' \in [Parts -> 0..2]
    BY <1>0, <1>19 DEF PartsTaken, Missing
  <2>. QED  BY <1>0, <1>17, <1>19, <2>1 DEF PartsTaken, SameBut, RegistriesFit
<1>20. ASSUME NEW s \in Skills, UnlinkSkill(s)  PROVE RegistriesFit'
  <2>1. UNCHANGED <<built, severed, raced>>
    BY <1>20 DEF UnlinkSkill
  <2>. QED  BY <1>1, <1>19, <1>20, <2>1, UnlinkSkillIs
<1>21. ASSUME NEW f \in Flows, UnlinkFlow(f)  PROVE RegistriesFit'
  <2>1. UNCHANGED <<built, severed, raced>>
    BY <1>21 DEF UnlinkFlow
  <2>. QED  BY <1>19, <1>21, <2>1, UnlinkFlowIs
<1>22. ASSUME Restart  PROVE RegistriesFit'
  <2>1. AreAgents(agents')
    <3>1. agents' = Booted(entries') /\ entries' \in Lists
      BY <1>22, FilesStayFit DEF Restart, Boot, FilesFit
    <3>. QED  BY <1>0, <3>1, BootedIs DEF AgentsBooted, FilesFit
  <2>2. registries' \in [Parts -> 0..2]
    BY <1>22, ReadableFits DEF Restart, Boot, FilesFit
  <2>3. built' = 1 /\ prints' = [n \in Names |-> NoPrint] /\ unseen' = {} /\ severed' = {} /\ raced' = FALSE
    BY <1>22 DEF Restart, Boot
  <2>4. /\ DOMAIN prints' = Names
        /\ \A a \in Agents : prints'[a] \in {NoPrint} \cup Entry
        /\ \A p \in Parts : prints'[p] \in {NoPrint} \cup Versions
    BY <2>3, NamesAre
  <2>. QED  BY <2>1, <2>2, <2>3, <2>4 DEF RegistriesFit
<1>23. ASSUME ReadFails \/ \E i \in DOMAIN ops : PersistBegins(i)  PROVE RegistriesFit'
  BY <1>1, <1>23 DEF ReadFails, PersistBegins
<1>. QED  BY <1>2, <1>3, <1>4, <1>5, <1>6, <1>7, <1>8, <1>9, <1>10, <1>11, <1>12, <1>14, <1>15,
             <1>16, <1>18, <1>20, <1>21, <1>22, <1>23 DEF ReloadNext, ByRequest, Watcher

-----------------------------------------------------------------------------
(***************************************************************************)
(* What is emitted is what became of the file.                             *)
(***************************************************************************)
LEMMA EventsStayTrue ==
  ASSUME FilesFit, EventsAreTrue, ReloadNext
  PROVE  EventsAreTrue'
<1>. USE DEF disk, store, memory, writes, history
<1>0. /\ content \in [Parts -> 0..3] /\ pending \in [Files -> Events] /\ OpsFit
      /\ AgentsFile \in Files /\ AgentsFile \notin Parts /\ Parts \subseteq Files
      /\ Skills \subseteq Parts /\ Flows \subseteq Parts
      /\ AgentsEvent /\ \A p \in Parts : PartEvent(p)
  BY NamesAre DEF FilesFit, EventsAreTrue, Files, Parts
<1>1. ASSUME UNCHANGED entries, pending'[AgentsFile] = pending[AgentsFile]  PROVE AgentsEvent'
  BY <1>0, <1>1 DEF AgentsEvent
<1>2. ASSUME NEW p \in Parts, content'[p] = content[p], pending'[p] = pending[p]
      PROVE  PartEvent(p)'
  BY <1>0, <1>2 DEF PartEvent
<1>3. ASSUME pending' = Written(AgentsFile), UNCHANGED content
      PROVE  EventsAreTrue'
  <2>1. AgentsEvent'
    BY <1>0, <1>3, WrittenIs DEF AgentsEvent
  <2>2. \A p \in Parts : pending'[p] = pending[p]
    BY <1>0, <1>3, WrittenIs
  <2>. QED  BY <1>2, <1>3, <2>1, <2>2 DEF EventsAreTrue
<1>4. ASSUME UNCHANGED <<entries, content, pending>>
      PROVE  EventsAreTrue'
  BY <1>1, <1>2, <1>4 DEF EventsAreTrue
<1>8. ASSUME NEW e \in Drafts, EditEntry(e)  PROVE EventsAreTrue'
  BY <1>3, <1>8 DEF EditEntry
<1>9. ASSUME NEW a \in Agents, RemoveEntry(a)  PROVE EventsAreTrue'
  BY <1>3, <1>9 DEF RemoveEntry
<1>10. ASSUME RemoveAgentsFile  PROVE EventsAreTrue'
  <2>1. AgentsEvent'
    BY <1>10 DEF RemoveAgentsFile, AgentsEvent
  <2>2. \A p \in Parts : pending'[p] = pending[p]
    BY <1>0, <1>10, WrittenIs DEF RemoveAgentsFile
  <2>. QED  BY <1>2, <1>10, <2>1, <2>2 DEF RemoveAgentsFile, EventsAreTrue
<1>11. ASSUME NEW p \in Parts, NEW v \in {Missing} \cup Versions, content' = [content EXCEPT ![p] = v],
              UNCHANGED entries, pending' = (IF v = Missing THEN Removed(p) ELSE Written(p))
       PROVE  EventsAreTrue'
  <2>1. v # Torn /\ content'[p] = v /\ \A q \in Parts : q # p => content'[q] = content[q]
    BY <1>0, <1>11 DEF Torn, Missing, Versions
  <2>2. AgentsEvent'
    BY <1>0, <1>1, <1>11, WrittenIs
  <2>3. ASSUME NEW q \in Parts, q # p  PROVE PartEvent(q)'
    <3>1. pending'[q] = pending[q] /\ content'[q] = content[q]
      BY <1>0, <1>11, <2>1, <2>3, WrittenIs
    <3>. QED  BY <1>2, <1>11, <2>3, <3>1
  <2>4. PartEvent(p)'
    <3>1. CASE v = Missing
      <4>1. Last(pending'[p]) = "unlink"
        BY <1>0, <1>11, <3>1, WrittenIs, EventsAre
      <4>. QED  BY <2>1, <3>1, <4>1 DEF PartEvent
    <3>2. CASE v # Missing
      <4>1. Last(pending'[p]) = "upsert"
        BY <1>0, <1>11, <3>2, WrittenIs
      <4>. QED  BY <2>1, <3>2, <4>1 DEF PartEvent
    <3>. QED  BY <3>1, <3>2
  <2>. QED  BY <2>2, <2>3, <2>4 DEF EventsAreTrue
<1>12. ASSUME NEW p \in Parts, NEW v \in {Missing} \cup Versions, EditPart(p, v)  PROVE EventsAreTrue'
  BY <1>11, <1>12 DEF EditPart
<1>13. ASSUME NEW p \in Parts, NEW v \in Versions, PutPart(p, v)  PROVE EventsAreTrue'
  <2>1. content' = [content EXCEPT ![p] = Torn] /\ UNCHANGED <<entries, pending>>
    BY <1>13 DEF PutPart
  <2>2. ASSUME NEW q \in Parts, q # p  PROVE PartEvent(q)'
    BY <1>0, <1>2, <2>1, <2>2
  <2>3. PartEvent(p)'
    <3>1. content'[p] = Torn /\ Torn # Missing
      BY <1>0, <2>1 DEF Torn, Missing
    <3>. QED  BY <3>1 DEF PartEvent
  <2>. QED  BY <1>1, <2>1, <2>2, <2>3 DEF EventsAreTrue
<1>14. ASSUME NEW p \in Parts, DeletePart(p)  PROVE EventsAreTrue'
  BY <1>11, <1>14 DEF DeletePart
<1>15. ASSUME NEW e \in Drafts, NEW fresh \in BOOLEAN, PutAgent(e, fresh)  PROVE EventsAreTrue'
  BY <1>4, <1>15 DEF PutAgent
<1>16. ASSUME NEW a \in Agents, DeleteAgent(a) \/ \E f \in Flows : Rewire(a, f)  PROVE EventsAreTrue'
  <2>1. UNCHANGED <<entries, content, pending>>
    BY <1>16 DEF DeleteAgent, Rewire
  <2>. QED  BY <1>4, <2>1
<1>17. ASSUME NEW i \in DOMAIN ops, PutPartEnds(i)  PROVE EventsAreTrue'
  <2>0. PICK p \in Parts, v \in Versions : p = ops[i].name /\ v = ops[i].version
    BY <1>0, <1>17, OpsAre DEF OpsFit, PutPartEnds
  <2>1. /\ v # Missing /\ UNCHANGED entries
        /\ content' = [content EXCEPT ![p] = v] \/ UNCHANGED content
        /\ pending' = IF content'[p] = Missing THEN pending ELSE Written(p)
    BY <1>17, <2>0 DEF PutPartEnds, Versions, Missing
  <2>2. CASE content' = [content EXCEPT ![p] = v]
    <3>1. pending' = Written(p)
      BY <1>0, <2>1, <2>2
    <3>. QED  BY <1>11, <2>1, <2>2, <3>1
  <2>3. CASE UNCHANGED content /\ content[p] = Missing
    BY <1>4, <2>1, <2>3
  <2>4. CASE UNCHANGED content /\ content[p] # Missing
    <3>1. pending' = Written(p)
      BY <2>1, <2>4
    <3>2. AgentsEvent'
      BY <1>0, <1>1, <2>1, <3>1, WrittenIs
    <3>3. ASSUME NEW q \in Parts, q # p  PROVE PartEvent(q)'
      <4>1. pending'[q] = pending[q]
        BY <1>0, <2>1, <3>1, <3>3, WrittenIs
      <4>. QED  BY <1>2, <2>4, <3>3, <4>1
    <3>4. PartEvent(p)'
      <4>1. Last(pending'[p]) = "upsert"
        BY <1>0, <2>1, <3>1, WrittenIs
      <4>. QED  BY <2>4, <4>1 DEF PartEvent
    <3>. QED  BY <3>2, <3>3, <3>4 DEF EventsAreTrue
  <2>. QED  BY <2>1, <2>2, <2>3, <2>4
<1>18. ASSUME NEW i \in DOMAIN ops, PutAgentEnds(i) \/ DeleteAgentEnds(i) \/ RewireEnds(i)
       PROVE  EventsAreTrue'
  BY <1>3, <1>18 DEF PutAgentEnds, DeleteAgentEnds, RewireEnds, Persisted
<1>19. ASSUME NEW f \in Files, NEW kind, Emit(f, kind), UNCHANGED <<entries, content>>
       PROVE  EventsAreTrue'
  <2>1. AgentsEvent'
    BY <1>0, <1>1, <1>19, EmitIs, EventsAre DEF AgentsEvent
  <2>2. ASSUME NEW p \in Parts, p # f  PROVE PartEvent(p)'
    BY <1>0, <1>2, <1>19, <2>2, EmitIs
  <2>3. ASSUME f \in Parts  PROVE PartEvent(f)'
    <3>1. CASE pending'[f] = <<>>
      BY <3>1 DEF PartEvent
    <3>2. CASE pending'[f] # <<>>
      <4>1. pending'[f] = <<"upsert">> /\ pending[f] = <<"unlink", "upsert">>
        BY <1>0, <1>19, <3>2, EmitIs
      <4>2. Last(pending'[f]) = "upsert" /\ Last(pending[f]) = "upsert" /\ pending[f] # <<>>
        BY <4>1, EventsAre
      <4>. QED  BY <1>0, <1>19, <2>3, <4>2 DEF PartEvent
    <3>. QED  BY <3>1, <3>2
  <2>. QED  BY <2>1, <2>2, <2>3 DEF EventsAreTrue
<1>20. ASSUME NEW f \in Files, Read(f)  PROVE EventsAreTrue'
  BY <1>19, <1>20 DEF Read
<1>21. ASSUME NEW i \in DOMAIN handlers, ApplyAgents(i) \/ ApplySkill(i) \/ ApplyFlows(i)
       PROVE  EventsAreTrue'
  <2>1. UNCHANGED <<entries, content, pending>>
    BY <1>21 DEF ApplyAgents, ApplySkill, ApplyFlows
  <2>. QED  BY <1>4, <2>1
<1>22. ASSUME UnlinkAgents  PROVE EventsAreTrue'
  BY <1>0, <1>19, <1>22 DEF UnlinkAgents, Unlinked
<1>23. ASSUME NEW s \in Skills, UnlinkSkill(s)  PROVE EventsAreTrue'
  BY <1>0, <1>19, <1>23 DEF UnlinkSkill, Unlinked
<1>24. ASSUME NEW f \in Flows, UnlinkFlow(f)  PROVE EventsAreTrue'
  BY <1>0, <1>19, <1>24 DEF UnlinkFlow, Unlinked
<1>25. ASSUME Restart  PROVE EventsAreTrue'
  <2>1. \A f \in Files : pending'[f] = <<>>
    BY <1>25 DEF Restart, Boot
  <2>. QED  BY <1>0, <2>1, EventsAre DEF EventsAreTrue, AgentsEvent, PartEvent
<1>5. ASSUME NEW i \in DOMAIN ops, PersistBegins(i)  PROVE EventsAreTrue'
  BY <1>4, <1>5 DEF PersistBegins
<1>6. ASSUME ReadFails  PROVE EventsAreTrue'
  BY <1>0, <1>19, <1>6 DEF ReadFails
<1>. QED  BY <1>5, <1>6, <1>8, <1>9, <1>10, <1>12, <1>13, <1>14, <1>15, <1>16, <1>17, <1>18, <1>20, <1>21,
             <1>22, <1>23, <1>24, <1>25 DEF ReloadNext, ByHand, ByRequest, Watcher

-----------------------------------------------------------------------------
(***************************************************************************)
(* A fingerprint stays that of what is registered.                         *)
(***************************************************************************)
LEMMA PrintsStayTrue ==
  ASSUME FilesFit, RegistriesFit, PrintsAreTrue, ReloadNext
  PROVE  PrintsAreTrue'
<1>. USE DEF disk, store, memory, writes, history
<1>0. /\ AreAgents(agents) /\ DOMAIN agents \subseteq Agents /\ DOMAIN prints = Names
      /\ registries \in [Parts -> 0..2] /\ Names = Agents \cup Parts
      /\ \A p \in Parts : p \notin Agents
      /\ \A p \in Parts : prints[p] \in {NoPrint} \cup Versions
      /\ Skills \subseteq Parts /\ Flows \subseteq Parts
      /\ \A n \in Names \ unseen : PrintTrue(n)
  BY NamesAre DEF RegistriesFit, AreAgents, PrintsAreTrue, Names, Parts
<1>1. ASSUME NEW n \in Names \ unseen, prints'[n] = prints[n],
             n \in Parts => registries'[n] = registries[n],
             n \in DOMAIN agents => n \in DOMAIN agents' /\ agents'[n].text = agents[n].text
      PROVE  PrintTrue(n)'
  BY <1>0, <1>1 DEF PrintTrue
<1>2. ASSUME UNCHANGED memory, unseen \subseteq unseen'  PROVE PrintsAreTrue'
  BY <1>1, <1>2 DEF PrintsAreTrue
<1>3. ASSUME ByHand \/ ReadFails \/ \E f \in Files : Read(f)  PROVE PrintsAreTrue'
  BY <1>2, <1>3 DEF ByHand, EditEntry, RemoveEntry, RemoveAgentsFile, EditPart, Read, ReadFails
<1>4. ASSUME \/ \E p \in Parts, v \in Versions : PutPart(p, v)
             \/ \E e \in Drafts, fresh \in BOOLEAN : PutAgent(e, fresh)
             \/ \E a \in Agents : DeleteAgent(a)
             \/ \E i \in DOMAIN ops : PersistBegins(i) \/ RewireEnds(i)
      PROVE  PrintsAreTrue'
  BY <1>2, <1>4 DEF PutPart, PutAgent, DeleteAgent, PersistBegins, RewireEnds
<1>5. ASSUME NEW p, NEW v, registries' = [registries EXCEPT ![p] = v], unseen' = unseen \cup {p},
             UNCHANGED <<agents, prints>>
      PROVE  PrintsAreTrue'
  BY <1>0, <1>1, <1>5 DEF PrintsAreTrue
<1>6. ASSUME NEW p \in Parts, DeletePart(p)  PROVE PrintsAreTrue'
  BY <1>5, <1>6 DEF DeletePart
<1>7. ASSUME NEW i \in DOMAIN ops, PutPartEnds(i)  PROVE PrintsAreTrue'
  BY <1>5, <1>7 DEF PutPartEnds
<1>8. ASSUME NEW a \in Agents, NEW f \in Flows, Rewire(a, f)  PROVE PrintsAreTrue'
  <2>1. UNCHANGED <<registries, prints, unseen>>
    BY <1>8 DEF Rewire
  <2>. QED  BY <1>1, <1>8, <2>1, RewireIs DEF SameBut, PrintsAreTrue
<1>9. ASSUME NEW i \in DOMAIN ops, PutAgentEnds(i)  PROVE PrintsAreTrue'
  <2>. DEFINE a == ops[i].entry.id
  <2>1. DOMAIN agents' = DOMAIN agents \cup {a} /\ \A b \in DOMAIN agents \ {a} : agents'[b] = agents[b]
    BY <1>9, PutAgentEndsIs DEF AgentPut
  <2>2. UNCHANGED <<registries, prints>> /\ unseen' = unseen \cup {a}
    BY <1>9 DEF PutAgentEnds
  <2>. HIDE DEF a
  <2>. QED  BY <1>1, <2>1, <2>2 DEF PrintsAreTrue
<1>10. ASSUME NEW i \in DOMAIN ops, DeleteAgentEnds(i)  PROVE PrintsAreTrue'
  <2>. DEFINE a == ops[i].name
  <2>1. /\ agents' = Drop(agents, {a}) /\ unseen' = unseen \cup {a}
        /\ UNCHANGED <<registries, prints>>
    BY <1>10 DEF DeleteAgentEnds
  <2>. HIDE DEF a
  <2>2. DOMAIN agents' = DOMAIN agents \ {a} /\ \A b \in DOMAIN agents \ {a} : agents'[b] = agents[b]
    BY <2>1 DEF Drop
  <2>. QED  BY <1>1, <2>1, <2>2 DEF PrintsAreTrue
<1>11. ASSUME NEW i \in DOMAIN handlers, ApplyAgents(i)  PROVE PrintsAreTrue'
  <2>. DEFINE list == handlers[i].seen
  <2>1. list \in Lists /\ AgentsApplied(list) /\ UNCHANGED registries
    BY <1>11, ApplyAgentsIs DEF ApplyAgents
  <2>. HIDE DEF list
  <2>2. /\ NewIn(list) \subseteq Ids(list) /\ Ids(list) \subseteq Agents
        /\ GoneFrom(list) = DOMAIN agents \ Ids(list)
        /\ \A a \in Ids(list) : a \notin NewIn(list) => prints[a] = EntryOf(list, a)
    BY <2>1, IdsAreAgents DEF NewIn, GoneFrom
  <2>3. \A n \in Names : prints'[n] = IF n \in GoneFrom(list) THEN NoPrint
                                      ELSE IF n \in Ids(list) THEN EntryOf(list, n) ELSE prints[n]
    BY <2>1 DEF AgentsApplied
  <2>4. ASSUME NEW n \in Names \ unseen'  PROVE PrintTrue(n)'
    <3>1. n \in unseen => n \in GoneFrom(list) \cup NewIn(list)
      BY <2>1, <2>4 DEF AgentsApplied
    <3>2. CASE n \in GoneFrom(list)
      BY <2>3, <3>2 DEF PrintTrue
    <3>3. CASE n \in NewIn(list)
      <4>1. n \in DOMAIN agents' /\ agents'[n].text = EntryOf(list, n).text
        BY <2>1, <2>2, <3>3 DEF AgentsApplied
      <4>2. n \notin GoneFrom(list) /\ n \in Ids(list) /\ n \notin Parts
        BY <1>0, <2>2, <3>3
      <4>. QED  BY <2>3, <4>1, <4>2 DEF PrintTrue
    <3>4. CASE n \notin GoneFrom(list) /\ n \notin NewIn(list)
      <4>1. prints'[n] = prints[n] /\ n \in Names \ unseen
        BY <2>2, <2>3, <3>1, <3>4
      <4>2. n \in DOMAIN agents => n \in DOMAIN agents' /\ agents'[n].text = agents[n].text
        BY <2>1, <3>4 DEF AgentsApplied
      <4>. QED  BY <1>1, <2>1, <4>1, <4>2
    <3>. QED  BY <3>2, <3>3, <3>4
  <2>. QED  BY <2>4 DEF PrintsAreTrue
<1>12. ASSUME NEW i \in DOMAIN handlers, ApplySkill(i)  PROVE PrintsAreTrue'
  <2>1. PICK s \in Skills, v \in 0..2 :
           UNCHANGED <<registries, agents, prints, unseen>> \/ (v # Missing /\ SkillApplied(s, v))
    BY <1>12, ApplySkillIs
  <2>2. CASE UNCHANGED <<registries, agents, prints, unseen>>
    BY <1>1, <2>2 DEF PrintsAreTrue
  <2>3. CASE SkillApplied(s, v)
    <3>1. s \in Parts /\ s \in Names
      BY <1>0, <2>1
    <3>2. PrintTrue(s)'
      BY <1>0, <2>3, <3>1 DEF SkillApplied, PrintTrue
    <3>3. ASSUME NEW n \in Names \ unseen', n # s  PROVE PrintTrue(n)'
      <4>1. n \in Names \ unseen /\ prints'[n] = prints[n] /\ n \in Parts => registries'[n] = registries[n]
        BY <1>0, <2>3, <3>3 DEF SkillApplied
      <4>2. prints'[n] = prints[n] /\ n \in Names \ unseen
        BY <1>0, <2>3, <3>3 DEF SkillApplied
      <4>. QED  BY <1>0, <1>1, <2>3, <4>1, <4>2 DEF SkillApplied, SameBut
    <3>. QED  BY <3>2, <3>3 DEF PrintsAreTrue
  <2>. QED  BY <2>1, <2>2, <2>3
<1>13. ASSUME NEW i \in DOMAIN handlers, ApplyFlows(i)  PROVE PrintsAreTrue'
  <2>. DEFINE seen == handlers[i].seen
  <2>1. seen \in [Flows -> 0..2] /\ FlowsApplied(seen)
    BY <1>13, ApplyFlowsIs
  <2>. HIDE DEF seen
  <2>2. ChangedIn(seen) \subseteq Flows
    BY DEF ChangedIn
  <2>3. ASSUME NEW n \in Names \ unseen'  PROVE PrintTrue(n)'
    <3>1. CASE n \in ChangedIn(seen)
      <4>1. n \in Parts /\ n \in Names
        BY <1>0, <2>2, <3>1
      <4>. QED  BY <2>1, <3>1, <4>1 DEF FlowsApplied, PrintTrue
    <3>2. CASE n \notin ChangedIn(seen)
      <4>1. n \in Names \ unseen /\ prints'[n] = prints[n]
        BY <2>1, <2>3, <3>2 DEF FlowsApplied
      <4>2. n \in Parts => registries'[n] = registries[n]
        BY <2>1, <3>2 DEF FlowsApplied
      <4>. QED  BY <1>1, <2>1, <4>1, <4>2 DEF FlowsApplied, SameBut
    <3>. QED  BY <3>1, <3>2
  <2>. QED  BY <2>3 DEF PrintsAreTrue
<1>14. ASSUME UnlinkAgents  PROVE PrintsAreTrue'
  <2>1. /\ UNCHANGED registries /\ unseen' = unseen \ DOMAIN agents
        /\ \A n \in Names : prints'[n] = IF n \in DOMAIN agents THEN NoPrint ELSE prints[n]
    BY <1>14 DEF UnlinkAgents, Forgotten
  <2>2. ASSUME NEW n \in Names \ unseen'  PROVE PrintTrue(n)'
    <3>1. CASE n \in DOMAIN agents
      BY <2>1, <3>1 DEF PrintTrue
    <3>2. CASE n \notin DOMAIN agents
      BY <1>1, <2>1, <2>2, <3>2
    <3>. QED  BY <3>1, <3>2
  <2>. QED  BY <2>2 DEF PrintsAreTrue
<1>15. ASSUME NEW ns, NEW took, PartsTaken(ns, took)  PROVE PrintsAreTrue'
  <2>1. /\ unseen' = unseen \ took /\ took \subseteq ns /\ \A p \in ns \ took : registries[p] = Missing
        /\ \A n \in Names : prints'[n] = IF n \in took THEN NoPrint ELSE prints[n]
        /\ \A p \in Parts : registries'[p] = IF p \in ns THEN Missing ELSE registries[p]
    BY <1>15 DEF PartsTaken, Forgotten
  <2>2. ASSUME NEW n \in Names \ unseen'  PROVE PrintTrue(n)'
    <3>1. CASE n \in took
      BY <2>1, <3>1 DEF PrintTrue
    <3>2. CASE n \notin took
      <4>1. n \in Names \ unseen /\ prints'[n] = prints[n]
        BY <2>1, <2>2, <3>2
      <4>2. n \in Parts => registries'[n] = registries[n]
        BY <2>1, <3>2
      <4>. QED  BY <1>1, <1>15, <4>1, <4>2 DEF PartsTaken, SameBut
    <3>. QED  BY <3>1, <3>2
  <2>. QED  BY <2>2 DEF PrintsAreTrue
<1>16. ASSUME NEW s \in Skills, UnlinkSkill(s)  PROVE PrintsAreTrue'
  <2>1. CASE UNCHANGED <<registries, agents, prints, unseen>>
    BY <1>1, <2>1 DEF PrintsAreTrue
  <2>2. CASE PartsTaken({s}, {s})
    BY <1>15, <2>2
  <2>. QED  BY <1>16, <2>1, <2>2, UnlinkSkillIs
<1>17. ASSUME NEW f \in Flows, UnlinkFlow(f)  PROVE PrintsAreTrue'
  BY <1>15, <1>17, UnlinkFlowIs
<1>18. ASSUME Restart  PROVE PrintsAreTrue'
  BY <1>18 DEF Restart, Boot, PrintsAreTrue, PrintTrue
<1>. QED  BY <1>3, <1>4, <1>6, <1>7, <1>8, <1>9, <1>10, <1>11, <1>12, <1>13, <1>14, <1>16,
             <1>17, <1>18 DEF ReloadNext, ByRequest, Watcher

-----------------------------------------------------------------------------
(***************************************************************************)
(* The agents follow their file.                                           *)
(***************************************************************************)
LEMMA AgentsStayFollowing ==
  ASSUME FilesFit, RegistriesFit, EventsAreTrue, PrintsAreTrue, AgentsFollow, ReloadNext
  PROVE  AgentsFollow'
<1>. USE DEF disk, store, memory, writes, history
<1>. DEFINE U == {AgentsFile}
<1>0. /\ pending \in [Files -> Events] /\ handlers \in Seq(Handlers) /\ entries \in Lists
      /\ content \in [Parts -> 0..3] /\ built \in Nat
      /\ U \in Updaters /\ AgentsFile \in Files /\ Updater(AgentsFile) = U
      /\ DOMAIN agents \subseteq Agents /\ AreAgents(agents)
      /\ \A p \in Parts : p \in Files /\ p # AgentsFile /\ p \notin U /\ p \notin Agents
      /\ Skills \subseteq Parts /\ Flows \subseteq Parts
      /\ \A a \in Agents : a \in Names /\ a \notin Parts
      /\ Ids(entries) \subseteq Agents
  BY NamesAre, UpdatersAre, IdsAreAgents DEF FilesFit, RegistriesFit, AreAgents, Files, Updaters
<1>1. ASSUME UNCHANGED store, pending'[AgentsFile] = pending[AgentsFile], raced => raced',
             LastSeen(U) \subseteq LastSeen(U)', AllLate(U) => AllLate(U)',
             DOMAIN agents' = DOMAIN agents, \A a \in DOMAIN agents : agents'[a].text = agents[a].text,
             \A a \in Agents : a \in unseen => a \in unseen'
      PROVE  AgentsFollow'
  <2>1. \A a \in Agents : AgentAgrees(a) => AgentAgrees(a)'
    BY <1>1 DEF AgentAgrees
  <2>2. SUFFICES ASSUME ~raced', ~half', pending'[AgentsFile] = <<>>
                 PROVE  \/ entries' \in LastSeen(U)'
                        \/ AllLate(U)' /\ \A a \in Agents \ unseen' : AgentAgrees(a)'
    BY DEF AgentsFollow
  <2>3. \/ entries \in LastSeen(U)
        \/ AllLate(U) /\ \A a \in Agents \ unseen : AgentAgrees(a)
    BY <1>1, <2>2 DEF AgentsFollow
  <2>. QED  BY <1>1, <2>1, <2>3
<1>2. ASSUME UNCHANGED <<store, handlers>>, pending'[AgentsFile] = pending[AgentsFile], raced => raced',
             DOMAIN agents' = DOMAIN agents, \A a \in DOMAIN agents : agents'[a].text = agents[a].text,
             unseen \subseteq unseen'
      PROVE  AgentsFollow'
  <2>1. LastSeen(U)' = LastSeen(U) /\ AllLate(U)' = AllLate(U)
    BY <1>2, HandlersStay
  <2>. QED  BY <1>1, <1>2, <2>1
<1>3. ASSUME pending' = Written(AgentsFile) \/ pending' = Removed(AgentsFile)  PROVE AgentsFollow'
  BY <1>0, <1>3, WrittenIs DEF AgentsFollow
<1>4. ASSUME NEW p \in Parts, pending' = Written(p) \/ pending' = Removed(p)
      PROVE  pending'[AgentsFile] = pending[AgentsFile]
  BY <1>0, <1>4, WrittenIs
<1>5. ASSUME NEW e \in Drafts, EditEntry(e)  PROVE AgentsFollow'
  BY <1>3, <1>5 DEF EditEntry
<1>6. ASSUME NEW a \in Agents, RemoveEntry(a)  PROVE AgentsFollow'
  BY <1>3, <1>6 DEF RemoveEntry
<1>7. ASSUME RemoveAgentsFile  PROVE AgentsFollow'
  BY <1>3, <1>7 DEF RemoveAgentsFile
<1>8. ASSUME NEW p \in Parts, NEW v \in {Missing} \cup Versions, EditPart(p, v)  PROVE AgentsFollow'
  BY <1>2, <1>4, <1>8 DEF EditPart
<1>9. ASSUME NEW p \in Parts, NEW v \in Versions, PutPart(p, v)  PROVE AgentsFollow'
  BY <1>2, <1>9 DEF PutPart
<1>10. ASSUME NEW p \in Parts, DeletePart(p)  PROVE AgentsFollow'
  BY <1>2, <1>4, <1>10 DEF DeletePart
<1>11. ASSUME NEW e \in Drafts, NEW fresh \in BOOLEAN, PutAgent(e, fresh)  PROVE AgentsFollow'
  BY <1>2, <1>11 DEF PutAgent
<1>12. ASSUME NEW a \in Agents, DeleteAgent(a)  PROVE AgentsFollow'
  BY <1>2, <1>12 DEF DeleteAgent
<1>13. ASSUME NEW a \in Agents, NEW f \in Flows, Rewire(a, f)  PROVE AgentsFollow'
  <2>1. UNCHANGED <<store, handlers, pending, raced, unseen>>
    BY <1>13 DEF Rewire
  <2>2. SameBut(agents', agents)
    BY <1>13, RewireIs
  <2>. QED  BY <1>2, <2>1, <2>2 DEF SameBut
<1>14. ASSUME NEW i \in DOMAIN ops, PutPartEnds(i)  PROVE AgentsFollow'
  <2>1. ops[i].name \in Parts
    BY <1>14, OpsAre DEF FilesFit, OpsFit, PutPartEnds
  <2>2. UNCHANGED pending \/ pending' = Written(ops[i].name)
    BY <1>14 DEF PutPartEnds
  <2>. QED  BY <1>2, <1>4, <1>14, <2>1, <2>2 DEF PutPartEnds
<1>15. ASSUME NEW i \in DOMAIN ops, PutAgentEnds(i) \/ DeleteAgentEnds(i)  PROVE AgentsFollow'
  BY <1>3, <1>15 DEF PutAgentEnds, DeleteAgentEnds, Persisted
<1>16. ASSUME NEW i \in DOMAIN ops, RewireEnds(i)  PROVE AgentsFollow'
  BY <1>3, <1>16 DEF RewireEnds, Persisted
<1>17. ASSUME NEW f \in Files, Read(f)  PROVE AgentsFollow'
  <2>1. /\ \A F \in Updaters : f \in F => Reading(f) \in LastSeen(F)'
        /\ \A F \in Updaters : f \notin F =>
               LastSeen(F) \subseteq LastSeen(F)' /\ (AllLate(F) => AllLate(F)')
    BY <1>0, <1>17, ReadingFits, ReadIs
  <2>2. Emit(f, "upsert") /\ UNCHANGED <<store, content, memory, unseen, raced>>
    BY <1>17 DEF Read
  <2>3. CASE f = AgentsFile
    <3>1. Reading(f) = entries'
      BY <2>2, <2>3 DEF Reading
    <3>2. entries' \in LastSeen(U)'
      BY <1>0, <2>1, <2>3, <3>1
    <3>. QED  BY <3>2 DEF AgentsFollow
  <2>4. CASE f # AgentsFile
    <3>1. pending'[AgentsFile] = pending[AgentsFile]
      BY <1>0, <2>2, <2>4, EmitIs
    <3>2. LastSeen(U) \subseteq LastSeen(U)' /\ (AllLate(U) => AllLate(U)')
      BY <1>0, <2>1, <2>4
    <3>. QED  BY <1>1, <2>2, <3>1, <3>2
  <2>. QED  BY <2>3, <2>4
<1>18. ASSUME NEW i \in DOMAIN handlers, ApplyAgents(i)  PROVE AgentsFollow'
  <2>1. /\ handlers[i].file = AgentsFile /\ Served(i)
        /\ UNCHANGED <<store, pending, registries>>
    BY <1>18 DEF ApplyAgents
  <2>2. PICK list : list = handlers[i].seen
    OBVIOUS
  <2>3. list \in Lists /\ AgentsApplied(list)
    BY <1>18, <2>2, ApplyAgentsIs
  <2>4. raced => raced'
    BY <2>1 DEF Served
  <2>5. SUFFICES ASSUME ~raced', ~half', pending'[AgentsFile] = <<>>
                 PROVE  \/ entries' \in LastSeen(U)'
                        \/ AllLate(U)' /\ \A a \in Agents \ unseen' : AgentAgrees(a)'
    BY DEF AgentsFollow
  <2>6. entries \in LastSeen(U) \/ AllLate(U)
    BY <2>1, <2>4, <2>5 DEF AgentsFollow
  <2>7. Reading(AgentsFile) = entries
    BY DEF Reading
  <2>8. entries \in LastSeen(U)' \/ (list = entries /\ AllLate(U)')
    BY <1>0, <2>1, <2>2, <2>5, <2>6, <2>7, ServedIs
  <2>9. ASSUME list = entries, NEW a \in Agents \ unseen'
        PROVE  AgentAgrees(a)'
    <3>1. /\ NewIn(list) \subseteq Ids(list) /\ GoneFrom(list) = DOMAIN agents \ Ids(list)
          /\ \A b \in Ids(list) : b \notin NewIn(list) => prints[b] = EntryOf(list, b)
      BY DEF NewIn, GoneFrom
    <3>2. /\ DOMAIN agents' = (DOMAIN agents \cup NewIn(list)) \ GoneFrom(list)
          /\ \A b \in DOMAIN agents' :
                agents'[b].text = IF b \in NewIn(list) THEN EntryOf(list, b).text ELSE agents[b].text
          /\ unseen' = unseen \ (GoneFrom(list) \cup NewIn(list))
      BY <2>3 DEF AgentsApplied
    <3>3. CASE a \notin Ids(list)
      BY <2>1, <2>9, <3>1, <3>2, <3>3 DEF AgentAgrees
    <3>4. CASE a \in NewIn(list)
      <4>1. a \in DOMAIN agents' /\ agents'[a].text = EntryOf(list, a).text /\ a \in Ids(list)
        BY <3>1, <3>2, <3>4
      <4>. QED  BY <2>1, <2>9, <4>1 DEF AgentAgrees
    <3>5. CASE a \in Ids(list) /\ a \notin NewIn(list)
      <4>1. a \in Names \ unseen /\ a \notin Parts
        BY <1>0, <2>9, <3>1, <3>2, <3>5
      <4>2. prints[a] = EntryOf(list, a) /\ prints[a] # NoPrint
        BY <2>3, <3>1, <3>5, EntriesAre
      <4>3. a \in DOMAIN agents /\ agents[a].text = EntryOf(list, a).text
        BY <4>1, <4>2 DEF PrintsAreTrue, PrintTrue
      <4>4. a \in DOMAIN agents' /\ agents'[a].text = EntryOf(list, a).text
        BY <3>1, <3>2, <3>5, <4>3
      <4>. QED  BY <2>1, <2>9, <3>5, <4>4 DEF AgentAgrees
    <3>. QED  BY <3>1, <3>3, <3>4, <3>5
  <2>. QED  BY <2>1, <2>8, <2>9
<1>19. ASSUME NEW i \in DOMAIN handlers, handlers[i].file \in Parts, Served(i),
              UNCHANGED <<store, pending>>, SameBut(agents', agents),
              \A a \in Agents : a \in unseen => a \in unseen'
       PROVE  AgentsFollow'
  <2>1. raced => raced'
    BY <1>19 DEF Served
  <2>2. LastSeen(U) \subseteq LastSeen(U)' /\ (AllLate(U) => AllLate(U)')
    <3>1. handlers[i].file \notin U
      BY <1>0, <1>19
    <3>. QED  BY <1>0, <1>19, <3>1, ServedIs
  <2>. QED  BY <1>1, <1>19, <2>1, <2>2 DEF SameBut
<1>20. ASSUME NEW i \in DOMAIN handlers, ApplySkill(i)  PROVE AgentsFollow'
  <2>1. handlers[i].file \in Parts /\ Served(i) /\ UNCHANGED <<store, pending>>
    BY <1>0, <1>20, ApplySkillIs DEF ApplySkill
  <2>2. CASE UNCHANGED <<agents, unseen>>
    BY <1>0, <1>19, <2>1, <2>2 DEF SameBut
  <2>3. CASE SkillApplied(handlers[i].file, handlers[i].seen)
    BY <1>0, <1>19, <2>1, <2>3 DEF SkillApplied
  <2>. QED  BY <1>20, <2>2, <2>3, ApplySkillIs
<1>21. ASSUME NEW i \in DOMAIN handlers, ApplyFlows(i)  PROVE AgentsFollow'
  <2>1. handlers[i].file \in Parts /\ Served(i) /\ UNCHANGED <<store, pending>>
    BY <1>0, <1>21, ApplyFlowsIs DEF ApplyFlows
  <2>2. FlowsApplied(handlers[i].seen)
    BY <1>21, ApplyFlowsIs
  <2>3. SameBut(agents', agents) /\ \A a \in Agents : a \in unseen => a \in unseen'
    BY <1>0, <2>2 DEF FlowsApplied, ChangedIn
  <2>. QED  BY <1>19, <2>1, <2>3
<1>22. ASSUME UnlinkAgents  PROVE AgentsFollow'
  <2>1. Unlinked(AgentsFile) /\ UNCHANGED <<store, raced>> /\ DOMAIN agents' = {}
    BY <1>22 DEF UnlinkAgents
  <2>2. AllLate(U)'
    BY <1>0, <2>1, UnlinkedIs, UpdatersAre
  <2>3. ASSUME pending'[AgentsFile] = <<>>  PROVE entries' = <<>>
    <3>1. pending[AgentsFile] = <<"unlink">>
      BY <1>0, <2>1, <2>3, EmitIs DEF Unlinked
    <3>. QED  BY <2>1, <3>1 DEF EventsAreTrue, AgentsEvent
  <2>4. ASSUME entries' = <<>>  PROVE \A a \in Agents : AgentAgrees(a)'
    BY <2>1, <2>4, NoEntries DEF AgentAgrees
  <2>. QED  BY <2>2, <2>3, <2>4 DEF AgentsFollow
<1>23. ASSUME NEW f \in Parts, Unlinked(f), UNCHANGED <<store, raced>>, SameBut(agents', agents),
              \A a \in Agents : a \in unseen => a \in unseen'
       PROVE  AgentsFollow'
  <2>1. pending'[AgentsFile] = pending[AgentsFile]
    BY <1>0, <1>23, EmitIs DEF Unlinked
  <2>2. LastSeen(U) \subseteq LastSeen(U)' /\ (AllLate(U) => AllLate(U)')
    BY <1>0, <1>23, UnlinkedIs
  <2>. QED  BY <1>1, <1>23, <2>1, <2>2 DEF SameBut
<1>24. ASSUME NEW s \in Skills, UnlinkSkill(s)  PROVE AgentsFollow'
  <2>1. Unlinked(s) /\ UNCHANGED <<store, raced>> /\ s \in Parts
    BY <1>0, <1>24 DEF UnlinkSkill
  <2>2. CASE UNCHANGED <<agents, unseen>>
    BY <1>0, <1>23, <2>1, <2>2 DEF SameBut
  <2>3. CASE PartsTaken({s}, {s})
    BY <1>0, <1>23, <2>1, <2>3 DEF PartsTaken
  <2>. QED  BY <1>24, <2>2, <2>3, UnlinkSkillIs
<1>25. ASSUME NEW f \in Flows, UnlinkFlow(f)  PROVE AgentsFollow'
  <2>1. Unlinked(f) /\ UNCHANGED <<store, raced>> /\ f \in Parts
    BY <1>0, <1>25 DEF UnlinkFlow
  <2>2. PartsTaken(Flows, {g \in Flows : registries[g] # Missing})
    BY <1>25, UnlinkFlowIs
  <2>3. SameBut(agents', agents) /\ \A a \in Agents : a \in unseen => a \in unseen'
    BY <1>0, <2>2 DEF PartsTaken
  <2>. QED  BY <1>23, <2>1, <2>3
<1>26. ASSUME Restart  PROVE AgentsFollow'
  <2>1. agents' = Booted(entries') /\ entries' \in Lists /\ handlers' = <<>>
    BY <1>26, FilesStayFit DEF Restart, Boot, FilesFit
  <2>2. AgentsBooted(agents', entries')
    BY <1>0, <2>1, BootedIs
  <2>3. AllLate(U)'
    BY <2>1 DEF AllLate
  <2>4. \A a \in Agents : AgentAgrees(a)'
    BY <2>1, <2>2 DEF AgentsBooted, AgentAgrees
  <2>. QED  BY <2>3, <2>4 DEF AgentsFollow
<1>27. ASSUME NEW i \in DOMAIN ops, PersistBegins(i)  PROVE AgentsFollow'
  BY <1>27 DEF PersistBegins, AgentsFollow
<1>28. ASSUME ReadFails  PROVE AgentsFollow'
  BY <1>28 DEF ReadFails, AgentsFollow
<1>. QED  BY <1>5, <1>6, <1>7, <1>8, <1>9, <1>10, <1>11, <1>12, <1>13, <1>14, <1>15, <1>16, <1>17,
             <1>18, <1>20, <1>21, <1>22, <1>24, <1>25, <1>26, <1>27, <1>28
          DEF ReloadNext, ByHand, ByRequest, Watcher

-----------------------------------------------------------------------------
(***************************************************************************)
(* Changes by hand and by request, seen from the file of one skill or      *)
(* workflow: they leave it alone, an event is to come, or it is written.   *)
(***************************************************************************)
LeftAlone(p) ==
    /\ UNCHANGED handlers /\ content'[p] = content[p] /\ pending'[p] = pending[p]
    /\ registries'[p] = registries[p] \/ p \in unseen'
    /\ raced => raced'
    /\ p \in unseen => p \in unseen'
    /\ ~Unsettled(p)' => ~Unsettled(p)

LEMMA PartIsLeftAlone ==
  ASSUME FilesFit, RegistriesFit, NEW s \in Parts, ByHand \/ ByRequest
  PROVE  LeftAlone(s) \/ pending'[s] # <<>> \/ Unsettled(s)'
<1>. USE DEF disk, store, memory, writes, history
<1>. DEFINE Goal == LeftAlone(s) \/ pending'[s] # <<>> \/ Unsettled(s)'
<1>0. /\ pending \in [Files -> Events] /\ OpsFit
      /\ content \in [Parts -> 0..3] /\ registries \in [Parts -> 0..2]
      /\ s \in Files /\ s \in Names /\ s # AgentsFile /\ AgentsFile \in Files /\ Parts \subseteq Files
  BY NamesAre DEF FilesFit, RegistriesFit, Files
<1>1. ASSUME UNCHANGED handlers, content'[s] = content[s], pending'[s] = pending[s], raced => raced',
             ~Writing(s)' => ~Writing(s), registries'[s] = registries[s], s \in unseen => s \in unseen'
      PROVE  Goal
  BY <1>1 DEF LeftAlone, Unsettled
<1>2. ASSUME NEW f \in Files, pending' = Written(f) \/ pending' = Removed(f)
      PROVE  IF f = s THEN Goal ELSE pending'[s] = pending[s]
  BY <1>0, <1>2, WrittenIs
<1>3. UNCHANGED ops => (~Writing(s)' => ~Writing(s))
  BY <1>0, WritingIs
<1>4. ASSUME NEW o, Begin(o)  PROVE ~Writing(s)' => ~Writing(s)
  BY <1>4 DEF Begin, Writing
<1>5. ASSUME NEW i \in DOMAIN ops, OpEnds(i), UNCHANGED changes, ops[i].kind = "part" => ops[i].name # s
      PROVE  ~Writing(s)' => ~Writing(s)
  BY <1>0, <1>5, WritingIs
<1>. HIDE DEF Goal
<1>6. ASSUME NEW e \in Drafts, EditEntry(e)  PROVE Goal
  BY <1>0, <1>1, <1>2, <1>3, <1>6 DEF EditEntry
<1>7. ASSUME NEW a \in Agents, RemoveEntry(a)  PROVE Goal
  BY <1>0, <1>1, <1>2, <1>3, <1>7 DEF RemoveEntry
<1>8. ASSUME RemoveAgentsFile  PROVE Goal
  BY <1>0, <1>1, <1>2, <1>3, <1>8 DEF RemoveAgentsFile
<1>9. ASSUME NEW p \in Parts, NEW v \in {Missing} \cup Versions, EditPart(p, v)  PROVE Goal
  <2>1. /\ UNCHANGED <<entries, memory, handlers, ops, history>> /\ content' = [content EXCEPT ![p] = v]
        /\ pending' = Removed(p) \/ pending' = Written(p)
    BY <1>9 DEF EditPart
  <2>2. CASE p = s
    BY <1>0, <1>2, <2>1, <2>2
  <2>3. CASE p # s
    <3>1. content'[s] = content[s] /\ pending'[s] = pending[s]
      BY <1>0, <1>2, <2>1, <2>3
    <3>. QED  BY <1>1, <1>3, <2>1, <3>1
  <2>. QED  BY <2>2, <2>3
<1>10. ASSUME NEW p \in Parts, NEW v \in Versions, PutPart(p, v)  PROVE Goal
  <2>. DEFINE o == [kind |-> "part", name |-> p, version |-> v]
  <2>1. o \in Ops /\ o.kind = "part" /\ o.name = p
    BY DEF Ops
  <2>2. Change /\ Begin(o) /\ content' = [content EXCEPT ![p] = Torn]
        /\ UNCHANGED <<memory, pending, handlers, history>>
    BY <1>10 DEF PutPart
  <2>. HIDE DEF o
  <2>3. CASE p = s
    <3>1. Writing(s)' /\ content'[s] = Torn
      BY <1>0, <2>1, <2>2, <2>3, WritingIs
    <3>. QED  BY <3>1 DEF Goal, Unsettled
  <2>4. CASE p # s
    <3>1. content'[s] = content[s]
      BY <1>0, <2>2, <2>4
    <3>. QED  BY <1>1, <1>4, <2>2, <3>1
  <2>. QED  BY <2>3, <2>4
<1>11. ASSUME NEW p \in Parts, DeletePart(p)  PROVE Goal
  <2>1. /\ UNCHANGED <<handlers, ops, raced>> /\ content' = [content EXCEPT ![p] = Missing]
        /\ registries' = [registries EXCEPT ![p] = Missing] /\ pending' = Removed(p)
        /\ unseen' = unseen \cup {p}
    BY <1>11 DEF DeletePart
  <2>2. CASE p = s
    BY <1>0, <1>2, <2>1, <2>2
  <2>3. CASE p # s
    <3>1. content'[s] = content[s] /\ registries'[s] = registries[s] /\ pending'[s] = pending[s]
      BY <1>0, <1>2, <2>1, <2>3
    <3>. QED  BY <1>1, <1>3, <2>1, <3>1
  <2>. QED  BY <2>2, <2>3
<1>12. ASSUME NEW o, Begin(o), UNCHANGED <<content, registries, pending, handlers, history>>
       PROVE  Goal
  BY <1>1, <1>4, <1>12
<1>13. ASSUME NEW e \in Drafts, NEW fresh \in BOOLEAN, PutAgent(e, fresh)  PROVE Goal
  BY <1>12, <1>13 DEF PutAgent
<1>14. ASSUME NEW a \in Agents, DeleteAgent(a) \/ \E f \in Flows : Rewire(a, f)  PROVE Goal
  <2>1. UNCHANGED <<content, registries, pending, handlers, history>>
    BY <1>14 DEF DeleteAgent, Rewire
  <2>2. UNCHANGED ops \/ \E o : Begin(o)
    BY <1>14 DEF DeleteAgent, Rewire
  <2>. QED  BY <1>1, <1>3, <1>12, <2>1, <2>2
<1>15. ASSUME NEW i \in DOMAIN ops, PutPartEnds(i)  PROVE Goal
  <2>1. PICK p, v : p = ops[i].name /\ v = ops[i].version
    OBVIOUS
  <2>2. /\ p \in Parts /\ v \in Versions /\ OpEnds(i)
        /\ content' = [content EXCEPT ![p] = v] \/ UNCHANGED content
        /\ pending' = IF content'[p] = Missing THEN pending ELSE Written(p)
        /\ registries' = [registries EXCEPT ![p] = v] /\ unseen' = unseen \cup {p}
        /\ UNCHANGED <<handlers, changes, raced>>
    BY <1>0, <1>15, <2>1, OpsAre DEF OpsFit, PutPartEnds
  <2>3. CASE p = s
    <3>1. CASE content'[s] # Missing
      BY <1>0, <1>2, <2>2, <2>3, <3>1
    <3>2. CASE content'[s] = Missing
      <4>1. content'[s] = content[s] /\ content[s] # Torn
        BY <1>0, <2>2, <2>3, <3>2 DEF Versions, Missing, Torn
      <4>2. LeftAlone(s)
        BY <2>2, <2>3, <3>2, <4>1 DEF LeftAlone, Unsettled
      <4>. QED  BY <4>2 DEF Goal
    <3>. QED  BY <3>1, <3>2
  <2>4. CASE p # s
    <3>1. content'[s] = content[s] /\ registries'[s] = registries[s] /\ pending'[s] = pending[s]
      BY <1>0, <1>2, <2>2, <2>4
    <3>. QED  BY <1>1, <1>5, <2>1, <2>2, <2>4, <3>1
  <2>. QED  BY <2>3, <2>4
<1>16. ASSUME NEW i \in DOMAIN ops, PutAgentEnds(i) \/ DeleteAgentEnds(i) \/ RewireEnds(i)
       PROVE  Goal
  <2>1. /\ OpEnds(i) /\ UNCHANGED <<content, registries, handlers, changes>> /\ ops[i].kind # "part"
        /\ (raced => raced')
        /\ unseen \subseteq unseen'
        /\ pending' = Written(AgentsFile) \/ UNCHANGED pending
    <3>1. CASE PutAgentEnds(i)
      BY <3>1 DEF PutAgentEnds, Persisted
    <3>2. CASE DeleteAgentEnds(i)
      BY <3>2 DEF DeleteAgentEnds, Persisted
    <3>3. CASE RewireEnds(i)
      BY <3>3 DEF RewireEnds, Persisted
    <3>. QED  BY <1>16, <3>1, <3>2, <3>3
  <2>2. pending'[s] = pending[s]
    BY <1>0, <1>2, <2>1
  <2>. QED  BY <1>1, <1>5, <2>1, <2>2
<1>17. ASSUME NEW i \in DOMAIN ops, PersistBegins(i)  PROVE Goal
  BY <1>1, <1>3, <1>17 DEF PersistBegins
<1>. QED  BY <1>6, <1>7, <1>8, <1>9, <1>10, <1>11, <1>13, <1>14, <1>15, <1>16, <1>17
          DEF Goal, ByHand, ByRequest

-----------------------------------------------------------------------------
(***************************************************************************)
(* A skill follows its file.                                               *)
(***************************************************************************)
LEMMA SkillStaysFollowing ==
  ASSUME FilesFit, RegistriesFit, EventsAreTrue, PrintsAreTrue, ReloadNext,
         NEW s \in Skills, SkillFollows(s)
  PROVE  SkillFollows(s)'
<1>. USE DEF disk, store, memory, writes, history
<1>. DEFINE U == {s}
<1>0. /\ pending \in [Files -> Events] /\ handlers \in Seq(Handlers) /\ OpsFit
      /\ content \in [Parts -> 0..3] /\ registries \in [Parts -> 0..2]
      /\ U \in Updaters /\ Updater(s) = U
      /\ s \in Files /\ s \in Parts /\ s \in Names /\ s \notin Agents /\ s \notin Flows
      /\ s # AgentsFile /\ AgentsFile \in Files /\ Parts \subseteq Files /\ Flows \subseteq Parts
      /\ Skills \subseteq Parts
  BY NamesAre, UpdatersAre DEF FilesFit, RegistriesFit, Files, Updaters
<1>1. ASSUME content'[s] = content[s], pending'[s] = pending[s], raced => raced',
             LastSeen(U) \subseteq LastSeen(U)', AllLate(U) => AllLate(U)',
             registries'[s] = registries[s] \/ s \in unseen', s \in unseen => s \in unseen'
      PROVE  SkillFollows(s)'
  <2>1. Readable(s)' = Readable(s)
    BY <1>1 DEF Readable
  <2>2. SUFFICES ASSUME ~raced', pending'[s] = <<>>, content'[s] # Torn
                 PROVE  \/ content'[s] \in LastSeen(U)' /\ content'[s] \in Versions
                        \/ AllLate(U)' /\ (s \notin unseen' => registries'[s] = Readable(s)')
    BY DEF SkillFollows
  <2>3. \/ content[s] \in LastSeen(U) /\ content[s] \in Versions
        \/ AllLate(U) /\ (s \notin unseen => registries[s] = Readable(s))
    BY <1>1, <2>2 DEF SkillFollows
  <2>. QED  BY <1>1, <2>1, <2>3
<1>2. ASSUME UNCHANGED handlers, content'[s] = content[s], pending'[s] = pending[s], raced => raced',
             registries'[s] = registries[s] \/ s \in unseen', s \in unseen => s \in unseen'
      PROVE  SkillFollows(s)'
  <2>1. LastSeen(U)' = LastSeen(U) /\ AllLate(U)' = AllLate(U)
    BY <1>2, HandlersStay
  <2>. QED  BY <1>1, <1>2, <2>1
<1>3. ASSUME ByHand \/ ByRequest  PROVE SkillFollows(s)'
  <2>1. CASE LeftAlone(s)
    BY <1>2, <2>1 DEF LeftAlone
  <2>2. CASE pending'[s] # <<>> \/ Unsettled(s)'
    BY <2>2 DEF SkillFollows, Unsettled
  <2>. QED  BY <1>0, <1>3, <2>1, <2>2, PartIsLeftAlone
<1>5. ASSUME NEW f \in Files, Read(f)  PROVE SkillFollows(s)'
  <2>1. /\ \A F \in Updaters : f \in F => Reading(f) \in LastSeen(F)'
        /\ \A F \in Updaters : f \notin F =>
               LastSeen(F) \subseteq LastSeen(F)' /\ (AllLate(F) => AllLate(F)')
    BY <1>0, <1>5, ReadingFits, ReadIs
  <2>2. Emit(f, "upsert") /\ UNCHANGED <<content, registries, ops, unseen, raced>>
    BY <1>5 DEF Read
  <2>3. CASE f = s
    <3>1. SUFFICES ASSUME pending'[s] = <<>>, content'[s] # Torn
                   PROVE  content'[s] \in LastSeen(U)' /\ content'[s] \in Versions
      BY DEF SkillFollows
    <3>2. pending[s] = <<"upsert">>
      BY <1>0, <2>2, <2>3, <3>1, EmitIs
    <3>3. Last(pending[s]) = "upsert" /\ pending[s] # <<>>
      BY <3>2, EventsAre
    <3>4. content[s] # Missing /\ content[s] # Torn
      BY <1>0, <2>2, <3>1, <3>3 DEF EventsAreTrue, PartEvent
    <3>5. content[s] \in Versions /\ Reading(f) = content[s]
      <4>1. content[s] \in Versions /\ Readable(s) = content[s]
        BY <1>0, <3>4 DEF Readable, Versions, Missing, Torn
      <4>2. Reading(f) = Readable(s)
        BY <1>0, <2>3, ReadingFits
      <4>. QED  BY <4>1, <4>2
    <3>. QED  BY <1>0, <2>1, <2>2, <2>3, <3>5
  <2>4. CASE f # s
    <3>1. pending'[s] = pending[s]
      BY <1>0, <2>2, <2>4, EmitIs
    <3>2. LastSeen(U) \subseteq LastSeen(U)' /\ (AllLate(U) => AllLate(U)')
      BY <1>0, <2>1, <2>4
    <3>. QED  BY <1>1, <2>2, <3>1, <3>2
  <2>. QED  BY <2>3, <2>4
<1>6. ASSUME NEW i \in DOMAIN handlers, handlers[i].file # s, Served(i),
              UNCHANGED <<content, pending>>, registries'[s] = registries[s],
              s \in unseen => s \in unseen'
       PROVE  SkillFollows(s)'
  <2>1. raced => raced'
    BY <1>6 DEF Served
  <2>2. LastSeen(U) \subseteq LastSeen(U)' /\ (AllLate(U) => AllLate(U)')
    BY <1>0, <1>6, ServedIs
  <2>. QED  BY <1>1, <1>6, <2>1, <2>2
<1>7. ASSUME NEW i \in DOMAIN handlers, ApplyAgents(i)  PROVE SkillFollows(s)'
  <2>1. handlers[i].file # s /\ Served(i) /\ UNCHANGED <<content, pending, registries>>
    BY <1>0, <1>7 DEF ApplyAgents
  <2>2. PICK list : list = handlers[i].seen
    OBVIOUS
  <2>3. list \in Lists /\ AgentsApplied(list) /\ Ids(list) \subseteq Agents
    BY <1>7, <2>2, ApplyAgentsIs, IdsAreAgents
  <2>4. s \in unseen => s \in unseen'
    BY <1>0, <2>3 DEF AgentsApplied, GoneFrom, NewIn, RegistriesFit, AreAgents
  <2>. QED  BY <1>6, <2>1, <2>4
<1>8. ASSUME NEW i \in DOMAIN handlers, ApplyFlows(i)  PROVE SkillFollows(s)'
  <2>1. handlers[i].file # s /\ Served(i) /\ UNCHANGED <<content, pending>>
    BY <1>0, <1>8, ApplyFlowsIs DEF ApplyFlows
  <2>2. FlowsApplied(handlers[i].seen)
    BY <1>8, ApplyFlowsIs
  <2>3. registries'[s] = registries[s] /\ (s \in unseen => s \in unseen')
    BY <1>0, <2>2 DEF FlowsApplied, ChangedIn
  <2>. QED  BY <1>6, <2>1, <2>3
<1>9. ASSUME NEW i \in DOMAIN handlers, ApplySkill(i)  PROVE SkillFollows(s)'
  <2>1. Served(i) /\ UNCHANGED <<content, pending>>
    BY <1>9 DEF ApplySkill
  <2>2. PICK t, v : t = handlers[i].file /\ v = handlers[i].seen
    OBVIOUS
  <2>3. t \in Skills /\ v \in 0..2
        /\ \/ (v = Missing \/ prints[t] = v) /\ UNCHANGED <<registries, agents, prints, unseen>>
           \/ v # Missing /\ SkillApplied(t, v)
    BY <1>9, <2>2, ApplySkillIs
  <2>4. CASE t # s
    <3>1. registries'[s] = registries[s] /\ (s \in unseen => s \in unseen')
      BY <1>0, <2>3, <2>4 DEF SkillApplied
    <3>. QED  BY <1>6, <2>1, <2>2, <2>4, <3>1
  <2>5. CASE t = s
    <3>1. raced => raced'
      BY <2>1 DEF Served
    <3>2. Readable(s)' = Readable(s) /\ content'[s] = content[s] /\ Reading(s) = Readable(s)
      BY <1>0, <2>1, ReadingFits DEF Readable
    <3>3. SUFFICES ASSUME ~raced', pending'[s] = <<>>, content'[s] # Torn
                   PROVE  \/ content[s] \in LastSeen(U)' /\ content[s] \in Versions
                          \/ AllLate(U)' /\ (s \notin unseen' => registries'[s] = Readable(s))
      BY <3>2 DEF SkillFollows
    <3>4. \/ content[s] \in LastSeen(U) /\ content[s] \in Versions
          \/ AllLate(U) /\ (s \notin unseen => registries[s] = Readable(s))
      BY <2>1, <3>1, <3>3 DEF SkillFollows
    \* What was served says what the file says, and is registered then.
    <3>5. ASSUME v = Readable(s), v # Missing
          PROVE  s \notin unseen' => registries'[s] = Readable(s)
      <4>1. CASE prints[s] = v /\ UNCHANGED <<registries, prints, unseen>>
        <5>1. v # NoPrint
          BY <2>3, <3>5, ConfigReloadAssumption DEF Versions, Missing
        <5>. QED  BY <1>0, <3>5, <4>1, <5>1 DEF PrintsAreTrue, PrintTrue
      <4>2. CASE SkillApplied(t, v)
        BY <1>0, <2>5, <3>5, <4>2 DEF SkillApplied
      <4>. QED  BY <2>3, <2>5, <3>5, <4>1, <4>2
    <3>6. CASE content[s] \in LastSeen(U) /\ content[s] \in Versions
      <4>1. content[s] = Readable(s) /\ content[s] # Missing
        BY <1>0, <3>6 DEF Readable, Versions, Torn, Missing
      <4>2. content[s] \in LastSeen(U)' \/ (content[s] = v /\ AllLate(U)')
        BY <1>0, <2>1, <2>2, <2>5, <3>6, ServedIs
      <4>. QED  BY <3>5, <3>6, <4>1, <4>2
    <3>7. CASE AllLate(U) /\ (s \notin unseen => registries[s] = Readable(s))
      <4>1. AllLate(U)' /\ v = Readable(s)
        BY <1>0, <2>1, <2>2, <2>5, <3>2, <3>3, <3>7, ServedIs
      <4>2. CASE v = Missing
        BY <2>3, <3>7, <4>1, <4>2
      <4>. QED  BY <3>5, <4>1, <4>2
    <3>. QED  BY <3>4, <3>6, <3>7
  <2>. QED  BY <2>4, <2>5
<1>10. ASSUME NEW f \in Files, f # s, Unlinked(f), UNCHANGED <<content, raced>>,
              registries'[s] = registries[s], s \in unseen => s \in unseen'
       PROVE  SkillFollows(s)'
  <2>1. pending'[s] = pending[s]
    BY <1>0, <1>10, EmitIs DEF Unlinked
  <2>2. LastSeen(U) \subseteq LastSeen(U)' /\ (AllLate(U) => AllLate(U)')
    BY <1>0, <1>10, UnlinkedIs
  <2>. QED  BY <1>1, <1>10, <2>1, <2>2
<1>11. ASSUME UnlinkAgents  PROVE SkillFollows(s)'
  <2>1. Unlinked(AgentsFile) /\ UNCHANGED <<content, raced, registries>>
        /\ unseen' = unseen \ DOMAIN agents
    BY <1>11 DEF UnlinkAgents
  <2>2. s \in unseen => s \in unseen'
    BY <1>0, <2>1 DEF RegistriesFit, AreAgents
  <2>. QED  BY <1>0, <1>10, <2>1, <2>2
<1>12. ASSUME NEW f \in Flows, UnlinkFlow(f)  PROVE SkillFollows(s)'
  <2>1. Unlinked(f) /\ UNCHANGED <<content, raced>> /\ f \in Files /\ f # s
    BY <1>0, <1>12 DEF UnlinkFlow
  <2>2. PartsTaken(Flows, {g \in Flows : registries[g] # Missing})
    BY <1>12, UnlinkFlowIs
  <2>3. registries'[s] = registries[s] /\ (s \in unseen => s \in unseen')
    BY <1>0, <2>2 DEF PartsTaken
  <2>. QED  BY <1>10, <2>1, <2>3
<1>13. ASSUME NEW t \in Skills, UnlinkSkill(t)  PROVE SkillFollows(s)'
  <2>1. Unlinked(t) /\ UNCHANGED <<content, raced>> /\ t \in Files
    BY <1>0, <1>13 DEF UnlinkSkill
  <2>2. \/ registries[t] = Missing /\ UNCHANGED <<registries, agents, prints, unseen>>
        \/ PartsTaken({t}, {t})
    BY <1>13, UnlinkSkillIs
  <2>3. CASE t # s
    <3>1. registries'[s] = registries[s] /\ (s \in unseen => s \in unseen')
      BY <1>0, <2>2, <2>3 DEF PartsTaken
    <3>. QED  BY <1>10, <2>1, <2>3, <3>1
  <2>4. CASE t = s
    <3>1. registries'[s] = Missing
      BY <1>0, <2>2, <2>4 DEF PartsTaken
    <3>2. AllLate(U)'
      BY <1>0, <2>1, <2>4, UnlinkedIs
    <3>3. ASSUME pending'[s] = <<>>  PROVE Readable(s)' = Missing
      <4>1. pending[s] = <<"unlink">>
        BY <1>0, <2>1, <2>4, <3>3, EmitIs DEF Unlinked
      <4>2. Last(pending[s]) = "unlink" /\ pending[s] # <<>>
        BY <4>1, EventsAre
      <4>3. content[s] \in {Missing, Torn}
        BY <1>0, <4>2 DEF EventsAreTrue, PartEvent
      <4>. QED  BY <2>1, <4>3 DEF Readable
    <3>. QED  BY <3>1, <3>2, <3>3 DEF SkillFollows
  <2>. QED  BY <2>3, <2>4
<1>14. ASSUME Restart  PROVE SkillFollows(s)'
  <2>1. registries' = [p \in Parts |-> Readable(p)] /\ UNCHANGED content /\ handlers' = <<>>
    BY <1>14 DEF Restart, Boot
  <2>2. registries'[s] = Readable(s)' /\ AllLate(U)'
    BY <1>0, <2>1 DEF AllLate, Readable
  <2>. QED  BY <2>2 DEF SkillFollows
<1>15. ASSUME ReadFails  PROVE SkillFollows(s)'
  <2>1. /\ Emit(AgentsFile, "upsert")
        /\ UNCHANGED <<content, registries, handlers, unseen, raced>>
    BY <1>15 DEF ReadFails
  <2>2. pending'[s] = pending[s]
    BY <1>0, <2>1, EmitIs
  <2>. QED  BY <1>2, <2>1, <2>2
<1>. QED  BY <1>3, <1>5, <1>7, <1>8, <1>9, <1>11, <1>12, <1>13, <1>14, <1>15
          DEF ReloadNext, Watcher

-----------------------------------------------------------------------------
(***************************************************************************)
(* A workflow follows its file: any workflow's handler has read it too.    *)
(***************************************************************************)
LEMMA FlowStaysFollowing ==
  ASSUME FilesFit, RegistriesFit, EventsAreTrue, PrintsAreTrue, ReloadNext,
         NEW f \in Flows, FlowFollows(f)
  PROVE  FlowFollows(f)'
<1>. USE DEF disk, store, memory, writes, history
<1>0. /\ pending \in [Files -> Events] /\ handlers \in Seq(Handlers) /\ OpsFit
      /\ content \in [Parts -> 0..3] /\ registries \in [Parts -> 0..2]
      /\ Flows \in Updaters /\ (\A g \in Flows : Updater(g) = Flows)
      /\ f \in Files /\ f \in Parts /\ f \in Names /\ f \notin Agents /\ f \notin Skills
      /\ f # AgentsFile /\ AgentsFile \in Files /\ AgentsFile \notin Flows
      /\ Parts \subseteq Files /\ Flows \subseteq Parts
      /\ Skills \subseteq Parts /\ (\A s \in Skills : s \notin Flows)
  BY NamesAre, UpdatersAre DEF FilesFit, RegistriesFit, Files, Updaters
<1>1. ASSUME content'[f] = content[f], pending'[f] = pending[f], raced => raced',
             ~Unsettled(f)' => ~Unsettled(f),
             LastSeen(Flows) \subseteq LastSeen(Flows)', AllLate(Flows) => AllLate(Flows)',
             registries'[f] = registries[f] \/ f \in unseen', f \in unseen => f \in unseen'
      PROVE  FlowFollows(f)'
  <2>1. Readable(f)' = Readable(f)
    BY <1>1 DEF Readable
  <2>2. SUFFICES ASSUME ~raced', pending'[f] = <<>>, ~Unsettled(f)'
                 PROVE  \/ \E seen \in LastSeen(Flows)' : seen[f] = Readable(f)'
                        \/ /\ AllLate(Flows)'
                           /\ f \notin unseen' => registries'[f] \in {Missing, Readable(f)'}
    BY DEF FlowFollows
  <2>3. \/ \E seen \in LastSeen(Flows) : seen[f] = Readable(f)
        \/ AllLate(Flows) /\ (f \notin unseen => registries[f] \in {Missing, Readable(f)})
    BY <1>1, <2>2 DEF FlowFollows
  <2>. QED  BY <1>1, <2>1, <2>3
<1>2. ASSUME ByHand \/ ByRequest  PROVE FlowFollows(f)'
  <2>1. CASE LeftAlone(f)
    <3>1. LastSeen(Flows)' = LastSeen(Flows) /\ AllLate(Flows)' = AllLate(Flows)
      BY <2>1, HandlersStay DEF LeftAlone
    <3>. QED  BY <1>1, <2>1, <3>1 DEF LeftAlone
  <2>2. CASE pending'[f] # <<>> \/ Unsettled(f)'
    BY <2>2 DEF FlowFollows
  <2>. QED  BY <1>0, <1>2, <2>1, <2>2, PartIsLeftAlone
<1>3. UNCHANGED <<content, ops>> => (~Unsettled(f)' => ~Unsettled(f))
  BY <1>0, WritingIs DEF Unsettled
<1>4. ASSUME NEW g \in Files, Read(g)  PROVE FlowFollows(f)'
  <2>1. /\ \A F \in Updaters : g \in F => Reading(g) \in LastSeen(F)'
        /\ \A F \in Updaters : g \notin F =>
               LastSeen(F) \subseteq LastSeen(F)' /\ (AllLate(F) => AllLate(F)')
    BY <1>0, <1>4, ReadingFits, ReadIs
  <2>2. Emit(g, "upsert") /\ UNCHANGED <<content, registries, ops, unseen, raced>>
    BY <1>4 DEF Read
  <2>3. CASE g \in Flows
    <3>1. Reading(g)[f] = Readable(f)
      BY <2>3, ReadingFits
    <3>2. Readable(f)' = Readable(f) /\ Reading(g) \in LastSeen(Flows)'
      BY <1>0, <2>1, <2>2, <2>3 DEF Readable
    <3>. QED  BY <3>1, <3>2 DEF FlowFollows
  <2>4. CASE g \notin Flows
    <3>1. pending'[f] = pending[f]
      BY <1>0, <2>2, <2>4, EmitIs
    <3>2. LastSeen(Flows) \subseteq LastSeen(Flows)' /\ (AllLate(Flows) => AllLate(Flows)')
      BY <1>0, <2>1, <2>4
    <3>. QED  BY <1>1, <1>3, <2>2, <3>1, <3>2
  <2>. QED  BY <2>3, <2>4
<1>5. ASSUME NEW i \in DOMAIN handlers, handlers[i].file \notin Flows, Served(i),
             UNCHANGED <<content, pending, ops>>, registries'[f] = registries[f],
             f \in unseen => f \in unseen'
      PROVE  FlowFollows(f)'
  <2>1. raced => raced'
    BY <1>5 DEF Served
  <2>2. LastSeen(Flows) \subseteq LastSeen(Flows)' /\ (AllLate(Flows) => AllLate(Flows)')
    BY <1>0, <1>5, ServedIs
  <2>. QED  BY <1>1, <1>3, <1>5, <2>1, <2>2
<1>6. ASSUME NEW i \in DOMAIN handlers, ApplyAgents(i)  PROVE FlowFollows(f)'
  <2>1. handlers[i].file \notin Flows /\ Served(i) /\ UNCHANGED <<content, pending, ops, registries>>
    BY <1>0, <1>6 DEF ApplyAgents
  <2>2. PICK list : list = handlers[i].seen
    OBVIOUS
  <2>3. list \in Lists /\ AgentsApplied(list) /\ Ids(list) \subseteq Agents
    BY <1>6, <2>2, ApplyAgentsIs, IdsAreAgents
  <2>4. f \in unseen => f \in unseen'
    BY <1>0, <2>3 DEF AgentsApplied, GoneFrom, NewIn, RegistriesFit, AreAgents
  <2>. QED  BY <1>5, <2>1, <2>4
<1>7. ASSUME NEW i \in DOMAIN handlers, ApplySkill(i)  PROVE FlowFollows(f)'
  <2>1. handlers[i].file \notin Flows /\ Served(i) /\ UNCHANGED <<content, pending, ops>>
    BY <1>0, <1>7, ApplySkillIs DEF ApplySkill
  <2>2. registries'[f] = registries[f] /\ (f \in unseen => f \in unseen')
    BY <1>0, <1>7, ApplySkillIs DEF SkillApplied
  <2>. QED  BY <1>5, <2>1, <2>2
<1>8. ASSUME NEW i \in DOMAIN handlers, ApplyFlows(i)  PROVE FlowFollows(f)'
  <2>1. Served(i) /\ UNCHANGED <<content, pending, ops>>
    BY <1>8 DEF ApplyFlows
  <2>2. PICK seen, g : g = handlers[i].file /\ seen = handlers[i].seen
    OBVIOUS
  <2>3. g \in Flows /\ seen \in [Flows -> 0..2] /\ FlowsApplied(seen)
    BY <1>8, <2>2, ApplyFlowsIs
  <2>4. raced => raced'
    BY <2>1 DEF Served
  <2>5. Readable(f)' = Readable(f) /\ Reading(g)[f] = Readable(f)
    BY <2>1, <2>3, ReadingFits, <1>0 DEF Readable
  <2>6. SUFFICES ASSUME ~raced', pending'[f] = <<>>, ~Unsettled(f)'
                 PROVE  \/ \E v \in LastSeen(Flows)' : v[f] = Readable(f)
                        \/ /\ AllLate(Flows)'
                           /\ f \notin unseen' => registries'[f] \in {Missing, Readable(f)}
    BY <2>5 DEF FlowFollows
  <2>7. \/ \E v \in LastSeen(Flows) : v[f] = Readable(f)
        \/ AllLate(Flows) /\ (f \notin unseen => registries[f] \in {Missing, Readable(f)})
    BY <1>3, <2>1, <2>4, <2>6 DEF FlowFollows
  \* What was served says what the file says, and what is registered then is that or nothing.
  <2>8. ASSUME seen[f] = Readable(f), f \notin unseen'
        PROVE  registries'[f] \in {Missing, Readable(f)}
    <3>1. /\ registries'[f] = IF f \in ChangedIn(seen) THEN seen[f] ELSE registries[f]
          /\ unseen' = unseen \ ChangedIn(seen)
      BY <1>0, <2>3 DEF FlowsApplied
    <3>2. CASE f \in ChangedIn(seen)
      BY <2>8, <3>1, <3>2
    <3>3. CASE f \notin ChangedIn(seen) /\ seen[f] = Missing
      BY <3>1, <3>3 DEF ChangedIn
    <3>4. CASE f \notin ChangedIn(seen) /\ seen[f] # Missing
      <4>1. prints[f] = seen[f] /\ f \in Names \ unseen
        BY <1>0, <2>8, <3>1, <3>4 DEF ChangedIn
      <4>2. seen[f] \in Versions
        BY <2>3, <3>4 DEF Versions, Missing
      <4>3. prints[f] # NoPrint
        BY <4>1, <4>2, ConfigReloadAssumption
      <4>. QED  BY <1>0, <2>8, <3>1, <3>4, <4>1, <4>3 DEF PrintsAreTrue, PrintTrue
    <3>. QED  BY <3>2, <3>3, <3>4
  <2>9. CASE AllLate(Flows)
    <3>1. AllLate(Flows)' /\ seen = Reading(g)
      BY <1>0, <2>1, <2>2, <2>3, <2>6, <2>9, ServedIs
    <3>. QED  BY <2>5, <2>8, <3>1
  <2>10. CASE \E v \in LastSeen(Flows) : v[f] = Readable(f)
    <3>1. PICK v \in LastSeen(Flows) : v[f] = Readable(f)
      BY <2>10
    <3>2. v \in LastSeen(Flows)' \/ (v = seen /\ AllLate(Flows)')
      BY <1>0, <2>1, <2>2, ServedIs
    <3>. QED  BY <2>8, <3>1, <3>2
  <2>. QED  BY <2>7, <2>9, <2>10
<1>9. ASSUME NEW g \in Files, g \notin Flows, Unlinked(g), UNCHANGED <<content, ops, raced>>,
             registries'[f] = registries[f], f \in unseen => f \in unseen'
      PROVE  FlowFollows(f)'
  <2>1. pending'[f] = pending[f]
    BY <1>0, <1>9, EmitIs DEF Unlinked
  <2>2. LastSeen(Flows) \subseteq LastSeen(Flows)' /\ (AllLate(Flows) => AllLate(Flows)')
    BY <1>0, <1>9, UnlinkedIs
  <2>. QED  BY <1>1, <1>3, <1>9, <2>1, <2>2
<1>10. ASSUME UnlinkAgents  PROVE FlowFollows(f)'
  <2>1. /\ Unlinked(AgentsFile) /\ UNCHANGED <<content, ops, raced, registries>>
        /\ unseen' = unseen \ DOMAIN agents
    BY <1>10 DEF UnlinkAgents
  <2>2. f \in unseen => f \in unseen'
    BY <1>0, <2>1 DEF RegistriesFit, AreAgents
  <2>. QED  BY <1>0, <1>9, <2>1, <2>2
<1>11. ASSUME NEW s \in Skills, UnlinkSkill(s)  PROVE FlowFollows(f)'
  <2>1. Unlinked(s) /\ UNCHANGED <<content, ops, raced>> /\ s \in Files /\ s \notin Flows
    BY <1>0, <1>11 DEF UnlinkSkill
  <2>2. registries'[f] = registries[f] /\ (f \in unseen => f \in unseen')
    <3>1. f # s
      BY <1>0
    <3>2. UNCHANGED <<registries, unseen>> \/ PartsTaken({s}, {s})
      BY <1>11, UnlinkSkillIs
    <3>. QED  BY <1>0, <3>1, <3>2 DEF PartsTaken
  <2>. QED  BY <1>9, <2>1, <2>2
<1>12. ASSUME NEW g \in Flows, UnlinkFlow(g)  PROVE FlowFollows(f)'
  <2>1. Unlinked(g) /\ PartsTaken(Flows, {h \in Flows : registries[h] # Missing})
    BY <1>12, UnlinkFlowIs DEF UnlinkFlow
  <2>2. AllLate(Flows)'
    BY <1>0, <2>1, UnlinkedIs
  <2>3. registries'[f] = Missing
    BY <1>0, <2>1 DEF PartsTaken
  <2>. QED  BY <2>2, <2>3 DEF FlowFollows
<1>13. ASSUME Restart  PROVE FlowFollows(f)'
  <2>1. registries' = [p \in Parts |-> Readable(p)] /\ UNCHANGED content /\ handlers' = <<>>
    BY <1>13 DEF Restart, Boot
  <2>2. registries'[f] = Readable(f)' /\ AllLate(Flows)'
    BY <1>0, <2>1 DEF AllLate, Readable
  <2>. QED  BY <2>2 DEF FlowFollows
<1>14. ASSUME ReadFails  PROVE FlowFollows(f)'
  <2>1. /\ Emit(AgentsFile, "upsert")
        /\ UNCHANGED <<content, registries, handlers, ops, unseen, raced>>
    BY <1>14 DEF ReadFails
  <2>2. pending'[f] = pending[f]
    BY <1>0, <2>1, EmitIs
  <2>3. LastSeen(Flows)' = LastSeen(Flows) /\ AllLate(Flows)' = AllLate(Flows)
    BY <2>1, HandlersStay
  <2>. QED  BY <1>1, <1>3, <2>1, <2>2, <2>3
<1>. QED  BY <1>2, <1>4, <1>6, <1>7, <1>8, <1>10, <1>11, <1>12, <1>13, <1>14
          DEF ReloadNext, Watcher

-----------------------------------------------------------------------------
(***************************************************************************)
(* What agents hold stays what is registered.                              *)
(***************************************************************************)
HoldsParts(a) ==
    \A p \in Parts \ (severed \cup unseen) : agents[a].holds[p] \in {Missing, registries[p]}
HoldsAgents(a) ==
    \A b \in Agents \ severed :
        \/ agents[a].holds[b] = Missing
        \/ b \in DOMAIN agents /\ agents[a].holds[b] = agents[b].object

LEMMA HeldStaysTrue ==
  ASSUME FilesFit, RegistriesFit, HeldIsTrue, ReloadNext
  PROVE  HeldIsTrue'
<1>. USE DEF disk, store, memory, writes, history
<1>0. /\ AreAgents(agents) /\ DOMAIN agents \subseteq Agents
      /\ registries \in [Parts -> 0..2] /\ entries \in Lists /\ content \in [Parts -> 0..3] /\ built \in Nat
      /\ Skills \subseteq Parts /\ Flows \subseteq Parts
      /\ \A p \in Parts : p \in Names /\ p \notin Agents
      /\ \A a \in Agents : a \in Names /\ a \notin Parts
  BY NamesAre DEF FilesFit, RegistriesFit, AreAgents
<1>1. ASSUME ~raced, NEW a \in DOMAIN agents  PROVE HoldsParts(a) /\ HoldsAgents(a)
  BY <1>1 DEF HeldIsTrue, HoldsParts, HoldsAgents
<1>2. ASSUME \A a \in DOMAIN agents' : ~raced' => HoldsParts(a)' /\ HoldsAgents(a)'
      PROVE  HeldIsTrue'
  BY <1>2 DEF HeldIsTrue, HoldsParts, HoldsAgents
<1>3. ASSUME UNCHANGED <<agents, registries, history>>  PROVE HeldIsTrue'
  BY <1>3 DEF HeldIsTrue
\* Agents that keep their objects hold other parts.
<1>4. ASSUME SameBut(agents', agents), raced => raced', severed \subseteq severed',
             \A a \in DOMAIN agents, b \in Agents : agents'[a].holds[b] \in {Missing, agents[a].holds[b]},
             \A a \in DOMAIN agents, p \in Parts \ (severed' \cup unseen') :
                \/ agents'[a].holds[p] \in {Missing, registries'[p]}
                \/ /\ p \notin severed \cup unseen /\ registries'[p] = registries[p]
                   /\ agents'[a].holds[p] = agents[a].holds[p]
      PROVE  HeldIsTrue'
  <2>1. ASSUME NEW a \in DOMAIN agents', ~raced'  PROVE HoldsParts(a)' /\ HoldsAgents(a)'
    <3>1. a \in DOMAIN agents /\ HoldsParts(a) /\ HoldsAgents(a)
      BY <1>1, <1>4, <2>1 DEF SameBut
    <3>2. HoldsParts(a)'
      BY <1>4, <3>1 DEF HoldsParts
    <3>3. HoldsAgents(a)'
      BY <1>0, <1>4, <3>1 DEF HoldsAgents, SameBut
    <3>. QED  BY <3>2, <3>3
  <2>. QED  BY <1>2, <2>1
<1>5. ASSUME ByHand \/ ReadFails \/ \E f \in Files : Read(f)  PROVE HeldIsTrue'
  BY <1>3, <1>5 DEF ByHand, EditEntry, RemoveEntry, RemoveAgentsFile, EditPart, Read, ReadFails
<1>6. ASSUME \/ \E p \in Parts, v \in Versions : PutPart(p, v)
             \/ \E e \in Drafts, fresh \in BOOLEAN : PutAgent(e, fresh)
             \/ \E a \in Agents : DeleteAgent(a)
             \/ \E i \in DOMAIN ops : PersistBegins(i) \/ RewireEnds(i)
      PROVE  HeldIsTrue'
  BY <1>3, <1>6 DEF PutPart, PutAgent, DeleteAgent, PersistBegins, RewireEnds
<1>7. SameBut(agents, agents)
  BY <1>0 DEF SameBut
<1>8. ASSUME NEW p \in Parts, NEW v, registries' = [registries EXCEPT ![p] = v], unseen' = unseen \cup {p},
             UNCHANGED <<agents, raced>>, severed \subseteq severed'
      PROVE  HeldIsTrue'
  <2>1. \A q \in Parts \ (severed' \cup unseen') : q \notin severed \cup unseen /\ registries'[q] = registries[q]
    BY <1>0, <1>8
  <2>. QED  BY <1>4, <1>7, <1>8, <2>1
<1>9. ASSUME NEW p \in Parts, DeletePart(p)  PROVE HeldIsTrue'
  BY <1>8, <1>9 DEF DeletePart
<1>10. ASSUME NEW i \in DOMAIN ops, PutPartEnds(i)  PROVE HeldIsTrue'
  <2>1. ops[i].name \in Parts
    BY <1>10, OpsAre DEF FilesFit, OpsFit, PutPartEnds
  <2>2. PICK p, v : p = ops[i].name /\ v = ops[i].version
    OBVIOUS
  <2>. QED  BY <1>8, <1>10, <2>1, <2>2 DEF PutPartEnds
<1>11. ASSUME NEW a \in Agents, NEW f \in Flows, Rewire(a, f)  PROVE HeldIsTrue'
  <2>1. agents' = [agents EXCEPT ![a].holds[f] =
                      IF agents[a].holds[f] # Missing THEN Missing ELSE registries[f]]
        /\ UNCHANGED <<registries, history>>
    BY <1>11 DEF Rewire
  <2>2. /\ SameBut(agents', agents)
        /\ \A b \in DOMAIN agents, n \in Names :
              agents'[b].holds[n] = agents[b].holds[n] \/ agents'[b].holds[n] \in {Missing, registries[n]}
    BY <1>11, RewireIs
  <2>3. ASSUME NEW b \in DOMAIN agents, NEW n \in Agents  PROVE agents'[b].holds[n] = agents[b].holds[n]
    <3>1. n # f /\ n \in Names /\ agents[b] \in Agent
      BY <1>0 DEF AreAgents
    <3>. QED  BY <2>1, <3>1 DEF Agent
  <2>. QED  BY <1>0, <1>4, <2>1, <2>2, <2>3
<1>12. ASSUME NEW i \in DOMAIN ops, PutAgentEnds(i)  PROVE HeldIsTrue'
  <2>1. PICK o, a : o = ops[i] /\ a = o.entry.id
    OBVIOUS
  <2>2. o \in Ops /\ o.kind = "put" /\ AgentPut(o, a)
    BY <1>12, <2>1, PutAgentEndsIs
  <2>3. /\ UNCHANGED registries /\ unseen \subseteq unseen' /\ severed \subseteq severed'
        /\ raced' = (raced \/ o.agent.holds # Hydrated(o.entry, registries, Objects(agents)).holds)
    <3>1. /\ UNCHANGED registries /\ unseen' = unseen \cup {a}
          /\ severed' = severed \/ severed' = severed \cup {a}
          /\ raced' = (raced \/ o.agent.holds # Hydrated(o.entry, registries, Objects(agents)).holds)
      BY <1>12, <2>1 DEF PutAgentEnds
    <3>. QED  BY <3>1
  <2>4. SUFFICES ASSUME NEW b \in DOMAIN agents', ~raced'  PROVE HoldsParts(b)' /\ HoldsAgents(b)'
    BY <1>2
  <2>5. o.agent.holds = Hydrated(o.entry, registries, Objects(agents)).holds /\ ~raced
    BY <2>3, <2>4
  <2>6. o.entry \in Entry
    BY <2>2, OpsAre
  <2>7. \A n \in Names : o.agent.holds[n] =
           IF n \in o.entry.uses THEN Registered(n, registries, Objects(agents)) ELSE Missing
    BY <2>5, <2>6, HydratedFits, RegisteredFits
  <2>8. ASSUME NEW n \in Parts \ (severed \cup unseen)
        PROVE  agents'[b].holds[n] \in {Missing, registries[n]}
    <3>1. b \in DOMAIN agents => agents[b].holds[n] \in {Missing, registries[n]}
      BY <1>1, <2>5, <2>8 DEF HoldsParts
    <3>2. o.agent.holds[n] \in {Missing, registries[n]}
      BY <1>0, <2>7 DEF Registered
    <3>3. n \in Names
      BY <1>0
    <3>. QED  BY <2>2, <2>4, <3>1, <3>2, <3>3 DEF AgentPut
  <2>9. ASSUME NEW n \in Agents \ severed
        PROVE  \/ agents'[b].holds[n] = Missing
               \/ n \in DOMAIN agents /\ agents'[b].holds[n] = agents[n].object
    <3>1. b \in DOMAIN agents =>
             \/ agents[b].holds[n] = Missing
             \/ n \in DOMAIN agents /\ agents[b].holds[n] = agents[n].object
      BY <1>1, <2>5, <2>9 DEF HoldsAgents
    <3>2. \/ o.agent.holds[n] = Missing
          \/ n \in DOMAIN agents /\ o.agent.holds[n] = agents[n].object
      BY <1>0, <2>7, RegisteredFits DEF Registered
    <3>3. n \in Names
      BY <1>0
    <3>. QED  BY <2>2, <2>4, <3>1, <3>2, <3>3 DEF AgentPut
  <2>10. HoldsParts(b)'
    BY <2>3, <2>8 DEF HoldsParts
  <2>11. ASSUME NEW n \in Agents \ severed', n \in DOMAIN agents
         PROVE  n \in DOMAIN agents' /\ agents'[n].object = agents[n].object
    BY <2>2, <2>11 DEF AgentPut
  <2>12. HoldsAgents(b)'
    BY <2>3, <2>9, <2>11 DEF HoldsAgents
  <2>. QED  BY <2>10, <2>12
<1>13. ASSUME NEW i \in DOMAIN ops, DeleteAgentEnds(i)  PROVE HeldIsTrue'
  <2>1. PICK a : a = ops[i].name
    OBVIOUS
  <2>2. /\ agents' = Drop(agents, {a}) /\ unseen' = unseen \cup {a} /\ severed' = severed \cup {a}
        /\ UNCHANGED <<registries, raced>>
    BY <1>13, <2>1 DEF DeleteAgentEnds
  <2>3. DOMAIN agents' = DOMAIN agents \ {a} /\ \A b \in DOMAIN agents \ {a} : agents'[b] = agents[b]
    BY <2>2 DEF Drop
  <2>4. ASSUME NEW b \in DOMAIN agents', ~raced'  PROVE HoldsParts(b)' /\ HoldsAgents(b)'
    <3>1. HoldsParts(b) /\ HoldsAgents(b) /\ agents'[b] = agents[b]
      BY <1>1, <2>2, <2>3, <2>4
    <3>. QED  BY <2>2, <2>3, <3>1 DEF HoldsParts, HoldsAgents
  <2>. QED  BY <1>2, <2>4
<1>14. ASSUME NEW i \in DOMAIN handlers, Served(i)  PROVE raced => raced'
  BY <1>14 DEF Served
<1>15. ASSUME NEW i \in DOMAIN handlers, ApplyAgents(i)  PROVE HeldIsTrue'
  <2>1. PICK list : list = handlers[i].seen
    OBVIOUS
  <2>2. list \in Lists /\ AgentsApplied(list) /\ Ids(list) \subseteq Agents
    BY <1>15, <2>1, ApplyAgentsIs, IdsAreAgents
  <2>3. Served(i) /\ UNCHANGED <<registries, severed>>
    BY <1>15 DEF ApplyAgents
  <2>4. SUFFICES ASSUME NEW a \in DOMAIN agents', ~raced'  PROVE HoldsParts(a)' /\ HoldsAgents(a)'
    BY <1>2
  <2>5. ~raced
    BY <1>14, <2>3, <2>4
  <2>6. /\ DOMAIN agents' = (DOMAIN agents \cup NewIn(list)) \ GoneFrom(list)
        /\ \A b \in DOMAIN agents' : b \in DOMAIN agents => agents'[b].object = agents[b].object
        /\ \A n \in Names : HoldsAfter(list, a, n)
        /\ unseen' = unseen \ (GoneFrom(list) \cup NewIn(list))
        /\ DOMAIN agents' \subseteq Agents
    BY <2>2, <2>4 DEF AgentsApplied, AreAgents
  <2>7. GoneFrom(list) \cup NewIn(list) \subseteq Agents
    BY <1>0, <2>2 DEF GoneFrom, NewIn
  <2>8. ASSUME NEW p \in Parts \ (severed \cup unseen)
        PROVE  agents'[a].holds[p] \in {Missing, registries[p]}
    <3>1. HoldsAfter(list, a, p) /\ p \notin DOMAIN agents'
      BY <1>0, <2>6
    <3>2. a \in DOMAIN agents => agents[a].holds[p] \in {Missing, registries[p]}
      BY <1>1, <2>5, <2>8 DEF HoldsParts
    <3>. QED  BY <3>1, <3>2 DEF HoldsAfter
  <2>9. HoldsParts(a)'
    <3>1. \A p \in Parts : p \notin unseen' => p \notin unseen
      BY <1>0, <2>6, <2>7
    <3>. QED  BY <2>3, <2>8, <3>1 DEF HoldsParts
  <2>10. ASSUME NEW b \in Agents \ severed
         PROVE  \/ agents'[a].holds[b] = Missing
                \/ b \in DOMAIN agents' /\ agents'[a].holds[b] = agents'[b].object
    <3>1. HoldsAfter(list, a, b) /\ b \notin Parts
      BY <1>0, <2>6
    <3>2. a \in DOMAIN agents =>
             \/ agents[a].holds[b] = Missing
             \/ b \in DOMAIN agents /\ agents[a].holds[b] = agents[b].object
      BY <1>1, <2>5, <2>10 DEF HoldsAgents
    <3>3. b \in DOMAIN agents /\ b \notin GoneFrom(list) =>
             b \in DOMAIN agents' /\ agents'[b].object = agents[b].object
      BY <2>6
    <3>. QED  BY <3>1, <3>2, <3>3 DEF HoldsAfter
  <2>11. HoldsAgents(a)'
    BY <2>3, <2>10 DEF HoldsAgents
  <2>. QED  BY <2>9, <2>11
<1>16. ASSUME NEW i \in DOMAIN handlers, ApplySkill(i)  PROVE HeldIsTrue'
  <2>1. PICK s, v : s = handlers[i].file /\ v = handlers[i].seen
    OBVIOUS
  <2>2. Served(i) /\ UNCHANGED severed /\ s \in Skills
        /\ (UNCHANGED <<registries, agents, unseen>> \/ SkillApplied(s, v))
    BY <1>16, <2>1, ApplySkillIs DEF ApplySkill
  <2>3. raced => raced'
    BY <1>14, <2>2
  <2>4. CASE UNCHANGED <<registries, agents, unseen>>
    BY <1>4, <1>7, <2>2, <2>3, <2>4
  <2>5. CASE SkillApplied(s, v)
    <3>1. /\ SameBut(agents', agents) /\ unseen' = unseen \ {s}
          /\ registries' = [registries EXCEPT ![s] = v]
          /\ \A a \in DOMAIN agents, n \in Names : agents'[a].holds[n] =
                IF n = s /\ agents[a].holds[n] # Missing THEN v ELSE agents[a].holds[n]
      BY <2>5 DEF SkillApplied
    <3>2. \A a \in DOMAIN agents, b \in Agents : agents'[a].holds[b] = agents[a].holds[b]
      BY <1>0, <2>2, <3>1
    <3>3. ASSUME NEW a \in DOMAIN agents, NEW p \in Parts \ (severed' \cup unseen')
          PROVE  \/ agents'[a].holds[p] \in {Missing, registries'[p]}
                 \/ /\ p \notin severed \cup unseen /\ registries'[p] = registries[p]
                    /\ agents'[a].holds[p] = agents[a].holds[p]
      <4>1. CASE p = s
        BY <1>0, <3>1, <4>1
      <4>2. CASE p # s
        BY <1>0, <2>2, <3>1, <3>3, <4>2
      <4>. QED  BY <4>1, <4>2
    <3>. QED  BY <1>4, <2>2, <2>3, <3>1, <3>2, <3>3
  <2>. QED  BY <2>2, <2>4, <2>5
<1>17. ASSUME NEW i \in DOMAIN handlers, ApplyFlows(i)  PROVE HeldIsTrue'
  <2>1. PICK seen : seen = handlers[i].seen
    OBVIOUS
  <2>2. Served(i) /\ UNCHANGED severed /\ FlowsApplied(seen)
    BY <1>17, <2>1, ApplyFlowsIs DEF ApplyFlows
  <2>3. /\ SameBut(agents', agents) /\ unseen' = unseen \ ChangedIn(seen)
        /\ registries' = [p \in Parts |-> IF p \in ChangedIn(seen) THEN seen[p] ELSE registries[p]]
        /\ \A a \in DOMAIN agents, n \in Names :
              \/ n \in Flows /\ agents'[a].holds[n] \in {Missing, registries'[n]}
              \/ n \notin ChangedIn(seen) /\ agents'[a].holds[n] = agents[a].holds[n]
    BY <2>2 DEF FlowsApplied
  <2>4. \A a \in DOMAIN agents, b \in Agents : agents'[a].holds[b] = agents[a].holds[b]
    BY <1>0, <2>3
  <2>5. ASSUME NEW a \in DOMAIN agents, NEW p \in Parts \ (severed' \cup unseen')
        PROVE  \/ agents'[a].holds[p] \in {Missing, registries'[p]}
               \/ /\ p \notin severed \cup unseen /\ registries'[p] = registries[p]
                  /\ agents'[a].holds[p] = agents[a].holds[p]
    BY <1>0, <2>2, <2>3, <2>5
  <2>. QED  BY <1>4, <1>14, <2>2, <2>3, <2>4, <2>5
<1>18. ASSUME UnlinkAgents  PROVE HeldIsTrue'
  BY <1>18 DEF UnlinkAgents, HeldIsTrue
<1>19. ASSUME NEW ns, NEW took, ns \subseteq Parts, PartsTaken(ns, took), UNCHANGED <<severed, raced>>
       PROVE  HeldIsTrue'
  <2>1. /\ SameBut(agents', agents) /\ unseen' = unseen \ took /\ took \subseteq ns
        /\ registries' = [p \in Parts |-> IF p \in ns THEN Missing ELSE registries[p]]
        /\ \A a \in DOMAIN agents, n \in Names : agents'[a].holds[n] =
              IF n \in ns THEN Missing ELSE agents[a].holds[n]
    BY <1>19 DEF PartsTaken
  <2>2. \A a \in DOMAIN agents, b \in Agents : agents'[a].holds[b] \in {Missing, agents[a].holds[b]}
    BY <1>0, <2>1
  <2>3. ASSUME NEW a \in DOMAIN agents, NEW p \in Parts \ (severed' \cup unseen')
        PROVE  \/ agents'[a].holds[p] \in {Missing, registries'[p]}
               \/ /\ p \notin severed \cup unseen /\ registries'[p] = registries[p]
                  /\ agents'[a].holds[p] = agents[a].holds[p]
    BY <1>0, <1>19, <2>1, <2>3
  <2>. QED  BY <1>4, <1>19, <2>1, <2>2, <2>3
<1>20. ASSUME NEW s \in Skills, UnlinkSkill(s)  PROVE HeldIsTrue'
  <2>1. UNCHANGED <<severed, raced>> /\ {s} \subseteq Parts
    BY <1>0, <1>20 DEF UnlinkSkill
  <2>2. UNCHANGED <<registries, agents, unseen>> \/ PartsTaken({s}, {s})
    BY <1>20, UnlinkSkillIs
  <2>. QED  BY <1>3, <1>19, <2>1, <2>2
<1>21. ASSUME NEW f \in Flows, UnlinkFlow(f)  PROVE HeldIsTrue'
  <2>1. UNCHANGED <<severed, raced>>
    BY <1>21 DEF UnlinkFlow
  <2>. QED  BY <1>0, <1>19, <1>21, <2>1, UnlinkFlowIs
<1>22. ASSUME Restart  PROVE HeldIsTrue'
  <2>1. agents' = Booted(entries') /\ registries' = [p \in Parts |-> Readable(p)]
        /\ entries' \in Lists
    BY <1>22, FilesStayFit DEF Restart, Boot, FilesFit
  <2>2. AgentsBooted(agents', entries')
    BY <1>0, <2>1, BootedIs
  <2>. QED  BY <2>1, <2>2 DEF AgentsBooted, HeldIsTrue
<1>. QED  BY <1>5, <1>6, <1>9, <1>10, <1>11, <1>12, <1>13, <1>15, <1>16, <1>17, <1>18, <1>20, <1>21,
             <1>22 DEF ReloadNext, ByRequest, Watcher

-----------------------------------------------------------------------------
(***************************************************************************)
(* The invariant holds, and what it says when nothing is under way.        *)
(***************************************************************************)
LEMMA ReloadInvBegins == ReloadInit => ReloadInv
<1>. SUFFICES ASSUME ReloadInit  PROVE ReloadInv
  OBVIOUS
<1>1. /\ entries \in Lists /\ half = FALSE /\ content = [p \in Parts |-> 1] /\ registries = content /\ built = 1
      /\ agents = Booted(entries) /\ prints = [n \in Names |-> NoPrint]
      /\ pending = [f \in Files |-> <<>>] /\ handlers = <<>> /\ ops = [i \in {} |-> <<>>]
      /\ changes = 0 /\ unseen = {} /\ severed = {} /\ raced = FALSE
  BY BeginningsAreLists DEF ReloadInit
<1>2. content \in [Parts -> 0..3] /\ registries \in [Parts -> 0..2] /\ built \in Nat
  BY <1>1
<1>3. AgentsBooted(agents, entries)
  BY <1>1, <1>2, BootedIs
<1>4. \A p \in Parts : content[p] = 1 /\ registries[p] = 1 /\ Readable(p) = 1
  BY <1>1 DEF Readable, Torn
<1>5. FilesFit
  <2>1. pending \in [Files -> Events]
    BY <1>1 DEF Events
  <2>2. OpsFit
    BY <1>1 DEF OpsFit
  <2>3. handlers \in Seq(Handlers)
    BY <1>1
  <2>4. entries \in Lists /\ half \in BOOLEAN /\ content \in [Parts -> 0..3]
    BY <1>1, <1>2
  <2>. QED  BY <2>1, <2>2, <2>3, <2>4, Zenon DEF FilesFit
<1>6. RegistriesFit
  <2>1. \A a \in Agents : prints[a] \in {NoPrint} \cup Entry
    BY <1>1, NamesAre
  <2>2. \A p \in Parts : prints[p] \in {NoPrint} \cup Versions
    BY <1>1, NamesAre
  <2>. QED  BY <1>1, <1>2, <1>3, <2>1, <2>2 DEF AgentsBooted, RegistriesFit
<1>7. EventsAreTrue
  BY <1>1, EventsAre, NamesAre DEF EventsAreTrue, AgentsEvent, PartEvent, Files
<1>8. PrintsAreTrue
  BY <1>1 DEF PrintsAreTrue, PrintTrue
<1>9. \A F : AllLate(F)
  BY <1>1 DEF AllLate
<1>10. AgentsFollow
  BY <1>3, <1>9 DEF AgentsFollow, AgentAgrees, AgentsBooted
<1>11. \A s \in Skills : SkillFollows(s)
  BY <1>4, <1>9, NamesAre DEF SkillFollows
<1>12. \A f \in Flows : FlowFollows(f)
  BY <1>4, <1>9, NamesAre DEF FlowFollows
<1>13. HeldIsTrue
  BY <1>1, <1>3, <1>4 DEF HeldIsTrue, AgentsBooted
<1>. QED  BY <1>5, <1>6, <1>7, <1>8, <1>10, <1>11, <1>12, <1>13 DEF ReloadInv

LEMMA ReloadInvStays == ReloadInv /\ [ReloadNext]_reloadVars => ReloadInv'
<1>. SUFFICES ASSUME ReloadInv, [ReloadNext]_reloadVars  PROVE ReloadInv'
  OBVIOUS
<1>0. /\ FilesFit /\ RegistriesFit /\ EventsAreTrue /\ PrintsAreTrue /\ AgentsFollow /\ HeldIsTrue
      /\ \A s \in Skills : SkillFollows(s)
      /\ \A f \in Flows : FlowFollows(f)
  BY DEF ReloadInv
<1>1. CASE ReloadNext
  <2>1. FilesFit' /\ RegistriesFit'
    BY <1>0, <1>1, FilesStayFit, RegistriesStayFit
  <2>2. EventsAreTrue' /\ PrintsAreTrue'
    BY <1>0, <1>1, EventsStayTrue, PrintsStayTrue
  <2>3. AgentsFollow'
    BY <1>0, <1>1, AgentsStayFollowing
  <2>4. \A s \in Skills : SkillFollows(s)'
    BY <1>0, <1>1, SkillStaysFollowing
  <2>5. \A f \in Flows : FlowFollows(f)'
    BY <1>0, <1>1, FlowStaysFollowing
  <2>6. HeldIsTrue'
    BY <1>0, <1>1, HeldStaysTrue
  <2>. QED  BY <2>1, <2>2, <2>3, <2>4, <2>5, <2>6 DEF ReloadInv
<1>2. CASE UNCHANGED reloadVars
  <2>. USE <1>0, <1>2 DEF reloadVars, disk, store, memory, writes, history
  <2>1. FilesFit' /\ RegistriesFit'
    BY DEF FilesFit, OpsFit, RegistriesFit
  <2>2. EventsAreTrue' /\ PrintsAreTrue'
    BY DEF EventsAreTrue, AgentsEvent, PartEvent, PrintsAreTrue, PrintTrue
  <2>3. AgentsFollow'
    BY DEF AgentsFollow, AgentAgrees, LastSeen, AllLate, IsLast
  <2>4. \A s \in Skills : SkillFollows(s)'
    BY DEF SkillFollows, LastSeen, AllLate, IsLast, Readable
  <2>5. \A f \in Flows : FlowFollows(f)'
    BY DEF FlowFollows, LastSeen, AllLate, IsLast, Unsettled, Writing, Readable
  <2>6. HeldIsTrue'
    BY DEF HeldIsTrue
  <2>. QED  BY <2>1, <2>2, <2>3, <2>4, <2>5, <2>6 DEF ReloadInv
<1>. QED  BY <1>1, <1>2

LEMMA ReloadInvHolds == ReloadSpec => []ReloadInv
  BY ReloadInvBegins, ReloadInvStays, PTL DEF ReloadSpec

\* No handler is left to be the last of its updater, and no request to write.
LEMMA RestIs ==
  ASSUME AtRest
  PROVE  /\ \A F : LastSeen(F) = {}
         /\ \A f \in Files : pending[f] = <<>>
         /\ \A p \in Parts : ~Writing(p)
<1>1. handlers = <<>> /\ DOMAIN handlers = {}
  BY DEF AtRest
<1>2. \A F : LastSeen(F) = {}
  BY <1>1 DEF LastSeen
<1>. QED  BY <1>2 DEF AtRest, Writing

\* The registries of agents, skills and workflows are well formed at all times, and say
\* what the files say when nothing is under way, as far as the files can be parsed, whatever
\* the updaters, requests, tools and restarts did in between and however their writes of a
\* file met (AgentConfigUpdater.ts, SkillsUpdater.ts, WorkFlowUpdater.ts); but for a handler
\* that applied an older reading after a newer one, and for names the API changed unseen.
THEOREM RegistriesStayTrue == ReloadSpec => []RegistriesAreTrue
<1>1. ReloadInv => RegistriesAreTrue
  <2>. SUFFICES ASSUME ReloadInv  PROVE ReloadTypeOK /\ RegistriesFollowFiles
    BY DEF RegistriesAreTrue
  <2>1. ReloadTypeOK
    BY DEF ReloadInv, FilesFit, RegistriesFit, AreAgents, Lists, ReloadTypeOK
  <2>2. ASSUME AtRest, ~raced
        PROVE  /\ ~half => \A a \in Agents \ unseen : AgentAgrees(a)
               /\ \A s \in Skills \ unseen : content[s] # Torn => registries[s] = Readable(s)
               /\ \A f \in Flows \ unseen : registries[f] \in {Missing, Readable(f)}
    <3>1. ~half => \A a \in Agents \ unseen : AgentAgrees(a)
      BY <2>2, RestIs, NamesAre DEF ReloadInv, AgentsFollow, Files
    <3>2. \A s \in Skills \ unseen : content[s] # Torn => registries[s] = Readable(s)
      BY <2>2, RestIs, NamesAre DEF ReloadInv, SkillFollows
    <3>3. \A f \in Flows \ unseen : registries[f] \in {Missing, Readable(f)}
      BY <2>2, RestIs, NamesAre DEF ReloadInv, FlowFollows, Unsettled
    <3>. QED  BY <3>1, <3>2, <3>3
  <2>3. RegistriesFollowFiles
    BY <2>2 DEF RegistriesFollowFiles, AgentAgrees
  <2>. QED  BY <2>1, <2>3
<1>. QED  BY <1>1, ReloadInvHolds, PTL

\* When nothing is under way, an agent holds no skill, workflow or sub-agent that is not the
\* registered one, but for what the API deleted or changed without the updaters
\* (SkillsUpdater.ts:65, AgentConfigUpdater.ts:57).
THEOREM HeldStaysRegistered == ReloadSpec => []HeldIsRegistered
<1>1. ReloadInv => HeldIsRegistered
  <2>. SUFFICES ASSUME ReloadInv, AtRest, ~raced,
                       NEW a \in DOMAIN agents, NEW n \in Names \ (severed \cup unseen)
                PROVE  agents[a].holds[n] \in {Missing, Registered(n, registries, Objects(agents))}
    BY DEF HeldIsRegistered
  <2>1. CASE n \in Parts
    BY <2>1 DEF ReloadInv, HeldIsTrue, Registered
  <2>2. CASE n \notin Parts
    <3>1. n \in Agents \ severed
      BY <2>2 DEF Names
    <3>2. agents[a].holds[n] = Missing \/ (n \in DOMAIN agents /\ agents[a].holds[n] = agents[n].object)
      BY <3>1 DEF ReloadInv, HeldIsTrue
    <3>. QED  BY <2>2, <3>2 DEF Registered, Objects
  <2>. QED  BY <2>1, <2>2
<1>. QED  BY <1>1, ReloadInvHolds, PTL
=============================================================================
