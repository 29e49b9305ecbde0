--------------------------- MODULE MCPConnection ---------------------------
(***************************************************************************)
(* The connections to one MCP server under one alias: MCPServerRegistry,    *)
(* MCPConnectionManager and the MCPClients that are registered one after    *)
(* the other, with the REST requests that go to a client directly.  A       *)
(* client and the manager's MCPConnectionState for it are one record.       *)
(*                                                                         *)
(* Calls overlap at every await, and each is an entry of `calls`.  The      *)
(* transport is the SDK's: closing it takes time, its onclose runs before   *)
(* the first close() returns, a second close() does not wait.  A definition *)
(* whose name starts with Bad is a bug the code does not have.              *)
(***************************************************************************)
EXTENDS Naturals, FiniteSets

CONSTANTS
    MaxClients,   \* bound: clients registered
    MaxAttempts,  \* RECONNECT_MAX_ATTEMPTS
    MaxCalls,     \* bound: calls under way at a time
    MaxRequests,  \* bound: deletions and REST requests
    MaxDrops,     \* bound: connections the server closes
    MaxLinks,     \* bound: open transports of a client
    None

ASSUME MCPConnectionAssumption ==
    /\ {MaxRequests, MaxDrops} \subseteq Nat /\ None \notin Nat
    /\ {MaxClients, MaxAttempts, MaxCalls, MaxLinks} \subseteq Nat \ {0}

Clients == 1..MaxClients
Links == 1..MaxLinks
Attempts == 1..MaxAttempts
Statuses == {"disconnected", "connecting", "connected", "error"}

Server == [
    status     : Statuses,            \* MCPClient.status
    link       : Links \cup {None},   \* MCPClient.client
    open       : SUBSET Links,        \* the transports that are open
    managed    : Statuses,            \* statusDetails.status
    manual     : BOOLEAN,             \* manuallyDisconnected
    subscribed : BOOLEAN,             \* disconnectSubscribed
    gaveUp     : BOOLEAN,             \* "Exceeded max reconnect attempts"
    timers     : [Attempts -> Nat],   \* reconnect timers that will fire
    timer      : Attempts \cup {None}]\* reconnectTimer

Kinds == {"add", "remove", "disconnect", "timer", "rest"}
Call == [kind : Kinds, of : Clients, on : Clients, link : Links \cup {None},
         phase : {"close", "reclose", "handshake"}, first : BOOLEAN, attempt : Attempts]
Free == [phase |-> "free"]
Slots == 1..MaxCalls

VARIABLES
    registry,  \* MCPServerRegistry's client, or None
    tracked,   \* connections.get(alias), or None
    server,    \* the clients
    made,      \* clients registered so far
    calls,     \* calls that wait for a transport
    requests,  \* deletions and REST requests so far
    drops      \* connections closed by the server so far

vars == <<registry, tracked, server, made, calls, requests, drops>>

TypeOK ==
    /\ {registry, tracked} \subseteq Clients \cup {None}
    /\ server \in [Clients -> Server]
    /\ made \in 0..MaxClients /\ requests \in 0..MaxRequests /\ drops \in 0..MaxDrops
    /\ calls \in [Slots -> Call \cup {Free}]

NewServer == [status |-> "disconnected", link |-> None, open |-> {}, managed |-> "disconnected",
              manual |-> FALSE, subscribed |-> FALSE, gaveUp |-> FALSE,
              timers |-> [a \in Attempts |-> 0], timer |-> None]

Init ==
    /\ registry = None /\ tracked = None /\ made = 0 /\ requests = 0 /\ drops = 0
    /\ server = [c \in Clients |-> NewServer]
    /\ calls = [s \in Slots |-> Free]

Waiting == {s \in Slots : calls[s] # Free}
Spare(n) == Cardinality(Slots \ Waiting) >= n
Slot == CHOOSE s \in Slots : s \notin Waiting

-----------------------------------------------------------------------------
(***************************************************************************)
(* What the functions of the manager and the client do to a client's record.*)
(***************************************************************************)
\* clearReconnectTimer: of the one timer the manager still knows.
Cleared(s) ==
    IF s.timer = None THEN s ELSE [s EXCEPT !.timers[s.timer] = @ - 1, !.timer = None]

\* scheduleReconnect.
Scheduled(s, attempt) ==
    IF attempt > MaxAttempts THEN [s EXCEPT !.managed = "error", !.gaveUp = TRUE]
    ELSE [s EXCEPT !.timers[attempt] = @ + 1, !.timer = attempt]

BadLostQuietly(s, l) ==
    IF s.status # "connected" THEN [s EXCEPT !.open = @ \ {l}]
    ELSE [s EXCEPT !.open = @ \ {l}, !.status = "disconnected",
                   !.managed = IF s.subscribed THEN "disconnected" ELSE @]

\* transport.onclose, and the manager's callback once it has subscribed.
Lost(s, l) ==
    LET closed == [s EXCEPT !.open = @ \ {l}]
        down == [closed EXCEPT !.status = "disconnected"]
    IN
    IF s.status # "connected" THEN closed
    ELSE IF ~s.subscribed \/ s.manual THEN down
    ELSE Scheduled([down EXCEPT !.managed = "disconnected"], 1)

\* MCPClient.disconnect is over, whatever has become of the client meanwhile.
Parted(s) == [s EXCEPT !.link = None, !.status = "disconnected"]

Manual(s) == [Cleared(s) EXCEPT !.manual = TRUE]

\* close() waits for the transport, unless somebody else closes it already.
Closing(kind, of, on) ==
    LET l == server[on].link IN
    [kind |-> kind, of |-> of, on |-> on, phase |-> "close", link |-> l, attempt |-> 1,
     first |-> l \in server[on].open /\ \A s \in Waiting : ~(calls[s].on = on /\ calls[s].link = l)]

-----------------------------------------------------------------------------
(***************************************************************************)
(* Connecting.                                                             *)
(***************************************************************************)
\* client.connect: one that is connected disconnects first.
Connect(slot, kind, c, attempt, servers) ==
    LET again == servers[c].status = "connected"
        call == [Closing(kind, c, c) EXCEPT !.attempt = attempt]
    IN
    /\ server' = IF again THEN servers ELSE [servers EXCEPT ![c].status = "connecting"]
    /\ calls' = [calls EXCEPT ![slot] =
                   IF again THEN [call EXCEPT !.phase = "reclose"]
                   ELSE [call EXCEPT !.phase = "handshake", !.link = None, !.first = FALSE]]

\* connectClient.
ManagerConnects(slot, kind, c, attempt, servers) ==
    Connect(slot, kind, c, attempt,
            [servers EXCEPT ![c] = [Cleared(@) EXCEPT !.managed = "connecting"]])

At(s, phase) == s \in Waiting /\ calls[s].phase = phase
End(s) == calls' = [calls EXCEPT ![s] = Free]

Closed(s) == calls[s].first => calls[s].link \notin server[calls[s].on].open

Reclosed(s) ==
    /\ At(s, "reclose") /\ Closed(s)
    /\ server' = [server EXCEPT ![calls[s].on] = [Parted(@) EXCEPT !.status = "connecting"]]
    /\ calls' = [calls EXCEPT ![s].phase = "handshake", ![s].link = None, ![s].first = FALSE]
    /\ UNCHANGED <<registry, tracked, made, requests, drops>>

\* A client connected by the manager is subscribed to; nobody asks if it is still wanted.
Succeed(s) ==
    LET c == calls[s].on
        l == CHOOSE k \in Links : k \notin server[c].open
        up == [server[c] EXCEPT !.open = @ \cup {l}, !.link = l, !.status = "connected"]
    IN
    /\ At(s, "handshake") /\ Links \ server[c].open # {}
    /\ server' = [server EXCEPT ![c] =
                    IF calls[s].kind = "rest" THEN up
                    ELSE [up EXCEPT !.managed = "connected", !.subscribed = TRUE]]
    /\ End(s)
    /\ UNCHANGED <<registry, tracked, made, requests, drops>>

BadHandshakeFails(s) ==
    LET down == [server[calls[s].on] EXCEPT !.status = "error", !.link = None] IN
    /\ At(s, "handshake")
    /\ server' = [server EXCEPT ![calls[s].on] =
                    IF calls[s].kind = "rest" THEN down ELSE [down EXCEPT !.managed = "error"]]
    /\ End(s)
    /\ UNCHANGED <<registry, tracked, made, requests, drops>>

\* Only an attempt of a timer is followed by another.
HandshakeFails(s) ==
    LET down == [server[calls[s].on] EXCEPT !.status = "error", !.link = None]
        failed == [down EXCEPT !.managed = "error"]
    IN
    /\ At(s, "handshake")
    /\ server' = [server EXCEPT ![calls[s].on] =
                    CASE calls[s].kind = "rest" -> down
                      [] calls[s].kind = "add" -> failed
                      [] OTHER -> Scheduled(failed, calls[s].attempt + 1)]
    /\ End(s)
    /\ UNCHANGED <<registry, tracked, made, requests, drops>>

BadTimerFires(c, a) ==
    /\ server[c].timers[a] > 0 /\ Spare(1)
    /\ ManagerConnects(Slot, "timer", c, a, [server EXCEPT ![c].timers[a] = @ - 1, ![c].timer = None])
    /\ UNCHANGED <<registry, tracked, made, requests, drops>>

\* It asks whether anything is connected under the alias, not whether this client is.
TimerFires(c, a) ==
    LET fired == [server EXCEPT ![c].timers[a] = @ - 1, ![c].timer = None] IN
    /\ server[c].timers[a] > 0 /\ Spare(1)
    /\ IF server[c].manual \/ tracked = None THEN server' = fired /\ UNCHANGED calls
       ELSE ManagerConnects(Slot, "timer", c, a, fired)
    /\ UNCHANGED <<registry, tracked, made, requests, drops>>

-----------------------------------------------------------------------------
(***************************************************************************)
(* Registering and removing.                                               *)
(***************************************************************************)
\* What remove does before its await, and whether there is one.
Removing == IF tracked = None THEN server ELSE [server EXCEPT ![tracked] = Manual(@)]
RemoveWaits == tracked # None /\ server[tracked].managed = "connected"

\* mcp_add, mcp_update and createMCPServer register; updateMCPServer and the updater of the
\* configuration unregister first, in the same tick.  add removes what is there.
Register ==
    LET c == made + 1 IN
    /\ made < MaxClients /\ Spare(2)
    /\ made' = c /\ registry' = c
    /\ IF RemoveWaits
       THEN /\ server' = Removing /\ UNCHANGED tracked
            /\ \/ calls' = [calls EXCEPT ![Slot] = Closing("add", c, tracked)]
               \/ registry # None /\ calls' = [calls EXCEPT
                     ![Slot] = Closing("remove", tracked, tracked),
                     ![CHOOSE s \in Slots \ {Slot} : s \notin Waiting] =
                         [Closing("add", c, tracked) EXCEPT !.first = FALSE]]
       ELSE tracked' = c /\ ManagerConnects(Slot, "add", c, 1, Removing)
    /\ UNCHANGED <<requests, drops>>

\* mcp_delete, deleteMCPServer and the updater.
Unregister ==
    /\ registry # None /\ requests < MaxRequests /\ Spare(1)
    /\ registry' = None /\ requests' = requests + 1
    /\ server' = Removing
    /\ IF RemoveWaits
       THEN /\ calls' = [calls EXCEPT ![Slot] = Closing("remove", tracked, tracked)]
            /\ UNCHANGED tracked
       ELSE tracked' = None /\ UNCHANGED calls
    /\ UNCHANGED <<made, drops>>

\* A disconnect returns; a removal deletes the alias, whoever is connected under it by then.
CloseReturns(s) ==
    LET c == calls[s].on
        after == [server EXCEPT ![c] = [Parted(@) EXCEPT !.managed = "disconnected"]]
    IN
    /\ At(s, "close") /\ Closed(s)
    /\ \/ /\ calls[s].kind = "rest" /\ server' = [server EXCEPT ![c] = Parted(@)]
          /\ End(s) /\ UNCHANGED tracked
       \/ calls[s].kind = "disconnect" /\ server' = after /\ End(s) /\ UNCHANGED tracked
       \/ calls[s].kind = "remove" /\ server' = after /\ End(s) /\ tracked' = None
       \/ /\ calls[s].kind = "add" /\ tracked' = calls[s].of
          /\ ManagerConnects(s, "add", calls[s].of, 1, after)
    /\ UNCHANGED <<registry, made, requests, drops>>

\* disconnectAll, at shutdown.
DisconnectAll ==
    /\ tracked # None /\ requests < MaxRequests /\ Spare(1)
    /\ requests' = requests + 1
    /\ server' = [server EXCEPT ![tracked] = Manual(@)]
    /\ calls' = [calls EXCEPT ![Slot] = Closing("disconnect", tracked, tracked)]
    /\ UNCHANGED <<registry, tracked, made, drops>>

\* connectMCPServer and disconnectMCPServer go to the client, past the manager.
RestConnect ==
    /\ registry # None /\ requests < MaxRequests /\ Spare(1)
    /\ requests' = requests + 1 /\ Connect(Slot, "rest", registry, 1, server)
    /\ UNCHANGED <<registry, tracked, made, drops>>

RestDisconnect ==
    /\ registry # None /\ server[registry].link # None /\ requests < MaxRequests /\ Spare(1)
    /\ requests' = requests + 1
    /\ calls' = [calls EXCEPT ![Slot] = Closing("rest", registry, registry)]
    /\ UNCHANGED <<registry, tracked, server, made, drops>>

-----------------------------------------------------------------------------
\* The transport somebody closes is closed; the server closes one.
TransportCloses(s) ==
    LET c == calls[s].on IN
    /\ s \in Waiting /\ calls[s].first /\ calls[s].link \in server[c].open
    /\ server' = [server EXCEPT ![c] = Lost(@, calls[s].link)]
    /\ UNCHANGED <<registry, tracked, made, calls, requests, drops>>

ServerCloses(c, l) ==
    /\ l \in server[c].open /\ drops < MaxDrops
    /\ drops' = drops + 1
    /\ server' = [server EXCEPT ![c] = Lost(@, l)]
    /\ UNCHANGED <<registry, tracked, made, calls, requests>>

Answers(s) ==
    Reclosed(s) \/ Succeed(s) \/ HandshakeFails(s) \/ CloseReturns(s) \/ TransportCloses(s)

Next ==
    \/ \E s \in Slots : Answers(s)
    \/ \E c \in Clients : \/ \E a \in Attempts : TimerFires(c, a)
                          \/ \E l \in Links : ServerCloses(c, l)
    \/ Register \/ Unregister \/ DisconnectAll \/ RestConnect \/ RestDisconnect

\* A handshake ends (the SDK's request times out), a close too, and timers fire.
Fairness ==
    /\ \A s \in Slots : WF_vars(Answers(s))
    /\ \A c \in Clients, a \in Attempts : SF_vars(TimerFires(c, a))

Spec == Init /\ [][Next]_vars /\ Fairness

-----------------------------------------------------------------------------
(***************************************************************************)
(* Properties.                                                             *)
(***************************************************************************)
(* The status a client reports is "the real MCP connection state"                          *)
(* (mcpManagerSkillMd.ts:60) when it says connected: its own transport is open, however    *)
(* connects, disconnects and drops overlap.                                                *)
ConnectedIsReal ==
    \A c \in Clients : server[c].status = "connected" => server[c].link \in server[c].open

(* A connection the manager had and knows to be lost is being retried, until the manager   *)
(* gives up or is told to disconnect: a timer is set or somebody is at it.                 *)
LostIsRetried ==
    \A c \in Clients :
        /\ tracked = c /\ server[c].subscribed /\ ~server[c].manual
        /\ server[c].managed \in {"disconnected", "error"}
        => \/ server[c].gaveUp
           \/ \E a \in Attempts : server[c].timers[a] > 0
           \/ \E s \in Waiting : c \in {calls[s].on, calls[s].of}

(* What the manager shows of a client is worth something: connected is connected, and lost  *)
(* is being seen to.                                                                       *)
StatusIsHonest == TypeOK /\ ConnectedIsReal /\ LostIsRetried

(* Once the manager is told to disconnect or remove a client, no timer starts an attempt   *)
(* on it, not one that was forgotten and not the next of an attempt that was under way.    *)
NoRetryOnceDisconnected ==
    [][\A s \in Slots : calls[s] = Free /\ calls'[s] # Free /\ calls'[s].kind = "timer"
           => ~server[calls'[s].on].manual]_vars

(* A lost connection comes to an end: it is connected again, given up, or no longer wanted.*)
LostSettles ==
    \A c \in Clients :
        tracked = c /\ server[c].subscribed /\ server[c].managed = "disconnected"
            ~> \/ server[c].managed = "connected" \/ server[c].gaveUp
               \/ server[c].manual \/ tracked # c

(* "Removes an MCP server configuration from disk and disconnects it from the system"      *)
(* (DeleteMCPTool.ts): a server that was deleted has no connection left.                   *)
DeletedIsDisconnected ==
    registry = None /\ Waiting = {} => \A c \in Clients : server[c].open = {}
=============================================================================
