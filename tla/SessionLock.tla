----------------------------- MODULE SessionLock -----------------------------
(***************************************************************************)
(* What the status field of a session promises, with no run, agent or      *)
(* dispatcher in sight: a session is a lock that one run at a time holds.  *)
(* A run asks once; it is refused when somebody holds the lock, and gives  *)
(* the lock back exactly once.  AgentRun implements this specification.    *)
(***************************************************************************)
CONSTANTS
    Runs,      \* the invocations that may ask for a session
    Sessions   \* the sessions

VARIABLES
    holders,   \* holders[s]: the runs that hold session s
    finished   \* the runs that were refused or have given their session back

vars == <<holders, finished>>

TypeOK ==
    /\ holders \in [Sessions -> SUBSET Runs]
    /\ finished \subseteq Runs

Init ==
    /\ holders = [s \in Sessions |-> {}]
    /\ finished = {}

Holds(r, s) == r \in holders[s]

\* A run that never asked before takes a free session.
Acquire(r, s) ==
    /\ r \notin finished
    /\ \A t \in Sessions : ~Holds(r, t)
    /\ holders[s] = {}
    /\ holders' = [holders EXCEPT ![s] = {r}]
    /\ UNCHANGED finished

\* A run that never asked before is refused because the session is held.
Refuse(r, s) ==
    /\ r \notin finished
    /\ \A t \in Sessions : ~Holds(r, t)
    /\ holders[s] # {}
    /\ finished' = finished \cup {r}
    /\ UNCHANGED holders

\* The holder gives its session back.
Release(r, s) ==
    /\ Holds(r, s)
    /\ holders' = [holders EXCEPT ![s] = @ \ {r}]
    /\ finished' = finished \cup {r}

Next == \E r \in Runs, s \in Sessions : Acquire(r, s) \/ Refuse(r, s) \/ Release(r, s)

Spec == Init /\ [][Next]_vars
=============================================================================
