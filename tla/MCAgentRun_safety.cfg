SPECIFICATION FairSpec
CONSTANTS
    r1 = r1
    r2 = r2
    r3 = r3
    a1 = a1
    a2 = a2
    s1 = s1
    s2 = s2
    None = None
    Runs = {r1, r2, r3}
    Sessions = {s1, s2}
    Agents = {a1, a2}
    MaxForced = 2
    Requests <- TwoSessionRequests
INVARIANTS SessionsAgree ControllersMatchRuns LateToolsBounded
PROPERTIES ImplementsLock StoppedRunEnds
CHECK_DEADLOCK FALSE
