SPECIFICATION Spec
CONSTANTS
    s1 = s1
    s2 = s2
    f1 = f1
    None = None
    Other = Other
    Sessions = {s1, s2}
    Temporary = {s2}
    Flows = {f1}
    MaxStreams = 2
    MaxJoins = 1
    MaxEvents = 2
    MaxMeddling = 1
INVARIANTS BusIsCurrent NoEventLost SessionOutlivesRun
PROPERTIES ResponsesEnd
CHECK_DEADLOCK FALSE
