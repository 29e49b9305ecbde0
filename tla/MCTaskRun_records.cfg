SPECIFICATION Spec
CONSTANTS
    p = p
    w = w
    None = None
    Torn = Torn
    Tasks = {p, w}
    Workflow = {w}
    Persistent = {p}
    Silent = {}
    MaxRuns = 2
    MaxCrashes = 1
    MaxDeletes = 1
    Keep = 1
INVARIANTS RecordsAreTrue NothingPilesUp
PROPERTIES FinalStays RunsSettle
CHECK_DEADLOCK FALSE
