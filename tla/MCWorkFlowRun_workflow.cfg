SPECIFICATION WalkSpec
CONSTANTS
    Nodes <- LoopNodes
    Kind <- LoopKind
    Connections <- LoopConnections
    Fragile = {"work", "while"}
    Iterations <- LoopIterations
    Torn = Torn
INVARIANTS WalkIsSound CompletedIsTrue
PROPERTIES NoWorkAfterStop StoppedEnds
CHECK_DEADLOCK FALSE
