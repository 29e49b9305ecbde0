SPECIFICATION Spec
CONSTANTS
    MaxClients = 2
    MaxAttempts = 2
    MaxCalls = 3
    MaxRequests = 2
    MaxDrops = 1
    MaxLinks = 2
    None = None
INVARIANTS StatusIsHonest
PROPERTIES NoRetryOnceDisconnected LostSettles
CHECK_DEADLOCK FALSE
