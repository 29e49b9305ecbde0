SPECIFICATION Spec
CONSTANTS
    Preserve = 1
    Saving = TRUE
    Crashes = TRUE
    MaxMessages = 5
    MaxDeliveries = 1
    MaxSaves = 1
INVARIANTS WireIsCoherent OwnMessagesKept DurableWhenQuiet
CHECK_DEADLOCK FALSE
