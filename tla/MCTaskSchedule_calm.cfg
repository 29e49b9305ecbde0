SPECIFICATION TimerSpec
CONSTANTS
    t1 = t1
    t2 = t2
    None = None
    Torn = Torn
    Tasks = {t1}
    Slots = {1, 2}
    MaxTime = 1
    MaxReads = 1
    MaxOps = 3
    Crashes = TRUE
INVARIANTS TimerIsTrue FiresAsOrdered
CHECK_DEADLOCK FALSE
