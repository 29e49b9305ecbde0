SPECIFICATION FairSpec
CONSTANTS
    s1 = s1
    s2 = s2
    shellCall = shellCall
    doneCall = doneCall
    execute_command = execute_command
    rm = rm
    glob = glob
    None = None
    Api = Api
    Torn = Torn
    Sessions = {s1}
    NumGuardrails = 2
    Calls = {shellCall, doneCall}
    Keys = {execute_command, rm}
    Patterns = {glob}
    KeyOf <- MCKeyOf
    Covers <- MCCovers
    MaxWrites = 2
INVARIANTS CallsAreLawful DenialsAreRemembered
PROPERTIES UnattendedCheckEnds
CHECK_DEADLOCK FALSE
