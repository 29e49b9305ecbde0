SPECIFICATION Spec
CONSTANTS
    c1 = c1
    c2 = c2
    a1 = a1
    o1 = o1
    o2 = o2
    o3 = o3
    o4 = o4
    None = None
    Chats = {c1, c2}
    Agents = {a1}
    MaxSessions = 2
    Ops = {o1, o2, o3, o4}
SYMMETRY Symmetry
INVARIANTS ChatsAreSound DeletionIsExact ActiveIsExact
CHECK_DEADLOCK FALSE
