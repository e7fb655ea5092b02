SPECIFICATION Spec
CONSTANTS
    NoThread = NoThread
    Tick = tick
    NoOwner = none
    Keys = {k1}
    Threads = {t1}
    MaxSessions = 2
    Waits = {}
    Posts = {n1}
    MaxLog = 2
    MaxPending = 1
    HasHandler = TRUE
    Grace = TRUE
    Calls = {"notify", "turn", "extend", "activity", "close", "rename"}
    Outcomes = {"delivered", "unroutable"}
    Kinds = {"text"}
    Faults = {"idle", "post"}
SYMMETRY Symmetry
INVARIANTS
    NoReplyLost
PROPERTIES
    MarkForward
CHECK_DEADLOCK FALSE
