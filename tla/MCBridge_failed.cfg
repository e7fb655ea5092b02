SPECIFICATION Spec
CONSTANTS
    NoThread = NoThread
    Tick = tick
    NoOwner = none
    Keys = {k1}
    Threads = {t1}
    MaxSessions = 1
    Waits = {w1}
    Posts = {n1}
    MaxLog = 2
    MaxPending = 1
    HasHandler = TRUE
    Grace = FALSE
    Calls = {"notify"}
    Outcomes = {"delivered", "failed"}
    Kinds = {"text"}
    Faults = {}
SYMMETRY Symmetry
INVARIANTS
    NoReplyLost
CHECK_DEADLOCK FALSE
