SPECIFICATION Spec
CONSTANTS
    NoThread = NoThread
    Tick = tick
    NoOwner = none
    Keys = {k1}
    Threads = {t1}
    MaxSessions = 1
    Waits = {w1}
    Posts = {n1}
    MaxLog = 3
    MaxPending = 1
    HasHandler = TRUE
    Grace = FALSE
    Calls = {"notify", "abandon", "reset"}
    Outcomes = {"delivered", "held", "abandoned", "unroutable", "unreachable"}
    Kinds = {"text", "close"}
    Faults = {"fetch", "reload"}
SYMMETRY Symmetry
INVARIANTS
    InjectedOnce
    HandedByOne
    ClaimsCovered
    HeldOnDisk
    NoReplyLost
CHECK_DEADLOCK FALSE
