SPECIFICATION Spec
CONSTANTS
    NoThread = NoThread
    Tick = tick
    NoOwner = none
    Keys = {k1}
    Threads = {t1}
    MaxSessions = 1
    Waits = {w1, w2}
    Posts = {n1}
    MaxLog = 3
    MaxPending = 1
    HasHandler = FALSE
    Grace = FALSE
    Calls = {"notify", "take", "abandon", "stop"}
    Outcomes = {"delivered", "unroutable"}
    Kinds = {"text", "empty"}
    Faults = {"fetch"}
SYMMETRY Symmetry
INVARIANTS
    NoReplyLost
    WaitersRunning
    OneReader
CHECK_DEADLOCK FALSE
