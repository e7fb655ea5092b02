SPECIFICATION FairSpec
CONSTANTS
    NoThread = NoThread
    Tick = tick
    NoOwner = none
    Keys = {k1}
    Threads = {t1}
    MaxSessions = 1
    Waits = {w1}
    Posts = {n1}
    MaxLog = 1
    MaxPending = 1
    HasHandler = TRUE
    Grace = FALSE
    Calls = {"notify"}
    Outcomes = {"delivered", "unroutable", "unreachable"}
    Kinds = {"text", "close"}
    Faults = {"fetch", "idle"}
PROPERTIES
    EveryReplyRead
    HeldIsDelivered
CHECK_DEADLOCK FALSE
