SPECIFICATION Spec
CONSTANTS
    None = None
    s1 = s1
    Sessions = {s1}
    MaxReplies = 2
    MaxEvents = 2
    ResolveAttempts = 1
    Outcomes = {"delivered", "unroutable"}
    Faults = {"fetch", "notice", "write", "throw", "reload", "elsewhere"}
INVARIANTS TypeOK ReadIsKept OneDelivery
PROPERTIES DeliveredStays
CHECK_DEADLOCK FALSE
