SPECIFICATION FairSpec
CONSTANTS
    None = None
    q1 = q1
    q2 = q2
    k1 = k1
    k2 = k2
    Requests = {q1, q2}
    Keys = {k1, k2}
    MaxSessions = 2
    MaxReplies = 2
    Tools = {"notify", "notifyWait", "check", "checkWait", "list", "other"}
INVARIANTS EachReplyInOnePlace OneAnswer OwnReplies
PROPERTIES CallsEnd
CHECK_DEADLOCK FALSE
