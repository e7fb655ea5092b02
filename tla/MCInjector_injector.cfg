SPECIFICATION FairSpec
CONSTANTS
    Replies = {r1, r2}
    Chats = {c1, c2}
    NoChat = NoChat
    Senders = {p1}
    Steering = {TRUE, FALSE}
    Holding = {TRUE, FALSE}
    Faults = {"reveal", "stray", "open"}
    Acts = {"focus", "answer"}
INVARIANTS
    OneInFront
    AimedAtOwnChat
    WrittenOnce
PROPERTIES
    QueueFlows
CHECK_DEADLOCK FALSE
