SPECIFICATION Spec
CONSTANTS
    c1 = c1
    h1 = h1
    r1 = r1
    r2 = r2
    Transcripts = {c1}
    Hosts = {h1}
    Runs = {r1, r2}
    MaxTurns = 2
    MaxPosted = 2
    MaxEvents = 2
    Faults = {"read", "post", "seed"}
SYMMETRY Symmetry
INVARIANTS TypeOK SeenIsAnnounced TurnPostedOnce TouchIsTurn
CHECK_DEADLOCK FALSE
