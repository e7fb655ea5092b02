SPECIFICATION Spec
CONSTANTS
    None = None
    p1 = p1
    p2 = p2
    r1 = r1
    r2 = r2
    m1 = m1
    m2 = m2
    k1 = k1
    k2 = k2
    t1 = t1
    Processes = {p1, p2}
    Replies = {r1, r2}
    Messages = {m1, m2}
    Keys = {k1, k2}
    Threads = {t1}
    MaxDelivered = 1
    MaxPosted = 2
SYMMETRY Symmetry
INVARIANTS OwnPostsKnown
PROPERTIES ClaimsAreAtomic ThreadsKept
CHECK_DEADLOCK FALSE
