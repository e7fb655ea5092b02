SPECIFICATION FairSpec
CONSTANTS
    p1 = p1
    f1 = f1
    Posts = {p1}
    Fetches = {f1}
    MaxChildren = 3
    MaxFaults = 1
INVARIANTS TypeOK PostedOnce OneSubprocess
PROPERTIES ImplementsPort CallsEnd
CHECK_DEADLOCK FALSE
