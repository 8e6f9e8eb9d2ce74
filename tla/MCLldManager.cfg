CONSTANTS
    Workers = {w1, w2}
    Foreign = {f1}
    h1 = h1
    h2 = h2
    i1 = i1
    i2 = i2
    Hosts = {h1, h2}
    Items = {i1, i2}
    HostOf <- MCHostOf
    Values = {a, b}
    Timestamps = {1}
    MaxRequests = 3
    None = None
SPECIFICATION FairSpec
INVARIANTS RuleOwnedOnce WorkersInStep LatestValueKept StateNotStale
PROPERTIES ImplementsQueue BusyManagerDrains
CHECK_DEADLOCK FALSE
