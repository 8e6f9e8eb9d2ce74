CONSTANTS
    Workers = {w1, w2}
    m = m
    d = d
    e = e
    l = l
    Items = {l}
    TopItems = {l}
    Internal = {}
    Steps <- StepsLinked
    Deps <- DepsOfM
    Kinds = {"value"}
    Tests = {t1}
    MaxReceived = 2
    MaxBatch = 1
    MaxConfigChanges = 1
    None = None
SPECIFICATION FairSpec
INVARIANTS LinksLive
PROPERTIES EveryValueDelivered EveryTestEnds
CHECK_DEADLOCK FALSE
