CONSTANTS
    Workers = {w1, w2}
    m = m
    d = d
    e = e
    l = l
    Items = {m, d, e, l}
    TopItems = {m, l}
    Internal = {l}
    Steps <- StepsChain
    Deps <- DepsChain
    Kinds = {"value", "novalue", "notsupported"}
    Tests = {}
    MaxReceived = 3
    MaxBatch = 2
    MaxConfigChanges = 0
    None = None
SPECIFICATION Spec
SYMMETRY Symmetry
INVARIANTS TypeOK NothingLost  LinkedInOrder PriorityTailLast CountersExact RefcountExact 
CHECK_DEADLOCK FALSE
