CONSTANTS
    Workers = {w1, w2}
    m = m
    d = d
    e = e
    l = l
    Items = {m, d}
    TopItems = {m}
    Internal = {}
    Steps <- StepsLinked
    Deps <- DepsOfM
    Kinds = {"value"}
    Tests = {}
    MaxReceived = 2
    MaxBatch = 2
    MaxConfigChanges = 0
    None = None
SPECIFICATION Spec
SYMMETRY Symmetry
INVARIANT DependentFlushOrder
CHECK_DEADLOCK FALSE
