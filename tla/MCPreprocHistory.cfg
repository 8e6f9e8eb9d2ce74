CONSTANTS
    Workers = {w1, w2}
    m = m
    d = d
    e = e
    l = l
    Items = {l}
    TopItems = {l}
    Internal = {}
    Steps <- StepsLinked
    Deps <- DepsOfM
    Kinds = {"value"}
    Tests = {}
    MaxReceived = 3
    MaxBatch = 1
    MaxConfigChanges = 1
    None = None
SPECIFICATION Spec
SYMMETRY Symmetry
INVARIANTS HistoryMatchesSteps
CHECK_DEADLOCK FALSE
