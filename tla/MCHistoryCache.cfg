CONSTANTS
    Producers = {p1}
    Syncers = {s1, s2, main}
    Main = main
    i1 = i1
    i2 = i2
    i3 = i3
    ta = ta
    tb = tb
    Items = {i1, i2}
    Triggers = {ta, tb}
    TriggersOf <- MCTriggersOf
    Timers = {tb}
    Server = TRUE
    Kinds = {"value", "log", "meta"}
    Timestamps = {1}
    Capacity = 2
    SyncMax = 2
    LocalMax = 1
    MaxValues = 3
    MaxTicks = 1
    None = None
SPECIFICATION Spec
SYMMETRY Symmetry
INVARIANTS ItemOwnedOnce TriggerExclusive TriggersSerial ProcessedInOrder NothingLeft TailStable MetadataKept
PROPERTIES MetadataForward
CHECK_DEADLOCK FALSE
