CONSTANTS
    Producers = {p1}
    Syncers = {s1, s2, main}
    Main = main
    i1 = i1
    i2 = i2
    i3 = i3
    ta = ta
    tb = tb
    Items = {i1, i2}
    Triggers = {ta, tb}
    TriggersOf <- MCTriggersOf
    Timers = {tb}
    Server = TRUE
    Kinds = {"value"}
    Timestamps = {1}
    Capacity = 1
    SyncMax = 2
    LocalMax = 1
    MaxValues = 2
    MaxTicks = 1
    None = None
SPECIFICATION FairSpec
PROPERTIES ProducerProceeds EveryValueProcessed StopEnds
CHECK_DEADLOCK FALSE
