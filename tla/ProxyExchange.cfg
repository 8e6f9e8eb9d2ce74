CONSTANTS
    Trappers = {t1, t2}
    Modes = {"active", "passive"}
    MaxId = 3
    Inactive = {2}
    MaxRecords = 2
    MaxRetries = 1
    ValuesMax = 1
    MaxFaults = 1
SPECIFICATION FairSpec
INVARIANTS NothingSkipped NoRepetition
PROPERTY EveryValueTaken
