CONSTANTS
    Trappers = {t1, t2}
    Modes = {"active"}
    MaxId = 2
    Inactive = {}
    MaxRecords = 2
    MaxRetries = 1
    ValuesMax = 1
    MaxFaults = 1
SPECIFICATION Spec
INVARIANT OneUpdater
