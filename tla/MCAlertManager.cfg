CONSTANTS
    m1 = m1  p1 = p1  p2 = p2  px = px  pw = pw
    MediaTypes = {m1}
    Pools = {p1, pw}
    DbAlerts = {1, 2}
    External = {}
    Watchdog = {5}
    MediaType <- MCMediaType
    Pool <- MCPool
    Settings <- MCSettings
    Recipients = {m1}
    Alerters = 2
    Modulus = 256
    MaxRestarts = 0
    MaxChanges = 1
SPECIFICATION Spec
INVARIANTS TypeOK PoolSequential CountersExact NothingStranded
