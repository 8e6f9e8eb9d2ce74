CONSTANTS
    m1 = m1  p1 = p1  p2 = p2  px = px  pw = pw
    MediaTypes = {m1}
    Pools = {p1, px}
    DbAlerts = {1}
    External = {4}
    Watchdog = {}
    MediaType <- MCMediaType
    Pool <- MCPool
    Settings <- MCSettings
    Recipients = {}
    Alerters = 1
    Modulus = 256
    MaxRestarts = 1
    MaxChanges = 1
SPECIFICATION FairSpec
INVARIANTS  SentOnce
 
