SPECIFICATION SchedSpec
CONSTANTS
    p1 = p1
    p2 = p2
    t1 = t1
    t2 = t2
    h1 = h1
    e1 = e1
    at = at
    Ids = {p1}
    NoProxy = NoProxy
    Hosts = {h1}
    HostOf <- MCHostOf
    Exits = {e1}
    ExitOf <- MCExitOf
    NoExit = NoExit
    Countries = {at}
    CountryOf <- MCCountryOf
    NoCountry = NoCountry
    Latencies = {1}
    TopScore = 1
    MinScore = 1
    MaxFailures = 1
    FailureCap = 1
    UnverifiedTtl = 0
    MaxAge = 0
    WorkingInterval = 1
    InconclusiveBackoff = 1
    ProbeBackoff <- MCBackoff
    TrafficBackoff <- MCBackoff
    DefaultBackoff = 1
    MaxProxies = 0
    SavedPools <- MCSavedPools
    Tasks = {t1, t2}
    RoundSize = 1
    Concurrency = 1
INVARIANTS
    OneBatchAtATime
PROPERTIES
    TheSweepComes
