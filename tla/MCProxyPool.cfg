SPECIFICATION Spec
SYMMETRY Interchangeable
CONSTANTS
    p1 = p1
    p2 = p2
    h1 = h1
    e1 = e1
    at = at
    Ids <- MCIds
    NoProxy = NoProxy
    Hosts = {h1}
    HostOf <- MCHostOf
    Exits = {e1}
    ExitOf <- MCExitOf
    NoExit = NoExit
    Countries = {at}
    CountryOf <- MCCountryOf
    NoCountry = NoCountry
    Latencies = {1}
    TopScore = 1
    MinScore = 1
    MaxFailures = 2
    FailureCap = 2
    UnverifiedTtl = 1
    MaxAge = 0
    WorkingInterval = 1
    InconclusiveBackoff = 0
    ProbeBackoff <- MCBackoff
    TrafficBackoff <- MCBackoff
    DefaultBackoff = 1
    MaxProxies = 1
    SavedPools <- MCSavedPools
INVARIANTS
    TypeOK
    IndexConsistent
PROPERTIES
    ImplementsPoolSpec
    HealthStateKept
