CONSTANTS
    home = home
    roamed = roamed
    Targets <- MCTargets
    MaxTargets = 2
    ConnectTimeout = 1
    InnerTimeout = 2
    Timeout = 2
    Ttl = 2
    Addresses <- MCAddresses
    Elsewhere = elsewhere
    NoAddress = none
    Traces <- SomeTraces
SPECIFICATION ProbeSpec
INVARIANTS
    ProbeTypeOK
    WorkingIsProved
    SilenceIsNotBlamed
    TheTargetSpeaksFirst
    TheAnswerCounts
    
PROPERTIES
    EveryProbeEnds
