SPECIFICATION RouterSpec
CONSTANTS
    example = example
    www = www
    Width = 2
    Local = {0}
    NoName = NoName
    Flows = {f1}
    DstOf <- MCDstOf
    PortOf <- MCPortOf
    Policy <- MCPolicy
    Hosts <- MCHosts
    Routings <- MCRoutings
    Proxies = {p1, p2}
    Direct = Direct
    Starts = {p1, Direct}
    Slots = {1, 2}
    MaxTries = 1
    MaxOpens = 2
    MaxEvents = 1
INVARIANTS
    RouterTypeOK
    CoveredNeverGoDirect
    PendingIsHeld
    NoProxyTwice
PROPERTIES
    EveryHandshakeIsAnswered
CHECK_DEADLOCK FALSE
