SPECIFICATION LocalSpec
CONSTANTS
    p1 = p1
    p2 = p2
    p3 = p3
    login = login
    crawler = crawler
    tab = tab
    sticky = sticky
    timed = timed
    random = random
    Ids = {p1, p2, p3}
    NoProxy = NoProxy
    HostOf <- MCHostOf
    ExitOf <- MCHostOf
    Requests = {r1, r2}
    Clients = {login, crawler, tab}
    CredentialOf <- MCCredentialOf
    Policies = {sticky, timed, random}
    PolicyOf <- MCPolicyOf
    RotationOf <- MCRotationOf
    Allowed <- MCAllowed
    Dead = {p2}
    Kinds = {"connect", "plain"}
    Selections = {p1}
    MaxAttempts = 2
    RecentSize = 1
    MaxArrivals = 2
    MaxEvents = 1
INVARIANTS
    LocalTypeOK
    AnotherServerEachTime
    NoSessionOnADeadProxy
    TheFirstChoiceIsAllowed
PROPERTIES
    EveryRequestEnds
CHECK_DEADLOCK FALSE
