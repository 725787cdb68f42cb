CONSTANTS
    c1 = c1
    r1 = r1
    o1 = o1
    Usernames <- MCUsernames
    ClientNames <- MCClientNames
    Policies <- MCPolicies
    Builtins <- MCBuiltins
    Peer <- MCPeer
    Clients = {c1}
    Requests = {r1}
    Rotators = {o1}
    AllowAnonymous = TRUE
    NamesTtl = 1
    MaxEdits = 3
    MaxRestarts = 1
SPECIFICATION Spec
INVARIANTS
    CredentialsTypeOK
    SessionsAreHeldApart
PROPERTIES
    TheNamesCatchUp
    RotationStaysInItsAccount
