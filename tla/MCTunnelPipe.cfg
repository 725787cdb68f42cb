SPECIFICATION TunnelSpec
CHECK_DEADLOCK FALSE
CONSTANTS
    Budget = 2
    Horizon = 3
    Chunks = 2
INVARIANTS
    NoCutWithinTheBudget
PROPERTIES
    
    TheAnsweringAreNotBlamed
