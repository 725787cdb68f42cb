SPECIFICATION ChoiceSpec
CONSTANTS
    p1 = p1
    p2 = p2
    c1 = c1
    Ids = {p1, p2}
    NoProxy = NoProxy
    Calls = {c1}
INVARIANTS
    ChoiceTypeOK
PROPERTIES
    TheMemoryCatchesUp
