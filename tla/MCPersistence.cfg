SPECIFICATION StoreSpec
SYMMETRY Interchangeable
CONSTANTS
    p1 = p1
    p2 = p2
    t1 = t1
    t2 = t2
    Ids = {p1, p2}
    NoProxy = NoProxy
    Tasks = {t1, t2}
    CondemnedLimit = 1
INVARIANTS
    StoreTypeOK
PROPERTIES
    WrittenOffForGood
