SPECIFICATION FairSpec
CONSTANTS
    Procs = {p1, p2, p3}
    Keys = {k1, k2}
    Objs = {o1, o2, o3}
    NoProc = NoProc
    NoObj = NoObj
INVARIANTS
    TypeOK
    TableMatchesUse
    RefsExact
PROPERTIES
    EveryRequestServed
    ImplementsMutex
