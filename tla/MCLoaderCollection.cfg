SPECIFICATION FairSpec
CONSTANTS
    Procs = {p1, p2}
    Keys = {k1}
    Entries = {e1, e2, e3}
    None = None
INVARIANTS
    TypeOK
    StoredEntriesAlive
PROPERTIES
    ExpiredEntriesLeave
