SPECIFICATION Spec
CONSTANTS
    Procs = {p1, p2}
    Keys = {k1}
    Entries = {e1, e2, e3, e4}
    None = None
SYMMETRY Symmetry
INVARIANTS
    DeletedEntriesRunOnDelete
