SPECIFICATION Spec
CONSTANTS
    Procs = {p1, p2}
    Pods = {a}
    Tasks = {t1}
    NoTask = NoTask
    Achievements <- OneTask
INVARIANTS
    ClearAllClears
