SPECIFICATION Spec
CONSTANTS
    Workers = {w1, w2}
    Messages = {m1, m2, m3}
    TaskNames = {t1, t2}
    Schedules = {1, 3}
    MaxTime = 0
    MaxMishaps = 1
    MaxCrashes = 1
    MaxDuplicates = 0
    Nobody = Nobody
    Nothing = Nothing
    None = None
CHECK_DEADLOCK FALSE
SYMMETRY Symmetry
INVARIANTS
    TypeOK
    PushesAccountedFor
    QueuedForItsTime
    NeverForgotten
