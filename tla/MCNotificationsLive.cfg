SPECIFICATION FairSpec
CONSTANTS
    Workers = {w1, w2}
    Messages = {m1}
    TaskNames = {t1, t2}
    Schedules = {1, 2}
    MaxTime = 2
    MaxMishaps = 0
    MaxCrashes = 1
    MaxDuplicates = 1
    Nobody = Nobody
    Nothing = Nothing
    None = None
CHECK_DEADLOCK FALSE
PROPERTIES
    PublishedIsSent
