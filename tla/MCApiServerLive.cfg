SPECIFICATION FairSpec
CONSTANTS
    Kinds = {"cache", "remoteCache", "limit", "sharedLimit", "requestCache",
             "user"}
    Procs = {p1, p2}
    Pair = {p1, p2}
    Keys = {k1}
    Pods = {a, b}
    Addresses = {o1, o2}
    Tasks = {t1}
    Achievements <- OneTask
    Limit = 1
    Window = 2
    MaxVersion = 2
    MaxRemovals = 2
    MaxClock = 2
    MaxMishaps = 1
    MaxProfiles = 2
    Nobody = Nobody
    Nothing = Nothing
CHECK_DEADLOCK FALSE
PROPERTIES
    WindowsEnd
    LimitLifts
    EveryCallReturns
