SPECIFICATION Spec
CONSTANTS
    Kinds = {"cache", "remoteCache", "limit", "sharedLimit", "requestCache",
             "user", "profiles", "tasks"}
    Procs = {p1, p2, p3}
    Pair = {p1, p2}
    Keys = {k1}
    Pods = {a, b}
    Addresses = {o1, o2}
    Tasks = {t1}
    Achievements <- OneTask
    Limit = 1
    Window = 2
    MaxVersion = 2
    MaxRemovals = 2
    MaxClock = 4
    MaxMishaps = 1
    MaxProfiles = 2
    Nobody = Nobody
    Nothing = Nothing
CHECK_DEADLOCK FALSE
INVARIANTS
    TypeOK
    OneFillPerAbsence
    FillsAccountedFor
    KeptUntilLapse
    LimitHolds
    AnsweredAsAsked
    RolesAreOwn
    MutexInUse
    ProfilesAccountedFor
    LockedStaysLocked
    SettledIsSeen
PROPERTIES
    ServedNeverOlder
    OncePerSecond
