SPECIFICATION Spec
CONSTANTS
    Kinds = {"copy", "index", "chapters", "translations"}
    Procs = {p1, p2}
    Pods = {d1}
    Collection = "episodes"
    MaxSaves = 2
    Assets = {v1}
    Chapters = {c1, c2, c3}
    Known = {c1, c2}
    NoChapter = NoChapter
    Events = {e1}
    NoEvent = NoEvent
    Texts = {a, b}
    NoVersion = NoVersion
    Languages = {en, fr}
    MaxJobs = 2
    MaxPartSize = 3
    MaxFileSize = 20
CHECK_DEADLOCK FALSE
SYMMETRY Symmetry
INVARIANTS
    TypeOK
    CompletedIsWhole
    NoneLeftOpen
    IndexFollowsRow
    ChaptersAreOfTheFile
    RecordedIsSent
