SPECIFICATION Spec
CONSTANTS
    Attempts = {a1, a2}
    Streams = {s1}
    Files = {f1}
    Smil = Smil
    Meta = Meta
    Endpoints = {e1}
    DeleteIngestFiles = TRUE
CHECK_DEADLOCK FALSE
INVARIANTS
    SuccessDeletes
