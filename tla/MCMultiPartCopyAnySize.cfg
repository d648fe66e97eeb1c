SPECIFICATION Spec
CONSTANTS
    MaxPartSize = 3
    MaxFileSize = 20
CHECK_DEADLOCK FALSE
INVARIANTS
    FailsOnlyWithS3
