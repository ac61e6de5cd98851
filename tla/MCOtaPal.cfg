CONSTANTS
    Blocks = {1, 2}
    MaxFailures = 2
    MaxJobs = 2
    MaxResets = 3
    NULL = NULL
SPECIFICATION Spec
INVARIANTS TypeOK ClosedIsVerified
PROPERTY StateIsKept
CHECK_DEADLOCK FALSE
