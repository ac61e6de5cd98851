CONSTANTS
    NumBuffers = 2
    EventQueueLength = 6
    MaxMessages = 3
    MaxOperations = 2
    MaxDrops = 2
    NULL = NULL
SPECIFICATION Spec
CHECK_DEADLOCK FALSE
INVARIANT OtaResumes
