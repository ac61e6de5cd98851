CONSTANTS
    NumBuffers = 2
    EventQueueLength = 6
    MaxMessages = 3
    MaxOperations = 2
    MaxDrops = 2
    NULL = NULL
SPECIFICATION FairSpec
INVARIANTS TypeOK BuffersMatchEvents SuccessIsReal 
PROPERTY SuspendEnds
CHECK_DEADLOCK FALSE
