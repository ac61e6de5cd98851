CONSTANTS
    MaxMessages = 4
    MaxDuplicates = 2
SPECIFICATION Spec
INVARIANT InTimePasses
PROPERTY PassIsFresh
CHECK_DEADLOCK FALSE
