CONSTANTS
    TokenModulus = 1000
    StartTick = 7
    MaxTicks = 2
    MaxResends = 1
    MaxDuplicates = 1
    MaxUnderWay = 3
SPECIFICATION Spec
INVARIANT SettledDelta
PROPERTY AcceptedIsHeld
\* The device stops at an assertion when the SUBSCRIBE is not acknowledged.
CHECK_DEADLOCK FALSE
