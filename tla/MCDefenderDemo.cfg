CONSTANTS
    Part <- MCPart
    BufferLength = 29
    ArraySize = 2
    Observations <- MCObservations
    MaxReports = 3
    MaxNotifications = 2
SPECIFICATION Spec
INVARIANTS TypeOK AnswerIsReal AnswerIsSeen ReportFits
CHECK_DEADLOCK FALSE
