CONSTANTS
    Main = Main
    Ip = Ip
    Agent = Agent
    NoTask = NoTask
    StreamSpace = 6
    MaxLogs = 3
    MaxNetworkUps = 2
SPECIFICATION FairSpec
INVARIANT PrintedTogether
PROPERTY AllPrinted
CHECK_DEADLOCK FALSE
