CONSTANTS
    Filters = {"f1", "f2"}
    Callbacks = {"cb"}
    NULL = NULL
    Contexts = {NULL}
    Topics = {}
    Matches <- MCMatches
    MaxSubscriptions = 2
    Clients = {"task1", "task2"}
    Asserting = {"task1"}
    SubscriptionOf <- MCSubscriptionOf
    QoS <- MCQoS
    AgentTask = "agent"
    IPTask = "ip"
    PoolSize = 2
    QueueLength = 2
    RetryMaxAttempts = 1
    MaxDrops = 2
SPECIFICATION FairSpec
INVARIANTS TypeOK OneOwner EnqueueFindsRoom ReleaseFits SingleWakeup ArgsStable  
PROPERTIES CommandsEnd Reconnects ImplementsService
