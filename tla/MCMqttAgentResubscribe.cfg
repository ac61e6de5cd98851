CONSTANTS
    Filters = {"f1", "f2"}
    Callbacks = {"cb"}
    NULL = NULL
    Contexts = {NULL}
    Topics = {}
    Matches <- MCMatches
    MaxSubscriptions = 2
    Clients = {"task1", "task2"}
    Asserting = {"task1"}
    SubscriptionOf <- MCSubscriptionOf
    QoS <- MCQoS
    AgentTask = "agent"
    IPTask = "ip"
    PoolSize = 3
    QueueLength = 3
    RetryMaxAttempts = 1
    MaxDrops = 2
SPECIFICATION Spec
INVARIANT ResubscribeEnqueued
