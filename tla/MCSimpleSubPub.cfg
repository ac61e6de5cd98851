CONSTANTS
    Tasks = {"qos0", "qos1"}
    QoS <- MCQoS
    PoolSize = 3
    Failures = {3}
    PublishCount = 2
SPECIFICATION Spec
INVARIANTS TypeOK InTimeIsCounted  SubscribeFirst
