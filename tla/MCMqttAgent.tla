----------------------------- MODULE MCMqttAgent -----------------------------
EXTENDS MqttAgent

MCMatches == {}
MCSubscriptionOf ==
    [k \in {"task1", "task2"} |->
        [filter |-> IF k = "task1" THEN "f1" ELSE "f2", callback |-> "cb", context |-> NULL]]
MCQoS == [k \in {"task1", "task2"} |-> IF k = "task1" THEN 0 ELSE 1]

=============================================================================
