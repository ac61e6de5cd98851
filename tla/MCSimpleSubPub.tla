--------------------------- MODULE MCSimpleSubPub ---------------------------
EXTENDS SimpleSubPub

MCQoS == [t \in {"qos0", "qos1"} |-> IF t = "qos0" THEN 0 ELSE 1]

=============================================================================
