---------------------------- MODULE SimpleSubPub ----------------------------
(***************************************************************************)
(* The tasks of simple_sub_pub_demo.c.  A task subscribes, then publishes  *)
(* numbered messages.  After each command it waits for a notification from *)
(* the command's callback, which runs in the MQTT agent task, and gives up *)
(* after a timeout; the command it gave up stays with the agent.  All      *)
(* publishes of a task use the same command context and payload buffer,    *)
(* and the context of the SUBSCRIBE is in a stack frame.                   *)
(*                                                                         *)
(* The agent task is what MqttAgent shows of it: commands are executed in  *)
(* the order they were posted, wait for an acknowledgment unless they are  *)
(* QoS 0 publishes, and end once, with or without success.                 *)
(***************************************************************************)
EXTENDS Integers, Sequences, FiniteSets, Functions

CONSTANTS
    Tasks,
    QoS,            \* ulTaskNumber % 2 for each task
    PoolSize,       \* MQTT_COMMAND_CONTEXTS_POOL_SIZE
    Failures,       \* the MQTTStatus_t codes of an operation that failed
    PublishCount    \* bound of the model for mqttexamplePUBLISH_COUNT

ASSUME TasksAssumption == IsFiniteSet(Tasks) /\ QoS \in [Tasks -> {0, 1}]
ASSUME PoolAssumption == PoolSize \in Nat \ {0}
\* MQTTSuccess is 0.
ASSUME FailuresAssumption == Failures \subseteq Nat \ {0}
ASSUME CountAssumption == PublishCount \in Nat

MQTTSuccess == 0

VARIABLES
    pc,             \* where each task is
    ulValueToNotify,
    ulNotification,
    contextValue,   \* xCommandContext.ulNotificationValue
    payload,        \* the number in payloadBuf
    frame,          \* the frame of prvSubscribeToTopic() is in use
    ulNotifiedValue,    \* the value of the task's notification
    passed, failed, \* ulPassCounts and ulFailCounts, as sets of numbers
    queue, pending, \* commands with the agent task
    stopped,        \* an assertion has failed
    wild,           \* a callback has used a dead frame
    wire,           \* history: <<task, n, number in the payload>> of each PUBLISH sent
    done,           \* history: commands that ended with success
    inTime,         \* history: <<task, n>> whose callback ran in time
    ran,            \* history: <<task, contextValue>> of each publish callback
    stray           \* history: tasks notified by a late SUBSCRIBE

taskVars == <<pc, ulValueToNotify, ulNotification, contextValue, payload, frame, passed, failed>>
agentVars == <<queue, pending>>
historyVars == <<wire, done, inTime, ran, stray>>
vars == <<taskVars, ulNotifiedValue, agentVars, stopped, wild, historyVars>>

Running == ~stopped /\ ~wild

\* A command and, for a publish, the number of the iteration that posted it.
Subscribe(t) == [task |-> t, kind |-> "subscribe", n |-> 0]
Publish(t, n) == [task |-> t, kind |-> "publish", n |-> n]
Commands == {Subscribe(t) : t \in Tasks}
                \cup {Publish(t, n) : t \in Tasks, n \in 0 .. PublishCount - 1}

\* Any 32-bit number that is not n.
Complement(n) == -1 - n

Init ==
    /\ pc = [t \in Tasks |-> "start"]
    /\ ulValueToNotify = [t \in Tasks |-> 0]
    /\ ulNotification = [t \in Tasks |-> 0]
    /\ contextValue = [t \in Tasks |-> 0]
    /\ payload = [t \in Tasks |-> 0]
    /\ frame = [t \in Tasks |-> FALSE]
    /\ ulNotifiedValue = [t \in Tasks |-> 0]
    /\ passed = [t \in Tasks |-> {}]
    /\ failed = [t \in Tasks |-> {}]
    /\ queue = <<>>
    /\ pending = {}
    /\ stopped = FALSE
    /\ wild = FALSE
    /\ wire = {}
    /\ done = {}
    /\ inTime = {}
    /\ ran = {}
    /\ stray = {}

----------------------------------------------------------------------------
(* A task.                                                                 *)

PoolEmpty == Len(queue) + Cardinality(pending) >= PoolSize

\* prvSubscribeToTopic(): the context is filled.
StartSubscribe(t) ==
    /\ Running /\ pc[t] = "start"
    /\ frame' = [frame EXCEPT ![t] = TRUE]
    /\ pc' = [pc EXCEPT ![t] = "subscribe"]
    /\ UNCHANGED <<ulValueToNotify, ulNotification, contextValue, payload, passed, failed,
                   ulNotifiedValue, agentVars, stopped, wild, historyVars>>

\* The call is repeated until the agent takes the command.
PostSubscribe(t) ==
    /\ Running /\ pc[t] = "subscribe" /\ ~PoolEmpty
    /\ queue' = Append(queue, Subscribe(t))
    /\ pc' = [pc EXCEPT ![t] = "subscribing"]
    /\ UNCHANGED <<ulValueToNotify, ulNotification, contextValue, payload, frame, passed,
                   failed, ulNotifiedValue, pending, stopped, wild, historyVars>>

\* The wait ends with a notification or with its timeout; the caller ignores
\* which, and the frame is gone.
EndSubscribe(t) ==
    /\ Running /\ pc[t] = "subscribing"
    /\ frame' = [frame EXCEPT ![t] = FALSE]
    /\ pc' = [pc EXCEPT ![t] = "format"]
    /\ UNCHANGED <<ulValueToNotify, ulNotification, contextValue, payload, passed, failed,
                   ulNotifiedValue, agentVars, stopped, wild, historyVars>>

FormatPayload(t) ==
    /\ Running /\ pc[t] = "format" /\ ulValueToNotify[t] < PublishCount
    /\ payload' = [payload EXCEPT ![t] = ulValueToNotify[t]]
    /\ pc' = [pc EXCEPT ![t] = "stamp"]
    /\ UNCHANGED <<ulValueToNotify, ulNotification, contextValue, frame, passed, failed,
                   ulNotifiedValue, agentVars, stopped, wild, historyVars>>

\* A copy that sets the number in the context only once.
StampContextOnce(t) ==
    /\ Running /\ pc[t] = "stamp"
    /\ ulNotification' = [ulNotification EXCEPT ![t] = Complement(ulValueToNotify[t])]
    /\ pc' = [pc EXCEPT ![t] = "publish"]
    /\ UNCHANGED <<ulValueToNotify, contextValue, payload, frame, passed, failed,
                   ulNotifiedValue, agentVars, stopped, wild, historyVars>>

StampContext(t) ==
    /\ Running /\ pc[t] = "stamp"
    /\ contextValue' = [contextValue EXCEPT ![t] = ulValueToNotify[t]]
    /\ ulNotification' = [ulNotification EXCEPT ![t] = Complement(ulValueToNotify[t])]
    /\ pc' = [pc EXCEPT ![t] = "publish"]
    /\ UNCHANGED <<ulValueToNotify, payload, frame, passed, failed, ulNotifiedValue, agentVars,
                   stopped, wild, historyVars>>

\* Copies of the next action: the next payload is prepared early; the command
\* goes to the front of the queue; a full pool is not noticed.
PostPublishEagerly(t) ==
    /\ Running /\ pc[t] = "publish" /\ ~PoolEmpty
    /\ payload' = [payload EXCEPT ![t] = ulValueToNotify[t] + 1]
    /\ queue' = Append(queue, Publish(t, ulValueToNotify[t]))
    /\ pc' = [pc EXCEPT ![t] = "wait"]
    /\ UNCHANGED <<ulValueToNotify, ulNotification, contextValue, frame, passed,
                   failed, ulNotifiedValue, pending, stopped, wild, historyVars>>
PostPublishToFront(t) ==
    /\ Running /\ pc[t] = "publish" /\ ~PoolEmpty
    /\ queue' = <<Publish(t, ulValueToNotify[t])>> \o queue
    /\ pc' = [pc EXCEPT ![t] = "wait"]
    /\ UNCHANGED <<ulValueToNotify, ulNotification, contextValue, payload, frame, passed,
                   failed, ulNotifiedValue, pending, stopped, wild, historyVars>>
PostPublishUnbounded(t) ==
    /\ Running /\ pc[t] = "publish"
    /\ queue' = Append(queue, Publish(t, ulValueToNotify[t]))
    /\ pc' = [pc EXCEPT ![t] = "wait"]
    /\ UNCHANGED <<ulValueToNotify, ulNotification, contextValue, payload, frame, passed,
                   failed, ulNotifiedValue, pending, stopped, wild, historyVars>>

\* MQTTAgent_Publish(); its failure is an assertion.
PostPublish(t) ==
    /\ Running /\ pc[t] = "publish"
    /\ IF PoolEmpty
       THEN stopped' = TRUE /\ UNCHANGED <<queue, pc>>
       ELSE /\ queue' = Append(queue, Publish(t, ulValueToNotify[t]))
            /\ pc' = [pc EXCEPT ![t] = "wait"]
            /\ UNCHANGED stopped
    /\ UNCHANGED <<ulValueToNotify, ulNotification, contextValue, payload, frame, passed,
                   failed, ulNotifiedValue, pending, wild, historyVars>>

\* xTaskNotifyWait( 0, 0, &ulNotification, ... ) returns the value of the
\* task's notification, after a notification and after a timeout.
WaitForAcknowledgment(t) ==
    /\ Running /\ pc[t] = "wait"
    /\ ulNotification' = [ulNotification EXCEPT ![t] = ulNotifiedValue[t]]
    /\ pc' = [pc EXCEPT ![t] = "check"]
    /\ UNCHANGED <<ulValueToNotify, contextValue, payload, frame, passed, failed,
                   ulNotifiedValue, agentVars, stopped, wild, historyVars>>

CheckNotification(t) ==
    /\ Running /\ pc[t] = "check"
    /\ LET n == ulValueToNotify[t]
       IN  /\ IF ulNotification[t] = n
              THEN passed' = [passed EXCEPT ![t] = @ \cup {n}] /\ UNCHANGED failed
              ELSE failed' = [failed EXCEPT ![t] = @ \cup {n}] /\ UNCHANGED passed
           /\ ulValueToNotify' = [ulValueToNotify EXCEPT ![t] = n + 1]
    /\ pc' = [pc EXCEPT ![t] = "format"]
    /\ UNCHANGED <<ulNotification, contextValue, payload, frame, ulNotifiedValue, agentVars,
                   stopped, wild, historyVars>>

----------------------------------------------------------------------------
(* Callbacks.                                                              *)

\* xTaskNotify( task, value, eSetValueWithOverwrite ).  Whether the
\* notification is pending makes no difference, since a wait may time out.
Notify(t, value) ==
    ulNotifiedValue' = [ulNotifiedValue EXCEPT ![t] = value]

\* prvPublishCommandCallback(): the number is the one in the context now.
PublishCallback(c) ==
    /\ Notify(c.task, contextValue[c.task])
    /\ inTime' = IF pc[c.task] \in {"publish", "wait"} /\ ulValueToNotify[c.task] = c.n
                 THEN inTime \cup {<<c.task, c.n>>} ELSE inTime
    /\ ran' = ran \cup {<<c.task, contextValue[c.task]>>}
    /\ UNCHANGED <<wild, stray>>

\* prvSubscribeCommandCallback().  When its frame is gone it may find the
\* context as it was left, or something else, of which nothing is said.
SubscribeCallback(c, status) ==
    \/ /\ Notify(c.task, status)
       /\ stray' = IF frame[c.task] THEN stray ELSE stray \cup {c.task}
       /\ UNCHANGED <<wild, inTime, ran>>
    \/ /\ ~frame[c.task]
       /\ wild' = TRUE
       /\ UNCHANGED <<ulNotifiedValue, stray, inTime, ran>>

Callback(c, status) ==
    /\ IF c.kind = "subscribe" THEN SubscribeCallback(c, status) ELSE PublishCallback(c)
    /\ done' = IF status = MQTTSuccess THEN done \cup {c} ELSE done

----------------------------------------------------------------------------
(* The agent task.                                                         *)

\* A PUBLISH packet is made from the payload buffer as it is now.
Transmit(c) ==
    wire' = IF c.kind = "publish" THEN wire \cup {<<c.task, c.n, payload[c.task]>>} ELSE wire

Unacknowledged(c) == c.kind = "publish" /\ QoS[c.task] = 0

Send ==
    /\ Running /\ queue # <<>>
    /\ queue' = Tail(queue)
    /\ LET c == Head(queue)
       IN  /\ Transmit(c)
           /\ IF Unacknowledged(c)
              THEN Callback(c, MQTTSuccess) /\ UNCHANGED pending
              ELSE pending' = pending \cup {c} /\ UNCHANGED <<ulNotifiedValue, wild, done, inTime, ran, stray>>
    /\ UNCHANGED <<taskVars, stopped>>

SendFails ==
    /\ Running /\ queue # <<>>
    /\ queue' = Tail(queue)
    /\ \E status \in Failures : Callback(Head(queue), status)
    /\ UNCHANGED <<taskVars, pending, stopped, wire>>

\* The acknowledgment, or the end of the session.
Finish(c) ==
    /\ Running /\ c \in pending
    /\ pending' = pending \ {c}
    /\ \E status \in {MQTTSuccess} \cup Failures : Callback(c, status)
    /\ UNCHANGED <<taskVars, queue, stopped, wire>>

----------------------------------------------------------------------------

\* The end of the model, or of the program.
Halted ==
    /\ ~Running \/ \A t \in Tasks : pc[t] = "format" /\ ulValueToNotify[t] = PublishCount
    /\ UNCHANGED vars

TaskStep(t) ==
    \/ StartSubscribe(t) \/ PostSubscribe(t) \/ EndSubscribe(t) \/ FormatPayload(t)
    \/ StampContext(t) \/ PostPublish(t) \/ WaitForAcknowledgment(t) \/ CheckNotification(t)
AgentStep == Send \/ SendFails \/ \E c \in Commands : Finish(c)

Next == (\E t \in Tasks : TaskStep(t)) \/ AgentStep \/ Halted

Spec == Init /\ [][Next]_vars

----------------------------------------------------------------------------
(* Properties.                                                             *)

Outstanding == Range(queue) \cup pending

TypeOK ==
    /\ pc \in [Tasks -> {"start", "subscribe", "subscribing", "format", "stamp", "publish",
                         "wait", "check"}]
    /\ ulValueToNotify \in [Tasks -> 0 .. PublishCount]
    /\ ulNotification \in [Tasks -> Int]
    /\ contextValue \in [Tasks -> Nat] /\ payload \in [Tasks -> Nat]
    /\ frame \in [Tasks -> BOOLEAN]
    /\ ulNotifiedValue \in [Tasks -> Nat]
    /\ passed \in [Tasks -> SUBSET Nat] /\ failed \in [Tasks -> SUBSET Nat]
    /\ queue \in Seq(Commands) /\ pending \subseteq Commands
    /\ Len(queue) + Cardinality(pending) <= PoolSize
    /\ stopped \in BOOLEAN /\ wild \in BOOLEAN

\* A callback that runs while its task waits for it is never missed and
\* never mistaken: the publish is counted as passed, whatever late callbacks
\* of earlier publishes come before or after it, unless a late SUBSCRIBE
\* has notified the task too.
InTimeIsCounted ==
    \A t \in Tasks \ stray : \A n \in 0 .. ulValueToNotify[t] - 1 :
        <<t, n>> \in inTime => n \in passed[t]

\* A publish is counted as passed only if a callback ran after its number
\* was put in the context.  Publish 0, and one whose number is the status
\* code of a failed SUBSCRIBE, are exceptions: a timeout leaves in
\* ulNotification the value the SUBSCRIBE left behind.
PassNeedsCallback ==
    \A t \in Tasks : \A n \in passed[t] \ (Failures \cup {MQTTSuccess}) : <<t, n>> \in ran

\* A publish whose callback came in time carried its own message, and a late
\* one carries its own or a later one, never one before it.
PayloadIntact ==
    \A w \in wire : w[3] >= w[2] /\ (<<w[1], w[2]>> \in inTime => w[3] = w[2])

\* A task that gave up waiting for its SUBSCRIBE publishes all the same; the
\* SUBSCRIBE is executed before all its publishes.
SubscribeFirst ==
    \A t \in Tasks : Subscribe(t) \in Range(queue) =>
        \A w \in wire : w[1] # t

\* "To ensure ulNotification doesn't accidentally hold the expected value":
\* a publish that is counted as passed has been sent (QoS 0) or acknowledged.
PassMeansCompleted ==
    \A t \in Tasks : \A n \in passed[t] : Publish(t, n) \in done

\* "This gets updated in the callback function so the variable must persist
\* until the callback executes": the context of a SUBSCRIBE exists as long
\* as the command.
ContextPersists ==
    \A c \in Outstanding : c.kind = "subscribe" => frame[c.task]

=============================================================================
