------------------------------ MODULE MqttAgent ------------------------------
(***************************************************************************)
(* The MQTT agent task of mqtt-agent-task.c and the tasks that use it.     *)
(*                                                                         *)
(* A task that wants something sent takes a command structure from the     *)
(* pool (freertos_command_pool.c), fills it and posts a pointer to it on   *)
(* the command queue (freertos_agent_message.c).  The agent task takes     *)
(* commands from the queue, executes them, keeps those that need an        *)
(* acknowledgment from the broker, and ends each by running its callback   *)
(* and returning the structure to the pool.  When the connection fails the *)
(* agent task reconnects, resumes the session and, if the broker kept      *)
(* none, queues a SUBSCRIBE for every filter of the subscription list.     *)
(*                                                                         *)
(* The coreMQTT-Agent library (the API calls, MQTTAgent_CommandLoop,       *)
(* MQTTAgent_ResumeSession), the TCP stack and the broker are outside the  *)
(* repository; they are modelled by what the code here relies on.  The     *)
(* library's list of pending acknowledgments holds 20 entries and the pool *)
(* 10 structures, so that list never fills up and has no bound here.       *)
(***************************************************************************)
EXTENDS SubscriptionList, Sequences, Functions

CONSTANTS
    Clients,            \* demo tasks
    Asserting,          \* those that assert that MQTTAgent_Publish() succeeds
    SubscriptionOf,     \* the subscription each demo task makes
    QoS,                \* the QoS each demo task publishes with
    AgentTask,          \* the agent task as a user of its own API
    IPTask,             \* the TCP/IP task, which runs the socket wakeup callback
    PoolSize,           \* MQTT_COMMAND_CONTEXTS_POOL_SIZE
    QueueLength,        \* MQTT_AGENT_COMMAND_QUEUE_LENGTH
    RetryMaxAttempts,   \* RETRY_MAX_ATTEMPTS
    MaxDrops            \* bound of the model: connection losses in a behaviour

Callers == Clients \cup {AgentTask, IPTask}
Commands == 1 .. PoolSize       \* the elements of commandStructurePool

ASSUME ClientsAssumption ==
    /\ Asserting \subseteq Clients
    /\ SubscriptionOf \in [Clients -> Subscription]
    /\ QoS \in [Clients -> {0, 1}]
    /\ AgentTask \notin Clients /\ IPTask \notin Clients /\ AgentTask # IPTask
\* core_mqtt_config.h: a pool of 10 structures, a queue of 25 entries.
ASSUME QueueAssumption ==
    /\ PoolSize \in Nat \ {0} /\ QueueLength \in Nat /\ PoolSize <= QueueLength
    /\ NULL \notin Commands
ASSUME BoundsAssumption == RetryMaxAttempts \in Nat /\ MaxDrops \in Nat
\* subscription_manager.h: 10 entries.  The demos make 9 subscriptions if all
\* of them are created, once each.
ASSUME RoomAssumption ==
    LET subscriptions == {SubscriptionOf[k] : k \in Clients}
    IN  IsFiniteSet(subscriptions) /\ Cardinality(subscriptions) <= MaxSubscriptions

VARIABLES
    pool,       \* queue of free command structures
    queue,      \* xCommandQueue
    cmd,        \* contents of each command structure in use
    holder,     \* the structure a caller has taken and not yet posted
    joined,     \* the demo tasks that have posted their SUBSCRIBE
    told,       \* the demo tasks that were told that their SUBSCRIBE succeeded
    agent,      \* where the agent task is
    current,    \* the command being executed
    pending,    \* commands waiting for an acknowledgment
    session,    \* xSessionPresent of the running prvMQTTConnect()
    started,    \* the demo tasks have been created
    attempts,   \* failed attempts of the running prvSocketConnect()
    xGlobalSubscriptionList,
    xSubArgs,   \* filters in the static arguments of prvHandleResubscribe()
    lost,       \* history: a resubscription has ended without success
    fault,      \* what stopped the device: a failed assertion or a null pointer
    link,       \* the TCP connection works
    drops,      \* connection losses so far
    brokerSubs, \* filters subscribed in the broker's session
    acks        \* acknowledgments on their way from the broker

taskVars   == <<holder, joined, told>>
agentVars  == <<agent, current, pending, session, started, attempts>>
listVars   == <<xGlobalSubscriptionList, xSubArgs, lost>>
brokerVars == <<brokerSubs, acks>>
vars == <<pool, queue, cmd, taskVars, agentVars, listVars, fault, link, drops, brokerVars>>

\* What the model keeps of a command structure: the operation, the task that
\* asked for it, and the filters of the SUBSCRIBE packet once it is sent.
\* The contents of a free structure are never read and are not kept.
Blank == [kind |-> "none", by |-> NULL, filters |-> {}]
Kinds == {"subscribe", "resubscribe", "publish0", "publish1", "processloop"}
NeedsAck(c) == cmd[c].kind \in {"subscribe", "resubscribe", "publish1"}
IsSubscribe(c) == cmd[c].kind \in {"subscribe", "resubscribe"}
Running == fault = "none"
Listed(list) == {list[i].filter : i \in Slots \ FreeSlots(list)}

\* Every structure of the static array goes into the pool's queue.
Agent_InitializePool ==
    /\ pool = [i \in Commands |-> i]
    /\ cmd = [c \in Commands |-> Blank]

\* The command queue, the pool, and an MQTT context without a connection.
prvMQTTInit ==
    /\ queue = <<>>
    /\ Agent_InitializePool
    /\ pending = {}
    /\ session = FALSE

Init ==
    /\ prvMQTTInit
    /\ holder = [k \in Callers |-> NULL]
    /\ joined = {}
    /\ told = {}
    /\ agent = "closed"
    /\ current = NULL
    /\ started = FALSE
    /\ attempts = 0
    /\ xGlobalSubscriptionList = [i \in Slots |-> Free]
    /\ xSubArgs = {}
    /\ lost = FALSE
    /\ fault = "none"
    /\ link = FALSE
    /\ drops = 0
    /\ brokerSubs = {}
    /\ acks = {}

----------------------------------------------------------------------------
(* The message queues and the pool.                                        *)

\* A copy that sends to the front.
MessageSendToFront(q, capacity, c) ==
    IF Len(q) < capacity
    THEN [ok |-> TRUE, queue |-> <<c>> \o q]
    ELSE [ok |-> FALSE, queue |-> q]

\* xQueueSendToBack(): fails when the queue is full.
Agent_MessageSend(q, capacity, c) ==
    IF Len(q) < capacity
    THEN [ok |-> TRUE, queue |-> Append(q, c)]
    ELSE [ok |-> FALSE, queue |-> q]

\* A copy that leaves the structure in the pool.
GetCommandPeek(k, kind) ==
    /\ pool # <<>>
    /\ holder' = [holder EXCEPT ![k] = Head(pool)]
    /\ cmd' = [cmd EXCEPT ![Head(pool)] = [kind |-> kind, by |-> k, filters |-> {}]]
    /\ UNCHANGED pool

Agent_GetCommand(k, kind) ==
    /\ pool # <<>>
    /\ holder' = [holder EXCEPT ![k] = Head(pool)]
    /\ cmd' = [cmd EXCEPT ![Head(pool)] = [kind |-> kind, by |-> k, filters |-> {}]]
    /\ pool' = Tail(pool)

\* A copy whose send goes nowhere.
ReleaseCommandLost(c) ==
    /\ cmd' = [cmd EXCEPT ![c] = Blank]
    /\ UNCHANGED <<pool, fault>>

\* The code asserts that the send succeeds.
Agent_ReleaseCommand(c) ==
    LET released == Agent_MessageSend(pool, PoolSize, c)
    IN  /\ pool' = released.queue
        /\ cmd' = [cmd EXCEPT ![c] = Blank]
        /\ fault' = IF released.ok THEN "none" ELSE "release"

----------------------------------------------------------------------------
(* The users of the agent.                                                 *)

\* MQTTAgent_Subscribe() or MQTTAgent_Publish(), first half: take a command.
\* A task publishes after it has subscribed; it may have given up waiting
\* for an earlier command, so it may own any number of them.
TakeCommand(k) ==
    /\ Running /\ started /\ holder[k] = NULL
    /\ Agent_GetCommand(k, CASE k \notin joined -> "subscribe"
                             [] QoS[k] = 0 -> "publish0"
                             [] OTHER -> "publish1")
    /\ UNCHANGED <<queue, joined, told, agentVars, listVars, fault, link, drops, brokerVars>>

\* The pool stays empty for the block time of the call.
PublishRefused(k) ==
    /\ Running /\ started /\ k \in Asserting \cap joined /\ holder[k] = NULL
    /\ pool = <<>>
    /\ fault' = "publish"
    /\ UNCHANGED <<pool, queue, cmd, taskVars, agentVars, listVars, link, drops, brokerVars>>

\* Second half: post the command; a command that cannot be posted is released.
PostCommand(k) ==
    /\ Running /\ holder[k] # NULL
    /\ holder' = [holder EXCEPT ![k] = NULL]
    /\ LET posted == Agent_MessageSend(queue, QueueLength, holder[k])
       IN  IF posted.ok
           THEN /\ queue' = posted.queue
                /\ joined' = joined \cup ({k} \cap Clients)
                /\ agent' = IF k = AgentTask THEN "loop" ELSE agent
                /\ UNCHANGED <<pool, cmd, fault>>
           ELSE /\ cmd' = [cmd EXCEPT ![holder[k]] = Blank]
                /\ pool' = Agent_MessageSend(pool, PoolSize, holder[k]).queue
                /\ fault' = CASE k = AgentTask -> "resubscribe"
                              [] k \in Asserting \cap joined -> "publish"
                              [] OTHER -> "none"
                /\ UNCHANGED <<queue, joined, agent>>
    /\ UNCHANGED <<told, current, pending, session, started, attempts, listVars, link, drops, brokerVars>>

\* A copy that does not look at the queue.
SocketWakeupAlways ==
    /\ Running /\ agent # "closed" /\ holder[IPTask] = NULL
    /\ Agent_GetCommand(IPTask, "processloop")
    /\ UNCHANGED <<queue, joined, told, agentVars, listVars, fault, link, drops, brokerVars>>

\* prvMQTTClientSocketWakeupCallback() reads the queue, MQTTAgent_ProcessLoop()
\* takes a command; PostCommand(IPTask) is the rest of it.
SocketWakeup ==
    /\ Running /\ agent # "closed" /\ holder[IPTask] = NULL
    /\ queue = <<>>
    /\ Agent_GetCommand(IPTask, "processloop")
    /\ UNCHANGED <<queue, joined, told, agentVars, listVars, fault, link, drops, brokerVars>>

----------------------------------------------------------------------------
(* The end of a command: its callback, then its structure is released.     *)

\* A copy that adds the subscription whatever the status.
ClientCallbackAlwaysAdds(c, status) ==
    /\ told' = IF status = "MQTTSuccess" THEN told \cup {cmd[c].by} ELSE told
    /\ xGlobalSubscriptionList' =
          addSubscription(xGlobalSubscriptionList, SubscriptionOf[cmd[c].by]).list
    /\ UNCHANGED lost

\* A copy that reports success whatever the status.
ClientCallbackAlwaysTells(c, status) ==
    /\ told' = told \cup {cmd[c].by}
    /\ xGlobalSubscriptionList' =
          IF status = "MQTTSuccess"
          THEN addSubscription(xGlobalSubscriptionList, SubscriptionOf[cmd[c].by]).list
          ELSE xGlobalSubscriptionList
    /\ UNCHANGED lost

\* prvSubscribeCommandCallback() of a demo task.
ClientCallback(c, status) ==
    /\ IF status = "MQTTSuccess"
       THEN /\ told' = told \cup {cmd[c].by}
            /\ xGlobalSubscriptionList' =
                  addSubscription(xGlobalSubscriptionList, SubscriptionOf[cmd[c].by]).list
       ELSE UNCHANGED <<told, xGlobalSubscriptionList>>
    /\ UNCHANGED lost

\* removeSubscription() for each filter of a set.
RemoveSubscriptions(list, filters) ==
    [i \in Slots |-> IF \E f \in filters : removeSubscription(list, f)[i] = Free
                     THEN Free ELSE list[i]]

HasSubackCodes(status) == status \in {"MQTTSuccess", "MQTTServerRefused"}

\* prvSubscriptionCommandCallback().  Without SUBACK codes the code reads
\* them through a null pointer: whatever it finds there is taken for codes.
ResubscribeCallback(status, refused) ==
    /\ \E failed \in IF HasSubackCodes(status) THEN {refused} ELSE SUBSET xSubArgs :
          xGlobalSubscriptionList' = RemoveSubscriptions(xGlobalSubscriptionList, failed)
    /\ lost' = (lost \/ status # "MQTTSuccess")
    /\ UNCHANGED told

\* A publish callback notifies its task and touches nothing modelled here.
Callback(c, status, refused) ==
    CASE cmd[c].kind = "subscribe" -> ClientCallback(c, status)
      [] cmd[c].kind = "resubscribe" -> ResubscribeCallback(status, refused)
      [] OTHER -> UNCHANGED <<told, xGlobalSubscriptionList, lost>>

\* Where address 0 cannot be read the device stops inside the callback.
NullCodesRead(c, status) ==
    /\ cmd[c].kind = "resubscribe" /\ ~HasSubackCodes(status) /\ xSubArgs # {}
    /\ fault' = "nullcodes"
    /\ UNCHANGED <<pool, cmd, told, xGlobalSubscriptionList, lost>>

Conclude(c, status, refused) ==
    \/ Callback(c, status, refused) /\ Agent_ReleaseCommand(c)
    \/ NullCodesRead(c, status)

----------------------------------------------------------------------------
(* MQTTAgent_CommandLoop(), as prvMQTTAgentTask() runs it.                 *)

AgentReceive ==
    /\ Running /\ agent = "loop" /\ queue # <<>>
    /\ current' = Head(queue)
    /\ queue' = Tail(queue)
    /\ agent' = "run"
    /\ UNCHANGED <<pool, cmd, taskVars, pending, session, started, attempts,
                   listVars, fault, link, drops, brokerVars>>

AgentReceiveTimeout ==
    /\ Running /\ agent = "loop" /\ queue = <<>>
    /\ agent' = "poll"
    /\ UNCHANGED <<pool, queue, cmd, taskVars, current, pending, session, started,
                   attempts, listVars, fault, link, drops, brokerVars>>

\* A command that waits for no acknowledgment ends when it has been executed.
RunToEnd ==
    /\ Running /\ agent = "run" /\ ~NeedsAck(current)
    /\ Conclude(current, "MQTTSuccess", {})
    /\ current' = NULL
    /\ agent' = "poll"
    /\ UNCHANGED <<queue, holder, joined, pending, session, started, attempts,
                   xSubArgs, link, drops, brokerVars>>

\* The filters of the SUBSCRIBE packet, read when the packet is made.
PacketFilters(c) ==
    CASE cmd[c].kind = "subscribe" -> {SubscriptionOf[cmd[c].by].filter}
      [] cmd[c].kind = "resubscribe" -> xSubArgs
      [] OTHER -> {}

\* The command joins the list of pending acknowledgments.
RunAwaitingAck ==
    /\ Running /\ agent = "run" /\ NeedsAck(current)
    /\ pending' = pending \cup {current}
    /\ cmd' = [cmd EXCEPT ![current].filters = PacketFilters(current)]
    /\ current' = NULL
    /\ agent' = "poll"
    /\ UNCHANGED <<pool, queue, taskVars, session, started, attempts, listVars,
                   fault, link, drops, brokerVars>>

SendFails ==
    /\ Running /\ agent = "run" /\ cmd[current].kind # "processloop" /\ ~link
    /\ Conclude(current, "MQTTSendFailed", {})
    /\ current' = NULL
    /\ agent' = "failed"
    /\ UNCHANGED <<queue, holder, joined, pending, session, started, attempts,
                   xSubArgs, link, drops, brokerVars>>

SubackStatus(c, granted) ==
    IF granted = cmd[c].filters THEN "MQTTSuccess" ELSE "MQTTServerRefused"

\* MQTT_ProcessLoop() receives an acknowledgment.
PollAck ==
    /\ Running /\ agent = "poll"
    /\ \E a \in acks :
          /\ acks' = acks \ {a}
          /\ pending' = pending \ {a.cmd}
          /\ Conclude(a.cmd, SubackStatus(a.cmd, a.granted), cmd[a.cmd].filters \ a.granted)
    /\ UNCHANGED <<queue, holder, joined, agent, current, session, started,
                   attempts, xSubArgs, link, drops, brokerSubs>>

PollIdle ==
    /\ Running /\ agent = "poll" /\ acks = {}
    /\ agent' = "loop"
    /\ UNCHANGED <<pool, queue, cmd, taskVars, current, pending, session, started,
                   attempts, listVars, fault, link, drops, brokerVars>>

\* A receive error or a keep-alive timeout ends the command loop.
PollError ==
    /\ Running /\ agent = "poll" /\ ~link
    /\ agent' = "failed"
    /\ UNCHANGED <<pool, queue, cmd, taskVars, current, pending, session, started,
                   attempts, listVars, fault, link, drops, brokerVars>>

----------------------------------------------------------------------------
(* prvMQTTAgentTask() after an error, and the first connection.            *)

SocketDisconnect ==
    /\ Running /\ agent = "failed"
    /\ agent' = "closed"
    /\ link' = FALSE
    /\ acks' = {}
    /\ UNCHANGED <<pool, queue, cmd, taskVars, current, pending, session, started,
                   attempts, listVars, fault, drops, brokerSubs>>

\* prvSocketConnect(): one attempt to connect.
SocketConnect ==
    /\ Running /\ agent = "closed"
    /\ agent' = "open"
    /\ link' = TRUE
    /\ attempts' = 0
    /\ UNCHANGED <<pool, queue, cmd, taskVars, current, pending, session, started,
                   listVars, fault, drops, brokerVars>>

\* Copies of the next action: one attempt too many, and a
\* count that wraps before it reaches the limit.
SocketConnectFailsLate ==
    /\ Running /\ agent = "closed"
    /\ IF attempts <= RetryMaxAttempts
       THEN attempts' = attempts + 1 /\ UNCHANGED fault
       ELSE fault' = "connect" /\ UNCHANGED attempts
    /\ UNCHANGED <<pool, queue, cmd, taskVars, agent, current, pending, session,
                   started, listVars, link, drops, brokerVars>>
SocketConnectFailsUncounted ==
    /\ Running /\ agent = "closed"
    /\ attempts' = (attempts + 1) % (RetryMaxAttempts + 1)
    /\ UNCHANGED <<pool, queue, cmd, taskVars, agent, current, pending, session,
                   started, listVars, fault, link, drops, brokerVars>>

\* After a failed attempt the task retries, or has exhausted its retries and
\* asserts.
SocketConnectFails ==
    /\ Running /\ agent = "closed"
    /\ IF attempts < RetryMaxAttempts
       THEN attempts' = attempts + 1 /\ UNCHANGED fault
       ELSE fault' = "connect" /\ UNCHANGED attempts
    /\ UNCHANGED <<pool, queue, cmd, taskVars, agent, current, pending, session,
                   started, listVars, link, drops, brokerVars>>

\* prvMQTTConnect( true ), then the demo tasks are created.
FirstConnect ==
    /\ Running /\ agent = "open" /\ link /\ ~started
    /\ brokerSubs' = {}
    /\ started' = TRUE
    /\ agent' = "loop"
    /\ UNCHANGED <<pool, queue, cmd, taskVars, current, pending, session, attempts,
                   listVars, fault, link, drops, acks>>

\* A copy that does not resume the session.
ReconnectWithoutResume ==
    /\ Running /\ agent = "open" /\ link /\ started
    /\ \E kept \in BOOLEAN :
          /\ brokerSubs' = IF kept THEN brokerSubs ELSE {}
          /\ agent' = IF kept THEN "loop" ELSE "resub"
    /\ UNCHANGED <<pool, queue, cmd, taskVars, current, pending, session, started,
                   attempts, listVars, fault, link, drops, acks>>

\* prvMQTTConnect( false ): the broker has kept the session, or has not.
Reconnect ==
    /\ Running /\ agent = "open" /\ link /\ started
    /\ session' \in BOOLEAN
    /\ brokerSubs' = IF session' THEN brokerSubs ELSE {}
    /\ agent' = "clear"
    /\ UNCHANGED <<pool, queue, cmd, taskVars, current, pending, started, attempts,
                   listVars, fault, link, drops, acks>>

ConnectRefused ==
    /\ Running /\ agent = "open"
    /\ fault' = "connack"
    /\ UNCHANGED <<pool, queue, cmd, taskVars, agentVars, listVars, link, drops, brokerVars>>

\* Pending commands that MQTTAgent_ResumeSession() ends: all of them without
\* a session, the SUBSCRIBEs with one.
Cancelled == {c \in pending : ~session \/ IsSubscribe(c)}

ClearPending ==
    /\ Running /\ agent = "clear"
    /\ \E c \in Cancelled :
          /\ Conclude(c, "MQTTRecvFailed", {})
          /\ pending' = pending \ {c}
    /\ UNCHANGED <<queue, holder, joined, agent, current, session, started,
                   attempts, xSubArgs, link, drops, brokerVars>>

\* The pending publishes of a session are sent again.
ResumeSession ==
    /\ Running /\ agent = "clear" /\ Cancelled = {}
    /\ agent' = IF session THEN "loop" ELSE "resub"
    /\ session' = FALSE
    /\ UNCHANGED <<pool, queue, cmd, taskVars, current, pending, started,
                   attempts, listVars, fault, link, drops, brokerVars>>

ResumeFails ==
    /\ Running /\ agent = "clear" /\ Cancelled = {}
    /\ session /\ pending # {} /\ ~link
    /\ fault' = "resume"
    /\ UNCHANGED <<pool, queue, cmd, taskVars, agentVars, listVars, link, drops, brokerVars>>

NothingToResubscribe ==
    /\ Running /\ agent = "resub" /\ Listed(xGlobalSubscriptionList) = {}
    /\ agent' = "loop"
    /\ UNCHANGED <<pool, queue, cmd, taskVars, current, pending, session, started,
                   attempts, listVars, fault, link, drops, brokerVars>>

\* prvHandleResubscribe(): PostCommand(AgentTask) is its last step.
Resubscribe ==
    /\ Running /\ agent = "resub" /\ Listed(xGlobalSubscriptionList) # {}
    /\ xSubArgs' = Listed(xGlobalSubscriptionList)
    /\ \/ /\ Agent_GetCommand(AgentTask, "resubscribe")
          /\ agent' = "enqueue"
          /\ UNCHANGED fault
       \/ /\ pool = <<>>
          /\ fault' = "resubscribe"
          /\ UNCHANGED <<pool, cmd, holder, agent>>
    /\ UNCHANGED <<queue, joined, told, current, pending, session, started, attempts,
                   xGlobalSubscriptionList, lost, link, drops, brokerVars>>

----------------------------------------------------------------------------
(* The network and the broker.                                             *)

\* The connection is lost; part of what has arrived can still be read.
LinkDrop ==
    /\ Running /\ link /\ drops < MaxDrops
    /\ link' = FALSE
    /\ drops' = drops + 1
    /\ acks' \in SUBSET acks
    /\ UNCHANGED <<pool, queue, cmd, taskVars, agentVars, listVars, fault, brokerSubs>>

\* The broker grants some filters of a SUBSCRIBE and acknowledges.
BrokerAnswer(c) ==
    /\ Running /\ link /\ agent \in {"loop", "run", "poll"}
    /\ c \in pending /\ \A a \in acks : a.cmd # c
    /\ \E granted \in SUBSET cmd[c].filters :
          /\ brokerSubs' = brokerSubs \cup granted
          /\ acks' = acks \cup {[cmd |-> c, granted |-> granted]}
    /\ UNCHANGED <<pool, queue, cmd, taskVars, agentVars, listVars, fault, link, drops>>

\* A failed assertion stops the device.
Halted == ~Running /\ UNCHANGED vars

CallerStep ==
    \/ \E k \in Clients : TakeCommand(k) \/ PublishRefused(k)
    \/ \E k \in Callers : PostCommand(k)
    \/ SocketWakeup
LoopStep ==
    \/ AgentReceive \/ AgentReceiveTimeout \/ RunToEnd \/ RunAwaitingAck \/ SendFails
    \/ PollAck \/ PollIdle \/ PollError
ReconnectStep ==
    \/ SocketDisconnect \/ SocketConnect \/ SocketConnectFails \/ FirstConnect
    \/ Reconnect \/ ConnectRefused \/ ClearPending \/ ResumeSession \/ ResumeFails
    \/ NothingToResubscribe \/ Resubscribe
BrokerStep == LinkDrop \/ \E c \in Commands : BrokerAnswer(c)

Next == CallerStep \/ LoopStep \/ ReconnectStep \/ BrokerStep \/ Halted

\* The scheduler runs every ready task, a task inside an API call finishes
\* it, the broker answers while the connection lasts, and the keep-alive
\* ends a dead one: PollError is strongly fair because it is enabled only
\* while the agent polls.
Fairness ==
    /\ WF_vars(LoopStep \/ ReconnectStep)
    /\ SF_vars(PollError)
    /\ \A k \in Callers : WF_vars(PostCommand(k))
    /\ \A c \in Commands : WF_vars(BrokerAnswer(c))

Spec == Init /\ [][Next]_vars
FairSpec == Spec /\ Fairness

----------------------------------------------------------------------------
(* Properties.                                                             *)

\* Every variable has its type.
TypeOK ==
    /\ pool \in Seq(Commands) /\ queue \in Seq(Commands)
    /\ cmd \in [Commands -> [kind : Kinds, by : Callers, filters : SUBSET Filters] \cup {Blank}]
    /\ holder \in [Callers -> Commands \cup {NULL}]
    /\ joined \subseteq Clients /\ told \subseteq Clients
    /\ agent \in {"closed", "open", "clear", "resub", "enqueue", "loop", "run", "poll", "failed"}
    /\ current \in Commands \cup {NULL}
    /\ pending \subseteq Commands
    /\ session \in BOOLEAN /\ started \in BOOLEAN
    /\ attempts \in 0 .. RetryMaxAttempts
    /\ xGlobalSubscriptionList \in SubscriptionLists
    /\ xSubArgs \subseteq Filters
    /\ lost \in BOOLEAN
    /\ fault \in {"none", "release", "publish", "connect", "connack", "resume",
                  "resubscribe", "nullcodes"}
    /\ link \in BOOLEAN /\ drops \in 0 .. MaxDrops
    /\ brokerSubs \subseteq Filters
    /\ acks \subseteq [cmd : Commands, granted : SUBSET Filters]

\* Where a command structure can be.
InHand == {holder[k] : k \in Callers} \ {NULL}
InCurrent == {current} \ {NULL}

\* While the device runs, every command structure is in exactly one place:
\* free, in the hands of one caller, queued, being executed or waiting for
\* its acknowledgment.  None is leaked, shared or released twice, whatever
\* fails between Agent_GetCommand() and Agent_ReleaseCommand().
OneOwner ==
    Running =>
        /\ IsInjective(pool) /\ IsInjective(queue)
        /\ \A k, l \in Callers : holder[k] = holder[l] /\ holder[k] # NULL => k = l
        /\ Range(pool) \cap Range(queue) = {}
        /\ (Range(pool) \cup Range(queue)) \cap (InHand \cup InCurrent \cup pending) = {}
        /\ InHand \cap (InCurrent \cup pending) = {}
        /\ InCurrent \cap pending = {}
        /\ Commands = Range(pool) \cup Range(queue) \cup InHand \cup InCurrent \cup pending

\* A caller that holds a command finds room for it in the command queue, so
\* a post without block time, as the wakeup callback's and the one of
\* prvHandleResubscribe(), is never refused by the queue.
EnqueueFindsRoom ==
    Running => \A k \in Callers : holder[k] # NULL => Len(queue) < QueueLength

\* The assertion of Agent_ReleaseCommand(): the pool takes every structure
\* that is returned to it.
ReleaseFits == fault # "release"

\* The socket wakeup callback keeps at most one process loop command in the
\* queue, however often the socket wakes it, so it cannot drain the pool by
\* itself.
SingleWakeup ==
    Running => Cardinality({i \in DOMAIN queue : cmd[queue[i]].kind = "processloop"}) <= 1

\* The static arguments of prvHandleResubscribe() still hold the filters of
\* the packet when the SUBACK arrives, so its codes are matched to the
\* filters they are about, although a later reconnection rewrites them.
ArgsStable ==
    Running => \A c \in pending : cmd[c].kind = "resubscribe" => cmd[c].filters = xSubArgs

Outstanding == Range(queue) \cup InCurrent \cup pending

\* Whenever the command loop runs, the broker delivers to every filter of
\* the subscription list, or a SUBSCRIBE for it is on its way, through any
\* sequence of connection losses, kept and lost sessions, and as long as no
\* resubscription has been refused.
ListedIsCovered ==
    Running /\ ~lost /\ agent \in {"loop", "run", "poll"} =>
        \/ Listed(xGlobalSubscriptionList) \subseteq brokerSubs
        \/ \E c \in Outstanding : /\ cmd[c].kind = "resubscribe"
                                  /\ Listed(xGlobalSubscriptionList) \subseteq brokerSubs \cup xSubArgs

\* A demo task that was told that its SUBSCRIBE succeeded has its callback
\* in the list, as long as no resubscription has been refused.
ToldMeansListed ==
    Running /\ ~lost =>
        \A k \in told : SubscriptionOf[k] \in Range(xGlobalSubscriptionList)

\* Where a structure is: "lost" if the device stopped in its callback.
Place(c) ==
    CASE c \in Range(pool) -> "free"
      [] c \in InHand -> "held"
      [] c \in Range(queue) -> "line"
      [] c \in InCurrent -> "executed"
      [] c \in pending -> "awaiting"
      [] OTHER -> "lost"

Request(command) == [kind |-> command.kind, by |-> command.by]

Service == INSTANCE CommandService WITH
              place <- [c \in Commands |-> Place(c)],
              request <- [c \in Commands |-> Request(cmd[c])],
              line <- queue,
              stopped <- ~Running,
              NoRequest <- Request(Blank)

\* Pool, queue and agent task together are the service that SimpleSubPub,
\* OtaDemo and the other users of the agent have in its place: commands are
\* executed in the order they were posted and end once, whatever is
\* cancelled, refused or lost with the connection.
ImplementsService == Service!ServiceSpec

\* Every posted command ends and its structure returns to the pool, through
\* connection losses and cancelled acknowledgments, unless the device stops.
CommandsEnd ==
    \A c \in Commands : c \in Range(queue) ~> (c \in Range(pool) \/ ~Running)

\* After every failure the agent task is back in the command loop, or has
\* stopped at an assertion: it never waits for something for ever.
Reconnects == agent = "failed" ~> (agent = "loop" \/ ~Running)

\* prvHandleResubscribe(): "The block time can be 0 as the command loop is
\* not running at this point", so the resubscription is always enqueued and
\* the assertion on prvMQTTConnect() does not fail because of it.
ResubscribeEnqueued == fault # "resubscribe"

\* prvSubscriptionCommandCallback(): "Hit an assert as some of the tasks
\* won't be able to proceed correctly without the subscriptions": a
\* resubscription that does not succeed stops the device.
FailedResubscribeHalts == [][~lost /\ lost' => fault' # "none"]_vars

=============================================================================
