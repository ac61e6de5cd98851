------------------------------ MODULE OtaDemo ------------------------------
(***************************************************************************)
(* The tasks of ota_over_mqtt_demo.c and what the MQTT agent task does     *)
(* with them.  The OTA agent task runs the OTA library, which takes events *)
(* from a queue and calls back into this file for MQTT operations.  Such   *)
(* an operation posts a command whose context is in the caller's stack     *)
(* frame, and waits for the command's callback or for a timeout.  The MQTT *)
(* agent task copies incoming OTA messages into event buffers, and when    *)
(* the connection fails it waits until the OTA agent is suspended before   *)
(* it reconnects.                                                          *)
(*                                                                         *)
(* The OTA library and coreMQTT-Agent are outside the repository: they are *)
(* modelled by the calls they make and answer.  An assertion that stops    *)
(* the device during a reconnection is in MqttAgent and not repeated here. *)
(***************************************************************************)
EXTENDS Integers, Sequences, FiniteSets, Functions

CONSTANTS
    NumBuffers,         \* otaconfigMAX_NUM_OTA_DATA_BUFFERS
    EventQueueLength,   \* length of the OTA library's event queue
    MaxMessages,        \* bounds of the model: OTA messages received,
    MaxOperations,      \* MQTT operations of the OTA agent,
    MaxDrops,           \* and failures of the connection
    NULL

Buffers == 1 .. NumBuffers
EventIds == {"start", "timer", "suspend", "resume", "shutdown", "job", "block"}
Topics == {"accepted", "notify", "stream", "other thing", "no OTA topic"}

\* The library's queue has 20 entries for 5 buffers and at most one each of
\* the four other events.  NULL is neither a buffer nor an event.
ASSUME OtaAssumption ==
    /\ NumBuffers \in Nat \ {0} /\ EventQueueLength \in Nat
    /\ EventQueueLength >= NumBuffers + 4
    /\ MaxMessages \in Nat /\ MaxOperations \in Nat /\ MaxDrops \in Nat
    /\ NULL \notin Buffers
    /\ NULL \notin [id : EventIds, buffer : Buffers \cup {NULL}, message : 0 .. MaxMessages]

VARIABLES
    agent,          \* where the MQTT agent task is
    xMQTTStatus,    \* what MQTTAgent_CommandLoop() returned
    demo,           \* where prvOTADemoTask() is
    ota,            \* OTA_GetState()
    events,         \* the library's event queue
    used,           \* the buffers with bufferUsed set
    data,           \* the message in each buffer
    handling,       \* the event the OTA agent is handling
    op,             \* its MQTT operation: the number of it, and how far it is
    xReturnStatus,  \* in the context of that operation
    notified,       \* a notification is pending for the OTA agent task
    commands,       \* operations whose commands are with the MQTT agent
    wild,           \* a callback has used a frame that holds something else
    messages, drops,    \* counters
    missed,         \* history: the connection failed before OTA_Init()
    reported, done, \* history: operations reported as successful; that were
    mistaken        \* history: operations disturbed by an older one's callback

agentVars == <<agent, xMQTTStatus, drops, missed>>
bufferVars == <<used, data, messages>>
opVars == <<op, xReturnStatus, reported>>
callbackVars == <<notified, wild, mistaken>>
commandVars == <<commands, done>>
vars == <<agentVars, demo, ota, events, bufferVars, handling, opVars, callbackVars, commandVars>>

Event(id) == [id |-> id, buffer |-> NULL, message |-> 0]
DataEvent(id, b, m) == [id |-> id, buffer |-> b, message |-> m]

\* The task is created, or the assertion stops the device before it starts.
vStartOTACodeSigningDemo == demo = "init"

Init ==
    /\ agent = "loop"
    /\ xMQTTStatus = "MQTTSuccess"
    /\ vStartOTACodeSigningDemo
    /\ ota = "stopped"
    /\ events = <<>>
    /\ used = {}
    /\ data = [b \in Buffers |-> 0]
    /\ handling = NULL
    /\ op = [number |-> 0, phase |-> "returned"]
    /\ xReturnStatus = "MQTTSuccess"
    /\ notified = FALSE
    /\ commands = {}
    /\ wild = FALSE
    /\ messages = 0
    /\ drops = 0
    /\ missed = FALSE
    /\ reported = {}
    /\ done = {}
    /\ mistaken = {}

\* OTA_SignalEvent(): an event that finds the queue full is dropped.
OTA_SignalEvent(q, e) == IF Len(q) < EventQueueLength THEN Append(q, e) ELSE q

----------------------------------------------------------------------------
(* The OTA demo task.                                                      *)

InitDemo ==
    /\ demo = "init"
    /\ \/ demo' = "start" /\ ota' = "ready"
       \/ demo' = "ended" /\ UNCHANGED ota      \* OTA_Init() fails
    /\ UNCHANGED <<agentVars, events, bufferVars, handling, opVars, callbackVars, commandVars>>

StartDemo ==
    /\ demo = "start"
    /\ events' = OTA_SignalEvent(events, Event("start"))
    /\ demo' = "poll"
    /\ UNCHANGED <<agentVars, ota, bufferVars, handling, opVars, callbackVars, commandVars>>

EndDemo ==
    /\ demo = "poll" /\ ota = "stopped"
    /\ demo' = "ended"
    /\ UNCHANGED <<agentVars, ota, events, bufferVars, handling, opVars, callbackVars, commandVars>>

----------------------------------------------------------------------------
(* The MQTT operations, in the OTA agent task.                             *)

\* A copy without xTaskNotifyStateClear().
StartOperationUncleared ==
    /\ op.phase = "returned" /\ op.number < MaxOperations
    /\ op' = [number |-> op.number + 1, phase |-> "post"]
    /\ xReturnStatus' = "MQTTSuccess"
    /\ UNCHANGED <<agentVars, demo, ota, events, bufferVars, handling, reported, callbackVars, commandVars>>

\* The context is zero, so its xReturnStatus is MQTTSuccess, and an older
\* notification is cleared.
StartOperation ==
    /\ op.phase = "returned" /\ op.number < MaxOperations
    /\ op' = [number |-> op.number + 1, phase |-> "post"]
    /\ xReturnStatus' = "MQTTSuccess"
    /\ notified' = FALSE
    /\ UNCHANGED <<agentVars, demo, ota, events, bufferVars, handling, reported, wild, mistaken, commandVars>>

\* The three operations do the same with different commands.
Handles(ids) == handling # NULL /\ handling.id \in ids /\ ota \in {"ready", "active"} /\ ~wild
prvMQTTSubscribe == Handles({"start", "job"}) /\ StartOperation
prvMQTTPublish == Handles({"start", "job", "block", "timer"}) /\ StartOperation
prvMQTTUnsubscribe == Handles({"job", "block", "shutdown"}) /\ StartOperation

\* The MQTT interface that the OTA library is given.
setOtaInterfaces == prvMQTTSubscribe \/ prvMQTTPublish \/ prvMQTTUnsubscribe

\* The call to the MQTT agent may find no command structure in time.
PostCommand ==
    /\ ~wild /\ op.phase = "post"
    /\ \/ op' = [op EXCEPT !.phase = "wait"] /\ commands' = commands \cup {op.number}
       \/ op' = [op EXCEPT !.phase = "returned"] /\ UNCHANGED commands
    /\ UNCHANGED <<agentVars, demo, ota, events, bufferVars, handling, xReturnStatus, reported, callbackVars, done>>

\* xTaskNotifyWait() returns a notification: the status is the one in the
\* context now.
WaitEnds ==
    /\ ~wild /\ op.phase = "wait" /\ notified
    /\ op' = [op EXCEPT !.phase = "returned"]
    /\ notified' = FALSE
    /\ reported' = IF xReturnStatus = "MQTTSuccess" THEN reported \cup {op.number} ELSE reported
    /\ UNCHANGED <<agentVars, demo, ota, events, bufferVars, handling, xReturnStatus, wild, mistaken, commandVars>>

\* A copy of the next action that waits until the command ends.
WaitForever ==
    /\ ~wild /\ op.phase = "wait" /\ ~notified /\ op.number \notin commands
    /\ op' = [op EXCEPT !.phase = "returned"]
    /\ UNCHANGED <<agentVars, demo, ota, events, bufferVars, handling, xReturnStatus, reported, callbackVars, commandVars>>

\* otaexampleMQTT_TIMEOUT_MS have passed: the operation has failed.
WaitTimesOut ==
    /\ ~wild /\ op.phase = "wait" /\ ~notified
    /\ op' = [op EXCEPT !.phase = "returned"]
    /\ UNCHANGED <<agentVars, demo, ota, events, bufferVars, handling, xReturnStatus, reported, callbackVars, commandVars>>

----------------------------------------------------------------------------
(* The OTA library, in the OTA agent task.                                 *)

TakeEvent ==
    /\ ~wild /\ ota # "stopped" /\ handling = NULL /\ events # <<>>
    /\ handling' = Head(events)
    /\ events' = Tail(events)
    /\ UNCHANGED <<agentVars, demo, ota, bufferVars, opVars, callbackVars, commandVars>>

\* The job events the library may report to the application.
JobEvents == {"OtaJobEventFail", "OtaJobEventStartTest", "OtaJobEventActivate",
              "OtaJobEventSelfTestFailed"}

\* A copy that leaves the buffer as it is.
prvOTAEventBufferKeep(b) == UNCHANGED used

prvOTAEventBufferFree(b) == used' = used \ {b}

\* otaAppCallback() for a job event: after a failed activation or self test
\* the demo shuts the OTA agent down.
otaAppCallback(event) ==
    events' = IF event \in {"OtaJobEventActivate", "OtaJobEventSelfTestFailed"}
              THEN OTA_SignalEvent(events, Event("shutdown")) ELSE events

\* A message has been processed, and with it perhaps the job.  The message
\* is ignored when the OTA agent is not active.  OTA_Shutdown() does nothing
\* while a shutdown is under way.
FinishMessage ==
    /\ ~wild /\ handling # NULL /\ handling.buffer # NULL /\ op.phase = "returned"
    /\ prvOTAEventBufferFree(handling.buffer)      \* OtaJobEventProcessed
    /\ \/ UNCHANGED events
       \/ /\ ota = "active" /\ Event("shutdown") \notin Range(events)
          /\ \E event \in JobEvents : otaAppCallback(event)
    /\ handling' = NULL
    /\ UNCHANGED <<agentVars, demo, ota, data, messages, opVars, callbackVars, commandVars>>

StateAfter(id) ==
    CASE id = "start" /\ ota = "ready" -> "active"
      [] id = "suspend" -> "suspended"
      [] id = "resume" /\ ota = "suspended" -> "active"
      [] id = "shutdown" -> "stopped"
      [] OTHER -> ota

FinishEvent ==
    /\ ~wild /\ handling # NULL /\ handling.buffer = NULL /\ op.phase = "returned"
    /\ ota' = StateAfter(handling.id)
    /\ handling' = NULL
    /\ UNCHANGED <<agentVars, demo, events, bufferVars, opVars, callbackVars, commandVars>>

\* The request timer is started again when its last event has been handled.
TimerFires ==
    /\ ~wild /\ ota = "active" /\ Event("timer") \notin Range(events) \cup {handling}
    /\ events' = OTA_SignalEvent(events, Event("timer"))
    /\ UNCHANGED <<agentVars, demo, ota, bufferVars, handling, opVars, callbackVars, commandVars>>

----------------------------------------------------------------------------
(* The MQTT agent task: incoming messages.                                 *)

\* The event a message on a topic becomes, "none" if it is not for OTA.
vOTAProcessMessage(topic) ==
    CASE topic \in {"accepted", "notify"} -> "job"
      [] topic = "stream" -> "block"
      [] OTHER -> "none"

LowestIn(S) == CHOOSE b \in S : \A c \in S : b <= c

\* A copy whose scan goes one too far.
prvOTAEventBufferGetPastEnd == LowestIn((1 .. NumBuffers + 1) \ used)

prvOTAEventBufferGet == IF used = Buffers THEN NULL ELSE LowestIn(Buffers \ used)

\* prvProcessIncomingJobMessage() and prvProcessIncomingData().
IncomingMessage(topic) ==
    /\ ~wild /\ agent = "loop" /\ op.number > 0 /\ messages < MaxMessages
    /\ messages' = messages + 1
    /\ LET id == vOTAProcessMessage(topic)
           b == prvOTAEventBufferGet
       IN  IF id = "none" \/ b = NULL
           THEN UNCHANGED <<used, data, events>>
           ELSE /\ used' = used \cup {b}
                /\ data' = [data EXCEPT ![b] = messages']
                /\ events' = OTA_SignalEvent(events, DataEvent(id, b, messages'))
    /\ UNCHANGED <<agentVars, demo, ota, handling, opVars, callbackVars, commandVars>>

\* The callbacks of the subscription list come first; they are for the other
\* demos' topics, and the OTA agent gets what none of them wanted.
prvIncomingPublishCallback == \E topic \in Topics : IncomingMessage(topic)

----------------------------------------------------------------------------
(* The MQTT agent task: commands.                                          *)

\* prvCommandCallback() writes to the context and notifies the task named
\* there.  When the frame is gone, the context is as it was left, or it is
\* the one of the operation running now, or it is something else.
prvCommandCallback(c, status) ==
    \/ /\ op.number = c /\ op.phase = "wait"
       /\ xReturnStatus' = status
       /\ notified' = TRUE
       /\ UNCHANGED <<wild, mistaken>>
    \/ /\ op.number # c \/ op.phase = "returned"
       /\ \/ /\ notified' = TRUE
             /\ UNCHANGED <<xReturnStatus, wild>>
          \/ /\ op.phase # "returned"
             /\ xReturnStatus' = status
             /\ notified' = TRUE
             /\ UNCHANGED wild
          \/ /\ wild' = TRUE
             /\ UNCHANGED <<xReturnStatus, notified>>
       /\ mistaken' = IF op.phase # "returned" THEN mistaken \cup {op.number} ELSE mistaken

\* A command ends; while the agent reconnects it can only be cancelled.
EndCommand(c) ==
    /\ ~wild /\ agent \in {"loop", "reconnect"} /\ c \in commands
    /\ commands' = commands \ {c}
    /\ \E status \in {"MQTTSuccess", "MQTTRecvFailed"} :
          /\ agent = "reconnect" => status # "MQTTSuccess"
          /\ prvCommandCallback(c, status)
          /\ done' = IF status = "MQTTSuccess" THEN done \cup {c} ELSE done
    /\ UNCHANGED <<agentVars, demo, ota, events, bufferVars, handling, op, reported>>

----------------------------------------------------------------------------
(* The MQTT agent task: suspension and reconnection.                       *)

\* A copy that does not wait for the OTA agent.
vSuspendUnawaited ==
    IF ota \in {"suspended", "stopped"}
    THEN agent' = "reconnect" /\ UNCHANGED events
    ELSE agent' = "reconnect" /\ events' = OTA_SignalEvent(events, Event("suspend"))

vSuspendOTACodeSigningDemo ==
    IF ota \in {"suspended", "stopped"}
    THEN agent' = "reconnect" /\ UNCHANGED events
    ELSE agent' = "suspending" /\ events' = OTA_SignalEvent(events, Event("suspend"))

CommandLoopFails ==
    /\ ~wild /\ agent = "loop" /\ drops < MaxDrops
    /\ xMQTTStatus' = "MQTTRecvFailed"
    /\ vSuspendOTACodeSigningDemo
    /\ drops' = drops + 1
    /\ missed' = (missed \/ demo = "init")
    /\ UNCHANGED <<demo, ota, bufferVars, handling, opVars, callbackVars, commandVars>>

SuspendWaits ==
    /\ ~wild /\ agent = "suspending" /\ ota \in {"suspended", "stopped"}
    /\ agent' = "reconnect"
    /\ UNCHANGED <<xMQTTStatus, drops, missed, demo, ota, events, bufferVars, handling,
                   opVars, callbackVars, commandVars>>

vResumeOTACodeSigningDemo ==
    events' = IF ota = "suspended" THEN OTA_SignalEvent(events, Event("resume")) ELSE events

\* The connection works again.  What the command loop returned decides about
\* the resumption, and it has not changed since the loop failed.
Reconnect ==
    /\ ~wild /\ agent = "reconnect"
    /\ agent' = "loop"
    /\ IF xMQTTStatus = "MQTTSuccess" THEN vResumeOTACodeSigningDemo ELSE UNCHANGED events
    /\ UNCHANGED <<xMQTTStatus, drops, missed, demo, ota, bufferVars, handling, opVars,
                   callbackVars, commandVars>>

----------------------------------------------------------------------------

DemoStep == InitDemo \/ StartDemo \/ EndDemo
OtaStep ==
    \/ setOtaInterfaces
    \/ PostCommand \/ WaitEnds \/ WaitTimesOut
    \/ TakeEvent \/ FinishMessage \/ FinishEvent
AgentStep ==
    \/ prvIncomingPublishCallback
    \/ \E c \in 1 .. MaxOperations : EndCommand(c)
    \/ CommandLoopFails \/ SuspendWaits \/ Reconnect

Next == DemoStep \/ OtaStep \/ TimerFires \/ AgentStep

Spec == Init /\ [][Next]_vars

\* Both tasks have a priority above the demo tasks' and share the processor,
\* and every wait of the OTA agent has a timeout.
FairSpec == Spec /\ WF_vars(OtaStep) /\ WF_vars(SuspendWaits)

----------------------------------------------------------------------------
(* Properties.                                                             *)

TypeOK ==
    /\ agent \in {"loop", "suspending", "reconnect"}
    /\ xMQTTStatus \in {"MQTTSuccess", "MQTTRecvFailed"}
    /\ demo \in {"init", "start", "poll", "ended"}
    /\ ota \in {"stopped", "ready", "active", "suspended"}
    /\ \A e \in Range(events) \cup ({handling} \ {NULL}) :
          \/ e \in {Event(id) : id \in {"start", "timer", "suspend", "resume", "shutdown"}}
          \/ e \in {DataEvent(id, b, m) : id \in {"job", "block"}, b \in Buffers, m \in 1 .. MaxMessages}
    /\ used \subseteq Buffers /\ data \in [Buffers -> 0 .. MaxMessages]
    /\ op \in [number : 0 .. MaxOperations, phase : {"post", "wait", "returned"}]
    /\ xReturnStatus \in {"MQTTSuccess", "MQTTRecvFailed"}
    /\ {notified, wild, missed} \subseteq BOOLEAN
    /\ commands \cup reported \cup done \cup mistaken \subseteq 1 .. MaxOperations
    /\ messages \in 0 .. MaxMessages /\ drops \in 0 .. MaxDrops

\* The data events that are queued or being handled.
DataEvents == {e \in Range(events) \cup ({handling} \ {NULL}) : e.buffer # NULL}

\* A buffer is in use exactly while one event points to it, and it holds that
\* event's message until the event has been handled: no buffer is leaked, none
\* is overwritten, and the event queue has room for every buffer, whatever
\* operations, shutdowns and suspensions happen in between.
BuffersMatchEvents ==
    /\ used = {e.buffer : e \in DataEvents}
    /\ \A e \in DataEvents : data[e.buffer] = e.message

\* An operation that reports success has succeeded.  The exception is an
\* operation during which the callback of an earlier one that had timed out
\* ran: it finds a notification and a status that are not its own.
SuccessIsReal == reported \ mistaken \subseteq done

\* While the MQTT agent reconnects the OTA agent waits for no operation,
\* unless the connection failed before the OTA agent was initialised: then
\* there is nothing to suspend, and it may start during the reconnection.
QuietReconnect == agent = "reconnect" /\ ~missed => op.phase = "returned"

\* The MQTT agent does not wait for ever for the OTA agent, although the OTA
\* agent may be waiting for the MQTT agent.
SuspendEnds == agent = "suspending" ~> (agent # "suspending" \/ wild)

\* prvMQTTAgentTask() calls vResumeOTACodeSigningDemo() after a reconnection:
\* back in the command loop, the OTA agent is not left suspended.
OtaResumes ==
    agent = "loop" /\ ota = "suspended" =>
        Event("resume") \in Range(events) \cup {handling}

=============================================================================
