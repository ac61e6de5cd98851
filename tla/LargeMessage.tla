---------------------------- MODULE LargeMessage ----------------------------
(***************************************************************************)
(* The task of large_message_sub_pub_demo.c, which publishes a message of  *)
(* the maximum length to a topic it is subscribed to, waits for it to come *)
(* back and compares the two.  The MQTT agent task, which has the higher   *)
(* priority, writes an incoming message into the task's static buffer and  *)
(* notifies the task; the notification value counts.  The task clears the  *)
(* buffer before it publishes, byte by byte: an incoming message may come  *)
(* in between.                                                             *)
(*                                                                         *)
(* The MQTT agent and the broker are outside the repository: a command is  *)
(* processed at any time, and a message with QoS 1 comes back at any time  *)
(* and perhaps more than once.                                             *)
(***************************************************************************)
EXTENDS Integers

CONSTANTS
    MaxMessages,        \* bounds of the model: messages published,
    MaxDuplicates       \* and messages that come back more than once

ASSUME LargeMessageAssumption ==
    MaxMessages \in Nat /\ MaxDuplicates \in Nat

Halves == {"a", "b"}    \* the payload has a half of 'a's and a half of 'b's

VARIABLES
    pc,                 \* where prvLargeMessageSubscribePublishTask() is
    received,           \* the halves of pcReceivedPublishPayload that hold the payload
    notified,           \* the task's notification value
    subscribing,        \* the subscribe command is with the MQTT agent
    xReturnStatus,      \* the context of that command: it succeeded
    listed,             \* the callback is in the subscription list
    queued,             \* publish commands with the MQTT agent
    flying,             \* messages on their way back
    published, duplicates,          \* counters
    ulLargeMessagePasses, ulLargeMessageFailures,
    ulNotificationValue,
    fresh,              \* history: a message was copied since the task began to clear the buffer
    copies,             \* history: messages copied into the buffer
    stray               \* history: a message came back outside the wait for it, or twice

agentVars == <<subscribing, xReturnStatus, listed>>
brokerVars == <<queued, flying, duplicates>>
resultVars == <<ulLargeMessagePasses, ulLargeMessageFailures, ulNotificationValue>>
historyVars == <<fresh, copies, stray>>
vars == <<pc, received, notified, agentVars, brokerVars, published, resultVars, historyVars>>

\* prvCreateMQTTPayload(): every half of the message has its letter.
prvCreateMQTTPayload == Halves

\* The task is created; the result of xTaskCreate() is not looked at, and
\* without the task there is no demo.
vStartLargeMessageSubscribePublishTask == pc = "subscribe"

Init ==
    /\ vStartLargeMessageSubscribePublishTask
    /\ received = {}
    /\ notified = 0
    /\ subscribing = FALSE
    /\ xReturnStatus = FALSE
    /\ listed = FALSE
    /\ queued = 0
    /\ flying = 0
    /\ published = 0
    /\ duplicates = 0
    /\ ulLargeMessagePasses = 0
    /\ ulLargeMessageFailures = 0
    /\ ulNotificationValue = 0
    /\ fresh = FALSE
    /\ copies = 0
    /\ stray = FALSE

----------------------------------------------------------------------------
(* Subscribing.                                                            *)

\* MQTTAgent_Subscribe() is retried until the command is in the queue.
PostSubscribe ==
    /\ pc = "subscribe"
    /\ subscribing' = TRUE
    /\ xReturnStatus' = FALSE
    /\ pc' = "subscribing"
    /\ UNCHANGED <<received, notified, listed, brokerVars, published, resultVars, historyVars>>

\* ulTaskNotifyTake() without clearing: the value before it, less one left.
prvWaitForCommandAcknowledgment == notified' = IF notified > 0 THEN notified - 1 ELSE 0

\* A failed SUBSCRIBE is logged and nothing else.
prvSubscribeToTopic ==
    /\ pc = "subscribing"
    /\ prvWaitForCommandAcknowledgment
    /\ pc' = IF notified = 0 THEN "asserted" ELSE "clear"
    /\ UNCHANGED <<received, agentVars, brokerVars, published, resultVars, historyVars>>

\* In the agent task: the callback may not fit in the subscription list.
prvSubscribeCommandCallback ==
    /\ subscribing /\ pc # "asserted"
    /\ subscribing' = FALSE
    /\ \E success \in BOOLEAN, added \in BOOLEAN :
          /\ xReturnStatus' = success
          /\ listed' = (success /\ added)
    /\ notified' = notified + 1
    /\ UNCHANGED <<pc, received, brokerVars, published, resultVars, historyVars>>

----------------------------------------------------------------------------
(* The loop of the task.                                                   *)

\* A bug to check the properties with: the buffer is not cleared.
KeepBuffer ==
    /\ pc = "clear" /\ published < MaxMessages
    /\ fresh' = FALSE
    /\ pc' = "publish"
    /\ UNCHANGED <<received, notified, agentVars, brokerVars, published, resultVars, copies, stray>>

\* memset() clears the buffer, one half after the other.
ClearBuffer ==
    /\ pc = "clear" /\ published < MaxMessages
    /\ received' = received \ {"a"}
    /\ fresh' = FALSE
    /\ pc' = "clearedHalf"
    /\ UNCHANGED <<notified, agentVars, brokerVars, published, resultVars, copies, stray>>

ClearRest ==
    /\ pc = "clearedHalf"
    /\ received' = received \ {"b"}
    /\ pc' = "publish"
    /\ UNCHANGED <<notified, agentVars, brokerVars, published, resultVars, historyVars>>

\* An assertion fails when the agent has no room for the command.
Publish ==
    /\ pc = "publish"
    /\ published' = published + 1
    /\ \/ queued' = queued + 1 /\ pc' = "wait"
       \/ pc' = "asserted" /\ UNCHANGED queued
    /\ UNCHANGED <<received, notified, agentVars, flying, duplicates, resultVars, historyVars>>

\* The wait ends with the notifications so far, or with none after the
\* timeout; one of them is taken.
Wait ==
    /\ pc = "wait"
    /\ ulNotificationValue' = notified
    /\ notified' = IF notified > 0 THEN notified - 1 ELSE 0
    /\ stray' = (stray \/ (notified = 0 /\ queued + flying > 0))
    /\ pc' = "compare"
    /\ UNCHANGED <<received, agentVars, brokerVars, published, ulLargeMessagePasses, ulLargeMessageFailures, fresh, copies>>

\* Exactly one notification, and a buffer that holds the message, is a pass.
\* A buffer that does not is no failure: it is logged only.
Compare ==
    /\ pc = "compare"
    /\ IF ulNotificationValue # 1
       THEN ulLargeMessageFailures' = ulLargeMessageFailures + 1 /\ UNCHANGED ulLargeMessagePasses
       ELSE /\ ulLargeMessagePasses' = ulLargeMessagePasses + (IF received = prvCreateMQTTPayload THEN 1 ELSE 0)
            /\ UNCHANGED ulLargeMessageFailures
    /\ pc' = "sleep"
    /\ UNCHANGED <<received, notified, agentVars, brokerVars, published, ulNotificationValue, historyVars>>

Sleep ==
    /\ pc = "sleep"
    /\ pc' = "clear"
    /\ UNCHANGED <<received, notified, agentVars, brokerVars, published, resultVars, historyVars>>

----------------------------------------------------------------------------
(* The MQTT agent task and the broker.                                     *)

ProcessPublish ==
    /\ queued > 0 /\ pc # "asserted"
    /\ queued' = queued - 1
    /\ flying' = IF xReturnStatus THEN flying + 1 ELSE flying
    /\ UNCHANGED <<pc, received, notified, agentVars, duplicates, published, resultVars, historyVars>>

Duplicate ==
    /\ flying > 0 /\ duplicates < MaxDuplicates
    /\ flying' = flying + 1
    /\ duplicates' = duplicates + 1
    /\ UNCHANGED <<pc, received, notified, agentVars, queued, published, resultVars, historyVars>>

\* A bug to check the properties with: the end of the payload is not copied.
CopyFirstHalf == received' = received \cup {"a"}

\* The callback copies the payload into the buffer of the context.
CopyPayload == received' = prvCreateMQTTPayload

\* Without a callback in the list the message is dropped.
prvIncomingPublishCallback ==
    /\ flying > 0 /\ pc # "asserted"
    /\ flying' = flying - 1
    /\ IF listed
       THEN /\ CopyPayload
            /\ notified' = notified + 1
            /\ fresh' = TRUE
            /\ copies' = copies + 1
            /\ stray' = (stray \/ pc # "wait" \/ copies >= published)
       ELSE UNCHANGED <<received, notified, historyVars>>
    /\ UNCHANGED <<pc, agentVars, queued, duplicates, published, resultVars>>

----------------------------------------------------------------------------

Next ==
    \/ PostSubscribe \/ prvSubscribeToTopic \/ prvSubscribeCommandCallback
    \/ ClearBuffer \/ ClearRest \/ Publish \/ Wait \/ Compare \/ Sleep
    \/ ProcessPublish \/ Duplicate \/ prvIncomingPublishCallback

Spec == Init /\ [][Next]_vars

----------------------------------------------------------------------------

\* Every variable has its type, and no notification is without a message
\* that was copied or the answer to the SUBSCRIBE.
TypeOK ==
    /\ pc \in {"subscribe", "subscribing", "asserted", "clear", "clearedHalf", "publish", "wait", "compare", "sleep"}
    /\ received \subseteq Halves
    /\ {subscribing, xReturnStatus, listed, fresh, stray} \subseteq BOOLEAN
    /\ {queued, flying, published, duplicates, copies, notified, ulNotificationValue,
        ulLargeMessagePasses, ulLargeMessageFailures} \subseteq 0 .. MaxMessages + MaxDuplicates + 1

\* A notification for an earlier message may end the wait, but a pass is
\* counted only when a message was copied since the buffer was cleared for
\* this one (memset() and ulTaskNotifyTake() in the loop).
PassIsFresh == [][ulLargeMessagePasses' > ulLargeMessagePasses => fresh]_vars

\* While every message came back in time and once, a message that came back
\* is compared and passes, and only a message that did not come back fails.
InTimePasses == pc = "sleep" /\ ~stray => ulLargeMessagePasses = copies
=============================================================================
