---------------------------- MODULE DefenderDemo ----------------------------
(***************************************************************************)
(* The task of defender_demo.c, with metrics_collector.c, and what the     *)
(* MQTT agent task does for it.  The task subscribes to the two topics of  *)
(* answers; then, every few seconds, it collects metrics, writes a report  *)
(* about them into a static buffer, has the agent publish the buffer, and  *)
(* waits for a notification or a timeout.  The callbacks for answers run   *)
(* in the agent task, which has the higher priority, so each is one step   *)
(* for the demo task; they write the status of the report and notify.      *)
(*                                                                         *)
(* The MQTT agent, the broker and the Device Defender service are outside  *)
(* the repository: a command is processed at any time after it was posted, *)
(* and a report that arrived is answered any number of times, at any time. *)
(***************************************************************************)
EXTENDS ReportBuilder, FiniteSets

CONSTANTS
    BufferLength,       \* defenderexampleDEVICE_METRICS_REPORT_BUFFER_SIZE
    ArraySize,          \* the length of each of the arrays for metrics
    Observations,       \* what the TCP stack and the kernel may list
    MaxReports,         \* bounds of the model: reports,
    MaxNotifications    \* and notifications not taken yet

Answers == {"accepted", "rejected"}
Torn == 0               \* the buffer holds no whole report
Ids == 1 .. MaxReports

ASSUME DefenderAssumption ==
    /\ BufferLength \in Nat /\ ArraySize \in Nat
    /\ MaxReports \in Nat /\ MaxNotifications \in Nat \ {0}
    /\ \A o \in Observations : \A l \in {o.tcp, o.udp, o.connections, o.tasks} : l \in Seq(Nat \ {0})

VARIABLES
    pc,             \* where prvDefenderDemoTask() is
    xStatus,        \* its local variable
    ulReportId,
    xReportStatus,
    xDeviceMetrics,
    ulReportLength,
    buffer,         \* pcDeviceMetricsJsonReport: the id of the report in it, or Torn
    notified,       \* the task's notification value
    subscribing,    \* the subscribe command is with the MQTT agent
    xReturnStatus,  \* the context of that command: it succeeded
    listed,         \* the answers that have a callback in the subscription list
    queued,         \* publish commands with the MQTT agent: they are all the same
    sent,           \* ids of reports the service has received
    answered,       \* history: <<id, answer>> given to a callback
    stray,          \* history: a notification that was not the first answer to the report waited for
    judged          \* history: what the last wait said

taskVars == <<xStatus, ulReportId, xDeviceMetrics, ulReportLength>>
agentVars == <<subscribing, xReturnStatus, listed>>
serviceVars == <<sent, answered, stray>>
vars == <<pc, taskVars, xReportStatus, buffer, notified, agentVars, queued, serviceVars, judged>>

NoMetrics == [tcp |-> <<>>, udp |-> <<>>, connections |-> <<>>, tasks |-> <<>>]

\* The task is created; the result of xTaskCreate() is not looked at, and
\* without the task there is no demo.
vStartDefenderDemo == pc = "subscribe"

Init ==
    /\ vStartDefenderDemo
    /\ xStatus = FALSE
    /\ ulReportId = 0
    /\ xReportStatus = "notReceived"
    /\ xDeviceMetrics = NoMetrics
    /\ ulReportLength = 0
    /\ buffer = Torn
    /\ notified = 0
    /\ subscribing = FALSE
    /\ xReturnStatus = FALSE
    /\ listed = {}
    /\ queued = 0
    /\ sent = {}
    /\ answered = {}
    /\ stray = FALSE
    /\ judged = "nothing"

----------------------------------------------------------------------------
(* Subscribing.                                                            *)

\* MQTTAgent_Subscribe() is retried until the command is in the queue.
PostSubscribe ==
    /\ pc = "subscribe"
    /\ subscribing' = TRUE
    /\ xReturnStatus' = FALSE
    /\ pc' = "subscribing"
    /\ UNCHANGED <<taskVars, xReportStatus, buffer, notified, listed, queued, serviceVars, judged>>

\* A notification, or an assertion after the timeout.  When the subscription
\* failed the task function returns.
prvSubscribeToDefenderTopics ==
    /\ pc = "subscribing"
    /\ \/ /\ notified > 0
          /\ notified' = notified - 1
          /\ pc' = IF xReturnStatus THEN "newReport" ELSE "ended"
       \/ /\ notified = 0
          /\ pc' = "asserted"
          /\ UNCHANGED notified
    /\ UNCHANGED <<taskVars, xReportStatus, buffer, agentVars, queued, serviceVars, judged>>

\* The agent has the answer to the SUBSCRIBE, or has given up.  Each of the
\* two callbacks may find the subscription list full, which is only logged.
prvSubscribeCommandCallback ==
    /\ subscribing /\ pc # "asserted"
    /\ subscribing' = FALSE
    /\ \E success \in BOOLEAN, added \in SUBSET Answers :
          /\ xReturnStatus' = success
          /\ listed' = IF success THEN added ELSE {}
    /\ notified' = notified + 1
    /\ UNCHANGED <<pc, taskVars, xReportStatus, buffer, queued, serviceVars, judged>>

----------------------------------------------------------------------------
(* Collecting metrics.  Each function reads the statistics of the TCP      *)
(* stack, which may fail; the demo gives each an array to fill.            *)

Collected(ok, list) == [ok |-> ok, list |-> IF ok THEN list ELSE <<>>]

eGetNetworkStats(ok) == ok

\* A bug to check the properties with: the count of the TCP stack is
\* trusted.
AllPorts(ok, ports) == Collected(ok, ports)

\* A list that is longer than the array is cut.
Cut(list) == SubSeq(list, 1, IF ArraySize < Len(list) THEN ArraySize ELSE Len(list))

eGetOpenTcpPorts(ok, ports) == Collected(ok, Cut(ports))
eGetOpenUdpPorts(ok, ports) == Collected(ok, Cut(ports))
eGetEstablishedConnections(ok, connections) == Collected(ok, Cut(connections))

\* uxTaskGetSystemState() lists all tasks or none.
TaskNumbers(tasks) == Collected(Len(tasks) \in 1 .. ArraySize, tasks)

\* A failure ends the collection.  The arrays it has already filled are read
\* by nobody until a collection succeeds.
prvCollectDeviceMetrics ==
    /\ pc = "collect"
    /\ \E o \in Observations, failing \in 0 .. 4 :
          LET tcp == eGetOpenTcpPorts(failing # 2, o.tcp)
              udp == eGetOpenUdpPorts(failing # 3, o.udp)
              connections == eGetEstablishedConnections(failing # 4, o.connections)
              tasks == TaskNumbers(o.tasks)
          IN  IF eGetNetworkStats(failing # 1) /\ tcp.ok /\ udp.ok /\ connections.ok /\ tasks.ok
              THEN /\ xDeviceMetrics' = [tcp |-> tcp.list, udp |-> udp.list,
                                         connections |-> connections.list, tasks |-> tasks.list]
                   /\ pc' = "generate"
                   /\ UNCHANGED xStatus
              ELSE /\ xStatus' = FALSE
                   /\ pc' = "wait"
                   /\ UNCHANGED xDeviceMetrics
    /\ UNCHANGED <<ulReportId, ulReportLength, xReportStatus, buffer, notified, agentVars, queued, serviceVars, judged>>

----------------------------------------------------------------------------
(* The loop of prvDefenderDemoTask().                                      *)

\* The tick count is a new number: the task slept since it last read it.
NewReport ==
    /\ pc = "newReport" /\ ulReportId < MaxReports
    /\ xStatus' = TRUE
    /\ ulReportId' = ulReportId + 1
    /\ pc' = "reset"
    /\ UNCHANGED <<xReportStatus, xDeviceMetrics, ulReportLength, buffer, notified, agentVars, queued, serviceVars, judged>>

\* A bug to check the properties with: the status of the last report stays.
NoReset ==
    /\ pc = "reset"
    /\ pc' = "collect"
    /\ UNCHANGED <<taskVars, xReportStatus, buffer, notified, agentVars, queued, serviceVars, judged>>

ResetReportStatus ==
    /\ pc = "reset"
    /\ xReportStatus' = "notReceived"
    /\ pc' = "collect"
    /\ UNCHANGED <<taskVars, buffer, notified, agentVars, queued, serviceVars, judged>>

\* The buffer is written piece by piece: until the end it holds no report.
StartReport ==
    /\ pc = "generate"
    /\ buffer' = Torn
    /\ pc' = "generating"
    /\ UNCHANGED <<taskVars, xReportStatus, notified, agentVars, queued, serviceVars, judged>>

\* A report that does not fit leaves its beginning in the buffer.
prvGenerateDeviceMetricsReport ==
    /\ pc = "generating"
    /\ LET report == eGenerateJsonReport(BufferLength, xDeviceMetrics)
       IN  IF report.ok
           THEN /\ buffer' = ulReportId
                /\ ulReportLength' = report.written
                /\ UNCHANGED xStatus
           ELSE /\ xStatus' = FALSE
                /\ UNCHANGED <<buffer, ulReportLength>>
    /\ pc' = "publish"
    /\ UNCHANGED <<ulReportId, xReportStatus, xDeviceMetrics, notified, agentVars, queued, serviceVars, judged>>

\* The command may find no room with the MQTT agent.
prvPublishDeviceMetricsReport ==
    /\ pc = "publish" /\ xStatus
    /\ \/ queued' = queued + 1 /\ UNCHANGED xStatus
       \/ xStatus' = FALSE /\ UNCHANGED queued
    /\ pc' = "wait"
    /\ UNCHANGED <<ulReportId, xDeviceMetrics, ulReportLength, xReportStatus, buffer, notified, agentVars, serviceVars, judged>>

PublishNothing ==
    /\ pc = "publish" /\ ~xStatus
    /\ pc' = "wait"
    /\ UNCHANGED <<taskVars, xReportStatus, buffer, notified, agentVars, queued, serviceVars, judged>>

Judged == IF xReportStatus = "notReceived" THEN "noAnswer" ELSE xReportStatus

\* A bug to check the properties with: the wait leaves the notification
\* value as it is.
PeekNotification ==
    /\ pc = "wait" /\ notified > 0
    /\ judged' = Judged
    /\ xStatus' = (xStatus /\ judged' # "noAnswer")
    /\ pc' = "sleep"
    /\ UNCHANGED <<ulReportId, xReportStatus, xDeviceMetrics, ulReportLength, buffer, notified, agentVars, queued, serviceVars>>

\* The task waits also when nothing was published.  One notification of any
\* number is taken.
TakeNotification ==
    /\ pc = "wait" /\ notified > 0
    /\ notified' = notified - 1
    /\ judged' = Judged
    /\ xStatus' = (xStatus /\ judged' # "noAnswer")
    /\ pc' = "sleep"
    /\ UNCHANGED <<ulReportId, xReportStatus, xDeviceMetrics, ulReportLength, buffer, agentVars, queued, serviceVars>>

WaitTimesOut ==
    /\ pc = "wait" /\ notified = 0
    /\ judged' = "timeout"
    /\ pc' = "sleep"
    /\ UNCHANGED <<taskVars, xReportStatus, buffer, notified, agentVars, queued, serviceVars>>

Sleep ==
    /\ pc = "sleep"
    /\ pc' = "newReport"
    /\ UNCHANGED <<taskVars, xReportStatus, buffer, notified, agentVars, queued, serviceVars, judged>>

----------------------------------------------------------------------------
(* The MQTT agent task and the service.                                    *)

\* The agent sends what the buffer holds when it gets to the command.
ProcessPublish ==
    /\ queued > 0
    /\ queued' = queued - 1
    /\ sent' = sent \cup {buffer}
    /\ UNCHANGED <<pc, taskVars, xReportStatus, buffer, notified, agentVars, answered, stray, judged>>

\* The answer has a report id, and it is the one of the current report.
prvValidateDefenderResponse(id) == id # Torn /\ id = ulReportId

\* The two callbacks differ in the status they store.
Incoming(answer, id, status) ==
    /\ answer \in listed
    /\ xReportStatus' = IF prvValidateDefenderResponse(id) THEN status ELSE xReportStatus
    /\ notified' = notified + 1
    /\ answered' = answered \cup {<<id, answer>>}
    /\ stray' = (stray \/ pc # "wait" \/ id # ulReportId \/ notified > 0)

prvIncomingAcceptedPublishCallback(id) == Incoming("accepted", id, "accepted")
prvIncomingRejectedPublishCallback(id) == Incoming("rejected", id, "rejected")

\* An answer may carry no report id, and may come again.
Answer ==
    /\ pc # "asserted" /\ notified < MaxNotifications
    /\ \E report \in sent : \E id \in {report, Torn} :
          \/ prvIncomingAcceptedPublishCallback(id)
          \/ prvIncomingRejectedPublishCallback(id)
    /\ UNCHANGED <<pc, taskVars, buffer, agentVars, queued, sent, judged>>

----------------------------------------------------------------------------

prvDefenderDemoTask ==
    \/ PostSubscribe \/ prvSubscribeToDefenderTopics
    \/ NewReport \/ ResetReportStatus \/ prvCollectDeviceMetrics
    \/ StartReport \/ prvGenerateDeviceMetricsReport
    \/ prvPublishDeviceMetricsReport \/ PublishNothing
    \/ TakeNotification \/ WaitTimesOut \/ Sleep

Next == prvDefenderDemoTask \/ prvSubscribeCommandCallback \/ ProcessPublish \/ Answer

Spec == Init /\ [][Next]_vars

----------------------------------------------------------------------------

\* Every variable has its type; a notification that is taken was given, and
\* no list of metrics is longer than its array in defender_demo.c.
TypeOK ==
    /\ pc \in {"subscribe", "subscribing", "asserted", "ended", "newReport", "reset", "collect",
               "generate", "generating", "publish", "wait", "sleep"}
    /\ {xStatus, subscribing, xReturnStatus, stray} \subseteq BOOLEAN
    /\ {ulReportId, buffer} \cup sent \subseteq Ids \cup {Torn}
    /\ xReportStatus \in Answers \cup {"notReceived"}
    /\ judged \in Answers \cup {"nothing", "noAnswer", "timeout"}
    /\ \A l \in {xDeviceMetrics.tcp, xDeviceMetrics.udp, xDeviceMetrics.connections, xDeviceMetrics.tasks} :
          l \in Seq(Nat) /\ Len(l) <= ArraySize
    /\ ulReportLength \in Nat
    /\ notified \in 0 .. MaxNotifications + 1
    /\ listed \subseteq Answers
    /\ queued \in 0 .. MaxReports
    /\ answered \subseteq (Ids \cup {Torn}) \X Answers

\* A report is held to be accepted or rejected only when the service said so
\* about that very report, not about an earlier one whose answer comes late
\* (prvValidateDefenderResponse and the reset at the head of the loop).
\* Between the two assignments at the head of the loop the status is still
\* the one of the last report.
AnswerIsReal ==
    pc # "reset" /\ xReportStatus # "notReceived" => <<ulReportId, xReportStatus>> \in answered

\* While every notification was the first answer to the report that was
\* waited for, a wait says exactly what the service answered: no answer is
\* lost to an earlier notification, and none is reported that did not come.
AnswerIsSeen ==
    pc = "sleep" /\ ~stray =>
        /\ judged \in Answers => <<ulReportId, judged>> \in answered
        /\ judged = "timeout" => \A answer \in Answers : <<ulReportId, answer>> \notin answered
        /\ judged # "noAnswer"

\* eGenerateJsonReport() makes a report whenever the text with its
\* terminating zero fits in the buffer, and only then, and the length it
\* returns is the length of the text.
ReportFits ==
    pc = "publish" =>
        /\ xStatus <=> ReportText(xDeviceMetrics) < BufferLength
        /\ xStatus => ulReportLength = ReportText(xDeviceMetrics)
=============================================================================
