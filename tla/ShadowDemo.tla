----------------------------- MODULE ShadowDemo -----------------------------
(***************************************************************************)
(* The two tasks of the shadow demo.  shadow_device_task.c reports the     *)
(* power state of the device whenever it differs from the last report that *)
(* was accepted; shadow_update_task.c asks for the other state now and     *)
(* then.  Both publish a document with a client token, wait for the answer *)
(* with that token and give up after a timeout.  Answers and delta         *)
(* messages reach callbacks that run in the MQTT agent task, which has a   *)
(* higher priority than the two tasks: a callback is one step, and may     *)
(* come between any two steps of a task.                                   *)
(*                                                                         *)
(* A publish is sent from the task's only document buffer, with what the   *)
(* buffer holds when the agent task sends it: at once, after a connection  *)
(* loss, and again when a session is resumed before the PUBACK.  The       *)
(* shadow service handles publishes in the order they are sent; what it    *)
(* sends back may come late, out of order and, with QoS 1, repeatedly.     *)
(***************************************************************************)
EXTENDS Integers, Sequences, Bags

CONSTANTS
    TokenModulus,   \* 1000000
    StartTick,      \* the tick count when the demo starts
    MaxTicks,       \* bound of the model: ticks at which a token is made
    MaxResends,     \* bound of the model: publishes sent again on a resumed session
    MaxDuplicates,  \* bound of the model: messages delivered once more
    MaxUnderWay     \* bound of the model: answers and deltas from the broker under way

ASSUME TickAssumption == TokenModulus \in Nat \ {0} /\ StartTick \in Nat /\ MaxTicks \in Nat
ASSUME BoundAssumption == MaxResends \in Nat /\ MaxDuplicates \in Nat /\ MaxUnderWay \in Nat

None == 3
INVALID_POWERON_STATE == 2
PowerStates == {0, 1}

Tasks == {"device", "update"}
\* The part of the shadow a task's document sets.
Section == [device |-> "reported", update |-> "desired"]
\* The topics of a task's SUBSCRIBE, in the order their callbacks are added.
Topics == [device |-> <<"delta", "accepted", "rejected">>, update |-> <<"accepted", "rejected">>]
AllTopics(t) == {Topics[t][i] : i \in DOMAIN Topics[t]}

VARIABLES
    pc,
    now,            \* ticks since the start, bounded by MaxTicks
    lastTick,       \* the tick of the task's last token
    ulClientToken,
    document,       \* pcUpdateDocument and pcDesiredDocument
    notified,       \* notification values of the tasks
    routes,         \* topics the task's callbacks are in the subscription list for
    ulCurrentPowerOnState, ulReportedPowerOnState, ulCurrentVersion,
    desiredState,
    queued,         \* publishes of each task with the agent, to be sent or sent again
    resends, duplicates,
    shadow,         \* the service's document
    downlink,       \* messages from the broker
    stopped         \* an assertion has failed

taskVars == <<pc, now, lastTick, document, desiredState>>
powerVars == <<ulCurrentPowerOnState, ulCurrentVersion>>
cloudVars == <<resends, duplicates, shadow, downlink>>
vars == <<taskVars, ulClientToken, notified, routes, powerVars, ulReportedPowerOnState,
          queued, cloudVars, stopped>>

\* A buffer that is empty, or only partly written: no valid document.
Blank == [section |-> "none", value |-> None, token |-> 0]
Documents == {Blank} \cup
    [section : {"reported", "desired"}, value : PowerStates, token : 0 .. TokenModulus - 1]

Init ==
    /\ pc = [t \in Tasks |-> "subscribe"]
    /\ now = 0
    /\ lastTick = [t \in Tasks |-> 0]
    /\ ulClientToken = [t \in Tasks |-> 0]
    /\ document = [t \in Tasks |-> Blank]
    /\ notified = [t \in Tasks |-> 0]
    /\ routes = [t \in Tasks |-> {}]
    /\ ulCurrentPowerOnState = 0
    /\ ulReportedPowerOnState = INVALID_POWERON_STATE
    /\ ulCurrentVersion = 0
    /\ desiredState = 0
    /\ queued = [t \in Tasks |-> 0]
    /\ resends = 0
    /\ duplicates = 0
    /\ shadow = [reported |-> None, desired |-> None, version |-> 0]
    /\ downlink = EmptyBag
    /\ stopped = FALSE

-----------------------------------------------------------------------------
(* prvSubscribeToShadowUpdateTopics().  Posting is repeated until it       *)
(* succeeds.                                                               *)

PostSubscribe(t) ==
    /\ ~stopped
    /\ pc[t] = "subscribe"
    /\ pc' = [pc EXCEPT ![t] = "subscribing"]
    /\ UNCHANGED <<now, lastTick, document, desiredState, ulClientToken, notified, routes, powerVars,
                   ulReportedPowerOnState, queued, cloudVars, stopped>>

\* None of the callbacks after a failed SUBSCRIBE, all of them, or those
\* before the one the list had no room for.
AddCallbacks(t) ==
    \E n \in 0 .. Len(Topics[t]) :
        routes' = [routes EXCEPT ![t] = {Topics[t][i] : i \in 1 .. n}]

prvSubscribeCommandCallback(t) ==
    /\ ~stopped
    /\ pc[t] = "subscribing"
    /\ AddCallbacks(t)
    /\ notified' = [notified EXCEPT ![t] = @ + 1]
    /\ pc' = [pc EXCEPT ![t] = "subscribed"]
    /\ UNCHANGED <<now, lastTick, document, desiredState, ulClientToken, powerVars,
                   ulReportedPowerOnState, queued, cloudVars, stopped>>

\* The task's function returns when a callback could not be added.
Subscribed(t) ==
    /\ ~stopped
    /\ pc[t] = "subscribed"
    /\ notified' = [notified EXCEPT ![t] = @ - 1]
    /\ pc' = [pc EXCEPT ![t] = IF routes[t] = AllTopics(t)
                               THEN "idle" ELSE "returned"]
    /\ UNCHANGED <<now, lastTick, document, desiredState, ulClientToken, routes, powerVars,
                   ulReportedPowerOnState, queued, cloudVars, stopped>>

\* configASSERT( ulNotificationValue != 0UL )
SubscribeTimesOut(t) ==
    /\ ~stopped
    /\ pc[t] = "subscribing"
    /\ stopped' = TRUE
    /\ UNCHANGED <<taskVars, ulClientToken, notified, routes, powerVars, ulReportedPowerOnState,
                   queued, cloudVars>>

-----------------------------------------------------------------------------
(* The loops of vShadowDeviceTask() and vShadowUpdateTask().  The device   *)
(* task only pings when the last report is the current state.              *)

HasNews(t) == t = "device" => ulCurrentPowerOnState # ulReportedPowerOnState

\* A new token, and the buffer is cleared.  The tasks sleep between two
\* rounds, so a task's tokens come from different ticks.
StartRound(t) ==
    /\ ~stopped
    /\ pc[t] = "idle"
    /\ HasNews(t)
    /\ \E tick \in {now, now + 1} :
        /\ lastTick[t] < tick
        /\ tick <= MaxTicks
        /\ now' = tick
        /\ lastTick' = [lastTick EXCEPT ![t] = tick]
        /\ ulClientToken' = [ulClientToken EXCEPT ![t] = (StartTick + tick) % TokenModulus]
    /\ document' = [document EXCEPT ![t] = Blank]
    /\ pc' = [pc EXCEPT ![t] = "format"]
    /\ UNCHANGED <<desiredState, notified, routes, powerVars, ulReportedPowerOnState,
                   queued, cloudVars, stopped>>

FormatDocument(t) ==
    /\ ~stopped
    /\ pc[t] = "format"
    /\ document' = [document EXCEPT ![t] =
            [section |-> Section[t],
             value |-> IF t = "device" THEN ulCurrentPowerOnState ELSE desiredState,
             token |-> ulClientToken[t]]]
    /\ pc' = [pc EXCEPT ![t] = "post"]
    /\ UNCHANGED <<now, lastTick, desiredState, ulClientToken, notified, routes, powerVars,
                   ulReportedPowerOnState, queued, cloudVars, stopped>>

\* MQTTAgent_Publish() without a callback; it fails when no command
\* structure comes free in time.
PostDocument(t) ==
    /\ ~stopped
    /\ pc[t] = "post"
    /\ \/ /\ queued' = [queued EXCEPT ![t] = @ + 1]
          /\ pc' = [pc EXCEPT ![t] = "wait"]
       \/ /\ pc' = [pc EXCEPT ![t] = "done"]
          /\ UNCHANGED queued
    /\ UNCHANGED <<now, lastTick, document, desiredState, ulClientToken, notified, routes,
                   powerVars, ulReportedPowerOnState, cloudVars, stopped>>

Woken(t) ==
    /\ ~stopped
    /\ pc[t] = "wait"
    /\ notified[t] > 0
    /\ notified' = [notified EXCEPT ![t] = @ - 1]
    /\ pc' = [pc EXCEPT ![t] = "done"]
    /\ UNCHANGED <<now, lastTick, document, desiredState, ulClientToken, routes, powerVars,
                   ulReportedPowerOnState, queued, cloudVars, stopped>>

WaitTimesOut(t) ==
    /\ ~stopped
    /\ pc[t] = "wait"
    /\ notified[t] = 0
    /\ pc' = [pc EXCEPT ![t] = IF t = "device" THEN "timedOut" ELSE "done"]
    /\ UNCHANGED <<now, lastTick, document, desiredState, ulClientToken, notified, routes,
                   powerVars, ulReportedPowerOnState, queued, cloudVars, stopped>>

\* Only the device task: the report has to be sent again.
InvalidateReport ==
    /\ ~stopped
    /\ pc["device"] = "timedOut"
    /\ ulReportedPowerOnState' = INVALID_POWERON_STATE
    /\ pc' = [pc EXCEPT !["device"] = "done"]
    /\ UNCHANGED <<now, lastTick, document, desiredState, ulClientToken, notified, routes,
                   powerVars, queued, cloudVars, stopped>>

EndRound(t) ==
    /\ ~stopped
    /\ pc[t] = "done"
    /\ ulClientToken' = [ulClientToken EXCEPT ![t] = 0]
    /\ desiredState' = IF t = "update" THEN 1 - desiredState ELSE desiredState
    /\ pc' = [pc EXCEPT ![t] = "idle"]
    /\ UNCHANGED <<now, lastTick, document, notified, routes, powerVars, ulReportedPowerOnState,
                   queued, cloudVars, stopped>>

-----------------------------------------------------------------------------
(* The MQTT agent task and the shadow service.                             *)

Accepted(d) == [topic |-> "accepted", token |-> d.token, section |-> d.section, value |-> d.value]
Rejected(d) == [topic |-> "rejected", token |-> d.token]

\* The service sends a delta with every update that leaves a difference.
Deltas(s) ==
    {m \in {[topic |-> "delta", version |-> s.version, value |-> s.desired]} :
        s.desired \notin {None, s.reported}}

\* The service refuses what is no document, without a token: both callbacks
\* ignore that answer.
ShadowUpdate(d) ==
    \/ /\ d # Blank
       /\ shadow' = [shadow EXCEPT ![d.section] = d.value, !.version = @ + 1]
       /\ downlink' = downlink (+) SetToBag({Accepted(d)} \cup Deltas(shadow'))
    \/ /\ d # Blank
       /\ downlink' = downlink (+) SetToBag({Rejected(d)})
       /\ UNCHANGED shadow
    \/ /\ d = Blank
       /\ UNCHANGED <<shadow, downlink>>

\* A publish that is not acknowledged is sent again when its session is resumed.
Send(t) ==
    /\ ~stopped
    /\ queued[t] > 0
    /\ \/ /\ queued' = [queued EXCEPT ![t] = @ - 1]
          /\ UNCHANGED resends
       \/ /\ resends < MaxResends
          /\ resends' = resends + 1
          /\ UNCHANGED queued
    /\ ShadowUpdate(document[t])
    /\ BagCardinality(downlink') <= MaxUnderWay
    /\ UNCHANGED <<taskVars, ulClientToken, notified, routes, powerVars, ulReportedPowerOnState,
                   duplicates, stopped>>

\* m is taken from the link, or comes again later.
Receive(m) ==
    /\ ~stopped
    /\ BagIn(m, downlink)
    /\ \/ /\ downlink' = downlink (-) SetToBag({m})
          /\ UNCHANGED duplicates
       \/ /\ duplicates < MaxDuplicates
          /\ duplicates' = duplicates + 1
          /\ UNCHANGED downlink

-----------------------------------------------------------------------------
(* The callbacks of incoming publishes.                                    *)

\* Mutant of prvIncomingPublishUpdateDeltaCallback: the version is not looked at.
DeltaCallbackAnyVersion(m) ==
    /\ Receive(m)
    /\ m.topic = "delta"
    /\ IF "delta" \in routes["device"]
       THEN /\ ulCurrentVersion' = m.version
            /\ ulCurrentPowerOnState' = m.value
       ELSE UNCHANGED powerVars
    /\ UNCHANGED <<taskVars, ulClientToken, notified, routes, ulReportedPowerOnState,
                   queued, resends, shadow, stopped>>

prvIncomingPublishUpdateDeltaCallback(m) ==
    /\ Receive(m)
    /\ m.topic = "delta"
    /\ IF "delta" \in routes["device"] /\ m.version > ulCurrentVersion
       THEN /\ ulCurrentVersion' = m.version
            /\ ulCurrentPowerOnState' = m.value
       ELSE UNCHANGED powerVars
    /\ UNCHANGED <<taskVars, ulClientToken, notified, routes, ulReportedPowerOnState,
                   queued, resends, shadow, stopped>>

\* Mutant of Matches: any answer will do while the task waits for one.
MatchesAny(t, m) == m.topic \in routes[t] /\ ulClientToken[t] # 0

\* Every callback that has its topic in the list sees every answer.
Matches(t, m) == m.topic \in routes[t] /\ m.token = ulClientToken[t]

\* The tasks the answer is for are woken; after a timeout none is.
Woke(m) == [t \in Tasks |-> IF Matches(t, m) THEN notified[t] + 1 ELSE notified[t]]

prvIncomingPublishUpdateAcceptedCallback(m) ==
    /\ Receive(m)
    /\ m.topic = "accepted"
    /\ ulReportedPowerOnState' =
            IF Matches("device", m) /\ m.section = "reported"
            THEN m.value ELSE ulReportedPowerOnState
    /\ notified' = Woke(m)
    /\ UNCHANGED <<taskVars, ulClientToken, routes, powerVars,
                   queued, resends, shadow, stopped>>

prvIncomingPublishUpdateRejectedCallback(m) ==
    /\ Receive(m)
    /\ m.topic = "rejected"
    /\ notified' = Woke(m)
    /\ UNCHANGED <<taskVars, ulClientToken, routes, powerVars, ulReportedPowerOnState,
                   queued, resends, shadow, stopped>>

SubscribeStep(t) ==
    \/ PostSubscribe(t) \/ prvSubscribeCommandCallback(t)
    \/ Subscribed(t) \/ SubscribeTimesOut(t)

Round(t) ==
    \/ StartRound(t) \/ FormatDocument(t) \/ PostDocument(t)
    \/ Woken(t) \/ WaitTimesOut(t) \/ EndRound(t)

vShadowDeviceTask == SubscribeStep("device") \/ Round("device") \/ InvalidateReport

vShadowUpdateTask == SubscribeStep("update") \/ Round("update")

IncomingPublish(m) ==
    \/ prvIncomingPublishUpdateDeltaCallback(m)
    \/ prvIncomingPublishUpdateAcceptedCallback(m)
    \/ prvIncomingPublishUpdateRejectedCallback(m)

Next ==
    \/ vShadowDeviceTask \/ vShadowUpdateTask
    \/ \E t \in Tasks : Send(t)
    \/ \E m \in BagToSet(downlink) : IncomingPublish(m)

Spec == Init /\ [][Next]_vars

-----------------------------------------------------------------------------

\* The types of the variables: the power states are 0 and 1, the device has
\* seen no version the service has not made, and the count of a task's
\* notifications, which ulTaskNotifyTake() decrements, never wraps below 0.
TypeOK ==
    /\ pc \in [Tasks -> {"subscribe", "subscribing", "subscribed", "returned", "idle", "format", "post",
                         "wait", "timedOut", "done"}]
    /\ now \in 0 .. MaxTicks
    /\ lastTick \in [Tasks -> 0 .. now]
    /\ ulClientToken \in [Tasks -> 0 .. TokenModulus - 1]
    /\ document \in [Tasks -> Documents]
    /\ notified \in [Tasks -> Nat]
    /\ routes \in [Tasks -> SUBSET {"delta", "accepted", "rejected"}]
    /\ \A t \in Tasks : routes[t] \subseteq AllTopics(t)
    /\ ulCurrentPowerOnState \in PowerStates
    /\ ulReportedPowerOnState \in PowerStates \cup {INVALID_POWERON_STATE}
    /\ ulCurrentVersion \in 0 .. shadow.version
    /\ desiredState \in PowerStates
    /\ queued \in [Tasks -> Nat]
    /\ resends \in 0 .. MaxResends
    /\ duplicates \in 0 .. MaxDuplicates
    /\ shadow \in [reported : PowerStates \cup {None}, desired : PowerStates \cup {None},
                   version : Nat]
    /\ IsABag(downlink)
    /\ stopped \in BOOLEAN

\* The delta callback keeps the newest version it has seen, so that late,
\* repeated and reordered messages do no harm: when no delta is under way and
\* the device has reported before, a difference in the shadow is only one the
\* device has yet to report.
SettledDelta ==
    /\ shadow.reported # None
    /\ shadow.desired \notin {None, shadow.reported}
    /\ \A m \in BagToSet(downlink) : m.topic # "delta"
    => ulCurrentPowerOnState = shadow.desired

\* The token check of the accepted callback: a state is recorded as reported
\* only when it is what the shadow holds at that moment, although answers may
\* come late and twice, publishes are sent again, and the document of a round
\* goes out in place of an older one that is still queued.
AcceptedIsHeld ==
    [][ulReportedPowerOnState' \in PowerStates \ {ulReportedPowerOnState}
        => ulReportedPowerOnState' = shadow.reported]_vars

\* What the comment on the timeout in vShadowDeviceTask() is after: the state
\* may be out of sync, so the report is made to be sent again.  Between two
\* rounds, a device that sees no change since its last report agrees with the
\* shadow.  The code does not keep it: see MCShadowDemoInSync.cfg.
InSync ==
    pc["device"] = "idle" /\ ulCurrentPowerOnState = ulReportedPowerOnState
    => shadow.reported = ulReportedPowerOnState
=============================================================================
