------------------------ MODULE LargeMessage_proofs ------------------------
(***************************************************************************)
(* What a pass of the large message demo means, for any number of messages *)
(* and duplicates.                                                         *)
(***************************************************************************)
EXTENDS LargeMessage, TLAPS

\* Without a message since the buffer was last cleared, its first half is
\* clear: memset() begins there, and only the callback writes it.
ClearUnlessFresh ==
    /\ ulLargeMessagePasses \in Nat
    /\ fresh \/ "a" \notin received

\* The buffer is clear before the first message.
LEMMA ClearUnlessFreshInit == Init => ClearUnlessFresh
  BY DEF Init, ClearUnlessFresh

\* Every action keeps that: only the callback fills the first half.
LEMMA ClearUnlessFreshNext == ClearUnlessFresh /\ [Next]_vars => ClearUnlessFresh'
<1> SUFFICES ASSUME ClearUnlessFresh, [Next]_vars PROVE ClearUnlessFresh'
  OBVIOUS
<1> USE DEF ClearUnlessFresh
<1>1. CASE PostSubscribe
  BY <1>1 DEF PostSubscribe, resultVars, historyVars
<1>2. CASE prvSubscribeToTopic
  BY <1>2 DEF prvSubscribeToTopic, resultVars, historyVars
<1>3. CASE prvSubscribeCommandCallback
  BY <1>3 DEF prvSubscribeCommandCallback, resultVars, historyVars
<1>4. CASE ClearBuffer
  BY <1>4 DEF ClearBuffer, resultVars
<1>5. CASE ClearRest
  BY <1>5 DEF ClearRest, resultVars, historyVars
<1>6. CASE Publish
  BY <1>6 DEF Publish, resultVars, historyVars
<1>7. CASE Wait
  BY <1>7 DEF Wait
<1>8. CASE Compare
  BY <1>8 DEF Compare, historyVars
<1>9. CASE Sleep
  BY <1>9 DEF Sleep, resultVars, historyVars
<1>10. CASE ProcessPublish
  BY <1>10 DEF ProcessPublish, resultVars, historyVars
<1>11. CASE Duplicate
  BY <1>11 DEF Duplicate, resultVars, historyVars
<1>12. CASE prvIncomingPublishCallback
  <2>1. CASE listed
    BY <1>12, <2>1 DEF prvIncomingPublishCallback, resultVars
  <2>2. CASE ~listed
    BY <1>12, <2>2 DEF prvIncomingPublishCallback, resultVars, historyVars
  <2> QED
    BY <2>1, <2>2
<1>13. CASE UNCHANGED vars
  BY <1>13 DEF vars, resultVars, historyVars
<1> QED
  BY <1>1, <1>2, <1>3, <1>4, <1>5, <1>6, <1>7, <1>8, <1>9, <1>10, <1>11, <1>12, <1>13 DEF Next

\* Only the comparison counts a pass, and it finds the whole message in the
\* buffer only when one was copied since the buffer was cleared.
LEMMA OnlyComparePasses ==
    ASSUME ClearUnlessFresh, Next, ulLargeMessagePasses' > ulLargeMessagePasses
    PROVE  fresh
<1>1. CASE Compare
  <2>1. received = prvCreateMQTTPayload
    BY <1>1 DEF Compare, ClearUnlessFresh
  <2>2. "a" \in received
    BY <2>1 DEF prvCreateMQTTPayload, Halves
  <2> QED
    BY <2>2 DEF ClearUnlessFresh
<1>2. ASSUME ~Compare PROVE ulLargeMessagePasses' = ulLargeMessagePasses
  BY <1>2 DEF Next, PostSubscribe, prvSubscribeToTopic, prvSubscribeCommandCallback, ClearBuffer,
     ClearRest, Publish, Wait, Sleep, ProcessPublish, Duplicate, prvIncomingPublishCallback, resultVars
<1> QED
  BY <1>1, <1>2 DEF ClearUnlessFresh

\* A pass is counted only when a message was copied into the buffer since it
\* was cleared for the message just published: a notification left over from
\* an earlier echo never makes a pass.
THEOREM PassIsFreshTheorem == Spec => PassIsFresh
<1>1. Init => ClearUnlessFresh
  BY ClearUnlessFreshInit
<1>2. ClearUnlessFresh /\ [Next]_vars => ClearUnlessFresh'
  BY ClearUnlessFreshNext
<1>3. ClearUnlessFresh /\ [Next]_vars => [ulLargeMessagePasses' > ulLargeMessagePasses => fresh]_vars
  BY OnlyComparePasses
<1> QED
  BY <1>1, <1>2, <1>3, PTL DEF Spec, PassIsFresh

----------------------------------------------------------------------------
(* While every message came back in time and once: the counters.           *)

CounterTypes ==
    /\ notified \in Nat /\ queued \in Nat /\ flying \in Nat /\ published \in Nat
    /\ copies \in Nat /\ ulLargeMessagePasses \in Nat /\ ulNotificationValue \in Nat

Loop == {"clear", "clearedHalf", "publish", "wait", "compare", "sleep"}

\* Where the subscription is made, and that nothing is published before.
SubscribedFirst ==
    /\ pc \in Loop \cup {"subscribe", "subscribing", "asserted"}
    /\ subscribing => pc \in {"subscribing", "asserted"}
    /\ pc \in {"subscribe", "subscribing"} =>
          published = 0 /\ ulLargeMessagePasses = 0 /\ queued = 0 /\ flying = 0
    /\ pc = "subscribe" => notified = 0
    /\ pc = "subscribing" /\ subscribing => notified = 0
    /\ pc = "subscribing" /\ ~subscribing => notified = 1
    /\ pc = "subscribe" \/ subscribing => ~listed
    /\ listed => xReturnStatus

\* Without a callback in the list nothing is copied, and the only
\* notification is the one for the SUBSCRIBE.
NothingUnlisted ==
    ~listed => /\ copies = 0 /\ ulLargeMessagePasses = 0 /\ ulNotificationValue = 0
               /\ pc \in Loop => notified = 0

\* With it every message published is with the agent, on its way back or
\* was copied.
NoneIsLost == listed /\ pc # "asserted" => copies + queued + flying >= published

\* The message that is waited for is the only one not copied; it is passed
\* in the comparison.
OneAtATime ==
    listed /\ ~stray =>
        /\ pc \in {"subscribing", "clear", "clearedHalf", "publish", "sleep"} =>
              copies = published /\ ulLargeMessagePasses = published
        /\ pc \in {"clear", "clearedHalf", "publish", "sleep"} => notified = 0
        /\ pc \in {"wait", "compare"} => ulLargeMessagePasses + 1 = published
        /\ pc = "wait" => \/ copies + 1 = published /\ notified = 0
                          \/ copies = published /\ notified = 1 /\ received = Halves
        /\ pc = "compare" => /\ copies = published /\ notified = 0
                             /\ ulNotificationValue = 1 /\ received = Halves

MessageInv == CounterTypes /\ SubscribedFirst /\ NothingUnlisted /\ NoneIsLost /\ OneAtATime

\* The invariant holds before the SUBSCRIBE.
LEMMA MessageInvInit == Init => MessageInv
  BY DEF Init, vStartLargeMessageSubscribePublishTask, MessageInv, CounterTypes, SubscribedFirst,
     NothingUnlisted, NoneIsLost, OneAtATime

\* Each action keeps the invariant.  In each proof the first step says what the
\* action changes; then one step follows for each part of the invariant.
LEMMA PostSubscribeKeeps ==
    ASSUME MessageInv, PostSubscribe
    PROVE  MessageInv'
<1>1. /\ pc = "subscribe"
      /\ pc' = "subscribing"
      /\ subscribing' = TRUE
      /\ xReturnStatus' = FALSE
      /\ UNCHANGED <<received, notified, listed, queued, flying, duplicates, published,
                     ulLargeMessagePasses, ulNotificationValue, copies, stray>>
  BY DEF PostSubscribe, brokerVars, resultVars, historyVars
<1>2. CounterTypes'
  BY <1>1 DEF MessageInv, CounterTypes
<1>3. SubscribedFirst'
  BY <1>1 DEF MessageInv, SubscribedFirst
<1>4. NothingUnlisted'
  BY <1>1 DEF MessageInv, NothingUnlisted, SubscribedFirst
<1>5. NoneIsLost'
  BY <1>1 DEF MessageInv, NoneIsLost
<1>6. OneAtATime'
  BY <1>1 DEF MessageInv, OneAtATime, SubscribedFirst
<1> QED
  BY <1>2, <1>3, <1>4, <1>5, <1>6 DEF MessageInv

LEMMA prvSubscribeToTopicKeeps ==
    ASSUME MessageInv, prvSubscribeToTopic
    PROVE  MessageInv'
<1>1. /\ pc = "subscribing"
      /\ notified' = (IF notified > 0 THEN notified - 1 ELSE 0)
      /\ pc' = (IF notified = 0 THEN "asserted" ELSE "clear")
      /\ UNCHANGED <<received, subscribing, xReturnStatus, listed, queued, flying, duplicates,
                     published, ulLargeMessagePasses, ulNotificationValue, copies, stray>>
  BY DEF prvSubscribeToTopic, agentVars, brokerVars, resultVars, historyVars,
     prvWaitForCommandAcknowledgment
<1>2. CounterTypes'
  BY <1>1 DEF MessageInv, CounterTypes
<1>3. SubscribedFirst'
  BY <1>1 DEF MessageInv, SubscribedFirst, Loop
<1>4. NothingUnlisted'
  BY <1>1 DEF MessageInv, NothingUnlisted, SubscribedFirst
<1>5. NoneIsLost'
  BY <1>1 DEF MessageInv, NoneIsLost
<1>6. OneAtATime'
  BY <1>1 DEF MessageInv, OneAtATime, SubscribedFirst
<1> QED
  BY <1>2, <1>3, <1>4, <1>5, <1>6 DEF MessageInv

LEMMA prvSubscribeCommandCallbackKeeps ==
    ASSUME MessageInv, prvSubscribeCommandCallback
    PROVE  MessageInv'
<1>1. /\ subscribing
      /\ pc # "asserted"
      /\ pc' = pc
      /\ subscribing' = FALSE
      /\ listed' => xReturnStatus'
      /\ notified' = notified + 1
      /\ UNCHANGED <<received, queued, flying, duplicates, published, ulLargeMessagePasses,
                     ulNotificationValue, copies, stray>>
  BY DEF prvSubscribeCommandCallback, brokerVars, resultVars, historyVars
<1>2. CounterTypes'
  BY <1>1 DEF MessageInv, CounterTypes
<1>3. SubscribedFirst'
  BY <1>1 DEF MessageInv, SubscribedFirst
<1>4. NothingUnlisted'
  BY <1>1 DEF MessageInv, NothingUnlisted, Loop, SubscribedFirst
<1>5. NoneIsLost'
  BY <1>1 DEF MessageInv, NoneIsLost, SubscribedFirst, CounterTypes
<1>6. OneAtATime'
  BY <1>1 DEF MessageInv, OneAtATime, SubscribedFirst, NothingUnlisted
<1> QED
  BY <1>2, <1>3, <1>4, <1>5, <1>6 DEF MessageInv

LEMMA ClearBufferKeeps ==
    ASSUME MessageInv, ClearBuffer
    PROVE  MessageInv'
<1>1. /\ pc = "clear"
      /\ pc' = "clearedHalf"
      /\ UNCHANGED <<notified, subscribing, xReturnStatus, listed, queued, flying, duplicates,
                     published, ulLargeMessagePasses, ulNotificationValue, copies, stray>>
  BY DEF ClearBuffer, agentVars, brokerVars, resultVars
<1>2. CounterTypes'
  BY <1>1 DEF MessageInv, CounterTypes
<1>3. SubscribedFirst'
  BY <1>1 DEF MessageInv, SubscribedFirst, Loop
<1>4. NothingUnlisted'
  BY <1>1 DEF MessageInv, NothingUnlisted, SubscribedFirst
<1>5. NoneIsLost'
  BY <1>1 DEF MessageInv, NoneIsLost
<1>6. OneAtATime'
  BY <1>1 DEF MessageInv, OneAtATime
<1> QED
  BY <1>2, <1>3, <1>4, <1>5, <1>6 DEF MessageInv

LEMMA ClearRestKeeps ==
    ASSUME MessageInv, ClearRest
    PROVE  MessageInv'
<1>1. /\ pc = "clearedHalf"
      /\ pc' = "publish"
      /\ UNCHANGED <<notified, subscribing, xReturnStatus, listed, queued, flying, duplicates,
                     published, ulLargeMessagePasses, ulNotificationValue, copies, stray>>
  BY DEF ClearRest, agentVars, brokerVars, resultVars, historyVars
<1>2. CounterTypes'
  BY <1>1 DEF MessageInv, CounterTypes
<1>3. SubscribedFirst'
  BY <1>1 DEF MessageInv, SubscribedFirst, Loop
<1>4. NothingUnlisted'
  BY <1>1 DEF MessageInv, NothingUnlisted, SubscribedFirst
<1>5. NoneIsLost'
  BY <1>1 DEF MessageInv, NoneIsLost
<1>6. OneAtATime'
  BY <1>1 DEF MessageInv, OneAtATime
<1> QED
  BY <1>2, <1>3, <1>4, <1>5, <1>6 DEF MessageInv

LEMMA PublishKeeps ==
    ASSUME MessageInv, Publish
    PROVE  MessageInv'
<1>1. /\ pc = "publish"
      /\ published' = published + 1
      /\ \/ queued' = queued + 1 /\ pc' = "wait"
         \/ pc' = "asserted" /\ queued' = queued
      /\ UNCHANGED <<received, notified, subscribing, xReturnStatus, listed, flying, duplicates,
                     ulLargeMessagePasses, ulNotificationValue, copies, stray>>
  BY DEF Publish, agentVars, resultVars, historyVars
<1>2. CounterTypes'
  BY <1>1 DEF MessageInv, CounterTypes
<1>3. SubscribedFirst'
  BY <1>1 DEF MessageInv, SubscribedFirst, Loop
<1>4. NothingUnlisted'
  BY <1>1 DEF MessageInv, NothingUnlisted, SubscribedFirst
<1>5. NoneIsLost'
  BY <1>1 DEF MessageInv, NoneIsLost, CounterTypes
<1>6. OneAtATime'
  BY <1>1 DEF MessageInv, OneAtATime
<1> QED
  BY <1>2, <1>3, <1>4, <1>5, <1>6 DEF MessageInv

\* A wait that ends without a notification leaves a message that is under way:
\* then stray is set.
LEMMA WaitKeeps ==
    ASSUME MessageInv, Wait
    PROVE  MessageInv'
<1>0. stray' = (stray \/ (notified = 0 /\ queued + flying > 0))
  BY DEF Wait
<1>a. ~stray' => ~stray /\ (notified # 0 \/ ~(queued + flying > 0))
  BY <1>0
<1>1. /\ pc = "wait"
      /\ pc' = "compare"
      /\ ulNotificationValue' = notified
      /\ notified' = (IF notified > 0 THEN notified - 1 ELSE 0)
      /\ ~stray' => ~stray /\ (notified # 0 \/ ~(queued + flying > 0))
      /\ UNCHANGED <<received, subscribing, xReturnStatus, listed, queued, flying, duplicates,
                     published, ulLargeMessagePasses, copies>>
  BY DEF Wait, agentVars, brokerVars
<1>2. CounterTypes'
  BY <1>1 DEF MessageInv, CounterTypes
<1>3. SubscribedFirst'
  BY <1>1 DEF MessageInv, SubscribedFirst, Loop
<1>4. NothingUnlisted'
  BY <1>1 DEF MessageInv, NothingUnlisted, SubscribedFirst
<1>5. NoneIsLost'
  BY <1>1 DEF MessageInv, NoneIsLost
<1>6. OneAtATime'
  BY <1>1 DEF MessageInv, OneAtATime, CounterTypes, NoneIsLost
<1> QED
  BY <1>2, <1>3, <1>4, <1>5, <1>6 DEF MessageInv

LEMMA CompareKeeps ==
    ASSUME MessageInv, Compare
    PROVE  MessageInv'
<1>1. /\ pc = "compare"
      /\ pc' = "sleep"
      /\ \/ ulNotificationValue # 1 /\ ulLargeMessagePasses' = ulLargeMessagePasses
         \/ /\ ulNotificationValue = 1
            /\ ulLargeMessagePasses' = ulLargeMessagePasses + (IF received = Halves THEN 1 ELSE 0)
      /\ UNCHANGED <<received, notified, subscribing, xReturnStatus, listed, queued, flying,
                     duplicates, published, ulNotificationValue, copies, stray>>
  BY DEF Compare, agentVars, brokerVars, historyVars, prvCreateMQTTPayload
<1>2. CounterTypes'
  BY <1>1 DEF MessageInv, CounterTypes
<1>3. SubscribedFirst'
  BY <1>1 DEF MessageInv, SubscribedFirst, Loop
<1>4. NothingUnlisted'
  BY <1>1 DEF MessageInv, NothingUnlisted, SubscribedFirst
<1>5. NoneIsLost'
  BY <1>1 DEF MessageInv, NoneIsLost
<1>6. OneAtATime'
  BY <1>1 DEF MessageInv, OneAtATime
<1> QED
  BY <1>2, <1>3, <1>4, <1>5, <1>6 DEF MessageInv

LEMMA SleepKeeps ==
    ASSUME MessageInv, Sleep
    PROVE  MessageInv'
<1>1. /\ pc = "sleep"
      /\ pc' = "clear"
      /\ UNCHANGED <<received, notified, subscribing, xReturnStatus, listed, queued, flying,
                     duplicates, published, ulLargeMessagePasses, ulNotificationValue, copies,
                     stray>>
  BY DEF Sleep, agentVars, brokerVars, resultVars, historyVars
<1>2. CounterTypes'
  BY <1>1 DEF MessageInv, CounterTypes
<1>3. SubscribedFirst'
  BY <1>1 DEF MessageInv, SubscribedFirst, Loop
<1>4. NothingUnlisted'
  BY <1>1 DEF MessageInv, NothingUnlisted, SubscribedFirst
<1>5. NoneIsLost'
  BY <1>1 DEF MessageInv, NoneIsLost
<1>6. OneAtATime'
  BY <1>1 DEF MessageInv, OneAtATime
<1> QED
  BY <1>2, <1>3, <1>4, <1>5, <1>6 DEF MessageInv

LEMMA ProcessPublishKeeps ==
    ASSUME MessageInv, ProcessPublish
    PROVE  MessageInv'
<1>1. /\ pc' = pc
      /\ pc # "asserted"
      /\ queued > 0
      /\ queued' = queued - 1
      /\ flying' = (IF xReturnStatus THEN flying + 1 ELSE flying)
      /\ UNCHANGED <<received, notified, subscribing, xReturnStatus, listed, duplicates, published,
                     ulLargeMessagePasses, ulNotificationValue, copies, stray>>
  BY DEF ProcessPublish, agentVars, resultVars, historyVars
<1>2. CounterTypes'
  BY <1>1 DEF MessageInv, CounterTypes
<1>3. SubscribedFirst'
  BY <1>1 DEF MessageInv, SubscribedFirst
<1>4. NothingUnlisted'
  BY <1>1 DEF MessageInv, NothingUnlisted
<1>5. NoneIsLost'
  BY <1>1 DEF MessageInv, NoneIsLost, SubscribedFirst, CounterTypes
<1>6. OneAtATime'
  BY <1>1 DEF MessageInv, OneAtATime
<1> QED
  BY <1>2, <1>3, <1>4, <1>5, <1>6 DEF MessageInv

LEMMA DuplicateKeeps ==
    ASSUME MessageInv, Duplicate
    PROVE  MessageInv'
<1>1. /\ pc' = pc
      /\ flying > 0
      /\ flying' = flying + 1
      /\ UNCHANGED <<received, notified, subscribing, xReturnStatus, listed, queued, published,
                     ulLargeMessagePasses, ulNotificationValue, copies, stray>>
  BY DEF Duplicate, agentVars, resultVars, historyVars
<1>2. CounterTypes'
  BY <1>1 DEF MessageInv, CounterTypes
<1>3. SubscribedFirst'
  BY <1>1 DEF MessageInv, SubscribedFirst
<1>4. NothingUnlisted'
  BY <1>1 DEF MessageInv, NothingUnlisted
<1>5. NoneIsLost'
  BY <1>1 DEF MessageInv, NoneIsLost, CounterTypes
<1>6. OneAtATime'
  BY <1>1 DEF MessageInv, OneAtATime
<1> QED
  BY <1>2, <1>3, <1>4, <1>5, <1>6 DEF MessageInv

\* The copy of a message while its task waits is the one it waits for, unless
\* it is a duplicate or late: then stray is set.
LEMMA prvIncomingPublishCallbackKeeps ==
    ASSUME MessageInv, prvIncomingPublishCallback
    PROVE  MessageInv'
<1>1. /\ pc' = pc
      /\ pc # "asserted"
      /\ flying > 0
      /\ flying' = flying - 1
      /\ \/ /\ listed /\ received' = Halves /\ notified' = notified + 1 /\ copies' = copies + 1
            /\ ~stray' => ~stray /\ pc = "wait" /\ ~(copies >= published)
         \/ ~listed /\ UNCHANGED <<received, notified, copies, stray>>
      /\ UNCHANGED <<subscribing, xReturnStatus, listed, queued, duplicates, published,
                     ulLargeMessagePasses, ulNotificationValue>>
  BY DEF prvIncomingPublishCallback, agentVars, resultVars, historyVars, CopyPayload,
     prvCreateMQTTPayload
<1>2. CounterTypes'
  BY <1>1 DEF MessageInv, CounterTypes
<1>3. SubscribedFirst'
  BY <1>1 DEF MessageInv, SubscribedFirst
<1>4. NothingUnlisted'
  BY <1>1 DEF MessageInv, NothingUnlisted
<1>5. NoneIsLost'
  BY <1>1 DEF MessageInv, NoneIsLost, CounterTypes
<1>6. OneAtATime'
  BY <1>1 DEF MessageInv, OneAtATime, CounterTypes
<1> QED
  BY <1>2, <1>3, <1>4, <1>5, <1>6 DEF MessageInv

\* Every step keeps the invariant.
LEMMA MessageInvNext == MessageInv /\ [Next]_vars => MessageInv'
<1> SUFFICES ASSUME MessageInv, [Next]_vars PROVE MessageInv'
  OBVIOUS
<1>1. CASE UNCHANGED vars
  BY <1>1 DEF vars, agentVars, brokerVars, resultVars, historyVars, MessageInv, CounterTypes,
     SubscribedFirst, NothingUnlisted, NoneIsLost, OneAtATime
<1>2. CASE Next
  BY <1>2, PostSubscribeKeeps, prvSubscribeToTopicKeeps, prvSubscribeCommandCallbackKeeps,
     ClearBufferKeeps, ClearRestKeeps, PublishKeeps, WaitKeeps, CompareKeeps, SleepKeeps,
     ProcessPublishKeeps, DuplicateKeeps, prvIncomingPublishCallbackKeeps DEF Next
<1> QED
  BY <1>1, <1>2

\* The loop of prvLargeMessageSubscribePublishTask(): while every message came
\* back in time and once, each that came back is compared and counted as a pass.
THEOREM InTimePassesTheorem == Spec => []InTimePasses
<1>1. Init => MessageInv
  BY MessageInvInit
<1>2. MessageInv /\ [Next]_vars => MessageInv'
  BY MessageInvNext
<1>3. MessageInv => InTimePasses
  BY DEF MessageInv, NothingUnlisted, OneAtATime, InTimePasses
<1> QED
  BY <1>1, <1>2, <1>3, PTL DEF Spec
=============================================================================
