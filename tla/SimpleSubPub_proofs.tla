------------------------- MODULE SimpleSubPub_proofs -------------------------
(***************************************************************************)
(* What the simple subscribe and publish tasks promise for any number of   *)
(* tasks and messages, any size of the pool, any failures and timeouts: a  *)
(* callback in time is counted, a payload is not older than its command,   *)
(* and the SUBSCRIBE goes first.                                           *)
(***************************************************************************)
EXTENDS SimpleSubPub, FiniteSetTheorems, SequenceTheorems, TLAPS

----------------------------------------------------------------------------
(* Commands and queues of distinct commands.                               *)

\* A command is a SUBSCRIBE or a publish of a task.
LEMMA CommandFields ==
    ASSUME NEW c \in Commands
    PROVE  /\ c.task \in Tasks /\ c.n \in Nat
           /\ \/ c.kind = "subscribe" /\ c = Subscribe(c.task)
              \/ c.kind = "publish" /\ c = Publish(c.task, c.n) /\ c.n < PublishCount
  BY CountAssumption DEF Commands, Subscribe, Publish

\* Commands of a task and round that has not reached the bound.
LEMMA IsCommand ==
    ASSUME NEW t \in Tasks
    PROVE  /\ Subscribe(t) \in Commands
           /\ \A n \in Nat : n < PublishCount => Publish(t, n) \in Commands
  BY CountAssumption DEF Commands

\* Commands are told apart by their fields.
LEMMA CommandsDiffer ==
    /\ \A s, t, n : Subscribe(s) # Publish(t, n)
    /\ \A s, t : Subscribe(s) = Subscribe(t) => s = t
    /\ \A s, t, m, n : Publish(s, m) = Publish(t, n) => s = t /\ m = n
    /\ \A t : Subscribe(t).task = t /\ Subscribe(t).kind = "subscribe"
    /\ \A t, n : Publish(t, n).task = t /\ Publish(t, n).kind = "publish" /\ Publish(t, n).n = n
  BY DEF Subscribe, Publish

\* The queue without its first element.
LEMMA QueueReceive ==
    ASSUME NEW q \in Seq(Commands), IsInjective(q), q # <<>>
    PROVE  /\ Head(q) \in Commands /\ Head(q) \in Range(q)
           /\ Tail(q) \in Seq(Commands)
           /\ IsInjective(Tail(q))
           /\ Range(Tail(q)) = Range(q) \ {Head(q)}
<1>1. /\ Tail(q) \in Seq(Commands)
      /\ Len(Tail(q)) = Len(q) - 1
      /\ \A i \in 1 .. Len(Tail(q)) : Tail(q)[i] = q[i + 1]
      /\ Head(q) \in Commands
  BY HeadTailProperties
<1>2. Len(q) \in Nat /\ Len(q) # 0 /\ DOMAIN q = 1 .. Len(q) /\ Head(q) = q[1]
  BY EmptySeq, LenProperties
<1>3. DOMAIN Tail(q) = 1 .. Len(q) - 1
  BY <1>1, LenProperties
<1>4. \A i, j \in 1 .. Len(q) : q[i] = q[j] => i = j
  BY <1>2 DEF IsInjective
<1>5. IsInjective(Tail(q))
  BY <1>1, <1>2, <1>3, <1>4 DEF IsInjective
<1>6. Range(Tail(q)) = {q[i] : i \in 2 .. Len(q)}
  <2>1. \A i \in 1 .. Len(q) - 1 : i + 1 \in 2 .. Len(q) /\ Tail(q)[i] = q[i + 1]
    BY <1>1, <1>2
  <2>2. \A i \in 2 .. Len(q) : i - 1 \in 1 .. Len(q) - 1 /\ Tail(q)[i - 1] = q[i]
    BY <1>1, <1>2
  <2>3. Range(Tail(q)) = {Tail(q)[i] : i \in 1 .. Len(q) - 1}
    BY <1>3 DEF Range
  <2>4. ASSUME NEW x \in Range(Tail(q))
        PROVE  x \in {q[i] : i \in 2 .. Len(q)}
    BY <2>1, <2>3
  <2>5. ASSUME NEW x \in {q[i] : i \in 2 .. Len(q)}
        PROVE  x \in Range(Tail(q))
    <3>1. PICK i \in 2 .. Len(q) : x = q[i]
      OBVIOUS
    <3>2. i - 1 \in 1 .. Len(q) - 1 /\ Tail(q)[i - 1] = x
      BY <2>2, <3>1
    <3>3. QED
      BY <2>3, <3>2
  <2>6. QED
    BY <2>4, <2>5
<1>7. Range(q) = {q[i] : i \in 1 .. Len(q)}
  BY <1>2 DEF Range
<1>8. 1 \in 1 .. Len(q) /\ \A i \in 2 .. Len(q) : i \in 1 .. Len(q) /\ i # 1
  BY <1>2
<1>9. \A i \in 1 .. Len(q) : i = 1 \/ i \in 2 .. Len(q)
  BY <1>2
<1>10. QED
  BY <1>1, <1>2, <1>4, <1>5, <1>6, <1>7, <1>8, <1>9

\* The queue with an element that was not in it.
LEMMA QueueSend ==
    ASSUME NEW q \in Seq(Commands), IsInjective(q), NEW c \in Commands, c \notin Range(q)
    PROVE  /\ Append(q, c) \in Seq(Commands)
           /\ IsInjective(Append(q, c))
           /\ Range(Append(q, c)) = Range(q) \cup {c}
<1> DEFINE a == Append(q, c)  n == Len(q)
<1>1. /\ a \in Seq(Commands)
      /\ Len(a) = n + 1
      /\ \A i \in 1 .. n : a[i] = q[i]
      /\ a[n + 1] = c
  BY AppendProperties
<1>2. n \in Nat /\ DOMAIN q = 1 .. n /\ DOMAIN a = 1 .. n + 1
  BY <1>1, LenProperties
<1> HIDE DEF a, n
<1>3. \A i \in 1 .. n : q[i] # c
  BY <1>2 DEF Range
<1>4. \A i, j \in 1 .. n : q[i] = q[j] => i = j
  BY <1>2 DEF IsInjective
<1>5. \A i \in 1 .. n + 1 : i \in 1 .. n \/ i = n + 1
  BY <1>2
<1>6. IsInjective(a)
  BY <1>1, <1>2, <1>3, <1>4, <1>5 DEF IsInjective
<1>7. \A i \in 1 .. n : i \in 1 .. n + 1
  BY <1>2
<1>8. n + 1 \in 1 .. n + 1
  BY <1>2
<1>9. Range(a) = Range(q) \cup {c}
  BY <1>1, <1>2, <1>5, <1>7, <1>8 DEF Range
<1>10. QED
  BY <1>1, <1>6, <1>9 DEF a


----------------------------------------------------------------------------
(* The invariant.                                                          *)

Places == {"start", "subscribe", "subscribing", "format", "stamp", "publish", "wait", "check"}

\* The number of a round is below the bound until it is counted, and the
\* frame of the SUBSCRIBE exists only while its task waits for it.
TaskTypes ==
    /\ pc \in [Tasks -> Places]
    /\ ulValueToNotify \in [Tasks -> Nat]
    /\ \A t \in Tasks :
          /\ ulValueToNotify[t] <= PublishCount
          /\ pc[t] \in {"stamp", "publish", "wait", "check"} => ulValueToNotify[t] < PublishCount
          /\ pc[t] \in {"start", "subscribe", "subscribing"} => ulValueToNotify[t] = 0
          /\ frame[t] => pc[t] \in {"subscribe", "subscribing"}
    /\ frame \in [Tasks -> BOOLEAN]
    /\ stopped \in BOOLEAN /\ wild \in BOOLEAN

NumberTypes ==
    /\ ulNotification \in [Tasks -> Int]
    /\ ulNotifiedValue \in [Tasks -> Nat]
    /\ passed \in [Tasks -> SUBSET Nat] /\ failed \in [Tasks -> SUBSET Nat]

\* The context and the buffer hold the number of the round.
Prepared ==
    /\ payload \in [Tasks -> Nat] /\ contextValue \in [Tasks -> Nat]
    /\ \A t \in Tasks :
          /\ payload[t] <= ulValueToNotify[t]
          /\ pc[t] \in {"stamp", "publish", "wait", "check"} => payload[t] = ulValueToNotify[t]
          /\ pc[t] \in {"publish", "wait", "check"} => contextValue[t] = ulValueToNotify[t]
          /\ pc[t] = "format" => ulValueToNotify[t] <= payload[t] + 1

\* A command is queued or pending once, and the pool has a structure for it.
EachOnce ==
    /\ queue \in Seq(Commands) /\ IsInjective(queue)
    /\ pending \in SUBSET Commands /\ IsFiniteSet(pending)
    /\ \A c \in pending : c \notin Range(queue)
    /\ Len(queue) + Cardinality(pending) <= PoolSize

\* A round has posted its command, or another one after it has begun.
Posted(t, n) ==
    \/ n < ulValueToNotify[t]
    \/ n = ulValueToNotify[t] /\ pc[t] \in {"wait", "check"}

\* A command that is outstanding was posted, and no callback of it ran.
PostedBefore ==
    /\ \A t \in Tasks : Subscribe(t) \in Outstanding => pc[t] \notin {"start", "subscribe"}
    /\ \A t \in Tasks, n \in Nat : Publish(t, n) \in Outstanding => Posted(t, n) /\ <<t, n>> \notin inTime
    /\ \A t \in Tasks, n \in Nat : <<t, n>> \in inTime => Posted(t, n)
    /\ inTime \in SUBSET (Tasks \X Nat)

\* A SUBSCRIBE is in front of its task's publishes.
SubscribeAhead ==
    /\ \A i, j \in 1 .. Len(queue) :
          queue[i].kind = "subscribe" /\ queue[j].kind = "publish" /\ queue[i].task = queue[j].task
             => i < j
    /\ SubscribeFirst

\* What was sent carries a number not below its own, and not above the round's.
Sent ==
    /\ wire \in SUBSET (Tasks \X Nat \X Nat)
    /\ \A t \in Tasks, n, p \in Nat :
          <<t, n, p>> \in wire => /\ n <= p /\ p <= payload[t] /\ Posted(t, n)
                                  /\ <<t, n>> \in inTime => p = n

\* The notification of a callback in time is the one that is looked at.
Counted ==
    \A t \in Tasks, n \in Nat : t \notin stray /\ <<t, n>> \in inTime =>
        /\ n < ulValueToNotify[t] => n \in passed[t]
        /\ pc[t] = "wait" /\ n = ulValueToNotify[t] => ulNotifiedValue[t] = n
        /\ pc[t] = "check" /\ n = ulValueToNotify[t] => ulNotification[t] = n

SubPubInv ==
    TaskTypes /\ NumberTypes /\ Prepared /\ EachOnce /\ PostedBefore /\ SubscribeAhead /\ Sent /\ Counted

\* The invariant holds before the tasks run.
LEMMA SubPubInvInit == Init => SubPubInv
<1> SUFFICES ASSUME Init PROVE SubPubInv
  OBVIOUS
<1>1. TaskTypes
  <2>1. /\ pc = [t \in Tasks |-> "start"] /\ ulValueToNotify = [t \in Tasks |-> 0]
        /\ frame = [t \in Tasks |-> FALSE] /\ stopped = FALSE /\ wild = FALSE
    BY DEF Init
  <2>2. 0 <= PublishCount
    BY CountAssumption
  <2> QED
    BY <2>1, <2>2 DEF TaskTypes, Places
<1>8. NumberTypes /\ Prepared
  BY DEF Init, NumberTypes, Prepared
<1>2. Range(queue) = {} /\ IsInjective(queue) /\ queue \in Seq(Commands) /\ Len(queue) = 0
  BY DEF Init, Range, IsInjective
<1>3. IsFiniteSet(pending) /\ Cardinality(pending) = 0
  BY FS_EmptySet DEF Init
<1>4. EachOnce
  BY <1>2, <1>3, PoolAssumption DEF Init, EachOnce
<1>5. PostedBefore
  BY <1>2 DEF Init, PostedBefore, Outstanding
<1>6. SubscribeAhead
  BY <1>2 DEF Init, SubscribeAhead, SubscribeFirst
<1>7. Sent /\ Counted
  BY DEF Init, Sent, Counted
<1> QED
  BY <1>1, <1>4, <1>5, <1>6, <1>7, <1>8 DEF SubPubInv

----------------------------------------------------------------------------
(* The steps of a task.                                                    *)

\* A command that was not outstanding is queued: it is the last one.
LEMMA PostKeepsOnce ==
    ASSUME EachOnce, NEW c \in Commands, c \notin Outstanding,
           queue' = Append(queue, c), pending' = pending,
           Len(queue) + Cardinality(pending) < PoolSize
    PROVE  /\ EachOnce'
           /\ Outstanding' = Outstanding \cup {c}
           /\ Range(queue') = Range(queue) \cup {c}
           /\ Len(queue) \in Nat /\ Len(queue') = Len(queue) + 1
           /\ \A i \in 1 .. Len(queue) : queue'[i] = queue[i] /\ queue[i] \in Range(queue)
           /\ queue'[Len(queue')] = c
<1>1. queue' \in Seq(Commands) /\ IsInjective(queue') /\ Range(queue') = Range(queue) \cup {c}
  BY QueueSend DEF EachOnce, Outstanding
<1>2. /\ Len(queue) \in Nat /\ Len(queue') = Len(queue) + 1
      /\ \A i \in 1 .. Len(queue) : queue'[i] = queue[i]
      /\ queue'[Len(queue')] = c
  BY AppendProperties, LenProperties DEF EachOnce
<1>3. \A i \in 1 .. Len(queue) : queue[i] \in Range(queue)
  BY LenProperties DEF EachOnce, Range
<1>4. Cardinality(pending) \in Nat
  BY FS_CardinalityType DEF EachOnce
<1>5. Len(queue') + Cardinality(pending') <= PoolSize
  BY <1>2, <1>4, PoolAssumption
<1>6. EachOnce'
  BY <1>1, <1>5 DEF EachOnce, Outstanding
<1>7. Outstanding' = Outstanding \cup {c}
  BY <1>1 DEF Outstanding
<1> QED
  BY <1>1, <1>2, <1>3, <1>6, <1>7

\* Each action of a task keeps the invariant.  In each proof the first step says
\* what the action changes; then one step follows for each part.
LEMMA StartSubscribeKeeps ==
    ASSUME SubPubInv, NEW t \in Tasks, StartSubscribe(t)
    PROVE  SubPubInv'
<1>1. /\ pc[t] = "start"
      /\ frame' = [frame EXCEPT ![t] = TRUE]
      /\ pc' = [pc EXCEPT ![t] = "subscribe"]
      /\ UNCHANGED <<ulValueToNotify, ulNotification, contextValue, payload, ulNotifiedValue,
                     passed, failed, queue, pending, stopped, wild, wire, done, inTime, ran, stray>>
  BY DEF StartSubscribe, agentVars, historyVars
<1>o. Outstanding' = Outstanding
  BY <1>1 DEF Outstanding
<1>p. \A s \in Tasks, n \in Nat : Posted(s, n) => Posted(s, n)'
  BY <1>1 DEF Posted
<1>2. TaskTypes'
  BY <1>1 DEF SubPubInv, TaskTypes, Places
<1>3. NumberTypes'
  BY <1>1 DEF SubPubInv, NumberTypes
<1>4. Prepared'
  BY <1>1 DEF SubPubInv, Prepared
<1>5. EachOnce'
  BY <1>1 DEF SubPubInv, EachOnce
<1>6. PostedBefore'
  BY <1>1, <1>o, <1>p DEF SubPubInv, PostedBefore
<1>7. SubscribeAhead'
  BY <1>1 DEF SubPubInv, SubscribeAhead, SubscribeFirst
<1>8. Sent'
  BY <1>1, <1>p DEF SubPubInv, Sent
<1>9. Counted'
  BY <1>1 DEF SubPubInv, Counted
<1> QED
  BY <1>2, <1>3, <1>4, <1>5, <1>6, <1>7, <1>8, <1>9 DEF SubPubInv

LEMMA PostSubscribeKeeps ==
    ASSUME SubPubInv, NEW t \in Tasks, PostSubscribe(t)
    PROVE  SubPubInv'
<1>0. Len(queue) \in Nat /\ Cardinality(pending) \in Nat
  BY FS_CardinalityType DEF SubPubInv, EachOnce
<1>1. /\ pc[t] = "subscribe"
      /\ queue' = Append(queue, Subscribe(t))
      /\ pc' = [pc EXCEPT ![t] = "subscribing"]
      /\ Len(queue) + Cardinality(pending) < PoolSize
      /\ UNCHANGED <<ulValueToNotify, ulNotification, contextValue, payload, frame,
                     ulNotifiedValue, passed, failed, pending, stopped, wild, wire, done, inTime,
                     ran, stray>>
  BY <1>0, PoolAssumption DEF PostSubscribe, historyVars, PoolEmpty
<1>n. Subscribe(t) \notin Outstanding
  BY <1>1 DEF SubPubInv, PostedBefore
<1>2. /\ EachOnce'
      /\ Outstanding' = Outstanding \cup {Subscribe(t)}
      /\ Range(queue') = Range(queue) \cup {Subscribe(t)}
      /\ Len(queue) \in Nat /\ Len(queue') = Len(queue) + 1
      /\ \A i \in 1 .. Len(queue) : queue'[i] = queue[i] /\ queue[i] \in Range(queue)
      /\ queue'[Len(queue')] = Subscribe(t)
  BY <1>1, <1>n, IsCommand, PostKeepsOnce DEF SubPubInv
<1>p. \A s \in Tasks, n \in Nat : Posted(s, n) => Posted(s, n)'
  BY <1>1 DEF Posted
<1>3. TaskTypes'
  BY <1>1 DEF SubPubInv, TaskTypes, Places
<1>4. NumberTypes' /\ Prepared'
  BY <1>1 DEF SubPubInv, NumberTypes, Prepared
<1>5. PostedBefore'
  <2>1. \A s \in Tasks : Subscribe(s) \in Outstanding' => pc'[s] \notin {"start", "subscribe"}
    BY <1>1, <1>2, CommandsDiffer DEF SubPubInv, PostedBefore, TaskTypes
  <2>2. \A s \in Tasks, n \in Nat : Publish(s, n) \in Outstanding' => Publish(s, n) \in Outstanding
    BY <1>2, CommandsDiffer
  <2> QED
    BY <1>1, <1>p, <2>1, <2>2 DEF SubPubInv, PostedBefore
<1>q. \A n \in Nat : ~Posted(t, n)
  BY <1>1 DEF SubPubInv, TaskTypes, Posted
<1>6. SubscribeAhead'
  <2>1. \A c \in Range(queue) : c \in Commands
    BY RangeOfSeq DEF SubPubInv, EachOnce
  <2>2. \A c \in Range(queue) : ~(c.kind = "publish" /\ c.task = t)
    <3> SUFFICES ASSUME NEW c \in Range(queue), c.kind = "publish", c.task = t PROVE FALSE
      OBVIOUS
    <3>1. c = Publish(t, c.n) /\ c.n \in Nat
      BY <2>1, CommandFields
    <3>2. Publish(t, c.n) \in Outstanding
      BY <3>1 DEF Outstanding
    <3> QED
      BY <1>q, <3>1, <3>2 DEF SubPubInv, PostedBefore
  <2>3. \A w \in wire : w[1] # t
    <3> SUFFICES ASSUME NEW w \in wire PROVE w[1] # t
      OBVIOUS
    <3>1. w = <<w[1], w[2], w[3]>> /\ w[1] \in Tasks /\ w[2] \in Nat /\ w[3] \in Nat
      BY DEF SubPubInv, Sent
    <3>2. Posted(w[1], w[2])
      BY <3>1 DEF SubPubInv, Sent
    <3> QED
      BY <1>q, <3>1, <3>2
  <2>4. SubscribeFirst'
    BY <1>1, <1>2, <2>3, CommandsDiffer DEF SubPubInv, SubscribeAhead, SubscribeFirst
  <2>5. ASSUME NEW i \in 1 .. Len(queue'), NEW j \in 1 .. Len(queue'),
               queue'[i].kind = "subscribe", queue'[j].kind = "publish", queue'[i].task = queue'[j].task
        PROVE  i < j
    <3>1. j # Len(queue')
      BY <1>2, <2>5, CommandsDiffer
    <3>2. j \in 1 .. Len(queue) /\ queue'[j] = queue[j] /\ queue[j] \in Range(queue)
      BY <1>2, <3>1
    <3>3. i # Len(queue')
      BY <1>2, <2>2, <2>5, CommandsDiffer
    <3>4. i \in 1 .. Len(queue) /\ queue'[i] = queue[i]
      BY <1>2, <3>3
    <3> QED
      BY <2>5, <3>2, <3>4 DEF SubPubInv, SubscribeAhead
  <2> QED
    BY <2>4, <2>5 DEF SubscribeAhead
<1>7. Sent'
  BY <1>1, <1>p DEF SubPubInv, Sent
<1>8. Counted'
  BY <1>1 DEF SubPubInv, Counted
<1> QED
  BY <1>2, <1>3, <1>4, <1>5, <1>6, <1>7, <1>8 DEF SubPubInv

LEMMA EndSubscribeKeeps ==
    ASSUME SubPubInv, NEW t \in Tasks, EndSubscribe(t)
    PROVE  SubPubInv'
<1>1. /\ pc[t] = "subscribing"
      /\ frame' = [frame EXCEPT ![t] = FALSE]
      /\ pc' = [pc EXCEPT ![t] = "format"]
      /\ UNCHANGED <<ulValueToNotify, ulNotification, contextValue, payload, ulNotifiedValue,
                     passed, failed, queue, pending, stopped, wild, wire, done, inTime, ran, stray>>
  BY DEF EndSubscribe, agentVars, historyVars
<1>o. Outstanding' = Outstanding
  BY <1>1 DEF Outstanding
<1>p. \A s \in Tasks, n \in Nat : Posted(s, n) => Posted(s, n)'
  BY <1>1 DEF Posted
<1>2. TaskTypes'
  BY <1>1 DEF SubPubInv, TaskTypes, Places
<1>3. NumberTypes'
  BY <1>1 DEF SubPubInv, NumberTypes
<1>4. Prepared'
  BY <1>1 DEF SubPubInv, Prepared, TaskTypes
<1>5. EachOnce'
  BY <1>1 DEF SubPubInv, EachOnce
<1>6. PostedBefore'
  BY <1>1, <1>o, <1>p DEF SubPubInv, PostedBefore
<1>7. SubscribeAhead'
  BY <1>1 DEF SubPubInv, SubscribeAhead, SubscribeFirst
<1>8. Sent'
  BY <1>1, <1>p DEF SubPubInv, Sent
<1>9. Counted'
  BY <1>1 DEF SubPubInv, Counted
<1> QED
  BY <1>2, <1>3, <1>4, <1>5, <1>6, <1>7, <1>8, <1>9 DEF SubPubInv

LEMMA FormatPayloadKeeps ==
    ASSUME SubPubInv, NEW t \in Tasks, FormatPayload(t)
    PROVE  SubPubInv'
<1>1. /\ pc[t] = "format"
      /\ ulValueToNotify[t] < PublishCount
      /\ payload' = [payload EXCEPT ![t] = ulValueToNotify[t]]
      /\ pc' = [pc EXCEPT ![t] = "stamp"]
      /\ UNCHANGED <<ulValueToNotify, ulNotification, contextValue, frame, ulNotifiedValue, passed,
                     failed, queue, pending, stopped, wild, wire, done, inTime, ran, stray>>
  BY DEF FormatPayload, agentVars, historyVars
<1>o. Outstanding' = Outstanding
  BY <1>1 DEF Outstanding
<1>p. \A s \in Tasks, n \in Nat : Posted(s, n) => Posted(s, n)'
  BY <1>1 DEF Posted
<1>2. TaskTypes'
  BY <1>1 DEF SubPubInv, TaskTypes, Places
<1>3. NumberTypes'
  BY <1>1 DEF SubPubInv, NumberTypes
<1>4. Prepared'
  BY <1>1 DEF SubPubInv, Prepared, TaskTypes
<1>5. EachOnce'
  BY <1>1 DEF SubPubInv, EachOnce
<1>6. PostedBefore'
  BY <1>1, <1>o, <1>p DEF SubPubInv, PostedBefore
<1>7. SubscribeAhead'
  BY <1>1 DEF SubPubInv, SubscribeAhead, SubscribeFirst
<1>8. Sent'
  BY <1>1, <1>p DEF SubPubInv, Sent, TaskTypes, Prepared
<1>9. Counted'
  BY <1>1 DEF SubPubInv, Counted
<1> QED
  BY <1>2, <1>3, <1>4, <1>5, <1>6, <1>7, <1>8, <1>9 DEF SubPubInv

LEMMA StampContextKeeps ==
    ASSUME SubPubInv, NEW t \in Tasks, StampContext(t)
    PROVE  SubPubInv'
<1>1. /\ pc[t] = "stamp"
      /\ contextValue' = [contextValue EXCEPT ![t] = ulValueToNotify[t]]
      /\ ulNotification' = [ulNotification EXCEPT ![t] = Complement(ulValueToNotify[t])]
      /\ pc' = [pc EXCEPT ![t] = "publish"]
      /\ UNCHANGED <<ulValueToNotify, payload, frame, ulNotifiedValue, passed, failed, queue,
                     pending, stopped, wild, wire, done, inTime, ran, stray>>
  BY DEF StampContext, agentVars, historyVars
<1>o. Outstanding' = Outstanding
  BY <1>1 DEF Outstanding
<1>p. \A s \in Tasks, n \in Nat : Posted(s, n) => Posted(s, n)'
  BY <1>1 DEF Posted
<1>2. TaskTypes'
  BY <1>1 DEF SubPubInv, TaskTypes, Places
<1>3. NumberTypes'
  BY <1>1 DEF SubPubInv, NumberTypes, TaskTypes, Complement
<1>4. Prepared'
  BY <1>1 DEF SubPubInv, Prepared
<1>5. EachOnce'
  BY <1>1 DEF SubPubInv, EachOnce
<1>6. PostedBefore'
  BY <1>1, <1>o, <1>p DEF SubPubInv, PostedBefore
<1>7. SubscribeAhead'
  BY <1>1 DEF SubPubInv, SubscribeAhead, SubscribeFirst
<1>8. Sent'
  BY <1>1, <1>p DEF SubPubInv, Sent
<1>9. Counted'
  BY <1>1 DEF SubPubInv, Counted
<1> QED
  BY <1>2, <1>3, <1>4, <1>5, <1>6, <1>7, <1>8, <1>9 DEF SubPubInv

LEMMA WaitForAcknowledgmentKeeps ==
    ASSUME SubPubInv, NEW t \in Tasks, WaitForAcknowledgment(t)
    PROVE  SubPubInv'
<1>1. /\ pc[t] = "wait"
      /\ ulNotification' = [ulNotification EXCEPT ![t] = ulNotifiedValue[t]]
      /\ pc' = [pc EXCEPT ![t] = "check"]
      /\ UNCHANGED <<ulValueToNotify, contextValue, payload, frame, ulNotifiedValue, passed,
                     failed, queue, pending, stopped, wild, wire, done, inTime, ran, stray>>
  BY DEF WaitForAcknowledgment, agentVars, historyVars
<1>o. Outstanding' = Outstanding
  BY <1>1 DEF Outstanding
<1>p. \A s \in Tasks, n \in Nat : Posted(s, n) => Posted(s, n)'
  BY <1>1 DEF Posted
<1>2. TaskTypes'
  BY <1>1 DEF SubPubInv, TaskTypes, Places
<1>3. NumberTypes'
  BY <1>1 DEF SubPubInv, NumberTypes
<1>4. Prepared'
  BY <1>1 DEF SubPubInv, Prepared
<1>5. EachOnce'
  BY <1>1 DEF SubPubInv, EachOnce
<1>6. PostedBefore'
  BY <1>1, <1>o, <1>p DEF SubPubInv, PostedBefore
<1>7. SubscribeAhead'
  BY <1>1 DEF SubPubInv, SubscribeAhead, SubscribeFirst
<1>8. Sent'
  BY <1>1, <1>p DEF SubPubInv, Sent
<1>9. Counted'
  BY <1>1 DEF SubPubInv, Counted, NumberTypes
<1> QED
  BY <1>2, <1>3, <1>4, <1>5, <1>6, <1>7, <1>8, <1>9 DEF SubPubInv

LEMMA CheckNotificationKeeps ==
    ASSUME SubPubInv, NEW t \in Tasks, CheckNotification(t)
    PROVE  SubPubInv'
<1>1. /\ pc[t] = "check"
      /\ ulValueToNotify' = [ulValueToNotify EXCEPT ![t] = ulValueToNotify[t] + 1]
      /\ pc' = [pc EXCEPT ![t] = "format"]
      /\ \/ /\ ulNotification[t] = ulValueToNotify[t] /\ passed' = [passed EXCEPT ![t] = passed[t] \cup {ulValueToNotify[t]}] /\ failed' = failed
         \/ /\ ulNotification[t] # ulValueToNotify[t] /\ failed' = [failed EXCEPT ![t] = failed[t] \cup {ulValueToNotify[t]}] /\ passed' = passed
      /\ UNCHANGED <<ulNotification, contextValue, payload, frame, ulNotifiedValue, queue, pending,
                     stopped, wild, wire, done, inTime, ran, stray>>
  BY DEF CheckNotification, agentVars, historyVars
<1>o. Outstanding' = Outstanding
  BY <1>1 DEF Outstanding
<1>p. \A s \in Tasks, n \in Nat : Posted(s, n) => Posted(s, n)'
  BY <1>1 DEF SubPubInv, TaskTypes, Posted
<1>2. TaskTypes'
  <2>1. /\ pc[t] = "check" /\ ulValueToNotify' = [ulValueToNotify EXCEPT ![t] = ulValueToNotify[t] + 1]
        /\ pc' = [pc EXCEPT ![t] = "format"] /\ UNCHANGED <<frame, stopped, wild>>
    BY <1>1
  <2>2. ulValueToNotify[t] + 1 \in Nat /\ ulValueToNotify[t] + 1 <= PublishCount
    BY <2>1, CountAssumption DEF SubPubInv, TaskTypes
  <2> QED
    BY <2>1, <2>2 DEF SubPubInv, TaskTypes, Places
<1>3. NumberTypes'
  BY <1>1 DEF SubPubInv, NumberTypes, TaskTypes
<1>4. Prepared'
  BY <1>1 DEF SubPubInv, Prepared, TaskTypes
<1>5. EachOnce'
  BY <1>1 DEF SubPubInv, EachOnce
<1>6. PostedBefore'
  BY <1>1, <1>o, <1>p DEF SubPubInv, PostedBefore
<1>7. SubscribeAhead'
  BY <1>1 DEF SubPubInv, SubscribeAhead, SubscribeFirst
<1>8. Sent'
  BY <1>1, <1>p DEF SubPubInv, Sent
<1>9. Counted'
  BY <1>1 DEF SubPubInv, Counted, TaskTypes, NumberTypes
<1> QED
  BY <1>2, <1>3, <1>4, <1>5, <1>6, <1>7, <1>8, <1>9 DEF SubPubInv

\* A publish is posted once in its round, behind the SUBSCRIBE of its task.
LEMMA PostPublishKeeps ==
    ASSUME SubPubInv, NEW t \in Tasks, PostPublish(t)
    PROVE  SubPubInv'
<1>a. CASE PoolEmpty
  <2>1. stopped' = TRUE /\ UNCHANGED <<taskVars, ulNotifiedValue, agentVars, wild, historyVars>>
    BY <1>a DEF PostPublish, taskVars, agentVars
  <2> USE DEF taskVars, agentVars, historyVars
  <2>2. TaskTypes' /\ NumberTypes' /\ Prepared'
    BY <2>1 DEF SubPubInv, TaskTypes, NumberTypes, Prepared
  <2>3. EachOnce' /\ PostedBefore'
    BY <2>1 DEF SubPubInv, EachOnce, PostedBefore, Posted, Outstanding
  <2>4. SubscribeAhead'
    BY <2>1 DEF SubPubInv, SubscribeAhead, SubscribeFirst
  <2>5. Sent'
    BY <2>1 DEF SubPubInv, Sent, Posted
  <2>6. Counted'
    BY <2>1 DEF SubPubInv, Counted
  <2> QED
    BY <2>2, <2>3, <2>4, <2>5, <2>6 DEF SubPubInv
<1>b. CASE ~PoolEmpty
  <2>0. Len(queue) \in Nat /\ Cardinality(pending) \in Nat
    BY FS_CardinalityType DEF SubPubInv, EachOnce
  <2>1. /\ pc[t] = "publish"
        /\ Len(queue) + Cardinality(pending) < PoolSize
        /\ queue' = Append(queue, Publish(t, ulValueToNotify[t]))
        /\ pc' = [pc EXCEPT ![t] = "wait"]
        /\ UNCHANGED <<ulValueToNotify, ulNotification, contextValue, payload, frame,
                       ulNotifiedValue, passed, failed, pending, stopped, wild, wire, done, inTime,
                       ran, stray>>
    BY <1>b, <2>0, PoolAssumption DEF PostPublish, PoolEmpty, historyVars
  <2>n. PICK n \in Nat : n = ulValueToNotify[t]
    BY DEF SubPubInv, TaskTypes
  <2> DEFINE c == Publish(t, n)
  <2>2. n < PublishCount /\ ~Posted(t, n)
    BY <2>1, <2>n DEF SubPubInv, TaskTypes, Posted
  <2>3. c \in Commands /\ c \notin Outstanding /\ <<t, n>> \notin inTime
    BY <2>2, IsCommand DEF SubPubInv, PostedBefore
  <2>4. /\ EachOnce'
        /\ Outstanding' = Outstanding \cup {c}
        /\ Range(queue') = Range(queue) \cup {c}
        /\ Len(queue) \in Nat /\ Len(queue') = Len(queue) + 1
        /\ \A i \in 1 .. Len(queue) : queue'[i] = queue[i] /\ queue[i] \in Range(queue)
        /\ queue'[Len(queue')] = c
    BY <2>1, <2>3, <2>n, PostKeepsOnce DEF SubPubInv
  <2>5. Posted(t, n)' /\ \A s \in Tasks, m \in Nat : Posted(s, m) => Posted(s, m)'
    BY <2>1, <2>n DEF SubPubInv, TaskTypes, Posted
  <2>6. TaskTypes'
    BY <2>1 DEF SubPubInv, TaskTypes, Places
  <2>7. NumberTypes' /\ Prepared'
    BY <2>1 DEF SubPubInv, NumberTypes, Prepared
  <2>8. PostedBefore'
    <3>1. ASSUME NEW s \in Tasks, NEW m \in Nat, Publish(s, m) \in Outstanding'
          PROVE  Publish(s, m) \in Outstanding \/ (s = t /\ m = n)
      <4>1. Publish(s, m) \in Outstanding \/ Publish(s, m) = Publish(t, n)
        BY <2>4, <3>1
      <4> QED
        BY <4>1 DEF Publish
    <3>2. \A s \in Tasks : Subscribe(s) \in Outstanding' => Subscribe(s) \in Outstanding
      BY <2>4, CommandsDiffer
    <3>3. inTime' = inTime /\ \A s \in Tasks : pc[s] \notin {"start", "subscribe"} => pc'[s] \notin {"start", "subscribe"}
      BY <2>1
    <3> QED
      BY <2>3, <2>5, <3>1, <3>2, <3>3 DEF SubPubInv, PostedBefore
  <2>9. SubscribeAhead'
    <3>1. SubscribeFirst'
      BY <2>1, <2>4, CommandsDiffer DEF SubPubInv, SubscribeAhead, SubscribeFirst
    <3>2. ASSUME NEW i \in 1 .. Len(queue'), NEW j \in 1 .. Len(queue'),
                 queue'[i].kind = "subscribe", queue'[j].kind = "publish", queue'[i].task = queue'[j].task
          PROVE  i < j
      <4>1. i # Len(queue')
        BY <2>4, <3>2, CommandsDiffer
      <4>2. i \in 1 .. Len(queue) /\ queue'[i] = queue[i]
        BY <2>4, <4>1
      <4>3. CASE j = Len(queue')
        BY <2>4, <4>2, <4>3
      <4>4. CASE j # Len(queue')
        <5>1. j \in 1 .. Len(queue) /\ queue'[j] = queue[j]
          BY <2>4, <4>4
        <5> QED
          BY <3>2, <4>2, <5>1 DEF SubPubInv, SubscribeAhead
      <4> QED
        BY <4>3, <4>4
    <3> QED
      BY <3>1, <3>2 DEF SubscribeAhead
  <2>10. Sent'
    BY <2>1, <2>5 DEF SubPubInv, Sent
  <2>11. Counted'
    BY <2>1 DEF SubPubInv, Counted, PostedBefore, Posted
  <2> QED
    BY <2>4, <2>6, <2>7, <2>8, <2>9, <2>10, <2>11 DEF SubPubInv
<1> QED
  BY <1>a, <1>b

----------------------------------------------------------------------------
(* The steps of the agent.                                                 *)

\* What a callback of c changes, if one runs: of a publish, then of a
\* SUBSCRIBE whose context is used as it was left, then of one that finds
\* something else there.
Effect(c) ==
    \/ UNCHANGED <<ulNotifiedValue, wild, inTime, stray>>
    \/ /\ c.kind = "publish"
       /\ ulNotifiedValue' = [ulNotifiedValue EXCEPT ![c.task] = contextValue[c.task]]
       /\ \/ inTime' = inTime
          \/ /\ pc[c.task] \in {"publish", "wait"} /\ ulValueToNotify[c.task] = c.n
             /\ inTime' = inTime \cup {<<c.task, c.n>>}
       /\ wild' = wild /\ stray' = stray
       /\ c \notin Outstanding'
    \/ /\ c.kind = "subscribe"
       /\ \E status \in Nat : ulNotifiedValue' = [ulNotifiedValue EXCEPT ![c.task] = status]
       /\ (frame[c.task] /\ stray' = stray) \/ stray' = stray \cup {c.task}
       /\ wild' = wild /\ inTime' = inTime
    \/ wild' = TRUE /\ UNCHANGED <<ulNotifiedValue, inTime, stray>>

\* What a step of the agent changes: c is sent, or ends, or both.
Executes(c) ==
    /\ UNCHANGED <<pc, ulValueToNotify, ulNotification, contextValue, payload, frame, passed,
                   failed, stopped>>
    /\ Outstanding' \subseteq Outstanding
    /\ queue' = queue \/ (queue # <<>> /\ queue' = Tail(queue))
    /\ \/ wire' = wire
       \/ /\ c.kind = "publish" /\ queue # <<>> /\ c = Head(queue) /\ queue' = Tail(queue)
          /\ wire' = wire \cup {<<c.task, c.n, payload[c.task]>>}
    /\ Effect(c)

\* A callback does no more than Effect says.
LEMMA CallbackEffect ==
    ASSUME NEW c \in Commands, NEW status \in Nat, Callback(c, status), c \notin Outstanding'
    PROVE  Effect(c)
<1>1. CASE c.kind = "subscribe"
  <2>1. SubscribeCallback(c, status)
    BY <1>1 DEF Callback
  <2>2. CASE /\ Notify(c.task, status)
             /\ stray' = IF frame[c.task] THEN stray ELSE stray \cup {c.task}
             /\ UNCHANGED <<wild, inTime, ran>>
    BY <1>1, <2>2 DEF Effect, Notify
  <2>3. CASE wild' = TRUE /\ UNCHANGED <<ulNotifiedValue, stray, inTime, ran>>
    BY <2>3 DEF Effect
  <2> QED
    BY <2>1, <2>2, <2>3 DEF SubscribeCallback
<1>2. CASE c.kind = "publish"
  <2>1. PublishCallback(c)
    BY <1>2 DEF Callback
  <2> QED
    BY <1>2, <2>1 DEF PublishCallback, Notify, Effect
<1> QED
  BY <1>1, <1>2, CommandFields

\* What every step of the agent has in common keeps the invariant.
LEMMA ExecutesKeeps ==
    ASSUME SubPubInv, NEW c \in Commands, c \in Outstanding, Executes(c), EachOnce'
    PROVE  SubPubInv'
<1> DEFINE u == c.task
           m == c.n
<1>1. /\ UNCHANGED <<pc, ulValueToNotify, ulNotification, contextValue, payload, frame, passed,
                     failed, stopped>>
      /\ Outstanding' \subseteq Outstanding
  BY DEF Executes
<1>2. u \in Tasks /\ m \in Nat
  BY CommandFields
<1>3. c.kind = "publish" => c = Publish(u, m) /\ Posted(u, m) /\ <<u, m>> \notin inTime
  <2>1. c.kind = "publish" => c = Publish(u, m)
    BY CommandFields
  <2> QED
    BY <1>2, <2>1 DEF SubPubInv, PostedBefore
<1>4. \A t \in Tasks, n \in Nat : Posted(t, n) <=> Posted(t, n)'
  BY <1>1 DEF Posted
<1>5. Effect(c)
  BY DEF Executes
<1>6. \/ inTime' = inTime
      \/ /\ c.kind = "publish" /\ c \notin Outstanding'
         /\ pc[u] \in {"publish", "wait"} /\ ulValueToNotify[u] = m
         /\ inTime' = inTime \cup {<<u, m>>}
  BY <1>5 DEF Effect
<1>7. \A t \in Tasks, n \in Nat : <<t, n>> \in inTime' =>
         \/ <<t, n>> \in inTime
         \/ t = u /\ n = m /\ c.kind = "publish" /\ c \notin Outstanding' /\ pc[u] \in {"publish", "wait"}
            /\ ulValueToNotify[u] = m
  BY <1>6
<1>8. TaskTypes'
  <2>1. wild' \in BOOLEAN
    BY <1>5 DEF Effect, SubPubInv, TaskTypes
  <2> QED
    BY <1>1, <2>1 DEF SubPubInv, TaskTypes
<1>9. NumberTypes'
  <2>1. ulNotifiedValue' \in [Tasks -> Nat]
    BY <1>5 DEF Effect, SubPubInv, NumberTypes, Prepared
  <2> QED
    BY <1>1, <2>1 DEF SubPubInv, NumberTypes
<1>10. Prepared'
  BY <1>1 DEF SubPubInv, Prepared
<1>11. PostedBefore'
  <2>1. \A t \in Tasks : Subscribe(t) \in Outstanding' => pc'[t] \notin {"start", "subscribe"}
    BY <1>1 DEF SubPubInv, PostedBefore
  <2>2. ASSUME NEW t \in Tasks, NEW n \in Nat, Publish(t, n) \in Outstanding'
        PROVE  Posted(t, n)' /\ <<t, n>> \notin inTime'
    <3>1. Posted(t, n) /\ <<t, n>> \notin inTime
      BY <1>1, <2>2 DEF SubPubInv, PostedBefore
    <3>2. ~(t = u /\ n = m /\ c.kind = "publish" /\ c \notin Outstanding')
      BY <1>3, <2>2
    <3> QED
      BY <1>4, <1>7, <3>1, <3>2
  <2>3. \A t \in Tasks, n \in Nat : <<t, n>> \in inTime' => Posted(t, n)'
    BY <1>3, <1>4, <1>7 DEF SubPubInv, PostedBefore
  <2>4. inTime' \in SUBSET (Tasks \X Nat)
    BY <1>2, <1>6 DEF SubPubInv, PostedBefore
  <2> QED
    BY <2>1, <2>2, <2>3, <2>4 DEF PostedBefore
<1>12. SubscribeAhead'
  <2>1. /\ queue \in Seq(Commands) /\ Len(queue) \in Nat /\ queue' \in Seq(Commands)
        /\ Range(queue) = {queue[i] : i \in 1 .. Len(queue)}
    BY RangeEquality DEF SubPubInv, EachOnce
  <2>2. queue # <<>> => /\ Len(Tail(queue)) = Len(queue) - 1 /\ Head(queue) = queue[1] /\ Len(queue) > 0
                        /\ \A i \in 1 .. Len(Tail(queue)) : Tail(queue)[i] = queue[i + 1]
                        /\ Range(Tail(queue)) \subseteq Range(queue)
    BY QueueReceive DEF SubPubInv, EachOnce
  <2>3. queue' = queue \/ (queue # <<>> /\ queue' = Tail(queue))
    BY DEF Executes
  <2>4. Range(queue') \subseteq Range(queue)
    BY <2>2, <2>3
  <2>5. SubscribeFirst'
    <3> SUFFICES ASSUME NEW t \in Tasks, Subscribe(t) \in Range(queue'), NEW w \in wire' PROVE w[1] # t
      BY DEF SubscribeFirst
    <3>1. Subscribe(t) \in Range(queue)
      BY <2>4
    <3>2. CASE w \in wire
      BY <3>1, <3>2 DEF SubPubInv, SubscribeAhead, SubscribeFirst
    <3>3. CASE w \notin wire
      <4>1. c.kind = "publish" /\ queue # <<>> /\ c = queue[1] /\ w[1] = u
        BY <3>3 DEF Executes
      <4>2. PICK i \in 1 .. Len(queue) : queue[i] = Subscribe(t)
        BY <2>1, <3>1
      <4>3. 1 \in 1 .. Len(queue) /\ ~(i < 1)
        OBVIOUS
      <4>4. queue[i].kind = "subscribe" /\ queue[i].task = t
        BY <4>2, CommandsDiffer
      <4> QED
        BY <4>1, <4>4 DEF SubPubInv, SubscribeAhead
    <3> QED
      BY <3>2, <3>3
  <2>6. ASSUME NEW i \in 1 .. Len(queue'), NEW j \in 1 .. Len(queue'),
               queue'[i].kind = "subscribe", queue'[j].kind = "publish", queue'[i].task = queue'[j].task
        PROVE  i < j
    <3>1. CASE queue' = queue
      BY <2>6, <3>1 DEF SubPubInv, SubscribeAhead
    <3>2. CASE queue # <<>> /\ queue' = Tail(queue)
      <4>1. /\ i + 1 \in 1 .. Len(queue) /\ j + 1 \in 1 .. Len(queue)
            /\ queue'[i] = queue[i + 1] /\ queue'[j] = queue[j + 1]
        BY <3>2
      <4>2. i + 1 < j + 1
        BY <2>6, <4>1 DEF SubPubInv, SubscribeAhead
      <4> QED
        BY <4>2
    <3> QED
      BY <2>3, <3>1, <3>2
  <2> QED
    BY <2>5, <2>6 DEF SubscribeAhead
<1>13. Sent'
  <2>1. wire' = wire \/ (c.kind = "publish" /\ wire' = wire \cup {<<u, m, payload[u]>>})
    BY DEF Executes
  <2>2. payload[u] \in Nat /\ payload' = payload
    BY <1>1, <1>2 DEF SubPubInv, Prepared
  <2>3. wire' \in SUBSET (Tasks \X Nat \X Nat)
    BY <1>2, <2>1, <2>2 DEF SubPubInv, Sent
  <2>4. ASSUME NEW t \in Tasks, NEW n \in Nat, NEW p \in Nat, <<t, n, p>> \in wire'
        PROVE  n <= p /\ p <= payload'[t] /\ Posted(t, n)'
    <3>1. CASE <<t, n, p>> \in wire
      BY <1>4, <2>2, <3>1 DEF SubPubInv, Sent
    <3>2. CASE <<t, n, p>> \notin wire
      <4>1. t = u /\ n = m /\ p = payload[u] /\ c.kind = "publish"
        BY <2>1, <2>4, <3>2
      <4>2. Posted(t, n)
        BY <1>3, <4>1
      <4>3. n <= payload[t]
        BY <4>2 DEF SubPubInv, Prepared, TaskTypes, Places, Posted
      <4> QED
        BY <1>4, <2>2, <4>1, <4>2, <4>3
    <3> QED
      BY <3>1, <3>2
  <2>5. ASSUME NEW t \in Tasks, NEW n \in Nat, NEW p \in Nat, <<t, n, p>> \in wire', <<t, n>> \in inTime'
        PROVE  p = n
    <3>1. n <= p /\ p <= payload[t] /\ payload[t] \in Nat
      BY <2>2, <2>4, <2>5 DEF SubPubInv, Prepared
    <3>2. CASE <<t, n>> \in inTime
      <4>1. <<t, n, p>> \in wire
        BY <1>3, <2>1, <2>5, <3>2
      <4> QED
        BY <3>2, <4>1 DEF SubPubInv, Sent
    <3>3. CASE <<t, n>> \notin inTime
      <4>1. ulValueToNotify[t] = n
        BY <1>7, <2>5, <3>3
      <4> QED
        BY <3>1, <4>1 DEF SubPubInv, Prepared
    <3> QED
      BY <3>2, <3>3
  <2> QED
    BY <2>3, <2>4, <2>5 DEF Sent
<1>14. Counted'
  <2> SUFFICES ASSUME NEW t \in Tasks, NEW n \in Nat, t \notin stray', <<t, n>> \in inTime'
               PROVE  /\ n < ulValueToNotify[t] => n \in passed[t]
                      /\ pc[t] = "wait" /\ n = ulValueToNotify[t] => ulNotifiedValue'[t] = n
                      /\ pc[t] = "check" /\ n = ulValueToNotify[t] => ulNotification[t] = n
    BY <1>1 DEF Counted
  <2>1. t \notin stray
    BY <1>5 DEF Effect
  <2>2. pc[t] = "wait" => contextValue[t] = ulValueToNotify[t] /\ ~frame[t]
    BY DEF SubPubInv, Prepared, TaskTypes
  <2>3. CASE <<t, n>> \in inTime
    <3>1. /\ n < ulValueToNotify[t] => n \in passed[t]
          /\ pc[t] = "wait" /\ n = ulValueToNotify[t] => ulNotifiedValue[t] = n
          /\ pc[t] = "check" /\ n = ulValueToNotify[t] => ulNotification[t] = n
      BY <2>1, <2>3 DEF SubPubInv, Counted
    <3>2. pc[t] = "wait" => ulNotifiedValue'[t] = ulNotifiedValue[t] \/ ulNotifiedValue'[t] = ulValueToNotify[t]
      BY <1>5, <2>2 DEF Effect, SubPubInv, NumberTypes
    <3> QED
      BY <3>1, <3>2
  <2>4. CASE <<t, n>> \notin inTime
    <3>1. t = u /\ n = m /\ c.kind = "publish" /\ pc[t] \in {"publish", "wait"} /\ ulValueToNotify[t] = n
      BY <1>7, <2>4
    <3>2. ulNotifiedValue'[t] = contextValue[t]
      BY <1>5, <2>4 DEF Effect, SubPubInv, NumberTypes
    <3> QED
      BY <2>2, <3>1, <3>2
  <2> QED
    BY <2>3, <2>4
<1> QED
  BY <1>8, <1>9, <1>10, <1>11, <1>12, <1>13, <1>14 DEF SubPubInv

\* Taking the first command from the queue.
LEMMA TakeFirst ==
    ASSUME EachOnce, queue # <<>>, queue' = Tail(queue)
    PROVE  /\ Head(queue) \in Commands /\ Head(queue) \in Range(queue) /\ Head(queue) \notin pending
           /\ queue' \in Seq(Commands) /\ IsInjective(queue')
           /\ Range(queue') = Range(queue) \ {Head(queue)}
           /\ Len(queue') = Len(queue) - 1 /\ Len(queue) \in Nat /\ Cardinality(pending) \in Nat
  BY QueueReceive, HeadTailProperties, LenProperties, FS_CardinalityType DEF EachOnce

\* The three steps of the agent are of that kind.
LEMMA SendKeeps ==
    ASSUME SubPubInv, Send
    PROVE  SubPubInv'
<1> DEFINE c == Head(queue)
<1>1. /\ queue # <<>> /\ queue' = Tail(queue) /\ Transmit(c)
      /\ UNCHANGED <<pc, ulValueToNotify, ulNotification, contextValue, payload, frame, passed,
                     failed, stopped>>
  BY DEF Send, taskVars
<1>2. /\ c \in Commands /\ c \in Range(queue) /\ c \notin pending
      /\ queue' \in Seq(Commands) /\ IsInjective(queue') /\ Range(queue') = Range(queue) \ {c}
      /\ Len(queue') = Len(queue) - 1 /\ Len(queue) \in Nat /\ Cardinality(pending) \in Nat
  BY <1>1, TakeFirst DEF SubPubInv
<1>3. \/ wire' = wire
      \/ c.kind = "publish" /\ wire' = wire \cup {<<c.task, c.n, payload[c.task]>>}
  BY <1>1 DEF Transmit
<1>4. c \in Outstanding
  BY <1>2 DEF Outstanding
<1>5. CASE Unacknowledged(c)
  <2>1. Callback(c, MQTTSuccess) /\ pending' = pending
    BY <1>5 DEF Send
  <2>2. EachOnce'
    BY <1>2, <2>1, PoolAssumption DEF SubPubInv, EachOnce
  <2>3. Outstanding' \subseteq Outstanding /\ c \notin Outstanding'
    BY <1>2, <2>1 DEF Outstanding
  <2>4. Effect(c)
    BY <1>2, <2>1, <2>3, CallbackEffect DEF MQTTSuccess
  <2>5. Executes(c)
    BY <1>1, <1>3, <2>3, <2>4 DEF Executes
  <2> QED
    BY <1>2, <1>4, <2>2, <2>5, ExecutesKeeps
<1>6. CASE ~Unacknowledged(c)
  <2>1. pending' = pending \cup {c} /\ UNCHANGED <<ulNotifiedValue, wild, inTime, stray>>
    BY <1>6 DEF Send
  <2>2. IsFiniteSet(pending') /\ Cardinality(pending') = Cardinality(pending) + 1
    BY <1>2, <2>1, FS_AddElement DEF SubPubInv, EachOnce
  <2>3. EachOnce'
    BY <1>2, <2>1, <2>2 DEF SubPubInv, EachOnce
  <2>4. Outstanding' \subseteq Outstanding
    BY <1>2, <2>1 DEF Outstanding
  <2>5. Executes(c)
    BY <1>1, <1>3, <2>1, <2>4 DEF Executes, Effect
  <2> QED
    BY <1>2, <1>4, <2>3, <2>5, ExecutesKeeps
<1> QED
  BY <1>5, <1>6

LEMMA SendFailsKeeps ==
    ASSUME SubPubInv, SendFails
    PROVE  SubPubInv'
<1> DEFINE c == Head(queue)
<1>1. /\ queue # <<>> /\ queue' = Tail(queue) /\ pending' = pending /\ wire' = wire
      /\ UNCHANGED <<pc, ulValueToNotify, ulNotification, contextValue, payload, frame, passed,
                     failed, stopped>>
  BY DEF SendFails, taskVars
<1>2. /\ c \in Commands /\ c \in Range(queue) /\ c \notin pending
      /\ queue' \in Seq(Commands) /\ IsInjective(queue') /\ Range(queue') = Range(queue) \ {c}
      /\ Len(queue') = Len(queue) - 1 /\ Len(queue) \in Nat /\ Cardinality(pending) \in Nat
  BY <1>1, TakeFirst DEF SubPubInv
<1>3. PICK status \in Failures : Callback(c, status)
  BY DEF SendFails
<1>4. EachOnce'
  BY <1>1, <1>2, PoolAssumption DEF SubPubInv, EachOnce
<1>5. Outstanding' \subseteq Outstanding /\ c \notin Outstanding' /\ c \in Outstanding
  BY <1>1, <1>2 DEF Outstanding
<1>6. Effect(c)
  BY <1>2, <1>3, <1>5, CallbackEffect, FailuresAssumption
<1>7. Executes(c)
  BY <1>1, <1>5, <1>6 DEF Executes
<1> QED
  BY <1>2, <1>4, <1>5, <1>7, ExecutesKeeps

LEMMA FinishKeeps ==
    ASSUME SubPubInv, NEW c \in Commands, Finish(c)
    PROVE  SubPubInv'
<1>1. /\ queue' = queue /\ c \in pending /\ pending' = pending \ {c} /\ wire' = wire
      /\ UNCHANGED <<pc, ulValueToNotify, ulNotification, contextValue, payload, frame, passed,
                     failed, stopped>>
  BY DEF Finish, taskVars
<1>2. PICK status \in {MQTTSuccess} \cup Failures : Callback(c, status)
  BY DEF Finish
<1>3. status \in Nat
  BY FailuresAssumption DEF MQTTSuccess
<1>4. /\ IsFiniteSet(pending') /\ Cardinality(pending') = Cardinality(pending) - 1
      /\ Cardinality(pending) \in Nat /\ Len(queue) \in Nat
  BY <1>1, FS_RemoveElement, FS_CardinalityType DEF SubPubInv, EachOnce
<1>5. EachOnce'
  BY <1>1, <1>4, PoolAssumption DEF SubPubInv, EachOnce
<1>6. Outstanding' \subseteq Outstanding /\ c \notin Outstanding' /\ c \in Outstanding
  BY <1>1 DEF Outstanding, SubPubInv, EachOnce
<1>7. Effect(c)
  BY <1>2, <1>3, <1>6, CallbackEffect
<1>8. Executes(c)
  BY <1>1, <1>6, <1>7 DEF Executes
<1> QED
  BY <1>5, <1>6, <1>8, ExecutesKeeps

----------------------------------------------------------------------------

\* Every step keeps the invariant.
LEMMA SubPubInvNext == SubPubInv /\ [Next]_vars => SubPubInv'
<1> SUFFICES ASSUME SubPubInv, [Next]_vars PROVE SubPubInv'
  OBVIOUS
<1>1. CASE UNCHANGED vars
  BY <1>1 DEF vars, taskVars, agentVars, historyVars, SubPubInv, TaskTypes, NumberTypes, Prepared,
     EachOnce,
     PostedBefore, Posted, Outstanding, SubscribeAhead, SubscribeFirst, Sent, Counted
<1>2. ASSUME NEW t \in Tasks, TaskStep(t) PROVE SubPubInv'
  BY <1>2, StartSubscribeKeeps, PostSubscribeKeeps, EndSubscribeKeeps, FormatPayloadKeeps,
     StampContextKeeps,
     PostPublishKeeps, WaitForAcknowledgmentKeeps, CheckNotificationKeeps DEF TaskStep
<1>3. CASE AgentStep
  BY <1>3, SendKeeps, SendFailsKeeps, FinishKeeps DEF AgentStep
<1>4. Halted => UNCHANGED vars
  BY DEF Halted
<1> QED
  BY <1>1, <1>2, <1>3, <1>4 DEF Next

\* The inductive invariant of the tasks.
LEMMA SubPubInvAlways == Spec => []SubPubInv
  BY SubPubInvInit, SubPubInvNext, PTL DEF Spec

----------------------------------------------------------------------------

\* Type correctness; the commands with the agent never outnumber the pool.
THEOREM SubPubTypesTheorem == Spec => []TypeOK
<1>1. SubPubInv => TypeOK
  <2> SUFFICES ASSUME SubPubInv PROVE TypeOK
    OBVIOUS
  <2>1. ulValueToNotify \in [Tasks -> 0 .. PublishCount]
    BY CountAssumption DEF SubPubInv, TaskTypes
  <2>2. queue \in Seq(Commands) /\ pending \subseteq Commands /\ Len(queue) + Cardinality(pending) <= PoolSize
    BY DEF SubPubInv, EachOnce
  <2>3. /\ pc \in [Tasks -> Places] /\ frame \in [Tasks -> BOOLEAN] /\ stopped \in BOOLEAN /\ wild \in BOOLEAN
    BY DEF SubPubInv, TaskTypes
  <2>4. NumberTypes /\ payload \in [Tasks -> Nat] /\ contextValue \in [Tasks -> Nat]
    BY DEF SubPubInv, Prepared
  <2> QED
    BY <2>1, <2>2, <2>3, <2>4 DEF TypeOK, Places, NumberTypes
<1> QED
  BY <1>1, SubPubInvAlways, PTL

\* A callback that runs while its task waits for it is counted, whatever late
\* callbacks of earlier publishes come between: all of them give the number
\* that is in the context, and that is the one waited for.
THEOREM InTimeIsCountedTheorem == Spec => []InTimeIsCounted
<1>1. SubPubInv => InTimeIsCounted
  <2> SUFFICES ASSUME SubPubInv, NEW t \in Tasks \ stray, NEW n \in 0 .. ulValueToNotify[t] - 1,
                      <<t, n>> \in inTime
               PROVE  n \in passed[t]
    BY DEF InTimeIsCounted
  <2>1. n \in Nat /\ n < ulValueToNotify[t]
    BY DEF SubPubInv, TaskTypes
  <2> QED
    BY <2>1 DEF SubPubInv, Counted
<1> QED
  BY <1>1, SubPubInvAlways, PTL

\* The buffer that every publish of a task shares has not been overwritten
\* when a command is sent whose callback comes in time, and never holds an
\* older message than the command's.
THEOREM PayloadIntactTheorem == Spec => []PayloadIntact
<1>1. SubPubInv => PayloadIntact
  <2> SUFFICES ASSUME SubPubInv, NEW w \in wire
               PROVE  w[3] >= w[2] /\ (<<w[1], w[2]>> \in inTime => w[3] = w[2])
    BY DEF PayloadIntact
  <2>1. w = <<w[1], w[2], w[3]>> /\ w[1] \in Tasks /\ w[2] \in Nat /\ w[3] \in Nat
    BY DEF SubPubInv, Sent
  <2> QED
    BY <2>1 DEF SubPubInv, Sent
<1> QED
  BY <1>1, SubPubInvAlways, PTL

\* The SUBSCRIBE of a task is sent before its publishes, although the task
\* gave up waiting for it.
THEOREM SubscribeFirstTheorem == Spec => []SubscribeFirst
<1>1. SubPubInv => SubscribeFirst
  BY DEF SubPubInv, SubscribeAhead
<1> QED
  BY <1>1, SubPubInvAlways, PTL
=============================================================================
