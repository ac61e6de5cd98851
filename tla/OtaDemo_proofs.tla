--------------------------- MODULE OtaDemo_proofs ---------------------------
(***************************************************************************)
(* For every number of event buffers, messages, operations and failures:   *)
(* the OTA library's event queue always has room for the event of a buffer *)
(* that was free, so that no buffer is leaked or used twice, an operation  *)
(* that reports success has succeeded unless an older one disturbed it,    *)
(* and while the connection is made again the OTA agent waits for nothing. *)
(***************************************************************************)
EXTENDS OtaDemo, FiniteSetTheorems, SequenceTheorems, WellFoundedInduction, TLAPS

PlainEvents == {Event(id) : id \in {"start", "timer", "suspend", "resume", "shutdown"}}
MessageEvents == {DataEvent(id, b, m) : id \in {"job", "block"}, b \in Buffers, m \in 1 .. MaxMessages}
OtaEvents == PlainEvents \cup MessageEvents

\* The events that are queued or being handled.
Pending == Range(events) \cup ({handling} \ {NULL})

\* Two events for different buffers, or of different kinds.
Differ(e, f) == e.buffer # f.buffer \/ (e.buffer = NULL /\ e.id # f.id)

AllDiffer(q, h) ==
    /\ \A i, j \in DOMAIN q : i # j => Differ(q[i], q[j])
    /\ h # NULL => \A i \in DOMAIN q : Differ(q[i], h)

----------------------------------------------------------------------------
(* The inductive invariant.                                                *)

FieldTypes ==
    /\ agent \in {"loop", "suspending", "reconnect"}
    /\ xMQTTStatus \in {"MQTTSuccess", "MQTTRecvFailed"}
    /\ demo \in {"init", "start", "poll", "ended"}
    /\ ota \in {"stopped", "ready", "active", "suspended"}
    /\ drops \in 0 .. MaxDrops /\ missed \in BOOLEAN
BufferTypes ==
    /\ used \subseteq Buffers /\ data \in [Buffers -> 0 .. MaxMessages]
    /\ messages \in 0 .. MaxMessages
OperationTypes ==
    /\ op \in [number : 0 .. MaxOperations, phase : {"post", "wait", "returned"}]
    /\ op.phase # "returned" => op.number # 0
    /\ xReturnStatus \in {"MQTTSuccess", "MQTTRecvFailed"}
    /\ notified \in BOOLEAN /\ wild \in BOOLEAN
    /\ commands \cup reported \cup done \cup mistaken \subseteq 1 .. MaxOperations
QueueTyped == events \in Seq(OtaEvents) /\ handling \in OtaEvents \cup {NULL}

\* At most one event of each kind and one for each buffer: this bounds the
\* queue.
EventsDiffer == AllDiffer(events, handling)

\* Nothing happens before OTA_Init(), and one start event is ever sent.
StartedOnce ==
    /\ demo = "init" => /\ ota = "stopped" /\ op.number = 0
                        /\ events = <<>> /\ handling = NULL
    /\ demo = "start" => Event("start") \notin Pending

\* One suspend event at a time: one left over stays in the queue of an OTA
\* agent that has stopped.
SuspendPlaces ==
    Event("suspend") \in Pending =>
        ota = "stopped" \/ (agent = "suspending" /\ ota # "suspended")

\* A suspended OTA agent is never resumed, see the status of the loop.
NeverResumed ==
    /\ Event("resume") \notin Pending
    /\ agent # "loop" => xMQTTStatus = "MQTTRecvFailed"

\* What vSuspendOTACodeSigningDemo() has waited for still holds.
AgentWaited ==
    /\ agent # "loop" /\ ~missed => demo # "init"
    /\ agent = "reconnect" /\ ~missed => ota \in {"suspended", "stopped"}

QuietOta == ota \in {"suspended", "stopped"} => op.phase = "returned"

\* What a notification tells the operation that finds it.
NotifiedIsReal ==
    op.phase # "returned" /\ notified /\ op.number \notin mistaken =>
        op.phase = "wait" /\ (xReturnStatus = "MQTTSuccess" => op.number \in done)

OtaInv ==
    /\ FieldTypes /\ BufferTypes /\ OperationTypes /\ QueueTyped
    /\ EventsDiffer /\ BuffersMatchEvents
    /\ StartedOnce /\ SuspendPlaces /\ NeverResumed /\ AgentWaited /\ QuietOta
    /\ NotifiedIsReal /\ SuccessIsReal

----------------------------------------------------------------------------
(* Events and queues.                                                      *)

\* Events are told apart by their buffers, or by their kinds.
LEMMA EventKinds ==
    /\ \A e \in PlainEvents : e.buffer = NULL /\ e = Event(e.id)
                              /\ e.id \in {"start", "timer", "suspend", "resume", "shutdown"}
    /\ \A e \in MessageEvents : e.buffer \in Buffers /\ e.buffer # NULL
                                /\ e.id \in {"job", "block"}
    /\ NULL \notin OtaEvents
<1>1. \A e \in PlainEvents : e.buffer = NULL /\ e = Event(e.id)
                             /\ e.id \in {"start", "timer", "suspend", "resume", "shutdown"}
  BY DEF PlainEvents, Event
<1>2. \A e \in MessageEvents : e.buffer \in Buffers /\ e.id \in {"job", "block"}
  BY DEF MessageEvents, DataEvent
<1>3. NULL \notin Buffers
  BY OtaAssumption
<1>4. NULL \notin OtaEvents
  <2>1. PlainEvents \subseteq [id : EventIds, buffer : Buffers \cup {NULL}, message : 0 .. MaxMessages]
    BY OtaAssumption DEF PlainEvents, Event, EventIds
  <2>2. MessageEvents \subseteq [id : EventIds, buffer : Buffers \cup {NULL}, message : 0 .. MaxMessages]
    BY OtaAssumption DEF MessageEvents, DataEvent, EventIds
  <2>3. QED
    BY <2>1, <2>2, OtaAssumption DEF OtaEvents
<1>5. QED
  BY <1>1, <1>2, <1>3, <1>4

\* An event of a kind that is not pending differs from all that are.
LEMMA PlainDiffers ==
    ASSUME NEW f \in OtaEvents, NEW id \in {"start", "timer", "suspend", "resume", "shutdown"},
           f # Event(id)
    PROVE  Differ(f, Event(id))
<1>1. Event(id).buffer = NULL /\ Event(id).id = id
  BY DEF Event
<1>2. CASE f \in PlainEvents
  BY <1>1, <1>2, EventKinds DEF Differ
<1>3. CASE f \in MessageEvents
  BY <1>1, <1>3, EventKinds DEF Differ
<1>4. QED
  BY <1>2, <1>3 DEF OtaEvents

\* What is in a queue, by its places.
LEMMA RangeOfQueue ==
    ASSUME NEW q \in Seq(OtaEvents)
    PROVE  /\ Range(q) \subseteq OtaEvents
           /\ DOMAIN q = 1 .. Len(q) /\ Len(q) \in Nat
           /\ \A i \in DOMAIN q : q[i] \in Range(q)
<1>1. DOMAIN q = 1 .. Len(q) /\ Len(q) \in Nat
  BY LenProperties
<1>2. \A i \in 1 .. Len(q) : q[i] \in OtaEvents
  BY ElementOfSeq
<1>3. QED
  BY <1>1, <1>2 DEF Range

\* An event that differs from all in the queue may be appended.
LEMMA AppendDiffers ==
    ASSUME NEW q \in Seq(OtaEvents), NEW h, NEW e \in OtaEvents, AllDiffer(q, h),
           \A f \in Range(q) \cup ({h} \ {NULL}) : Differ(f, e)
    PROVE  /\ Append(q, e) \in Seq(OtaEvents)
           /\ AllDiffer(Append(q, e), h)
           /\ Range(Append(q, e)) = Range(q) \cup {e}
<1> DEFINE p == Append(q, e)
           n == Len(q)
<1>1. DOMAIN q = 1 .. n /\ n \in Nat /\ \A i \in DOMAIN q : q[i] \in Range(q)
  BY RangeOfQueue
<1>2. /\ p \in Seq(OtaEvents) /\ Len(p) = n + 1
      /\ \A i \in 1 .. n : p[i] = q[i]
      /\ p[n + 1] = e
  BY AppendProperties
<1>3. DOMAIN p = 1 .. n + 1
  BY <1>2, LenProperties
<1> HIDE DEF p, n
<1>4. \A i \in 1 .. n + 1 : i \in 1 .. n \/ i = n + 1
  BY <1>1
<1>5. 1 .. n \subseteq 1 .. n + 1 /\ n + 1 \in 1 .. n + 1
  BY <1>1
<1>6. Range(p) = Range(q) \cup {e}
  BY <1>1, <1>2, <1>3, <1>4, <1>5 DEF Range
<1>7. \A f, g : Differ(f, g) => f.buffer # g.buffer \/ (g.buffer = NULL /\ f.id # g.id)
  BY DEF Differ
<1>8. \A i \in 1 .. n : Differ(p[i], e) /\ Differ(e, p[i])
  BY <1>1, <1>2, <1>7 DEF Differ
<1>9. ASSUME NEW i \in DOMAIN p, NEW j \in DOMAIN p, i # j
      PROVE  Differ(p[i], p[j])
  <2>1. CASE i = n + 1
    BY <1>2, <1>3, <1>4, <1>8, <1>9, <2>1
  <2>2. CASE j = n + 1
    BY <1>2, <1>3, <1>4, <1>8, <1>9, <2>2
  <2>3. CASE i \in 1 .. n /\ j \in 1 .. n
    BY <1>1, <1>2, <1>9, <2>3 DEF AllDiffer
  <2>4. QED
    BY <1>3, <1>4, <2>1, <2>2, <2>3
<1>10. ASSUME h # NULL, NEW i \in DOMAIN p
       PROVE  Differ(p[i], h)
  <2>1. CASE i = n + 1
    BY <1>2, <1>10, <2>1 DEF Differ
  <2>2. CASE i \in 1 .. n
    BY <1>1, <1>2, <1>10, <2>2 DEF AllDiffer
  <2>3. QED
    BY <1>3, <1>4, <2>1, <2>2
<1>11. AllDiffer(p, h)
  BY <1>9, <1>10 DEF AllDiffer
<1>12. QED
  BY <1>2, <1>6, <1>11 DEF p

\* OTA_SignalEvent() with an event that differs from the pending ones.
LEMMA SignalKeeps ==
    ASSUME NEW q \in Seq(OtaEvents), NEW h, NEW e \in OtaEvents, AllDiffer(q, h),
           \A f \in Range(q) \cup ({h} \ {NULL}) : Differ(f, e)
    PROVE  /\ OTA_SignalEvent(q, e) \in Seq(OtaEvents)
           /\ AllDiffer(OTA_SignalEvent(q, e), h)
           /\ \/ Range(OTA_SignalEvent(q, e)) = Range(q)
              \/ Range(OTA_SignalEvent(q, e)) = Range(q) \cup {e}
           /\ Len(q) < EventQueueLength => Range(OTA_SignalEvent(q, e)) = Range(q) \cup {e}
  BY AppendDiffers DEF OTA_SignalEvent

\* The next event is taken from the queue.
LEMMA TakeDiffers ==
    ASSUME NEW q \in Seq(OtaEvents), q # <<>>, AllDiffer(q, NULL)
    PROVE  /\ Head(q) \in OtaEvents /\ Tail(q) \in Seq(OtaEvents)
           /\ AllDiffer(Tail(q), Head(q))
           /\ Range(q) = Range(Tail(q)) \cup {Head(q)}
<1> DEFINE t == Tail(q)
           n == Len(q)
<1>1. DOMAIN q = 1 .. n /\ n \in Nat /\ n # 0
  BY RangeOfQueue, EmptySeq
<1>2. /\ Head(q) \in OtaEvents /\ t \in Seq(OtaEvents) /\ Len(t) = n - 1
      /\ \A i \in 1 .. n - 1 : t[i] = q[i + 1]
  BY HeadTailProperties
<1>3. DOMAIN t = 1 .. n - 1
  BY <1>2, LenProperties
<1>4. Head(q) = q[1]
  OBVIOUS
<1> HIDE DEF t, n
<1>5. \A i \in 1 .. n - 1 : i + 1 \in 1 .. n /\ i + 1 # 1
  BY <1>1
<1>6. 1 \in 1 .. n /\ \A i \in 1 .. n : i = 1 \/ (i - 1 \in 1 .. n - 1 /\ i = (i - 1) + 1)
  BY <1>1
<1>7. Range(q) = Range(t) \cup {q[1]}
  <2>1. \A i \in 1 .. n : i = 1 \/ \E k \in 1 .. n - 1 : q[i] = t[k]
    BY <1>2, <1>6
  <2>2. \A k \in 1 .. n - 1 : \E i \in 1 .. n : t[k] = q[i]
    BY <1>2, <1>5
  <2>3. Range(q) = {q[i] : i \in 1 .. n} /\ Range(t) = {t[i] : i \in 1 .. n - 1}
    BY <1>1, <1>3 DEF Range
  <2>4. Range(q) \subseteq Range(t) \cup {q[1]}
    BY <2>1, <2>3
  <2>5. Range(t) \cup {q[1]} \subseteq Range(q)
    BY <1>6, <2>2, <2>3
  <2>6. QED
    BY <2>4, <2>5
<1>d. \A i, j \in 1 .. n : i # j => Differ(q[i], q[j])
  BY <1>1 DEF AllDiffer
<1>8. ASSUME NEW i \in DOMAIN t, NEW j \in DOMAIN t, i # j
      PROVE  Differ(t[i], t[j])
  <2>1. /\ i + 1 \in 1 .. n /\ j + 1 \in 1 .. n /\ i + 1 # j + 1
        /\ t[i] = q[i + 1] /\ t[j] = q[j + 1]
    <3>1. i \in 1 .. n - 1 /\ j \in 1 .. n - 1
      BY <1>3
    <3>2. t[i] = q[i + 1] /\ t[j] = q[j + 1]
      BY <1>2, <3>1
    <3>3. i + 1 \in 1 .. n /\ j + 1 \in 1 .. n
      BY <1>5, <3>1
    <3>4. i + 1 # j + 1
      BY <1>1, <1>8, <3>1
    <3>5. QED
      BY <3>2, <3>3, <3>4
  <2>2. QED
    BY <1>d, <2>1
<1>9. ASSUME NEW i \in DOMAIN t
      PROVE  Differ(t[i], q[1])
  <2>1. i + 1 \in 1 .. n /\ i + 1 # 1 /\ t[i] = q[i + 1]
    BY <1>2, <1>3, <1>5
  <2>2. QED
    BY <1>d, <1>6, <2>1
<1>10. QED
  BY <1>2, <1>4, <1>7, <1>8, <1>9 DEF AllDiffer, t

\* A free buffer means that the queue has room for its event.
LEMMA RoomForMessage ==
    ASSUME OtaInv, used # Buffers
    PROVE  Len(events) < EventQueueLength
<1> DEFINE I == 1 .. Len(events)
           P == {i \in I : events[i].buffer = NULL}
           D == I \ P
           Four == {"start", "timer", "suspend", "shutdown"}
<1>1. /\ DOMAIN events = I /\ Len(events) \in Nat /\ Range(events) \subseteq OtaEvents
      /\ \A i \in I : events[i] \in Range(events) /\ events[i] \in OtaEvents
  BY RangeOfQueue DEF OtaInv, QueueTyped
<1>2. \A i, j \in I : i # j => Differ(events[i], events[j])
  BY <1>1 DEF OtaInv, EventsDiffer, AllDiffer
<1>3. [i \in P |-> events[i].id] \in Injection(P, Four)
  <2>1. \A i \in P : events[i].id \in Four
    <3> SUFFICES ASSUME NEW i \in P PROVE events[i].id \in Four
      OBVIOUS
    <3>1. events[i] \in PlainEvents
      BY <1>1, EventKinds DEF OtaEvents
    <3>2. /\ events[i] = Event(events[i].id)
          /\ events[i].id \in {"start", "timer", "suspend", "resume", "shutdown"}
      BY <3>1, EventKinds
    <3>3. events[i].id # "resume"
      BY <1>1, <3>2 DEF OtaInv, NeverResumed, Pending
    <3>4. QED
      BY <3>2, <3>3
  <2>2. \A i, j \in P : i # j => events[i].id # events[j].id
    BY <1>2 DEF Differ
  <2>3. QED
    BY <2>1, <2>2 DEF Injection, IsInjective
<1>4. [i \in D |-> events[i].buffer] \in Injection(D, used)
  <2>1. \A i \in D : events[i].buffer \in used
    BY <1>1 DEF OtaInv, BuffersMatchEvents, DataEvents
  <2>2. \A i, j \in D : i # j => events[i].buffer # events[j].buffer
    BY <1>2 DEF Differ
  <2>3. QED
    BY <2>1, <2>2 DEF Injection, IsInjective
<1>5. IsFiniteSet(Four) /\ Cardinality(Four) <= 4
  <2>1. IsFiniteSet({"start"}) /\ Cardinality({"start"}) = 1
    BY FS_Singleton
  <2>a. ASSUME NEW S, IsFiniteSet(S), NEW k \in Nat, Cardinality(S) <= k, NEW x
        PROVE  IsFiniteSet(S \cup {x}) /\ Cardinality(S \cup {x}) <= k + 1
    <3>1. IsFiniteSet(S \cup {x}) /\ Cardinality(S \cup {x}) \in {Cardinality(S), Cardinality(S) + 1}
      BY <2>a, FS_AddElement
    <3>2. Cardinality(S) \in Nat
      BY <2>a, FS_CardinalityType
    <3>3. QED
      BY <2>a, <3>1, <3>2
  <2>2. IsFiniteSet({"start"} \cup {"timer"}) /\ Cardinality({"start"} \cup {"timer"}) <= 2
    BY <2>1, <2>a
  <2>3. /\ IsFiniteSet({"start"} \cup {"timer"} \cup {"suspend"})
        /\ Cardinality({"start"} \cup {"timer"} \cup {"suspend"}) <= 3
    <3> DEFINE S == {"start"} \cup {"timer"}
    <3>1. IsFiniteSet(S) /\ Cardinality(S) <= 2
      BY <2>2
    <3> HIDE DEF S
    <3>2. IsFiniteSet(S \cup {"suspend"}) /\ Cardinality(S \cup {"suspend"}) <= 2 + 1
      BY <2>a, <3>1
    <3>3. QED
      BY <3>2 DEF S
  <2>4. /\ IsFiniteSet({"start"} \cup {"timer"} \cup {"suspend"} \cup {"shutdown"})
        /\ Cardinality({"start"} \cup {"timer"} \cup {"suspend"} \cup {"shutdown"}) <= 4
    <3> DEFINE S == {"start"} \cup {"timer"} \cup {"suspend"}
    <3>1. IsFiniteSet(S) /\ Cardinality(S) <= 3
      BY <2>3
    <3> HIDE DEF S
    <3>2. /\ IsFiniteSet(S \cup {"shutdown"})
          /\ Cardinality(S \cup {"shutdown"}) <= 3 + 1
      BY <2>a, <3>1
    <3>3. QED
      BY <3>2 DEF S
  <2>5. Four = {"start"} \cup {"timer"} \cup {"suspend"} \cup {"shutdown"}
    OBVIOUS
  <2>6. QED
    BY <2>4, <2>5
<1>6. IsFiniteSet(used) /\ Cardinality(used) \in Nat /\ Cardinality(used) < NumBuffers
  <2>1. IsFiniteSet(Buffers) /\ Cardinality(Buffers) = NumBuffers
    BY OtaAssumption, FS_Interval DEF Buffers
  <2>2. used \in SUBSET Buffers
    BY DEF OtaInv, BufferTypes
  <2>3. QED
    BY <2>1, <2>2, OtaAssumption, FS_Subset, FS_CardinalityType
<1> HIDE DEF Four, P, D
<1>7. IsFiniteSet(P) /\ Cardinality(P) \in Nat /\ Cardinality(P) <= 4
  BY <1>3, <1>5, FS_Injection, FS_CardinalityType
<1>8. IsFiniteSet(D) /\ Cardinality(D) \in Nat /\ Cardinality(D) < NumBuffers
  BY <1>4, <1>6, FS_Injection, FS_CardinalityType, OtaAssumption
<1>9. Cardinality(P \cup D) <= Cardinality(P) + Cardinality(D)
  <2>1. IsFiniteSet(P \cap D)
    BY <1>7, FS_Intersection
  <2>2. Cardinality(P \cap D) \in Nat
    BY <2>1, FS_CardinalityType
  <2>3. Cardinality(P \cup D) = Cardinality(P) + Cardinality(D) - Cardinality(P \cap D)
    BY <1>7, <1>8, FS_Union
  <2>4. QED
    BY <1>7, <1>8, <2>2, <2>3
<1>10. P \cup D = I
  BY DEF P, D
<1>11. Cardinality(I) = Len(events)
  BY <1>1, FS_Interval
<1>12. Len(events) <= Cardinality(P) + Cardinality(D)
  BY <1>9, <1>10, <1>11
<1>13. QED
  BY <1>1, <1>7, <1>8, <1>12, OtaAssumption

\* A plain event is sent that is not pending.
LEMMA SignalsPlain ==
    ASSUME OtaInv, NEW id \in {"start", "timer", "suspend", "resume", "shutdown"},
           Event(id) \notin Pending,
           events' = OTA_SignalEvent(events, Event(id)), UNCHANGED handling
    PROVE  /\ QueueTyped' /\ EventsDiffer' /\ DataEvents' = DataEvents
           /\ Pending' = Pending \/ Pending' = Pending \cup {Event(id)}
<1> DEFINE e == Event(id)
<1>1. /\ events \in Seq(OtaEvents) /\ handling \in OtaEvents \cup {NULL}
      /\ AllDiffer(events, handling) /\ Range(events) \subseteq OtaEvents
  BY RangeOfQueue DEF OtaInv, QueueTyped, EventsDiffer
<1>2. e \in PlainEvents
  BY DEF PlainEvents
<1>3. e \in OtaEvents /\ e.buffer = NULL
  BY <1>2, EventKinds DEF OtaEvents
<1>4. \A f \in Range(events) \cup ({handling} \ {NULL}) : Differ(f, e)
  BY <1>1, PlainDiffers DEF Pending
<1> HIDE DEF e
<1>5. /\ OTA_SignalEvent(events, e) \in Seq(OtaEvents)
      /\ AllDiffer(OTA_SignalEvent(events, e), handling)
      /\ \/ Range(OTA_SignalEvent(events, e)) = Range(events)
         \/ Range(OTA_SignalEvent(events, e)) = Range(events) \cup {e}
  BY <1>1, <1>3, <1>4, SignalKeeps
<1>6. events' = OTA_SignalEvent(events, e)
  BY DEF e
<1>7. QueueTyped' /\ EventsDiffer'
  BY <1>1, <1>5, <1>6 DEF QueueTyped, EventsDiffer
<1>8. Range(events') = Range(events) \/ Range(events') = Range(events) \cup {e}
  BY <1>5, <1>6
<1>9. Pending' = Pending \/ Pending' = Pending \cup {e}
  BY <1>8 DEF Pending
<1>10. DataEvents' = DataEvents
  BY <1>3, <1>8 DEF DataEvents
<1>11. QED
  BY <1>7, <1>9, <1>10 DEF e

\* The kinds of the events.
LEMMA EventsOfKinds ==
    \A i, j \in {"start", "timer", "suspend", "resume", "shutdown"} :
        Event(i) = Event(j) => i = j
<1>1. \A i \in {"start", "timer", "suspend", "resume", "shutdown"} : Event(i).id = i
  BY DEF Event
<1>2. QED
  BY <1>1

\* prvOTAEventBufferGet() finds a buffer that is free.
LEMMA LowestIsIn ==
    ASSUME NEW S, S \subseteq Nat, S # {}
    PROVE  LowestIn(S) \in S
<1> DEFINE LessThan == {p \in Nat \X Nat : p[1] < p[2]}
<1>1. PICK i \in S : \A j \in S : <<j, i>> \notin LessThan
  <2>1. IsWellFoundedOn(LessThan, Nat)
    BY NatLessThanWellFounded DEF OpToRel
  <2> HIDE DEF LessThan
  <2>2. QED
    BY <2>1, WFMin
<1>2. ASSUME NEW j \in S PROVE i <= j
  <2>1. i \in Nat /\ j \in Nat /\ <<j, i>> \notin LessThan
    BY <1>1
  <2>2. j < i => <<j, i>> \in LessThan
    BY <2>1
  <2>3. QED
    BY <2>1, <2>2
<1>3. QED
  BY <1>2 DEF LowestIn

----------------------------------------------------------------------------
(* Every action keeps the invariant.                                       *)

\* Each action keeps the invariant.  In each proof the first step says what the
\* action changes; then one step follows for each part of the invariant.
LEMMA InitDemoKeeps ==
    ASSUME OtaInv, InitDemo
    PROVE  OtaInv'
<1> USE DEF InitDemo, agentVars, bufferVars, opVars, callbackVars, commandVars
<1>1. /\ events \in Seq(OtaEvents) /\ handling \in OtaEvents \cup {NULL}
      /\ AllDiffer(events, handling) /\ Range(events) \subseteq OtaEvents
  BY RangeOfQueue DEF OtaInv, QueueTyped, EventsDiffer
<1>2. Pending = {} /\ Pending' = {}
  BY DEF OtaInv, StartedOnce, Pending, Range
<1>3. FieldTypes' /\ BufferTypes'
  BY DEF OtaInv, FieldTypes, BufferTypes
<1>4. OperationTypes'
  BY DEF OtaInv, OperationTypes
<1>5. QueueTyped' /\ EventsDiffer'
  BY DEF OtaInv, QueueTyped, EventsDiffer
<1>6. BuffersMatchEvents'
  BY DEF OtaInv, BuffersMatchEvents, DataEvents
<1>7. StartedOnce'
  BY <1>2 DEF StartedOnce
<1>8. SuspendPlaces' /\ NeverResumed'
  BY <1>2 DEF OtaInv, SuspendPlaces, NeverResumed
<1>9. AgentWaited' /\ QuietOta'
  BY DEF OtaInv, AgentWaited, QuietOta
<1>10. NotifiedIsReal' /\ SuccessIsReal'
  BY DEF OtaInv, NotifiedIsReal, SuccessIsReal
<1>11. QED
  BY <1>3, <1>4, <1>5, <1>6, <1>7, <1>8, <1>9, <1>10 DEF OtaInv

LEMMA StartDemoKeeps ==
    ASSUME OtaInv, StartDemo
    PROVE  OtaInv'
<1> USE DEF StartDemo, agentVars, bufferVars, opVars, callbackVars, commandVars
<1>1. /\ events \in Seq(OtaEvents) /\ handling \in OtaEvents \cup {NULL}
      /\ AllDiffer(events, handling) /\ Range(events) \subseteq OtaEvents
  BY RangeOfQueue DEF OtaInv, QueueTyped, EventsDiffer
<1>2. Event("start") \notin Pending
  BY DEF OtaInv, StartedOnce
<1>3. /\ QueueTyped' /\ EventsDiffer' /\ DataEvents' = DataEvents
      /\ Pending' = Pending \/ Pending' = Pending \cup {Event("start")}
  BY <1>2, SignalsPlain
<1>4. FieldTypes' /\ BufferTypes'
  BY DEF OtaInv, FieldTypes, BufferTypes
<1>5. OperationTypes'
  BY DEF OtaInv, OperationTypes
<1>6. QueueTyped' /\ EventsDiffer'
  BY <1>3
<1>7. BuffersMatchEvents'
  BY <1>3 DEF OtaInv, BuffersMatchEvents
<1>8. StartedOnce'
  BY DEF StartedOnce
<1>9. SuspendPlaces' /\ NeverResumed'
  BY <1>3, EventsOfKinds DEF OtaInv, SuspendPlaces, NeverResumed
<1>10. AgentWaited' /\ QuietOta'
  BY DEF OtaInv, AgentWaited, QuietOta
<1>11. NotifiedIsReal' /\ SuccessIsReal'
  BY DEF OtaInv, NotifiedIsReal, SuccessIsReal
<1>12. QED
  BY <1>4, <1>5, <1>6, <1>7, <1>8, <1>9, <1>10, <1>11 DEF OtaInv

LEMMA EndDemoKeeps ==
    ASSUME OtaInv, EndDemo
    PROVE  OtaInv'
<1> USE DEF EndDemo, agentVars, bufferVars, opVars, callbackVars, commandVars
<1>1. /\ events \in Seq(OtaEvents) /\ handling \in OtaEvents \cup {NULL}
      /\ AllDiffer(events, handling) /\ Range(events) \subseteq OtaEvents
  BY RangeOfQueue DEF OtaInv, QueueTyped, EventsDiffer
<1>2. FieldTypes' /\ BufferTypes'
  BY DEF OtaInv, FieldTypes, BufferTypes
<1>3. OperationTypes'
  BY DEF OtaInv, OperationTypes
<1>4. QueueTyped' /\ EventsDiffer'
  BY DEF OtaInv, QueueTyped, EventsDiffer
<1>5. BuffersMatchEvents'
  BY DEF OtaInv, BuffersMatchEvents, DataEvents
<1>6. StartedOnce'
  BY DEF StartedOnce
<1>7. SuspendPlaces' /\ NeverResumed'
  BY DEF OtaInv, SuspendPlaces, NeverResumed, Pending
<1>8. AgentWaited' /\ QuietOta'
  BY DEF OtaInv, AgentWaited, QuietOta
<1>9. NotifiedIsReal' /\ SuccessIsReal'
  BY DEF OtaInv, NotifiedIsReal, SuccessIsReal
<1>10. QED
  BY <1>2, <1>3, <1>4, <1>5, <1>6, <1>7, <1>8, <1>9 DEF OtaInv

LEMMA StartOperationKeeps ==
    ASSUME OtaInv, handling # NULL, ota \in {"ready", "active"}, StartOperation
    PROVE  OtaInv'
<1> USE DEF StartOperation, agentVars, bufferVars, opVars, callbackVars, commandVars
<1>1. /\ events \in Seq(OtaEvents) /\ handling \in OtaEvents \cup {NULL}
      /\ AllDiffer(events, handling) /\ Range(events) \subseteq OtaEvents
  BY RangeOfQueue DEF OtaInv, QueueTyped, EventsDiffer
<1>2. FieldTypes' /\ BufferTypes'
  BY DEF OtaInv, FieldTypes, BufferTypes
<1>3. OperationTypes'
  <2>1. /\ op' \in [number : 0 .. MaxOperations, phase : {"post", "wait", "returned"}]
        /\ op'.phase # "returned" => op'.number # 0
    BY OtaAssumption DEF OtaInv, OperationTypes
  <2>2. xReturnStatus' \in {"MQTTSuccess", "MQTTRecvFailed"}
    OBVIOUS
  <2>3. notified' \in BOOLEAN /\ wild' \in BOOLEAN
    BY DEF OtaInv, OperationTypes
  <2>4. commands' \cup reported' \cup done' \cup mistaken' \subseteq 1 .. MaxOperations
    BY DEF OtaInv, OperationTypes
  <2>5. QED
    BY <2>1, <2>3, <2>4 DEF OperationTypes
<1>4. QueueTyped' /\ EventsDiffer'
  BY DEF OtaInv, QueueTyped, EventsDiffer
<1>5. BuffersMatchEvents'
  BY DEF OtaInv, BuffersMatchEvents, DataEvents
<1>6. StartedOnce'
  BY DEF OtaInv, StartedOnce, Pending
<1>7. SuspendPlaces' /\ NeverResumed'
  BY DEF OtaInv, SuspendPlaces, NeverResumed, Pending
<1>8. AgentWaited' /\ QuietOta'
  BY DEF OtaInv, AgentWaited, QuietOta
<1>9. NotifiedIsReal' /\ SuccessIsReal'
  BY DEF OtaInv, NotifiedIsReal, SuccessIsReal
<1>10. QED
  BY <1>2, <1>3, <1>4, <1>5, <1>6, <1>7, <1>8, <1>9 DEF OtaInv

LEMMA PostCommandKeeps ==
    ASSUME OtaInv, PostCommand
    PROVE  OtaInv'
<1> USE DEF PostCommand, agentVars, bufferVars, opVars, callbackVars, commandVars
<1>1. /\ events \in Seq(OtaEvents) /\ handling \in OtaEvents \cup {NULL}
      /\ AllDiffer(events, handling) /\ Range(events) \subseteq OtaEvents
  BY RangeOfQueue DEF OtaInv, QueueTyped, EventsDiffer
<1>2. FieldTypes' /\ BufferTypes'
  BY DEF OtaInv, FieldTypes, BufferTypes
<1>3. OperationTypes'
  BY DEF OtaInv, OperationTypes
<1>4. QueueTyped' /\ EventsDiffer'
  BY DEF OtaInv, QueueTyped, EventsDiffer
<1>5. BuffersMatchEvents'
  BY DEF OtaInv, BuffersMatchEvents, DataEvents
<1>6. StartedOnce'
  BY DEF OtaInv, StartedOnce, Pending, OperationTypes
<1>7. SuspendPlaces' /\ NeverResumed'
  BY DEF OtaInv, SuspendPlaces, NeverResumed, Pending
<1>8. AgentWaited' /\ QuietOta'
  BY DEF OtaInv, AgentWaited, QuietOta
<1>9. NotifiedIsReal' /\ SuccessIsReal'
  BY DEF OtaInv, NotifiedIsReal, SuccessIsReal, OperationTypes
<1>10. QED
  BY <1>2, <1>3, <1>4, <1>5, <1>6, <1>7, <1>8, <1>9 DEF OtaInv

LEMMA WaitEndsKeeps ==
    ASSUME OtaInv, WaitEnds
    PROVE  OtaInv'
<1> USE DEF WaitEnds, agentVars, bufferVars, opVars, callbackVars, commandVars
<1>1. /\ events \in Seq(OtaEvents) /\ handling \in OtaEvents \cup {NULL}
      /\ AllDiffer(events, handling) /\ Range(events) \subseteq OtaEvents
  BY RangeOfQueue DEF OtaInv, QueueTyped, EventsDiffer
<1>2. FieldTypes' /\ BufferTypes'
  BY DEF OtaInv, FieldTypes, BufferTypes
<1>3. OperationTypes'
  <2>1. /\ op' \in [number : 0 .. MaxOperations, phase : {"post", "wait", "returned"}]
        /\ op'.phase # "returned" => op'.number # 0
    BY DEF OtaInv, OperationTypes
  <2>2. xReturnStatus' \in {"MQTTSuccess", "MQTTRecvFailed"}
    BY DEF OtaInv, OperationTypes
  <2>3. notified' \in BOOLEAN /\ wild' \in BOOLEAN
    BY DEF OtaInv, OperationTypes
  <2>4. commands' \cup reported' \cup done' \cup mistaken' \subseteq 1 .. MaxOperations
    BY DEF OtaInv, OperationTypes
  <2>5. QED
    BY <2>1, <2>2, <2>3, <2>4 DEF OperationTypes
<1>4. QueueTyped' /\ EventsDiffer'
  BY DEF OtaInv, QueueTyped, EventsDiffer
<1>5. BuffersMatchEvents'
  BY DEF OtaInv, BuffersMatchEvents, DataEvents
<1>6. StartedOnce'
  BY DEF OtaInv, StartedOnce, Pending
<1>7. SuspendPlaces' /\ NeverResumed'
  BY DEF OtaInv, SuspendPlaces, NeverResumed, Pending
<1>8. AgentWaited' /\ QuietOta'
  BY DEF OtaInv, AgentWaited, QuietOta
<1>9. NotifiedIsReal' /\ SuccessIsReal'
  BY DEF OtaInv, NotifiedIsReal, SuccessIsReal
<1>10. QED
  BY <1>2, <1>3, <1>4, <1>5, <1>6, <1>7, <1>8, <1>9 DEF OtaInv

LEMMA WaitTimesOutKeeps ==
    ASSUME OtaInv, WaitTimesOut
    PROVE  OtaInv'
<1> USE DEF WaitTimesOut, agentVars, bufferVars, opVars, callbackVars, commandVars
<1>1. /\ events \in Seq(OtaEvents) /\ handling \in OtaEvents \cup {NULL}
      /\ AllDiffer(events, handling) /\ Range(events) \subseteq OtaEvents
  BY RangeOfQueue DEF OtaInv, QueueTyped, EventsDiffer
<1>2. FieldTypes' /\ BufferTypes'
  BY DEF OtaInv, FieldTypes, BufferTypes
<1>3. OperationTypes'
  BY DEF OtaInv, OperationTypes
<1>4. QueueTyped' /\ EventsDiffer'
  BY DEF OtaInv, QueueTyped, EventsDiffer
<1>5. BuffersMatchEvents'
  BY DEF OtaInv, BuffersMatchEvents, DataEvents
<1>6. StartedOnce'
  BY DEF OtaInv, StartedOnce, Pending
<1>7. SuspendPlaces' /\ NeverResumed'
  BY DEF OtaInv, SuspendPlaces, NeverResumed, Pending
<1>8. AgentWaited' /\ QuietOta'
  BY DEF OtaInv, AgentWaited, QuietOta
<1>9. NotifiedIsReal' /\ SuccessIsReal'
  BY DEF OtaInv, NotifiedIsReal, SuccessIsReal
<1>10. QED
  BY <1>2, <1>3, <1>4, <1>5, <1>6, <1>7, <1>8, <1>9 DEF OtaInv

LEMMA TakeEventKeeps ==
    ASSUME OtaInv, TakeEvent
    PROVE  OtaInv'
<1> USE DEF TakeEvent, agentVars, bufferVars, opVars, callbackVars, commandVars
<1>1. /\ events \in Seq(OtaEvents) /\ handling \in OtaEvents \cup {NULL}
      /\ AllDiffer(events, handling) /\ Range(events) \subseteq OtaEvents
  BY RangeOfQueue DEF OtaInv, QueueTyped, EventsDiffer
<1>2. /\ events \in Seq(OtaEvents) /\ events # <<>> /\ AllDiffer(events, NULL)
  BY <1>1
<1>3. /\ handling' \in OtaEvents /\ events' \in Seq(OtaEvents)
      /\ AllDiffer(events', handling')
      /\ Range(events) = Range(events') \cup {handling'}
  BY <1>2, TakeDiffers
<1>4. Pending' = Pending
  BY <1>3, EventKinds DEF Pending
<1>5. FieldTypes' /\ BufferTypes'
  BY DEF OtaInv, FieldTypes, BufferTypes
<1>6. OperationTypes'
  BY DEF OtaInv, OperationTypes
<1>7. QueueTyped' /\ EventsDiffer'
  BY <1>3 DEF QueueTyped, EventsDiffer
<1>8. BuffersMatchEvents'
  BY <1>4 DEF OtaInv, BuffersMatchEvents, DataEvents, Pending
<1>9. StartedOnce'
  BY <1>4 DEF OtaInv, StartedOnce
<1>10. SuspendPlaces' /\ NeverResumed'
  BY <1>4 DEF OtaInv, SuspendPlaces, NeverResumed
<1>11. AgentWaited' /\ QuietOta'
  BY DEF OtaInv, AgentWaited, QuietOta
<1>12. NotifiedIsReal' /\ SuccessIsReal'
  BY DEF OtaInv, NotifiedIsReal, SuccessIsReal
<1>13. QED
  BY <1>5, <1>6, <1>7, <1>8, <1>9, <1>10, <1>11, <1>12 DEF OtaInv

LEMMA FinishMessageKeeps ==
    ASSUME OtaInv, FinishMessage
    PROVE  OtaInv'
<1> USE DEF FinishMessage, agentVars, bufferVars, opVars, callbackVars, commandVars
<1>1. /\ events \in Seq(OtaEvents) /\ handling \in OtaEvents \cup {NULL}
      /\ AllDiffer(events, handling) /\ Range(events) \subseteq OtaEvents
  BY RangeOfQueue DEF OtaInv, QueueTyped, EventsDiffer
<1>2. /\ handling \in MessageEvents /\ handling # NULL
      /\ handling.buffer \in Buffers /\ handling.buffer # NULL
  BY <1>1, EventKinds DEF OtaEvents
<1>3. AllDiffer(events, NULL) /\ \A f \in Range(events) : Differ(f, handling)
  BY <1>1 DEF AllDiffer, Range
<1>4. /\ events' \in Seq(OtaEvents) /\ AllDiffer(events', NULL)
      /\ \/ Range(events') = Range(events)
         \/ Range(events') = Range(events) \cup {Event("shutdown")}
  <2>1. CASE UNCHANGED events
    BY <1>1, <1>3, <2>1
  <2>2. CASE events' # events
    <3>1. Event("shutdown") \notin Range(events) /\ events' = OTA_SignalEvent(events, Event("shutdown"))
      BY <2>2 DEF otaAppCallback
    <3>2. Event("shutdown") \in OtaEvents
      BY DEF OtaEvents, PlainEvents
    <3>3. \A f \in Range(events) \cup ({NULL} \ {NULL}) : Differ(f, Event("shutdown"))
      BY <1>1, <3>1, PlainDiffers
    <3>4. /\ OTA_SignalEvent(events, Event("shutdown")) \in Seq(OtaEvents)
          /\ AllDiffer(OTA_SignalEvent(events, Event("shutdown")), NULL)
          /\ \/ Range(OTA_SignalEvent(events, Event("shutdown"))) = Range(events)
             \/ Range(OTA_SignalEvent(events, Event("shutdown"))) = Range(events) \cup {Event("shutdown")}
      BY <1>1, <1>3, <3>2, <3>3, SignalKeeps
    <3>5. QED
      BY <3>1, <3>4
  <2>3. QED
    BY <2>1, <2>2
<1>5. handling' = NULL /\ Event("shutdown").buffer = NULL
  BY DEF Event
<1>6. Pending' = Range(events') /\ Range(events) \subseteq Pending
  BY DEF Pending
<1>7. \A e \in DataEvents' : e \in DataEvents /\ e.buffer # handling.buffer
  BY <1>3, <1>4, <1>5 DEF DataEvents, Differ
<1>8. \A e \in DataEvents : e = handling \/ e \in DataEvents'
  BY <1>4 DEF DataEvents
<1>9. used' = used \ {handling.buffer} /\ data' = data
  BY DEF prvOTAEventBufferFree
<1>10. FieldTypes' /\ BufferTypes'
  BY <1>9 DEF OtaInv, FieldTypes, BufferTypes
<1>11. OperationTypes'
  BY DEF OtaInv, OperationTypes
<1>12. QueueTyped' /\ EventsDiffer'
  BY <1>4 DEF QueueTyped, EventsDiffer
<1>13. BuffersMatchEvents'
  BY <1>7, <1>8, <1>9 DEF OtaInv, BuffersMatchEvents
<1>14. StartedOnce'
  BY <1>4, EventsOfKinds DEF OtaInv, StartedOnce, Pending
<1>15. SuspendPlaces' /\ NeverResumed'
  BY <1>4, EventsOfKinds DEF OtaInv, SuspendPlaces, NeverResumed, Pending
<1>16. AgentWaited' /\ QuietOta'
  BY DEF OtaInv, AgentWaited, QuietOta
<1>17. NotifiedIsReal' /\ SuccessIsReal'
  BY DEF OtaInv, NotifiedIsReal, SuccessIsReal
<1>18. QED
  BY <1>10, <1>11, <1>12, <1>13, <1>14, <1>15, <1>16, <1>17 DEF OtaInv

LEMMA FinishEventKeeps ==
    ASSUME OtaInv, FinishEvent
    PROVE  OtaInv'
<1> USE DEF FinishEvent, agentVars, bufferVars, opVars, callbackVars, commandVars
<1>1. /\ events \in Seq(OtaEvents) /\ handling \in OtaEvents \cup {NULL}
      /\ AllDiffer(events, handling) /\ Range(events) \subseteq OtaEvents
  BY RangeOfQueue DEF OtaInv, QueueTyped, EventsDiffer
<1>2. /\ handling # NULL /\ handling \in PlainEvents /\ handling = Event(handling.id)
      /\ handling.id \in {"start", "timer", "suspend", "resume", "shutdown"}
  BY <1>1, EventKinds DEF OtaEvents
<1>3. \A f \in Range(events) : Differ(f, handling)
  BY <1>1 DEF AllDiffer, Range
<1>4. handling \notin Range(events)
  BY <1>3 DEF Differ
<1>5. Pending' = Pending \ {handling} /\ handling \in Pending /\ DataEvents' = DataEvents
  BY <1>4 DEF Pending, DataEvents
<1>6. handling' = NULL /\ AllDiffer(events', handling')
  BY <1>1 DEF AllDiffer
<1>7. ota' = StateAfter(handling.id) /\ handling.id # "resume"
  BY <1>2, <1>5 DEF OtaInv, NeverResumed
<1>8. FieldTypes' /\ BufferTypes'
  BY DEF OtaInv, FieldTypes, BufferTypes, StateAfter
<1>9. OperationTypes'
  BY DEF OtaInv, OperationTypes
<1>10. QueueTyped' /\ EventsDiffer'
  BY <1>6 DEF OtaInv, QueueTyped, EventsDiffer
<1>11. BuffersMatchEvents'
  BY DEF OtaInv, BuffersMatchEvents, DataEvents
<1>12. StartedOnce'
  BY DEF OtaInv, StartedOnce, Pending
<1>13. SuspendPlaces' /\ NeverResumed'
  <2>1. Event("suspend") \in Pending' => handling.id # "suspend"
    BY <1>2, <1>5
  <2>2. SuspendPlaces'
    BY <1>5, <2>1 DEF OtaInv, SuspendPlaces, StateAfter
  <2>3. QED
    BY <1>5, <2>2 DEF OtaInv, NeverResumed
<1>14. AgentWaited' /\ QuietOta'
  BY <1>7 DEF OtaInv, AgentWaited, QuietOta, StateAfter
<1>15. NotifiedIsReal' /\ SuccessIsReal'
  BY DEF OtaInv, NotifiedIsReal, SuccessIsReal
<1>16. QED
  BY <1>8, <1>9, <1>10, <1>11, <1>12, <1>13, <1>14, <1>15 DEF OtaInv

LEMMA TimerFiresKeeps ==
    ASSUME OtaInv, TimerFires
    PROVE  OtaInv'
<1> USE DEF TimerFires, agentVars, bufferVars, opVars, callbackVars, commandVars
<1>1. /\ events \in Seq(OtaEvents) /\ handling \in OtaEvents \cup {NULL}
      /\ AllDiffer(events, handling) /\ Range(events) \subseteq OtaEvents
  BY RangeOfQueue DEF OtaInv, QueueTyped, EventsDiffer
<1>2. Event("timer") \notin Pending
  BY DEF Pending
<1>3. /\ QueueTyped' /\ EventsDiffer' /\ DataEvents' = DataEvents
      /\ Pending' = Pending \/ Pending' = Pending \cup {Event("timer")}
  BY <1>2, SignalsPlain
<1>4. FieldTypes' /\ BufferTypes'
  BY DEF OtaInv, FieldTypes, BufferTypes
<1>5. OperationTypes'
  BY DEF OtaInv, OperationTypes
<1>6. QueueTyped' /\ EventsDiffer'
  BY <1>3
<1>7. BuffersMatchEvents'
  BY <1>3 DEF OtaInv, BuffersMatchEvents
<1>8. StartedOnce'
  BY <1>3, EventsOfKinds DEF OtaInv, StartedOnce
<1>9. SuspendPlaces' /\ NeverResumed'
  BY <1>3, EventsOfKinds DEF OtaInv, SuspendPlaces, NeverResumed
<1>10. AgentWaited' /\ QuietOta'
  BY DEF OtaInv, AgentWaited, QuietOta
<1>11. NotifiedIsReal' /\ SuccessIsReal'
  BY DEF OtaInv, NotifiedIsReal, SuccessIsReal
<1>12. QED
  BY <1>4, <1>5, <1>6, <1>7, <1>8, <1>9, <1>10, <1>11 DEF OtaInv

LEMMA IncomingMessageKeeps ==
    ASSUME OtaInv, NEW topic \in Topics, IncomingMessage(topic)
    PROVE  OtaInv'
<1> USE DEF IncomingMessage, agentVars, bufferVars, opVars, callbackVars, commandVars
<1>1. /\ events \in Seq(OtaEvents) /\ handling \in OtaEvents \cup {NULL}
      /\ AllDiffer(events, handling) /\ Range(events) \subseteq OtaEvents
  BY RangeOfQueue DEF OtaInv, QueueTyped, EventsDiffer
<1>2. messages' = messages + 1 /\ messages' \in 1 .. MaxMessages
  BY OtaAssumption DEF OtaInv, BufferTypes
<1>3. \/ UNCHANGED <<used, data, events>>
      \/ \E id \in {"job", "block"}, b \in Buffers \ used :
            /\ used' = used \cup {b}
            /\ data' = [data EXCEPT ![b] = messages']
            /\ events' = OTA_SignalEvent(events, DataEvent(id, b, messages'))
  <2> DEFINE id == vOTAProcessMessage(topic)
             b == prvOTAEventBufferGet
  <2>1. id \in {"job", "block", "none"}
    BY DEF vOTAProcessMessage
  <2>2. b # NULL => b \in Buffers \ used
    <3>1. Buffers \ used \subseteq Nat
      BY DEF Buffers
    <3>2. Buffers # used => Buffers \ used # {}
      BY DEF OtaInv, BufferTypes
    <3>3. QED
      BY <3>1, <3>2, LowestIsIn DEF prvOTAEventBufferGet
  <2>3. \/ UNCHANGED <<used, data, events>>
        \/ /\ id # "none" /\ b # NULL
           /\ used' = used \cup {b}
           /\ data' = [data EXCEPT ![b] = messages']
           /\ events' = OTA_SignalEvent(events, DataEvent(id, b, messages'))
    OBVIOUS
  <2> HIDE DEF id, b
  <2>4. QED
    BY <2>1, <2>2, <2>3
<1>4. CASE UNCHANGED <<used, data, events>>
  <2>1. BufferTypes' /\ QueueTyped' /\ EventsDiffer' /\ BuffersMatchEvents'
    BY <1>2, <1>4 DEF OtaInv, BufferTypes, QueueTyped, EventsDiffer, BuffersMatchEvents, DataEvents
  <2>2. Pending' = Pending
    BY <1>4 DEF Pending
  <2>3. QED
    BY <2>1, <2>2 DEF OtaInv, FieldTypes, OperationTypes, StartedOnce, SuspendPlaces, NeverResumed,
       AgentWaited, QuietOta, NotifiedIsReal, SuccessIsReal
<1>5. CASE ~UNCHANGED <<used, data, events>>
  <2>1. PICK id \in {"job", "block"}, b \in Buffers \ used :
            /\ used' = used \cup {b}
            /\ data' = [data EXCEPT ![b] = messages']
            /\ events' = OTA_SignalEvent(events, DataEvent(id, b, messages'))
    BY <1>3, <1>5
  <2> DEFINE e == DataEvent(id, b, messages')
  <2>2. e \in MessageEvents /\ e.buffer = b /\ e.message = messages' /\ b # NULL
    BY <1>2, OtaAssumption DEF MessageEvents, DataEvent
  <2> HIDE DEF e
  <2>3. \A f \in Pending : Differ(f, e)
    <3> SUFFICES ASSUME NEW f \in Pending, f.buffer = b PROVE FALSE
      BY <2>2 DEF Differ
    <3>1. f \in DataEvents
      BY <2>2 DEF DataEvents, Pending
    <3>2. QED
      BY <3>1 DEF OtaInv, BuffersMatchEvents
  <2>4. Len(events) < EventQueueLength
    BY RoomForMessage
  <2>5. e \in OtaEvents
    BY <2>2 DEF OtaEvents
  <2>6. /\ OTA_SignalEvent(events, e) \in Seq(OtaEvents)
        /\ AllDiffer(OTA_SignalEvent(events, e), handling)
        /\ Range(OTA_SignalEvent(events, e)) = Range(events) \cup {e}
    BY <1>1, <2>3, <2>4, <2>5, SignalKeeps DEF Pending
  <2>7. events' = OTA_SignalEvent(events, e) /\ handling' = handling
    BY <2>1 DEF e
  <2>8. QueueTyped' /\ EventsDiffer'
    BY <1>1, <2>6, <2>7 DEF QueueTyped, EventsDiffer
  <2>9. Pending' = Pending \cup {e} /\ DataEvents' = DataEvents \cup {e}
    BY <2>2, <2>6, <2>7 DEF Pending, DataEvents
  <2>10. BufferTypes'
    BY <1>2, <2>1 DEF OtaInv, BufferTypes
  <2>11. BuffersMatchEvents'
    <3>1. used' = {f.buffer : f \in DataEvents'}
      BY <2>1, <2>2, <2>9 DEF OtaInv, BuffersMatchEvents
    <3>2. ASSUME NEW f \in DataEvents PROVE data'[f.buffer] = f.message
      <4>1. f.buffer \in used /\ data[f.buffer] = f.message
        BY DEF OtaInv, BuffersMatchEvents
      <4>2. QED
        BY <2>1, <4>1
    <3>3. data'[e.buffer] = e.message
      BY <2>1, <2>2 DEF OtaInv, BufferTypes
    <3>4. QED
      BY <2>9, <3>1, <3>2, <3>3 DEF BuffersMatchEvents
  <2>12. \A k \in {"start", "timer", "suspend", "resume", "shutdown"} : e # Event(k)
    BY <2>2 DEF Event
  <2>13. demo # "init"
    BY DEF OtaInv, StartedOnce
  <2>14. StartedOnce' /\ SuspendPlaces' /\ NeverResumed'
    BY <2>9, <2>12 DEF OtaInv, StartedOnce, SuspendPlaces, NeverResumed
  <2>15. QED
    BY <2>8, <2>10, <2>11, <2>14 DEF OtaInv, FieldTypes, OperationTypes, AgentWaited, QuietOta,
       NotifiedIsReal, SuccessIsReal
<1>6. QED
  BY <1>4, <1>5

LEMMA EndCommandKeeps ==
    ASSUME OtaInv, NEW c \in 1 .. MaxOperations, EndCommand(c)
    PROVE  OtaInv'
<1> USE DEF EndCommand, agentVars, bufferVars, opVars, callbackVars, commandVars
<1>1. /\ events \in Seq(OtaEvents) /\ handling \in OtaEvents \cup {NULL}
      /\ AllDiffer(events, handling) /\ Range(events) \subseteq OtaEvents
  BY RangeOfQueue DEF OtaInv, QueueTyped, EventsDiffer
<1>2. FieldTypes' /\ BufferTypes'
  BY DEF OtaInv, FieldTypes, BufferTypes
<1>3. OperationTypes'
  <2>1. /\ op' \in [number : 0 .. MaxOperations, phase : {"post", "wait", "returned"}]
        /\ op'.phase # "returned" => op'.number # 0
    BY DEF OtaInv, OperationTypes
  <2>2. xReturnStatus' \in {"MQTTSuccess", "MQTTRecvFailed"}
    BY DEF OtaInv, OperationTypes, prvCommandCallback
  <2>3. notified' \in BOOLEAN /\ wild' \in BOOLEAN
    BY DEF OtaInv, OperationTypes, prvCommandCallback
  <2>4. commands' \cup reported' \cup done' \cup mistaken' \subseteq 1 .. MaxOperations
    BY DEF OtaInv, OperationTypes, prvCommandCallback
  <2>5. QED
    BY <2>1, <2>2, <2>3, <2>4 DEF OperationTypes
<1>4. QueueTyped' /\ EventsDiffer'
  BY DEF OtaInv, QueueTyped, EventsDiffer
<1>5. BuffersMatchEvents'
  BY DEF OtaInv, BuffersMatchEvents, DataEvents
<1>6. StartedOnce'
  BY DEF OtaInv, StartedOnce, Pending
<1>7. SuspendPlaces' /\ NeverResumed'
  BY DEF OtaInv, SuspendPlaces, NeverResumed, Pending
<1>8. AgentWaited' /\ QuietOta'
  BY DEF OtaInv, AgentWaited, QuietOta
<1>9. NotifiedIsReal' /\ SuccessIsReal'
  BY DEF OtaInv, NotifiedIsReal, SuccessIsReal, prvCommandCallback
<1>10. QED
  BY <1>2, <1>3, <1>4, <1>5, <1>6, <1>7, <1>8, <1>9 DEF OtaInv

LEMMA CommandLoopFailsKeeps ==
    ASSUME OtaInv, CommandLoopFails
    PROVE  OtaInv'
<1> USE DEF CommandLoopFails, agentVars, bufferVars, opVars, callbackVars, commandVars
<1>1. /\ events \in Seq(OtaEvents) /\ handling \in OtaEvents \cup {NULL}
      /\ AllDiffer(events, handling) /\ Range(events) \subseteq OtaEvents
  BY RangeOfQueue DEF OtaInv, QueueTyped, EventsDiffer
<1>2. Event("suspend") \notin Pending \/ ota = "stopped"
  BY DEF OtaInv, SuspendPlaces
<1>3. \/ ota \in {"suspended", "stopped"} /\ agent' = "reconnect" /\ UNCHANGED <<events, handling>>
      \/ /\ ota \notin {"suspended", "stopped"} /\ agent' = "suspending"
         /\ events' = OTA_SignalEvent(events, Event("suspend")) /\ UNCHANGED handling
  BY DEF vSuspendOTACodeSigningDemo
<1>4. /\ QueueTyped' /\ EventsDiffer' /\ DataEvents' = DataEvents
      /\ \/ Pending' = Pending /\ (ota \in {"suspended", "stopped"} => agent' = "reconnect")
         \/ Pending' = Pending \cup {Event("suspend")} /\ ota \notin {"suspended", "stopped"}
      /\ ota \notin {"suspended", "stopped"} => agent' = "suspending"
  <2>1. CASE ota \in {"suspended", "stopped"}
    BY <1>1, <1>3, <2>1 DEF QueueTyped, EventsDiffer, DataEvents, Pending
  <2>2. CASE ota \notin {"suspended", "stopped"}
    BY <1>2, <1>3, <2>2, SignalsPlain
  <2>3. QED
    BY <2>1, <2>2
<1>5. FieldTypes' /\ BufferTypes'
  BY <1>4, OtaAssumption DEF OtaInv, FieldTypes, BufferTypes
<1>6. OperationTypes'
  BY DEF OtaInv, OperationTypes
<1>7. QueueTyped' /\ EventsDiffer'
  BY <1>4
<1>8. BuffersMatchEvents'
  BY <1>4 DEF OtaInv, BuffersMatchEvents
<1>9. StartedOnce'
  BY <1>3, <1>4, EventsOfKinds DEF OtaInv, StartedOnce
<1>10. SuspendPlaces' /\ NeverResumed'
  BY <1>4, EventsOfKinds DEF OtaInv, SuspendPlaces, NeverResumed
<1>11. AgentWaited' /\ QuietOta'
  BY <1>4 DEF OtaInv, AgentWaited, QuietOta
<1>12. NotifiedIsReal' /\ SuccessIsReal'
  BY DEF OtaInv, NotifiedIsReal, SuccessIsReal
<1>13. QED
  BY <1>5, <1>6, <1>7, <1>8, <1>9, <1>10, <1>11, <1>12 DEF OtaInv

LEMMA SuspendWaitsKeeps ==
    ASSUME OtaInv, SuspendWaits
    PROVE  OtaInv'
<1> USE DEF SuspendWaits, agentVars, bufferVars, opVars, callbackVars, commandVars
<1>1. /\ events \in Seq(OtaEvents) /\ handling \in OtaEvents \cup {NULL}
      /\ AllDiffer(events, handling) /\ Range(events) \subseteq OtaEvents
  BY RangeOfQueue DEF OtaInv, QueueTyped, EventsDiffer
<1>2. FieldTypes' /\ BufferTypes'
  BY DEF OtaInv, FieldTypes, BufferTypes
<1>3. OperationTypes'
  BY DEF OtaInv, OperationTypes
<1>4. QueueTyped' /\ EventsDiffer'
  BY DEF OtaInv, QueueTyped, EventsDiffer
<1>5. BuffersMatchEvents'
  BY DEF OtaInv, BuffersMatchEvents, DataEvents
<1>6. StartedOnce'
  BY DEF OtaInv, StartedOnce, Pending
<1>7. SuspendPlaces' /\ NeverResumed'
  BY DEF OtaInv, SuspendPlaces, NeverResumed, Pending
<1>8. AgentWaited' /\ QuietOta'
  BY DEF OtaInv, AgentWaited, QuietOta
<1>9. NotifiedIsReal' /\ SuccessIsReal'
  BY DEF OtaInv, NotifiedIsReal, SuccessIsReal
<1>10. QED
  BY <1>2, <1>3, <1>4, <1>5, <1>6, <1>7, <1>8, <1>9 DEF OtaInv

LEMMA ReconnectKeeps ==
    ASSUME OtaInv, Reconnect
    PROVE  OtaInv'
<1> USE DEF Reconnect, agentVars, bufferVars, opVars, callbackVars, commandVars
<1>1. /\ events \in Seq(OtaEvents) /\ handling \in OtaEvents \cup {NULL}
      /\ AllDiffer(events, handling) /\ Range(events) \subseteq OtaEvents
  BY RangeOfQueue DEF OtaInv, QueueTyped, EventsDiffer
<1>2. UNCHANGED events
  BY DEF OtaInv, NeverResumed
<1>3. FieldTypes' /\ BufferTypes'
  BY DEF OtaInv, FieldTypes, BufferTypes
<1>4. OperationTypes'
  BY DEF OtaInv, OperationTypes
<1>5. QueueTyped' /\ EventsDiffer'
  BY <1>2 DEF OtaInv, QueueTyped, EventsDiffer
<1>6. BuffersMatchEvents'
  BY <1>2 DEF OtaInv, BuffersMatchEvents, DataEvents
<1>7. StartedOnce'
  BY <1>2 DEF OtaInv, StartedOnce, Pending
<1>8. SuspendPlaces' /\ NeverResumed'
  BY DEF OtaInv, SuspendPlaces, NeverResumed, Pending
<1>9. AgentWaited' /\ QuietOta'
  BY DEF OtaInv, AgentWaited, QuietOta
<1>10. NotifiedIsReal' /\ SuccessIsReal'
  BY DEF OtaInv, NotifiedIsReal, SuccessIsReal
<1>11. QED
  BY <1>3, <1>4, <1>5, <1>6, <1>7, <1>8, <1>9, <1>10 DEF OtaInv

\* The invariant holds before the demo starts.
LEMMA OtaInitially == Init => OtaInv
<1> SUFFICES ASSUME Init PROVE OtaInv
  OBVIOUS
<1> USE DEF Init, vStartOTACodeSigningDemo
<1>1. /\ events \in Seq(OtaEvents) /\ Pending = {} /\ DataEvents = {}
      /\ \A i \in DOMAIN events : FALSE
  BY DEF Pending, DataEvents, Range
<1>2. 0 \in 0 .. MaxDrops /\ 0 \in 0 .. MaxMessages /\ 0 \in 0 .. MaxOperations
  BY OtaAssumption
<1>3. FieldTypes /\ BufferTypes /\ OperationTypes /\ QueueTyped
  BY <1>1, <1>2 DEF FieldTypes, BufferTypes, OperationTypes, QueueTyped
<1>4. EventsDiffer /\ BuffersMatchEvents
  BY <1>1 DEF EventsDiffer, AllDiffer, BuffersMatchEvents
<1>5. /\ StartedOnce /\ SuspendPlaces /\ NeverResumed /\ AgentWaited /\ QuietOta
      /\ NotifiedIsReal /\ SuccessIsReal
  BY <1>1 DEF StartedOnce, SuspendPlaces, NeverResumed, AgentWaited, QuietOta, NotifiedIsReal,
              SuccessIsReal
<1>6. QED
  BY <1>3, <1>4, <1>5 DEF OtaInv

\* Every step keeps the invariant.
LEMMA OtaIsInductive == OtaInv /\ [Next]_vars => OtaInv'
<1> SUFFICES ASSUME OtaInv, [Next]_vars PROVE OtaInv'
  OBVIOUS
<1>1. CASE UNCHANGED vars
  <2>1. Pending' = Pending /\ DataEvents' = DataEvents
    BY <1>1 DEF vars, bufferVars, Pending, DataEvents
  <2>2. QED
    BY <1>1, <2>1 DEF vars, agentVars, bufferVars, opVars, callbackVars, commandVars, OtaInv,
       FieldTypes, BufferTypes, OperationTypes, QueueTyped, EventsDiffer, BuffersMatchEvents,
       StartedOnce, SuspendPlaces, NeverResumed, AgentWaited, QuietOta, NotifiedIsReal,
       SuccessIsReal
<1>2. CASE DemoStep
  BY <1>2, InitDemoKeeps, StartDemoKeeps, EndDemoKeeps DEF DemoStep
<1>3. CASE setOtaInterfaces
  BY <1>3, StartOperationKeeps
     DEF setOtaInterfaces, prvMQTTSubscribe, prvMQTTPublish, prvMQTTUnsubscribe, Handles
<1>4. CASE PostCommand \/ WaitEnds \/ WaitTimesOut
  BY <1>4, PostCommandKeeps, WaitEndsKeeps, WaitTimesOutKeeps
<1>5. CASE TakeEvent \/ FinishMessage \/ FinishEvent \/ TimerFires
  BY <1>5, TakeEventKeeps, FinishMessageKeeps, FinishEventKeeps, TimerFiresKeeps
<1>6. CASE AgentStep
  BY <1>6, IncomingMessageKeeps, EndCommandKeeps, CommandLoopFailsKeeps, SuspendWaitsKeeps,
     ReconnectKeeps DEF AgentStep, prvIncomingPublishCallback
<1>7. QED
  BY <1>1, <1>2, <1>3, <1>4, <1>5, <1>6 DEF Next, OtaStep

\* The inductive invariant of the demo.
LEMMA OtaAlways == Spec => []OtaInv
  BY OtaInitially, OtaIsInductive, PTL DEF Spec

----------------------------------------------------------------------------
(* The theorems.                                                           *)

\* Every variable of the OTA demo keeps its type: the queue holds events of
\* the library only, each for a buffer there is.
THEOREM OtaTypesTheorem == Spec => []TypeOK
<1>1. OtaInv => TypeOK
  <2> SUFFICES ASSUME OtaInv PROVE TypeOK
    OBVIOUS
  <2>1. \A e \in Range(events) \cup ({handling} \ {NULL}) : e \in OtaEvents
    BY RangeOfQueue DEF OtaInv, QueueTyped
  <2>2. QED
    BY <2>1 DEF OtaInv, FieldTypes, BufferTypes, OperationTypes, TypeOK, OtaEvents,
       PlainEvents, MessageEvents
<1>2. QED
  BY <1>1, OtaAlways, PTL

\* prvOTAEventBufferGet() and prvOTAEventBufferFree(): a buffer is in use
\* exactly while one event points to it, and it keeps that event's message.
THEOREM BuffersTheorem == Spec => []BuffersMatchEvents
<1>1. OtaInv => BuffersMatchEvents
  BY DEF OtaInv
<1>2. QED
  BY <1>1, OtaAlways, PTL

\* prvMQTTSubscribe() and its like report success only for what succeeded,
\* unless the callback of an operation that had timed out came in between.
THEOREM SuccessTheorem == Spec => []SuccessIsReal
<1>1. OtaInv => SuccessIsReal
  BY DEF OtaInv
<1>2. QED
  BY <1>1, OtaAlways, PTL

\* vSuspendOTACodeSigningDemo(): while the MQTT agent reconnects the OTA
\* agent waits for no operation.
THEOREM QuietTheorem == Spec => []QuietReconnect
<1>1. OtaInv => QuietReconnect
  BY DEF OtaInv, AgentWaited, QuietOta, QuietReconnect
<1>2. QED
  BY <1>1, OtaAlways, PTL
=============================================================================
