-------------------------- MODULE ShadowDemo_proofs --------------------------
(***************************************************************************)
(* What the two callbacks of the shadow device task make of the messages   *)
(* they get: the delta callback of deltas that come late, twice or out of  *)
(* order, and the accepted callback of answers to documents that were sent *)
(* again or from a buffer that holds a later one.  Proved for any numbers  *)
(* of messages, duplicates and resends, any modulus of the tokens and any  *)
(* start of the tick count.                                                *)
(***************************************************************************)
EXTENDS ShadowDemo, TLAPS

----------------------------------------------------------------------------
(* Messages under way.                                                     *)

\* Sending adds messages to those under way.
LEMMA BagAfterSend ==
    ASSUME NEW B, IsABag(B), NEW S
    PROVE  /\ IsABag(B (+) SetToBag(S))
           /\ BagToSet(B (+) SetToBag(S)) = BagToSet(B) \cup S
<1> DEFINE C == B (+) SetToBag(S)
<1>1. C = [e \in (DOMAIN B) \cup S |->
              (IF e \in DOMAIN B THEN B[e] ELSE 0) + (IF e \in S THEN 1 ELSE 0)]
  BY DEF (+), SetToBag
<1>2. \A e \in DOMAIN B : B[e] \in Nat /\ B[e] > 0
  BY DEF IsABag
<1>3. \A e \in DOMAIN C : C[e] \in {n \in Nat : n > 0}
  BY <1>1, <1>2
<1>4. QED
  BY <1>1, <1>3 DEF IsABag, BagToSet

\* Delivering takes at most the message itself from those under way.
LEMMA BagAfterReceive ==
    ASSUME NEW B, IsABag(B), NEW m
    PROVE  /\ IsABag(B (-) SetToBag({m}))
           /\ BagToSet(B (-) SetToBag({m})) \subseteq BagToSet(B)
           /\ BagToSet(B) \subseteq BagToSet(B (-) SetToBag({m})) \cup {m}
<1> DEFINE C == B (-) SetToBag({m})
           D == [e \in DOMAIN B |-> IF e \in {m} THEN B[e] - 1 ELSE B[e]]
<1>1. C = [e \in {d \in DOMAIN B : D[d] > 0} |-> D[e]]
  BY DEF (-), SetToBag
<1>2. \A e \in DOMAIN B : B[e] \in Nat /\ B[e] > 0
  BY DEF IsABag
<1>3. \A e \in DOMAIN C : C[e] \in {n \in Nat : n > 0}
  <2>1. \A e \in DOMAIN B : D[e] \in Int
    BY <1>2
  <2>2. ASSUME NEW e \in DOMAIN C PROVE C[e] = D[e] /\ e \in DOMAIN B /\ D[e] > 0
    BY <1>1
  <2> HIDE DEF C, D
  <2>3. QED
    BY <2>1, <2>2
<1>4. \A e \in DOMAIN B : e # m => e \in DOMAIN C
  BY <1>1, <1>2
<1>5. QED
  BY <1>1, <1>3, <1>4 DEF IsABag, BagToSet

----------------------------------------------------------------------------
(* Tokens.                                                                 *)

\* The token made at a tick.
Token(tick) == (StartTick + tick) % TokenModulus

\* The tokens of different ticks less than the modulus apart differ.
LEMMA TokensDiffer ==
    ASSUME NEW i \in Nat, NEW j \in Nat, i < j, j - i < TokenModulus
    PROVE  (StartTick + i) % TokenModulus # (StartTick + j) % TokenModulus
<1> DEFINE M == TokenModulus  a == StartTick + i  b == StartTick + j
<1>0. M \in Nat /\ M > 0 /\ a \in Nat /\ b \in Nat /\ b - a = j - i
  BY TickAssumption
<1> HIDE DEF M, a, b
<1>1. PICK p \in Int : a % M = a - M * p
  <2>1. a = M * (a \div M) + (a % M) /\ a \div M \in Int /\ a % M \in Int
    BY <1>0
  <2>2. a % M = a - M * (a \div M)
    BY <1>0, <2>1
  <2>3. QED
    BY <2>1, <2>2
<1>2. PICK q \in Int : b % M = b - M * q
  <2>1. b = M * (b \div M) + (b % M) /\ b \div M \in Int /\ b % M \in Int
    BY <1>0
  <2>2. b % M = b - M * (b \div M)
    BY <1>0, <2>1
  <2>3. QED
    BY <2>1, <2>2
<1>3. SUFFICES ASSUME a % M = b % M PROVE FALSE
  BY DEF M, a, b
<1>4. M * (q - p) = b - a
  BY <1>0, <1>1, <1>2, <1>3
<1>5. b - a > 0 /\ b - a < M
  BY <1>0 DEF M
<1>6. \A k \in Int : M * k > 0 => k >= 1
  BY <1>0
<1>7. \A k \in Int : k >= 1 => M * k >= M
  BY <1>0
<1>8. q - p \in Int
  OBVIOUS
<1>9. QED
  BY <1>0, <1>4, <1>5, <1>6, <1>7, <1>8

\* A token fits the field it is printed in.
LEMMA TokenInRange ==
    ASSUME NEW tick \in Nat
    PROVE  Token(tick) \in 0 .. TokenModulus - 1
<1>1. \A n \in Nat : n % TokenModulus \in 0 .. TokenModulus - 1
  BY TickAssumption
<1>2. StartTick + tick \in Nat
  BY TickAssumption
<1>3. QED
  BY <1>1, <1>2 DEF Token

\* While the tick count does not reach a multiple of the modulus, no token is
\* the 0 that stands for no request.
LEMMA TokenNotZero ==
    ASSUME (StartTick % TokenModulus) + MaxTicks < TokenModulus, NEW tick \in 1 .. MaxTicks
    PROVE  Token(tick) # 0
<1> DEFINE M == TokenModulus  q == StartTick \div M  r == StartTick % M
<1>0. /\ M \in Nat /\ M > 0 /\ StartTick \in Nat /\ MaxTicks \in Nat
      /\ tick \in Nat /\ tick > 0 /\ tick <= MaxTicks
  BY TickAssumption
<1>1. q \in Int /\ r \in Nat /\ StartTick = M * q + r
  BY <1>0
<1>2. (StartTick + tick) % M = StartTick + tick - M * ((StartTick + tick) \div M)
      /\ (StartTick + tick) \div M \in Int
  BY <1>0
<1>3. PICK p \in Int : (StartTick + tick) % M = StartTick + tick - M * p
  BY <1>2
<1>4. SUFFICES ASSUME Token(tick) = 0 PROVE FALSE
  OBVIOUS
<1> HIDE DEF q, r
<1>5. M * (p - q) = r + tick
  BY <1>0, <1>1, <1>3, <1>4 DEF Token
<1>6. r + tick > 0 /\ r + tick < M
  BY <1>0, <1>1 DEF r
<1>7. \A k \in Int : (M * k > 0 => k >= 1) /\ (k >= 1 => M * k >= M)
  BY <1>0
<1>8. p - q \in Int
  BY <1>1, <1>3
<1>9. QED
  BY <1>0, <1>5, <1>6, <1>7, <1>8

----------------------------------------------------------------------------
(* The invariants.                                                         *)

\* The answers and deltas the service sends.
Messages ==
    [topic : {"accepted"}, token : 0 .. TokenModulus - 1, section : {"reported", "desired"},
     value : PowerStates]
    \cup [topic : {"rejected"}, token : 0 .. TokenModulus - 1]
    \cup [topic : {"delta"}, version : Nat, value : PowerStates]

\* The messages under way.
UnderWay == BagToSet(downlink)

\* The callback of its SUBSCRIBE notifies the task before it takes that
\* notification.
TypeInv ==
    /\ TypeOK
    /\ UnderWay \subseteq Messages
    /\ \A t \in Tasks : pc[t] = "subscribed" => notified[t] > 0

\* The places of a task that is not in its loop.
OutsideLoop == {"subscribe", "subscribing", "subscribed", "returned"}

\* Each document is the task's own part of the shadow.  Outside its loop the
\* device has none, so that nothing is reported; in it the delta callback is
\* in the subscription list.
SubscribedFirst ==
    /\ \A t \in Tasks : document[t] # Blank => document[t].section = Section[t]
    /\ pc["device"] \in OutsideLoop => document["device"] = Blank /\ shadow.reported = None
    /\ pc["device"] \notin OutsideLoop => "delta" \in routes["device"]

\* A version stands for one desired state: in a delta, and in what the device
\* has taken from the last delta.
OneStatePerVersion ==
    /\ shadow.version = 0 => shadow.desired = None
    /\ \A m \in UnderWay :
         m.topic = "delta" =>
           /\ m.version <= shadow.version
           /\ m.version = shadow.version => m.value = shadow.desired
    /\ ulCurrentVersion <= shadow.version
    /\ ulCurrentVersion = shadow.version /\ shadow.version # 0
         => ulCurrentPowerOnState = shadow.desired

\* A difference in the shadow is one that the device knows of or that the
\* delta of the present version is about to tell it.
DifferenceTold ==
    /\ shadow.reported # None
    /\ shadow.desired \notin {None, shadow.reported}
    => \/ ulCurrentVersion = shadow.version
       \/ \E m \in UnderWay : m.topic = "delta" /\ m.version = shadow.version

\* What the theorem about deltas rests on.
DeltaInv == TypeInv /\ SubscribedFirst /\ OneStatePerVersion /\ DifferenceTold

\* The token of a round is the one made last, and the buffer is empty when
\* the round starts.
RoundStarts ==
    pc["device"] = "format" =>
      /\ document["device"] = Blank
      /\ lastTick["device"] > 0
      /\ ulClientToken["device"] = Token(lastTick["device"])

\* The reports accepted.
Reports == {m \in UnderWay : m.topic = "accepted" /\ m.section = "reported"}

\* What was published or answered carries a token made until now.
TokensMade ==
    /\ document["device"] # Blank =>
         \E k \in 1 .. lastTick["device"] : document["device"].token = Token(k)
    /\ \A m \in Reports : \E k \in 1 .. lastTick["device"] : m.token = Token(k)

\* An answer to the present round is about the document in the buffer, and
\* the shadow holds its state.
AnswerIsCurrent ==
    ulClientToken["device"] # 0 =>
      \A m \in Reports :
        m.token = ulClientToken["device"] =>
          /\ document["device"] # Blank
          /\ document["device"].value = m.value
          /\ shadow.reported = m.value

\* What the theorems about answers rest on, besides.
RoundInv == RoundStarts /\ TokensMade /\ AnswerIsCurrent

\* The tokens of the ticks considered are different.
TokensFit == MaxTicks < TokenModulus

----------------------------------------------------------------------------
(* Parts of the invariant that do not depend on what a step changes.       *)

\* What the device knows of the shadow is disturbed only by a message.
LEMMA KnowledgeKept ==
    ASSUME OneStatePerVersion, DifferenceTold,
           UNCHANGED <<shadow, downlink, ulCurrentVersion, ulCurrentPowerOnState>>
    PROVE  OneStatePerVersion' /\ DifferenceTold'
  BY DEF OneStatePerVersion, DifferenceTold, UnderWay

\* What was reported is disturbed only by the device task and by messages.
LEMMA RoundKept ==
    ASSUME RoundInv,
           UNCHANGED <<shadow, downlink>>,
           document'["device"] = document["device"],
           lastTick'["device"] = lastTick["device"],
           ulClientToken'["device"] = ulClientToken["device"],
           pc'["device"] = "format" => pc["device"] = "format"
    PROVE  RoundInv'
<1>1. UnderWay' = UnderWay /\ Reports' = Reports
  BY DEF UnderWay, Reports
<1>2. RoundStarts'
  BY DEF RoundInv, RoundStarts, Token
<1>3. TokensMade'
  BY <1>1 DEF RoundInv, TokensMade, Token
<1>4. AnswerIsCurrent'
  BY <1>1 DEF RoundInv, AnswerIsCurrent
<1>5. QED
  BY <1>2, <1>3, <1>4 DEF RoundInv

\* A step that publishes nothing, hears of nothing and makes no token.
QuietVars == <<lastTick, ulClientToken, document, shadow, downlink, powerVars>>

\* Such a step keeps the invariants if it keeps the types and SubscribedFirst.
LEMMA QuietStep ==
    ASSUME DeltaInv, UNCHANGED QuietVars,
           pc'["device"] = "format" => pc["device"] = "format",
           TypeInv', SubscribedFirst'
    PROVE  DeltaInv' /\ (RoundInv => RoundInv')
<1>1. OneStatePerVersion' /\ DifferenceTold'
  BY KnowledgeKept DEF DeltaInv, QuietVars, powerVars
<1>2. RoundInv => RoundInv'
  BY RoundKept DEF QuietVars
<1>3. QED
  BY <1>1, <1>2 DEF DeltaInv

----------------------------------------------------------------------------
(* Each step of a task keeps the invariants.  Most of them are quiet: what *)
(* is left to show is which routes and which places in the code they lead  *)
(* to.                                                                     *)

\* The topics of each task.
LEMMA TopicsOfTask ==
    ASSUME NEW t \in Tasks
    PROVE  /\ \A n \in 0 .. Len(Topics[t]) : 1 .. n \subseteq DOMAIN Topics[t]
           /\ AllTopics(t) \subseteq {"delta", "accepted", "rejected"}
           /\ t = "device" => "delta" \in AllTopics(t)
<1>1. /\ Topics["device"] = <<"delta", "accepted", "rejected">>
      /\ Topics["update"] = <<"accepted", "rejected">>
  BY DEF Topics
<1>2. CASE t = "device"
  <2>1. DOMAIN Topics[t] = 1 .. 3 /\ Len(Topics[t]) = 3
        /\ Topics[t][1] = "delta" /\ Topics[t][2] = "accepted" /\ Topics[t][3] = "rejected"
    BY <1>1, <1>2
  <2>2. QED
    BY <1>2, <2>1 DEF AllTopics
<1>3. CASE t = "update"
  <2>1. DOMAIN Topics[t] = 1 .. 2 /\ Len(Topics[t]) = 2
        /\ Topics[t][1] = "accepted" /\ Topics[t][2] = "rejected"
    BY <1>1, <1>3
  <2>2. QED
    BY <1>3, <2>1 DEF AllTopics
<1>4. QED
  BY <1>2, <1>3 DEF Tasks

LEMMA PostSubscribeKeeps ==
    ASSUME DeltaInv, NEW t \in Tasks, PostSubscribe(t)
    PROVE  DeltaInv' /\ (RoundInv => RoundInv')
<1>0. TypeInv /\ SubscribedFirst /\ "device" \in Tasks
  BY DEF DeltaInv, Tasks
<1>1. UNCHANGED QuietVars
  BY DEF PostSubscribe, QuietVars, taskVars, powerVars, cloudVars
<1>2. pc'["device"] = "format" => pc["device"] = "format"
  BY <1>0 DEF PostSubscribe, taskVars, TypeInv, TypeOK
<1>3. TypeInv'
  BY <1>0 DEF PostSubscribe, taskVars, powerVars, cloudVars, TypeInv, TypeOK, UnderWay
<1>4. SubscribedFirst'
  BY <1>0
     DEF PostSubscribe, taskVars, powerVars, cloudVars, SubscribedFirst, OutsideLoop, TypeInv,
         TypeOK
<1>5. QED
  BY <1>1, <1>2, <1>3, <1>4, QuietStep

LEMMA prvSubscribeCommandCallbackKeeps ==
    ASSUME DeltaInv, NEW t \in Tasks, prvSubscribeCommandCallback(t)
    PROVE  DeltaInv' /\ (RoundInv => RoundInv')
<1>0. TypeInv /\ SubscribedFirst /\ "device" \in Tasks
  BY DEF DeltaInv, Tasks
<1>1. UNCHANGED QuietVars
  BY DEF prvSubscribeCommandCallback, QuietVars, taskVars, powerVars, cloudVars
<1>2. pc'["device"] = "format" => pc["device"] = "format"
  BY <1>0 DEF prvSubscribeCommandCallback, taskVars, TypeInv, TypeOK
<1>3. TypeInv'
  <2>1. PICK n \in 0 .. Len(Topics[t]) :
          routes' = [routes EXCEPT ![t] = {Topics[t][i] : i \in 1 .. n}]
    BY DEF prvSubscribeCommandCallback, AddCallbacks
  <2>2. {Topics[t][i] : i \in 1 .. n} \subseteq AllTopics(t)
    BY TopicsOfTask DEF AllTopics
  <2>3. PICK S : /\ routes' = [routes EXCEPT ![t] = S]
                 /\ S \subseteq AllTopics(t)
                 /\ S \subseteq {"delta", "accepted", "rejected"}
    BY <2>1, <2>2, TopicsOfTask
  <2>4. /\ routes \in [Tasks -> SUBSET {"delta", "accepted", "rejected"}]
        /\ \A u \in Tasks : routes[u] \subseteq AllTopics(u)
    BY <1>0 DEF TypeInv, TypeOK
  <2>5. /\ routes' \in [Tasks -> SUBSET {"delta", "accepted", "rejected"}]
        /\ \A u \in Tasks : routes'[u] \subseteq AllTopics(u)
    BY <2>3, <2>4
  <2>6. /\ notified \in [Tasks -> Nat]
        /\ \A u \in Tasks : pc[u] = "subscribed" => notified[u] > 0
        /\ DOMAIN pc = Tasks
    BY <1>0 DEF TypeInv, TypeOK
  <2>7. /\ notified' = [notified EXCEPT ![t] = @ + 1]
        /\ pc' = [pc EXCEPT ![t] = "subscribed"]
    BY DEF prvSubscribeCommandCallback
  <2>8. /\ notified' \in [Tasks -> Nat]
        /\ \A u \in Tasks : pc'[u] = "subscribed" => notified'[u] > 0
    <3>1. \A u \in Tasks : notified'[u] = IF u = t THEN notified[t] + 1 ELSE notified[u]
      BY <2>6, <2>7
    <3>2. \A u \in Tasks \ {t} : pc'[u] = pc[u]
      BY <2>7
    <3>3. QED
      BY <2>6, <2>7, <3>1, <3>2
  <2>9. QED
    BY <1>0, <2>5, <2>8
       DEF prvSubscribeCommandCallback, taskVars, powerVars, cloudVars, TypeInv, TypeOK, UnderWay
<1>4. SubscribedFirst'
  BY <1>0
     DEF prvSubscribeCommandCallback, taskVars, powerVars, cloudVars, SubscribedFirst,
         OutsideLoop, TypeInv, TypeOK, AddCallbacks
<1>5. QED
  BY <1>1, <1>2, <1>3, <1>4, QuietStep

LEMMA SubscribedKeeps ==
    ASSUME DeltaInv, NEW t \in Tasks, Subscribed(t)
    PROVE  DeltaInv' /\ (RoundInv => RoundInv')
<1>0. TypeInv /\ SubscribedFirst /\ "device" \in Tasks
  BY DEF DeltaInv, Tasks
<1>1. UNCHANGED QuietVars
  BY DEF Subscribed, QuietVars, taskVars, powerVars, cloudVars
<1>2. pc'["device"] = "format" => pc["device"] = "format"
  BY <1>0 DEF Subscribed, taskVars, TypeInv, TypeOK
<1>3. TypeInv'
  BY <1>0 DEF Subscribed, taskVars, powerVars, cloudVars, TypeInv, TypeOK, UnderWay
<1>4. SubscribedFirst'
  BY <1>0, TopicsOfTask
     DEF Subscribed, taskVars, powerVars, cloudVars, SubscribedFirst, OutsideLoop, TypeInv,
         TypeOK
<1>5. QED
  BY <1>1, <1>2, <1>3, <1>4, QuietStep

LEMMA SubscribeTimesOutKeeps ==
    ASSUME DeltaInv, NEW t \in Tasks, SubscribeTimesOut(t)
    PROVE  DeltaInv' /\ (RoundInv => RoundInv')
<1>0. TypeInv /\ SubscribedFirst /\ "device" \in Tasks
  BY DEF DeltaInv, Tasks
<1>1. UNCHANGED QuietVars
  BY DEF SubscribeTimesOut, QuietVars, taskVars, powerVars, cloudVars
<1>2. pc'["device"] = "format" => pc["device"] = "format"
  BY <1>0 DEF SubscribeTimesOut, taskVars, TypeInv, TypeOK
<1>3. TypeInv'
  BY <1>0 DEF SubscribeTimesOut, taskVars, powerVars, cloudVars, TypeInv, TypeOK, UnderWay
<1>4. SubscribedFirst'
  BY <1>0
     DEF SubscribeTimesOut, taskVars, powerVars, cloudVars, SubscribedFirst, OutsideLoop,
         TypeInv, TypeOK
<1>5. QED
  BY <1>1, <1>2, <1>3, <1>4, QuietStep

LEMMA PostDocumentKeeps ==
    ASSUME DeltaInv, NEW t \in Tasks, PostDocument(t)
    PROVE  DeltaInv' /\ (RoundInv => RoundInv')
<1>0. TypeInv /\ SubscribedFirst /\ "device" \in Tasks
  BY DEF DeltaInv, Tasks
<1>1. UNCHANGED QuietVars
  BY DEF PostDocument, QuietVars, taskVars, powerVars, cloudVars
<1>2. pc'["device"] = "format" => pc["device"] = "format"
  BY <1>0 DEF PostDocument, taskVars, TypeInv, TypeOK
<1>3. TypeInv'
  BY <1>0 DEF PostDocument, taskVars, powerVars, cloudVars, TypeInv, TypeOK, UnderWay
<1>4. SubscribedFirst'
  BY <1>0
     DEF PostDocument, taskVars, powerVars, cloudVars, SubscribedFirst, OutsideLoop, TypeInv,
         TypeOK
<1>5. QED
  BY <1>1, <1>2, <1>3, <1>4, QuietStep

LEMMA WokenKeeps ==
    ASSUME DeltaInv, NEW t \in Tasks, Woken(t)
    PROVE  DeltaInv' /\ (RoundInv => RoundInv')
<1>0. TypeInv /\ SubscribedFirst /\ "device" \in Tasks
  BY DEF DeltaInv, Tasks
<1>1. UNCHANGED QuietVars
  BY DEF Woken, QuietVars, taskVars, powerVars, cloudVars
<1>2. pc'["device"] = "format" => pc["device"] = "format"
  BY <1>0 DEF Woken, taskVars, TypeInv, TypeOK
<1>3. TypeInv'
  BY <1>0 DEF Woken, taskVars, powerVars, cloudVars, TypeInv, TypeOK, UnderWay
<1>4. SubscribedFirst'
  BY <1>0 DEF Woken, taskVars, powerVars, cloudVars, SubscribedFirst, OutsideLoop, TypeInv, TypeOK
<1>5. QED
  BY <1>1, <1>2, <1>3, <1>4, QuietStep

LEMMA WaitTimesOutKeeps ==
    ASSUME DeltaInv, NEW t \in Tasks, WaitTimesOut(t)
    PROVE  DeltaInv' /\ (RoundInv => RoundInv')
<1>0. TypeInv /\ SubscribedFirst /\ "device" \in Tasks
  BY DEF DeltaInv, Tasks
<1>1. UNCHANGED QuietVars
  BY DEF WaitTimesOut, QuietVars, taskVars, powerVars, cloudVars
<1>2. pc'["device"] = "format" => pc["device"] = "format"
  BY <1>0 DEF WaitTimesOut, taskVars, TypeInv, TypeOK
<1>3. TypeInv'
  BY <1>0 DEF WaitTimesOut, taskVars, powerVars, cloudVars, TypeInv, TypeOK, UnderWay
<1>4. SubscribedFirst'
  BY <1>0
     DEF WaitTimesOut, taskVars, powerVars, cloudVars, SubscribedFirst, OutsideLoop, TypeInv,
         TypeOK
<1>5. QED
  BY <1>1, <1>2, <1>3, <1>4, QuietStep

LEMMA InvalidateReportKeeps ==
    ASSUME DeltaInv, InvalidateReport
    PROVE  DeltaInv' /\ (RoundInv => RoundInv')
<1>0. TypeInv /\ SubscribedFirst /\ "device" \in Tasks
  BY DEF DeltaInv, Tasks
<1>1. UNCHANGED QuietVars
  BY DEF InvalidateReport, QuietVars, taskVars, powerVars, cloudVars
<1>2. pc'["device"] = "format" => pc["device"] = "format"
  BY <1>0 DEF InvalidateReport, taskVars, TypeInv, TypeOK
<1>3. TypeInv'
  BY <1>0 DEF InvalidateReport, taskVars, powerVars, cloudVars, TypeInv, TypeOK, UnderWay
<1>4. SubscribedFirst'
  BY <1>0
     DEF InvalidateReport, taskVars, powerVars, cloudVars, SubscribedFirst, OutsideLoop,
         TypeInv, TypeOK
<1>5. QED
  BY <1>1, <1>2, <1>3, <1>4, QuietStep

----------------------------------------------------------------------------
(* A round begins, formats its document and ends.                          *)

\* A round starts with a new token, which no document that was published before
\* carries: TokensFit.
LEMMA StartRoundKeeps ==
    ASSUME DeltaInv, NEW t \in Tasks, StartRound(t)
    PROVE  DeltaInv' /\ (RoundInv /\ TokensFit => RoundInv')
<1>0. TypeInv /\ SubscribedFirst /\ "device" \in Tasks
  BY DEF DeltaInv, Tasks
<1>1. PICK tick \in {now, now + 1} :
        /\ lastTick[t] < tick
        /\ tick <= MaxTicks
        /\ now' = tick
        /\ lastTick' = [lastTick EXCEPT ![t] = tick]
        /\ ulClientToken' = [ulClientToken EXCEPT ![t] = Token(tick)]
  BY DEF StartRound, Token
<1>2. /\ tick \in Nat /\ now \in Nat /\ MaxTicks \in Nat
      /\ lastTick \in [Tasks -> 0 .. now]
      /\ ulClientToken \in [Tasks -> 0 .. TokenModulus - 1]
  BY <1>0, <1>1, TickAssumption DEF TypeInv, TypeOK
<1>3. \A u \in Tasks : lastTick[u] \in Nat /\ lastTick[u] <= now
  BY <1>2
<1>4. /\ pc["device"] = "idle" \/ t # "device"
      /\ pc' = [pc EXCEPT ![t] = "format"]
      /\ document' = [document EXCEPT ![t] = Blank]
      /\ UNCHANGED <<shadow, downlink, ulCurrentVersion, ulCurrentPowerOnState>>
  BY DEF StartRound, cloudVars, powerVars
<1>5. TypeInv'
  <2>1. now' \in 0 .. MaxTicks /\ lastTick' \in [Tasks -> 0 .. now']
    <3>1. \A u \in Tasks : lastTick'[u] \in 0 .. now'
      BY <1>1, <1>2, <1>3
    <3>2. DOMAIN lastTick' = Tasks /\ lastTick' = [u \in Tasks |-> lastTick'[u]]
      BY <1>1, <1>2
    <3>3. QED
      BY <1>1, <1>2, <3>1, <3>2
  <2>2. ulClientToken' \in [Tasks -> 0 .. TokenModulus - 1]
    <3>1. Token(tick) \in 0 .. TokenModulus - 1
      BY <1>2, TokenInRange
    <3>2. QED
      BY <1>1, <1>2, <3>1
  <2>3. document' \in [Tasks -> Documents]
    BY <1>0, <1>4 DEF TypeInv, TypeOK, Documents
  <2>4. QED
    BY <1>0, <2>1, <2>2, <2>3 DEF StartRound, powerVars, cloudVars, TypeInv, TypeOK, UnderWay
<1>6. SubscribedFirst'
  BY <1>0 DEF StartRound, cloudVars, SubscribedFirst, OutsideLoop, TypeInv, TypeOK
<1>7. OneStatePerVersion' /\ DifferenceTold'
  BY <1>4, KnowledgeKept DEF DeltaInv
<1>8. ASSUME RoundInv, TokensFit
      PROVE  RoundInv'
  <2>1. CASE t # "device"
    <3>1. /\ document'["device"] = document["device"]
          /\ lastTick'["device"] = lastTick["device"]
          /\ ulClientToken'["device"] = ulClientToken["device"]
          /\ pc'["device"] = pc["device"]
      BY <1>0, <1>1, <1>2, <1>4, <2>1 DEF TypeInv, TypeOK
    <3>2. QED
      BY <1>4, <1>8, <3>1, RoundKept
  <2>2. CASE t = "device"
    <3>1. /\ document'["device"] = Blank
          /\ lastTick'["device"] = tick
          /\ ulClientToken'["device"] = Token(tick)
          /\ UnderWay' = UnderWay /\ Reports' = Reports
      BY <1>0, <1>1, <1>2, <1>4, <2>2 DEF TypeInv, TypeOK, UnderWay, Reports
    <3>2. lastTick["device"] \in Nat /\ lastTick["device"] < tick /\ tick > 0
      BY <1>0, <1>1, <1>2, <1>3, <2>2
    <3>3. RoundStarts'
      BY <3>1, <3>2 DEF RoundStarts, Token
    <3>4. TokensMade'
      <4>1. ASSUME NEW m \in Reports
            PROVE  \E k \in 1 .. tick : m.token = Token(k)
        <5>1. PICK k \in 1 .. lastTick["device"] : m.token = Token(k)
          BY <1>8 DEF RoundInv, TokensMade
        <5>2. k \in 1 .. tick
          BY <1>2, <3>2
        <5>3. QED
          BY <5>1, <5>2
      <4>2. QED
        BY <3>1, <4>1 DEF TokensMade, Token
    <3>5. AnswerIsCurrent'
      <4>1. ASSUME NEW m \in Reports
            PROVE  m.token # Token(tick)
        <5>1. PICK k \in 1 .. lastTick["device"] : m.token = Token(k)
          BY <1>8 DEF RoundInv, TokensMade
        <5>2. k \in Nat /\ k < tick /\ tick - k < TokenModulus
          BY <1>1, <1>2, <1>8, <3>2, TickAssumption DEF TokensFit
        <5>3. QED
          BY <1>2, <5>1, <5>2, TokensDiffer DEF Token
      <4>2. QED
        BY <3>1, <4>1 DEF AnswerIsCurrent
    <3>6. QED
      BY <3>3, <3>4, <3>5 DEF RoundInv
  <2>3. QED
    BY <2>1, <2>2
<1>9. QED
  BY <1>5, <1>6, <1>7, <1>8 DEF DeltaInv

\* The round's only document gets the round's token.
LEMMA FormatDocumentKeeps ==
    ASSUME DeltaInv, NEW t \in Tasks, FormatDocument(t)
    PROVE  DeltaInv' /\ (RoundInv => RoundInv')
<1>0. TypeInv /\ SubscribedFirst /\ "device" \in Tasks
  BY DEF DeltaInv, Tasks
<1>1. PICK d \in Documents :
        /\ document' = [document EXCEPT ![t] = d]
        /\ d # Blank /\ d.section = Section[t] /\ d.token = ulClientToken[t]
  <2> DEFINE d == [section |-> Section[t],
                   value |-> IF t = "device" THEN ulCurrentPowerOnState ELSE desiredState,
                   token |-> ulClientToken[t]]
  <2>1. document' = [document EXCEPT ![t] = d]
    BY DEF FormatDocument
  <2>2. d.section \in {"reported", "desired"} /\ d.section = Section[t]
    BY DEF Section, Tasks
  <2>3. d.value \in PowerStates /\ d.token \in 0 .. TokenModulus - 1
    BY <1>0 DEF TypeInv, TypeOK
  <2>4. d \in Documents /\ d # Blank /\ d.token = ulClientToken[t]
    BY <2>2, <2>3 DEF Documents, Blank
  <2>5. QED
    BY <2>1, <2>2, <2>4
<1>2. /\ pc[t] = "format"
      /\ pc' = [pc EXCEPT ![t] = "post"]
      /\ UNCHANGED <<lastTick, ulClientToken, shadow, downlink, ulCurrentVersion,
                     ulCurrentPowerOnState, routes>>
  BY DEF FormatDocument, cloudVars, powerVars
<1>3. TypeInv'
  BY <1>0, <1>1 DEF FormatDocument, powerVars, cloudVars, TypeInv, TypeOK, UnderWay
<1>4. SubscribedFirst'
  BY <1>0, <1>1, <1>2 DEF SubscribedFirst, OutsideLoop, TypeInv, TypeOK
<1>5. OneStatePerVersion' /\ DifferenceTold'
  BY <1>2, KnowledgeKept DEF DeltaInv
<1>6. ASSUME RoundInv
      PROVE  RoundInv'
  <2>1. CASE t # "device"
    <3>1. document'["device"] = document["device"] /\ pc'["device"] = pc["device"]
      BY <1>0, <1>1, <1>2, <2>1 DEF TypeInv, TypeOK
    <3>2. QED
      BY <1>2, <1>6, <3>1, RoundKept
  <2>2. CASE t = "device"
    <3>1. /\ document'["device"] = d /\ pc'["device"] = "post"
          /\ UnderWay' = UnderWay /\ Reports' = Reports
      BY <1>0, <1>1, <1>2, <2>2 DEF TypeInv, TypeOK, UnderWay, Reports
    <3>2. /\ document["device"] = Blank
          /\ lastTick["device"] > 0
          /\ ulClientToken["device"] = Token(lastTick["device"])
      BY <1>2, <1>6, <2>2 DEF RoundInv, RoundStarts
    <3>3. RoundStarts'
      BY <3>1 DEF RoundStarts
    <3>4. TokensMade'
      <4>1. lastTick["device"] \in 1 .. lastTick["device"]
        BY <1>0, <3>2 DEF TypeInv, TypeOK
      <4>2. QED
        BY <1>1, <1>2, <1>6, <2>2, <3>1, <3>2, <4>1 DEF RoundInv, TokensMade, Token
    <3>5. AnswerIsCurrent'
      BY <1>2, <1>6, <3>1, <3>2 DEF RoundInv, AnswerIsCurrent
    <3>6. QED
      BY <3>3, <3>4, <3>5 DEF RoundInv
  <2>3. QED
    BY <2>1, <2>2
<1>7. QED
  BY <1>3, <1>4, <1>5, <1>6 DEF DeltaInv

\* At the end of a round its token stands for no request.
LEMMA EndRoundKeeps ==
    ASSUME DeltaInv, NEW t \in Tasks, EndRound(t)
    PROVE  DeltaInv' /\ (RoundInv => RoundInv')
<1>0. TypeInv /\ SubscribedFirst /\ "device" \in Tasks
  BY DEF DeltaInv, Tasks
<1>1. /\ pc' = [pc EXCEPT ![t] = "idle"]
      /\ ulClientToken' = [ulClientToken EXCEPT ![t] = 0]
      /\ UNCHANGED <<lastTick, document, shadow, downlink, ulCurrentVersion,
                     ulCurrentPowerOnState>>
  BY DEF EndRound, cloudVars, powerVars
<1>2. TypeInv'
  <2>1. 0 \in 0 .. TokenModulus - 1
    BY TickAssumption
  <2>2. desiredState' \in PowerStates
    BY <1>0 DEF EndRound, TypeInv, TypeOK, PowerStates
  <2>3. QED
    BY <1>0, <2>1, <2>2 DEF EndRound, powerVars, cloudVars, TypeInv, TypeOK, UnderWay
<1>3. SubscribedFirst'
  BY <1>0 DEF EndRound, cloudVars, SubscribedFirst, OutsideLoop, TypeInv, TypeOK
<1>4. OneStatePerVersion' /\ DifferenceTold'
  BY <1>1, KnowledgeKept DEF DeltaInv
<1>5. ASSUME RoundInv
      PROVE  RoundInv'
  <2>1. pc'["device"] = "format" => pc["device"] = "format"
    BY <1>0, <1>1 DEF TypeInv, TypeOK
  <2>2. ulClientToken'["device"] \in {0, ulClientToken["device"]}
    BY <1>0, <1>1 DEF TypeInv, TypeOK
  <2>3. CASE ulClientToken'["device"] = ulClientToken["device"]
    BY <1>1, <1>5, <2>1, <2>3, RoundKept
  <2>4. CASE t = "device"
    <3>1. RoundStarts' /\ AnswerIsCurrent'
      BY <1>0, <1>1, <2>4 DEF RoundStarts, AnswerIsCurrent, TypeInv, TypeOK
    <3>2. TokensMade'
      BY <1>1, <1>5 DEF RoundInv, TokensMade, Reports, UnderWay, Token
    <3>3. QED
      BY <3>1, <3>2 DEF RoundInv
  <2>5. QED
    BY <1>0, <1>1, <2>3, <2>4 DEF TypeInv, TypeOK
<1>6. QED
  BY <1>2, <1>3, <1>4, <1>5 DEF DeltaInv

----------------------------------------------------------------------------
(* The service handles a publish.                                          *)

\* The delta of a version goes out when it leaves a difference.
LEMMA DeltasOf ==
    ASSUME NEW s
    PROVE  /\ \A m \in Deltas(s) :
                /\ m = [topic |-> "delta", version |-> s.version, value |-> s.desired]
                /\ m.topic = "delta" /\ m.version = s.version /\ m.value = s.desired
                /\ s.desired # None
           /\ s.desired \notin {None, s.reported} =>
                \E m \in Deltas(s) : m.topic = "delta" /\ m.version = s.version
<1>1. PICK d : d = [topic |-> "delta", version |-> s.version, value |-> s.desired]
  OBVIOUS
<1>2. d.topic = "delta" /\ d.version = s.version /\ d.value = s.desired
  BY <1>1
<1>3. Deltas(s) = {m \in {d} : s.desired \notin {None, s.reported}}
  BY <1>1 DEF Deltas
<1>4. QED
  BY <1>1, <1>2, <1>3

\* The values of shadow.
Shadows ==
    [reported : PowerStates \cup {None}, desired : PowerStates \cup {None}, version : Nat]

\* An accepted update sets the document's section and makes a new version.
Updated(s, section, value) == [s EXCEPT ![section] = value, !.version = @ + 1]

\* The parts of the shadow after it.
LEMMA UpdatedShadow ==
    ASSUME NEW s \in Shadows, NEW section \in {"reported", "desired"}, NEW value \in PowerStates
    PROVE  /\ Updated(s, section, value) \in Shadows
           /\ Updated(s, section, value).version = s.version + 1
           /\ section = "reported" => Updated(s, section, value).reported = value
           /\ section = "desired" => Updated(s, section, value).reported = s.reported
<1>1. CASE section = "reported"
  <2>1. Updated(s, section, value) = [s EXCEPT !.reported = value, !.version = @ + 1]
    BY <1>1 DEF Updated
  <2>2. Updated(s, section, value)
          = [reported |-> value, desired |-> s.desired, version |-> s.version + 1]
    BY <2>1 DEF Shadows
  <2>3. QED
    BY <1>1, <2>2 DEF Shadows
<1>2. CASE section = "desired"
  <2>1. Updated(s, section, value) = [s EXCEPT !.desired = value, !.version = @ + 1]
    BY <1>2 DEF Updated
  <2>2. Updated(s, section, value)
          = [reported |-> s.reported, desired |-> value, version |-> s.version + 1]
    BY <2>1 DEF Shadows
  <2>3. QED
    BY <1>2, <2>2 DEF Shadows
<1>3. QED
  BY <1>1, <1>2

\* What the service does when it accepts d (ShadowUpdate).
Accepts(d) ==
    /\ d # Blank
    /\ shadow' = [shadow EXCEPT ![d.section] = d.value, !.version = @ + 1]
    /\ downlink' = downlink (+) SetToBag({Accepted(d)} \cup Deltas(shadow'))

\* The shadow and the messages under way after an accepted update.
LEMMA AfterAccept ==
    ASSUME DeltaInv, NEW d \in Documents, Accepts(d)
    PROVE  /\ shadow \in Shadows /\ shadow' \in Shadows
           /\ shadow.version \in Nat
           /\ shadow'.version = shadow.version + 1
           /\ d.section \in {"reported", "desired"}
           /\ d.section = "reported" => shadow'.reported = d.value
           /\ d.section = "desired" => shadow'.reported = shadow.reported
           /\ IsABag(downlink')
           /\ UnderWay' = UnderWay \cup {Accepted(d)} \cup Deltas(shadow')
           /\ UnderWay' \subseteq Messages
<1>1. /\ d.section \in {"reported", "desired"} /\ d.value \in PowerStates
      /\ d.token \in 0 .. TokenModulus - 1
  BY DEF Documents, Accepts
<1>2. /\ shadow \in Shadows
      /\ IsABag(downlink) /\ UnderWay \subseteq Messages
  BY DEF DeltaInv, TypeInv, TypeOK, Shadows
<1>3. /\ shadow' \in Shadows
      /\ shadow'.version = shadow.version + 1
      /\ d.section = "reported" => shadow'.reported = d.value
      /\ d.section = "desired" => shadow'.reported = shadow.reported
  <2>1. shadow' = Updated(shadow, d.section, d.value)
    BY DEF Accepts, Updated
  <2>2. QED
    BY <1>1, <1>2, <2>1, UpdatedShadow
<1>4. /\ IsABag(downlink')
      /\ UnderWay' = UnderWay \cup {Accepted(d)} \cup Deltas(shadow')
  <2>1. downlink' = downlink (+) SetToBag({Accepted(d)} \cup Deltas(shadow'))
    BY DEF Accepts
  <2>2. QED
    BY <1>2, <2>1, BagAfterSend DEF UnderWay
<1>5. Accepted(d) \in Messages
  BY <1>1 DEF Accepted, Messages
<1>6. Deltas(shadow') \subseteq Messages
  <2>1. SUFFICES ASSUME NEW m \in Deltas(shadow')
                 PROVE  m \in [topic : {"delta"}, version : Nat, value : PowerStates]
    BY DEF Messages
  <2>2. /\ m = [topic |-> "delta", version |-> shadow'.version, value |-> shadow'.desired]
        /\ shadow'.desired # None
    BY DeltasOf
  <2>3. shadow'.version \in Nat /\ shadow'.desired \in PowerStates
    BY <1>3, <2>2 DEF Shadows
  <2>4. QED
    BY <2>2, <2>3
<1>7. shadow.version \in Nat
  BY <1>2 DEF Shadows
<1>8. QED
  BY <1>1, <1>2, <1>3, <1>4, <1>5, <1>6, <1>7

\* Every version has its delta, so that the next one is not missed.
LEMMA AcceptedKeepsDelta ==
    ASSUME DeltaInv, NEW t \in Tasks, Accepts(document[t]),
           UNCHANGED <<pc, document, routes, ulCurrentVersion, ulCurrentPowerOnState>>
    PROVE  SubscribedFirst' /\ OneStatePerVersion' /\ DifferenceTold'
<1>0. TypeInv /\ SubscribedFirst /\ OneStatePerVersion /\ document[t] # Blank
  BY DEF DeltaInv, Accepts
<1>1. document[t] \in Documents
  BY <1>0 DEF TypeInv, TypeOK
<1>2. /\ shadow.version \in Nat
      /\ shadow'.version = shadow.version + 1
      /\ document[t].section \in {"reported", "desired"}
      /\ document[t].section = "desired" => shadow'.reported = shadow.reported
      /\ UnderWay' = UnderWay \cup {Accepted(document[t])} \cup Deltas(shadow')
  BY <1>1, AfterAccept
<1>3. UnderWay \subseteq Messages /\ ulCurrentVersion \in Nat
  BY <1>0, <1>2 DEF TypeInv, TypeOK
<1>4. SubscribedFirst'
  <2>1. t # "device" => document[t].section = "desired"
    BY <1>0 DEF SubscribedFirst, Section, Tasks
  <2>2. pc["device"] \in OutsideLoop => shadow'.reported = shadow.reported
    BY <1>0, <1>2, <2>1 DEF SubscribedFirst
  <2>3. QED
    BY <1>0, <2>2 DEF SubscribedFirst, OutsideLoop
<1>5. OneStatePerVersion'
  <2>1. ASSUME NEW m \in UnderWay', m.topic = "delta"
        PROVE  /\ m.version <= shadow'.version
               /\ m.version = shadow'.version => m.value = shadow'.desired
    <3>1. CASE m \in UnderWay
      <4>1. m.version \in Nat /\ m.version <= shadow.version
        BY <1>0, <1>3, <2>1, <3>1 DEF OneStatePerVersion, Messages
      <4>2. QED
        BY <1>2, <4>1
    <3>2. CASE m \in Deltas(shadow')
      BY <1>2, <3>2, DeltasOf
    <3>3. CASE m = Accepted(document[t])
      BY <2>1, <3>3 DEF Accepted
    <3>4. QED
      BY <1>2, <3>1, <3>2, <3>3
  <2>2. /\ ulCurrentVersion' <= shadow'.version /\ ulCurrentVersion' # shadow'.version
        /\ shadow'.version # 0
    BY <1>0, <1>2, <1>3 DEF OneStatePerVersion
  <2>3. QED
    BY <2>1, <2>2 DEF OneStatePerVersion
<1>6. DifferenceTold'
  BY <1>2, DeltasOf DEF DifferenceTold
<1>7. QED
  BY <1>4, <1>5, <1>6

\* An answer about a report is about the document sent.
LEMMA AcceptedKeepsRound ==
    ASSUME DeltaInv, RoundInv, NEW t \in Tasks, Accepts(document[t]),
           UNCHANGED <<pc, document, lastTick, ulClientToken>>
    PROVE  RoundInv'
<1>0. /\ TypeInv /\ SubscribedFirst /\ RoundStarts /\ TokensMade /\ AnswerIsCurrent
      /\ document[t] # Blank
  BY DEF DeltaInv, RoundInv, Accepts
<1>1. document[t] \in Documents
  BY <1>0 DEF TypeInv, TypeOK
<1>2. /\ document[t].section \in {"reported", "desired"}
      /\ document[t].section = "reported" => shadow'.reported = document[t].value
      /\ document[t].section = "desired" => shadow'.reported = shadow.reported
      /\ UnderWay' = UnderWay \cup {Accepted(document[t])} \cup Deltas(shadow')
  BY <1>1, AfterAccept
<1>3. /\ t = "device" => document[t].section = "reported"
      /\ t # "device" => document[t].section = "desired"
  BY <1>0 DEF SubscribedFirst, Section, Tasks
<1>4. ASSUME NEW m \in Reports'
      PROVE  m \in Reports \/ (t = "device" /\ m = Accepted(document["device"]))
  <2>1. m \in UnderWay' /\ m.topic = "accepted" /\ m.section = "reported"
    BY DEF Reports
  <2>2. m \notin Deltas(shadow')
    BY <2>1, DeltasOf
  <2>3. CASE m \in UnderWay
    BY <2>1, <2>3 DEF Reports
  <2>4. CASE m = Accepted(document[t])
    BY <1>3, <2>1, <2>4 DEF Accepted
  <2>5. QED
    BY <1>2, <2>1, <2>2, <2>3, <2>4
<1>5. RoundStarts'
  BY <1>0 DEF RoundStarts
<1>6. TokensMade'
  <2>1. ASSUME NEW m \in Reports'
        PROVE  \E k \in 1 .. lastTick["device"] : m.token = Token(k)
    <3>1. CASE m \in Reports
      BY <1>0, <3>1 DEF TokensMade
    <3>2. CASE t = "device" /\ m = Accepted(document["device"])
      BY <1>0, <3>2 DEF TokensMade, Accepted
    <3>3. QED
      BY <1>4, <3>1, <3>2
  <2>2. QED
    BY <1>0, <2>1 DEF TokensMade, Token
<1>7. AnswerIsCurrent'
  <2>1. SUFFICES ASSUME ulClientToken["device"] # 0, NEW m \in Reports',
                        m.token = ulClientToken["device"]
                 PROVE  /\ document["device"] # Blank
                        /\ document["device"].value = m.value
                        /\ shadow'.reported = m.value
    BY DEF AnswerIsCurrent
  <2>2. CASE m \in Reports
    BY <1>0, <1>2, <1>3, <2>1, <2>2 DEF AnswerIsCurrent, Tasks
  <2>3. CASE t = "device" /\ m = Accepted(document["device"])
    BY <1>0, <1>2, <1>3, <2>3 DEF Accepted
  <2>4. QED
    BY <1>4, <2>2, <2>3
<1>8. QED
  BY <1>5, <1>6, <1>7 DEF RoundInv

\* A message that is neither a delta nor an answer about a report, and a
\* document that is refused without one, leave all of this as it is.
LEMMA NothingAccepted ==
    ASSUME DeltaInv, UNCHANGED <<pc, document, routes, lastTick, ulClientToken, shadow,
                                 ulCurrentVersion, ulCurrentPowerOnState>>,
           NEW S, \A m \in S : m.topic = "rejected",
           UnderWay' = UnderWay \cup S
    PROVE  /\ SubscribedFirst' /\ OneStatePerVersion' /\ DifferenceTold'
           /\ RoundInv => RoundInv'
<1>1. SubscribedFirst'
  BY DEF DeltaInv, SubscribedFirst
<1>2. OneStatePerVersion' /\ DifferenceTold'
  BY DEF DeltaInv, OneStatePerVersion, DifferenceTold
<1>3. Reports' = Reports
  BY DEF Reports
<1>4. RoundInv => RoundInv'
  BY <1>3 DEF RoundInv, RoundStarts, TokensMade, AnswerIsCurrent, Token
<1>5. QED
  BY <1>1, <1>2, <1>4

\* The agent task sends what the buffer holds, and the service handles it.
LEMMA SendKeeps ==
    ASSUME DeltaInv, NEW t \in Tasks, Send(t)
    PROVE  DeltaInv' /\ (RoundInv => RoundInv')
<1>0. TypeInv /\ document[t] \in Documents
  BY DEF DeltaInv, TypeInv, TypeOK
<1>1. /\ UNCHANGED <<pc, document, routes, lastTick, ulClientToken, ulCurrentVersion,
                     ulCurrentPowerOnState>>
      /\ UNCHANGED <<now, desiredState, notified, ulReportedPowerOnState, duplicates, stopped>>
      /\ queued' \in [Tasks -> Nat] /\ resends' \in 0 .. MaxResends
      /\ ShadowUpdate(document[t])
  BY <1>0, BoundAssumption DEF Send, taskVars, powerVars, TypeInv, TypeOK
<1>2. ASSUME /\ shadow' \in [reported : PowerStates \cup {None},
                             desired : PowerStates \cup {None}, version : Nat]
             /\ shadow'.version \in {shadow.version, shadow.version + 1}
             /\ IsABag(downlink') /\ UnderWay' \subseteq Messages
      PROVE  TypeInv'
  <2>1. ulCurrentVersion \in 0 .. shadow'.version
    BY <1>0, <1>2 DEF TypeInv, TypeOK
  <2>2. QED
    BY <1>0, <1>1, <1>2, <2>1 DEF TypeInv, TypeOK
<1>3. CASE Accepts(document[t])
  <2>1. TypeInv'
    BY <1>0, <1>2, <1>3, AfterAccept DEF Shadows
  <2>2. SubscribedFirst' /\ OneStatePerVersion' /\ DifferenceTold'
    BY <1>1, <1>3, AcceptedKeepsDelta
  <2>3. RoundInv => RoundInv'
    BY <1>1, <1>3, AcceptedKeepsRound
  <2>4. QED
    BY <2>1, <2>2, <2>3 DEF DeltaInv
<1>4. CASE /\ document[t] # Blank
           /\ downlink' = downlink (+) SetToBag({Rejected(document[t])})
           /\ UNCHANGED shadow
  <2>1. IsABag(downlink') /\ UnderWay' = UnderWay \cup {Rejected(document[t])}
    BY <1>0, <1>4, BagAfterSend DEF UnderWay, TypeInv, TypeOK
  <2>2. Rejected(document[t]) \in Messages /\ Rejected(document[t]).topic = "rejected"
    BY <1>0, <1>4 DEF Rejected, Messages, Documents
  <2>3. TypeInv'
    BY <1>0, <1>2, <1>4, <2>1, <2>2 DEF TypeInv, TypeOK
  <2>4. QED
    BY <1>1, <1>4, <2>1, <2>2, <2>3, NothingAccepted DEF DeltaInv
<1>5. CASE document[t] = Blank /\ UNCHANGED <<shadow, downlink>>
  <2>1. UnderWay' = UnderWay \cup {}
    BY <1>5 DEF UnderWay
  <2>2. TypeInv'
    BY <1>0, <1>2, <1>5, <2>1 DEF TypeInv, TypeOK
  <2>3. QED
    <3>1. \A m \in {} : m.topic = "rejected"
      OBVIOUS
    <3>2. /\ SubscribedFirst' /\ OneStatePerVersion' /\ DifferenceTold'
          /\ RoundInv => RoundInv'
      <4>1. PICK S : S = {}
        OBVIOUS
      <4>2. UnderWay' = UnderWay \cup S /\ \A m \in S : m.topic = "rejected"
        BY <2>1, <4>1
      <4>3. QED
        BY <1>1, <1>5, <4>2, NothingAccepted
    <3>3. QED
      BY <2>2, <3>2 DEF DeltaInv
<1>6. QED
  BY <1>1, <1>3, <1>4, <1>5 DEF ShadowUpdate, Accepts

----------------------------------------------------------------------------
(* The callbacks.                                                          *)

\* Messages are taken one at a time, or come again.
LEMMA ReceiveTakes ==
    ASSUME TypeInv, NEW m, Receive(m)
    PROVE  /\ m \in UnderWay /\ m \in Messages
           /\ UnderWay' \subseteq UnderWay /\ UnderWay' \subseteq Messages
           /\ UnderWay \subseteq UnderWay' \cup {m}
           /\ IsABag(downlink')
           /\ duplicates' \in 0 .. MaxDuplicates
<1>1. IsABag(downlink) /\ UnderWay \subseteq Messages /\ duplicates \in 0 .. MaxDuplicates
  BY DEF TypeInv, TypeOK
<1>2. m \in UnderWay
  BY DEF Receive, BagIn, UnderWay
<1>3. duplicates' \in 0 .. MaxDuplicates
  BY <1>1, BoundAssumption DEF Receive
<1>4. CASE downlink' = downlink (-) SetToBag({m})
  BY <1>1, <1>2, <1>3, <1>4, BagAfterReceive DEF UnderWay
<1>5. CASE UNCHANGED downlink
  BY <1>1, <1>2, <1>3, <1>5 DEF UnderWay
<1>6. QED
  BY <1>4, <1>5 DEF Receive

\* A message that is gone was no answer to wait for.
LEMMA RoundAfterReceive ==
    ASSUME RoundInv, UnderWay' \subseteq UnderWay,
           UNCHANGED <<pc, document, lastTick, ulClientToken, shadow>>
    PROVE  RoundInv'
<1>1. Reports' \subseteq Reports
  BY DEF Reports
<1>2. QED
  BY <1>1 DEF RoundInv, RoundStarts, TokensMade, AnswerIsCurrent, Token

\* The device takes the newest state it hears of.
LEMMA DeltaCallbackKeeps ==
    ASSUME DeltaInv, NEW m, prvIncomingPublishUpdateDeltaCallback(m)
    PROVE  DeltaInv' /\ (RoundInv => RoundInv')
<1>0. TypeInv /\ SubscribedFirst /\ OneStatePerVersion /\ DifferenceTold
  BY DEF DeltaInv
<1>1. /\ Receive(m) /\ m.topic = "delta"
      /\ UNCHANGED <<taskVars, ulClientToken, notified, routes, ulReportedPowerOnState, queued,
                     resends, shadow, stopped>>
  BY DEF prvIncomingPublishUpdateDeltaCallback
<1>2. /\ m \in UnderWay /\ UnderWay' \subseteq UnderWay /\ UnderWay' \subseteq Messages
      /\ UnderWay \subseteq UnderWay' \cup {m}
      /\ IsABag(downlink') /\ duplicates' \in 0 .. MaxDuplicates
  BY <1>0, <1>1, ReceiveTakes
<1>3. /\ m.version \in Nat /\ m.value \in PowerStates
      /\ m.version <= shadow.version
      /\ m.version = shadow.version => m.value = shadow.desired
  <2>1. m \in Messages
    BY <1>0, <1>1, ReceiveTakes
  <2>2. QED
    BY <1>0, <1>1, <1>2, <2>1 DEF Messages, OneStatePerVersion
<1>4. /\ ulCurrentVersion \in Nat /\ ulCurrentVersion <= shadow.version
      /\ ulCurrentPowerOnState \in PowerStates /\ shadow.version \in Nat
  BY <1>0 DEF TypeInv, TypeOK
<1>5. \/ /\ "delta" \in routes["device"] /\ m.version > ulCurrentVersion
         /\ ulCurrentVersion' = m.version /\ ulCurrentPowerOnState' = m.value
      \/ /\ "delta" \notin routes["device"] \/ m.version <= ulCurrentVersion
         /\ UNCHANGED <<ulCurrentVersion, ulCurrentPowerOnState>>
  BY <1>3, <1>4 DEF prvIncomingPublishUpdateDeltaCallback, powerVars
<1>6. TypeInv'
  <2>1. ulCurrentVersion' \in 0 .. shadow.version /\ ulCurrentPowerOnState' \in PowerStates
    BY <1>3, <1>4, <1>5
  <2>2. QED
    BY <1>0, <1>1, <1>2, <2>1 DEF taskVars, TypeInv, TypeOK
<1>7. SubscribedFirst'
  BY <1>0, <1>1 DEF taskVars, SubscribedFirst
<1>8. OneStatePerVersion'
  <2>1. \A d \in UnderWay' : d.topic = "delta" =>
          /\ d.version <= shadow.version
          /\ d.version = shadow.version => d.value = shadow.desired
    BY <1>0, <1>2 DEF OneStatePerVersion
  <2>2. /\ ulCurrentVersion' <= shadow.version
        /\ ulCurrentVersion' = shadow.version /\ shadow.version # 0
             => ulCurrentPowerOnState' = shadow.desired
    BY <1>0, <1>3, <1>4, <1>5 DEF OneStatePerVersion
  <2>3. QED
    BY <1>0, <1>1, <2>1, <2>2 DEF OneStatePerVersion
<1>9. DifferenceTold'
  <2>1. SUFFICES ASSUME shadow.reported # None, shadow.desired \notin {None, shadow.reported}
                 PROVE  \/ ulCurrentVersion' = shadow.version
                        \/ \E d \in UnderWay' : d.topic = "delta" /\ d.version = shadow.version
    BY <1>1 DEF DifferenceTold
  <2>2. "delta" \in routes["device"]
    BY <1>0, <2>1 DEF SubscribedFirst
  <2>3. CASE ulCurrentVersion = shadow.version
    BY <1>3, <1>4, <1>5, <2>3
  <2>4. CASE \E d \in UnderWay : d.topic = "delta" /\ d.version = shadow.version
    <3>1. PICK d \in UnderWay : d.topic = "delta" /\ d.version = shadow.version
      BY <2>4
    <3>2. CASE d = m
      BY <1>3, <1>4, <1>5, <2>2, <3>1, <3>2
    <3>3. CASE d # m
      BY <1>2, <3>1, <3>3
    <3>4. QED
      BY <3>2, <3>3
  <2>5. QED
    BY <1>0, <2>1, <2>3, <2>4 DEF DifferenceTold
<1>10. RoundInv => RoundInv'
  BY <1>1, <1>2, RoundAfterReceive DEF taskVars
<1>11. QED
  BY <1>6, <1>7, <1>8, <1>9, <1>10 DEF DeltaInv

\* An answer changes nothing but the device's last report and who is awake.
LEMMA AnswerKeeps ==
    ASSUME DeltaInv, NEW m,
           \/ prvIncomingPublishUpdateAcceptedCallback(m)
           \/ prvIncomingPublishUpdateRejectedCallback(m)
    PROVE  DeltaInv' /\ (RoundInv => RoundInv')
<1>0. TypeInv /\ SubscribedFirst /\ OneStatePerVersion /\ DifferenceTold
  BY DEF DeltaInv
<1>1. /\ Receive(m) /\ m.topic \in {"accepted", "rejected"}
      /\ UNCHANGED <<taskVars, ulClientToken, routes, powerVars, queued, resends, shadow, stopped>>
      /\ notified' = Woke(m)
  BY DEF prvIncomingPublishUpdateAcceptedCallback, prvIncomingPublishUpdateRejectedCallback
<1>2. /\ m \in UnderWay /\ m \in Messages
      /\ UnderWay' \subseteq UnderWay /\ UnderWay' \subseteq Messages
      /\ UnderWay \subseteq UnderWay' \cup {m}
      /\ IsABag(downlink') /\ duplicates' \in 0 .. MaxDuplicates
  BY <1>0, <1>1, ReceiveTakes
<1>3. ulReportedPowerOnState' \in PowerStates \cup {INVALID_POWERON_STATE}
  <2>1. m.topic = "accepted" => m.value \in PowerStates
    BY <1>2 DEF Messages
  <2>2. QED
    BY <1>0, <2>1 DEF prvIncomingPublishUpdateAcceptedCallback,
                      prvIncomingPublishUpdateRejectedCallback, TypeInv, TypeOK
<1>4. /\ notified' \in [Tasks -> Nat]
      /\ \A t \in Tasks : pc[t] = "subscribed" => notified'[t] > 0
  BY <1>0, <1>1 DEF Woke, TypeInv, TypeOK
<1>5. TypeInv'
  BY <1>0, <1>1, <1>2, <1>3, <1>4 DEF taskVars, powerVars, TypeInv, TypeOK
<1>6. SubscribedFirst'
  BY <1>0, <1>1 DEF taskVars, SubscribedFirst
<1>7. OneStatePerVersion' /\ DifferenceTold'
  BY <1>0, <1>1, <1>2 DEF powerVars, OneStatePerVersion, DifferenceTold
<1>8. RoundInv => RoundInv'
  BY <1>1, <1>2, RoundAfterReceive DEF taskVars
<1>9. QED
  BY <1>5, <1>6, <1>7, <1>8 DEF DeltaInv

----------------------------------------------------------------------------
(* The theorems.                                                           *)

\* No message is under way and nothing is reported before the tasks run.
LEMMA NothingInitially == Init => DeltaInv /\ RoundInv
<1> SUFFICES ASSUME Init PROVE DeltaInv /\ RoundInv
  OBVIOUS
<1>0. "device" \in Tasks
  BY DEF Tasks
<1>1. IsABag(downlink) /\ UnderWay = {}
  BY DEF Init, IsABag, EmptyBag, SetToBag, UnderWay, BagToSet
<1>2. TypeInv
  <2>1. /\ now \in 0 .. MaxTicks /\ resends \in 0 .. MaxResends
        /\ duplicates \in 0 .. MaxDuplicates
        /\ \A t \in Tasks : lastTick[t] \in 0 .. now /\ ulClientToken[t] \in 0 .. TokenModulus - 1
    BY TickAssumption, BoundAssumption DEF Init
  <2>2. /\ lastTick \in [Tasks -> 0 .. now]
        /\ ulClientToken \in [Tasks -> 0 .. TokenModulus - 1]
    BY <2>1 DEF Init
  <2>3. QED
    BY <1>0, <1>1, <2>1, <2>2 DEF Init, TypeInv, TypeOK, Documents, PowerStates
<1>3. SubscribedFirst
  BY <1>0 DEF Init, SubscribedFirst, OutsideLoop
<1>4. OneStatePerVersion /\ DifferenceTold
  BY <1>1 DEF Init, OneStatePerVersion, DifferenceTold
<1>5. RoundInv
  BY <1>0, <1>1 DEF Init, RoundInv, RoundStarts, TokensMade, AnswerIsCurrent, Reports
<1>6. QED
  BY <1>2, <1>3, <1>4, <1>5 DEF DeltaInv

\* Every step keeps the invariants.
LEMMA InvIsInductive ==
    ASSUME DeltaInv, [Next]_vars
    PROVE  DeltaInv' /\ (RoundInv /\ TokensFit => RoundInv')
<1>1. ASSUME NEW t \in Tasks, SubscribeStep(t)
      PROVE  DeltaInv' /\ (RoundInv => RoundInv')
  BY <1>1, PostSubscribeKeeps, prvSubscribeCommandCallbackKeeps, SubscribedKeeps,
     SubscribeTimesOutKeeps DEF SubscribeStep
<1>2. ASSUME NEW t \in Tasks, Round(t)
      PROVE  DeltaInv' /\ (RoundInv /\ TokensFit => RoundInv')
  BY <1>2, StartRoundKeeps, FormatDocumentKeeps, PostDocumentKeeps, WokenKeeps,
     WaitTimesOutKeeps, EndRoundKeeps DEF Round
<1>3. ASSUME InvalidateReport
      PROVE  DeltaInv' /\ (RoundInv => RoundInv')
  BY <1>3, InvalidateReportKeeps
<1>4. ASSUME NEW t \in Tasks, Send(t)
      PROVE  DeltaInv' /\ (RoundInv => RoundInv')
  BY <1>4, SendKeeps
<1>5. ASSUME NEW m, IncomingPublish(m)
      PROVE  DeltaInv' /\ (RoundInv => RoundInv')
  BY <1>5, DeltaCallbackKeeps, AnswerKeeps DEF IncomingPublish
<1>6. CASE UNCHANGED vars
  <2>1. /\ UNCHANGED <<shadow, downlink, ulCurrentVersion, ulCurrentPowerOnState, document,
                       lastTick, ulClientToken, pc, routes>>
        /\ UNCHANGED <<now, desiredState, notified, ulReportedPowerOnState, queued, resends,
                       duplicates, stopped>>
    BY <1>6 DEF vars, taskVars, powerVars, cloudVars
  <2>2. TypeInv' /\ SubscribedFirst'
    BY <2>1 DEF DeltaInv, TypeInv, TypeOK, SubscribedFirst, UnderWay
  <2>3. QED
    BY <2>1, <2>2, QuietStep DEF QuietVars, powerVars
<1>7. "device" \in Tasks /\ "update" \in Tasks
  BY DEF Tasks
<1>8. QED
  BY <1>1, <1>2, <1>3, <1>4, <1>5, <1>6, <1>7 DEF Next, vShadowDeviceTask, vShadowUpdateTask

\* What follows about deltas holds for all tokens.
LEMMA DeltaAlways == Spec => []DeltaInv
<1>1. DeltaInv /\ [Next]_vars => DeltaInv'
  BY InvIsInductive
<1>2. Init => DeltaInv
  BY NothingInitially
<1>3. QED
  BY <1>1, <1>2, PTL DEF Spec

\* The types of the variables.
THEOREM TypeCorrect == Spec => []TypeOK
<1>1. DeltaInv => TypeOK
  BY DEF DeltaInv, TypeInv
<1>2. QED
  BY <1>1, DeltaAlways, PTL

\* prvIncomingPublishUpdateDeltaCallback() ignores a version it has passed: once
\* no delta is under way, a difference between the desired and the reported
\* state is one the device knows of, however the deltas were delayed, repeated
\* and reordered.
THEOREM SettledDeltaTheorem == Spec => []SettledDelta
<1>1. DeltaInv => SettledDelta
  <2>1. SUFFICES ASSUME DeltaInv, shadow.reported # None,
                        shadow.desired \notin {None, shadow.reported},
                        \A m \in BagToSet(downlink) : m.topic # "delta"
                 PROVE  ulCurrentPowerOnState = shadow.desired
    BY DEF SettledDelta
  <2>2. ulCurrentVersion = shadow.version
    BY <2>1 DEF DeltaInv, DifferenceTold, UnderWay
  <2>3. QED
    BY <2>1, <2>2 DEF DeltaInv, OneStatePerVersion
<1>2. QED
  BY <1>1, DeltaAlways, PTL

\* What follows about answers needs tokens that differ.
LEMMA RoundAlways ==
    ASSUME TokensFit
    PROVE  Spec => [](DeltaInv /\ RoundInv)
<1>1. DeltaInv /\ RoundInv /\ [Next]_vars => (DeltaInv /\ RoundInv)'
  BY InvIsInductive
<1>2. QED
  BY <1>1, NothingInitially, PTL DEF Spec

\* What the accepted callback records was reported in the round whose answer
\* it is, or in any round when the token is 0.
LEMMA RecordedIsHeld ==
    ASSUME DeltaInv, [Next]_vars,
           ulReportedPowerOnState' \in PowerStates \ {ulReportedPowerOnState}
    PROVE  \E m \in Reports : /\ m.token = ulClientToken["device"]
                              /\ ulReportedPowerOnState' = m.value
<1>1. \E m : prvIncomingPublishUpdateAcceptedCallback(m)
  BY DEF Next, vShadowDeviceTask, vShadowUpdateTask, SubscribeStep, Round, IncomingPublish,
         PostSubscribe, prvSubscribeCommandCallback, Subscribed, SubscribeTimesOut, StartRound,
         FormatDocument, PostDocument, Woken, WaitTimesOut, EndRound, InvalidateReport, Send,
         prvIncomingPublishUpdateDeltaCallback, prvIncomingPublishUpdateRejectedCallback,
         PowerStates, INVALID_POWERON_STATE, vars
<1>2. PICK m : prvIncomingPublishUpdateAcceptedCallback(m)
  BY <1>1
<1>3. Matches("device", m) /\ m.section = "reported" /\ ulReportedPowerOnState' = m.value
  BY <1>2 DEF prvIncomingPublishUpdateAcceptedCallback
<1>4. m \in Reports
  BY <1>2, <1>3, ReceiveTakes
     DEF prvIncomingPublishUpdateAcceptedCallback, Reports, DeltaInv
<1>5. QED
  BY <1>3, <1>4 DEF Matches

\* A state that prvIncomingPublishUpdateAcceptedCallback() records while the
\* device waits for an answer is the one the shadow holds.  No more is asked of
\* the ticks than that a token does not come again.
RecordedWhileAwaited ==
    [][/\ ulReportedPowerOnState' \in PowerStates \ {ulReportedPowerOnState}
       /\ ulClientToken["device"] # 0
       => ulReportedPowerOnState' = shadow.reported]_vars

\* While it waits, the device records only the answer to its own round, and
\* the shadow still holds what that round reported.
THEOREM RecordedWhileAwaitedTheorem ==
    ASSUME TokensFit
    PROVE  Spec => RecordedWhileAwaited
<1>1. DeltaInv /\ RoundInv /\ [Next]_vars
        => [/\ ulReportedPowerOnState' \in PowerStates \ {ulReportedPowerOnState}
            /\ ulClientToken["device"] # 0
            => ulReportedPowerOnState' = shadow.reported]_vars
  <2>1. SUFFICES ASSUME DeltaInv, RoundInv, [Next]_vars,
                        ulReportedPowerOnState' \in PowerStates \ {ulReportedPowerOnState},
                        ulClientToken["device"] # 0
                 PROVE  ulReportedPowerOnState' = shadow.reported
    OBVIOUS
  <2>2. PICK m \in Reports : /\ m.token = ulClientToken["device"]
                             /\ ulReportedPowerOnState' = m.value
    BY <2>1, RecordedIsHeld
  <2>3. QED
    BY <2>1, <2>2 DEF RoundInv, AnswerIsCurrent
<1>2. QED
  BY <1>1, RoundAlways, PTL DEF Spec, RecordedWhileAwaited

\* The check of the token in prvIncomingPublishUpdateAcceptedCallback(): a state
\* is recorded as reported only when the shadow holds it.  Between two rounds
\* ulClientToken is 0, so this takes a tick count that does not reach a
\* multiple of TokenModulus while the demo runs; at one, the answer to the
\* round of that tick would be taken at any later time.
THEOREM AcceptedIsHeldTheorem ==
    ASSUME (StartTick % TokenModulus) + MaxTicks < TokenModulus
    PROVE  Spec => AcceptedIsHeld
<1>1. TokensFit
  BY TickAssumption DEF TokensFit
<1>2. ASSUME NEW k \in 1 .. MaxTicks
      PROVE  Token(k) # 0
  BY TokenNotZero
<1>3. DeltaInv /\ RoundInv /\ [Next]_vars
        => [ulReportedPowerOnState' \in PowerStates \ {ulReportedPowerOnState}
              => ulReportedPowerOnState' = shadow.reported]_vars
  <2>1. SUFFICES ASSUME DeltaInv, RoundInv, [Next]_vars,
                        ulReportedPowerOnState' \in PowerStates \ {ulReportedPowerOnState}
                 PROVE  ulReportedPowerOnState' = shadow.reported
    OBVIOUS
  <2>2. PICK m \in Reports : /\ m.token = ulClientToken["device"]
                             /\ ulReportedPowerOnState' = m.value
    BY <2>1, RecordedIsHeld
  <2>3. PICK k \in 1 .. lastTick["device"] : m.token = Token(k)
    BY <2>1 DEF RoundInv, TokensMade
  <2>4. k \in 1 .. MaxTicks
    <3>1. "device" \in Tasks /\ lastTick["device"] \in 0 .. now /\ now \in 0 .. MaxTicks
      BY <2>1 DEF DeltaInv, TypeInv, TypeOK, Tasks
    <3>2. QED
      BY <3>1, TickAssumption
  <2>5. ulClientToken["device"] # 0
    BY <1>2, <2>2, <2>3, <2>4
  <2>6. QED
    BY <2>1, <2>2, <2>5 DEF RoundInv, AnswerIsCurrent
<1>4. QED
  BY <1>1, <1>3, RoundAlways, PTL DEF Spec, AcceptedIsHeld

=============================================================================
