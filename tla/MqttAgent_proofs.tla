-------------------------- MODULE MqttAgent_proofs --------------------------
(***************************************************************************)
(* For every number of tasks, every pool and queue size with the pool not  *)
(* larger than the queue, and every pattern of connection losses: each     *)
(* command structure is in one place, the command queue has room for every *)
(* command a caller holds, and the pool takes every structure returned;    *)
(* the callback of a socket wakeup queues one command at most, a SUBACK is *)
(* matched to the filters it is about, a task that was told so is in the   *)
(* subscription list, and the broker covers that list.  Pool, queue and    *)
(* agent task together implement the service of CommandService, and the    *)
(* subscription list, in isolation, a set of subscriptions of bounded      *)
(* size.  And the clock that the agent task gives to coreMQTT measures     *)
(* time across its wraps.                                                  *)
(***************************************************************************)
EXTENDS MqttAgent, SubscriptionManager, AgentClock,
        FiniteSetTheorems, SequenceTheorems, WellFoundedInduction, TLAPS

----------------------------------------------------------------------------
(* What addSubscription() returns, for every list.                         *)

\* A free slot that addSubscription() picks is a slot, and is free.
LEMMA FirstFreeIsFree ==
    ASSUME NEW list, FreeSlots(list) # {}
    PROVE  /\ FirstFree(list) \in Slots
           /\ list[FirstFree(list)].filter = NULL
<1> DEFINE LessThan == {p \in Nat \X Nat : p[1] < p[2]}
<1>1. IsWellFoundedOn(LessThan, Nat)
  BY NatLessThanWellFounded DEF OpToRel
<1>2. FreeSlots(list) \subseteq Nat
  BY MaxSubscriptionsAssumption DEF FreeSlots, Slots
<1>3. PICK i \in FreeSlots(list) : \A j \in FreeSlots(list) : <<j, i>> \notin LessThan
  <2> HIDE DEF LessThan
  <2> QED BY <1>1, <1>2, WFMin
<1>4. ASSUME NEW j \in FreeSlots(list)
      PROVE  i <= j
  <2>1. i \in Nat /\ j \in Nat /\ <<j, i>> \notin LessThan
    BY <1>2, <1>3
  <2>2. j < i => <<j, i>> \in LessThan
    BY <2>1
  <2>3. QED
    BY <2>1, <2>2
<1>5. FirstFree(list) \in FreeSlots(list)
  BY <1>4 DEF FirstFree
<1>6. QED
  BY <1>5 DEF FreeSlots

\* Adding a subscription keeps the array an array and free of duplicates.
LEMMA AddKeepsList ==
    ASSUME NEW list \in SubscriptionLists,
           NEW s \in [filter : Filters \cup {NULL}, callback : Callbacks \cup {NULL},
                      context : Contexts],
           NEW r, r = addSubscription(list, s)
    PROVE  /\ r.list \in SubscriptionLists
           /\ r.ok \in BOOLEAN
           /\ r.ok <=> \/ \E i \in Slots : ~BadSubscription(s) /\ list[i] = s
                       \/ s \in Subscription /\ FreeSlots(list) # {}
           /\ r.list = list \/ /\ s \in Subscription
                               /\ FreeSlots(list) # {}
                               /\ \A i \in Slots : list[i] # s
                               /\ r.list = [list EXCEPT ![FirstFree(list)] = s]
<1>1. CASE BadSubscription(s)
  BY <1>1, NullAssumption DEF addSubscription, BadSubscription, Subscription
<1>2. CASE ~BadSubscription(s)
  <2>1. s \in Subscription
    BY <1>2 DEF BadSubscription, Subscription
  <2>2. CASE \E i \in Slots : list[i] = s
    BY <1>2, <2>1, <2>2 DEF addSubscription
  <2>3. CASE (\A i \in Slots : list[i] # s) /\ FreeSlots(list) = {}
    BY <1>2, <2>3 DEF addSubscription
  <2>4. CASE (\A i \in Slots : list[i] # s) /\ FreeSlots(list) # {}
    <3>1. FirstFree(list) \in Slots
      BY <2>4, FirstFreeIsFree
    <3>2. r = [ok |-> TRUE, list |-> [list EXCEPT ![FirstFree(list)] = s]]
      BY <1>2, <2>4 DEF addSubscription
    <3>3. r.list \in SubscriptionLists
      BY <2>1, <3>1, <3>2 DEF SubscriptionLists
    <3>4. QED
      BY <2>1, <2>4, <3>2, <3>3
  <2>5. QED
    BY <2>2, <2>3, <2>4
<1>3. QED
  BY <1>1, <1>2

\* Removing a filter keeps the array an array.
LEMMA RemoveKeepsList ==
    ASSUME NEW list \in SubscriptionLists, NEW f
    PROVE  removeSubscription(list, f) \in SubscriptionLists
<1>1. \A i \in Slots : list[i] \in Subscription \cup {Free}
  BY DEF SubscriptionLists
<1>2. QED
  BY <1>1 DEF removeSubscription, SubscriptionLists

----------------------------------------------------------------------------
(* The manager.                                                            *)

\* The number of slots is finite, and a set of slots has at most that many
\* members: what Publish counts is in range.
LEMMA SlotSets ==
    ASSUME NEW S, S \subseteq Slots
    PROVE  IsFiniteSet(S) /\ Cardinality(S) \in 0 .. MaxSubscriptions
<1>1. IsFiniteSet(Slots) /\ Cardinality(Slots) = MaxSubscriptions
  BY MaxSubscriptionsAssumption, FS_Interval DEF Slots
<1>2. IsFiniteSet(S) /\ Cardinality(S) <= Cardinality(Slots)
  BY <1>1, FS_Subset
<1>3. Cardinality(S) \in Nat
  BY <1>2, FS_CardinalityType
<1>4. QED
  BY <1>1, <1>2, <1>3, MaxSubscriptionsAssumption

----------------------------------------------------------------------------

ListInv == ManagerTypeOK /\ NoDuplicates

\* The array is well typed and without duplicates after every history of
\* additions, removals and incoming publishes (subscription_manager.c).
LEMMA ListInvIsInductive == ListInv /\ [ManagerNext]_managerVars => ListInv'
<1> SUFFICES ASSUME ListInv, [ManagerNext]_managerVars
             PROVE  ListInv'
  OBVIOUS
<1> USE DEF ListInv
<1>s. Silent \in [Subscription -> 0 .. MaxSubscriptions]
  BY MaxSubscriptionsAssumption DEF Silent
<1>1. ASSUME NEW f \in Filters \cup {NULL}, NEW cb \in Callbacks \cup {NULL},
             NEW ctx \in Contexts,
             Add([filter |-> f, callback |-> cb, context |-> ctx])
      PROVE  ListInv'
  <2> DEFINE s == [filter |-> f, callback |-> cb, context |-> ctx]
             list == pxSubscriptionList
             r == addSubscription(list, s)
  <2>0. /\ list \in SubscriptionLists
        /\ s \in [filter : Filters \cup {NULL}, callback : Callbacks \cup {NULL},
                  context : Contexts]
    BY DEF ManagerTypeOK
  <2> HIDE DEF s
  <2>1. /\ pxSubscriptionList' = r.list
        /\ xReturnStatus' = r.ok
        /\ invoked' = Silent
    BY <1>1 DEF Add, s
  <2>2. /\ r.list \in SubscriptionLists
        /\ r.ok \in BOOLEAN
        /\ r.list = list \/ /\ s \in Subscription
                            /\ FreeSlots(list) # {}
                            /\ \A i \in Slots : list[i] # s
                            /\ r.list = [list EXCEPT ![FirstFree(list)] = s]
    BY <2>0, AddKeepsList
  <2>3. ManagerTypeOK'
    BY <1>s, <2>1, <2>2 DEF ManagerTypeOK
  <2>4. NoDuplicates'
    <3>1. CASE r.list = list
      BY <2>1, <3>1 DEF NoDuplicates
    <3>2. CASE /\ FreeSlots(list) # {}
               /\ \A i \in Slots : list[i] # s
               /\ r.list = [list EXCEPT ![FirstFree(list)] = s]
      BY <2>0, <2>1, <3>2, FirstFreeIsFree DEF NoDuplicates, SubscriptionLists
    <3>3. QED
      BY <2>2, <3>1, <3>2
  <2>5. QED
    BY <2>3, <2>4
<1>2. ASSUME NEW f \in Filters \cup {NULL}, Remove(f)
      PROVE  ListInv'
  BY <1>s, <1>2 DEF Remove, removeSubscription, ManagerTypeOK, NoDuplicates, SubscriptionLists
<1>3. ASSUME NEW t \in Topics, Publish(t)
      PROVE  ListInv'
  <2>1. xReturnStatus' \in BOOLEAN
    BY <1>3 DEF Publish, handleIncomingPublishes
  <2>2. ASSUME NEW s \in Subscription
        PROVE  Cardinality({i \in Receivers(pxSubscriptionList, t) :
                              pxSubscriptionList[i] = s}) \in 0 .. MaxSubscriptions
    BY SlotSets DEF Receivers
  <2>3. invoked' \in [Subscription -> 0 .. MaxSubscriptions]
    BY <1>3, <2>2 DEF Publish
  <2>4. QED
    BY <1>3, <2>1, <2>3 DEF Publish, ManagerTypeOK, NoDuplicates
<1>4. CASE UNCHANGED managerVars
  BY <1>4 DEF managerVars, ManagerTypeOK, NoDuplicates
<1>5. QED
  BY <1>1, <1>2, <1>3, <1>4 DEF ManagerNext

\* The array starts free.
LEMMA ListInvInitially == ManagerInit => ListInv
<1> SUFFICES ASSUME ManagerInit PROVE ListInv
  OBVIOUS
<1>1. Silent \in [Subscription -> 0 .. MaxSubscriptions]
  BY MaxSubscriptionsAssumption DEF Silent
<1>2. QED
  BY <1>1 DEF ManagerInit, ListInv, ManagerTypeOK, NoDuplicates, SubscriptionLists

\* Typed and distinct: the inductive invariant of the manager.
LEMMA ListInvAlways == ManagerSpec => []ListInv
  BY ListInvInitially, ListInvIsInductive, PTL DEF ManagerSpec

\* subscription_manager.c, addSubscription(): whatever the history of calls,
\* no subscription occupies two slots, so no callback runs twice for one
\* publish.
THEOREM NoDuplicatesTheorem == ManagerSpec => []NoDuplicates
<1>1. ListInv => NoDuplicates
  BY DEF ListInv
<1>2. QED
  BY <1>1, ListInvAlways, PTL

\* The type invariant of the component.
THEOREM ManagerTypes == ManagerSpec => []ManagerTypeOK
<1>1. ListInv => ManagerTypeOK
  BY DEF ListInv
<1>2. QED
  BY <1>1, ListInvAlways, PTL

----------------------------------------------------------------------------
(* Refinement.                                                             *)

\* Without duplicates the subscriptions stored are as many as the slots in
\* use, so the array is full exactly when MaxSubscriptions are stored.
LEMMA RoomMeansFreeSlot ==
    ASSUME ListInv
    PROVE  Cardinality(Stored) < MaxSubscriptions <=> FreeSlots(pxSubscriptionList) # {}
<1> DEFINE list == pxSubscriptionList
           Used == {i \in Slots : list[i] # Free}
           item == [i \in Used |-> list[i]]
<1>1. /\ IsFiniteSet(Slots)
      /\ Cardinality(Slots) = MaxSubscriptions
      /\ IsFiniteSet(Used)
      /\ Cardinality(Used) <= MaxSubscriptions
      /\ Cardinality(Used) = MaxSubscriptions => Used = Slots
  <2>1. IsFiniteSet(Slots) /\ Cardinality(Slots) = MaxSubscriptions
    BY MaxSubscriptionsAssumption, FS_Interval DEF Slots
  <2>2. Used \in SUBSET Slots
    OBVIOUS
  <2>3. QED
    BY <2>1, <2>2, FS_Subset
<1>2. item \in Bijection(Used, Stored)
  <2>1. item \in [Used -> Stored]
    BY DEF Stored
  <2>2. \A i, j \in Used : item[i] = item[j] => i = j
    BY DEF ListInv, NoDuplicates
  <2>3. \A s \in Stored : \E i \in Used : item[i] = s
    BY DEF Stored
  <2>4. QED
    BY <2>1, <2>2, <2>3 DEF Bijection, Injection, Surjection, IsInjective
<1>3. Cardinality(Stored) = Cardinality(Used)
  <2>1. ExistsBijection(Used, Stored)
    BY <1>2 DEF ExistsBijection
  <2>2. QED
    BY <1>1, <2>1, FS_Bijection
<1>4. Cardinality(Used) \in Nat
  BY <1>1, FS_CardinalityType
<1>5. Used = Slots <=> FreeSlots(list) = {}
  <2>1. \A i \in Slots : list[i] = Free <=> list[i].filter = NULL
    BY NullAssumption DEF ListInv, ManagerTypeOK, SubscriptionLists, Subscription, Free
  <2>2. QED
    BY <2>1 DEF FreeSlots
<1>6. QED
  BY <1>1, <1>3, <1>4, <1>5, MaxSubscriptionsAssumption

\* Storing a new subscription in a free slot adds it and loses none.
LEMMA StoredAfterAdd ==
    ASSUME ListInv, FreeSlots(pxSubscriptionList) # {}, NEW s \in Subscription,
           pxSubscriptionList' =
               [pxSubscriptionList EXCEPT ![FirstFree(pxSubscriptionList)] = s]
    PROVE  Stored' = Stored \cup {s}
<1> DEFINE list == pxSubscriptionList
           k == FirstFree(list)
<1>1. k \in Slots /\ list[k].filter = NULL
  BY FirstFreeIsFree
<1>2. list \in [Slots -> Subscription \cup {Free}]
  BY DEF ListInv, ManagerTypeOK, SubscriptionLists
<1>3. list[k] = Free /\ s # Free
  BY <1>1, <1>2, NullAssumption DEF Subscription, Free
<1> HIDE DEF k
<1>4. list' \in [Slots -> Subscription \cup {Free}]
      /\ list'[k] = s
      /\ \A i \in Slots \ {k} : list'[i] = list[i]
  BY <1>1, <1>2 DEF k
<1>5. QED
  BY <1>1, <1>2, <1>3, <1>4 DEF Stored

\* Each stored subscription occupies exactly one slot, so it is called once.
LEMMA CalledOnce ==
    ASSUME ListInv, NEW t, NEW s \in Subscription
    PROVE  Cardinality({i \in Receivers(pxSubscriptionList, t) :
                          pxSubscriptionList[i] = s}) =
           IF s \in Stored /\ <<t, s.filter>> \in Matches THEN 1 ELSE 0
<1> DEFINE list == pxSubscriptionList
           Calls == {i \in Receivers(list, t) : list[i] = s}
<1>0. s.filter # NULL /\ s # Free
  BY NullAssumption DEF Subscription, Free
<1>1. CASE s \in Stored /\ <<t, s.filter>> \in Matches
  <2>1. PICK i \in Slots : list[i] = s
    BY <1>1 DEF Stored
  <2>2. Calls = {i}
    BY <1>0, <1>1, <2>1 DEF Receivers, ListInv, NoDuplicates
  <2>3. QED
    BY <1>1, <2>2, FS_Singleton
<1>2. CASE ~(s \in Stored /\ <<t, s.filter>> \in Matches)
  <2>1. Calls = {}
    BY <1>0, <1>2 DEF Receivers, Stored
  <2>2. QED
    BY <1>2, <2>1, FS_EmptySet
<1>3. QED
  BY <1>1, <1>2

\* The subscription manager implements the set of subscriptions: every
\* addSubscription(), removeSubscription() and handleIncomingPublishes() call
\* has the effect and the result that SubscriptionSet promises.
THEOREM Refinement == ManagerSpec => ImplementsSet
<1>s. Abstract!Subscription = Subscription /\ Abstract!NoCalls = Silent
  BY DEF Abstract!Subscription, Subscription, Abstract!NoCalls, Silent
<1>c. ASSUME NEW S
      PROVE  Abstract!Cardinality(S) = Cardinality(S)
  BY DEF Abstract!Cardinality, Cardinality
<1>1. ManagerInit => Abstract!SetInit
  BY <1>s, MaxSubscriptionsAssumption DEF ManagerInit, Abstract!SetInit, Stored, Slots
<1>2. ListInv /\ [ManagerNext]_managerVars => [Abstract!SetNext]_(Abstract!setVars)
  <2> SUFFICES ASSUME ListInv, [ManagerNext]_managerVars
               PROVE  [Abstract!SetNext]_(Abstract!setVars)
    OBVIOUS
  <2>1. ASSUME NEW f \in Filters \cup {NULL}, NEW cb \in Callbacks \cup {NULL},
               NEW ctx \in Contexts,
               Add([filter |-> f, callback |-> cb, context |-> ctx])
        PROVE  Abstract!SetNext
    <3> DEFINE s == [filter |-> f, callback |-> cb, context |-> ctx]
               list == pxSubscriptionList
               r == addSubscription(list, s)
    <3>0. /\ list \in SubscriptionLists
          /\ s \in [filter : Filters \cup {NULL}, callback : Callbacks \cup {NULL},
                    context : Contexts]
          /\ BadSubscription(s) => s \notin Subscription
          /\ s \notin Subscription => BadSubscription(s)
      BY NullAssumption DEF ListInv, ManagerTypeOK, BadSubscription, Subscription
    <3> HIDE DEF s
    <3>1. /\ list' = r.list
          /\ xReturnStatus' = r.ok
          /\ invoked' = Silent
      BY <2>1 DEF Add, s
    <3>2. /\ r.ok \in BOOLEAN
          /\ r.ok <=> \/ \E i \in Slots : ~BadSubscription(s) /\ list[i] = s
                      \/ s \in Subscription /\ FreeSlots(list) # {}
          /\ r.list = list \/ /\ s \in Subscription
                              /\ FreeSlots(list) # {}
                              /\ \A i \in Slots : list[i] # s
                              /\ r.list = [list EXCEPT ![FirstFree(list)] = s]
      BY <3>0, AddKeepsList
    <3>3. s \in Stored <=> ~BadSubscription(s) /\ \E i \in Slots : list[i] = s
      BY <3>0, NullAssumption DEF Stored, SubscriptionLists, Subscription, Free
    <3>4. Cardinality(Stored) < MaxSubscriptions <=> FreeSlots(list) # {}
      BY RoomMeansFreeSlot
    <3>5. Abstract!SetAdd(s)
      <4>1. CASE s \in Stored
        <5>1. r.ok = TRUE /\ Stored' = Stored
          BY <3>1, <3>2, <3>3, <4>1 DEF Stored
        <5>2. QED
          BY <1>s, <3>1, <4>1, <5>1 DEF Abstract!SetAdd
      <4>2. CASE s \notin Stored /\ s \in Subscription /\ FreeSlots(list) # {}
        <5>1. r.ok = TRUE
          BY <3>2, <4>2
        <5>2. r.list = [list EXCEPT ![FirstFree(list)] = s]
          BY <3>0, <3>3, <4>2 DEF addSubscription
        <5>3. Stored' = Stored \cup {s}
          BY <3>1, <4>2, <5>2, StoredAfterAdd
        <5>4. QED
          BY <1>s, <1>c, <3>1, <3>4, <4>2, <5>1, <5>3 DEF Abstract!SetAdd
      <4>3. CASE s \notin Stored /\ ~(s \in Subscription /\ FreeSlots(list) # {})
        <5>1. r.ok = FALSE
          BY <3>2, <3>3, <4>3
        <5>2. Stored' = Stored
          BY <3>1, <3>2, <4>3 DEF Stored
        <5>3. QED
          BY <1>s, <1>c, <3>1, <3>4, <4>3, <5>1, <5>2 DEF Abstract!SetAdd
      <4>4. QED
        BY <4>1, <4>2, <4>3
    <3>6. QED
      BY <3>5 DEF Abstract!SetNext, s
  <2>2. ASSUME NEW f \in Filters \cup {NULL}, Remove(f)
        PROVE  Abstract!SetNext
    <3>1. Stored' = {s \in Stored : s.filter # f}
      <4>1. CASE f = NULL
        BY <2>2, <4>1, NullAssumption
           DEF Remove, removeSubscription, Stored, ListInv, ManagerTypeOK, SubscriptionLists,
               Subscription, Free
      <4>2. CASE f # NULL
        BY <2>2, <4>2, NullAssumption
           DEF Remove, removeSubscription, Stored, ListInv, ManagerTypeOK, SubscriptionLists,
               Subscription, Free
      <4>3. QED
        BY <4>1, <4>2
    <3>2. Abstract!SetRemove(f)
      BY <1>s, <2>2, <3>1 DEF Remove, Abstract!SetRemove
    <3>3. QED
      BY <3>2 DEF Abstract!SetNext
  <2>3. ASSUME NEW t \in Topics, Publish(t)
        PROVE  Abstract!SetNext
    <3>1. Stored' = Stored
      BY <2>3 DEF Publish, Stored
    <3>2. xReturnStatus' = (\E s \in Stored : <<t, s.filter>> \in Matches)
      <4>1. \A i \in Slots : pxSubscriptionList[i] # Free <=>
                              pxSubscriptionList[i].filter # NULL
        BY NullAssumption DEF ListInv, ManagerTypeOK, SubscriptionLists, Subscription, Free
      <4>2. Receivers(pxSubscriptionList, t) # {} <=>
                \E s \in Stored : <<t, s.filter>> \in Matches
        BY <4>1 DEF Receivers, Stored
      <4>3. xReturnStatus' = (Receivers(pxSubscriptionList, t) # {})
        BY <2>3 DEF Publish, handleIncomingPublishes
      <4>4. QED
        BY <4>2, <4>3
    <3>3. invoked' = [s \in Subscription |->
                        IF s \in Stored /\ <<t, s.filter>> \in Matches THEN 1 ELSE 0]
      BY <2>3, CalledOnce DEF Publish
    <3>4. Abstract!SetPublish(t)
      BY <1>s, <3>1, <3>2, <3>3 DEF Abstract!SetPublish
    <3>5. QED
      BY <3>4 DEF Abstract!SetNext
  <2>4. CASE UNCHANGED managerVars
    BY <2>4 DEF managerVars, Abstract!setVars, Stored
  <2>5. QED
    BY <2>1, <2>2, <2>3, <2>4 DEF ManagerNext
<1>3. QED
  BY <1>1, <1>2, ListInvAlways, PTL DEF ManagerSpec, ImplementsSet, Abstract!SetSpec

----------------------------------------------------------------------------
(* Queues of distinct command structures.                                  *)

\* The queue without its first element.
LEMMA QueueReceive ==
    ASSUME NEW q \in Seq(Commands), IsInjective(q), q # <<>>
    PROVE  /\ Head(q) \in Commands /\ Head(q) \in Range(q)
           /\ Tail(q) \in Seq(Commands)
           /\ IsInjective(Tail(q))
           /\ Range(Tail(q)) = Range(q) \ {Head(q)}
<1>1. /\ Tail(q) \in Seq(Commands)
      /\ Len(Tail(q)) = Len(q) - 1
      /\ \A i \in 1 .. Len(Tail(q)) : Tail(q)[i] = q[i + 1]
      /\ Head(q) \in Commands
  BY HeadTailProperties
<1>2. Len(q) \in Nat /\ Len(q) # 0 /\ DOMAIN q = 1 .. Len(q) /\ Head(q) = q[1]
  BY EmptySeq, LenProperties
<1>3. DOMAIN Tail(q) = 1 .. Len(q) - 1
  BY <1>1, LenProperties
<1>4. \A i, j \in 1 .. Len(q) : q[i] = q[j] => i = j
  BY <1>2 DEF IsInjective
<1>5. IsInjective(Tail(q))
  BY <1>1, <1>2, <1>3, <1>4 DEF IsInjective
<1>6. Range(Tail(q)) = {q[i] : i \in 2 .. Len(q)}
  <2>1. \A i \in 1 .. Len(q) - 1 : i + 1 \in 2 .. Len(q) /\ Tail(q)[i] = q[i + 1]
    BY <1>1, <1>2
  <2>2. \A i \in 2 .. Len(q) : i - 1 \in 1 .. Len(q) - 1 /\ Tail(q)[i - 1] = q[i]
    BY <1>1, <1>2
  <2>3. Range(Tail(q)) = {Tail(q)[i] : i \in 1 .. Len(q) - 1}
    BY <1>3 DEF Range
  <2>4. ASSUME NEW x \in Range(Tail(q))
        PROVE  x \in {q[i] : i \in 2 .. Len(q)}
    BY <2>1, <2>3
  <2>5. ASSUME NEW x \in {q[i] : i \in 2 .. Len(q)}
        PROVE  x \in Range(Tail(q))
    <3>1. PICK i \in 2 .. Len(q) : x = q[i]
      OBVIOUS
    <3>2. i - 1 \in 1 .. Len(q) - 1 /\ Tail(q)[i - 1] = x
      BY <2>2, <3>1
    <3>3. QED
      BY <2>3, <3>2
  <2>6. QED
    BY <2>4, <2>5
<1>7. Range(q) = {q[i] : i \in 1 .. Len(q)}
  BY <1>2 DEF Range
<1>8. 1 \in 1 .. Len(q) /\ \A i \in 2 .. Len(q) : i \in 1 .. Len(q) /\ i # 1
  BY <1>2
<1>9. \A i \in 1 .. Len(q) : i = 1 \/ i \in 2 .. Len(q)
  BY <1>2
<1>10. QED
  BY <1>1, <1>2, <1>4, <1>5, <1>6, <1>7, <1>8, <1>9

\* The queue with an element that was not in it.
LEMMA QueueSend ==
    ASSUME NEW q \in Seq(Commands), IsInjective(q), NEW c \in Commands, c \notin Range(q)
    PROVE  /\ Append(q, c) \in Seq(Commands)
           /\ IsInjective(Append(q, c))
           /\ Range(Append(q, c)) = Range(q) \cup {c}
<1> DEFINE a == Append(q, c)  n == Len(q)
<1>1. /\ a \in Seq(Commands)
      /\ Len(a) = n + 1
      /\ \A i \in 1 .. n : a[i] = q[i]
      /\ a[n + 1] = c
  BY AppendProperties
<1>2. n \in Nat /\ DOMAIN q = 1 .. n /\ DOMAIN a = 1 .. n + 1
  BY <1>1, LenProperties
<1> HIDE DEF a, n
<1>3. \A i \in 1 .. n : q[i] # c
  BY <1>2 DEF Range
<1>4. \A i, j \in 1 .. n : q[i] = q[j] => i = j
  BY <1>2 DEF IsInjective
<1>5. \A i \in 1 .. n + 1 : i \in 1 .. n \/ i = n + 1
  BY <1>2
<1>6. IsInjective(a)
  BY <1>1, <1>2, <1>3, <1>4, <1>5 DEF IsInjective
<1>7. \A i \in 1 .. n : i \in 1 .. n + 1
  BY <1>2
<1>8. n + 1 \in 1 .. n + 1
  BY <1>2
<1>9. Range(a) = Range(q) \cup {c}
  BY <1>1, <1>2, <1>5, <1>7, <1>8 DEF Range
<1>10. QED
  BY <1>1, <1>6, <1>9 DEF a

\* A queue of distinct structures that lacks one is shorter than the pool.
LEMMA QueueHasRoom ==
    ASSUME NEW q \in Seq(Commands), IsInjective(q), NEW c \in Commands, c \notin Range(q)
    PROVE  Len(q) < PoolSize
<1>1. Len(q) \in Nat /\ DOMAIN q = 1 .. Len(q) /\ q \in [1 .. Len(q) -> Commands]
  BY LenProperties
<1>2. IsFiniteSet(Commands) /\ Cardinality(Commands) = PoolSize
  BY QueueAssumption, FS_Interval DEF Commands
<1>3. IsFiniteSet(Commands \ {c}) /\ Cardinality(Commands \ {c}) = PoolSize - 1
  BY <1>2, FS_RemoveElement
<1>4. IsFiniteSet(1 .. Len(q)) /\ Cardinality(1 .. Len(q)) = Len(q)
  BY <1>1, FS_Interval
<1>5. q \in Injection(1 .. Len(q), Commands \ {c})
  BY <1>1 DEF Injection, IsInjective, Range
<1>6. Len(q) <= PoolSize - 1
  BY <1>3, <1>4, <1>5, FS_Injection
<1>7. QED
  BY <1>1, <1>6, QueueAssumption

----------------------------------------------------------------------------
(* The inductive invariant.  OneOwner needs to know which phases of the    *)
(* agent task have a command in hand, that an acknowledgment is about a    *)
(* pending command, comes once and not while the agent task reconnects,    *)
(* and who asked for a SUBSCRIBE.                                          *)

AgentPhases ==
    Running => /\ current # NULL <=> agent = "run"
               /\ holder[AgentTask] # NULL <=> agent = "enqueue"

AcksArePending ==
    Running => /\ \A a \in acks : a.cmd \in pending
               /\ \A a, b \in acks : a.cmd = b.cmd => a = b
               /\ agent \in {"closed", "open", "clear"} => acks = {}

SubscribersAreClients ==
    \A c \in Commands : cmd[c].kind = "subscribe" => cmd[c].by \in Clients

IInv ==
    /\ TypeOK /\ OneOwner /\ ReleaseFits
    /\ AgentPhases /\ AcksArePending /\ SubscribersAreClients

\* The variables that say where the command structures are.
placeVars == <<pool, queue, holder, current, pending>>

\* The structures in hand after a caller takes one.
LEMMA HandTakes ==
    ASSUME holder \in [Callers -> Commands \cup {NULL}],
           NEW k \in Callers, holder[k] = NULL, NEW c \in Commands, c \notin InHand,
           \A l, m \in Callers : holder[l] = holder[m] /\ holder[l] # NULL => l = m,
           holder' = [holder EXCEPT ![k] = c]
    PROVE  /\ holder' \in [Callers -> Commands \cup {NULL}]
           /\ InHand' = InHand \cup {c}
           /\ \A l, m \in Callers : holder'[l] = holder'[m] /\ holder'[l] # NULL => l = m
           /\ \A l \in Callers \ {k} : holder'[l] = holder[l]
           /\ holder'[k] = c
<1>1. c # NULL
  BY QueueAssumption
<1>2. /\ holder'[k] = c
      /\ \A l \in Callers \ {k} : holder'[l] = holder[l]
      /\ holder' \in [Callers -> Commands \cup {NULL}]
  OBVIOUS
<1>3. InHand' = {holder'[l] : l \in Callers} \ {NULL}
  BY DEF InHand
<1>4. InHand' = InHand \cup {c}
  BY <1>1, <1>2, <1>3 DEF InHand
<1>5. \A l \in Callers : holder[l] # c
  BY <1>1 DEF InHand
<1>6. QED
  BY <1>2, <1>4, <1>5

\* The structures in hand after a caller has given its structure away.
LEMMA HandGives ==
    ASSUME holder \in [Callers -> Commands \cup {NULL}],
           NEW k \in Callers, holder[k] # NULL,
           \A l, m \in Callers : holder[l] = holder[m] /\ holder[l] # NULL => l = m,
           holder' = [holder EXCEPT ![k] = NULL]
    PROVE  /\ holder' \in [Callers -> Commands \cup {NULL}]
           /\ InHand' = InHand \ {holder[k]}
           /\ holder[k] \in InHand /\ holder[k] \in Commands
           /\ \A l, m \in Callers : holder'[l] = holder'[m] /\ holder'[l] # NULL => l = m
           /\ \A l \in Callers \ {k} : holder'[l] = holder[l]
           /\ holder'[k] = NULL
<1>1. /\ holder'[k] = NULL
      /\ \A l \in Callers \ {k} : holder'[l] = holder[l]
      /\ holder' \in [Callers -> Commands \cup {NULL}]
  OBVIOUS
<1>2. InHand' = {holder'[l] : l \in Callers} \ {NULL}
  BY DEF InHand
<1>3. \A l \in Callers \ {k} : holder[l] # holder[k]
  OBVIOUS
<1>4. InHand' = InHand \ {holder[k]}
  BY <1>1, <1>2, <1>3 DEF InHand
<1>5. holder[k] \in InHand /\ holder[k] \in Commands
  BY DEF InHand
<1>6. QED
  BY <1>1, <1>4, <1>5

\* The subscription list stays a list in every callback.
LEMMA CallbackTypes ==
    ASSUME TypeOK, SubscribersAreClients, NEW c \in Commands, NEW status, NEW refused,
           Callback(c, status, refused)
    PROVE  /\ xGlobalSubscriptionList' \in SubscriptionLists
           /\ told' \subseteq Clients
           /\ lost' \in BOOLEAN
<1> DEFINE list == xGlobalSubscriptionList
<1>0. list \in SubscriptionLists /\ told \subseteq Clients /\ lost \in BOOLEAN
  BY DEF TypeOK
<1>1. CASE cmd[c].kind = "subscribe"
  <2>1. ClientCallback(c, status) /\ cmd[c].by \in Clients
    BY <1>1 DEF Callback, SubscribersAreClients
  <2>2. SubscriptionOf[cmd[c].by] \in Subscription
    BY <2>1, ClientsAssumption
  <2>3. addSubscription(list, SubscriptionOf[cmd[c].by]).list \in SubscriptionLists
    <3>1. SubscriptionOf[cmd[c].by] \in [filter : Filters \cup {NULL},
                                         callback : Callbacks \cup {NULL},
                                         context : Contexts]
      BY <2>2 DEF Subscription
    <3>2. \A r : r = addSubscription(list, SubscriptionOf[cmd[c].by])
                 => r.list \in SubscriptionLists
      BY <1>0, <3>1, AddKeepsList
    <3>3. QED
      BY <3>2
  <2>4. QED
    BY <1>0, <2>1, <2>3 DEF ClientCallback
<1>2. CASE cmd[c].kind = "resubscribe"
  <2>1. ResubscribeCallback(status, refused)
    BY <1>2 DEF Callback
  <2>2. PICK failed : list' = RemoveSubscriptions(list, failed)
    BY <2>1 DEF ResubscribeCallback
  <2>3. \A i \in Slots : list[i] \in Subscription \cup {Free}
    BY <1>0 DEF SubscriptionLists
  <2>4. list' \in SubscriptionLists
    BY <2>2, <2>3 DEF RemoveSubscriptions, SubscriptionLists
  <2>5. QED
    BY <1>0, <2>1, <2>4 DEF ResubscribeCallback
<1>3. CASE cmd[c].kind \notin {"subscribe", "resubscribe"}
  BY <1>0, <1>3 DEF Callback
<1>4. QED
  BY <1>1, <1>2, <1>3

\* A command that ends was not free; its structure is then free once, or the
\* device has stopped in the callback.
LEMMA ConcludeReleases ==
    ASSUME IInv, Running, NEW c \in Commands, c \notin Range(pool),
           NEW status, NEW refused, Conclude(c, status, refused)
    PROVE  /\ \/ fault' = "nullcodes" /\ pool' = pool /\ cmd' = cmd
              \/ /\ fault' = "none"
                 /\ pool' \in Seq(Commands) /\ IsInjective(pool')
                 /\ Range(pool') = Range(pool) \cup {c}
                 /\ cmd' = [cmd EXCEPT ![c] = Blank]
           /\ xGlobalSubscriptionList' \in SubscriptionLists
           /\ told' \subseteq Clients
           /\ lost' \in BOOLEAN
<1>0. /\ TypeOK /\ SubscribersAreClients
      /\ pool \in Seq(Commands) /\ IsInjective(pool)
  BY DEF IInv, TypeOK, OneOwner
<1>1. CASE Callback(c, status, refused) /\ Agent_ReleaseCommand(c)
  <2>1. Len(pool) < PoolSize
    BY <1>0, QueueHasRoom
  <2>2. /\ pool' = Append(pool, c)
        /\ fault' = "none"
        /\ cmd' = [cmd EXCEPT ![c] = Blank]
    BY <1>1, <2>1 DEF Agent_ReleaseCommand, Agent_MessageSend
  <2>3. QED
    BY <1>0, <1>1, <2>2, QueueSend, CallbackTypes
<1>2. CASE NullCodesRead(c, status)
  BY <1>0, <1>2 DEF NullCodesRead, TypeOK
<1>3. QED
  BY <1>1, <1>2 DEF Conclude

----------------------------------------------------------------------------
(* Each action preserves the invariant.                                    *)

\* An action that changes no place leaves every structure its owner.
LEMMA PlacesKept ==
    ASSUME OneOwner, Running, UNCHANGED placeVars
    PROVE  OneOwner'
BY DEF OneOwner, placeVars, InHand, InCurrent

\* The actions that move no command structure.
LEMMA NothingMoves ==
    ASSUME IInv,
           \/ AgentReceiveTimeout \/ PollIdle \/ PollError \/ SocketDisconnect
           \/ SocketConnect \/ SocketConnectFails \/ FirstConnect \/ Reconnect
           \/ ConnectRefused \/ ResumeSession \/ ResumeFails \/ NothingToResubscribe
           \/ LinkDrop \/ Halted \/ UNCHANGED vars
           \/ \E k \in Clients : PublishRefused(k)
           \/ \E c \in Commands : BrokerAnswer(c)
    PROVE  IInv'
<1> USE DEF taskVars, agentVars, listVars, brokerVars
<1>0. /\ TypeOK /\ OneOwner /\ ReleaseFits
      /\ AgentPhases /\ AcksArePending /\ SubscribersAreClients
  BY DEF IInv
<1>1. CASE AgentReceiveTimeout
  <2>1. TypeOK' /\ SubscribersAreClients'
    BY <1>0, <1>1 DEF AgentReceiveTimeout, TypeOK, SubscribersAreClients
  <2>2. ReleaseFits' /\ AgentPhases' /\ AcksArePending'
    BY <1>0, <1>1 DEF AgentReceiveTimeout, Running, ReleaseFits, AgentPhases, AcksArePending
  <2>3. OneOwner'
    BY <1>0, <1>1, PlacesKept DEF AgentReceiveTimeout, placeVars
  <2>4. QED
    BY <2>1, <2>2, <2>3 DEF IInv
<1>2. CASE PollIdle
  <2>1. TypeOK' /\ SubscribersAreClients'
    BY <1>0, <1>2 DEF PollIdle, TypeOK, SubscribersAreClients
  <2>2. ReleaseFits' /\ AgentPhases' /\ AcksArePending'
    BY <1>0, <1>2 DEF PollIdle, Running, ReleaseFits, AgentPhases, AcksArePending
  <2>3. OneOwner'
    BY <1>0, <1>2, PlacesKept DEF PollIdle, placeVars
  <2>4. QED
    BY <2>1, <2>2, <2>3 DEF IInv
<1>3. CASE PollError
  <2>1. TypeOK' /\ SubscribersAreClients'
    BY <1>0, <1>3 DEF PollError, TypeOK, SubscribersAreClients
  <2>2. ReleaseFits' /\ AgentPhases' /\ AcksArePending'
    BY <1>0, <1>3 DEF PollError, Running, ReleaseFits, AgentPhases, AcksArePending
  <2>3. OneOwner'
    BY <1>0, <1>3, PlacesKept DEF PollError, placeVars
  <2>4. QED
    BY <2>1, <2>2, <2>3 DEF IInv
<1>4. CASE SocketDisconnect
  <2>1. TypeOK' /\ SubscribersAreClients'
    BY <1>0, <1>4 DEF SocketDisconnect, TypeOK, SubscribersAreClients
  <2>2. ReleaseFits' /\ AgentPhases' /\ AcksArePending'
    BY <1>0, <1>4 DEF SocketDisconnect, Running, ReleaseFits, AgentPhases, AcksArePending
  <2>3. OneOwner'
    BY <1>0, <1>4, PlacesKept DEF SocketDisconnect, placeVars
  <2>4. QED
    BY <2>1, <2>2, <2>3 DEF IInv
<1>5. CASE SocketConnect
  <2>1. TypeOK' /\ SubscribersAreClients'
    BY <1>0, <1>5, BoundsAssumption DEF SocketConnect, TypeOK, SubscribersAreClients
  <2>2. ReleaseFits' /\ AgentPhases' /\ AcksArePending'
    BY <1>0, <1>5 DEF SocketConnect, Running, ReleaseFits, AgentPhases, AcksArePending
  <2>3. OneOwner'
    BY <1>0, <1>5, PlacesKept DEF SocketConnect, placeVars
  <2>4. QED
    BY <2>1, <2>2, <2>3 DEF IInv
<1>6. CASE SocketConnectFails
  <2>1. TypeOK' /\ SubscribersAreClients'
    BY <1>0, <1>6, BoundsAssumption DEF SocketConnectFails, TypeOK, SubscribersAreClients
  <2>2. ReleaseFits' /\ AgentPhases' /\ AcksArePending'
    BY <1>0, <1>6 DEF SocketConnectFails, Running, ReleaseFits, AgentPhases, AcksArePending
  <2>3. OneOwner'
    BY <1>0, <1>6, PlacesKept DEF SocketConnectFails, placeVars
  <2>4. QED
    BY <2>1, <2>2, <2>3 DEF IInv
<1>7. CASE FirstConnect
  <2>1. TypeOK' /\ SubscribersAreClients'
    BY <1>0, <1>7 DEF FirstConnect, TypeOK, SubscribersAreClients
  <2>2. ReleaseFits' /\ AgentPhases' /\ AcksArePending'
    BY <1>0, <1>7 DEF FirstConnect, Running, ReleaseFits, AgentPhases, AcksArePending
  <2>3. OneOwner'
    BY <1>0, <1>7, PlacesKept DEF FirstConnect, placeVars
  <2>4. QED
    BY <2>1, <2>2, <2>3 DEF IInv
<1>8. CASE Reconnect
  <2>1. TypeOK' /\ SubscribersAreClients'
    BY <1>0, <1>8 DEF Reconnect, TypeOK, SubscribersAreClients
  <2>2. ReleaseFits' /\ AgentPhases' /\ AcksArePending'
    BY <1>0, <1>8 DEF Reconnect, Running, ReleaseFits, AgentPhases, AcksArePending
  <2>3. OneOwner'
    BY <1>0, <1>8, PlacesKept DEF Reconnect, placeVars
  <2>4. QED
    BY <2>1, <2>2, <2>3 DEF IInv
<1>9. CASE ConnectRefused
  <2>1. TypeOK' /\ SubscribersAreClients'
    BY <1>0, <1>9 DEF ConnectRefused, TypeOK, SubscribersAreClients
  <2>2. ReleaseFits' /\ AgentPhases' /\ AcksArePending'
    BY <1>0, <1>9 DEF ConnectRefused, Running, ReleaseFits, AgentPhases, AcksArePending
  <2>3. OneOwner'
    BY <1>0, <1>9, PlacesKept DEF ConnectRefused, placeVars
  <2>4. QED
    BY <2>1, <2>2, <2>3 DEF IInv
<1>10. CASE ResumeSession
  <2>1. TypeOK' /\ SubscribersAreClients'
    BY <1>0, <1>10 DEF ResumeSession, TypeOK, SubscribersAreClients
  <2>2. ReleaseFits' /\ AgentPhases' /\ AcksArePending'
    BY <1>0, <1>10 DEF ResumeSession, Running, ReleaseFits, AgentPhases, AcksArePending
  <2>3. OneOwner'
    BY <1>0, <1>10, PlacesKept DEF ResumeSession, placeVars
  <2>4. QED
    BY <2>1, <2>2, <2>3 DEF IInv
<1>11. CASE ResumeFails
  <2>1. TypeOK' /\ SubscribersAreClients'
    BY <1>0, <1>11 DEF ResumeFails, TypeOK, SubscribersAreClients
  <2>2. ReleaseFits' /\ AgentPhases' /\ AcksArePending'
    BY <1>0, <1>11 DEF ResumeFails, Running, ReleaseFits, AgentPhases, AcksArePending
  <2>3. OneOwner'
    BY <1>0, <1>11, PlacesKept DEF ResumeFails, placeVars
  <2>4. QED
    BY <2>1, <2>2, <2>3 DEF IInv
<1>12. CASE NothingToResubscribe
  <2>1. TypeOK' /\ SubscribersAreClients'
    BY <1>0, <1>12 DEF NothingToResubscribe, TypeOK, SubscribersAreClients
  <2>2. ReleaseFits' /\ AgentPhases' /\ AcksArePending'
    BY <1>0, <1>12 DEF NothingToResubscribe, Running, ReleaseFits, AgentPhases, AcksArePending
  <2>3. OneOwner'
    BY <1>0, <1>12, PlacesKept DEF NothingToResubscribe, placeVars
  <2>4. QED
    BY <2>1, <2>2, <2>3 DEF IInv
<1>13. CASE LinkDrop
  <2>1. TypeOK' /\ SubscribersAreClients'
    <3>1. drops' \in 0 .. MaxDrops /\ acks' \subseteq acks
      BY <1>0, <1>13, BoundsAssumption DEF LinkDrop, TypeOK
    <3>2. acks' \subseteq [cmd : Commands, granted : SUBSET Filters]
      BY <1>0, <3>1 DEF TypeOK
    <3>3. QED
      BY <1>0, <1>13, <3>1, <3>2 DEF LinkDrop, TypeOK, SubscribersAreClients
  <2>2. ReleaseFits' /\ AgentPhases' /\ AcksArePending'
    BY <1>0, <1>13 DEF LinkDrop, Running, ReleaseFits, AgentPhases, AcksArePending
  <2>3. OneOwner'
    BY <1>0, <1>13, PlacesKept DEF LinkDrop, placeVars
  <2>4. QED
    BY <2>1, <2>2, <2>3 DEF IInv
<1>14. CASE Halted \/ UNCHANGED vars
  <2>1. UNCHANGED vars
    BY <1>14 DEF Halted
  <2>2. TypeOK' /\ SubscribersAreClients'
    BY <1>0, <2>1 DEF vars, TypeOK, SubscribersAreClients
  <2>3. ReleaseFits' /\ AgentPhases' /\ AcksArePending'
    BY <1>0, <2>1 DEF vars, Running, ReleaseFits, AgentPhases, AcksArePending
  <2>4. OneOwner'
    BY <1>0, <2>1 DEF vars, Running, OneOwner, InHand, InCurrent
  <2>5. QED
    BY <2>2, <2>3, <2>4 DEF IInv
<1>15. ASSUME NEW k \in Clients, PublishRefused(k)
       PROVE  IInv'
  <2>1. TypeOK' /\ SubscribersAreClients'
    BY <1>0, <1>15 DEF PublishRefused, TypeOK, SubscribersAreClients
  <2>2. ReleaseFits' /\ AgentPhases' /\ AcksArePending'
    BY <1>0, <1>15 DEF PublishRefused, Running, ReleaseFits, AgentPhases, AcksArePending
  <2>3. OneOwner'
    BY <1>0, <1>15, PlacesKept DEF PublishRefused, placeVars
  <2>4. QED
    BY <2>1, <2>2, <2>3 DEF IInv
<1>16. ASSUME NEW c \in Commands, BrokerAnswer(c)
       PROVE  IInv'
  <2>1. PICK granted \in SUBSET cmd[c].filters :
              /\ brokerSubs' = brokerSubs \cup granted
              /\ acks' = acks \cup {[cmd |-> c, granted |-> granted]}
    BY <1>16 DEF BrokerAnswer
  <2>2. granted \subseteq Filters
    BY <1>0, <2>1 DEF TypeOK, Blank
  <2>3. TypeOK' /\ SubscribersAreClients'
    BY <1>0, <1>16, <2>1, <2>2 DEF BrokerAnswer, TypeOK, SubscribersAreClients
  <2>4. AcksArePending'
    BY <1>0, <1>16, <2>1 DEF BrokerAnswer, Running, AcksArePending
  <2>5. ReleaseFits' /\ AgentPhases'
    BY <1>0, <1>16 DEF BrokerAnswer, Running, ReleaseFits, AgentPhases
  <2>6. OneOwner'
    BY <1>0, <1>16, PlacesKept DEF BrokerAnswer, placeVars
  <2>7. QED
    BY <2>3, <2>4, <2>5, <2>6 DEF IInv
<1>17. QED
  BY <1>1, <1>2, <1>3, <1>4, <1>5, <1>6, <1>7, <1>8, <1>9, <1>10, <1>11, <1>12, <1>13, <1>14, <1>15, <1>16

\* Agent_GetCommand() moves a structure from the pool to its caller.
LEMMA GetCommandMoves ==
    ASSUME IInv, Running, NEW k \in Callers, holder[k] = NULL,
           NEW kind \in Kinds, kind = "subscribe" => k \in Clients,
           Agent_GetCommand(k, kind), UNCHANGED <<queue, current, pending>>
    PROVE  /\ OneOwner' /\ SubscribersAreClients'
           /\ pool' \in Seq(Commands)
           /\ cmd' \in [Commands -> [kind : Kinds, by : Callers, filters : SUBSET Filters]
                                    \cup {Blank}]
           /\ holder' \in [Callers -> Commands \cup {NULL}]
           /\ \A l \in Callers \ {k} : holder'[l] = holder[l]
           /\ holder'[k] # NULL
<1> DEFINE c == Head(pool)
<1>0. /\ TypeOK /\ OneOwner /\ SubscribersAreClients
      /\ pool \in Seq(Commands) /\ IsInjective(pool) /\ pool # <<>>
      /\ holder \in [Callers -> Commands \cup {NULL}]
  BY DEF IInv, TypeOK, OneOwner, Agent_GetCommand
<1>1. /\ c \in Commands /\ c \in Range(pool)
      /\ Tail(pool) \in Seq(Commands)
      /\ IsInjective(Tail(pool))
      /\ Range(Tail(pool)) = Range(pool) \ {c}
  BY <1>0, QueueReceive
<1>2. /\ pool' = Tail(pool)
      /\ holder' = [holder EXCEPT ![k] = c]
      /\ cmd' = [cmd EXCEPT ![c] = [kind |-> kind, by |-> k, filters |-> {}]]
  BY DEF Agent_GetCommand
<1> HIDE DEF c
<1>3. /\ c \notin InHand
      /\ \A l, m \in Callers : holder[l] = holder[m] /\ holder[l] # NULL => l = m
  BY <1>0, <1>1 DEF OneOwner
<1>4. /\ holder' \in [Callers -> Commands \cup {NULL}]
      /\ InHand' = InHand \cup {c}
      /\ \A l, m \in Callers : holder'[l] = holder'[m] /\ holder'[l] # NULL => l = m
      /\ \A l \in Callers \ {k} : holder'[l] = holder[l]
      /\ holder'[k] = c
  BY <1>0, <1>1, <1>2, <1>3, HandTakes
<1>5. OneOwner'
  <2>1. InCurrent' = InCurrent /\ pending' = pending /\ queue' = queue
    BY DEF InCurrent
  <2>2. IsInjective(pool') /\ Range(pool') = Range(pool) \ {c}
    BY <1>1, <1>2
  <2>3. QED
    BY <1>0, <1>1, <1>4, <2>1, <2>2 DEF OneOwner
<1>6. cmd' \in [Commands -> [kind : Kinds, by : Callers, filters : SUBSET Filters]
                            \cup {Blank}]
  BY <1>0, <1>2 DEF TypeOK
<1>7. SubscribersAreClients'
  BY <1>0, <1>1, <1>2 DEF SubscribersAreClients, TypeOK
<1>8. c # NULL
  BY <1>1, QueueAssumption
<1>9. QED
  BY <1>1, <1>2, <1>4, <1>5, <1>6, <1>7, <1>8

\* Each action keeps the invariant: the structures move, one at a time.
LEMMA TakeCommandKeeps ==
    ASSUME IInv, NEW k \in Clients, TakeCommand(k)
    PROVE  IInv'
<1> USE DEF taskVars, agentVars, listVars, brokerVars
<1>0. /\ TypeOK /\ ReleaseFits /\ AgentPhases /\ AcksArePending
  BY DEF IInv
<1>1. k \in Callers /\ k # AgentTask
  BY ClientsAssumption DEF Callers
<1>2. PICK kind \in Kinds : Agent_GetCommand(k, kind)
  BY DEF TakeCommand, Kinds
<1>3. Running /\ holder[k] = NULL /\ UNCHANGED <<queue, current, pending>>
  BY DEF TakeCommand
<1>4. /\ OneOwner' /\ SubscribersAreClients'
      /\ pool' \in Seq(Commands)
      /\ cmd' \in [Commands -> [kind : Kinds, by : Callers, filters : SUBSET Filters]
                               \cup {Blank}]
      /\ holder' \in [Callers -> Commands \cup {NULL}]
      /\ \A l \in Callers \ {k} : holder'[l] = holder[l]
  BY <1>1, <1>2, <1>3, GetCommandMoves
<1>5. TypeOK'
  BY <1>0, <1>4 DEF TakeCommand, TypeOK
<1>6. AgentPhases' /\ AcksArePending' /\ ReleaseFits'
  <2>1. holder'[AgentTask] = holder[AgentTask]
    BY <1>1, <1>4 DEF Callers
  <2>2. QED
    BY <1>0, <2>1 DEF TakeCommand, Running, ReleaseFits, AgentPhases, AcksArePending
<1>7. QED
  BY <1>4, <1>5, <1>6 DEF IInv

LEMMA SocketWakeupKeeps ==
    ASSUME IInv, SocketWakeup
    PROVE  IInv'
<1> USE DEF taskVars, agentVars, listVars, brokerVars
<1>0. /\ TypeOK /\ ReleaseFits /\ AgentPhases /\ AcksArePending
  BY DEF IInv
<1>1. IPTask \in Callers /\ IPTask # AgentTask /\ "processloop" \in Kinds
  BY ClientsAssumption DEF Callers, Kinds
<1>2. /\ Agent_GetCommand(IPTask, "processloop")
      /\ Running /\ holder[IPTask] = NULL /\ UNCHANGED <<queue, current, pending>>
  BY DEF SocketWakeup
<1>4. /\ OneOwner' /\ SubscribersAreClients'
      /\ pool' \in Seq(Commands)
      /\ cmd' \in [Commands -> [kind : Kinds, by : Callers, filters : SUBSET Filters]
                               \cup {Blank}]
      /\ holder' \in [Callers -> Commands \cup {NULL}]
      /\ \A l \in Callers \ {IPTask} : holder'[l] = holder[l]
  BY <1>1, <1>2, GetCommandMoves
<1>5. TypeOK'
  BY <1>0, <1>4 DEF SocketWakeup, TypeOK
<1>6. AgentPhases' /\ AcksArePending' /\ ReleaseFits'
  <2>1. holder'[AgentTask] = holder[AgentTask]
    BY <1>1, <1>4 DEF Callers
  <2>2. QED
    BY <1>0, <2>1 DEF SocketWakeup, Running, ReleaseFits, AgentPhases, AcksArePending
<1>7. QED
  BY <1>4, <1>5, <1>6 DEF IInv

\* The filters of a subscription list are filters.
LEMMA ListedFilters ==
    ASSUME NEW list \in SubscriptionLists
    PROVE  Listed(list) \subseteq Filters
<1>1. \A i \in Slots : list[i] \in Subscription \/ list[i] = Free
  BY DEF SubscriptionLists
<1>2. QED
  BY <1>1, NullAssumption DEF Listed, FreeSlots, Subscription, Free

LEMMA ResubscribeKeeps ==
    ASSUME IInv, Resubscribe
    PROVE  IInv'
<1> USE DEF taskVars, agentVars, listVars, brokerVars
<1>0. /\ TypeOK /\ OneOwner /\ ReleaseFits
      /\ AgentPhases /\ AcksArePending /\ SubscribersAreClients
  BY DEF IInv
<1>1. /\ Running /\ agent = "resub"
      /\ xSubArgs' = Listed(xGlobalSubscriptionList)
      /\ UNCHANGED <<queue, joined, told, current, pending, session, started, attempts,
                     xGlobalSubscriptionList, lost, link, drops, brokerSubs, acks>>
  BY DEF Resubscribe
<1>2. xSubArgs' \subseteq Filters
  BY <1>0, <1>1, ListedFilters DEF TypeOK
<1>3. CASE Agent_GetCommand(AgentTask, "resubscribe") /\ agent' = "enqueue" /\ UNCHANGED fault
  <2>1. AgentTask \in Callers /\ "resubscribe" \in Kinds /\ holder[AgentTask] = NULL
    BY <1>0, <1>1 DEF Callers, Kinds, AgentPhases
  <2>2. /\ OneOwner' /\ SubscribersAreClients'
        /\ pool' \in Seq(Commands)
        /\ cmd' \in [Commands -> [kind : Kinds, by : Callers, filters : SUBSET Filters]
                                 \cup {Blank}]
        /\ holder' \in [Callers -> Commands \cup {NULL}]
        /\ holder'[AgentTask] # NULL
    BY <1>1, <1>3, <2>1, GetCommandMoves
  <2>3. TypeOK'
    BY <1>0, <1>1, <1>2, <1>3, <2>2 DEF TypeOK
  <2>4. AgentPhases' /\ AcksArePending' /\ ReleaseFits'
    BY <1>0, <1>1, <1>3, <2>2 DEF Running, ReleaseFits, AgentPhases, AcksArePending
  <2>5. QED
    BY <2>2, <2>3, <2>4 DEF IInv
<1>4. CASE fault' = "resubscribe" /\ UNCHANGED <<pool, cmd, holder, agent>>
  <2>1. TypeOK' /\ SubscribersAreClients'
    BY <1>0, <1>1, <1>2, <1>4 DEF TypeOK, SubscribersAreClients
  <2>2. ~Running' /\ ReleaseFits'
    BY <1>4 DEF Running, ReleaseFits
  <2>3. QED
    BY <2>1, <2>2 DEF IInv, OneOwner, AgentPhases, AcksArePending
<1>5. QED
  BY <1>3, <1>4 DEF Resubscribe

\* A command that a caller holds is not in the queue, so there is room for it.
LEMMA RoomForHeld ==
    ASSUME IInv, Running, NEW k \in Callers, holder[k] # NULL
    PROVE  holder[k] \in Commands \ Range(queue) /\ Len(queue) < QueueLength
<1>0. /\ queue \in Seq(Commands) /\ IsInjective(queue)
      /\ holder \in [Callers -> Commands \cup {NULL}]
      /\ Range(queue) \cap InHand = {}
  BY DEF IInv, TypeOK, OneOwner
<1>1. holder[k] \in Commands /\ holder[k] \in InHand
  BY <1>0 DEF InHand
<1>2. Len(queue) < PoolSize
  BY <1>0, <1>1, QueueHasRoom
<1>3. Len(queue) \in Nat
  BY <1>0, LenProperties
<1>4. QED
  BY <1>0, <1>1, <1>2, <1>3, QueueAssumption

LEMMA PostCommandKeeps ==
    ASSUME IInv, NEW k \in Callers, PostCommand(k)
    PROVE  IInv'
<1> USE DEF taskVars, agentVars, listVars, brokerVars
<1> DEFINE c == holder[k]
<1>0. /\ TypeOK /\ OneOwner /\ ReleaseFits
      /\ AgentPhases /\ AcksArePending /\ SubscribersAreClients
      /\ queue \in Seq(Commands) /\ IsInjective(queue)
      /\ holder \in [Callers -> Commands \cup {NULL}]
      /\ Running /\ c # NULL
      /\ \A l, m \in Callers : holder[l] = holder[m] /\ holder[l] # NULL => l = m
  BY DEF IInv, TypeOK, OneOwner, PostCommand
<1>1. c \in Commands \ Range(queue) /\ Len(queue) < QueueLength
  BY <1>0, RoomForHeld
<1>2. /\ queue' = Append(queue, c)
      /\ joined' = joined \cup ({k} \cap Clients)
      /\ agent' = IF k = AgentTask THEN "loop" ELSE agent
      /\ holder' = [holder EXCEPT ![k] = NULL]
      /\ UNCHANGED <<pool, cmd, fault, told, current, pending, session, started, attempts,
                     xGlobalSubscriptionList, xSubArgs, lost, link, drops, brokerSubs, acks>>
  BY <1>1 DEF PostCommand, Agent_MessageSend
<1>3. /\ queue' \in Seq(Commands) /\ IsInjective(queue')
      /\ Range(queue') = Range(queue) \cup {c}
  BY <1>0, <1>1, <1>2, QueueSend
<1>4. /\ holder' \in [Callers -> Commands \cup {NULL}]
      /\ InHand' = InHand \ {c}
      /\ c \in InHand
      /\ \A l, m \in Callers : holder'[l] = holder'[m] /\ holder'[l] # NULL => l = m
      /\ \A l \in Callers \ {k} : holder'[l] = holder[l]
      /\ holder'[k] = NULL
  BY <1>0, <1>2, HandGives
<1> HIDE DEF c
<1>5. OneOwner'
  <2>1. InCurrent' = InCurrent /\ pending' = pending /\ pool' = pool
    BY <1>2 DEF InCurrent
  <2>2. QED
    BY <1>0, <1>3, <1>4, <2>1 DEF OneOwner
<1>6. TypeOK' /\ SubscribersAreClients'
  BY <1>0, <1>2, <1>3, <1>4 DEF TypeOK, SubscribersAreClients
<1>7. AgentPhases' /\ AcksArePending' /\ ReleaseFits'
  <2>1. AgentTask \in Callers
    BY DEF Callers
  <2>2. CASE k = AgentTask
    <3>1. agent = "enqueue"
      BY <1>0, <2>2 DEF AgentPhases, c
    <3>2. QED
      BY <1>0, <1>2, <1>4, <2>1, <2>2, <3>1
         DEF Running, ReleaseFits, AgentPhases, AcksArePending
  <2>3. CASE k # AgentTask
    BY <1>0, <1>2, <1>4, <2>1, <2>3 DEF Running, ReleaseFits, AgentPhases, AcksArePending
  <2>4. QED
    BY <2>2, <2>3
<1>8. QED
  BY <1>5, <1>6, <1>7 DEF IInv

LEMMA AgentReceiveKeeps ==
    ASSUME IInv, AgentReceive
    PROVE  IInv'
<1> USE DEF taskVars, agentVars, listVars, brokerVars
<1> DEFINE c == Head(queue)
<1>0. /\ TypeOK /\ OneOwner /\ ReleaseFits
      /\ AgentPhases /\ AcksArePending /\ SubscribersAreClients
      /\ queue \in Seq(Commands) /\ IsInjective(queue) /\ queue # <<>>
      /\ current = NULL
  BY DEF IInv, TypeOK, OneOwner, AgentPhases, AgentReceive
<1>1. /\ c \in Commands /\ c \in Range(queue)
      /\ Tail(queue) \in Seq(Commands)
      /\ IsInjective(Tail(queue))
      /\ Range(Tail(queue)) = Range(queue) \ {c}
  BY <1>0, QueueReceive
<1>2. queue' = Tail(queue) /\ current' = c /\ agent' = "run"
  BY DEF AgentReceive
<1> HIDE DEF c
<1>3. c # NULL
  BY <1>1, QueueAssumption
<1>4. OneOwner'
  <2>1. InCurrent' = {c} /\ InCurrent = {}
    BY <1>0, <1>2, <1>3 DEF InCurrent
  <2>2. InHand' = InHand /\ pending' = pending /\ pool' = pool /\ holder' = holder
    BY DEF AgentReceive, InHand
  <2>3. Running
    BY DEF AgentReceive
  <2>4. QED
    BY <1>0, <1>1, <1>2, <2>1, <2>2, <2>3 DEF OneOwner
<1>5. TypeOK' /\ SubscribersAreClients'
  BY <1>0, <1>1, <1>2 DEF AgentReceive, TypeOK, SubscribersAreClients
<1>6. AgentPhases' /\ AcksArePending' /\ ReleaseFits'
  BY <1>0, <1>2, <1>3 DEF AgentReceive, Running, ReleaseFits, AgentPhases, AcksArePending
<1>7. QED
  BY <1>4, <1>5, <1>6 DEF IInv

LEMMA RunAwaitingAckKeeps ==
    ASSUME IInv, RunAwaitingAck
    PROVE  IInv'
<1> USE DEF taskVars, agentVars, listVars, brokerVars
<1>0. /\ TypeOK /\ OneOwner /\ ReleaseFits
      /\ AgentPhases /\ AcksArePending /\ SubscribersAreClients
      /\ current \in Commands /\ current # NULL
  BY DEF IInv, TypeOK, AgentPhases, RunAwaitingAck
<1>1. /\ pending' = pending \cup {current}
      /\ cmd' = [cmd EXCEPT ![current].filters = PacketFilters(current)]
      /\ current' = NULL
  BY DEF RunAwaitingAck
<1>2. PacketFilters(current) \subseteq Filters
  <2>1. cmd[current].kind = "subscribe" =>
            SubscriptionOf[cmd[current].by].filter \in Filters
    BY <1>0, ClientsAssumption DEF SubscribersAreClients, Subscription
  <2>2. xSubArgs \subseteq Filters
    BY <1>0 DEF TypeOK
  <2>3. QED
    BY <2>1, <2>2 DEF PacketFilters
<1>3. cmd[current] \in [kind : Kinds, by : Callers, filters : SUBSET Filters]
  <2>1. cmd[current].kind # "none"
    BY DEF RunAwaitingAck, NeedsAck
  <2>2. cmd[current] # Blank
    BY <2>1 DEF Blank
  <2>3. QED
    BY <1>0, <2>2 DEF TypeOK
<1>4. /\ cmd' \in [Commands -> [kind : Kinds, by : Callers, filters : SUBSET Filters]
                               \cup {Blank}]
      /\ cmd'[current].kind = cmd[current].kind /\ cmd'[current].by = cmd[current].by
      /\ \A c \in Commands \ {current} : cmd'[c] = cmd[c]
  <2>1. cmd \in [Commands -> [kind : Kinds, by : Callers, filters : SUBSET Filters]
                             \cup {Blank}]
    BY <1>0 DEF TypeOK
  <2>2. DEFINE r == [cmd[current] EXCEPT !.filters = PacketFilters(current)]
  <2>3. r \in [kind : Kinds, by : Callers, filters : SUBSET Filters]
        /\ r.kind = cmd[current].kind /\ r.by = cmd[current].by
    BY <1>2, <1>3
  <2>4. cmd' = [cmd EXCEPT ![current] = r]
    BY <1>1
  <2> HIDE DEF r
  <2>5. QED
    BY <1>0, <2>1, <2>3, <2>4
<1>5. SubscribersAreClients'
  BY <1>0, <1>4 DEF SubscribersAreClients
<1>6. TypeOK'
  BY <1>0, <1>1, <1>4 DEF RunAwaitingAck, TypeOK
<1>7. OneOwner'
  <2>1. InCurrent' = {} /\ InCurrent = {current}
    BY <1>0, <1>1 DEF InCurrent
  <2>2. InHand' = InHand /\ queue' = queue /\ pool' = pool /\ holder' = holder
    BY DEF RunAwaitingAck, InHand
  <2>3. Running
    BY DEF RunAwaitingAck
  <2>4. QED
    BY <1>0, <1>1, <2>1, <2>2, <2>3 DEF OneOwner
<1>8. AgentPhases' /\ AcksArePending' /\ ReleaseFits'
  BY <1>0, <1>1 DEF RunAwaitingAck, Running, ReleaseFits, AgentPhases, AcksArePending
<1>9. QED
  BY <1>5, <1>6, <1>7, <1>8 DEF IInv

\* A command that ends leaves the agent task or the pending commands and,
\* unless the device stops in its callback, joins the pool.
LEMMA ConcludeKeeps ==
    ASSUME IInv, Running, NEW c \in Commands, c \in InCurrent \cup pending,
           NEW status, NEW refused, Conclude(c, status, refused),
           InCurrent' = InCurrent \ {c}, pending' = pending \ {c},
           UNCHANGED <<queue, holder>>
    PROVE  /\ OneOwner' /\ SubscribersAreClients' /\ ReleaseFits'
           /\ pool' \in Seq(Commands)
           /\ cmd' \in [Commands -> [kind : Kinds, by : Callers, filters : SUBSET Filters]
                                    \cup {Blank}]
           /\ xGlobalSubscriptionList' \in SubscriptionLists
           /\ told' \subseteq Clients
           /\ lost' \in BOOLEAN
           /\ fault' \in {"none", "nullcodes"}
<1>0. /\ TypeOK /\ OneOwner /\ SubscribersAreClients
      /\ pool \in Seq(Commands)
      /\ cmd \in [Commands -> [kind : Kinds, by : Callers, filters : SUBSET Filters]
                              \cup {Blank}]
  BY DEF IInv, TypeOK
<1>1. c \notin Range(pool)
  BY <1>0 DEF OneOwner
<1>2. /\ \/ fault' = "nullcodes" /\ pool' = pool /\ cmd' = cmd
         \/ /\ fault' = "none"
            /\ pool' \in Seq(Commands) /\ IsInjective(pool')
            /\ Range(pool') = Range(pool) \cup {c}
            /\ cmd' = [cmd EXCEPT ![c] = Blank]
      /\ xGlobalSubscriptionList' \in SubscriptionLists
      /\ told' \subseteq Clients
      /\ lost' \in BOOLEAN
  BY <1>1, ConcludeReleases
<1>3. CASE fault' = "nullcodes" /\ pool' = pool /\ cmd' = cmd
  <2>1. ~Running' /\ ReleaseFits'
    BY <1>3 DEF Running, ReleaseFits
  <2>2. SubscribersAreClients'
    BY <1>0, <1>3 DEF SubscribersAreClients
  <2>3. QED
    BY <1>0, <1>2, <1>3, <2>1, <2>2 DEF OneOwner
<1>4. CASE /\ fault' = "none"
           /\ pool' \in Seq(Commands) /\ IsInjective(pool')
           /\ Range(pool') = Range(pool) \cup {c}
           /\ cmd' = [cmd EXCEPT ![c] = Blank]
  <2>1. cmd' \in [Commands -> [kind : Kinds, by : Callers, filters : SUBSET Filters]
                              \cup {Blank}]
    BY <1>0, <1>4
  <2>2. Blank.kind # "subscribe"
    BY DEF Blank
  <2>3. SubscribersAreClients'
    BY <1>0, <1>4, <2>2 DEF SubscribersAreClients
  <2>4. InHand' = InHand
    BY DEF InHand
  <2>5. OneOwner'
    BY <1>0, <1>4, <2>4 DEF OneOwner
  <2>6. ReleaseFits'
    BY <1>4 DEF ReleaseFits
  <2>7. QED
    BY <1>2, <1>4, <2>1, <2>3, <2>5, <2>6
<1>5. QED
  BY <1>2, <1>3, <1>4

LEMMA RunToEndKeeps ==
    ASSUME IInv, RunToEnd
    PROVE  IInv'
<1> USE DEF taskVars, agentVars, listVars, brokerVars
<1>0. /\ TypeOK /\ OneOwner /\ AgentPhases /\ AcksArePending
      /\ current \in Commands /\ current # NULL /\ Running
  BY DEF IInv, TypeOK, AgentPhases, RunToEnd
<1>1. /\ current' = NULL /\ agent' = "poll" /\ agent = "run"
      /\ Conclude(current, "MQTTSuccess", {})
      /\ UNCHANGED <<queue, holder, joined, pending, session, started, attempts, xSubArgs,
                     link, drops, brokerSubs, acks>>
  BY DEF RunToEnd
<1>2. /\ InCurrent = {current} /\ InCurrent' = {}
      /\ current \notin pending
  BY <1>0, <1>1 DEF InCurrent, OneOwner
<1>3. /\ OneOwner' /\ SubscribersAreClients' /\ ReleaseFits'
      /\ pool' \in Seq(Commands)
      /\ cmd' \in [Commands -> [kind : Kinds, by : Callers, filters : SUBSET Filters]
                               \cup {Blank}]
      /\ xGlobalSubscriptionList' \in SubscriptionLists
      /\ told' \subseteq Clients
      /\ lost' \in BOOLEAN
      /\ fault' \in {"none", "nullcodes"}
  <2>1. /\ current \in InCurrent \cup pending
        /\ InCurrent' = InCurrent \ {current} /\ pending' = pending \ {current}
    BY <1>1, <1>2
  <2>2. QED
    BY <1>0, <1>1, <2>1, ConcludeKeeps
<1>4. TypeOK'
  BY <1>0, <1>1, <1>3 DEF TypeOK
<1>5. AgentPhases' /\ AcksArePending'
  BY <1>0, <1>1 DEF Running, AgentPhases, AcksArePending
<1>6. QED
  BY <1>3, <1>4, <1>5 DEF IInv

LEMMA SendFailsKeeps ==
    ASSUME IInv, SendFails
    PROVE  IInv'
<1> USE DEF taskVars, agentVars, listVars, brokerVars
<1>0. /\ TypeOK /\ OneOwner /\ AgentPhases /\ AcksArePending
      /\ current \in Commands /\ current # NULL /\ Running
  BY DEF IInv, TypeOK, AgentPhases, SendFails
<1>1. /\ current' = NULL /\ agent' = "failed" /\ agent = "run"
      /\ Conclude(current, "MQTTSendFailed", {})
      /\ UNCHANGED <<queue, holder, joined, pending, session, started, attempts, xSubArgs,
                     link, drops, brokerSubs, acks>>
  BY DEF SendFails
<1>2. /\ InCurrent = {current} /\ InCurrent' = {}
      /\ current \notin pending
  BY <1>0, <1>1 DEF InCurrent, OneOwner
<1>3. /\ OneOwner' /\ SubscribersAreClients' /\ ReleaseFits'
      /\ pool' \in Seq(Commands)
      /\ cmd' \in [Commands -> [kind : Kinds, by : Callers, filters : SUBSET Filters]
                               \cup {Blank}]
      /\ xGlobalSubscriptionList' \in SubscriptionLists
      /\ told' \subseteq Clients
      /\ lost' \in BOOLEAN
      /\ fault' \in {"none", "nullcodes"}
  <2>1. /\ current \in InCurrent \cup pending
        /\ InCurrent' = InCurrent \ {current} /\ pending' = pending \ {current}
    BY <1>1, <1>2
  <2>2. QED
    BY <1>0, <1>1, <2>1, ConcludeKeeps
<1>4. TypeOK'
  BY <1>0, <1>1, <1>3 DEF TypeOK
<1>5. AgentPhases' /\ AcksArePending'
  BY <1>0, <1>1 DEF Running, AgentPhases, AcksArePending
<1>6. QED
  BY <1>3, <1>4, <1>5 DEF IInv

LEMMA PollAckKeeps ==
    ASSUME IInv, PollAck
    PROVE  IInv'
<1> USE DEF taskVars, agentVars, listVars, brokerVars
<1>0. /\ TypeOK /\ OneOwner /\ AgentPhases /\ AcksArePending /\ Running
  BY DEF IInv, PollAck
<1>1. PICK a \in acks :
          /\ acks' = acks \ {a}
          /\ pending' = pending \ {a.cmd}
          /\ Conclude(a.cmd, SubackStatus(a.cmd, a.granted), cmd[a.cmd].filters \ a.granted)
  BY DEF PollAck
<1>2. /\ a.cmd \in pending /\ a.cmd \in Commands
      /\ UNCHANGED <<queue, holder, joined, agent, current, session, started, attempts,
                     xSubArgs, link, drops, brokerSubs>>
  BY <1>0, <1>1 DEF PollAck, AcksArePending, TypeOK
<1>3. /\ OneOwner' /\ SubscribersAreClients' /\ ReleaseFits'
      /\ pool' \in Seq(Commands)
      /\ cmd' \in [Commands -> [kind : Kinds, by : Callers, filters : SUBSET Filters]
                               \cup {Blank}]
      /\ xGlobalSubscriptionList' \in SubscriptionLists
      /\ told' \subseteq Clients
      /\ lost' \in BOOLEAN
      /\ fault' \in {"none", "nullcodes"}
  <2>1. a.cmd \notin InCurrent /\ InCurrent' = InCurrent
    BY <1>0, <1>2 DEF OneOwner, InCurrent
  <2>2. a.cmd \in InCurrent \cup pending /\ InCurrent' = InCurrent \ {a.cmd}
    BY <1>2, <2>1
  <2>3. QED
    BY <1>0, <1>1, <1>2, <2>2, ConcludeKeeps
<1>4. TypeOK'
  BY <1>0, <1>1, <1>2, <1>3 DEF TypeOK
<1>5. AgentPhases' /\ AcksArePending'
  <2>1. Running' => AcksArePending'
    <3>1. /\ \A b \in acks : b.cmd \in pending
          /\ \A b, d \in acks : b.cmd = d.cmd => b = d
      BY <1>0 DEF AcksArePending
    <3>2. \A b \in acks' : b \in acks /\ b.cmd # a.cmd
      BY <1>1, <3>1
    <3>3. agent' = "poll"
      BY <1>2 DEF PollAck
    <3>4. QED
      BY <1>1, <3>1, <3>2, <3>3 DEF AcksArePending
  <2>2. QED
    BY <1>0, <1>2, <2>1 DEF Running, AgentPhases, AcksArePending
<1>6. QED
  BY <1>3, <1>4, <1>5 DEF IInv

LEMMA ClearPendingKeeps ==
    ASSUME IInv, ClearPending
    PROVE  IInv'
<1> USE DEF taskVars, agentVars, listVars, brokerVars
<1>0. /\ TypeOK /\ OneOwner /\ AgentPhases /\ AcksArePending /\ Running
  BY DEF IInv, ClearPending
<1>1. PICK c \in Cancelled :
          /\ Conclude(c, "MQTTRecvFailed", {})
          /\ pending' = pending \ {c}
  BY DEF ClearPending
<1>2. /\ c \in pending /\ c \in Commands
      /\ UNCHANGED <<queue, holder, joined, agent, current, session, started, attempts,
                     xSubArgs, link, drops, brokerSubs, acks>>
  BY <1>0, <1>1 DEF ClearPending, Cancelled, TypeOK
<1>3. /\ OneOwner' /\ SubscribersAreClients' /\ ReleaseFits'
      /\ pool' \in Seq(Commands)
      /\ cmd' \in [Commands -> [kind : Kinds, by : Callers, filters : SUBSET Filters]
                               \cup {Blank}]
      /\ xGlobalSubscriptionList' \in SubscriptionLists
      /\ told' \subseteq Clients
      /\ lost' \in BOOLEAN
      /\ fault' \in {"none", "nullcodes"}
  <2>1. c \notin InCurrent /\ InCurrent' = InCurrent
    BY <1>0, <1>2 DEF OneOwner, InCurrent
  <2>2. c \in InCurrent \cup pending /\ InCurrent' = InCurrent \ {c}
    BY <1>2, <2>1
  <2>3. QED
    BY <1>0, <1>1, <1>2, <2>2, ConcludeKeeps
<1>4. TypeOK'
  BY <1>0, <1>1, <1>2, <1>3 DEF TypeOK
<1>5. AgentPhases' /\ AcksArePending'
  <2>1. acks = {}
    BY <1>0 DEF ClearPending, AcksArePending
  <2>2. QED
    BY <1>0, <1>2, <2>1 DEF Running, AgentPhases, AcksArePending
<1>6. QED
  BY <1>3, <1>4, <1>5 DEF IInv

----------------------------------------------------------------------------
(* The theorems.                                                           *)

\* The invariant holds before the tasks run.
LEMMA IInvInitially == Init => IInv
<1> SUFFICES ASSUME Init PROVE IInv
  OBVIOUS
<1>1. pool \in Seq(Commands) /\ Range(pool) = Commands /\ IsInjective(pool)
  <2>1. pool = [i \in 1 .. PoolSize |-> i]
    BY DEF Init, prvMQTTInit, Agent_InitializePool, Commands
  <2>2. PoolSize \in Nat /\ \A i \in 1 .. PoolSize : i \in Commands
    BY QueueAssumption DEF Commands
  <2>3. pool \in Seq(Commands)
    BY <2>1, <2>2, IsASeq
  <2>4. QED
    BY <2>1, <2>3 DEF Range, IsInjective, Commands
<1>2. queue \in Seq(Commands) /\ Range(queue) = {} /\ IsInjective(queue)
  BY EmptySeq DEF Init, prvMQTTInit, Agent_InitializePool, Range, IsInjective
<1>3. TypeOK
  <2>1. xGlobalSubscriptionList \in SubscriptionLists
    BY DEF Init, prvMQTTInit, Agent_InitializePool, SubscriptionLists
  <2>2. /\ cmd \in [Commands -> [kind : Kinds, by : Callers, filters : SUBSET Filters]
                               \cup {Blank}]
        /\ holder \in [Callers -> Commands \cup {NULL}]
    BY DEF Init, prvMQTTInit, Agent_InitializePool
  <2>3. attempts \in 0 .. RetryMaxAttempts /\ drops \in 0 .. MaxDrops
    BY BoundsAssumption DEF Init, prvMQTTInit, Agent_InitializePool
  <2>4. QED
    BY <1>1, <1>2, <2>1, <2>2, <2>3 DEF Init, prvMQTTInit, Agent_InitializePool, TypeOK
<1>4. OneOwner
  <2>1. InHand = {} /\ InCurrent = {} /\ pending = {} /\ \A k \in Callers : holder[k] = NULL
    BY DEF Init, prvMQTTInit, Agent_InitializePool, InHand, InCurrent
  <2>2. QED
    BY <1>1, <1>2, <2>1 DEF OneOwner
<1>5. ReleaseFits /\ AgentPhases /\ AcksArePending /\ SubscribersAreClients
  BY DEF Init, prvMQTTInit, Agent_InitializePool, ReleaseFits, AgentPhases, AcksArePending, SubscribersAreClients, Callers, Blank
<1>6. QED
  BY <1>3, <1>4, <1>5 DEF IInv

\* Every step keeps the invariant.
LEMMA IInvIsInductive == IInv /\ [Next]_vars => IInv'
<1> SUFFICES ASSUME IInv, [Next]_vars
             PROVE  IInv'
  OBVIOUS
<1>1. CASE CallerStep
  BY <1>1, TakeCommandKeeps, NothingMoves, PostCommandKeeps, SocketWakeupKeeps DEF CallerStep
<1>2. CASE LoopStep
  BY <1>2, AgentReceiveKeeps, NothingMoves, RunToEndKeeps, RunAwaitingAckKeeps,
     SendFailsKeeps, PollAckKeeps DEF LoopStep
<1>3. CASE ReconnectStep
  BY <1>3, NothingMoves, ClearPendingKeeps, ResubscribeKeeps DEF ReconnectStep
<1>4. CASE BrokerStep
  BY <1>4, NothingMoves DEF BrokerStep
<1>5. CASE Halted \/ UNCHANGED vars
  BY <1>5, NothingMoves
<1>6. QED
  BY <1>1, <1>2, <1>3, <1>4, <1>5 DEF Next

\* The inductive invariant of the structures.
LEMMA IInvAlways == Spec => []IInv
  BY IInvInitially, IInvIsInductive, PTL DEF Spec

\* The type invariant of the component.
THEOREM TypeCorrect == Spec => []TypeOK
<1>1. IInv => TypeOK
  BY DEF IInv
<1>2. QED
  BY <1>1, IInvAlways, PTL

\* freertos_command_pool.c and mqtt-agent-task.c: whatever the callers, the
\* agent task and the network do, a command structure is never leaked, never
\* shared by two owners and never released twice while the device runs.
THEOREM OneOwnerTheorem == Spec => []OneOwner
<1>1. IInv => OneOwner
  BY DEF IInv
<1>2. QED
  BY <1>1, IInvAlways, PTL

\* Agent_ReleaseCommand(): its assertion on the send to the pool never fails.
THEOREM ReleaseFitsTheorem == Spec => []ReleaseFits
<1>1. IInv => ReleaseFits
  BY DEF IInv
<1>2. QED
  BY <1>1, IInvAlways, PTL

\* MQTTAgent_ProcessLoop() from the wakeup callback and the SUBSCRIBE of
\* prvHandleResubscribe(), both without block time: once a caller has a
\* command structure, the command queue takes it.
THEOREM EnqueueFindsRoomTheorem == Spec => []EnqueueFindsRoom
<1>1. IInv => EnqueueFindsRoom
  BY RoomForHeld DEF EnqueueFindsRoom
<1>2. QED
  BY <1>1, IInvAlways, PTL

----------------------------------------------------------------------------
(* Refinement.  What is left to know is that a caller holds what it asked  *)
(* for itself.                                                             *)

HoldersAsked ==
    Running => \A k \in Callers : holder[k] # NULL => cmd[holder[k]].by = k

Places == [c \in Commands |-> Place(c)]
Requests == [c \in Commands |-> Request(cmd[c])]
stopped == ~Running

\* In a state of OneOwner, the place is the set that has the structure.
LEMMA PlaceOf ==
    ASSUME OneOwner, Running, NEW c \in Commands
    PROVE  /\ Place(c) = "free" <=> c \in Range(pool)
           /\ Place(c) = "held" <=> c \in InHand
           /\ Place(c) = "line" <=> c \in Range(queue)
           /\ Place(c) = "executed" <=> c \in InCurrent
           /\ Place(c) = "awaiting" <=> c \in pending
BY DEF OneOwner, Place

\* One structure changes its place.
LEMMA OneMoves ==
    ASSUME NEW c \in Commands, NEW where, Place(c)' = where,
           \A d \in Commands \ {c} : Place(d)' = Place(d)
    PROVE  Places' = [Places EXCEPT ![c] = where]
<1>1. Places' = [d \in Commands |-> Place(d)']
  BY DEF Places
<1>2. \A d \in Commands : Place(d)' = IF d = c THEN where ELSE Place(d)
  OBVIOUS
<1>3. [d \in Commands |-> Place(d)'] = [[d \in Commands |-> Place(d)] EXCEPT ![c] = where]
  BY <1>2
<1>4. QED
  BY <1>1, <1>3 DEF Places

\* Agent_GetCommand() is Take.
LEMMA GetCommandIsTake ==
    ASSUME IInv, HoldersAsked, Running, NEW k \in Callers, holder[k] = NULL,
           NEW kind \in Kinds, Agent_GetCommand(k, kind),
           UNCHANGED <<queue, current, pending, fault>>
    PROVE  HoldersAsked' /\ Service!ServiceNext
<1>c. PICK c : c = Head(pool)
  OBVIOUS
<1>0. /\ OneOwner
      /\ pool \in Seq(Commands) /\ IsInjective(pool) /\ pool # <<>>
      /\ holder \in [Callers -> Commands \cup {NULL}]
      /\ cmd \in [Commands -> [kind : Kinds, by : Callers, filters : SUBSET Filters]
                              \cup {Blank}]
      /\ \A l, m \in Callers : holder[l] = holder[m] /\ holder[l] # NULL => l = m
  BY DEF IInv, TypeOK, OneOwner, Agent_GetCommand
<1>1. /\ c \in Commands /\ c \in Range(pool)
      /\ Range(Tail(pool)) = Range(pool) \ {c}
  BY <1>c, <1>0, QueueReceive
<1>2. /\ pool' = Tail(pool)
      /\ holder' = [holder EXCEPT ![k] = c]
      /\ cmd' = [cmd EXCEPT ![c] = [kind |-> kind, by |-> k, filters |-> {}]]
      /\ Running' /\ stopped' = stopped /\ queue' = queue /\ pending' = pending
      /\ InCurrent' = InCurrent
  BY <1>c DEF Agent_GetCommand, Running, stopped, InCurrent
<1>3. c \notin InHand /\ c # NULL
  BY <1>0, <1>1, QueueAssumption DEF OneOwner
<1>4. /\ InHand' = InHand \cup {c}
      /\ \A l \in Callers \ {k} : holder'[l] = holder[l]
      /\ holder'[k] = c
  BY <1>0, <1>1, <1>2, <1>3, HandTakes
<1>5. HoldersAsked'
  <2>1. \A l \in Callers \ {k} : holder[l] # c
    BY <1>3 DEF InHand
  <2>2. \A d \in Commands \ {c} : cmd'[d] = cmd[d]
    BY <1>0, <1>2
  <2>3. cmd'[c].by = k
    BY <1>0, <1>1, <1>2
  <2>4. QED
    BY <1>0, <1>4, <2>1, <2>2, <2>3 DEF HoldersAsked
<1>6. Places' = [Places EXCEPT ![c] = "held"]
  <2>1. Range(pool') = Range(pool) \ {c}
    BY <1>1, <1>2
  <2>2. c \notin Range(pool') /\ c \notin Range(queue') /\ c \notin InCurrent' /\ c \notin pending'
    BY <1>0, <1>1, <1>2, <2>1 DEF OneOwner
  <2>3. Place(c)' = "held"
    BY <1>4, <2>2 DEF Place
  <2>4. \A d \in Commands \ {c} : Place(d)' = Place(d)
    BY <1>2, <1>4, <2>1 DEF Place
  <2>5. QED
    BY <1>1, <2>3, <2>4, OneMoves
<1>7. Requests' = [Requests EXCEPT ![c] = [kind |-> kind, by |-> k]]
  <2>1. \A d \in Commands : cmd'[d] = IF d = c THEN [kind |-> kind, by |-> k, filters |-> {}]
                                               ELSE cmd[d]
    BY <1>0, <1>2
  <2>2. \A d \in Commands : Request(cmd'[d]) = IF d = c THEN [kind |-> kind, by |-> k]
                                                        ELSE Request(cmd[d])
    BY <2>1 DEF Request
  <2>3. QED
    BY <1>1, <2>2 DEF Requests
<1>8. Places[c] = "free" /\ ~stopped
  BY <1>0, <1>1, PlaceOf DEF Places, stopped
<1>9. \A d \in Commands : Places[d] = "held" => Requests[d].by # k
  <2> SUFFICES ASSUME NEW d \in Commands, Places[d] = "held"
               PROVE  Requests[d].by # k
    OBVIOUS
  <2>1. d \in InHand
    BY <1>0, PlaceOf DEF Places
  <2>2. PICK l \in Callers : holder[l] = d /\ d # NULL
    BY <2>1 DEF InHand
  <2>3. cmd[d].by = l /\ l # k
    BY <2>2 DEF HoldersAsked
  <2>4. QED
    BY <2>3 DEF Requests, Request
<1>10. Service!Take(c, k, kind)
  BY <1>2, <1>6, <1>7, <1>8, <1>9 DEF Service!Take, Places, Requests, stopped
<1>11. QED
  BY <1>1, <1>5, <1>10 DEF Service!ServiceNext

\* The second half of an API call is Post: it finds room.
LEMMA PostCommandIsPost ==
    ASSUME IInv, HoldersAsked, NEW k \in Callers, PostCommand(k)
    PROVE  HoldersAsked' /\ Service!ServiceNext
<1>c. PICK c : c = holder[k]
  OBVIOUS
<1>0. /\ OneOwner
      /\ queue \in Seq(Commands) /\ IsInjective(queue)
      /\ holder \in [Callers -> Commands \cup {NULL}]
      /\ Running /\ c # NULL
      /\ \A l, m \in Callers : holder[l] = holder[m] /\ holder[l] # NULL => l = m
  BY <1>c DEF IInv, TypeOK, OneOwner, PostCommand
<1>1. c \in Commands \ Range(queue) /\ Len(queue) < QueueLength
  BY <1>c, <1>0, RoomForHeld
<1>2. /\ queue' = Append(queue, c)
      /\ holder' = [holder EXCEPT ![k] = NULL]
      /\ UNCHANGED <<pool, cmd, fault, current, pending>>
  BY <1>c, <1>1 DEF PostCommand, Agent_MessageSend
<1>3. Range(queue') = Range(queue) \cup {c}
  BY <1>0, <1>1, <1>2, QueueSend
<1>4. /\ InHand' = InHand \ {c}
      /\ c \in InHand
      /\ \A l \in Callers \ {k} : holder'[l] = holder[l]
      /\ holder'[k] = NULL
  BY <1>c, <1>0, <1>2, HandGives
<1>5. HoldersAsked'
  BY <1>2, <1>4 DEF HoldersAsked, Running
<1>6. Places' = [Places EXCEPT ![c] = "line"]
  <2>1. InCurrent' = InCurrent
    BY <1>2 DEF InCurrent
  <2>2. c \notin Range(pool') /\ c \notin InHand' /\ c \notin InCurrent' /\ c \notin pending'
    BY <1>0, <1>2, <1>4, <2>1 DEF OneOwner
  <2>3. Place(c)' = "line"
    BY <1>3, <2>2 DEF Place
  <2>4. \A d \in Commands \ {c} : Place(d)' = Place(d)
    BY <1>2, <1>3, <1>4, <2>1 DEF Place
  <2>5. QED
    BY <1>1, <2>3, <2>4, OneMoves
<1>7. Requests' = Requests /\ stopped' = stopped /\ ~stopped
  BY <1>0, <1>2 DEF Requests, Request, stopped, Running
<1>8. Places[c] = "held"
  BY <1>0, <1>1, <1>4, PlaceOf DEF Places
<1>9. Service!Post(c)
  BY <1>2, <1>6, <1>7, <1>8 DEF Service!Post, Places, Requests, stopped
<1>10. QED
  BY <1>1, <1>5, <1>9 DEF Service!ServiceNext

\* The agent task executes the oldest command, and no other at that time.
LEMMA AgentReceiveIsExecute ==
    ASSUME IInv, HoldersAsked, AgentReceive
    PROVE  HoldersAsked' /\ Service!ServiceNext
<1>c. PICK c : c = Head(queue)
  OBVIOUS
<1>0. /\ OneOwner /\ Running
      /\ queue \in Seq(Commands) /\ IsInjective(queue) /\ queue # <<>>
      /\ current = NULL
  BY DEF IInv, TypeOK, OneOwner, AgentPhases, AgentReceive
<1>1. c \in Commands /\ c \in Range(queue) /\ Range(Tail(queue)) = Range(queue) \ {c}
  BY <1>c, <1>0, QueueReceive
<1>2. /\ queue' = Tail(queue) /\ current' = c
      /\ UNCHANGED <<pool, cmd, holder, pending, fault>>
  BY <1>c DEF AgentReceive, taskVars
<1>3. InCurrent = {} /\ InCurrent' = {c} /\ InHand' = InHand
  BY <1>0, <1>1, <1>2, QueueAssumption DEF InCurrent, InHand
<1>4. HoldersAsked'
  BY <1>2 DEF HoldersAsked, Running
<1>5. Places' = [Places EXCEPT ![c] = "executed"]
  <2>1. /\ c \notin Range(pool') /\ c \notin InHand' /\ c \notin pending'
        /\ Range(queue') = Range(queue) \ {c}
    BY <1>0, <1>1, <1>2, <1>3 DEF OneOwner
  <2>2. Place(c)' = "executed"
    BY <1>2, <1>3, <2>1 DEF Place
  <2>3. \A d \in Commands \ {c} : Place(d)' = Place(d)
    BY <1>2, <1>3, <2>1 DEF Place
  <2>4. QED
    BY <1>1, <2>2, <2>3, OneMoves
<1>6. Requests' = Requests /\ stopped' = stopped /\ ~stopped
  BY <1>0, <1>2 DEF Requests, Request, stopped, Running
<1>7. \A d \in Commands : Places[d] # "executed"
  BY <1>0, <1>3, PlaceOf DEF Places
<1>8. Service!Execute
  BY <1>c, <1>0, <1>2, <1>5, <1>6, <1>7 DEF Service!Execute, Places, Requests, stopped
<1>9. QED
  BY <1>4, <1>8 DEF Service!ServiceNext

\* A command that needs an acknowledgment waits for it.
LEMMA RunAwaitingAckIsAwait ==
    ASSUME IInv, HoldersAsked, RunAwaitingAck
    PROVE  HoldersAsked' /\ Service!ServiceNext
<1>c. PICK c : c = current
  OBVIOUS
<1>0. /\ OneOwner /\ Running
      /\ cmd \in [Commands -> [kind : Kinds, by : Callers, filters : SUBSET Filters]
                              \cup {Blank}]
      /\ c \in Commands /\ c # NULL
      /\ holder \in [Callers -> Commands \cup {NULL}]
  BY <1>c DEF IInv, TypeOK, AgentPhases, RunAwaitingAck
<1>1. /\ pending' = pending \cup {c}
      /\ cmd' = [cmd EXCEPT ![c].filters = PacketFilters(c)]
      /\ current' = NULL
      /\ UNCHANGED <<pool, queue, holder, fault>>
  BY <1>c DEF RunAwaitingAck, taskVars
<1>2. \A d \in Commands : cmd'[d].kind = cmd[d].kind /\ cmd'[d].by = cmd[d].by
  BY <1>0, <1>1 DEF Blank
<1>3. InCurrent = {c} /\ InCurrent' = {} /\ InHand' = InHand
  BY <1>c, <1>0, <1>1 DEF InCurrent, InHand
<1>4. HoldersAsked'
  BY <1>0, <1>1, <1>2 DEF HoldersAsked, Running
<1>5. Places' = [Places EXCEPT ![c] = "awaiting"]
  <2>1. c \notin Range(pool') /\ c \notin InHand' /\ c \notin Range(queue') /\ c \notin InCurrent'
    BY <1>0, <1>1, <1>3 DEF OneOwner
  <2>2. Place(c)' = "awaiting"
    BY <1>1, <1>3, <2>1 DEF Place
  <2>3. \A d \in Commands \ {c} : Place(d)' = Place(d)
    BY <1>1, <1>3 DEF Place
  <2>4. QED
    BY <1>0, <2>2, <2>3, OneMoves
<1>6. Requests' = Requests
  BY <1>2 DEF Requests, Request
<1>7. stopped' = stopped /\ ~stopped
  BY <1>0, <1>1 DEF stopped, Running
<1>8. Places[c] = "executed"
  BY <1>0, <1>3, PlaceOf DEF Places
<1>9. Service!Await(c)
  BY <1>1, <1>5, <1>6, <1>7, <1>8 DEF Service!Await, Places, Requests, stopped
<1>10. QED
  BY <1>0, <1>4, <1>9 DEF Service!ServiceNext

\* A command that ends is free, or the device has stopped in its callback.
LEMMA ConcludeIsEnd ==
    ASSUME IInv, HoldersAsked, Running, NEW c \in Commands, c \in InCurrent \cup pending,
           NEW status, NEW refused, Conclude(c, status, refused),
           InCurrent' = InCurrent \ {c}, pending' = pending \ {c},
           UNCHANGED <<queue, holder>>
    PROVE  HoldersAsked' /\ Service!ServiceNext
<1>0. /\ OneOwner /\ pool \in Seq(Commands)
      /\ cmd \in [Commands -> [kind : Kinds, by : Callers, filters : SUBSET Filters]
                              \cup {Blank}]
      /\ holder \in [Callers -> Commands \cup {NULL}]
  BY DEF IInv, TypeOK
<1>1. c \notin Range(pool) /\ c \notin InHand /\ c \notin Range(queue)
  BY <1>0 DEF OneOwner
<1>2. InHand' = InHand
  BY DEF InHand
<1>3. Places[c] \in {"executed", "awaiting"} /\ ~stopped
  BY <1>0, PlaceOf DEF Places, stopped
<1>4. \/ fault' = "nullcodes" /\ pool' = pool /\ cmd' = cmd
      \/ /\ fault' = "none"
         /\ Range(pool') = Range(pool) \cup {c}
         /\ cmd' = [cmd EXCEPT ![c] = Blank]
  BY <1>1, ConcludeReleases
<1>5. CASE fault' = "nullcodes" /\ pool' = pool /\ cmd' = cmd
  <2>1. HoldersAsked' /\ stopped' = TRUE
    BY <1>5 DEF HoldersAsked, Running, stopped
  <2>2. Place(c)' = "lost"
    BY <1>1, <1>2, <1>5 DEF Place
  <2>3. \A d \in Commands \ {c} : Place(d)' = Place(d)
    BY <1>2, <1>5 DEF Place
  <2>4. Places' = [Places EXCEPT ![c] = "lost"]
    BY <2>2, <2>3, OneMoves
  <2>5. Requests' = Requests
    BY <1>5 DEF Requests, Request
  <2>6. Service!StopInCallback(c)
    BY <1>3, <2>1, <2>4, <2>5 DEF Service!StopInCallback, Places, Requests, stopped
  <2>7. QED
    BY <2>1, <2>6 DEF Service!ServiceNext
<1>6. CASE /\ fault' = "none"
           /\ Range(pool') = Range(pool) \cup {c}
           /\ cmd' = [cmd EXCEPT ![c] = Blank]
  <2>1. \A d \in Commands : cmd'[d] = IF d = c THEN Blank ELSE cmd[d]
    BY <1>0, <1>6
  <2>2. HoldersAsked'
    <3>1. \A k \in Callers : holder[k] # c
      BY <1>1, QueueAssumption DEF InHand
    <3>2. QED
      BY <1>0, <2>1, <3>1 DEF HoldersAsked
  <2>3. stopped' = stopped
    BY <1>6 DEF stopped, Running
  <2>4. Place(c)' = "free"
    BY <1>1, <1>2, <1>6 DEF Place
  <2>5. \A d \in Commands \ {c} : Place(d)' = Place(d)
    BY <1>2, <1>6 DEF Place
  <2>6. Places' = [Places EXCEPT ![c] = "free"]
    BY <2>4, <2>5, OneMoves
  <2>7. Requests' = [Requests EXCEPT ![c] = Request(Blank)]
    BY <2>1 DEF Requests
  <2>8. Service!End(c)
    BY <1>3, <2>3, <2>6, <2>7 DEF Service!End, Places, Requests, stopped
  <2>9. QED
    BY <2>2, <2>8 DEF Service!ServiceNext
<1>7. QED
  BY <1>4, <1>5, <1>6

\* The actions of the agent task that end a command.
LEMMA EndsAreEnd ==
    ASSUME IInv, HoldersAsked, RunToEnd \/ SendFails \/ PollAck \/ ClearPending
    PROVE  HoldersAsked' /\ Service!ServiceNext
<1>0. /\ OneOwner /\ AcksArePending /\ TypeOK /\ AgentPhases /\ Running
  BY DEF IInv, RunToEnd, SendFails, PollAck, ClearPending
<1>1. CASE RunToEnd \/ SendFails
  <2>1. /\ current \in Commands /\ current # NULL /\ current' = NULL
        /\ \E status : Conclude(current, status, {})
        /\ UNCHANGED <<queue, holder, pending>>
    BY <1>0, <1>1 DEF TypeOK, AgentPhases, RunToEnd, SendFails
  <2>2. /\ current \in InCurrent
        /\ InCurrent' = InCurrent \ {current} /\ pending' = pending \ {current}
    BY <1>0, <2>1 DEF InCurrent, OneOwner
  <2>3. QED
    BY <1>0, <2>1, <2>2, ConcludeIsEnd
<1>2. CASE PollAck \/ ClearPending
  <2>1. PICK c \in pending :
            /\ \E status, refused : Conclude(c, status, refused)
            /\ pending' = pending \ {c}
            /\ UNCHANGED <<queue, holder, current>>
    BY <1>0, <1>2 DEF PollAck, ClearPending, Cancelled, AcksArePending
  <2>2. c \in Commands /\ InCurrent' = InCurrent \ {c}
    BY <1>0, <2>1 DEF TypeOK, InCurrent, OneOwner
  <2>3. QED
    BY <1>0, <2>1, <2>2, ConcludeIsEnd
<1>3. QED
  BY <1>1, <1>2

\* The other steps leave every command where it is; some stop the device.
LEMMA NothingIsServed ==
    ASSUME HoldersAsked, UNCHANGED <<pool, queue, cmd, holder, current, pending>>,
           fault' = fault \/ Running
    PROVE  HoldersAsked' /\ [Service!ServiceNext]_(Service!serviceVars)
<1>1. Places' = Places /\ Requests' = Requests
  BY DEF Places, Requests, Place, InHand, InCurrent
<1>2. CASE fault' = fault
  <2>1. stopped' = stopped
    BY <1>2 DEF stopped, Running
  <2>2. HoldersAsked'
    BY <1>2 DEF HoldersAsked, Running
  <2>3. QED
    BY <1>1, <2>1, <2>2 DEF Service!serviceVars, Places, Requests, stopped
<1>3. CASE Running /\ fault' # "none"
  <2>1. ~stopped /\ stopped' = TRUE /\ HoldersAsked'
    BY <1>3 DEF stopped, Running, HoldersAsked
  <2>2. Service!Stop
    BY <1>1, <2>1 DEF Service!Stop, Places, Requests, stopped
  <2>3. QED
    BY <2>1, <2>2 DEF Service!ServiceNext
<1>4. QED
  BY <1>2, <1>3 DEF Running

\* Every step of the model is a step of the service, or none.
LEMMA StepsAreServed ==
    ASSUME IInv, HoldersAsked, [Next]_vars
    PROVE  HoldersAsked' /\ [Service!ServiceNext]_(Service!serviceVars)
<1> USE DEF taskVars, agentVars, listVars, brokerVars
<1>0. TypeOK /\ AgentPhases
  BY DEF IInv
<1>1. ASSUME NEW k \in Clients, TakeCommand(k)
      PROVE  HoldersAsked' /\ Service!ServiceNext
  <2>1. PICK kind \in Kinds : Agent_GetCommand(k, kind)
    BY <1>1 DEF TakeCommand, Kinds
  <2>2. /\ k \in Callers /\ Running /\ holder[k] = NULL
        /\ UNCHANGED <<queue, current, pending, fault>>
    BY <1>1 DEF TakeCommand, Callers
  <2>3. QED
    BY <2>1, <2>2, GetCommandIsTake
<1>2. CASE SocketWakeup
  <2>1. /\ IPTask \in Callers /\ "processloop" \in Kinds
        /\ Running /\ holder[IPTask] = NULL /\ Agent_GetCommand(IPTask, "processloop")
        /\ UNCHANGED <<queue, current, pending, fault>>
    BY <1>2 DEF SocketWakeup, Callers, Kinds
  <2>2. QED
    BY <2>1, GetCommandIsTake
<1>3. CASE Resubscribe
  <2>1. CASE Agent_GetCommand(AgentTask, "resubscribe") /\ UNCHANGED fault
    <3>1. /\ AgentTask \in Callers /\ "resubscribe" \in Kinds
          /\ Running /\ holder[AgentTask] = NULL
          /\ UNCHANGED <<queue, current, pending>>
      BY <1>0, <1>3 DEF Resubscribe, Callers, Kinds, AgentPhases
    <3>2. QED
      BY <2>1, <3>1, GetCommandIsTake
  <2>2. CASE fault' = "resubscribe" /\ UNCHANGED <<pool, cmd, holder, agent>>
    <3>1. Running /\ UNCHANGED <<queue, current, pending>>
      BY <1>3 DEF Resubscribe
    <3>2. QED
      BY <2>2, <3>1, NothingIsServed
  <2>3. QED
    BY <1>3, <2>1, <2>2 DEF Resubscribe
<1>4. CASE \/ AgentReceiveTimeout \/ PollIdle \/ PollError \/ SocketDisconnect
           \/ SocketConnect \/ SocketConnectFails \/ FirstConnect \/ Reconnect
           \/ ConnectRefused \/ ResumeSession \/ ResumeFails \/ NothingToResubscribe
           \/ LinkDrop \/ \E k \in Clients : PublishRefused(k)
           \/ \E c \in Commands : BrokerAnswer(c)
  <2>1. Running /\ UNCHANGED <<pool, queue, cmd, holder, current, pending>>
    BY <1>4 DEF AgentReceiveTimeout, PollIdle, PollError, SocketDisconnect, SocketConnect,
       SocketConnectFails, FirstConnect, Reconnect, ConnectRefused, ResumeSession, ResumeFails,
       NothingToResubscribe, LinkDrop, PublishRefused, BrokerAnswer
  <2>2. QED
    BY <2>1, NothingIsServed
<1>5. CASE Halted \/ UNCHANGED vars
  <2>1. UNCHANGED <<pool, queue, cmd, holder, current, pending, fault>>
    BY <1>5 DEF Halted, vars
  <2>2. QED
    BY <2>1, NothingIsServed DEF Running
<1>6. QED
  BY <1>1, <1>2, <1>3, <1>4, <1>5, PostCommandIsPost, AgentReceiveIsExecute,
     RunAwaitingAckIsAwait, EndsAreEnd
     DEF Next, CallerStep, LoopStep, ReconnectStep, BrokerStep

\* Before the tasks run every command is free.
LEMMA ServiceInitially == Init => HoldersAsked /\ Service!ServiceInit
<1> SUFFICES ASSUME Init PROVE HoldersAsked /\ Service!ServiceInit
  OBVIOUS
<1>1. /\ pool = [i \in Commands |-> i] /\ queue = <<>> /\ Running
      /\ cmd = [c \in Commands |-> Blank] /\ \A k \in Callers : holder[k] = NULL
  BY DEF Init, prvMQTTInit, Agent_InitializePool, Running
<1>2. \A c \in Commands : c \in Range(pool)
  BY <1>1 DEF Range
<1>3. Places = [c \in Commands |-> "free"]
  <2>1. /\ InHand = {} /\ InCurrent = {} /\ pending = {} /\ Range(queue) = {}
    BY EmptySeq DEF Init, prvMQTTInit, InHand, InCurrent, Range
  <2>2. \A c \in Commands : Place(c) = "free"
    BY <1>2, <2>1 DEF Place
  <2>3. QED
    BY <2>2 DEF Places
<1>4. Requests = [c \in Commands |-> Request(Blank)]
  BY <1>1 DEF Requests
<1>5. QED
  BY <1>1, <1>3, <1>4 DEF HoldersAsked, Service!ServiceInit, Places, Requests

\* freertos_command_pool.c, freertos_agent_message.c and the command loop of
\* mqtt-agent-task.c implement the service: whatever is cancelled, refused or
\* lost with the connection, commands are executed in the order they were
\* posted, and each ends once, as the request of the caller that took it.
THEOREM ImplementsServiceTheorem == Spec => ImplementsService
<1>1. IInv /\ HoldersAsked /\ [Next]_vars
          => HoldersAsked' /\ [Service!ServiceNext]_(Service!serviceVars)
  BY StepsAreServed
<1>2. QED
  BY <1>1, ServiceInitially, IInvAlways, PTL
     DEF Spec, ImplementsService, Service!ServiceSpec

----------------------------------------------------------------------------
(* The second inductive invariant, about what the commands are for.  It    *)
(* says which caller holds which kind of command, what a packet was made   *)
(* from, that the broker has subscribed what it grants, how the list is    *)
(* filled, and, in each phase of a reconnection, what makes the broker     *)
(* deliver to the list afterwards.                                         *)

IsLoop(c) == cmd[c].kind = "processloop"

HandKinds ==
    \A k \in Callers : holder[k] # NULL =>
        /\ IsLoop(holder[k]) => k = IPTask
        /\ k = AgentTask => cmd[holder[k]].kind = "resubscribe"

WakeupAlone ==
    /\ \A c, d \in Range(queue) : IsLoop(c) /\ IsLoop(d) => c = d
    /\ holder[IPTask] # NULL => \A c \in Range(queue) : ~IsLoop(c)

PacketsKept ==
    \A c \in pending :
        /\ cmd[c].kind = "subscribe" => cmd[c].filters = {SubscriptionOf[cmd[c].by].filter}
        /\ cmd[c].kind = "resubscribe" => cmd[c].filters = xSubArgs

NoSubscribePending == agent = "resub" => \A c \in pending : ~IsSubscribe(c)

AcksGranted == \A a \in acks : a.granted \subseteq brokerSubs

NothingStarted ==
    ~started => /\ agent \in {"closed", "open"}
                /\ Listed(xGlobalSubscriptionList) = {}

\* A list with an entry for each of some demo tasks.
Entries(list) ==
    /\ list \in SubscriptionLists
    /\ \A i \in Slots : list[i] = Free \/ \E k \in Clients : list[i] = SubscriptionOf[k]
    /\ \A i, j \in Slots : list[i] = list[j] /\ list[i] # Free => i = j
ListFilled == Entries(xGlobalSubscriptionList)

Covered ==
    \/ Listed(xGlobalSubscriptionList) \subseteq brokerSubs
    \/ \E c \in Outstanding : /\ cmd[c].kind = "resubscribe"
                              /\ Listed(xGlobalSubscriptionList) \subseteq brokerSubs \cup xSubArgs

\* The phases in which the broker's session is the one the list relies on.
SessionPhase ==
    \/ agent \in {"closed", "open", "loop", "run", "poll", "failed"}
    \/ agent = "clear" /\ session

CoveredThroughout ==
    ~lost => /\ SessionPhase => Covered
             /\ agent = "enqueue" => Listed(xGlobalSubscriptionList) \subseteq xSubArgs

ToldListed == ~lost => \A k \in told : SubscriptionOf[k] \in Range(xGlobalSubscriptionList)

PurposeInv ==
    Running =>
        /\ HandKinds /\ WakeupAlone /\ PacketsKept /\ NoSubscribePending /\ AcksGranted
        /\ NothingStarted /\ ListFilled /\ CoveredThroughout /\ ToldListed

----------------------------------------------------------------------------
(* The subscription list as the demo tasks fill it.                        *)

\* An entry of the list is free exactly when it has no filter.
LEMMA FreeHasNoFilter ==
    ASSUME NEW list \in SubscriptionLists, NEW i \in Slots
    PROVE  list[i] = Free <=> list[i].filter = NULL
<1>1. list[i] \in Subscription \/ list[i] = Free
  BY DEF SubscriptionLists
<1>2. QED
  BY <1>1, NullAssumption DEF Subscription, Free

\* A demo task that has no entry finds a free slot.
LEMMA RoomForEntry ==
    ASSUME NEW list, Entries(list), NEW k \in Clients, \A i \in Slots : list[i] # SubscriptionOf[k]
    PROVE  FreeSlots(list) # {}
<1> DEFINE all == {SubscriptionOf[l] : l \in Clients}
           s == SubscriptionOf[k]
<1>1. SUFFICES ASSUME FreeSlots(list) = {}
               PROVE  FALSE
  OBVIOUS
<1>2. \A i \in Slots : list[i] # Free
  BY <1>1, FreeHasNoFilter DEF FreeSlots, Entries
<1>3. list \in Injection(Slots, all \ {s})
  <2>1. \A i \in Slots : list[i] \in all \ {s}
    BY <1>2 DEF Entries
  <2>2. list \in [Slots -> all \ {s}]
    BY <2>1 DEF Entries, SubscriptionLists
  <2>3. QED
    BY <1>2, <2>2 DEF Injection, IsInjective, Entries
<1>4. s \in all /\ IsFiniteSet(all) /\ Cardinality(all) <= MaxSubscriptions
  BY RoomAssumption
<1>5. IsFiniteSet(all \ {s}) /\ Cardinality(all \ {s}) = Cardinality(all) - 1
  BY <1>4, FS_RemoveElement
<1>6. IsFiniteSet(Slots) /\ Cardinality(Slots) = MaxSubscriptions
  BY MaxSubscriptionsAssumption, FS_Interval DEF Slots
<1>7. MaxSubscriptions <= Cardinality(all \ {s})
  BY <1>3, <1>5, <1>6, FS_Injection
<1>8. Cardinality(all) \in Nat
  BY <1>4, FS_CardinalityType
<1>9. QED
  BY <1>4, <1>5, <1>7, <1>8, MaxSubscriptionsAssumption

\* addSubscription() for a demo task gives it an entry and takes none away.
LEMMA AddGivesEntry ==
    ASSUME NEW list, Entries(list), NEW k \in Clients,
           NEW new, new = addSubscription(list, SubscriptionOf[k]).list
    PROVE  /\ Entries(new)
           /\ SubscriptionOf[k] \in Range(new)
           /\ \A l \in Clients : SubscriptionOf[l] \in Range(list) => SubscriptionOf[l] \in Range(new)
           /\ Listed(new) \subseteq Listed(list) \cup {SubscriptionOf[k].filter}
<1> DEFINE s == SubscriptionOf[k]
<1>1. s \in Subscription /\ s # Free /\ s.filter # NULL /\ s.callback # NULL
  BY ClientsAssumption, NullAssumption DEF Subscription, Free
<1>2. list \in SubscriptionLists /\ DOMAIN list = Slots
  BY DEF Entries, SubscriptionLists
<1>3. CASE \E i \in Slots : list[i] = s
  <2>1. new = list
    BY <1>1, <1>3 DEF addSubscription, BadSubscription
  <2>2. QED
    BY <1>2, <1>3, <2>1 DEF Range
<1>4. CASE \A i \in Slots : list[i] # s
  <2> DEFINE f == FirstFree(list)
  <2>1. f \in Slots /\ list[f].filter = NULL
    BY <1>4, RoomForEntry, FirstFreeIsFree
  <2>2. new = [list EXCEPT ![f] = s]
    BY <1>1, <1>4, RoomForEntry DEF addSubscription, BadSubscription
  <2>3. list[f] = Free
    BY <1>2, <2>1, FreeHasNoFilter
  <2> HIDE DEF f
  <2>4. /\ new \in SubscriptionLists /\ DOMAIN new = Slots
        /\ new[f] = s
        /\ \A i \in Slots \ {f} : new[i] = list[i]
    BY <1>1, <1>2, <2>1, <2>2 DEF SubscriptionLists
  <2>5. Entries(new)
    BY <1>1, <1>4, <2>4 DEF Entries
  <2>6. s \in Range(new)
    BY <2>1, <2>4 DEF Range
  <2>7. ASSUME NEW l \in Clients, SubscriptionOf[l] \in Range(list)
        PROVE  SubscriptionOf[l] \in Range(new)
    <3>1. PICK i \in Slots : list[i] = SubscriptionOf[l]
      BY <1>2, <2>7 DEF Range
    <3>2. SubscriptionOf[l] # Free
      BY ClientsAssumption, NullAssumption DEF Subscription, Free
    <3>3. QED
      BY <2>3, <2>4, <3>1, <3>2 DEF Range
  <2>8. Listed(new) \subseteq Listed(list) \cup {s.filter}
    <3>1. ASSUME NEW i \in Slots, new[i].filter # NULL
          PROVE  new[i].filter \in Listed(list) \cup {s.filter}
      BY <2>4, <3>1 DEF Listed, FreeSlots
    <3>2. QED
      BY <3>1 DEF Listed, FreeSlots
  <2>9. QED
    BY <2>5, <2>6, <2>7, <2>8
<1>5. QED
  BY <1>3, <1>4

\* Removals only take entries away, and none for no filter.
LEMMA RemoveTakesEntries ==
    ASSUME NEW list, Entries(list), NEW filters
    PROVE  /\ Entries(RemoveSubscriptions(list, filters))
           /\ Listed(RemoveSubscriptions(list, filters)) \subseteq Listed(list)
           /\ filters = {} => RemoveSubscriptions(list, filters) = list
<1> DEFINE new == RemoveSubscriptions(list, filters)
<1>1. list \in SubscriptionLists /\ list = [i \in Slots |-> list[i]]
  BY DEF Entries, SubscriptionLists
<1>2. /\ new = [i \in Slots |-> new[i]]
      /\ \A i \in Slots : new[i] = Free \/ new[i] = list[i]
  BY DEF RemoveSubscriptions
<1>3. filters = {} => new = list
  BY <1>1 DEF RemoveSubscriptions
<1> HIDE DEF new
<1>4. new \in SubscriptionLists
  BY <1>1, <1>2 DEF SubscriptionLists
<1>5. Entries(new)
  BY <1>2, <1>4 DEF Entries
<1>6. Listed(new) \subseteq Listed(list)
  <2>1. ASSUME NEW i \in Slots, new[i].filter # NULL
        PROVE  new[i].filter \in Listed(list)
    <3>1. new[i] = list[i]
      BY <1>2, <2>1 DEF Free
    <3>2. QED
      BY <2>1, <3>1 DEF Listed, FreeSlots
  <2>2. QED
    BY <2>1 DEF Listed, FreeSlots
<1>7. QED
  BY <1>3, <1>5, <1>6 DEF new

----------------------------------------------------------------------------
(* What the steps do to the parts of the invariant.                        *)

\* The end of a command that does not stop the device.
LEMMA ConcludeActs ==
    ASSUME TypeOK, Running', NEW c \in Commands, NEW status, NEW refused,
           Conclude(c, status, refused)
    PROVE  /\ Callback(c, status, refused)
           /\ cmd'[c].kind = "none"
           /\ \A d \in Commands \ {c} : cmd'[d] = cmd[d]
<1>1. ~NullCodesRead(c, status)
  BY DEF NullCodesRead, Running
<1>2. Callback(c, status, refused) /\ cmd' = [cmd EXCEPT ![c] = Blank]
  BY <1>1 DEF Conclude, Agent_ReleaseCommand
<1>3. QED
  BY <1>2 DEF TypeOK, Blank

\* A callback keeps the entries of the tasks that were told; only the
\* SUBSCRIBE of a task adds to the list, and a resubscription that is not
\* granted in full is recorded.
LEMMA CallbackActs ==
    ASSUME SubscribersAreClients, ListFilled, ToldListed,
           NEW c \in Commands, NEW status, NEW refused,
           cmd[c].kind = "resubscribe" /\ status = "MQTTSuccess" => refused = {},
           told \subseteq Clients,
           Callback(c, status, refused)
    PROVE  /\ ListFilled' /\ ToldListed'
           /\ lost => lost'
           /\ cmd[c].kind = "resubscribe" /\ ~lost' => status = "MQTTSuccess"
           /\ Listed(xGlobalSubscriptionList)' \subseteq Listed(xGlobalSubscriptionList)
                \cup (IF cmd[c].kind = "subscribe" /\ status = "MQTTSuccess"
                      THEN {SubscriptionOf[cmd[c].by].filter} ELSE {})
<1> DEFINE list == xGlobalSubscriptionList
           k == cmd[c].by
<1>0. Entries(list)
  BY DEF ListFilled
<1>1. CASE cmd[c].kind = "subscribe" /\ status = "MQTTSuccess"
  <2>1. /\ k \in Clients /\ told' = told \cup {k} /\ lost' = lost
        /\ list' = addSubscription(list, SubscriptionOf[k]).list
    BY <1>1 DEF Callback, ClientCallback, SubscribersAreClients
  <2>2. /\ Entries(list')
        /\ SubscriptionOf[k] \in Range(list')
        /\ \A l \in Clients : SubscriptionOf[l] \in Range(list) => SubscriptionOf[l] \in Range(list')
        /\ Listed(list') \subseteq Listed(list) \cup {SubscriptionOf[k].filter}
    BY <1>0, <2>1, AddGivesEntry
  <2>3. ListFilled'
    BY <2>2 DEF ListFilled
  <2>4. ToldListed'
    BY <2>1, <2>2 DEF ToldListed
  <2>5. Listed(list)' = Listed(list')
    BY DEF Listed, FreeSlots
  <2>6. QED
    BY <1>1, <2>1, <2>2, <2>3, <2>4, <2>5
<1>2. CASE cmd[c].kind = "resubscribe"
  <2>1. ResubscribeCallback(status, refused)
    BY <1>2 DEF Callback
  <2>2. PICK failed \in IF HasSubackCodes(status) THEN {refused} ELSE SUBSET xSubArgs :
            list' = RemoveSubscriptions(list, failed)
    BY <2>1 DEF ResubscribeCallback
  <2>3. lost' = (lost \/ status # "MQTTSuccess") /\ told' = told
    BY <2>1 DEF ResubscribeCallback
  <2>4. Entries(list') /\ Listed(list') \subseteq Listed(list)
    BY <1>0, <2>2, RemoveTakesEntries
  <2>5. status = "MQTTSuccess" => list' = list
    BY <1>0, <1>2, <2>2, RemoveTakesEntries DEF HasSubackCodes
  <2>6. ListFilled' /\ ToldListed'
    BY <2>3, <2>4, <2>5 DEF ListFilled, ToldListed
  <2>7. Listed(list)' = Listed(list')
    BY DEF Listed, FreeSlots
  <2>8. QED
    BY <1>2, <2>3, <2>4, <2>6, <2>7
<1>3. CASE ~(cmd[c].kind = "subscribe" /\ status = "MQTTSuccess") /\ cmd[c].kind # "resubscribe"
  <2>1. list' = list /\ told' = told /\ lost' = lost
    BY <1>3 DEF Callback, ClientCallback
  <2>2. Listed(list)' = Listed(list) /\ ListFilled' /\ ToldListed'
    BY <2>1 DEF Listed, FreeSlots, ListFilled, ToldListed, Entries
  <2>3. QED
    BY <1>3, <2>1, <2>2
<1>4. QED
  BY <1>1, <1>2, <1>3

\* The same command structures under way, with the same contents.
LEMMA CoveredStays ==
    ASSUME Covered, NEW added, added \subseteq brokerSubs,
           Listed(xGlobalSubscriptionList)' \subseteq Listed(xGlobalSubscriptionList) \cup added,
           brokerSubs \subseteq brokerSubs', xSubArgs' = xSubArgs,
           \A c \in Outstanding : cmd[c].kind = "resubscribe" =>
                c \in Outstanding' /\ cmd'[c].kind = "resubscribe"
    PROVE  Covered'
BY DEF Covered

\* The steps of the phases leave commands and list alone.
LEMMA PhaseParts ==
    ASSUME PurposeInv, Running, Running',
           UNCHANGED <<queue, cmd, holder, current, pending, xGlobalSubscriptionList,
                       xSubArgs, lost, told>>
    PROVE  /\ HandKinds' /\ WakeupAlone' /\ PacketsKept' /\ ListFilled' /\ ToldListed'
           /\ Outstanding' = Outstanding
           /\ Listed(xGlobalSubscriptionList)' = Listed(xGlobalSubscriptionList)
<1>1. HandKinds /\ WakeupAlone /\ PacketsKept /\ ListFilled /\ ToldListed
  BY DEF PurposeInv
<1>2. HandKinds' /\ WakeupAlone' /\ PacketsKept' /\ ListFilled' /\ ToldListed'
  BY <1>1 DEF HandKinds, WakeupAlone, IsLoop, PacketsKept, ListFilled, Entries, ToldListed
<1>3. QED
  BY <1>2 DEF Outstanding, InCurrent, Listed, FreeSlots

\* The actions that neither take, move nor end a command.
LEMMA PhasesKeepPurpose ==
    ASSUME IInv, PurposeInv,
           \/ AgentReceiveTimeout \/ PollIdle \/ PollError \/ SocketDisconnect
           \/ SocketConnect \/ SocketConnectFails \/ FirstConnect \/ Reconnect
           \/ ConnectRefused \/ ResumeSession \/ ResumeFails \/ NothingToResubscribe
           \/ LinkDrop \/ Halted \/ UNCHANGED vars
           \/ \E k \in Clients : PublishRefused(k)
           \/ \E c \in Commands : BrokerAnswer(c)
    PROVE  PurposeInv'
<1> USE DEF taskVars, agentVars, listVars, brokerVars
<1>0. CASE Halted \/ UNCHANGED vars
  BY <1>0 DEF Halted, vars, PurposeInv, Running, HandKinds, WakeupAlone, IsLoop, PacketsKept,
     NoSubscribePending, IsSubscribe, AcksGranted, NothingStarted, ListFilled, Entries,
     CoveredThroughout, SessionPhase, Covered, Outstanding, InCurrent, Listed, FreeSlots, ToldListed
<1>1. CASE ConnectRefused \/ ResumeFails \/ \E k \in Clients : PublishRefused(k)
  BY <1>1 DEF ConnectRefused, ResumeFails, PublishRefused, PurposeInv, Running
<1>2. ASSUME Running, Running',
             UNCHANGED <<queue, cmd, holder, current, pending, xGlobalSubscriptionList,
                         xSubArgs, lost, told>>,
             NoSubscribePending', AcksGranted', NothingStarted', CoveredThroughout'
      PROVE  PurposeInv'
  BY <1>2, PhaseParts DEF PurposeInv
<1>3. ASSUME Running
      PROVE  /\ NoSubscribePending /\ AcksGranted /\ NothingStarted /\ CoveredThroughout
             /\ AcksArePending /\ AgentPhases
  BY <1>3 DEF PurposeInv, IInv
<1>4. CASE AgentReceiveTimeout \/ PollIdle \/ PollError \/ SocketDisconnect \/ SocketConnect
           \/ SocketConnectFails
  <2>1. Running /\ UNCHANGED <<queue, cmd, holder, current, pending, xGlobalSubscriptionList,
                               xSubArgs, lost, told, brokerSubs, session, started>>
    BY <1>4 DEF AgentReceiveTimeout, PollIdle, PollError, SocketDisconnect, SocketConnect,
       SocketConnectFails
  <2>2. /\ agent' \in {"closed", "open", "loop", "poll", "failed"}
        /\ agent \in {"closed", "open", "loop", "poll", "failed"}
        /\ agent \in {"closed", "open"} => agent' \in {"closed", "open"}
    BY <1>4 DEF AgentReceiveTimeout, PollIdle, PollError, SocketDisconnect, SocketConnect,
       SocketConnectFails
  <2>6. acks' \subseteq acks
    BY <1>4 DEF AgentReceiveTimeout, PollIdle, PollError, SocketDisconnect, SocketConnect,
       SocketConnectFails
  <2>3. CASE Running'
    <3>1. /\ Outstanding' = Outstanding
          /\ Listed(xGlobalSubscriptionList)' = Listed(xGlobalSubscriptionList)
      BY <2>1, <2>3, PhaseParts
    <3>2. NoSubscribePending' /\ AcksGranted' /\ NothingStarted'
      BY <1>3, <2>1, <2>2, <2>6, <3>1 DEF NoSubscribePending, AcksGranted, NothingStarted
    <3>3. CoveredThroughout'
      BY <1>3, <2>1, <2>2, <3>1 DEF CoveredThroughout, Covered, SessionPhase
    <3>4. QED
      BY <1>2, <2>1, <2>3, <3>2, <3>3
  <2>4. CASE ~Running'
    BY <2>4 DEF PurposeInv
  <2>5. QED
    BY <2>3, <2>4
<1>5. CASE FirstConnect
  <2>1. /\ Running /\ Running' /\ agent' = "loop" /\ started' /\ ~started /\ agent = "open"
        /\ acks' = acks
        /\ UNCHANGED <<queue, cmd, holder, current, pending, xGlobalSubscriptionList,
                       xSubArgs, lost, told>>
    BY <1>5 DEF FirstConnect, Running
  <2>2. Listed(xGlobalSubscriptionList)' = {} /\ acks' = {}
    BY <1>3, <2>1, PhaseParts DEF NothingStarted, AcksArePending
  <2>3. NoSubscribePending' /\ AcksGranted' /\ NothingStarted'
    BY <2>1, <2>2 DEF NoSubscribePending, AcksGranted, NothingStarted
  <2>4. CoveredThroughout'
    BY <2>1, <2>2 DEF CoveredThroughout, Covered
  <2>5. QED
    BY <1>2, <2>1, <2>3, <2>4
<1>6. CASE Reconnect
  <2>1. /\ Running /\ Running' /\ agent' = "clear" /\ started' /\ agent = "open"
        /\ acks' = acks /\ session' \in BOOLEAN
        /\ session' => brokerSubs' = brokerSubs
        /\ UNCHANGED <<queue, cmd, holder, current, pending, xGlobalSubscriptionList,
                       xSubArgs, lost, told>>
    BY <1>6 DEF Reconnect, Running
  <2>2. /\ Outstanding' = Outstanding /\ acks' = {}
        /\ Listed(xGlobalSubscriptionList)' = Listed(xGlobalSubscriptionList)
    BY <1>3, <2>1, PhaseParts DEF AcksArePending
  <2>3. NoSubscribePending' /\ AcksGranted' /\ NothingStarted'
    BY <2>1, <2>2 DEF NoSubscribePending, AcksGranted, NothingStarted
  <2>4. ASSUME ~lost', SessionPhase'
        PROVE  Covered'
    <3>1. session'
      BY <2>1, <2>4 DEF SessionPhase
    <3>2. Covered
      BY <1>3, <2>1, <2>4 DEF CoveredThroughout, SessionPhase
    <3>3. brokerSubs' = brokerSubs
      BY <2>1, <3>1
    <3>4. UNCHANGED <<cmd, xSubArgs>>
      BY <2>1
    <3>5. QED
      BY <2>2, <3>2, <3>3, <3>4 DEF Covered
  <2>5. CoveredThroughout'
    BY <2>1, <2>4 DEF CoveredThroughout
  <2>6. QED
    BY <1>2, <2>1, <2>3, <2>5
<1>7. CASE ResumeSession
  <2>1. /\ Running /\ Running' /\ agent = "clear" /\ Cancelled = {}
        /\ agent' = IF session THEN "loop" ELSE "resub"
        /\ UNCHANGED <<queue, cmd, holder, current, pending, xGlobalSubscriptionList,
                       xSubArgs, lost, told, started, brokerSubs, acks>>
    BY <1>7 DEF ResumeSession, Running
  <2>2. /\ Outstanding' = Outstanding
        /\ Listed(xGlobalSubscriptionList)' = Listed(xGlobalSubscriptionList)
    BY <2>1, PhaseParts
  <2>3. NoSubscribePending'
    BY <2>1 DEF NoSubscribePending, Cancelled, IsSubscribe
  <2>4. AcksGranted' /\ NothingStarted'
    BY <1>3, <2>1 DEF AcksGranted, NothingStarted
  <2>5. CoveredThroughout'
    BY <1>3, <2>1, <2>2 DEF CoveredThroughout, SessionPhase, Covered
  <2>6. QED
    BY <1>2, <2>1, <2>3, <2>4, <2>5
<1>8. CASE NothingToResubscribe
  <2>1. /\ Running /\ Running' /\ agent = "resub" /\ agent' = "loop"
        /\ Listed(xGlobalSubscriptionList) = {}
        /\ UNCHANGED <<queue, cmd, holder, current, pending, xGlobalSubscriptionList,
                       xSubArgs, lost, told, started, brokerSubs, acks>>
    BY <1>8 DEF NothingToResubscribe, Running
  <2>2. Listed(xGlobalSubscriptionList)' = {}
    BY <2>1, PhaseParts
  <2>3. NoSubscribePending' /\ AcksGranted' /\ NothingStarted'
    BY <1>3, <2>1 DEF NoSubscribePending, AcksGranted, NothingStarted
  <2>4. CoveredThroughout'
    BY <2>1, <2>2 DEF CoveredThroughout, Covered
  <2>5. QED
    BY <1>2, <2>1, <2>3, <2>4
<1>9. CASE LinkDrop
  <2>1. /\ Running /\ Running' /\ acks' \subseteq acks
        /\ UNCHANGED <<queue, cmd, holder, current, pending, xGlobalSubscriptionList,
                       xSubArgs, lost, told, started, agent, session, brokerSubs>>
    BY <1>9 DEF LinkDrop, Running
  <2>2. /\ Outstanding' = Outstanding
        /\ Listed(xGlobalSubscriptionList)' = Listed(xGlobalSubscriptionList)
    BY <2>1, PhaseParts
  <2>3. NoSubscribePending' /\ AcksGranted' /\ NothingStarted'
    BY <1>3, <2>1, <2>2 DEF NoSubscribePending, IsSubscribe, AcksGranted, NothingStarted
  <2>4. CoveredThroughout'
    BY <1>3, <2>1, <2>2 DEF CoveredThroughout, SessionPhase, Covered
  <2>5. QED
    BY <1>2, <2>1, <2>3, <2>4
<1>10. ASSUME NEW c \in Commands, BrokerAnswer(c)
       PROVE  PurposeInv'
  <2>1. /\ Running /\ Running' /\ agent \in {"loop", "run", "poll"}
        /\ UNCHANGED <<queue, cmd, holder, current, pending, xGlobalSubscriptionList,
                       xSubArgs, lost, told, started, agent, session>>
    BY <1>10 DEF BrokerAnswer, Running
  <2>2. PICK granted \in SUBSET cmd[c].filters :
            /\ brokerSubs' = brokerSubs \cup granted
            /\ acks' = acks \cup {[cmd |-> c, granted |-> granted]}
    BY <1>10 DEF BrokerAnswer
  <2>3. /\ Outstanding' = Outstanding
        /\ Listed(xGlobalSubscriptionList)' = Listed(xGlobalSubscriptionList)
    BY <2>1, PhaseParts
  <2>4. NoSubscribePending' /\ NothingStarted'
    BY <1>3, <2>1, <2>3 DEF NoSubscribePending, NothingStarted
  <2>5. AcksGranted'
    BY <1>3, <2>1, <2>2 DEF AcksGranted
  <2>6. CoveredThroughout'
    BY <1>3, <2>1, <2>2, <2>3 DEF CoveredThroughout, SessionPhase, Covered
  <2>7. QED
    BY <1>2, <2>1, <2>4, <2>5, <2>6
<1>11. QED
  BY <1>0, <1>1, <1>4, <1>5, <1>6, <1>7, <1>8, <1>9, <1>10

\* A command structure taken from the pool was nowhere else.
LEMMA GetCommandTakes ==
    ASSUME IInv, Running, NEW k \in Callers, NEW kind, Agent_GetCommand(k, kind)
    PROVE  /\ Head(pool) \in Commands
           /\ Head(pool) \notin Range(queue) \cup InHand \cup InCurrent \cup pending
           /\ cmd'[Head(pool)].kind = kind
           /\ \A c \in Commands \ {Head(pool)} : cmd'[c] = cmd[c]
           /\ holder'[k] = Head(pool)
           /\ \A l \in Callers \ {k} : holder'[l] = holder[l]
<1> DEFINE h == Head(pool)
<1>1. /\ pool \in Seq(Commands) /\ IsInjective(pool) /\ pool # <<>>
      /\ holder \in [Callers -> Commands \cup {NULL}]
      /\ cmd \in [Commands -> [kind : Kinds, by : Callers, filters : SUBSET Filters] \cup {Blank}]
  BY DEF IInv, TypeOK, OneOwner, Agent_GetCommand
<1>2. h \in Commands /\ h \in Range(pool)
  BY <1>1, QueueReceive
<1>3. h \notin Range(queue) \cup InHand \cup InCurrent \cup pending
  BY <1>2 DEF IInv, OneOwner
<1>4. /\ holder' = [holder EXCEPT ![k] = h]
      /\ cmd' = [cmd EXCEPT ![h] = [kind |-> kind, by |-> k, filters |-> {}]]
  BY DEF Agent_GetCommand
<1> HIDE DEF h
<1>5. QED
  BY <1>1, <1>2, <1>3, <1>4 DEF h

\* Taking a command touches none that is queued, executed or pending.
LEMMA TakeParts ==
    ASSUME IInv, PurposeInv, Running, Running', NEW k \in Callers, NEW kind,
           Agent_GetCommand(k, kind),
           kind = "processloop" => k = IPTask,
           k = IPTask => queue = <<>>,
           k = AgentTask => kind = "resubscribe",
           UNCHANGED <<queue, current, pending>>
    PROVE  /\ HandKinds' /\ WakeupAlone'
           /\ \A c \in Outstanding : cmd'[c] = cmd[c]
           /\ Outstanding' = Outstanding
           /\ Outstanding \subseteq Commands
<1> DEFINE h == Head(pool)
<1>1. /\ h \in Commands
      /\ h \notin Range(queue) \cup InHand \cup InCurrent \cup pending
      /\ cmd'[h].kind = kind
      /\ \A c \in Commands \ {h} : cmd'[c] = cmd[c]
      /\ holder'[k] = h
      /\ \A l \in Callers \ {k} : holder'[l] = holder[l]
  BY GetCommandTakes
<1> HIDE DEF h
<1>2. HandKinds /\ WakeupAlone
  BY DEF PurposeInv
<1>3. Range(queue) \subseteq Commands /\ InCurrent \subseteq Commands /\ pending \subseteq Commands
  BY DEF IInv, TypeOK, OneOwner, InCurrent
<1>4. ASSUME NEW l \in Callers, holder'[l] # NULL
      PROVE  /\ IsLoop(holder[l])' => l = IPTask
             /\ l = AgentTask => cmd'[holder'[l]].kind = "resubscribe"
  <2>1. CASE l = k
    BY <1>1, <2>1 DEF IsLoop
  <2>2. CASE l # k
    <3>1. holder'[l] = holder[l] /\ holder[l] \in InHand /\ holder[l] # h
      BY <1>1, <1>4, <2>2 DEF InHand
    <3>2. holder[l] \in Commands
      BY <1>4, <3>1 DEF IInv, TypeOK
    <3>3. cmd'[holder[l]] = cmd[holder[l]]
      BY <1>1, <3>1, <3>2
    <3>4. QED
      BY <1>2, <1>4, <3>1, <3>3 DEF HandKinds, IsLoop
  <2>3. QED
    BY <2>1, <2>2
<1>5. HandKinds'
  BY <1>4 DEF HandKinds, IsLoop
<1>6. \A c \in Range(queue) : IsLoop(c)' <=> IsLoop(c)
  BY <1>1, <1>3 DEF IsLoop
<1>7. Range(queue)' = Range(queue)
  BY DEF Range
<1>8. WakeupAlone'
  <2>1. CASE k = IPTask
    <3>1. Range(queue) = {}
      BY <2>1, EmptySeq DEF Range
    <3>2. QED
      BY <1>7, <3>1 DEF WakeupAlone
  <2>2. CASE k # IPTask
    <3>1. holder'[IPTask] = holder[IPTask]
      BY <1>1, <2>2 DEF Callers
    <3>2. QED
      BY <1>2, <1>6, <1>7, <3>1 DEF WakeupAlone
  <2>3. QED
    BY <2>1, <2>2
<1>9. QED
  BY <1>1, <1>3, <1>5, <1>7, <1>8 DEF Outstanding, InCurrent

\* Taking a command, but for that of prvHandleResubscribe().
LEMMA TakeKeepsPurpose ==
    ASSUME IInv, PurposeInv, Running, Running', NEW k \in Callers \ {AgentTask}, NEW kind,
           Agent_GetCommand(k, kind),
           kind = "processloop" => k = IPTask,
           k = IPTask => queue = <<>>,
           UNCHANGED <<queue, current, pending, agent, session, started, told,
                       xGlobalSubscriptionList, xSubArgs, lost, brokerSubs, acks>>
    PROVE  PurposeInv'
<1>1. /\ HandKinds' /\ WakeupAlone'
      /\ \A c \in Outstanding : cmd'[c] = cmd[c]
      /\ Outstanding' = Outstanding
  BY TakeParts
<1>2. \A c \in pending : cmd'[c] = cmd[c]
  BY <1>1 DEF Outstanding
<1>3. PacketsKept' /\ NoSubscribePending'
  BY <1>2 DEF PurposeInv, PacketsKept, NoSubscribePending, IsSubscribe
<1>4. AcksGranted' /\ NothingStarted' /\ ListFilled' /\ ToldListed'
  BY DEF PurposeInv, AcksGranted, NothingStarted, ListFilled, Entries, ToldListed, Listed, FreeSlots
<1>5. Listed(xGlobalSubscriptionList)' = Listed(xGlobalSubscriptionList)
  BY DEF Listed, FreeSlots
<1>6. Covered => Covered'
  BY <1>1, <1>5 DEF Covered
<1>7. CoveredThroughout'
  BY <1>5, <1>6 DEF PurposeInv, CoveredThroughout, SessionPhase
<1>8. QED
  BY <1>1, <1>3, <1>4, <1>7 DEF PurposeInv

\* The two actions that take a structure: the wakeup finds the queue empty.
LEMMA TakesKeepPurpose ==
    ASSUME IInv, PurposeInv, SocketWakeup \/ \E k \in Clients : TakeCommand(k)
    PROVE  PurposeInv'
<1> USE DEF taskVars, agentVars, listVars, brokerVars
<1>1. CASE SocketWakeup
  <2>1. /\ Agent_GetCommand(IPTask, "processloop") /\ queue = <<>>
        /\ Running /\ Running' /\ IPTask \in Callers \ {AgentTask}
        /\ UNCHANGED <<queue, current, pending, agent, session, started, told,
                       xGlobalSubscriptionList, xSubArgs, lost, brokerSubs, acks>>
    BY <1>1, ClientsAssumption DEF SocketWakeup, Running, Callers
  <2>2. QED
    BY <2>1, TakeKeepsPurpose
<1>2. ASSUME NEW k \in Clients, TakeCommand(k)
      PROVE  PurposeInv'
  <2>1. PICK kind \in {"subscribe", "publish0", "publish1"} : Agent_GetCommand(k, kind)
    BY <1>2 DEF TakeCommand
  <2>2. /\ Running /\ Running' /\ k \in Callers \ {AgentTask} /\ k # IPTask
        /\ UNCHANGED <<queue, current, pending, agent, session, started, told,
                       xGlobalSubscriptionList, xSubArgs, lost, brokerSubs, acks>>
    BY <1>2, ClientsAssumption DEF TakeCommand, Running, Callers
  <2>3. QED
    BY <2>1, <2>2, TakeKeepsPurpose
<1>3. QED
  BY <1>1, <1>2

\* prvHandleResubscribe() rewrites its arguments when no SUBSCRIBE is pending.
LEMMA ResubscribePurpose ==
    ASSUME IInv, PurposeInv, Resubscribe
    PROVE  PurposeInv'
<1> USE DEF taskVars, agentVars, listVars, brokerVars
<1>1. CASE ~Running'
  BY <1>1 DEF PurposeInv
<1>2. CASE Running'
  <2>1. /\ Agent_GetCommand(AgentTask, "resubscribe")
        /\ agent = "resub" /\ agent' = "enqueue"
        /\ xSubArgs' = Listed(xGlobalSubscriptionList)
        /\ Running /\ AgentTask \in Callers /\ AgentTask # IPTask
        /\ UNCHANGED <<queue, current, pending, session, started, told,
                       xGlobalSubscriptionList, lost, brokerSubs, acks>>
    BY <1>2, ClientsAssumption DEF Resubscribe, Running, Callers
  <2>2. /\ HandKinds' /\ WakeupAlone'
        /\ \A c \in Outstanding : cmd'[c] = cmd[c]
    BY <1>2, <2>1, TakeParts
  <2>3. \A c \in pending : cmd'[c] = cmd[c]
    BY <2>2 DEF Outstanding
  <2>4. \A c \in pending : ~IsSubscribe(c)
    BY <2>1 DEF PurposeInv, NoSubscribePending
  <2>5. PacketsKept' /\ NoSubscribePending'
    BY <2>1, <2>3, <2>4 DEF PacketsKept, NoSubscribePending, IsSubscribe
  <2>6. AcksGranted' /\ NothingStarted' /\ ListFilled' /\ ToldListed'
    BY <2>1 DEF PurposeInv, AcksGranted, NothingStarted, ListFilled, Entries, ToldListed
  <2>7. CoveredThroughout'
    BY <2>1 DEF CoveredThroughout, SessionPhase, Listed, FreeSlots
  <2>8. QED
    BY <2>2, <2>5, <2>6, <2>7 DEF PurposeInv
<1>3. QED
  BY <1>1, <1>2

\* Posting finds room; the command loop then has the resubscription to run.
LEMMA PostCommandPurpose ==
    ASSUME IInv, PurposeInv, NEW k \in Callers, PostCommand(k)
    PROVE  PurposeInv'
<1> USE DEF taskVars, agentVars, listVars, brokerVars
<1> DEFINE c == holder[k]
<1>0. /\ TypeOK /\ OneOwner /\ AgentPhases
      /\ HandKinds /\ WakeupAlone /\ PacketsKept /\ NoSubscribePending /\ AcksGranted
      /\ NothingStarted /\ ListFilled /\ CoveredThroughout /\ ToldListed
      /\ Running /\ c # NULL
  BY DEF IInv, PurposeInv, PostCommand
<1>1. /\ queue \in Seq(Commands) /\ IsInjective(queue)
      /\ holder \in [Callers -> Commands \cup {NULL}]
      /\ \A l, m \in Callers : holder[l] = holder[m] /\ holder[l] # NULL => l = m
      /\ IPTask \in Callers /\ AgentTask \in Callers /\ IPTask # AgentTask
  BY <1>0, ClientsAssumption DEF TypeOK, OneOwner, Callers
<1>2. c \in Commands \ Range(queue) /\ Len(queue) < QueueLength
  BY <1>0, RoomForHeld
<1>3. /\ queue' = Append(queue, c)
      /\ holder' = [holder EXCEPT ![k] = NULL]
      /\ agent' = IF k = AgentTask THEN "loop" ELSE agent
      /\ Running'
      /\ UNCHANGED <<cmd, current, pending, session, started, told,
                     xGlobalSubscriptionList, xSubArgs, lost, brokerSubs, acks>>
  BY <1>0, <1>2 DEF PostCommand, Agent_MessageSend, Running
<1>4. Range(queue') = Range(queue) \cup {c}
  BY <1>1, <1>2, <1>3, QueueSend
<1>5. /\ holder'[k] = NULL
      /\ \A l \in Callers \ {k} : holder'[l] = holder[l]
  BY <1>1, <1>3
<1> HIDE DEF c
<1>6. HandKinds'
  BY <1>0, <1>3, <1>5 DEF HandKinds, IsLoop
<1>7. WakeupAlone'
  <2>1. \A d : IsLoop(d)' <=> IsLoop(d)
    BY <1>3 DEF IsLoop
  <2>2. k # IPTask => ~IsLoop(c) /\ holder'[IPTask] = holder[IPTask]
    BY <1>0, <1>1, <1>5 DEF HandKinds, c
  <2>3. k = IPTask => holder'[IPTask] = NULL /\ \A d \in Range(queue) : ~IsLoop(d)
    BY <1>0, <1>5 DEF WakeupAlone, c
  <2>4. QED
    BY <1>0, <1>4, <2>1, <2>2, <2>3 DEF WakeupAlone
<1>8. PacketsKept' /\ AcksGranted' /\ ListFilled' /\ ToldListed'
  BY <1>0, <1>3 DEF PacketsKept, AcksGranted, ListFilled, Entries, ToldListed
<1>9. k = AgentTask => agent = "enqueue" /\ cmd[c].kind = "resubscribe"
  BY <1>0, <1>1 DEF AgentPhases, HandKinds, c
<1>10. NoSubscribePending' /\ NothingStarted'
  BY <1>0, <1>3, <1>9 DEF NoSubscribePending, IsSubscribe, NothingStarted, Listed, FreeSlots
<1>11. Outstanding' = Outstanding \cup {c}
  BY <1>3, <1>4 DEF Outstanding, InCurrent
<1>12. Listed(xGlobalSubscriptionList)' = Listed(xGlobalSubscriptionList)
  BY <1>3 DEF Listed, FreeSlots
<1>13. CASE k = AgentTask
  <2>1. Covered' \/ lost
    BY <1>0, <1>3, <1>9, <1>11, <1>12, <1>13 DEF CoveredThroughout, Covered
  <2>2. CoveredThroughout'
    BY <1>3, <1>13, <2>1 DEF CoveredThroughout
  <2>3. QED
    BY <1>3, <1>6, <1>7, <1>8, <1>10, <2>2 DEF PurposeInv
<1>14. CASE k # AgentTask
  <2>1. Covered => Covered'
    BY <1>3, <1>11, <1>12 DEF Covered
  <2>2. CoveredThroughout'
    BY <1>0, <1>3, <1>12, <1>14, <2>1 DEF CoveredThroughout, SessionPhase
  <2>3. QED
    BY <1>3, <1>6, <1>7, <1>8, <1>10, <2>2 DEF PurposeInv
<1>15. QED
  BY <1>13, <1>14

\* The agent receives the command at the head of the queue.
LEMMA AgentReceivePurpose ==
    ASSUME IInv, PurposeInv, AgentReceive
    PROVE  PurposeInv'
<1> USE DEF taskVars, agentVars, listVars, brokerVars
<1>0. /\ TypeOK /\ OneOwner /\ AgentPhases
      /\ HandKinds /\ WakeupAlone /\ PacketsKept /\ NoSubscribePending /\ AcksGranted
      /\ NothingStarted /\ ListFilled /\ CoveredThroughout /\ ToldListed
      /\ Running
  BY DEF IInv, PurposeInv, AgentReceive
<1>1. /\ queue \in Seq(Commands) /\ IsInjective(queue) /\ queue # <<>> /\ current = NULL
      /\ agent = "loop" /\ agent' = "run" /\ Running'
      /\ current' = Head(queue) /\ queue' = Tail(queue)
      /\ UNCHANGED <<cmd, holder, pending, session, started, told,
                     xGlobalSubscriptionList, xSubArgs, lost, brokerSubs, acks>>
  BY <1>0 DEF TypeOK, OneOwner, AgentPhases, AgentReceive, Running
<1>2. /\ Head(queue) \in Commands /\ Head(queue) \in Range(queue)
      /\ Range(queue') = Range(queue) \ {Head(queue)}
  BY <1>1, QueueReceive
<1>3. HandKinds' /\ WakeupAlone'
  BY <1>0, <1>1, <1>2 DEF HandKinds, WakeupAlone, IsLoop
<1>4. /\ PacketsKept' /\ NoSubscribePending' /\ AcksGranted' /\ NothingStarted'
      /\ ListFilled' /\ ToldListed'
  BY <1>0, <1>1 DEF PacketsKept, NoSubscribePending, IsSubscribe, AcksGranted, NothingStarted,
     ListFilled, Entries, ToldListed, Listed, FreeSlots
<1>5. Outstanding' = Outstanding
  <2>1. InCurrent = {} /\ InCurrent' = {Head(queue)}
    BY <1>1, <1>2, QueueAssumption DEF InCurrent
  <2>2. QED
    BY <1>1, <1>2, <2>1 DEF Outstanding
<1>6. Covered => Covered'
  BY <1>1, <1>5 DEF Covered, Listed, FreeSlots
<1>7. CoveredThroughout'
  BY <1>0, <1>1, <1>6 DEF CoveredThroughout, SessionPhase
<1>8. QED
  BY <1>3, <1>4, <1>7 DEF PurposeInv

\* The packet takes its filters from the arguments as they are then.
LEMMA RunAwaitingAckPurpose ==
    ASSUME IInv, PurposeInv, RunAwaitingAck
    PROVE  PurposeInv'
<1> USE DEF taskVars, agentVars, listVars, brokerVars
<1>0. /\ TypeOK /\ OneOwner /\ AgentPhases
      /\ HandKinds /\ WakeupAlone /\ PacketsKept /\ NoSubscribePending /\ AcksGranted
      /\ NothingStarted /\ ListFilled /\ CoveredThroughout /\ ToldListed
      /\ Running
  BY DEF IInv, PurposeInv, RunAwaitingAck
<1>1. /\ current \in Commands /\ current # NULL
      /\ agent = "run" /\ agent' = "poll" /\ Running'
      /\ current' = NULL /\ pending' = pending \cup {current}
      /\ cmd' = [cmd EXCEPT ![current].filters = PacketFilters(current)]
      /\ UNCHANGED <<queue, holder, session, started, told,
                     xGlobalSubscriptionList, xSubArgs, lost, brokerSubs, acks>>
  BY <1>0 DEF TypeOK, AgentPhases, RunAwaitingAck, Running
<1>2. cmd \in [Commands -> [kind : Kinds, by : Callers, filters : SUBSET Filters] \cup {Blank}]
  BY <1>0 DEF TypeOK
<1>3. /\ cmd'[current].kind = cmd[current].kind
      /\ cmd'[current].by = cmd[current].by
      /\ cmd'[current].filters = PacketFilters(current)
      /\ \A c \in Commands \ {current} : cmd'[c] = cmd[c]
  BY <1>1, <1>2 DEF Blank
<1>4. \A c \in Commands : cmd'[c].kind = cmd[c].kind /\ cmd'[c].by = cmd[c].by
  BY <1>3
<1>5. /\ \A k \in Callers : holder[k] # NULL => holder[k] \in Commands
      /\ Range(queue) \subseteq Commands /\ pending \subseteq Commands
  BY <1>0 DEF TypeOK, OneOwner
<1>6. HandKinds'
  BY <1>0, <1>1, <1>4, <1>5 DEF HandKinds, IsLoop
<1>7. WakeupAlone'
  <2>1. Range(queue)' = Range(queue)
    BY <1>1
  <2>2. \A c \in Range(queue) : IsLoop(c)' <=> IsLoop(c)
    BY <1>4, <1>5 DEF IsLoop
  <2>3. QED
    BY <1>0, <1>1, <2>1, <2>2 DEF WakeupAlone
<1>8. PacketsKept'
  <2>1. ASSUME NEW c \in pending
        PROVE  c # current /\ cmd'[c] = cmd[c]
    BY <1>0, <1>1, <1>3, <1>5 DEF OneOwner, InCurrent
  <2>2. CASE cmd[current].kind = "subscribe"
    <3>1. PacketFilters(current) = {SubscriptionOf[cmd[current].by].filter}
      BY <2>2 DEF PacketFilters
    <3>2. QED
      BY <1>0, <1>1, <1>3, <2>1, <2>2, <3>1 DEF PacketsKept
  <2>3. CASE cmd[current].kind = "resubscribe"
    <3>1. PacketFilters(current) = xSubArgs
      BY <2>3 DEF PacketFilters
    <3>2. QED
      BY <1>0, <1>1, <1>3, <2>1, <2>3, <3>1 DEF PacketsKept
  <2>4. CASE cmd[current].kind \notin {"subscribe", "resubscribe"}
    BY <1>0, <1>1, <1>3, <2>1, <2>4 DEF PacketsKept
  <2>5. QED
    BY <2>2, <2>3, <2>4
<1>9. /\ NoSubscribePending' /\ AcksGranted' /\ NothingStarted'
      /\ ListFilled' /\ ToldListed'
  BY <1>0, <1>1 DEF NoSubscribePending, AcksGranted, NothingStarted, ListFilled, Entries,
     ToldListed, Listed, FreeSlots
<1>10. Outstanding' = Outstanding /\ Outstanding \subseteq Commands
  BY <1>1, <1>5 DEF Outstanding, InCurrent
<1>11. Covered => Covered'
  BY <1>1, <1>4, <1>10 DEF Covered, Listed, FreeSlots
<1>12. CoveredThroughout'
  BY <1>0, <1>1, <1>11 DEF CoveredThroughout, SessionPhase
<1>13. QED
  BY <1>6, <1>7, <1>8, <1>9, <1>12 DEF PurposeInv

\* The end of a command: a SUBSCRIBE that succeeds adds a filter the broker
\* has granted; a resubscription that ends has made the broker cover the
\* list, or is recorded as lost.
LEMMA ConcludeKeepsPurpose ==
    ASSUME IInv, PurposeInv, Running, NEW c \in InCurrent \cup pending,
           NEW status, NEW refused, Conclude(c, status, refused),
           cmd[c].kind = "resubscribe" /\ status = "MQTTSuccess" =>
                refused = {} /\ xSubArgs \subseteq brokerSubs,
           cmd[c].kind = "subscribe" /\ status = "MQTTSuccess" =>
                SubscriptionOf[cmd[c].by].filter \in brokerSubs,
           pending' = pending \ {c}, InCurrent' = InCurrent \ {c}, acks' \subseteq acks,
           UNCHANGED <<queue, holder, session, started, xSubArgs, brokerSubs>>,
           \/ agent \in {"poll", "clear"} /\ agent' = agent
           \/ agent = "run" /\ agent' \in {"poll", "failed"}
    PROVE  PurposeInv'
<1> DEFINE list == xGlobalSubscriptionList
<1>0. /\ TypeOK /\ OneOwner /\ SubscribersAreClients
      /\ HandKinds /\ WakeupAlone /\ PacketsKept /\ NoSubscribePending /\ AcksGranted
      /\ NothingStarted /\ ListFilled /\ CoveredThroughout /\ ToldListed
  BY DEF IInv, PurposeInv
<1>1. CASE ~Running'
  BY <1>1 DEF PurposeInv
<1>2. CASE Running'
  <2>1. c \in Commands /\ c \notin Range(queue) /\ c \notin InHand
    BY <1>0 DEF TypeOK, OneOwner, InCurrent
  <2>2. /\ Callback(c, status, refused)
        /\ cmd'[c].kind = "none"
        /\ \A d \in Commands \ {c} : cmd'[d] = cmd[d]
    BY <1>0, <1>2, <2>1, ConcludeActs
  <2>3. /\ ListFilled' /\ ToldListed'
        /\ lost => lost'
        /\ cmd[c].kind = "resubscribe" /\ ~lost' => status = "MQTTSuccess"
        /\ Listed(list)' \subseteq Listed(list)
              \cup (IF cmd[c].kind = "subscribe" /\ status = "MQTTSuccess"
                    THEN {SubscriptionOf[cmd[c].by].filter} ELSE {})
    <3>1. told \subseteq Clients
      BY <1>0 DEF TypeOK
    <3>2. QED
      BY <1>0, <2>1, <2>2, <3>1, CallbackActs
  <2>4. /\ \A k \in Callers : holder[k] # NULL => holder[k] \in Commands \ {c}
        /\ Range(queue) \subseteq Commands \ {c} /\ pending \subseteq Commands
    BY <1>0, <2>1 DEF TypeOK, OneOwner, InHand
  <2>5. HandKinds'
    BY <1>0, <2>2, <2>4 DEF HandKinds, IsLoop
  <2>6. WakeupAlone'
    <3>1. Range(queue)' = Range(queue)
      OBVIOUS
    <3>2. \A d \in Range(queue) : IsLoop(d)' <=> IsLoop(d)
      BY <2>2, <2>4 DEF IsLoop
    <3>3. QED
      BY <1>0, <3>1, <3>2 DEF WakeupAlone
  <2>7. PacketsKept'
    <3>1. \A d \in pending' : d \in pending /\ cmd'[d] = cmd[d]
      BY <2>2, <2>4
    <3>2. QED
      BY <1>0, <3>1 DEF PacketsKept
  <2>8. NoSubscribePending' /\ AcksGranted' /\ NothingStarted'
    BY <1>0 DEF NoSubscribePending, AcksGranted, NothingStarted
  <2>9. ASSUME ~lost', SessionPhase'
        PROVE  Covered'
    <3>1. Covered
      BY <1>0, <2>3, <2>9 DEF CoveredThroughout, SessionPhase
    <3>2. Outstanding' = Outstanding \ {c} /\ Outstanding \subseteq Commands
      BY <2>1, <2>4 DEF Outstanding, InCurrent, TypeOK, IInv
    <3>3. CASE cmd[c].kind = "resubscribe"
      <4>1. status = "MQTTSuccess"
        BY <2>3, <2>9, <3>3
      <4>2. xSubArgs \subseteq brokerSubs
        BY <3>3, <4>1
      <4>3. Listed(list)' \subseteq Listed(list)
        BY <2>3, <3>3
      <4>4. Listed(list) \subseteq brokerSubs
        BY <3>1, <4>2 DEF Covered
      <4>5. QED
        BY <4>3, <4>4 DEF Covered
    <3>4. CASE cmd[c].kind # "resubscribe"
      <4> DEFINE added == IF cmd[c].kind = "subscribe" /\ status = "MQTTSuccess"
                          THEN {SubscriptionOf[cmd[c].by].filter} ELSE {}
      <4>1. added \subseteq brokerSubs
        OBVIOUS
      <4>2. Listed(list)' \subseteq Listed(list) \cup added
        BY <2>3
      <4>3. \A d \in Outstanding : cmd[d].kind = "resubscribe" =>
                d \in Outstanding' /\ cmd'[d].kind = "resubscribe"
        BY <2>2, <3>2, <3>4
      <4> HIDE DEF added
      <4>4. QED
        BY <3>1, <4>1, <4>2, <4>3, CoveredStays
    <3>5. QED
      BY <3>3, <3>4
  <2>10. CoveredThroughout'
    BY <2>9 DEF CoveredThroughout
  <2>11. QED
    BY <2>3, <2>5, <2>6, <2>7, <2>8, <2>10 DEF PurposeInv
<1>3. QED
  BY <1>1, <1>2

\* The four places where commands end.
LEMMA EndsKeepPurpose ==
    ASSUME IInv, PurposeInv, RunToEnd \/ SendFails \/ PollAck \/ ClearPending
    PROVE  PurposeInv'
<1> USE DEF taskVars, agentVars, listVars, brokerVars
<1>0. Running
  BY DEF RunToEnd, SendFails, PollAck, ClearPending
<1>1. /\ TypeOK /\ OneOwner /\ AgentPhases /\ AcksArePending /\ PacketsKept /\ AcksGranted
  BY <1>0 DEF IInv, PurposeInv
<1>2. CASE RunToEnd
  <2>1. /\ current \in InCurrent /\ current \notin pending /\ agent = "run" /\ agent' = "poll"
        /\ ~NeedsAck(current) /\ Conclude(current, "MQTTSuccess", {})
        /\ InCurrent' = InCurrent \ {current}
        /\ UNCHANGED <<queue, holder, pending, session, started, xSubArgs, brokerSubs, acks>>
    BY <1>0, <1>1, <1>2 DEF RunToEnd, AgentPhases, OneOwner, InCurrent
  <2>2. QED
    BY <1>0, <2>1, ConcludeKeepsPurpose DEF NeedsAck
<1>3. CASE SendFails
  <2>1. /\ current \in InCurrent /\ current \notin pending /\ agent = "run" /\ agent' = "failed"
        /\ Conclude(current, "MQTTSendFailed", {})
        /\ InCurrent' = InCurrent \ {current}
        /\ UNCHANGED <<queue, holder, pending, session, started, xSubArgs, brokerSubs, acks>>
    BY <1>0, <1>1, <1>3 DEF SendFails, AgentPhases, OneOwner, InCurrent
  <2>2. QED
    BY <1>0, <2>1, ConcludeKeepsPurpose
<1>4. CASE PollAck
  <2>1. PICK a \in acks :
            /\ acks' = acks \ {a}
            /\ pending' = pending \ {a.cmd}
            /\ Conclude(a.cmd, SubackStatus(a.cmd, a.granted), cmd[a.cmd].filters \ a.granted)
    BY <1>4 DEF PollAck
  <2> DEFINE c == a.cmd
             status == SubackStatus(c, a.granted)
  <2>2. /\ agent = "poll" /\ agent' = "poll"
        /\ UNCHANGED <<queue, holder, current, session, started, xSubArgs, brokerSubs>>
    BY <1>4 DEF PollAck
  <2>3. c \in pending /\ c \notin InCurrent /\ a.granted \subseteq brokerSubs
    BY <1>0, <1>1, <2>1 DEF AcksArePending, OneOwner, AcksGranted
  <2>4. InCurrent' = InCurrent \ {c}
    BY <2>2, <2>3 DEF InCurrent
  <2>5. status = "MQTTSuccess" => a.granted = cmd[c].filters
    BY DEF SubackStatus
  <2>6. cmd[c].kind = "resubscribe" /\ status = "MQTTSuccess" =>
            cmd[c].filters \ a.granted = {} /\ xSubArgs \subseteq brokerSubs
    BY <1>1, <2>3, <2>5 DEF PacketsKept
  <2>7. cmd[c].kind = "subscribe" /\ status = "MQTTSuccess" =>
            SubscriptionOf[cmd[c].by].filter \in brokerSubs
    BY <1>1, <2>3, <2>5 DEF PacketsKept
  <2> HIDE DEF c, status
  <2>8. Conclude(c, status, cmd[c].filters \ a.granted) /\ pending' = pending \ {c}
    BY <2>1 DEF c, status
  <2>9. QED
    BY <1>0, <2>1, <2>2, <2>3, <2>4, <2>6, <2>7, <2>8, ConcludeKeepsPurpose
<1>5. CASE ClearPending
  <2>1. PICK c \in Cancelled :
            /\ Conclude(c, "MQTTRecvFailed", {})
            /\ pending' = pending \ {c}
    BY <1>5 DEF ClearPending
  <2>2. /\ agent = "clear" /\ agent' = "clear" /\ c \in pending /\ c \notin InCurrent
        /\ UNCHANGED <<queue, holder, current, session, started, xSubArgs, brokerSubs, acks>>
    BY <1>0, <1>1, <1>5 DEF ClearPending, Cancelled, OneOwner
  <2>3. InCurrent' = InCurrent \ {c}
    BY <2>2 DEF InCurrent
  <2>4. QED
    BY <1>0, <2>1, <2>2, <2>3, ConcludeKeepsPurpose
<1>6. QED
  BY <1>2, <1>3, <1>4, <1>5

----------------------------------------------------------------------------
(* The theorems about what the commands are for.                           *)

\* PurposeInv holds before the tasks run.
LEMMA PurposeInitially == Init => PurposeInv
<1> SUFFICES ASSUME Init PROVE PurposeInv
  OBVIOUS
<1> USE DEF Init, prvMQTTInit
<1>1. queue = <<>> /\ Range(queue) = {} /\ pending = {} /\ acks = {} /\ told = {}
  BY EmptySeq DEF Range
<1>2. xGlobalSubscriptionList = [i \in Slots |-> Free]
  OBVIOUS
<1>3. Listed(xGlobalSubscriptionList) = {}
  BY <1>2 DEF Listed, FreeSlots, Free
<1>4. ListFilled
  BY <1>2 DEF ListFilled, Entries, SubscriptionLists
<1>5. HandKinds /\ WakeupAlone
  BY <1>1 DEF HandKinds, WakeupAlone
<1>6. PacketsKept /\ NoSubscribePending /\ AcksGranted /\ ToldListed
  BY <1>1 DEF PacketsKept, NoSubscribePending, AcksGranted, ToldListed
<1>7. NothingStarted /\ CoveredThroughout
  BY <1>3 DEF NothingStarted, CoveredThroughout, Covered
<1>8. QED
  BY <1>4, <1>5, <1>6, <1>7 DEF PurposeInv

\* Every step keeps it, given the first.
LEMMA PurposeIsInductive == IInv /\ PurposeInv /\ [Next]_vars => PurposeInv'
<1> SUFFICES ASSUME IInv, PurposeInv, [Next]_vars
             PROVE  PurposeInv'
  OBVIOUS
<1>1. CASE CallerStep
  BY <1>1, TakesKeepPurpose, PhasesKeepPurpose, PostCommandPurpose DEF CallerStep
<1>2. CASE LoopStep
  BY <1>2, AgentReceivePurpose, PhasesKeepPurpose, EndsKeepPurpose, RunAwaitingAckPurpose
  DEF LoopStep
<1>3. CASE ReconnectStep
  BY <1>3, PhasesKeepPurpose, EndsKeepPurpose, ResubscribePurpose DEF ReconnectStep
<1>4. CASE BrokerStep
  BY <1>4, PhasesKeepPurpose DEF BrokerStep
<1>5. CASE Halted \/ UNCHANGED vars
  BY <1>5, PhasesKeepPurpose
<1>6. QED
  BY <1>1, <1>2, <1>3, <1>4, <1>5 DEF Next

\* The inductive invariant of what the commands are for.
LEMMA PurposeAlways == Spec => []PurposeInv
  BY PurposeInitially, PurposeIsInductive, IInvAlways, PTL DEF Spec

\* prvMQTTClientSocketWakeupCallback(): it looks at the queue before it takes
\* a command, other tasks post in between, and yet the queue never holds two
\* process loop commands.
THEOREM SingleWakeupTheorem == Spec => []SingleWakeup
<1>1. IInv /\ PurposeInv => SingleWakeup
  <2> SUFFICES ASSUME IInv, PurposeInv, Running
               PROVE  Cardinality({i \in DOMAIN queue : IsLoop(queue[i])}) <= 1
    BY DEF SingleWakeup, IsLoop
  <2> DEFINE loops == {i \in DOMAIN queue : IsLoop(queue[i])}
  <2>1. IsInjective(queue) /\ \A c, d \in Range(queue) : IsLoop(c) /\ IsLoop(d) => c = d
    BY DEF IInv, OneOwner, PurposeInv, WakeupAlone
  <2>2. \A i, j \in loops : i = j
    BY <2>1 DEF IsInjective, Range
  <2>3. CASE loops = {}
    BY <2>3, FS_EmptySet
  <2>4. CASE loops # {}
    <3>1. PICK i : loops = {i}
      BY <2>2, <2>4
    <3>2. QED
      BY <3>1, FS_Singleton
  <2>5. QED
    BY <2>3, <2>4
<1>2. QED
  BY <1>1, IInvAlways, PurposeAlways, PTL

\* prvHandleResubscribe(): the static arguments are not rewritten while the
\* SUBSCRIBE that was made from them waits for its SUBACK.
THEOREM ArgsStableTheorem == Spec => []ArgsStable
<1>1. PurposeInv => ArgsStable
  BY DEF PurposeInv, PacketsKept, ArgsStable
<1>2. QED
  BY <1>1, PurposeAlways, PTL

\* prvMQTTConnect() and prvHandleResubscribe(): through every sequence of
\* losses, kept and lost sessions, the broker delivers to every filter of the
\* list when the command loop runs, or is about to be asked to.
THEOREM ListedIsCoveredTheorem == Spec => []ListedIsCovered
<1>1. PurposeInv => ListedIsCovered
  BY DEF PurposeInv, CoveredThroughout, SessionPhase, Covered, ListedIsCovered
<1>2. QED
  BY <1>1, PurposeAlways, PTL

\* prvSubscribeCommandCallback(): a task that was told of its success has its
\* callback in the list, which has room for all of them, and keeps it.
THEOREM ToldMeansListedTheorem == Spec => []ToldMeansListed
<1>1. PurposeInv => ToldMeansListed
  BY DEF PurposeInv, ToldListed, ToldMeansListed
<1>2. QED
  BY <1>1, PurposeAlways, PTL

----------------------------------------------------------------------------
(* The clock: facts about remainders, and the elapsed time.                *)

\* A remainder differs by a multiple of the modulus.
LEMMA Quotient ==
    ASSUME NEW x \in Int
    PROVE  \E q \in Int : x % Modulus = x - Modulus * q
  BY DEF Modulus

\* Numbers that differ by a multiple of the modulus have the same remainder.
LEMMA SameRemainder ==
    ASSUME NEW x \in Int, NEW q \in Int
    PROVE  (x + Modulus * q) % Modulus = x % Modulus
  BY DEF Modulus

\* Multiplication keeps remainders.
LEMMA Product ==
    ASSUME NEW a \in Int, NEW m \in Int, NEW q \in Int
    PROVE  (a - Modulus * q) * m = a * m - Modulus * (q * m)
  BY DEF Modulus

\* The elapsed time that coreMQTT computes is the time that has passed, modulo
\* 2^32 milliseconds, from any tick count, over any wrap of it, and whatever
\* the entry time: prvGetTimeMs() may multiply, subtract and wrap.
THEOREM ElapsedIsTime ==
    ASSUME NEW ticks \in Nat, NEW passed \in Nat, NEW ulGlobalEntryTimeMs \in Nat,
           MillisecondsPerTick \in Nat
    PROVE  Elapsed(prvGetTimeMs(ticks + passed, ulGlobalEntryTimeMs),
                   prvGetTimeMs(ticks, ulGlobalEntryTimeMs))
             = (passed * MillisecondsPerTick) % Modulus
<1> DEFINE M == MillisecondsPerTick
           e == ulGlobalEntryTimeMs
           Ms(n) == xTaskGetTickCount(n) * M
<1>1. \A n \in Nat : \E q \in Int : Ms(n) = n * M - Modulus * q
  <2> SUFFICES ASSUME NEW n \in Nat PROVE \E q \in Int : Ms(n) = n * M - Modulus * q
    OBVIOUS
  <2>1. PICK q \in Int : n % Modulus = n - Modulus * q
    BY Quotient
  <2>2. Ms(n) = n * M - Modulus * (q * M)
    BY <2>1, Product DEF xTaskGetTickCount
  <2>3. q * M \in Int
    OBVIOUS
  <2> QED
    BY <2>2, <2>3
<1>2. \A n \in Nat : \E q \in Int : prvGetTimeMs(n, e) = n * M - e - Modulus * q
  <2> SUFFICES ASSUME NEW n \in Nat
               PROVE  \E q \in Int : prvGetTimeMs(n, e) = n * M - e - Modulus * q
    OBVIOUS
  <2>1. PICK q1 \in Int : Ms(n) = n * M - Modulus * q1
    BY <1>1
  <2>2. n * M \in Int /\ Ms(n) \in Int
    BY <2>1 DEF Modulus
  <2>3. PICK q2 \in Int : Ms(n) % Modulus = Ms(n) - Modulus * q2
    BY <2>2, Quotient
  <2>4. (Ms(n) % Modulus) - e \in Int
    BY <2>2, <2>3 DEF Modulus
  <2>5. PICK q3 \in Int : ((Ms(n) % Modulus) - e) % Modulus = (Ms(n) % Modulus) - e - Modulus * q3
    BY <2>4, Quotient
  <2>6. prvGetTimeMs(n, e) = n * M - e - Modulus * (q1 + q2 + q3)
    <3> HIDE DEF Ms
    <3>1. prvGetTimeMs(n, e) = ((Ms(n) % Modulus) - e) % Modulus
      BY DEF prvGetTimeMs, Ms
    <3> QED
      BY <2>1, <2>2, <2>3, <2>5, <3>1 DEF Modulus
  <2> QED
    BY <2>6
<1>3. PICK q1 \in Int : prvGetTimeMs(ticks, e) = ticks * M - e - Modulus * q1
  BY <1>2
<1>4. PICK q2 \in Int : prvGetTimeMs(ticks + passed, e) = (ticks + passed) * M - e - Modulus * q2
  BY <1>2
<1>5. prvGetTimeMs(ticks + passed, e) - prvGetTimeMs(ticks, e)
        = passed * M + Modulus * (q1 - q2)
  <2>1. (ticks + passed) * M = ticks * M + passed * M
    OBVIOUS
  <2>2. ticks * M \in Int /\ passed * M \in Int
    OBVIOUS
  <2> QED
    BY <1>3, <1>4, <2>1, <2>2 DEF Modulus
<1>6. passed * M \in Int /\ q1 - q2 \in Int
  OBVIOUS
<1> QED
  BY <1>5, <1>6, SameRemainder DEF Elapsed
=============================================================================
