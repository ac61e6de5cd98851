-------------------------- MODULE SubscriptionList --------------------------
(***************************************************************************)
(* The array of SubscriptionElement_t that the MQTT agent task shares with *)
(* the command callbacks, and the three operations of                      *)
(* subscription_manager.c on it.  A topic filter is a value of Filters;    *)
(* NULL stands for a null pointer and for a filter of length 0.  An entry  *)
(* is the record the code compares field by field: two subscriptions with  *)
(* the same filter and different callbacks or contexts are different.      *)
(***************************************************************************)
EXTENDS Integers, FiniteSets

CONSTANTS
    Filters,            \* topic filters the demo tasks subscribe to
    Callbacks,          \* incoming publish callbacks
    Contexts,           \* callback contexts; NULL is a legal context
    Topics,             \* topic names of incoming publishes
    Matches,            \* <<topic, filter>> pairs that MQTT_MatchTopic accepts
    MaxSubscriptions,   \* SUBSCRIPTION_MANAGER_MAX_SUBSCRIPTIONS
    NULL

ASSUME MaxSubscriptionsAssumption == MaxSubscriptions \in Nat \ {0}
ASSUME NullAssumption == NULL \notin Filters \cup Callbacks
ASSUME MatchesAssumption == Matches \subseteq Topics \X Filters

Slots == 1 .. MaxSubscriptions

Subscription == [filter : Filters, callback : Callbacks, context : Contexts]

\* memset( element, 0x00 ): usFilterStringLength = 0 marks the slot as free.
Free == [filter |-> NULL, callback |-> NULL, context |-> NULL]

SubscriptionLists == [Slots -> Subscription \cup {Free}]

FreeSlots(list) == {i \in Slots : list[i].filter = NULL}

----------------------------------------------------------------------------
(* addSubscription().                                                      *)

BadSubscription(s) == s.filter = NULL \/ s.callback = NULL

\* The backward scan ends with xAvailableIndex at the lowest free slot.
FirstFree(list) == CHOOSE i \in FreeSlots(list) :
                      \A j \in FreeSlots(list) : i <= j

\* A scan that stops at the first free slot seen from the front, so that it
\* misses a duplicate stored behind a freed slot.
AddSubscriptionForwardScan(list, s) ==
    IF BadSubscription(s)
    THEN [ok |-> FALSE, list |-> list]
    ELSE IF \E i \in Slots : list[i] = s /\ \A j \in FreeSlots(list) : i < j
    THEN [ok |-> TRUE, list |-> list]
    ELSE IF FreeSlots(list) = {}
    THEN [ok |-> FALSE, list |-> list]
    ELSE [ok |-> TRUE, list |-> [list EXCEPT ![FirstFree(list)] = s]]

\* The value returned and the array afterwards.
addSubscription(list, s) ==
    IF BadSubscription(s)
    THEN [ok |-> FALSE, list |-> list]
    ELSE IF \E i \in Slots : list[i] = s
    THEN [ok |-> TRUE, list |-> list]
    ELSE IF FreeSlots(list) = {}
    THEN [ok |-> FALSE, list |-> list]
    ELSE [ok |-> TRUE, list |-> [list EXCEPT ![FirstFree(list)] = s]]

----------------------------------------------------------------------------
(* removeSubscription().                                                   *)

\* A removal that stops after the first element with the filter.
RemoveFirstOnly(list, f) ==
    [i \in Slots |->
        IF f # NULL /\ list[i].filter = f /\ \A j \in 1 .. i - 1 : list[j].filter # f
        THEN Free ELSE list[i]]

\* The array afterwards: every element with the filter is cleared, whatever
\* its callback; a null filter is refused.
removeSubscription(list, f) ==
    [i \in Slots |-> IF f # NULL /\ list[i].filter = f THEN Free ELSE list[i]]

----------------------------------------------------------------------------
(* handleIncomingPublishes().                                              *)

\* The slots whose callback is invoked for a publish to topic.
Receivers(list, topic) ==
    {i \in Slots : list[i].filter # NULL /\ <<topic, list[i].filter>> \in Matches}

\* publishHandled.
handleIncomingPublishes(list, topic) == Receivers(list, topic) # {}

=============================================================================
