------------------------- MODULE SubscriptionManager -------------------------
(***************************************************************************)
(* subscription_manager.c as a component: the agent task is the only one   *)
(* that calls it (from command callbacks and from the dispatch of incoming *)
(* publishes), so each call is one step.                                   *)
(***************************************************************************)
EXTENDS SubscriptionList

VARIABLES
    pxSubscriptionList,
    xReturnStatus,      \* value returned by the last call
    invoked             \* how often the last call ran each subscription's callback

managerVars == <<pxSubscriptionList, xReturnStatus, invoked>>

Silent == [s \in Subscription |-> 0]

ManagerInit ==
    /\ pxSubscriptionList = [i \in Slots |-> Free]
    /\ xReturnStatus = TRUE
    /\ invoked = Silent

Add(s) ==
    LET result == addSubscription(pxSubscriptionList, s)
    IN  /\ pxSubscriptionList' = result.list
        /\ xReturnStatus' = result.ok
        /\ invoked' = Silent

Remove(f) ==
    /\ pxSubscriptionList' = removeSubscription(pxSubscriptionList, f)
    /\ xReturnStatus' = TRUE
    /\ invoked' = Silent

\* The loop calls one callback per matching slot.
Publish(t) ==
    /\ UNCHANGED pxSubscriptionList
    /\ xReturnStatus' = handleIncomingPublishes(pxSubscriptionList, t)
    /\ invoked' = [s \in Subscription |->
                     Cardinality({i \in Receivers(pxSubscriptionList, t) :
                                     pxSubscriptionList[i] = s})]

ManagerNext ==
    \/ \E f \in Filters \cup {NULL}, cb \in Callbacks \cup {NULL}, ctx \in Contexts :
          Add([filter |-> f, callback |-> cb, context |-> ctx])
    \/ \E f \in Filters \cup {NULL} : Remove(f)
    \/ \E t \in Topics : Publish(t)

ManagerSpec == ManagerInit /\ [][ManagerNext]_managerVars

----------------------------------------------------------------------------
(* Properties.                                                             *)

ManagerTypeOK ==
    /\ pxSubscriptionList \in SubscriptionLists
    /\ xReturnStatus \in BOOLEAN
    /\ invoked \in [Subscription -> 0 .. MaxSubscriptions]

\* No subscription is stored in two slots, however additions and removals
\* interleave and wherever removals leave holes: the scan of addSubscription()
\* visits every slot for a duplicate before it uses a free one.
NoDuplicates ==
    \A i, j \in Slots :
        /\ pxSubscriptionList[i] = pxSubscriptionList[j]
        /\ pxSubscriptionList[i] # Free
        => i = j

\* The subscriptions the array holds.
Stored == {pxSubscriptionList[i] : i \in Slots} \ {Free}

Abstract == INSTANCE SubscriptionSet WITH
               subs <- Stored, ok <- xReturnStatus, calls <- invoked

\* The array implements the set: additions fail only when MaxSubscriptions
\* different subscriptions are stored, a removal takes every subscription of
\* its filter, and a publish runs each matching callback exactly once.
ImplementsSet == Abstract!SetSpec

=============================================================================
