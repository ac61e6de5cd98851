--------------------------- MODULE SubscriptionSet ---------------------------
(***************************************************************************)
(* What the subscription manager promises its users, without the array: a  *)
(* set of at most MaxSubscriptions subscriptions.  Adding one twice        *)
(* changes nothing and succeeds; an addition fails only when the set is    *)
(* full; removing a filter removes all its subscriptions; an incoming      *)
(* publish calls every matching subscription exactly once, and is handled  *)
(* when there is at least one.                                             *)
(***************************************************************************)
EXTENDS SubscriptionList

VARIABLES
    subs,       \* the subscriptions in force
    ok,         \* value returned by the last operation
    calls       \* how often the last operation called each subscription

setVars == <<subs, ok, calls>>

NoCalls == [s \in Subscription |-> 0]

SetInit ==
    /\ subs = {}
    /\ ok = TRUE
    /\ calls = NoCalls

SetAdd(s) ==
    /\ IF s \in subs \/ (s \in Subscription /\ Cardinality(subs) < MaxSubscriptions)
       THEN /\ subs' = subs \cup {s}
            /\ ok' = TRUE
       ELSE /\ UNCHANGED subs
            /\ ok' = FALSE
    /\ calls' = NoCalls

SetRemove(f) ==
    /\ subs' = {s \in subs : s.filter # f}
    /\ ok' = TRUE
    /\ calls' = NoCalls

SetPublish(t) ==
    /\ UNCHANGED subs
    /\ ok' = (\E s \in subs : <<t, s.filter>> \in Matches)
    /\ calls' = [s \in Subscription |->
                    IF s \in subs /\ <<t, s.filter>> \in Matches THEN 1 ELSE 0]

SetNext ==
    \/ \E f \in Filters \cup {NULL}, cb \in Callbacks \cup {NULL}, ctx \in Contexts :
          SetAdd([filter |-> f, callback |-> cb, context |-> ctx])
    \/ \E f \in Filters \cup {NULL} : SetRemove(f)
    \/ \E t \in Topics : SetPublish(t)

SetSpec == SetInit /\ [][SetNext]_setVars

=============================================================================
