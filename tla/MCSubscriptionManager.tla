------------------------ MODULE MCSubscriptionManager ------------------------
(***************************************************************************)
(* Two filters, two callbacks and three slots: a list can be full, hold    *)
(* two subscriptions of one filter and be left with a hole in front of a   *)
(* stored one.  Topic "t1" is matched by both filters (one of them is a    *)
(* wildcard), "t2" by one, "t3" by none.                                   *)
(***************************************************************************)
EXTENDS SubscriptionManager

MCMatches == {<<"t1", "f1">>, <<"t1", "wild">>, <<"t2", "wild">>}

=============================================================================
