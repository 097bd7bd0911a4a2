------------------------ MODULE MCSubscriptionCache ------------------------
(***************************************************************************)
(* Instances of SubscriptionCache: two listeners; "v1" and "u1" are       *)
(* value-change subscriptions that differ in the duration only, "w2" is    *)
(* one with a wildcard, and "d1" publishes at an interval for a duration.  *)
(***************************************************************************)
EXTENDS SubscriptionCache

MCSubs      == {"v1", "u1", "w2", "d1"}
MCInterval  == {"d1"}
MCTimed     == {"d1"}
MCWild      == {"w2"}
MCKey       == [s \in MCSubs |-> IF s = "u1" THEN "v1" ELSE s]
MCListeners == {"l1", "l2"}
MCListener  == [s \in MCSubs |-> IF s = "w2" THEN "l2" ELSE "l1"]
============================================================================
