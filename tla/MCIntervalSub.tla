--------------------------- MODULE MCIntervalSub ---------------------------
(***************************************************************************)
(* Instances of IntervalSub: "e" has no duration, "d" a duration that is   *)
(* not a multiple of its interval, "x" the shortest duration accepted.     *)
(***************************************************************************)
EXTENDS IntervalSub

MCSubs     == {"e", "d", "x"}
MCPeriod   == [s \in MCSubs |-> IF s = "x" THEN 3 ELSE 2]
MCDuration == [s \in MCSubs |-> CASE s = "e" -> 0 [] s = "d" -> 5 [] s = "x" -> 3]
============================================================================
