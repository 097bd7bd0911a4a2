--------------------------- MODULE MCValueChange ---------------------------
(***************************************************************************)
(* Instances of ValueChange.  Subscription w is a wildcard over a table    *)
(* row "t" that comes and goes and a parameter "x" that stays; f watches   *)
(* "x" through a filter that accepts two of the three values, and g is its *)
(* twin: the same subscription with another duration.                      *)
(***************************************************************************)
EXTENDS ValueChange, TLC

CONSTANTS w, f, g, a, b, c

MCSubs   == {w, f, g}
MCKey    == [s \in MCSubs |-> IF s = w THEN "w" ELSE "f"]
MCWild   == {w}
MCParams == {"t", "x"}
MCMatch  == [s \in MCSubs |-> IF s = w THEN {"t", "x"} ELSE {"x"}]
MCFilter == [s \in MCSubs |-> IF s = w THEN NULL ELSE {b, c}]

\* For the liveness runs w matches the row "t" only, and f has no twin.
LiveSubs   == {w, f}
LiveKey    == [s \in LiveSubs |-> s]
LiveMatch  == [s \in LiveSubs |-> IF s = w THEN {"t"} ELSE {"x"}]
LiveFilter == [s \in LiveSubs |-> IF s = w THEN NULL ELSE {b}]

\* Threads and addresses are interchangeable, and so are the twins and the two
\* values the filter accepts (used for invariants only).
MCSymmetry == Permutations(Handlers) \cup Permutations(Pollers) \cup Permutations(Recs)
              \cup Permutations({f, g}) \cup Permutations({b, c})
============================================================================
