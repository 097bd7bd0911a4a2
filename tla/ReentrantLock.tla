--------------------------- MODULE ReentrantLock ---------------------------
(***************************************************************************)
(* What ANSC_TS_LOCK promises its callers: a lock that one task owns at a  *)
(* time, that its owner may take again, and that becomes free when the     *)
(* owner has released it as often as it took it.                           *)
(***************************************************************************)
EXTENDS Naturals

CONSTANTS Tasks, NoTask

VARIABLES
    owner,  \* the task that holds the lock, or NoTask
    depth   \* how often the owner has taken it

vars == <<owner, depth>>

Init == owner = NoTask /\ depth = 0

Acquire(t) ==
    /\ owner \in {NoTask, t}
    /\ owner' = t
    /\ depth' = depth + 1

Release(t) ==
    /\ owner = t
    /\ depth' = depth - 1
    /\ owner' = IF depth = 1 THEN NoTask ELSE t

Next == \E t \in Tasks : Acquire(t) \/ Release(t)

Spec == Init /\ [][Next]_vars
============================================================================
