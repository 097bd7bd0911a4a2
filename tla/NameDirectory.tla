--------------------------- MODULE NameDirectory ---------------------------
(***************************************************************************)
(* What the component registrar needs from the namespace manager: every    *)
(* name belongs to at most one component, a component gets names only that *)
(* nobody has, and a name changes hands only through being given up.       *)
(***************************************************************************)
CONSTANTS Names, Comps, None

VARIABLE owner  \* [Names -> Comps \cup {None}]

Init == owner = [n \in Names |-> None]

\* c gets the free names S.
Claim(c, S) ==
    /\ \A n \in S : owner[n] = None
    /\ owner' = [n \in Names |-> IF n \in S THEN c ELSE owner[n]]

\* c gives up some or all of its names.
GiveUp(c, S) ==
    /\ \A n \in S : owner[n] = c
    /\ owner' = [n \in Names |-> IF n \in S THEN None ELSE owner[n]]

\* The directory is emptied.
Clear == owner' = [n \in Names |-> None]

Next ==
    \/ \E c \in Comps, S \in SUBSET Names : Claim(c, S) \/ GiveUp(c, S)
    \/ Clear

Spec == Init /\ [][Next]_owner
============================================================================
