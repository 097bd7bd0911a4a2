-------------------------- MODULE MCSetTransaction --------------------------
(***************************************************************************)
(* Instances of SetTransaction: "a" and "b" belong to object "o1", "c" to  *)
(* "o2".                                                                   *)
(***************************************************************************)
EXTENDS SetTransaction

MCParams == {"a", "b", "c"}
MCObjOf == [p \in MCParams |-> IF p = "c" THEN "o2" ELSE "o1"]

\* SNMP may not write "b".
MCAcsSnmp == [p \in MCParams |-> IF p = "b" THEN {"acs"} ELSE {"acs", "snmp"}]
MCUiAcs == [p \in MCParams |-> {"ui", "acs"}]

\* One call at a time: requests of one, two and three parameters.  "b" refuses
\* 0, and a notification of 0 for "a" does not fit.
MCRequests ==
    {<<<<"a", 1>>>>, <<<<"b", 0>>>>, <<<<"c", 0>>, <<"b", 1>>>>,
     <<<<"c", 1>>, <<"a", 0>>, <<"b", 1>>>>}
MCRefused == {<<"b", 0>>}
MCLengthy == {<<"a", 0>>}

\* Sets inside sets: a notification of 0 for "c" does not fit.
MCNestRequests == {<<<<"a", 0>>, <<"c", 1>>>>, <<<<"b", 1>>, <<"c", 0>>>>}
MCNestLengthy == {<<"c", 0>>}

\* Every kind of call inside another: "c" refuses 0, and a notification of 1
\* for "b" does not fit.
MCAllRequests == {<<<<"c", 1>>, <<"b", 1>>>>, <<<<"a", 0>>, <<"c", 0>>>>}
MCAllRefused == {<<"c", 0>>}
MCAllLengthy == {<<"b", 1>>}

\* The denied writer: one request names "a" twice.
MCDeniedRequests ==
    {<<<<"a", v>>>> : v \in {0, 1}} \cup {<<<<"b", 1>>, <<"c", v>>>> : v \in {0, 1}} \cup
    {<<<<"a", 0>>, <<"a", 1>>>>, <<<<"c", 1>>, <<"a", 1>>, <<"b", 0>>>>}
=============================================================================
