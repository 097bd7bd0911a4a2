--------------------------- MODULE MCNamespaceMgr ---------------------------
(***************************************************************************)
(* Two components, one of them with the prefix of the manager, three names *)
(* of which one is ill-formed, and arrays of one or two names, one of them *)
(* with a name twice.  The count wraps below zero and at Width.            *)
(***************************************************************************)
EXTENDS NamespaceMgr

MCNames == {"a", "b", "x"}
MCRequests == {<<"a">>, <<"b">>, <<"x">>, <<"a", "b">>, <<"b", "x">>, <<"b", "b">>}
MCUnder == [Dev |-> {"a", "b", "x"}, Obj |-> {"b"}]
MCPrefix == [local |-> "", remote |-> "eRT."]
=============================================================================
