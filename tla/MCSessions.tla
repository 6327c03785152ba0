----------------------------- MODULE MCSessions -----------------------------
(* Values for the constants of Sessions: one account with two connections, *)
(* each through either front-end.                                          *)
EXTENDS Sessions

CONSTANTS p1, c1, c2, ore, equipment

MCOwner == [s \in {c1, c2} |-> p1]
MCPrice == [g \in {ore, equipment} |-> 1]
MCShort == {<<57, 50>>, <<58, 25>>, <<70, 45>>}
=============================================================================
