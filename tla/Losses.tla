------------------------------- MODULE Losses -------------------------------
(***************************************************************************)
(* What an exchange of fire promises (combat.go, attrition): the losses    *)
(* <<attacker's, defender's>> it may end with.  Module Attrition shows     *)
(* that the loop keeps the promise, module Galaxy builds on it.            *)
(***************************************************************************)
EXTENDS Naturals

\* Exactly one side is wiped out, unless one was empty to begin with: then
\* nothing happens.
AttritionLosses(attackers, defenders) ==
    IF attackers = 0 \/ defenders = 0 THEN {<<0, 0>>}
    ELSE {<<a, defenders>> : a \in 0..(attackers - 1)}
         \union {<<attackers, d>> : d \in 0..(defenders - 1)}
=============================================================================
