------------------------------ MODULE Attrition ------------------------------
(***************************************************************************)
(* The coin-flip exchange loop of combat.go (attrition): every tick costs  *)
(* one side a fighter, and while both pools are large a second, independent*)
(* coin removes a whole block.  Block and single may land on opposite      *)
(* sides, which is why the two clamps after the loop, and the claim that    *)
(* exactly one side is left empty, deserve a check.                        *)
(***************************************************************************)
EXTENDS Losses

CONSTANTS Block,      \* 100 in the code
          Threshold,  \* 1000 in the code
          MaxForce    \* bound on the forces explored by TLC

ASSUME AttritionAssumption ==
    /\ Block \in Nat /\ Threshold \in Nat /\ Block < Threshold /\ MaxForce \in Nat

VARIABLES attackers, defenders,   \* the arguments
          a, c,                   \* losses so far
          returned

vars == <<attackers, defenders, a, c, returned>>

Init ==
    /\ attackers \in 0..MaxForce /\ defenders \in 0..MaxForce
    /\ a = 0 /\ c = 0 /\ returned = FALSE

\* What the block coin moves this tick.
BlockSize ==
    IF attackers - a > Threshold /\ defenders - c > Threshold THEN Block ELSE 0

\* Deliberately wrong: the block of a tick is all it costs.
Tick_BlockOnly ==
    /\ ~returned /\ a < attackers /\ c < defenders
    /\ \/ a' = a + BlockSize /\ c' = c
       \/ a' = a             /\ c' = c + BlockSize
    /\ UNCHANGED <<attackers, defenders, returned>>

Tick ==
    /\ ~returned /\ a < attackers /\ c < defenders
    /\ \/ a' = a + BlockSize + 1 /\ c' = c
       \/ a' = a + BlockSize     /\ c' = c + 1
       \/ a' = a + 1             /\ c' = c + BlockSize
       \/ a' = a                 /\ c' = c + BlockSize + 1
    /\ UNCHANGED <<attackers, defenders, returned>>

\* Deliberately wrong: off by one, the battle stops with a last fighter unspent.
Return_Early ==
    /\ ~returned /\ ~(a + 1 < attackers /\ c + 1 < defenders)
    /\ a' = a /\ c' = c /\ returned' = TRUE
    /\ UNCHANGED <<attackers, defenders>>

Return ==
    /\ ~returned /\ ~(a < attackers /\ c < defenders)
    /\ a' = IF a > attackers THEN attackers ELSE a
    /\ c' = IF c > defenders THEN defenders ELSE c
    /\ returned' = TRUE
    /\ UNCHANGED <<attackers, defenders>>

Next == Tick \/ Return

Spec == Init /\ [][Next]_vars
FairSpec == Spec /\ WF_vars(Next)

-----------------------------------------------------------------------------
(* Properties *)

TypeOK ==
    /\ attackers \in Nat /\ defenders \in Nat /\ a \in Nat /\ c \in Nat
    /\ returned \in BOOLEAN

\* A side never loses more than it has: neither clamp after the loop ever fires.
NoOverkill == a <= attackers /\ c <= defenders

\* The result is one the game relies on (module Losses): combat that began with
\* two forces leaves exactly one of them standing.
KeepsPromise == returned => <<a, c>> \in AttritionLosses(attackers, defenders)

\* Every battle ends, million-fighter ones included.
BattleEnds == <>returned
=============================================================================
