--------------------------- MODULE AttritionProofs ---------------------------
(***************************************************************************)
(* The exchange loop keeps its promise for forces of every size and every  *)
(* block smaller than the threshold.                                       *)
(***************************************************************************)
EXTENDS Attrition, TLAPS

\* Before the loop ends at least one side still stands, and a battle against
\* nobody never starts.
Standing ==
    /\ attackers > 0 /\ defenders > 0 => a < attackers \/ c < defenders
    /\ attackers = 0 \/ defenders = 0 => a = 0 /\ c = 0
    /\ returned => ~(a < attackers /\ c < defenders)

IndInv == TypeOK /\ NoOverkill /\ Standing

LEMMA BlockIsSmall ==
    ASSUME TypeOK
    PROVE  /\ BlockSize \in Nat
           /\ BlockSize = 0 \/ (attackers - a > BlockSize + 1 /\ defenders - c > BlockSize + 1)
                            \/ (attackers - a = BlockSize + 1 /\ defenders - c >= BlockSize + 1)
                            \/ (attackers - a >= BlockSize + 1 /\ defenders - c = BlockSize + 1)
BY AttritionAssumption DEF BlockSize, TypeOK

LEMMA InitInd == Init => IndInv
<1> SUFFICES ASSUME Init PROVE IndInv
    OBVIOUS
<1>a. returned \in BOOLEAN
    BY DEF Init
<1>b. attackers \in Nat /\ defenders \in Nat /\ a \in Nat /\ c \in Nat
    BY AttritionAssumption DEF Init
<1>1. TypeOK
    BY <1>a, <1>b DEF TypeOK
<1>2. NoOverkill /\ Standing
    BY <1>1 DEF Init, TypeOK, NoOverkill, Standing
<1> QED
    BY <1>1, <1>2 DEF IndInv

LEMMA StepInd == IndInv /\ [Next]_vars => IndInv'
<1> SUFFICES ASSUME IndInv, [Next]_vars PROVE IndInv'
    OBVIOUS
<1> USE DEF IndInv, TypeOK, NoOverkill, Standing
<1>1. CASE Tick
    BY <1>1, BlockIsSmall DEF Tick
<1>2. CASE Return
    BY <1>2 DEF Return
<1>3. CASE UNCHANGED vars
    BY <1>3 DEF vars
<1> QED
    BY <1>1, <1>2, <1>3 DEF Next

LEMMA Invariance == Spec => []IndInv
BY InitInd, StepInd, PTL DEF Spec

\* No side ever loses more than it has, so attrition's two clamps are dead code.
THEOREM NobodyOverkilled == Spec => []NoOverkill
<1>1. IndInv => NoOverkill
    BY DEF IndInv
<1> QED
    BY <1>1, Invariance, PTL

\* What attrition returns is what the game engine is modelled with: exactly one
\* side is wiped out, or nothing happens because one was empty.
THEOREM PromiseKept == Spec => []KeepsPromise
<1>1. IndInv => KeepsPromise
    BY DEF IndInv, TypeOK, NoOverkill, Standing, KeepsPromise, AttritionLosses
<1> QED
    BY <1>1, Invariance, PTL
=============================================================================
