----------------------------- MODULE Allowance -----------------------------
(***************************************************************************)
(* What a rate limit promises, with no buckets in it: an event is let      *)
(* through exactly when, over every stretch of time that ends with it, no  *)
(* more events than the burst and the rate for that stretch allow are let  *)
(* through.                                                                *)
(***************************************************************************)
EXTENDS Naturals, Sequences

CONSTANTS Keys,   \* whose events are limited, each for itself
          Per,    \* the rate: one event for every Per ticks of the clock
          Burst   \* events at once, after a quiet time

VARIABLES clock, granted, refused

\* After those let through at `times`, one more at time t is within the limit.
Within(times, t, per, burst) ==
    \A i \in DOMAIN times : (Len(times) - i + 2) * per <= burst * per + (t - times[i])

Init == clock = 0 /\ granted = [k \in Keys |-> <<>>] /\ refused = [k \in Keys |-> 0]

Tick == clock' = clock + 1 /\ UNCHANGED <<granted, refused>>

Grant(k) ==
    /\ Within(granted[k], clock, Per, Burst)
    /\ granted' = [granted EXCEPT ![k] = Append(@, clock)]
    /\ UNCHANGED <<clock, refused>>

Refuse(k) ==
    /\ ~Within(granted[k], clock, Per, Burst)
    /\ refused' = [refused EXCEPT ![k] = @ + 1]
    /\ UNCHANGED <<clock, granted>>

Next == Tick \/ \E k \in Keys : Grant(k) \/ Refuse(k)

Spec == Init /\ [][Next]_<<clock, granted, refused>>
=============================================================================
