----------------------------- MODULE RateLimit -----------------------------
(***************************************************************************)
(* The token buckets of package ratelimit.  A bucket is refilled only when *)
(* it is used, from the time that has passed; the buckets of the clients'  *)
(* addresses are made on demand and swept when they have long been idle.   *)
(* Time is counted in ticks and tokens in parts of one: a tick adds one    *)
(* part, Per parts are a token.                                            *)
(***************************************************************************)
EXTENDS Naturals, Sequences

CONSTANTS Keys,         \* client addresses
          Per,          \* ticks to earn a token (5 s in the code)
          Burst,        \* capacity, in tokens (10 in the code)
          Idle,         \* a bucket not used for longer may be swept (10 min in the code)
          SweepEvery,   \* time between two sweeps (1 min in the code)
          MaxTime,      \* bound: ticks of the clock
          MaxAttempts   \* bound: events of one address

\* An idle bucket is full again before it is swept: 600 s against 50 s.
ASSUME LimitAssumption ==
    /\ Per \in Nat \ {0} /\ Burst \in Nat \ {0}
    /\ Idle \in Nat /\ Idle >= Burst * Per
    /\ SweepEvery \in Nat /\ MaxTime \in Nat /\ MaxAttempts \in Nat

VARIABLES clock,
          buckets,   \* Keyed.buckets, of the addresses that have one
          lastGC,    \* Keyed.lastGC
          granted,   \* history: granted[k], when k's events were let through
          refused    \* history: refused[k], how many were not

limiter == <<buckets, lastGC, granted, refused>>
vars == <<clock, limiter>>

NewBucket(cap) == [tokens |-> cap, last |-> clock]

Refill(b, cap) ==
    [tokens |-> IF b.tokens + (clock - b.last) > cap THEN cap ELSE b.tokens + (clock - b.last),
     last |-> clock]

Full == Burst * Per

Init ==
    /\ clock = 0 /\ buckets = [k \in {} |-> NewBucket(Full)] /\ lastGC = 0
    /\ granted = [k \in Keys |-> <<>>] /\ refused = [k \in Keys |-> 0]

Tick == clock < MaxTime /\ clock' = clock + 1 /\ UNCHANGED limiter

\* Deliberately wrong: a sweep drops every bucket.
Kept_None == IF clock - lastGC > SweepEvery THEN {} ELSE DOMAIN buckets

\* The buckets that the sweep Allow may begin with, leaves.
Kept == {k \in DOMAIN buckets : clock - lastGC > SweepEvery => clock - buckets[k].seen <= Idle}

Bucket(k) ==
    Refill(IF k \in Kept THEN [tokens |-> buckets[k].tokens, last |-> buckets[k].last]
                         ELSE NewBucket(Full), Full)
Admits(k) == Bucket(k).tokens >= Per

\* Keyed.Allow and the bucket's Allow under its own lock, which no one else can
\* hold a reference to for as long as Idle.
Allow(k) ==
    /\ Len(granted[k]) + refused[k] < MaxAttempts
    /\ lastGC' = IF clock - lastGC > SweepEvery THEN clock ELSE lastGC
    /\ buckets' = [j \in Kept \cup {k} |->
                      IF j = k THEN [tokens |-> Bucket(k).tokens - (IF Admits(k) THEN Per ELSE 0),
                                     last |-> clock, seen |-> clock]
                               ELSE buckets[j]]
    /\ granted' = IF Admits(k) THEN [granted EXCEPT ![k] = Append(@, clock)] ELSE granted
    /\ refused' = IF Admits(k) THEN refused ELSE [refused EXCEPT ![k] = @ + 1]
    /\ UNCHANGED clock

Next == Tick \/ \E k \in Keys : Allow(k)

Spec == Init /\ [][Next]_vars
----------------------------------------------------------------------------
(* PROPERTIES *)

\* Types: buckets never overflow or go negative, and stand at a time that has been.
TypeOK ==
    /\ clock \in Nat /\ lastGC \in 0..clock
    /\ DOMAIN buckets \subseteq Keys
    /\ \A k \in DOMAIN buckets : /\ buckets[k].tokens \in 0..Full
                                 /\ buckets[k].last \in 0..clock
                                 /\ buckets[k].seen = buckets[k].last
    /\ granted \in [Keys -> Seq(Nat)] /\ refused \in [Keys -> Nat]

A == INSTANCE Allowance

\* ratelimit.go: "a bucket refills at a steady rate up to a burst capacity, and each
\* event consumes one token".  The lazily refilled, swept buckets let through exactly
\* what the limit allows over every stretch of time: not more, however an address
\* spaces its attempts, and it is refused only when it has used its allowance up.
ImplementsAllowance == A!Spec
=============================================================================
