---------------------------- MODULE TelnetProofs ----------------------------
(***************************************************************************)
(* That the limiter lets through exactly what the limit allows, for every  *)
(* rate and burst and any number of clients.  The inductive invariant says *)
(* what the tokens in a bucket remember of the events let through: never   *)
(* more than any stretch of time has left over, and for one stretch just   *)
(* that; and that whoever has no bucket, any more or yet, would have a     *)
(* full one.  The same of the bucket of a connection's lines, and that a   *)
(* sleep lasts for as long as that bucket is short of a token.             *)
(* Last, that the dialogue is given the lines that were meant.             *)
(***************************************************************************)
EXTENDS Telnet, Integers, WellFoundedInduction, TLAPS

\* What the events since the i-th, and that, have taken.
Taken(k, i) == (Len(granted[k]) - i + 1) * Per

\* Nothing is let through ahead of its time.
InThePast == \A k \in Keys : \A i \in DOMAIN granted[k] : granted[k][i] \in 0..clock

\* A bucket holds no more than any stretch leaves over.
Charged ==
    \A k \in DOMAIN buckets : \A i \in DOMAIN granted[k] :
        Taken(k, i) + buckets[k].tokens <= Full + (buckets[k].last - granted[k][i])

\* A bucket holds as much as some stretch leaves over.
Tight ==
    \A k \in DOMAIN buckets : \E i \in DOMAIN granted[k] :
        Taken(k, i) + buckets[k].tokens = Full + (buckets[k].last - granted[k][i])

\* Whoever has no bucket has earned all he used.
Forgotten ==
    \A k \in Keys \ DOMAIN buckets : \A i \in DOMAIN granted[k] : Taken(k, i) <= clock - granted[k][i]

IndInv == TypeOK /\ InThePast /\ Charged /\ Tight /\ Forgotten

\* The capacity is at least one token.
LEMMA FullOK == Full \in Nat /\ Per \in Nat /\ Per > 0 /\ Full >= Per
  <1>1. Per \in Nat /\ Burst \in Nat /\ Per > 0 /\ Burst > 0
    BY LimitAssumption
  <1>2. Burst * Per \in Nat /\ Burst * Per >= Per
    BY <1>1, SMT
  <1> QED
    BY <1>1, <1>2 DEF Full

\* One event more takes one token more.
LEMMA OneMore ==
  \A m \in Int : (m + 1) * Per = m * Per + Per /\ m * Per \in Int
  BY FullOK, SMT

LEMMA InitOK == Init => IndInv
  BY FullOK DEF Init, IndInv, TypeOK, InThePast, Charged, Tight, Forgotten

\* What a client's bucket holds at the moment, full if he has none.
LEMMA BucketIs ==
  ASSUME IndInv, NEW k \in Keys
  PROVE  /\ Kept \subseteq DOMAIN buckets
         /\ Bucket(k).tokens \in 0..Full
         /\ Bucket(k).last = clock
         /\ k \notin Kept => Bucket(k).tokens = Full
         /\ k \in Kept => \/ Bucket(k).tokens = buckets[k].tokens + (clock - buckets[k].last)
                          \/ /\ Bucket(k).tokens = Full
                             /\ Full < buckets[k].tokens + (clock - buckets[k].last)
  <1> DEFINE b == IF k \in Kept THEN [tokens |-> buckets[k].tokens, last |-> buckets[k].last]
                                ELSE NewBucket(Full)
  <1>1. Kept \subseteq DOMAIN buckets
    BY DEF Kept
  <1>2. /\ clock \in Nat
        /\ k \in Kept => b.tokens = buckets[k].tokens /\ b.last = buckets[k].last
                         /\ buckets[k].tokens \in 0..Full /\ buckets[k].last \in 0..clock
        /\ k \notin Kept => b.tokens = Full /\ b.last = clock
    BY <1>1 DEF IndInv, TypeOK, NewBucket
  <1>3. Bucket(k) = Refill(b, Full)
    BY DEF Bucket
  <1> HIDE DEF b
  <1>4. /\ Bucket(k).last = clock
        /\ b.tokens + (clock - b.last) > Full => Bucket(k).tokens = Full
        /\ ~(b.tokens + (clock - b.last) > Full) => Bucket(k).tokens = b.tokens + (clock - b.last)
    BY <1>3 DEF Refill
  <1> QED
    BY <1>1, <1>2, <1>4, FullOK, SMT

\* Whoever's bucket is swept, has earned all he used: it was full long ago.
LEMMA SweptIsFull ==
  ASSUME IndInv, NEW k \in Keys, k \notin Kept, NEW i \in DOMAIN granted[k]
  PROVE  Taken(k, i) <= clock - granted[k][i]
  <1>1. CASE k \notin DOMAIN buckets
    BY <1>1 DEF IndInv, Forgotten
  <1>2. CASE k \in DOMAIN buckets
    <2>1. ~(clock - buckets[k].seen <= Idle)
      BY <1>2 DEF Kept
    <2>2. Taken(k, i) + buckets[k].tokens <= Full + (buckets[k].last - granted[k][i])
      BY <1>2 DEF IndInv, Charged
    <2>3. Idle \in Nat /\ Idle >= Full
      BY LimitAssumption DEF Full
    <2>4. /\ clock \in Nat /\ buckets[k].tokens \in 0..Full /\ buckets[k].last \in 0..clock
          /\ buckets[k].seen = buckets[k].last
      BY <1>2 DEF IndInv, TypeOK
    <2>5. granted[k][i] \in 0..clock
      BY DEF IndInv, InThePast
    <2>6. Taken(k, i) \in Int
      <3>1. Len(granted[k]) - i + 1 \in Int
        BY DEF IndInv, TypeOK
      <3> QED
        BY <3>1, OneMore DEF Taken
    <2> QED
      BY <2>1, <2>2, <2>3, <2>4, <2>5, <2>6, FullOK, SMT
  <1> QED
    BY <1>1, <1>2

\* The types the arithmetic below needs.
LEMMA EventsOK ==
  ASSUME IndInv, NEW k \in Keys
  PROVE  /\ clock \in Nat
         /\ granted[k] \in Seq(Nat)
         /\ \A i \in DOMAIN granted[k] :
               /\ granted[k][i] \in Nat /\ granted[k][i] <= clock
               /\ Taken(k, i) \in Int
               /\ (Len(granted[k]) - i + 2) * Per = Taken(k, i) + Per
  <1>1. clock \in Nat /\ granted[k] \in Seq(Nat)
    BY DEF IndInv, TypeOK
  <1>2. ASSUME NEW i \in DOMAIN granted[k]
        PROVE  /\ granted[k][i] \in Nat /\ granted[k][i] <= clock
               /\ Taken(k, i) \in Int
               /\ (Len(granted[k]) - i + 2) * Per = Taken(k, i) + Per
    <2>1. granted[k][i] \in Nat /\ granted[k][i] <= clock
      BY <1>1 DEF IndInv, InThePast
    <2>2. Len(granted[k]) - i + 1 \in Int /\ Len(granted[k]) - i + 2 = (Len(granted[k]) - i + 1) + 1
      BY <1>1
    <2> QED
      BY <2>1, <2>2, OneMore DEF Taken
  <1> QED
    BY <1>1, <1>2

\* Refilled or made anew, a bucket holds no more than any stretch leaves over ...
LEMMA RefilledIsCharged ==
  ASSUME IndInv, NEW k \in Keys, NEW i \in DOMAIN granted[k]
  PROVE  Taken(k, i) + Bucket(k).tokens <= Full + (clock - granted[k][i])
  <1>1. clock \in Nat /\ granted[k][i] \in Nat /\ Taken(k, i) \in Int /\ Bucket(k).tokens \in Nat
    BY EventsOK, BucketIs, FullOK
  <1>2. CASE k \notin Kept
    <2>1. Taken(k, i) <= clock - granted[k][i] /\ Bucket(k).tokens = Full
      BY <1>2, SweptIsFull, BucketIs
    <2> QED
      BY <1>1, <2>1, FullOK
  <1>3. CASE k \in Kept
    <2>1. k \in DOMAIN buckets
      BY <1>3 DEF Kept
    <2>2. buckets[k].tokens \in Nat /\ buckets[k].last \in Nat
      BY <2>1, <1>1, FullOK DEF IndInv, TypeOK
    <2>3. Taken(k, i) + buckets[k].tokens <= Full + (buckets[k].last - granted[k][i])
      BY <2>1 DEF IndInv, Charged
    <2>4. Bucket(k).tokens <= buckets[k].tokens + (clock - buckets[k].last)
      BY <1>1, <1>3, <2>2, BucketIs, FullOK
    <2> QED
      BY <1>1, <2>2, <2>3, <2>4, FullOK, SMT
  <1> QED
    BY <1>2, <1>3

\* ... and unless it is full, as much as one of them does.
LEMMA RefilledIsTight ==
  ASSUME IndInv, NEW k \in Keys, Bucket(k).tokens # Full
  PROVE  \E i \in DOMAIN granted[k] : Taken(k, i) + Bucket(k).tokens = Full + (clock - granted[k][i])
  <1>1. k \in Kept /\ k \in DOMAIN buckets
    BY BucketIs DEF Kept
  <1>2. Bucket(k).tokens = buckets[k].tokens + (clock - buckets[k].last)
    BY <1>1, BucketIs
  <1>3. PICK i \in DOMAIN granted[k] :
           Taken(k, i) + buckets[k].tokens = Full + (buckets[k].last - granted[k][i])
    BY <1>1 DEF IndInv, Tight
  <1>4. clock \in Nat /\ granted[k][i] \in Nat /\ Taken(k, i) \in Int
    BY EventsOK
  <1>5. buckets[k].tokens \in Nat /\ buckets[k].last \in Nat
    BY <1>1, <1>4, FullOK DEF IndInv, TypeOK
  <1> QED
    BY <1>2, <1>3, <1>4, <1>5, FullOK, SMT

\* The bucket lets through what the limit allows, and nothing else.
LEMMA AdmitsIsWithin ==
  ASSUME IndInv, NEW k \in Keys
  PROVE  Admits(k) <=> A!Within(granted[k], clock, Per, Burst)
  <1>1. A!Within(granted[k], clock, Per, Burst)
          <=> \A i \in DOMAIN granted[k] : Taken(k, i) + Per <= Full + (clock - granted[k][i])
    BY EventsOK DEF A!Within, Full
  <1>2. Bucket(k).tokens \in Nat
    BY BucketIs, FullOK
  <1>3. CASE Admits(k)
    <2>1. ASSUME NEW i \in DOMAIN granted[k]
          PROVE  Taken(k, i) + Per <= Full + (clock - granted[k][i])
      <3>1. Taken(k, i) + Bucket(k).tokens <= Full + (clock - granted[k][i])
        BY RefilledIsCharged
      <3>2. clock \in Nat /\ granted[k][i] \in Nat /\ Taken(k, i) \in Int
        BY EventsOK
      <3>3. Bucket(k).tokens >= Per
        BY <1>3 DEF Admits
      <3> QED
        BY <1>2, <3>1, <3>2, <3>3, FullOK, SMT
    <2> QED
      BY <1>1, <1>3, <2>1
  <1>4. CASE ~Admits(k)
    <2>1. Bucket(k).tokens < Per /\ Bucket(k).tokens # Full
      BY <1>2, <1>4, FullOK DEF Admits
    <2>2. PICK i \in DOMAIN granted[k] :
             Taken(k, i) + Bucket(k).tokens = Full + (clock - granted[k][i])
      BY <2>1, RefilledIsTight
    <2>3. clock \in Nat /\ granted[k][i] \in Nat /\ Taken(k, i) \in Int
      BY EventsOK
    <2>4. ~(Taken(k, i) + Per <= Full + (clock - granted[k][i]))
      BY <1>2, <2>1, <2>2, <2>3, FullOK, SMT
    <2> QED
      BY <1>1, <1>4, <2>4
  <1> QED
    BY <1>3, <1>4

----------------------------------------------------------------------------
(* The steps *)

LEMMA TickOK == IndInv /\ Tick => IndInv'
  <1> SUFFICES ASSUME IndInv, Tick PROVE IndInv'
    OBVIOUS
  <1>1. clock \in Nat /\ clock' = clock + 1 /\ lastGC \in 0..clock
        /\ buckets' = buckets /\ lastGC' = lastGC /\ granted' = granted /\ refused' = refused
    BY DEF IndInv, TypeOK, Tick, limiter
  <1>2. TypeOK'
    BY <1>1 DEF IndInv, TypeOK
  <1>3. InThePast'
    BY <1>1 DEF IndInv, InThePast
  <1>4. \A k, i : Taken(k, i)' = Taken(k, i)
    BY <1>1 DEF Taken
  <1>5. Full' = Full
    BY DEF Full
  <1>6. Charged'
    BY <1>1, <1>4, <1>5 DEF IndInv, Charged
  <1>7. Tight'
    BY <1>1, <1>4, <1>5 DEF IndInv, Tight
  <1>8. Forgotten'
    <2> SUFFICES ASSUME NEW k \in Keys, k \notin DOMAIN buckets, NEW i \in DOMAIN granted[k]
                 PROVE  Taken(k, i) <= (clock + 1) - granted[k][i]
      BY <1>1, <1>4 DEF Forgotten
    <2>1. Taken(k, i) <= clock - granted[k][i]
      BY DEF IndInv, Forgotten
    <2>2. granted[k][i] \in Nat /\ Taken(k, i) \in Int
      BY EventsOK
    <2> QED
      BY <1>1, <2>1, <2>2
  <1> QED
    BY <1>2, <1>3, <1>6, <1>7, <1>8 DEF IndInv

\* What Allow leaves of the buckets and of the history.
LEMMA AllowIs ==
  ASSUME IndInv, NEW k \in Keys, Allow(k)
  PROVE  /\ clock' = clock
         /\ DOMAIN buckets' = Kept \cup {k}
         /\ \A j \in Kept \ {k} : buckets'[j] = buckets[j]
         /\ buckets'[k].last = clock /\ buckets'[k].seen = clock
         /\ Admits(k)  => /\ buckets'[k].tokens = Bucket(k).tokens - Per
                          /\ granted'[k] = Append(granted[k], clock)
         /\ ~Admits(k) => /\ buckets'[k].tokens = Bucket(k).tokens
                          /\ granted'[k] = granted[k]
         /\ \A j \in Keys \ {k} : granted'[j] = granted[j]
  <1>1. granted \in [Keys -> Seq(Nat)]
    BY DEF IndInv, TypeOK
  <1>2. Bucket(k).tokens \in Nat
    BY BucketIs, FullOK
  <1> QED
    BY <1>1, <1>2, FullOK DEF Allow

\* The event let through is the latest, and one more on every stretch.
LEMMA Counted ==
  ASSUME IndInv, NEW k \in Keys, Allow(k), Admits(k)
  PROVE  /\ \A i \in DOMAIN granted[k] :
               /\ i \in DOMAIN granted'[k]
               /\ Taken(k, i)' = Taken(k, i) + Per
               /\ granted'[k][i] = granted[k][i]
         /\ \A i \in DOMAIN granted'[k] :
               i \in DOMAIN granted[k] \/ (Taken(k, i)' = Per /\ granted'[k][i] = clock)
         /\ \E i \in DOMAIN granted'[k] : Taken(k, i)' = Per /\ granted'[k][i] = clock
  <1> DEFINE n == Len(granted[k])
  <1>1. granted[k] \in Seq(Nat) /\ clock \in Nat /\ granted'[k] = Append(granted[k], clock)
    BY EventsOK, AllowIs
  <1>2. /\ n \in Nat /\ Len(granted'[k]) = n + 1
        /\ DOMAIN granted[k] = 1..n /\ DOMAIN granted'[k] = 1..(n + 1)
        /\ \A i \in 1..n : granted'[k][i] = granted[k][i]
        /\ granted'[k][n + 1] = clock
    BY <1>1
  <1>3. ASSUME NEW i \in 1..n
        PROVE  Taken(k, i)' = Taken(k, i) + Per
    <2>1. n - i + 1 \in Int /\ (n + 1) - i + 1 = (n - i + 1) + 1
      BY <1>2
    <2>2. Taken(k, i) = (n - i + 1) * Per /\ Taken(k, i)' = ((n + 1) - i + 1) * Per
      BY <1>2 DEF Taken
    <2> HIDE DEF n
    <2> QED
      BY <2>1, <2>2, OneMore
  <1>4. ASSUME NEW m \in Nat, m = n + 1
        PROVE  Taken(k, m)' = Per
    <2>1. Taken(k, m)' = (Len(granted'[k]) - m + 1) * Per
      BY DEF Taken
    <2>2. Len(granted'[k]) - m + 1 = 1
      BY <1>2, <1>4
    <2> QED
      BY <2>1, <2>2, FullOK
  <1> HIDE DEF n
  <1>5. /\ \A i \in 1..(n + 1) : i \in 1..n \/ i = n + 1
        /\ n + 1 \in 1..(n + 1) /\ n + 1 \in Nat /\ \A i \in 1..n : i \in 1..(n + 1)
    BY <1>2
  <1>6. \A i \in DOMAIN granted[k] :
           /\ i \in DOMAIN granted'[k]
           /\ Taken(k, i)' = Taken(k, i) + Per
           /\ granted'[k][i] = granted[k][i]
    BY <1>2, <1>3, <1>5
  <1>7. \A i \in DOMAIN granted'[k] :
           i \in DOMAIN granted[k] \/ (Taken(k, i)' = Per /\ granted'[k][i] = clock)
    BY <1>2, <1>4, <1>5
  <1>8. \E i \in DOMAIN granted'[k] : Taken(k, i)' = Per /\ granted'[k][i] = clock
    BY <1>2, <1>4, <1>5
  <1> QED
    BY <1>6, <1>7, <1>8

LEMMA AllowOK == ASSUME IndInv, NEW k \in Keys, Allow(k) PROVE IndInv'
  <1>1. /\ clock \in Nat /\ clock' = clock /\ lastGC' \in 0..clock
        /\ DOMAIN buckets \subseteq Keys /\ Kept \subseteq DOMAIN buckets
        /\ refused' \in [Keys -> Nat]
        /\ Full' = Full
    BY BucketIs DEF IndInv, TypeOK, Allow, Full
  <1>2. granted \in [Keys -> Seq(Nat)] /\ granted' \in [Keys -> Seq(Nat)]
    BY <1>1 DEF IndInv, TypeOK, Allow
  <1>3. Bucket(k).tokens \in 0..Full /\ (Admits(k) => Bucket(k).tokens >= Per)
    BY BucketIs DEF Admits
  <1>4. ASSUME NEW j \in Keys \ {k}
        PROVE  granted'[j] = granted[j] /\ \A i : Taken(j, i)' = Taken(j, i)
    BY AllowIs DEF Taken
  <1>5. ASSUME ~Admits(k)
        PROVE  granted'[k] = granted[k] /\ \A i : Taken(k, i)' = Taken(k, i)
    BY <1>5, AllowIs DEF Taken
  <1>6. TypeOK'
    <2>1. buckets'[k].tokens \in 0..Full
      <3>1. CASE Admits(k)
        <4>1. buckets'[k].tokens = Bucket(k).tokens - Per
          BY <3>1, AllowIs
        <4> QED
          BY <1>3, <3>1, <4>1, FullOK
      <3>2. CASE ~Admits(k)
        BY <1>3, <3>2, AllowIs
      <3> QED
        BY <3>1, <3>2
    <2>2. ASSUME NEW j \in DOMAIN buckets'
          PROVE  /\ buckets'[j].tokens \in 0..Full
                 /\ buckets'[j].last \in 0..clock
                 /\ buckets'[j].seen = buckets'[j].last
      <3>1. CASE j = k
        <4>1. buckets'[k].last = clock /\ buckets'[k].seen = clock
          BY AllowIs
        <4> QED
          BY <1>1, <2>1, <3>1, <4>1
      <3>2. CASE j \in Kept \ {k}
        <4>1. buckets'[j] = buckets[j] /\ j \in DOMAIN buckets
          BY <1>1, <3>2, AllowIs
        <4> QED
          BY <4>1 DEF IndInv, TypeOK
      <3> QED
        BY <2>2, <3>1, <3>2, AllowIs
    <2>3. DOMAIN buckets' \subseteq Keys
      BY <1>1, AllowIs
    <2> QED
      BY <1>1, <1>2, <2>2, <2>3 DEF TypeOK
  <1>7. InThePast'
    <2> SUFFICES ASSUME NEW j \in Keys, NEW i \in DOMAIN granted'[j]
                 PROVE  granted'[j][i] \in 0..clock
      BY <1>1 DEF InThePast
    <2>1. \A l \in DOMAIN granted[j] : granted[j][l] \in 0..clock
      BY DEF IndInv, InThePast
    <2>2. CASE j # k
      BY <1>4, <2>1, <2>2
    <2>3. CASE j = k /\ Admits(k)
      BY <1>1, <2>1, <2>3, Counted
    <2>4. CASE j = k /\ ~Admits(k)
      BY <1>5, <2>1, <2>4
    <2> QED
      BY <2>2, <2>3, <2>4
  <1>8. Charged'
    <2> SUFFICES ASSUME NEW j \in DOMAIN buckets', NEW i \in DOMAIN granted'[j]
                 PROVE  Taken(j, i)' + buckets'[j].tokens <= Full + (buckets'[j].last - granted'[j][i])
      BY <1>1 DEF Charged
    <2>1. CASE j # k
      <3>1. j \in Kept \ {k} /\ j \in Keys /\ j \in DOMAIN buckets
        BY <1>1, <2>1, AllowIs
      <3>2. buckets'[j] = buckets[j] /\ granted'[j] = granted[j] /\ Taken(j, i)' = Taken(j, i)
        BY <1>4, <3>1, AllowIs
      <3> QED
        BY <3>1, <3>2 DEF IndInv, Charged
    <2>2. CASE j = k /\ Admits(k)
      <3>1. CASE i \in DOMAIN granted[k]
        <4>0. Taken(k, i)' = Taken(k, i) + Per /\ granted'[k][i] = granted[k][i]
          BY <2>2, <3>1, Counted
        <4>1. Taken(k, i) + Bucket(k).tokens <= Full + (clock - granted[k][i])
          BY <3>1, RefilledIsCharged
        <4>2. Taken(k, i) \in Int /\ granted[k][i] \in Nat
          BY <3>1, EventsOK
        <4>3. buckets'[k].tokens = Bucket(k).tokens - Per /\ buckets'[k].last = clock
          BY <2>2, AllowIs
        <4> QED
          BY <1>1, <1>3, <2>2, <4>0, <4>1, <4>2, <4>3, FullOK
      <3>2. CASE Taken(k, i)' = Per /\ granted'[k][i] = clock
        <4>1. buckets'[k].tokens = Bucket(k).tokens - Per /\ buckets'[k].last = clock
          BY <2>2, AllowIs
        <4> QED
          BY <1>1, <1>3, <2>2, <3>2, <4>1, FullOK
      <3> QED
        BY <2>2, <3>1, <3>2, Counted
    <2>3. CASE j = k /\ ~Admits(k)
      <3>1. i \in DOMAIN granted[k] /\ Taken(k, i)' = Taken(k, i) /\ granted'[k] = granted[k]
        BY <1>5, <2>3
      <3>2. buckets'[k].tokens = Bucket(k).tokens /\ buckets'[k].last = clock
        BY <2>3, AllowIs
      <3> QED
        BY <2>3, <3>1, <3>2, RefilledIsCharged
    <2> QED
      BY <2>1, <2>2, <2>3
  <1>9. Tight'
    <2> SUFFICES ASSUME NEW j \in DOMAIN buckets'
                 PROVE  \E i \in DOMAIN granted'[j] :
                           Taken(j, i)' + buckets'[j].tokens = Full + (buckets'[j].last - granted'[j][i])
      BY <1>1 DEF Tight
    <2>1. CASE j # k
      <3>1. j \in Kept \ {k} /\ j \in Keys /\ j \in DOMAIN buckets
        BY <1>1, <2>1, AllowIs
      <3>2. buckets'[j] = buckets[j] /\ granted'[j] = granted[j] /\ \A i : Taken(j, i)' = Taken(j, i)
        BY <1>4, <3>1, AllowIs
      <3> QED
        BY <3>1, <3>2 DEF IndInv, Tight
    <2>2. CASE j = k /\ Admits(k) /\ Bucket(k).tokens = Full
      <3>1. PICK i \in DOMAIN granted'[k] : Taken(k, i)' = Per /\ granted'[k][i] = clock
        BY <2>2, Counted
      <3>2. buckets'[k].tokens = Full - Per /\ buckets'[k].last = clock
        BY <2>2, AllowIs
      <3>3. Taken(k, i)' + buckets'[k].tokens = Full + (buckets'[k].last - granted'[k][i])
        BY <1>1, <3>1, <3>2, FullOK
      <3> QED
        BY <2>2, <3>3
    <2>3. CASE j = k /\ Admits(k) /\ Bucket(k).tokens # Full
      <3>1. PICK i \in DOMAIN granted[k] : Taken(k, i) + Bucket(k).tokens = Full + (clock - granted[k][i])
        BY <2>3, RefilledIsTight
      <3>2. Taken(k, i) \in Int /\ granted[k][i] \in Nat /\ i \in DOMAIN granted'[k]
        BY <2>3, EventsOK, Counted
      <3>3. buckets'[k].tokens = Bucket(k).tokens - Per /\ buckets'[k].last = clock
        BY <2>3, AllowIs
      <3>4. Taken(k, i)' = Taken(k, i) + Per /\ granted'[k][i] = granted[k][i]
        BY <2>3, Counted
      <3>5. Taken(k, i)' + buckets'[k].tokens = Full + (buckets'[k].last - granted'[k][i])
        BY <1>1, <1>3, <3>1, <3>2, <3>3, <3>4, FullOK
      <3> QED
        BY <2>3, <3>2, <3>5
    <2>4. CASE j = k /\ ~Admits(k)
      <3>1. Bucket(k).tokens # Full
        BY <1>3, <2>4, FullOK DEF Admits
      <3>2. PICK i \in DOMAIN granted[k] : Taken(k, i) + Bucket(k).tokens = Full + (clock - granted[k][i])
        BY <3>1, RefilledIsTight
      <3>3. buckets'[k].tokens = Bucket(k).tokens /\ buckets'[k].last = clock
        BY <2>4, AllowIs
      <3>4. granted'[k] = granted[k] /\ Taken(k, i)' = Taken(k, i)
        BY <1>5, <2>4
      <3> QED
        BY <2>4, <3>2, <3>3, <3>4
    <2> QED
      BY <2>1, <2>2, <2>3, <2>4
  <1>10. Forgotten'
    <2> SUFFICES ASSUME NEW j \in Keys, j \notin DOMAIN buckets', NEW i \in DOMAIN granted'[j]
                 PROVE  Taken(j, i)' <= clock - granted'[j][i]
      BY <1>1 DEF Forgotten
    <2>1. j # k /\ j \notin Kept
      BY AllowIs
    <2>2. granted'[j] = granted[j] /\ Taken(j, i)' = Taken(j, i)
      BY <1>4, <2>1
    <2> QED
      BY <2>1, <2>2, SweptIsFull
  <1> QED
    BY <1>6, <1>7, <1>8, <1>9, <1>10 DEF IndInv

----------------------------------------------------------------------------
(* The theorems *)

LEMMA StutterOK == IndInv /\ UNCHANGED vars => IndInv'
  <1> SUFFICES ASSUME IndInv, UNCHANGED vars PROVE IndInv'
    OBVIOUS
  <1> USE DEF vars, limiter, Taken, Full
  <1>1. TypeOK'
    BY DEF IndInv, TypeOK
  <1>2. InThePast' /\ Charged' /\ Forgotten'
    BY DEF IndInv, InThePast, Charged, Forgotten
  <1>3. Tight'
    BY DEF IndInv, Tight
  <1> QED
    BY <1>1, <1>2, <1>3 DEF IndInv

LEMMA NextOK == IndInv /\ [Next]_vars => IndInv'
  BY TickOK, AllowOK, StutterOK DEF Next

THEOREM Invariance == Spec => []IndInv
  <1> QED
    BY InitOK, NextOK, PTL DEF Spec

\* Tokens never go negative or over the capacity.
THEOREM LimiterTypeCorrect == Spec => []TypeOK
  <1>1. IndInv => TypeOK
    BY DEF IndInv
  <1> QED
    BY <1>1, Invariance, PTL

\* A step of the limiter lets an event through, or refuses it, as the limit says.
LEMMA StepImplements == IndInv /\ [Next]_vars => [A!Next]_<<clock, granted, refused>>
  <1> SUFFICES ASSUME IndInv, Next PROVE A!Next
    BY DEF vars, limiter
  <1>1. CASE Tick
    BY <1>1 DEF Tick, limiter, A!Next, A!Tick
  <1>2. ASSUME NEW k \in Keys, Allow(k)
        PROVE  A!Grant(k) \/ A!Refuse(k)
    <2>1. CASE Admits(k)
      BY <1>2, <2>1, AdmitsIsWithin DEF Allow, A!Grant
    <2>2. CASE ~Admits(k)
      BY <1>2, <2>2, AdmitsIsWithin DEF Allow, A!Refuse
    <2> QED
      BY <2>1, <2>2
  <1> QED
    BY <1>1, <1>2 DEF Next, A!Next

\* ratelimit.go: the buckets of Keyed, refilled when used and swept when idle, let
\* through exactly the events that the burst and the rate allow, for any of both.
THEOREM LimiterIsExact == Spec => ImplementsAllowance
  <1>1. Init => A!Init
    BY DEF Init, A!Init
  <1> QED
    BY <1>1, StepImplements, Invariance, PTL DEF Spec, ImplementsAllowance, A!Spec

----------------------------------------------------------------------------
(* The gateway *)

\* Every step of the gateway is one of its limiter, or leaves that alone.
LEMMA GatewayStep == [TelnetNext]_telnetVars => [Next]_vars
  <1> SUFFICES ASSUME TelnetNext PROVE Next \/ UNCHANGED vars
    BY DEF telnetVars
  <1>1. CASE Pass
    BY <1>1 DEF Pass, Next
  <1>2. ASSUME NEW c \in Conns, NEW k \in Keys, NEW s \in Scripts, Accept(c, k, s)
        PROVE  Next
    BY <1>2 DEF Accept, Next
  <1>3. ASSUME NEW c \in Conns, Wait(c) \/ Receive(c) \/ Consume(c) \/ Drop(c)
        PROVE  UNCHANGED vars
    BY <1>3 DEF Wait, Receive, Consume, Drop
  <1> QED
    BY <1>1, <1>2, <1>3 DEF TelnetNext

\* telnetserver.go: the gateway admits exactly the connections its limit allows an
\* address, whatever is being typed on those it has admitted.
THEOREM GatewayLimitsConnections == TelnetSpec => ImplementsAllowance
  <1>1. TelnetInit => Init
    BY DEF TelnetInit
  <1>2. TelnetSpec => Spec
    BY <1>1, GatewayStep, PTL DEF TelnetSpec, Spec
  <1> QED
    BY <1>2, LimiterIsExact

----------------------------------------------------------------------------
(* The throttle on lines *)

\* What n lines cost.
Cost(n) == n * CmdPer

LEMMA CostIs ==
  /\ CmdPer \in Nat /\ CmdPer > 0 /\ CmdFull \in Nat /\ CmdFull >= CmdPer /\ Cost(1) = CmdPer
  /\ \A n \in Int : Cost(n) \in Int /\ Cost(n + 1) = Cost(n) + CmdPer
  <1>1. CmdPer \in Nat /\ CmdBurst \in Nat /\ CmdPer > 0 /\ CmdBurst > 0
    BY LinesAssumption
  <1>2. CmdBurst * CmdPer \in Nat /\ CmdBurst * CmdPer >= CmdPer
    BY <1>1, SMT
  <1>3. \A n \in Int : n * CmdPer \in Int /\ (n + 1) * CmdPer = n * CmdPer + CmdPer
    BY <1>1, SMT
  <1> QED
    BY <1>1, <1>2, <1>3 DEF Cost, CmdFull

\* All the fields of a connection.
Fields(r) ==
  r = [st |-> r.st, script |-> r.script, received |-> r.received, consumed |-> r.consumed,
       filter |-> r.filter, line |-> r.line, bucket |-> r.bucket, wake |-> r.wake,
       said |-> r.said, begun |-> r.begun]

\* The lines begun are spaced out as the limit demands ...
Spaced(t) ==
  \A i, j \in DOMAIN t : i <= j => Cost(j - i + 1) <= CmdFull + (t[j] - t[i])

\* ... what the bucket holds is what is left over, for every stretch of time, and
\* for one of them just that ...
LeftOver(t, b) ==
  \A i \in DOMAIN t : Cost(Len(t) - i + 1) + b.tokens <= CmdFull + (b.last - t[i])
UsedUp(t, b) ==
  \/ t = <<>> /\ b.tokens = CmdFull
  \/ \E i \in DOMAIN t : Cost(Len(t) - i + 1) + b.tokens = CmdFull + (b.last - t[i])

\* ... and a sleep lasts for as long as the bucket is short of a token.
Held(r, now) ==
  /\ Fields(r) /\ r.wake \in Nat /\ r.begun \in Seq(Nat) /\ Spaced(r.begun)
  /\ \A i \in DOMAIN r.begun : r.begun[i] <= r.bucket.last
  /\ r.bucket = [tokens |-> r.bucket.tokens, last |-> r.bucket.last]
  /\ r.bucket.tokens \in 0..CmdFull /\ r.bucket.last \in 0..now
  /\ LeftOver(r.begun, r.bucket)
  /\ r.st # "closed" => UsedUp(r.begun, r.bucket)
  /\ r.st = "throttled" /\ r.wake > now =>
        r.bucket.tokens < CmdPer /\ r.wake = r.bucket.last + (CmdPer - r.bucket.tokens)

LineInv ==
  /\ clock \in Nat /\ conn = [c \in Conns |-> conn[c]]
  /\ \A c \in Conns : Held(conn[c], clock)

LEMMA ClosedIsHeld == ASSUME NEW now \in Nat PROVE Held(Closed, now)
  BY CostIs DEF Held, Fields, Closed, Spaced, LeftOver

\* Typing a line changes nothing the throttle looks at.
LEMMA TypingHeld ==
  ASSUME NEW now \in Nat, NEW r, Held(r, now), NEW s, Fields(s), r.st # "closed",
         s.begun = r.begun, s.bucket = r.bucket,
         \/ s.wake = r.wake /\ s.st = r.st
         \/ s.wake = now
  PROVE  Held(s, now)
  BY DEF Held

\* The bucket of a connection, refilled now.
LEMMA RefilledLine ==
  ASSUME NEW r, clock \in Nat, Held(r, clock), r.st # "closed", NEW b, b = Refill(r.bucket, CmdFull)
  PROVE  /\ b = [tokens |-> b.tokens, last |-> b.last]
         /\ b.tokens \in 0..CmdFull /\ b.last = clock
         /\ LeftOver(r.begun, b)
         /\ b.tokens = CmdFull \/ UsedUp(r.begun, b)
  <1> DEFINE t == r.begun
             k == r.bucket.tokens
             l == r.bucket.last
  <1>1. k \in 0..CmdFull /\ l \in 0..clock /\ CmdFull \in Nat
    BY CostIs DEF Held
  <1>2. /\ b = [tokens |-> b.tokens, last |-> b.last] /\ b.last = clock
        /\ b.tokens = IF k + (clock - l) > CmdFull THEN CmdFull ELSE k + (clock - l)
    BY DEF Refill
  <1>3. \A i \in DOMAIN t : t[i] \in Nat /\ Cost(Len(t) - i + 1) \in Int
    <2> HIDE DEF t
    <2>1. t \in Seq(Nat)
      BY DEF Held, t
    <2>2. \A i \in DOMAIN t : t[i] \in Nat /\ Len(t) - i + 1 \in Int
      BY <2>1
    <2> QED
      BY <2>2, CostIs
  <1>4. \A i \in DOMAIN t : Cost(Len(t) - i + 1) + k <= CmdFull + (l - t[i])
    BY DEF Held, LeftOver
  <1>5. UsedUp(t, r.bucket)
    BY DEF Held
  <1> HIDE DEF t, k, l
  <1>6. b.tokens \in 0..CmdFull /\ b.tokens <= k + (clock - l)
    BY <1>1, <1>2
  <1>7. ASSUME NEW i \in DOMAIN t
        PROVE  Cost(Len(t) - i + 1) + b.tokens <= CmdFull + (b.last - t[i])
    <2>1. PICK x, y : x = Cost(Len(t) - i + 1) /\ y = t[i]
      OBVIOUS
    <2>2. x \in Int /\ y \in Nat /\ x + k <= CmdFull + (l - y)
      BY <1>3, <1>4, <2>1
    <2>3. x + b.tokens <= CmdFull + (clock - y)
      BY <1>1, <1>6, <2>2
    <2> QED
      BY <1>2, <2>1, <2>3
  <1>8. LeftOver(t, b)
    BY <1>7 DEF LeftOver
  <1>9. ASSUME b.tokens # CmdFull
        PROVE  UsedUp(t, b)
    <2>1. b.tokens = k + (clock - l)
      BY <1>2, <1>9
    <2>2. k # CmdFull
      BY <1>1, <1>9, <2>1, <1>6
    <2>3. PICK i \in DOMAIN t : Cost(Len(t) - i + 1) + k = CmdFull + (l - t[i])
      BY <1>5, <2>2 DEF UsedUp, k, l
    <2>4. PICK x, y : x = Cost(Len(t) - i + 1) /\ y = t[i]
      OBVIOUS
    <2>5. x \in Int /\ y \in Nat /\ x + k = CmdFull + (l - y)
      BY <1>3, <2>3, <2>4
    <2>6. x + b.tokens = CmdFull + (clock - y)
      BY <1>1, <2>1, <2>5
    <2> QED
      BY <1>2, <2>4, <2>6 DEF UsedUp
  <1> QED
    BY <1>2, <1>6, <1>8, <1>9 DEF t

\* A line begins: the bucket has a token for it.
LEMMA LineBegins ==
  ASSUME NEW t \in Seq(Nat), NEW b, clock \in Nat, NEW u, NEW d,
         b.tokens \in CmdPer..CmdFull, b.last = clock, LeftOver(t, b),
         \A i \in DOMAIN t : t[i] <= clock,
         Spaced(t), b.tokens = CmdFull \/ UsedUp(t, b),
         u = Append(t, clock), d.tokens = b.tokens - CmdPer, d.last = clock
  PROVE  /\ u \in Seq(Nat) /\ Spaced(u) /\ LeftOver(u, d) /\ UsedUp(u, d)
         /\ \A i \in DOMAIN u : u[i] <= clock
  <1> DEFINE n == Len(t)
  <1>C. CmdPer \in Nat /\ CmdFull \in Nat /\ CmdFull >= CmdPer
    BY CostIs
  <1>1. /\ n \in Nat /\ Len(u) = n + 1 /\ DOMAIN t = 1..n /\ DOMAIN u = 1..(n + 1)
        /\ \A i \in 1..n : u[i] = t[i] /\ t[i] \in Nat
        /\ u[n + 1] = clock /\ u \in Seq(Nat)
    OBVIOUS
  <1> HIDE DEF n
  <1>2. \A i \in 1..(n + 1) : i \in 1..n \/ i = n + 1
    BY <1>1
  <1>T. PICK q \in Nat : q = b.tokens /\ q >= CmdPer /\ q <= CmdFull
    <2>1. \A z \in CmdPer..CmdFull : z \in Nat /\ z >= CmdPer /\ z <= CmdFull
      BY <1>C
    <2> QED
      BY <2>1
  <1>D. d.tokens = q - CmdPer /\ q - CmdPer \in Nat
    BY <1>T, <1>C
  <1>3. \A i \in 1..n : /\ Cost((n + 1) - i + 1) = Cost(n - i + 1) + CmdPer
                        /\ Cost(n - i + 1) \in Int
    <2> SUFFICES ASSUME NEW i \in 1..n
                 PROVE  /\ Cost((n + 1) - i + 1) = Cost(n - i + 1) + CmdPer
                        /\ Cost(n - i + 1) \in Int
      OBVIOUS
    <2>1. PICK m \in Int : m = n - i + 1 /\ (n + 1) - i + 1 = m + 1
      BY <1>1
    <2>2. Cost(m + 1) = Cost(m) + CmdPer /\ Cost(m) \in Int
      BY CostIs
    <2> QED
      BY <2>1, <2>2
  <1>4. \A i \in 1..n : Cost(n - i + 1) + b.tokens <= CmdFull + (clock - t[i])
    BY <1>1 DEF LeftOver, n
  <1>5. Cost((n + 1) - (n + 1) + 1) = CmdPer
    <2>1. (n + 1) - (n + 1) + 1 = 1
      BY <1>1
    <2> QED
      BY <2>1, CostIs
  <1>6. \A i \in 1..(n + 1) : u[i] <= clock /\ u[i] \in Nat
    BY <1>1, <1>2
  <1>7. \A i \in 1..(n + 1) : Cost((n + 1) - i + 1) + d.tokens <= CmdFull + (clock - u[i])
    <2> SUFFICES ASSUME NEW i \in 1..(n + 1)
                 PROVE  Cost((n + 1) - i + 1) + d.tokens <= CmdFull + (clock - u[i])
      OBVIOUS
    <2>1. CASE i = n + 1
      <3>1. CmdPer + (q - CmdPer) <= CmdFull + (clock - clock)
        BY <1>T, <1>C
      <3> QED
        BY <1>1, <1>5, <1>D, <2>1, <3>1
    <2>2. CASE i \in 1..n
      <3>1. PICK x, y : x = Cost(n - i + 1) /\ y = t[i]
        OBVIOUS
      <3>2. x \in Int /\ y \in Nat /\ x + q <= CmdFull + (clock - y)
        BY <1>1, <1>3, <1>4, <1>T, <2>2, <3>1
      <3>3. (x + CmdPer) + (q - CmdPer) <= CmdFull + (clock - y)
        BY <1>T, <3>2, <1>C
      <3> QED
        BY <1>1, <1>3, <1>D, <2>2, <3>1, <3>3
    <2> QED
      BY <1>2, <2>1, <2>2
  <1>8. LeftOver(u, d)
    BY <1>1, <1>7 DEF LeftOver
  <1>9. UsedUp(u, d)
    <2>1. CASE b.tokens = CmdFull
      <3>1. Cost((n + 1) - (n + 1) + 1) + d.tokens = CmdFull + (clock - u[n + 1])
        <4>1. CmdPer + (q - CmdPer) = CmdFull + (clock - clock)
          BY <1>T, <2>1, <1>C
        <4> QED
          BY <1>1, <1>5, <1>D, <4>1
      <3>2. n + 1 \in 1..(n + 1)
        BY <1>1
      <3> QED
        BY <1>1, <3>1, <3>2 DEF UsedUp
    <2>2. CASE b.tokens # CmdFull
      <3>1. PICK i \in 1..n : Cost(n - i + 1) + b.tokens = CmdFull + (clock - t[i])
        BY <1>1, <2>2 DEF UsedUp, n
      <3>2. Cost((n + 1) - i + 1) + d.tokens = CmdFull + (clock - u[i])
        <4>1. PICK x, y : x = Cost(n - i + 1) /\ y = t[i]
          OBVIOUS
        <4>2. x \in Int /\ y \in Nat /\ x + q = CmdFull + (clock - y)
          BY <1>1, <1>3, <1>T, <3>1, <4>1
        <4>3. (x + CmdPer) + (q - CmdPer) = CmdFull + (clock - y)
          BY <1>T, <4>2, <1>C
        <4> QED
          BY <1>1, <1>3, <1>D, <4>1, <4>3
      <3>3. i \in 1..(n + 1)
        BY <1>1
      <3> QED
        BY <1>1, <3>2, <3>3 DEF UsedUp
    <2> QED
      BY <2>1, <2>2
  <1>10. ASSUME NEW i \in 1..(n + 1), NEW j \in 1..(n + 1), i <= j
         PROVE  Cost(j - i + 1) <= CmdFull + (u[j] - u[i])
    <2>1. CASE j \in 1..n
      <3>1. i \in 1..n
        BY <1>1, <1>10, <2>1
      <3> QED
        BY <1>1, <1>10, <2>1, <3>1 DEF Spaced
    <2>2. CASE j = n + 1
      <3>1. PICK x \in Int : x = Cost((n + 1) - i + 1)
        <4>1. (n + 1) - i + 1 \in Int
          BY <1>1
        <4> QED
          BY <4>1, CostIs
      <3>2. x + d.tokens <= CmdFull + (clock - u[i])
        BY <1>7, <3>1
      <3>3. PICK y \in Nat, e \in Nat : y = u[i] /\ e = d.tokens
        BY <1>6, <1>D
      <3>4. x <= CmdFull + (clock - u[i])
        <4>1. x + e <= CmdFull + (clock - y)
          BY <3>2, <3>3
        <4>2. x <= CmdFull + (clock - y)
          BY <4>1, <1>C
        <4> QED
          BY <3>3, <4>2
      <3> QED
        BY <1>1, <2>2, <3>1, <3>4
    <2> QED
      BY <1>2, <2>1, <2>2
  <1>11. Spaced(u)
    BY <1>1, <1>10 DEF Spaced
  <1> QED
    BY <1>1, <1>6, <1>8, <1>9, <1>11

\* What is kept of a connection that nothing happens to, as time passes.
LEMMA LaterHeld ==
  ASSUME NEW now \in Nat, NEW r, Held(r, now), r.st = "throttled" => r.wake > now
  PROVE  Held(r, now + 1)
  <1>1. r.bucket.last \in 0..(now + 1)
    BY DEF Held
  <1>2. r.st = "throttled" /\ r.wake > now + 1 => r.wake > now
    BY DEF Held
  <1> QED
    BY <1>1, <1>2 DEF Held

\* The throttle, asked for a line, begins it or sleeps.
LEMMA WaitHeld ==
  ASSUME LineInv, NEW c \in Conns, Wait(c)
  PROVE  Held(conn'[c], clock)
  <1>1. PICK r : r = conn[c]
    OBVIOUS
  <1>2. /\ clock \in Nat /\ Held(r, clock) /\ r.st = "throttled"
        /\ r.begun \in Seq(Nat) /\ Spaced(r.begun) /\ Fields(r)
        /\ \A i \in DOMAIN r.begun : r.begun[i] <= clock
    <2>1. /\ clock \in Nat /\ Held(r, clock) /\ r.st = "throttled"
      BY <1>1 DEF LineInv, Wait
    <2>2. /\ r.begun \in Seq(Nat) /\ Spaced(r.begun) /\ Fields(r)
          /\ \A i \in DOMAIN r.begun : r.begun[i] <= r.bucket.last
          /\ r.bucket.last \in 0..clock
      BY <2>1 DEF Held
    <2>3. \A i \in DOMAIN r.begun : r.begun[i] \in Nat
      BY <2>2
    <2>4. \A x, y \in Nat : y \in 0..clock /\ x <= y => x <= clock
      BY <2>1
    <2>5. r.bucket.last \in Nat
      BY <2>2
    <2> QED
      BY <2>1, <2>2, <2>3, <2>4, <2>5
  <1>3. PICK b : b = Refill(r.bucket, CmdFull)
    OBVIOUS
  <1>4. /\ b = [tokens |-> b.tokens, last |-> b.last]
        /\ b.tokens \in 0..CmdFull /\ b.last = clock
        /\ LeftOver(r.begun, b)
        /\ b.tokens = CmdFull \/ UsedUp(r.begun, b)
    BY <1>2, <1>3, RefilledLine
  <1>5. PICK k \in Nat : k = b.tokens /\ k <= CmdFull
    BY <1>4, CostIs
  <1>C. CmdPer \in Nat /\ CmdFull \in Nat /\ CmdFull >= CmdPer /\ CmdPer > 0
    BY CostIs
  <1>6. CASE k >= CmdPer
    <2>1. PICK s : s = [r EXCEPT !.st = "reading", !.bucket = [b EXCEPT !.tokens = @ - CmdPer],
                                 !.begun = Append(@, clock)]
      OBVIOUS
    <2>2. conn'[c] = s
      <3>1. PICK e : e = [b EXCEPT !.tokens = @ - CmdPer]
        OBVIOUS
      <3>2. conn' = [conn EXCEPT ![c] = [conn[c] EXCEPT !.st = "reading", !.bucket = e,
                                                        !.begun = Append(conn[c].begun, clock)]]
        BY <1>1, <1>3, <1>5, <1>6, <3>1 DEF Wait
      <3>3. s = [r EXCEPT !.st = "reading", !.bucket = e, !.begun = Append(r.begun, clock)]
        BY <2>1, <3>1
      <3> QED
        BY <1>1, <3>2, <3>3 DEF LineInv
    <2>3. PICK d : d = [tokens |-> k - CmdPer, last |-> clock]
      OBVIOUS
    <2>4. [b EXCEPT !.tokens = @ - CmdPer] = d
      BY <1>4, <1>5, <2>3
    <2>5. /\ Fields(s) /\ s.st = "reading" /\ s.bucket = d /\ s.wake = r.wake
          /\ s.begun = Append(r.begun, clock)
      BY <1>2, <2>1, <2>4 DEF Fields
    <2>6. d.tokens = b.tokens - CmdPer /\ d.last = clock /\ b.tokens \in CmdPer..CmdFull
      BY <1>5, <1>6, <1>C, <2>3
    <2>7. PICK u : u = Append(r.begun, clock)
      OBVIOUS
    <2>8. /\ u \in Seq(Nat) /\ Spaced(u) /\ LeftOver(u, d) /\ UsedUp(u, d)
          /\ \A i \in DOMAIN u : u[i] <= clock
      BY <1>2, <1>4, <2>6, <2>7, LineBegins
    <2>9. d.tokens \in 0..CmdFull /\ d.last \in 0..clock /\ d = [tokens |-> d.tokens, last |-> d.last]
      BY <1>2, <1>5, <1>6, <1>C, <2>3
    <2>10. r.wake \in Nat
      BY <1>2 DEF Held
    <2> QED
      BY <2>2, <2>5, <2>6, <2>7, <2>8, <2>9, <2>10 DEF Held
  <1>7. CASE ~(k >= CmdPer)
    <2>1. PICK s : s = [r EXCEPT !.bucket = b, !.wake = clock + SleepFor(b)]
      OBVIOUS
    <2>2. conn'[c] = s
      BY <1>1, <1>3, <1>5, <1>7, <2>1 DEF Wait, LineInv
    <2>3. /\ Fields(s) /\ s.st = "throttled" /\ s.bucket = b /\ s.wake = clock + (CmdPer - k)
          /\ s.begun = r.begun
      BY <1>2, <1>5, <2>1 DEF Fields, SleepFor
    <2>4. b.tokens = k /\ k < CmdPer /\ k # CmdFull /\ clock + (CmdPer - k) \in Nat
      BY <1>2, <1>5, <1>7, <1>C
    <2>5. b.last \in 0..clock /\ \A i \in DOMAIN s.begun : s.begun[i] <= b.last
      BY <1>2, <1>4, <2>3
    <2>6. UsedUp(s.begun, b) /\ LeftOver(s.begun, b) /\ s.begun \in Seq(Nat) /\ Spaced(s.begun)
      BY <1>2, <1>4, <2>3, <2>4
    <2> QED
      BY <1>4, <2>2, <2>3, <2>4, <2>5, <2>6 DEF Held
  <1> QED
    BY <1>5, <1>6, <1>7, <1>C

LEMMA LinesBegin == TelnetInit => LineInv
  <1> SUFFICES ASSUME TelnetInit PROVE LineInv
    OBVIOUS
  <1>1. clock = 0 /\ conn = [c \in Conns |-> Closed] /\ clock \in Nat
    BY DEF TelnetInit, Init
  <1>2. Held(Closed, clock)
    BY <1>1, ClosedIsHeld
  <1> QED
    BY <1>1, <1>2 DEF LineInv

\* A step of one connection, when no time passes.
LEMMA OneConnection ==
  ASSUME LineInv, NEW c \in Conns, clock' = clock, NEW s, conn' = [conn EXCEPT ![c] = s],
         Held(s, clock)
  PROVE  LineInv'
  <1>1. clock' \in Nat /\ conn' = [d \in Conns |-> conn'[d]]
    BY DEF LineInv
  <1>2. \A d \in Conns : conn'[d] = IF d = c THEN s ELSE conn[d]
    BY DEF LineInv
  <1>3. \A d \in Conns : Held(conn'[d], clock)
    BY <1>2 DEF LineInv
  <1> QED
    BY <1>1, <1>3 DEF LineInv

\* Time passes when no sleep is over.
LEMMA PassOK == ASSUME LineInv, Pass PROVE LineInv'
  <1>1. /\ clock \in Nat /\ clock' = clock + 1 /\ conn' = conn
        /\ conn = [c \in Conns |-> conn[c]]
    BY DEF LineInv, Pass, Tick
  <1>2. ASSUME NEW c \in Conns
        PROVE  Held(conn[c], clock')
    <2>1. Held(conn[c], clock) /\ (conn[c].st = "throttled" => conn[c].wake > clock)
      BY DEF LineInv, Pass
    <2>2. Held(conn[c], clock + 1)
      BY <1>1, <2>1, LaterHeld
    <2> QED
      BY <1>1, <2>2
  <1> QED
    BY <1>1, <1>2 DEF LineInv

\* A connection begins with a full bucket.
LEMMA AcceptOK ==
  ASSUME LineInv, NEW c \in Conns, NEW k \in Keys, NEW s \in Scripts, Accept(c, k, s)
  PROVE  LineInv'
  <1>1. clock \in Nat /\ clock' = clock
    BY DEF LineInv, Accept, Allow
  <1>2. CASE Admits(k)
    <2>1. PICK r : r = [Closed EXCEPT !.st = "throttled", !.script = s, !.wake = clock,
                                      !.bucket = NewBucket(CmdFull)]
      OBVIOUS
    <2>2. conn' = [conn EXCEPT ![c] = r]
      BY <1>2, <2>1 DEF Accept
    <2>3. /\ Fields(r) /\ r.st = "throttled" /\ r.wake = clock /\ r.begun = <<>>
          /\ r.bucket = [tokens |-> CmdFull, last |-> clock]
      BY <2>1 DEF Closed, Fields, NewBucket
    <2>4. Held(r, clock)
      <3>1. CmdFull \in 0..CmdFull /\ clock \in 0..clock
        BY <1>1, CostIs
      <3>2. Spaced(r.begun) /\ LeftOver(r.begun, r.bucket) /\ UsedUp(r.begun, r.bucket)
        BY <2>3 DEF Spaced, LeftOver, UsedUp
      <3>3. \A i \in DOMAIN r.begun : r.begun[i] <= r.bucket.last
        BY <2>3
      <3>4. r.begun \in Seq(Nat)
        BY <2>3
      <3>5. ~(r.wake > clock)
        BY <1>1, <2>3
      <3> QED
        BY <1>1, <2>3, <3>1, <3>2, <3>3, <3>4, <3>5 DEF Held
    <2> QED
      BY <1>1, <2>2, <2>4, OneConnection
  <1>3. CASE ~Admits(k)
    <2>1. conn' = conn
      BY <1>3 DEF Accept
    <2> QED
      BY <1>1, <2>1 DEF LineInv
  <1> QED
    BY <1>2, <1>3

\* What is received and consumed.
LEMMA ReceiveOK == ASSUME LineInv, NEW c \in Conns, Receive(c) PROVE LineInv'
  <1>1. PICK r : r = conn[c]
    OBVIOUS
  <1>2. PICK n : conn' = [conn EXCEPT ![c].received = n]
    BY DEF Receive
  <1>3. clock \in Nat /\ clock' = clock /\ Held(r, clock) /\ r.st = "reading"
    BY <1>1 DEF LineInv, Receive, vars
  <1>4. PICK s : s = [r EXCEPT !.received = n]
    OBVIOUS
  <1>5. conn' = [conn EXCEPT ![c] = s]
    BY <1>1, <1>2, <1>4
  <1>6. Fields(s) /\ s.begun = r.begun /\ s.bucket = r.bucket /\ s.wake = r.wake /\ s.st = r.st
    BY <1>3, <1>4 DEF Held, Fields
  <1>7. Held(s, clock)
    BY <1>3, <1>6, TypingHeld
  <1> QED
    BY <1>3, <1>5, <1>7, OneConnection

LEMMA ConsumeOK == ASSUME LineInv, NEW c \in Conns, Consume(c) PROVE LineInv'
  <1>1. PICK r : r = conn[c]
    OBVIOUS
  <1>2. clock \in Nat /\ clock' = clock /\ Held(r, clock) /\ r.st = "reading"
    BY <1>1 DEF LineInv, Consume, vars
  <1>3. PICK b : b = Head(Buffered(c))
    OBVIOUS
  <1>4. PICK next : next = [r EXCEPT !.consumed = @ + 1, !.filter = Filter(r.filter, b)]
    OBVIOUS
  <1>5. /\ Fields(next) /\ next.begun = r.begun /\ next.bucket = r.bucket /\ next.wake = r.wake
        /\ next.st = r.st
    BY <1>2, <1>4 DEF Held, Fields
  <1>6. PICK s : /\ conn' = [conn EXCEPT ![c] = s]
                 /\ Fields(s) /\ s.begun = r.begun /\ s.bucket = r.bucket
                 /\ \/ s.wake = r.wake /\ s.st = r.st
                    \/ s.wake = clock
    <2>1. CASE conn' = [conn EXCEPT ![c] = next]
      BY <1>5, <2>1
    <2>2. CASE conn' = [conn EXCEPT ![c] = [next EXCEPT !.line = Edited(@, b)]]
      <3>1. PICK s : s = [next EXCEPT !.line = Edited(@, b)]
        OBVIOUS
      <3>2. /\ Fields(s) /\ s.begun = next.begun /\ s.bucket = next.bucket
            /\ s.wake = next.wake /\ s.st = next.st
        BY <1>5, <3>1 DEF Fields
      <3> QED
        BY <1>5, <2>2, <3>1, <3>2
    <2>3. CASE \E n : conn' = [conn EXCEPT ![c] = [next EXCEPT !.consumed = @ + n, !.line = <<>>,
                                                             !.said = Append(r.said, r.line),
                                                             !.st = "throttled", !.wake = clock]]
      <3>1. PICK n : conn' = [conn EXCEPT ![c] = [next EXCEPT !.consumed = @ + n, !.line = <<>>,
                                                              !.said = Append(r.said, r.line),
                                                              !.st = "throttled", !.wake = clock]]
        BY <2>3
      <3>2. PICK s : s = [next EXCEPT !.consumed = @ + n, !.line = <<>>,
                                      !.said = Append(r.said, r.line),
                                      !.st = "throttled", !.wake = clock]
        OBVIOUS
      <3>3. Fields(s) /\ s.begun = next.begun /\ s.bucket = next.bucket /\ s.wake = clock
        BY <1>5, <3>2 DEF Fields
      <3>4. conn' = [conn EXCEPT ![c] = s]
        BY <3>1, <3>2
      <3> QED
        BY <1>5, <3>3, <3>4
    <2>4. \/ conn' = [conn EXCEPT ![c] = next]
          \/ conn' = [conn EXCEPT ![c] = [next EXCEPT !.line = Edited(@, b)]]
          \/ \E n : conn' = [conn EXCEPT ![c] = [next EXCEPT !.consumed = @ + n, !.line = <<>>,
                                                           !.said = Append(r.said, r.line),
                                                           !.st = "throttled", !.wake = clock]]
      BY <1>1, <1>3, <1>4 DEF Consume
    <2> QED
      BY <2>1, <2>2, <2>3, <2>4
  <1>7. Held(s, clock)
    BY <1>2, <1>6, TypingHeld
  <1> QED
    BY <1>2, <1>6, <1>7, OneConnection

\* Every step keeps the books of every connection.
LEMMA LinesOK == LineInv /\ [TelnetNext]_telnetVars => LineInv'
  <1> SUFFICES ASSUME LineInv, [TelnetNext]_telnetVars PROVE LineInv'
    OBVIOUS
  <1>1. ASSUME NEW c \in Conns, Wait(c)
        PROVE  LineInv'
    <2>1. Held(conn'[c], clock) /\ clock' = clock
      BY <1>1, WaitHeld DEF Wait, vars
    <2>2. PICK s : conn' = [conn EXCEPT ![c] = s]
      BY <1>1 DEF Wait
    <2>3. conn'[c] = s
      BY <2>2 DEF LineInv
    <2> QED
      BY <2>1, <2>2, <2>3, OneConnection
  <1>2. ASSUME NEW c \in Conns, Drop(c)
        PROVE  LineInv'
    <2>1. conn' = [conn EXCEPT ![c] = Closed] /\ clock' = clock /\ clock \in Nat
      BY <1>2 DEF Drop, vars, LineInv
    <2>2. Held(Closed, clock)
      BY <2>1, ClosedIsHeld
    <2> QED
      BY <2>1, <2>2, OneConnection
  <1>3. CASE UNCHANGED telnetVars
    <2>1. conn' = conn /\ clock' = clock
      BY <1>3 DEF telnetVars, vars
    <2> QED
      BY <2>1 DEF LineInv
  <1> QED
    BY <1>1, <1>2, <1>3, PassOK, AcceptOK, ReceiveOK, ConsumeOK DEF TelnetNext

\* What the books say of one more line, at a time not before the last use.
LEMMA OneMoreLine ==
  ASSUME NEW r, NEW now \in Nat, Held(r, now), r.st = "throttled", r.wake > now
  PROVE  /\ ~A!Within(r.begun, r.wake - 1, CmdPer, CmdBurst)
         /\ A!Within(r.begun, r.wake, CmdPer, CmdBurst)
  <1> DEFINE t == r.begun
             w == r.wake
  <1>1. PICK k \in Nat, l \in Nat : k = r.bucket.tokens /\ l = r.bucket.last
    <2>1. r.bucket.tokens \in 0..CmdFull /\ r.bucket.last \in 0..now /\ CmdFull \in Nat
      BY CostIs DEF Held
    <2> QED
      BY <2>1
  <1>2. k < CmdPer /\ w = l + (CmdPer - k)
    BY <1>1 DEF Held
  <1>3. /\ CmdPer \in Nat /\ CmdFull \in Nat /\ CmdFull >= CmdPer
    BY CostIs
  <1>4. t \in Seq(Nat)
    BY DEF Held
  <1>5. \A i \in DOMAIN t : Cost(Len(t) - i + 1) + k <= CmdFull + (l - t[i])
    BY <1>1 DEF Held, LeftOver
  <1>6. UsedUp(t, r.bucket)
    BY DEF Held
  <1>7. PICK j \in DOMAIN t : Cost(Len(t) - j + 1) + k = CmdFull + (l - t[j])
    <2>1. k # CmdFull
      BY <1>1, <1>2, <1>3
    <2> QED
      BY <1>1, <1>6, <2>1 DEF UsedUp
  <1> HIDE DEF t, w
  <1>8. \A i \in DOMAIN t : /\ t[i] \in Nat /\ Cost(Len(t) - i + 1) \in Int
                            /\ (Len(t) - i + 2) * CmdPer = Cost(Len(t) - i + 1) + CmdPer
    <2> SUFFICES ASSUME NEW i \in DOMAIN t
                 PROVE  /\ t[i] \in Nat /\ Cost(Len(t) - i + 1) \in Int
                        /\ (Len(t) - i + 2) * CmdPer = Cost(Len(t) - i + 1) + CmdPer
      OBVIOUS
    <2>1. PICK m \in Int : m = Len(t) - i + 1 /\ m + 1 = Len(t) - i + 2
      BY <1>4
    <2>2. Cost(m + 1) = Cost(m) + CmdPer /\ Cost(m) \in Int
      BY CostIs
    <2> QED
      BY <1>4, <2>1, <2>2 DEF Cost
  <1>9. ASSUME NEW i \in DOMAIN t
        PROVE  (Len(t) - i + 2) * CmdPer <= CmdFull + (w - t[i])
    <2>1. PICK x, y : x = Cost(Len(t) - i + 1) /\ y = t[i]
      OBVIOUS
    <2>2. x \in Int /\ y \in Nat /\ x + k <= CmdFull + (l - y)
      BY <1>5, <1>8, <2>1
    <2>3. x + CmdPer <= CmdFull + (w - y)
      BY <1>2, <1>3, <2>2
    <2> QED
      BY <1>8, <2>1, <2>3
  <1>10. ~((Len(t) - j + 2) * CmdPer <= CmdFull + ((w - 1) - t[j]))
    <2>1. PICK x, y : x = Cost(Len(t) - j + 1) /\ y = t[j]
      OBVIOUS
    <2>2. x \in Int /\ y \in Nat /\ x + k = CmdFull + (l - y)
      BY <1>7, <1>8, <2>1
    <2>3. ~(x + CmdPer <= CmdFull + ((w - 1) - y))
      BY <1>2, <1>3, <2>2
    <2> QED
      BY <1>8, <2>1, <2>3
  <1> QED
    BY <1>9, <1>10 DEF A!Within, CmdFull, t, w

\* telnetserver.go, the throttle of handle: however the lines of a connection are
\* typed, and whatever the other connections do, it hands on no more of them than
\* the rate allows, and makes nobody wait for longer than that takes.
THEOREM LinesAreHeldToTheRate == TelnetSpec => []HeldToTheRate
  <1>1. LineInv => HeldToTheRate
    <2> SUFFICES ASSUME LineInv, NEW c \in Conns
                 PROVE  LET t == conn[c].begun IN
                        /\ \A i, j \in DOMAIN t : i <= j => (j - i + 1) * CmdPer <= CmdFull + (t[j] - t[i])
                        /\ conn[c].st = "throttled" /\ conn[c].wake > clock =>
                              /\ ~A!Within(t, conn[c].wake - 1, CmdPer, CmdBurst)
                              /\ A!Within(t, conn[c].wake, CmdPer, CmdBurst)
      BY DEF HeldToTheRate
    <2>1. clock \in Nat /\ Held(conn[c], clock)
      BY DEF LineInv
    <2>2. Spaced(conn[c].begun)
      BY <2>1 DEF Held
    <2> QED
      BY <2>1, <2>2, OneMoreLine DEF Spaced, Cost
  <1> QED
    BY <1>1, LinesBegin, LinesOK, PTL DEF TelnetSpec

----------------------------------------------------------------------------
(* The line discipline *)

\* Numbers have a least one: induction, in a form the provers can use.
LEMMA LeastNumber == ASSUME NEW S \in SUBSET Nat, S # {} PROVE \E x \in S : \A y \in S : x <= y
  <1> DEFINE R == OpToRel(<, Nat)
  <1>1. IsWellFoundedOn(R, Nat)
    BY NatLessThanWellFounded
  <1>2. \A x, y \in Nat : x < y => <<x, y>> \in R
    BY DEF OpToRel
  <1> HIDE DEF R
  <1>3. PICK x \in S : \A y \in S : ~(<<y, x>> \in R)
    BY <1>1, WFMin
  <1>4. \A y \in S : x \in Nat /\ y \in Nat /\ ~(y < x)
    BY <1>2, <1>3
  <1>5. \A y \in S : x <= y
    BY <1>4
  <1> QED
    BY <1>5

\* A set that has 0 and what follows each of its numbers has them all.
LEMMA AllNumbers ==
  ASSUME NEW N \in Nat, NEW S, 0 \in S, \A n \in 0..N : n < N /\ n \in S => n + 1 \in S
  PROVE  \A n \in 0..N : n \in S
  <1> SUFFICES ASSUME NEW e \in 0..N, e \notin S PROVE FALSE
    OBVIOUS
  <1> DEFINE Out == {n \in 0..N : n \notin S}
  <1>1. PICK m \in Out : \A y \in Out : m <= y
    <2>1. Out \in SUBSET Nat /\ Out # {}
      OBVIOUS
    <2> HIDE DEF Out
    <2> QED
      BY <2>1, LeastNumber
  <1>2. m \in 0..N /\ m \notin S /\ m # 0
    OBVIOUS
  <1>3. m - 1 \in 0..N /\ m - 1 < N /\ (m - 1) + 1 = m /\ ~(m <= m - 1)
    BY <1>2
  <1>4. m - 1 \in S
    BY <1>1, <1>3
  <1> QED
    BY <1>2, <1>3, <1>4

\* f goes on from b by the steps, k times.
Runs(f, V, b, step, k) ==
    /\ f \in [0..k -> V] /\ f[0] = b
    /\ \A n \in 1..k : f[n] = step[n][f[n - 1]]

\* If every step stays in V, there is one step more, and any number of them.
LEMMA RunsFurther ==
  ASSUME NEW V, NEW b, NEW step, NEW k \in Nat, NEW f, Runs(f, V, b, step, k),
         \A v \in V : step[k + 1][v] \in V
  PROVE  \E g : Runs(g, V, b, step, k + 1)
  <1> DEFINE g == [n \in 0..(k + 1) |-> IF n <= k THEN f[n] ELSE step[k + 1][f[k]]]
  <1>1. \A n \in 0..k : f[n] \in V
    BY DEF Runs
  <1>2. \A n \in 0..(k + 1) : n \in 0..k \/ n = k + 1
    OBVIOUS
  <1>3. k \in 0..k /\ k + 1 \in 0..(k + 1) /\ ~(k + 1 <= k) /\ 0 \in 0..k /\ (k + 1) - 1 = k
    OBVIOUS
  <1>4. \A n \in 0..k : n \in 0..(k + 1) /\ n <= k
    OBVIOUS
  <1>5. (\A n \in 0..k : g[n] = f[n]) /\ g[k + 1] = step[k + 1][f[k]]
    BY <1>3, <1>4
  <1>6. g \in [0..(k + 1) -> V]
    <2>1. \A n \in 0..(k + 1) : g[n] \in V
      BY <1>1, <1>2, <1>3, <1>5
    <2> QED
      BY <2>1
  <1> HIDE DEF g
  <1>7. \A n \in 1..(k + 1) : n = k + 1 \/ (n \in 1..k /\ n \in 0..k /\ n - 1 \in 0..k)
    OBVIOUS
  <1>8. \A n \in 1..(k + 1) : g[n] = step[n][g[n - 1]]
    BY <1>3, <1>5, <1>7 DEF Runs
  <1>9. g[0] = b
    BY <1>3, <1>5 DEF Runs
  <1> QED
    BY <1>6, <1>8, <1>9 DEF Runs

LEMMA RunExists ==
  ASSUME NEW V, NEW b \in V, NEW N \in Nat, NEW step, \A n \in 1..N : \A v \in V : step[n][v] \in V
  PROVE  \E f : Runs(f, V, b, step, N)
  <1> DEFINE S == {k \in 0..N : \E f : Runs(f, V, b, step, k)}
  <1>1. 0 \in S
    <2> DEFINE f == [n \in 0..0 |-> b]
    <2>1. f \in [0..0 -> V] /\ f[0] = b
      OBVIOUS
    <2>2. \A n \in 1..0 : FALSE
      OBVIOUS
    <2> HIDE DEF f
    <2>3. Runs(f, V, b, step, 0)
      BY <2>1, <2>2 DEF Runs
    <2> QED
      BY <2>3
  <1>2. ASSUME NEW k \in 0..N, k < N, k \in S
        PROVE  k + 1 \in S
    <2>1. PICK f : Runs(f, V, b, step, k)
      BY <1>2
    <2>2. k \in Nat /\ k + 1 \in 1..N /\ k + 1 \in 0..N
      BY <1>2
    <2>3. \A v \in V : step[k + 1][v] \in V
      BY <2>2
    <2>4. \E g : Runs(g, V, b, step, k + 1)
      BY <2>1, <2>2, <2>3, RunsFurther
    <2> QED
      BY <2>2, <2>4
  <1>3. \A n \in 0..N : n \in S
    <2> HIDE DEF S
    <2> QED
      BY <1>1, <1>2, AllNumbers
  <1>4. N \in S
    BY <1>3
  <1> QED
    BY <1>4

\* A script and the bytes of its keys.
LEMMA ScriptIs ==
  ASSUME NEW s \in Scripts
  PROVE  /\ Len(s) \in Nat
         /\ \A n \in 1..Len(s) : s[n] \in DOMAIN Bytes
         /\ \A x \in DOMAIN Bytes : Bytes[x] \in Seq(STRING)
  <1>1. s \in Seq(DOMAIN Bytes) /\ \A x \in DOMAIN Bytes : Bytes[x] \in Seq(STRING)
    BY BytesAssumption
  <1> QED
    BY <1>1

\* What is sent for a script, key by key.
LEMMA SentIs ==
  ASSUME NEW s \in Scripts
  PROVE  /\ \A n \in 0..Len(s) : SentFor(s)[n] \in Seq(STRING)
         /\ SentFor(s)[0] = <<>>
         /\ \A n \in 1..Len(s) : SentFor(s)[n] = SentFor(s)[n - 1] \o Bytes[s[n]]
  <1>1. PICK N \in Nat : N = Len(s)
    BY ScriptIs
  <1> DEFINE V == Seq(STRING)
             step == [n \in 1..N |-> [v \in V |-> v \o Bytes[s[n]]]]
  <1>2. \A n \in 1..N : Bytes[s[n]] \in V
    BY <1>1, ScriptIs
  <1>3. \A n \in 1..N : \A v \in V : step[n][v] = v \o Bytes[s[n]] /\ step[n][v] \in V
    BY <1>2
  <1>4. <<>> \in V
    OBVIOUS
  <1> DEFINE W == SentFor(s)
             D(g) == [n \in 0..N |-> IF n = 0 THEN <<>> ELSE g[n - 1] \o Bytes[s[n]]]
  <1>5. PICK f : Runs(f, V, <<>>, step, N)
    <2> HIDE DEF V, step
    <2> QED
      BY <1>3, <1>4, RunExists
  <1>6. \A n \in 0..N : n = 0 \/ (n # 0 /\ n \in 1..N /\ n - 1 \in 0..N)
    OBVIOUS
  <1>7. f = D(f)
    <2>1. f \in [0..N -> V] /\ f[0] = <<>> /\ \A n \in 1..N : f[n] = step[n][f[n - 1]]
      BY <1>5 DEF Runs
    <2> HIDE DEF V, step
    <2>2. \A n \in 0..N : f[n] = IF n = 0 THEN <<>> ELSE f[n - 1] \o Bytes[s[n]]
      BY <1>3, <1>6, <2>1
    <2> QED
      BY <2>1, <2>2
  <1>8. W = D(W)
    <2>1. W = CHOOSE g : g = D(g)
      BY <1>1 DEF SentFor
    <2> HIDE DEF D, W
    <2> QED
      BY <1>7, <2>1
  <1> HIDE DEF W
  <1>9. \A n \in 0..N : W[n] = IF n = 0 THEN <<>> ELSE W[n - 1] \o Bytes[s[n]]
    BY <1>8
  <1>10. 0 \in 0..N /\ \A n \in 1..N : n \in 0..N /\ n # 0
    OBVIOUS
  <1>11. W[0] = <<>> /\ \A n \in 1..N : W[n] = W[n - 1] \o Bytes[s[n]]
    <2> HIDE DEF D
    <2> QED
      BY <1>9, <1>10
  <1>12. \A n \in 0..N : W[n] \in V
    <2> DEFINE S == {n \in 0..N : W[n] \in V}
    <2>1. 0 \in S
      BY <1>4, <1>10, <1>11
    <2>2. ASSUME NEW n \in 0..N, n < N, n \in S
          PROVE  n + 1 \in S
      <3>1. n + 1 \in 1..N /\ n + 1 \in 0..N /\ (n + 1) - 1 = n
        BY <2>2
      <3>2. W[n + 1] = W[n] \o Bytes[s[n + 1]]
        BY <1>11, <3>1
      <3>3. W[n] \in V /\ Bytes[s[n + 1]] \in V
        BY <1>2, <2>2, <3>1
      <3>4. \A v, b \in V : v \o b \in V
        OBVIOUS
      <3>5. W[n + 1] \in V
        <4> HIDE DEF V
        <4> QED
          BY <3>2, <3>3, <3>4
      <3> QED
        BY <3>1, <3>5
    <2> HIDE DEF S
    <2>3. \A n \in 0..N : n \in S
      BY <2>1, <2>2, AllNumbers
    <2> QED
      BY <2>3 DEF S
  <1> QED
    BY <1>1, <1>11, <1>12 DEF W

\* Where the bytes of a key are in what is sent.
LEMMA BytesFollow ==
  ASSUME NEW s \in Scripts, NEW k \in 0..Len(s), NEW n \in 0..Len(s), n < k
  PROVE  /\ Len(SentFor(s)[n]) \in Nat
         /\ Len(SentFor(s)[n + 1]) = Len(SentFor(s)[n]) + Len(Bytes[s[n + 1]])
         /\ Len(SentFor(s)[n + 1]) <= Len(SentFor(s)[k])
         /\ \A i \in 1..Len(Bytes[s[n + 1]]) :
               SentFor(s)[k][Len(SentFor(s)[n]) + i] = Bytes[s[n + 1]][i]
  <1>1. PICK N \in Nat : N = Len(s)
    BY ScriptIs
  <1>2. PICK W : W = SentFor(s)
    OBVIOUS
  <1>3. /\ \A m \in 0..N : W[m] \in Seq(STRING)
        /\ \A m \in 1..N : W[m] = W[m - 1] \o Bytes[s[m]]
    BY <1>1, <1>2, SentIs
  <1>4. \A m \in 1..N : Bytes[s[m]] \in Seq(STRING)
    BY <1>1, ScriptIs
  <1>5. PICK w, b : w = W[n] /\ b = Bytes[s[n + 1]]
    OBVIOUS
  <1>6. n + 1 \in 1..N /\ n + 1 \in 0..N /\ n \in 0..N /\ (n + 1) - 1 = n
    BY <1>1
  <1>7. w \in Seq(STRING) /\ b \in Seq(STRING) /\ W[n + 1] = w \o b
    BY <1>3, <1>4, <1>5, <1>6
  <1> DEFINE S == {m \in 0..N : n < m => /\ Len(w \o b) <= Len(W[m])
                                        /\ \A i \in 1..Len(b) : W[m][Len(w) + i] = b[i]}
  <1>8. 0 \in S
    OBVIOUS
  <1>9. ASSUME NEW m \in 0..N, m < N, m \in S
        PROVE  m + 1 \in S
    <2>1. m + 1 \in 1..N /\ m + 1 \in 0..N /\ (m + 1) - 1 = m
      BY <1>9
    <2>2. PICK u, v : u = W[m] /\ v = Bytes[s[m + 1]]
      OBVIOUS
    <2>3. u \in Seq(STRING) /\ v \in Seq(STRING) /\ W[m + 1] = u \o v
      BY <1>3, <1>4, <2>1, <2>2
    <2>4. CASE n < m
      <3>1. Len(w \o b) <= Len(u) /\ \A i \in 1..Len(b) : u[Len(w) + i] = b[i]
        BY <1>9, <2>2, <2>4
      <3>2. Len(w \o b) = Len(w) + Len(b) /\ Len(u \o v) = Len(u) + Len(v)
        BY <1>7, <2>3
      <3>3. \A i \in 1..Len(b) : Len(w) + i \in 1..Len(u)
        BY <1>7, <2>3, <3>1, <3>2
      <3>4. \A i \in 1..Len(u) : (u \o v)[i] = u[i]
        BY <2>3
      <3>5. \A i \in 1..Len(b) : (u \o v)[Len(w) + i] = b[i]
        BY <3>1, <3>3, <3>4
      <3>6. Len(w \o b) <= Len(u \o v)
        BY <1>7, <2>3, <3>1, <3>2
      <3> QED
        BY <2>1, <2>3, <3>5, <3>6
    <2>5. CASE ~(n < m)
      <3>1. n < m + 1 => m = n
        BY <1>6, <2>5
      <3>2. \A i \in 1..Len(b) : (w \o b)[Len(w) + i] = b[i]
        BY <1>7
      <3>3. Len(w \o b) <= Len(w \o b)
        BY <1>7
      <3> QED
        BY <1>7, <2>1, <3>1, <3>2, <3>3
    <2> QED
      BY <2>4, <2>5
  <1>10. \A m \in 0..N : m \in S
    <2> HIDE DEF S
    <2> QED
      BY <1>8, <1>9, AllNumbers
  <1>11. Len(w \o b) <= Len(W[k]) /\ \A i \in 1..Len(b) : W[k][Len(w) + i] = b[i]
    <2>1. k \in S
      BY <1>1, <1>10
    <2> QED
      BY <2>1
  <1>12. Len(w \o b) = Len(w) + Len(b) /\ Len(w) \in Nat
    BY <1>7
  <1> QED
    BY <1>2, <1>5, <1>7, <1>11, <1>12

Lines == Seq(Seq(STRING))
Typed == [lines : Lines, line : Seq(STRING)]

\* A character is sent as it is.
LEMMA CharIsByte == ASSUME NEW x \in DOMAIN Bytes, x \in Chars PROVE Bytes[x] = <<x>> /\ x \in STRING
  <1>1. Bytes[x] \in Seq(STRING)
    BY BytesAssumption
  <1>2. Bytes[x] = <<x>>
    BY BytesAssumption
  <1> QED
    BY <1>1, <1>2

\* One more line, and a line edited.
LEMMA LineTyped ==
  /\ \A lines \in Lines, l \in Seq(STRING) : AndLine(lines, l) \in Lines
  /\ \A l \in Seq(STRING) : l # <<>> => Front(l) \in Seq(STRING)
  /\ \A l \in Seq(STRING), x \in STRING : Append(l, x) \in Seq(STRING)
  <1>1. \A lines \in Lines, l \in Seq(STRING) : AndLine(lines, l) \in Lines
    <2>1. ASSUME NEW S, NEW q \in Seq(S), NEW e \in S PROVE Append(q, e) \in Seq(S)
      OBVIOUS
    <2> QED
      BY <2>1 DEF AndLine, Lines
  <1>2. \A l \in Seq(STRING) : l # <<>> => Front(l) \in Seq(STRING)
    BY DEF Front
  <1>3. \A l \in Seq(STRING), x \in STRING : Append(l, x) \in Seq(STRING)
    <2>1. ASSUME NEW S, NEW q \in Seq(S), NEW e \in S PROVE Append(q, e) \in Seq(S)
      OBVIOUS
    <2> QED
      BY <2>1, Zenon
  <1> QED
    BY <1>1, <1>2, <1>3, Zenon

\* What a key does to what has been typed.
LEMMA PressIs ==
  ASSUME NEW t \in Typed, NEW x \in DOMAIN Bytes
  PROVE  /\ Press(t, x) \in Typed
         /\ x \in DOMAIN Enter => Press(t, x).lines = AndLine(t.lines, t.line) /\ Press(t, x).line = <<>>
         /\ x \notin DOMAIN Enter => Press(t, x).lines = t.lines
         /\ x = "rub" => Press(t, x).line = IF t.line = <<>> THEN <<>> ELSE Front(t.line)
         /\ x \in Chars => Press(t, x).line = Append(t.line, x)
         /\ x \notin DOMAIN Enter \cup Chars \cup {"rub"} => Press(t, x) = t
  <1>0. /\ "rub" \notin Chars /\ \A y \in DOMAIN Enter : y \notin Chars
        /\ "rub" \notin DOMAIN Enter
    <2>1. "rub" \notin DOMAIN Enter
      BY DEF Enter
    <2> QED
      BY <2>1, BytesAssumption
  <1>1. PICK lines \in Lines, line \in Seq(STRING) : t = [lines |-> lines, line |-> line]
    BY DEF Typed
  <1>2. t.lines = lines /\ t.line = line
    BY <1>1
  <1>3. CASE x \in DOMAIN Enter
    <2>1. Press(t, x) = [lines |-> AndLine(lines, line), line |-> <<>>]
      BY <1>0, <1>2, <1>3 DEF Press
    <2>2. AndLine(lines, line) \in Lines /\ <<>> \in Seq(STRING)
      BY LineTyped
    <2> HIDE DEF Lines
    <2> QED
      BY <1>0, <1>2, <1>3, <2>1, <2>2 DEF Typed
  <1>4. CASE x \in Chars
    <2>1. x \notin DOMAIN Enter /\ x # "rub"
      BY <1>0, <1>4
    <2>2. Press(t, x) = [lines |-> lines, line |-> Append(line, x)]
      BY <1>1, <1>4, <2>1 DEF Press
    <2>3. Append(line, x) \in Seq(STRING)
      BY <1>4, CharIsByte, LineTyped
    <2> QED
      BY <1>2, <1>4, <2>1, <2>2, <2>3 DEF Typed
  <1>5. CASE x = "rub"
    <2>1. CASE line # <<>>
      <3>1. Press(t, x) = [lines |-> lines, line |-> Front(line)]
        BY <1>0, <1>1, <1>5, <2>1 DEF Press
      <3>2. Front(line) \in Seq(STRING)
        BY <2>1, LineTyped
      <3> QED
        BY <1>0, <1>2, <1>5, <2>1, <3>1, <3>2 DEF Typed
    <2>2. CASE line = <<>>
      <3>1. Press(t, x) = t
        BY <1>0, <1>1, <1>5, <2>2 DEF Press
      <3> QED
        BY <1>0, <1>2, <1>5, <2>2, <3>1
    <2> QED
      BY <2>1, <2>2
  <1>6. CASE x \notin DOMAIN Enter \cup Chars \cup {"rub"}
    <2>1. Press(t, x) = t
      BY <1>6 DEF Press
    <2> QED
      BY <1>6, <2>1
  <1> QED
    BY <1>3, <1>4, <1>5, <1>6

\* What is meant by a script, key by key.
LEMMA MeantIs ==
  ASSUME NEW s \in Scripts
  PROVE  /\ \A n \in 0..Len(s) : MeantBy(s)[n] \in Typed
         /\ MeantBy(s)[0] = [lines |-> <<>>, line |-> <<>>]
         /\ \A n \in 1..Len(s) : MeantBy(s)[n] = Press(MeantBy(s)[n - 1], s[n])
  <1>1. PICK N \in Nat : N = Len(s)
    BY ScriptIs
  <1> DEFINE b == [lines |-> <<>>, line |-> <<>>]
             step == [n \in 1..N |-> [v \in Typed |-> Press(v, s[n])]]
  <1>2. \A n \in 1..N : s[n] \in DOMAIN Bytes
    BY <1>1, ScriptIs
  <1>3. \A n \in 1..N : \A v \in Typed : step[n][v] = Press(v, s[n]) /\ step[n][v] \in Typed
    BY <1>2, PressIs
  <1>4. b \in Typed
    BY DEF Typed, Lines
  <1> DEFINE W == MeantBy(s)
             D(g) == [n \in 0..N |-> IF n = 0 THEN b ELSE Press(g[n - 1], s[n])]
  <1>5. PICK f : Runs(f, Typed, b, step, N)
    <2> HIDE DEF b, step
    <2> QED
      BY <1>3, <1>4, RunExists
  <1>6. \A n \in 0..N : n = 0 \/ (n # 0 /\ n \in 1..N /\ n - 1 \in 0..N)
    OBVIOUS
  <1>7. f = D(f)
    <2>1. f \in [0..N -> Typed] /\ f[0] = b /\ \A n \in 1..N : f[n] = step[n][f[n - 1]]
      BY <1>5 DEF Runs
    <2> HIDE DEF b, step
    <2>2. \A n \in 0..N : f[n] = IF n = 0 THEN b ELSE Press(f[n - 1], s[n])
      BY <1>3, <1>6, <2>1
    <2> QED
      BY <2>1, <2>2
  <1>8. W = D(W)
    <2>1. W = CHOOSE g : g = D(g)
      BY <1>1 DEF MeantBy
    <2> HIDE DEF D, W
    <2> QED
      BY <1>7, <2>1
  <1> HIDE DEF W
  <1>9. \A n \in 0..N : W[n] = IF n = 0 THEN b ELSE Press(W[n - 1], s[n])
    BY <1>8
  <1>10. 0 \in 0..N /\ \A n \in 1..N : n \in 0..N /\ n # 0
    OBVIOUS
  <1>11. W[0] = b /\ \A n \in 1..N : W[n] = Press(W[n - 1], s[n])
    <2> HIDE DEF D, b
    <2> QED
      BY <1>9, <1>10
  <1>12. \A n \in 0..N : W[n] \in Typed
    <2> DEFINE S == {n \in 0..N : W[n] \in Typed}
    <2>1. 0 \in S
      BY <1>4, <1>10, <1>11
    <2>2. ASSUME NEW n \in 0..N, n < N, n \in S
          PROVE  n + 1 \in S
      <3>1. n + 1 \in 1..N /\ n + 1 \in 0..N /\ (n + 1) - 1 = n
        BY <2>2
      <3>2. W[n + 1] = Press(W[n], s[n + 1])
        BY <1>11, <3>1
      <3>3. W[n] \in Typed
        BY <2>2
      <3> QED
        BY <1>2, <3>1, <3>2, <3>3, PressIs
    <2> HIDE DEF S
    <2>3. \A n \in 0..N : n \in S
      BY <2>1, <2>2, AllNumbers
    <2> QED
      BY <2>3 DEF S
  <1> QED
    BY <1>1, <1>11, <1>12 DEF W

FilledBy(lines) ==
    LET filled[n \in 0..Len(lines)] == IF n = 0 THEN <<>> ELSE AndLine(filled[n - 1], lines[n])
    IN filled

\* The lines that are not blank, line by line.
LEMMA FilledByIs ==
  ASSUME NEW l \in Lines
  PROVE  /\ Filled(l) = FilledBy(l)[Len(l)]
         /\ FilledBy(l)[0] = <<>>
         /\ \A n \in 1..Len(l) : FilledBy(l)[n] = AndLine(FilledBy(l)[n - 1], l[n])
  <1>1. PICK N \in Nat : N = Len(l)
    BY DEF Lines
  <1> DEFINE step == [n \in 1..N |-> [v \in Lines |-> AndLine(v, l[n])]]
  <1>2. \A n \in 1..N : l[n] \in Seq(STRING)
    BY <1>1 DEF Lines
  <1>3. \A n \in 1..N : \A v \in Lines : step[n][v] = AndLine(v, l[n]) /\ step[n][v] \in Lines
    BY <1>2, LineTyped
  <1>4. <<>> \in Lines
    BY DEF Lines
  <1> DEFINE W == FilledBy(l)
             D(g) == [n \in 0..N |-> IF n = 0 THEN <<>> ELSE AndLine(g[n - 1], l[n])]
  <1>5. PICK f : Runs(f, Lines, <<>>, step, N)
    <2> HIDE DEF step
    <2> QED
      BY <1>3, <1>4, RunExists
  <1>6. \A n \in 0..N : n = 0 \/ (n # 0 /\ n \in 1..N /\ n - 1 \in 0..N)
    OBVIOUS
  <1>7. f = D(f)
    <2>1. f \in [0..N -> Lines] /\ f[0] = <<>> /\ \A n \in 1..N : f[n] = step[n][f[n - 1]]
      BY <1>5 DEF Runs
    <2> HIDE DEF step
    <2>2. \A n \in 0..N : f[n] = IF n = 0 THEN <<>> ELSE AndLine(f[n - 1], l[n])
      BY <1>3, <1>6, <2>1
    <2> QED
      BY <2>1, <2>2
  <1>8. W = D(W)
    <2>1. W = CHOOSE g : g = D(g)
      BY <1>1 DEF FilledBy
    <2> HIDE DEF D, W
    <2> QED
      BY <1>7, <2>1
  <1>F. Filled(l) = W[N]
    BY <1>1 DEF Filled, FilledBy
  <1> HIDE DEF W
  <1>9. \A n \in 0..N : W[n] = IF n = 0 THEN <<>> ELSE AndLine(W[n - 1], l[n])
    BY <1>8
  <1>10. 0 \in 0..N /\ \A n \in 1..N : n \in 0..N /\ n # 0
    OBVIOUS
  <1>11. W[0] = <<>> /\ \A n \in 1..N : W[n] = AndLine(W[n - 1], l[n])
    <2> HIDE DEF D
    <2> QED
      BY <1>9, <1>10
  <1> QED
    BY <1>1, <1>11, <1>F DEF W

\* One line more.
LEMMA FilledIs ==
  /\ Filled(<<>>) = <<>>
  /\ \A l \in Lines, x \in Seq(STRING) : Filled(Append(l, x)) = AndLine(Filled(l), x)
  <1>1. Filled(<<>>) = <<>>
    <2>1. <<>> \in Lines /\ Len(<<>>) = 0
      BY DEF Lines
    <2> QED
      BY <2>1, FilledByIs
  <1>2. ASSUME NEW l \in Lines, NEW x \in Seq(STRING)
        PROVE  Filled(Append(l, x)) = AndLine(Filled(l), x)
    <2>0. PICK N \in Nat : N = Len(l)
      BY DEF Lines
    <2>1. PICK m : m = Append(l, x) /\ N = Len(l)
      BY <2>0
    <2>2. /\ m \in Lines /\ Len(m) = N + 1 /\ m[N + 1] = x
          /\ \A n \in 1..N : m[n] = l[n]
      BY <2>1 DEF Lines
    <2>3. PICK F, G : F = FilledBy(l) /\ G = FilledBy(m)
      OBVIOUS
    <2>4. /\ Filled(l) = F[N] /\ F[0] = <<>>
          /\ \A n \in 1..N : F[n] = AndLine(F[n - 1], l[n])
      BY <2>1, <2>3, FilledByIs
    <2>5. /\ Filled(m) = G[N + 1] /\ G[0] = <<>>
          /\ \A n \in 1..(N + 1) : G[n] = AndLine(G[n - 1], m[n])
      BY <2>2, <2>3, FilledByIs
    <2> DEFINE S == {n \in 0..N : F[n] = G[n]}
    <2>6. 0 \in S
      BY <2>4, <2>5
    <2>7. ASSUME NEW n \in 0..N, n < N, n \in S
          PROVE  n + 1 \in S
      <3>1. n + 1 \in 1..N /\ n + 1 \in 1..(N + 1) /\ n + 1 \in 0..N /\ (n + 1) - 1 = n
        BY <2>7
      <3>2. F[n + 1] = AndLine(F[n], l[n + 1]) /\ G[n + 1] = AndLine(G[n], m[n + 1])
        BY <2>4, <2>5, <3>1
      <3>3. F[n] = G[n] /\ m[n + 1] = l[n + 1]
        BY <2>2, <2>7, <3>1
      <3> QED
        BY <3>1, <3>2, <3>3
    <2>8. F[N] = G[N]
      <3>1. \A n \in 0..N : n \in S
        <4> HIDE DEF S
        <4> QED
          BY <2>0, <2>6, <2>7, AllNumbers
      <3> QED
        BY <2>0, <3>1
    <2>9. N + 1 \in 1..(N + 1) /\ (N + 1) - 1 = N
      BY <2>1
    <2>10. G[N + 1] = AndLine(G[N], x)
      BY <2>2, <2>5, <2>9
    <2> QED
      BY <2>1, <2>4, <2>5, <2>8, <2>10
  <1> QED
    BY <1>1, <1>2

\* What the filter is after the first i bytes of a command, but not the last.
Part(b, i) == IF i = 1 THEN "iac" ELSE IF b[2] \in Options THEN "option"
              ELSE IF b[i] = "IAC" THEN "subiac" ELSE "sub"

\* The line and the lines after a byte.
LineAfter(f, l, b) == IF ~Passes(f, b) THEN l ELSE IF b \in {"CR", "LF"} THEN <<>> ELSE Edited(l, b)
LinesAfter(f, l, k, b) == IF Passes(f, b) /\ b \in {"CR", "LF"} THEN AndLine(k, l) ELSE k

NoCommand == DOMAIN Enter \cup Chars \cup {"rub"}

\* Where the filter, the line and the lines are after i bytes of key x, when t had been typed.
Amid(x, t, i, f, l, k) ==
    \/ i = 0 /\ f = "data" /\ l = t.line /\ k = t.lines
    \/ i = Len(Bytes[x]) /\ f = "data" /\ l = Press(t, x).line /\ k = Press(t, x).lines
    \/ x \in {"crlf", "crnul"} /\ i = 1 /\ f = "data" /\ l = <<>> /\ k = AndLine(t.lines, t.line)
    \/ /\ x \notin NoCommand /\ i \in 1..(Len(Bytes[x]) - 1) /\ f = Part(Bytes[x], i)
       /\ l = t.line /\ k = t.lines

\* The filter, case by case.
LEMMA FilterIs ==
  /\ Filter("data", "IAC") = "iac"
  /\ \A b : b # "IAC" => Filter("data", b) = "data"
  /\ \A b \in Options : Filter("iac", b) = "option"
  /\ Filter("iac", "SB") = "sub"
  /\ \A b : b \notin Options \cup {"SB"} => Filter("iac", b) = "data"
  /\ \A b : Filter("option", b) = "data"
  /\ \A f \in {"sub", "subiac"} : Filter(f, "IAC") = "subiac"
  /\ \A b : b # "IAC" => Filter("sub", b) = "sub"
  /\ \A b : b \notin {"IAC", "SE"} => Filter("subiac", b) = "sub"
  /\ Filter("subiac", "SE") = "data"
  BY DEF Filter, Options

\* The bytes of the keys.
LEMMA KeyIs ==
  ASSUME NEW x \in DOMAIN Bytes
  PROVE  /\ x \in Chars => /\ Bytes[x] = <<x>> /\ x \notin DOMAIN Enter
                           /\ x \notin {"CR", "LF", "NUL", "DEL", "IAC", "rub"}
         /\ x = "rub" => Bytes[x] = <<"DEL">>
         /\ x \in DOMAIN Enter => \/ x = "cr" /\ Bytes[x] = <<"CR">>
                                  \/ x = "lf" /\ Bytes[x] = <<"LF">>
                                  \/ x = "crlf" /\ Bytes[x] = <<"CR", "LF">>
                                  \/ x = "crnul" /\ Bytes[x] = <<"CR", "NUL">>
         /\ x \notin NoCommand => IsCommand(Bytes[x])
         /\ \A c \in {"CR", "LF", "NUL", "DEL", "IAC"} : c \notin Chars
         /\ Bytes[x] \in Seq(STRING)
  <1>1. /\ "rub" \notin Chars /\ \A y \in DOMAIN Enter : y \notin Chars
        /\ \A c \in {"CR", "LF", "NUL", "DEL", "IAC"} : c \notin Chars
        /\ Bytes[x] \in Seq(STRING)
    BY BytesAssumption
  <1>2. "rub" \notin DOMAIN Enter
    BY DEF Enter
  <1>3. (CASE x \in Chars -> Bytes[x] = <<x>>
           [] x = "rub" -> Bytes[x] = <<"DEL">>
           [] x \in DOMAIN Enter -> Bytes[x] = Enter[x]
           [] OTHER -> IsCommand(Bytes[x]))
    BY BytesAssumption
  <1>4. x \in Chars => /\ Bytes[x] = <<x>> /\ x \notin DOMAIN Enter
                       /\ x \notin {"CR", "LF", "NUL", "DEL", "IAC", "rub"}
    BY <1>1, <1>3
  <1>5. x = "rub" => Bytes[x] = <<"DEL">>
    BY <1>1, <1>2, <1>3
  <1>6. x \in DOMAIN Enter => x \in {"cr", "lf", "crlf", "crnul"} /\ Bytes[x] = Enter[x]
    <2>1. x \in DOMAIN Enter => Bytes[x] = Enter[x]
      BY <1>1, <1>2, <1>3
    <2>2. DOMAIN Enter = {"cr", "lf", "crlf", "crnul"}
      BY DEF Enter
    <2> QED
      BY <2>1, <2>2
  <1>7. /\ Enter["cr"] = <<"CR">> /\ Enter["lf"] = <<"LF">>
        /\ Enter["crlf"] = <<"CR", "LF">> /\ Enter["crnul"] = <<"CR", "NUL">>
    BY DEF Enter
  <1>8. x \notin NoCommand => IsCommand(Bytes[x])
    BY <1>3 DEF NoCommand
  <1> QED
    BY <1>1, <1>4, <1>5, <1>6, <1>7, <1>8

\* A character, and the rubout.
LEMMA CharRead ==
  ASSUME NEW x \in DOMAIN Bytes, x \in Chars \cup {"rub"}, NEW t \in Typed, NEW i \in Nat,
         NEW f, NEW l, NEW k, Amid(x, t, i, f, l, k), i < Len(Bytes[x]), NEW b, b = Bytes[x][i + 1]
  PROVE  Amid(x, t, i + 1, Filter(f, b), LineAfter(f, l, b), LinesAfter(f, l, k, b))
  <1>1. Len(Bytes[x]) = 1 /\ Bytes[x][1] = IF x = "rub" THEN "DEL" ELSE x
    BY KeyIs
  <1>2. i = 0 /\ i + 1 = Len(Bytes[x]) /\ b = Bytes[x][1]
    BY <1>1
  <1>3. x \in NoCommand /\ x \notin {"crlf", "crnul"} /\ x \notin DOMAIN Enter
    BY KeyIs DEF NoCommand, Enter
  <1>4. f = "data" /\ l = t.line /\ k = t.lines
    BY <1>1, <1>2, <1>3 DEF Amid
  <1>5. b \notin {"CR", "LF", "IAC"} /\ (x = "rub" => b = "DEL" /\ b \notin Chars)
        /\ (x # "rub" => b = x /\ b \in Chars /\ b # "DEL")
    BY <1>1, <1>2, KeyIs
  <1>6. Passes(f, b) /\ Filter(f, b) = "data"
    BY <1>4, <1>5, FilterIs DEF Passes
  <1>7. LineAfter(f, l, b) = Edited(l, b) /\ LinesAfter(f, l, k, b) = k
    BY <1>5, <1>6 DEF LineAfter, LinesAfter
  <1>8. Press(t, x).lines = t.lines
    BY <1>3, PressIs
  <1>9. Edited(l, b) = Press(t, x).line
    <2>1. CASE x = "rub"
      <3>1. Press(t, x).line = IF t.line = <<>> THEN <<>> ELSE Front(t.line)
        BY <2>1, PressIs
      <3>2. Edited(l, b) = IF l # <<>> THEN Front(l) ELSE l
        BY <1>5, <2>1 DEF Edited
      <3> QED
        BY <1>4, <3>1, <3>2
    <2>2. CASE x # "rub"
      <3>1. Press(t, x).line = Append(t.line, x)
        BY <2>2, PressIs
      <3>2. Edited(l, b) = Append(l, b)
        BY <1>5, <2>2 DEF Edited
      <3> QED
        BY <1>4, <1>5, <2>2, <3>1, <3>2
    <2> QED
      BY <2>1, <2>2
  <1> QED
    BY <1>2, <1>4, <1>6, <1>7, <1>8, <1>9 DEF Amid

\* The end of a line, of one byte or two.
LEMMA EnterRead ==
  ASSUME NEW x \in DOMAIN Bytes, x \in DOMAIN Enter, NEW t \in Typed, NEW i \in Nat,
         NEW f, NEW l, NEW k, Amid(x, t, i, f, l, k), i < Len(Bytes[x]), NEW b, b = Bytes[x][i + 1]
  PROVE  Amid(x, t, i + 1, Filter(f, b), LineAfter(f, l, b), LinesAfter(f, l, k, b))
  <1>1. \/ x \in {"cr", "lf"} /\ Len(Bytes[x]) = 1 /\ Bytes[x][1] \in {"CR", "LF"}
        \/ x = "crlf" /\ Len(Bytes[x]) = 2 /\ Bytes[x][1] = "CR" /\ Bytes[x][2] = "LF"
        \/ x = "crnul" /\ Len(Bytes[x]) = 2 /\ Bytes[x][1] = "CR" /\ Bytes[x][2] = "NUL"
    BY KeyIs
  <1>2. x \in NoCommand /\ "NUL" \notin Chars
    BY KeyIs DEF NoCommand
  <1>3. Press(t, x).lines = AndLine(t.lines, t.line) /\ Press(t, x).line = <<>>
    BY PressIs
  <1>4. CASE i = 0
    <2>1. f = "data" /\ l = t.line /\ k = t.lines
      BY <1>1, <1>2, <1>4 DEF Amid
    <2>2. b \in {"CR", "LF"} /\ i + 1 = 1
      BY <1>1, <1>4
    <2>3. Passes(f, b) /\ Filter(f, b) = "data"
      BY <2>1, <2>2, FilterIs DEF Passes
    <2>4. LineAfter(f, l, b) = <<>> /\ LinesAfter(f, l, k, b) = AndLine(k, l)
      BY <2>2, <2>3 DEF LineAfter, LinesAfter
    <2>5. Len(Bytes[x]) = 1 \/ x \in {"crlf", "crnul"}
      BY <1>1
    <2> QED
      BY <1>3, <2>1, <2>2, <2>3, <2>4, <2>5 DEF Amid
  <1>5. CASE i # 0
    <2>1. i = 1 /\ Len(Bytes[x]) = 2 /\ i + 1 = 2 /\ (b = "LF" \/ b = "NUL")
      <3>1. Len(Bytes[x]) = 1 \/ Len(Bytes[x]) = 2
        BY <1>1
      <3>2. i = 1 /\ Len(Bytes[x]) = 2 /\ i + 1 = 2
        BY <1>5, <3>1
      <3>3. Bytes[x][2] = "LF" \/ Bytes[x][2] = "NUL"
        BY <1>1, <3>2
      <3> QED
        BY <3>2, <3>3
    <2>2. f = "data" /\ l = <<>> /\ k = AndLine(t.lines, t.line)
      BY <1>2, <2>1 DEF Amid
    <2>3. Passes(f, b) /\ Filter(f, b) = "data"
      BY <2>1, <2>2, FilterIs DEF Passes
    <2>4. LineAfter(f, l, b) = <<>> /\ LinesAfter(f, l, k, b) = k
      <3>1. AndLine(k, <<>>) = k
        BY DEF AndLine
      <3>2. Edited(<<>>, "NUL") = <<>>
        BY <1>2 DEF Edited
      <3> QED
        BY <2>1, <2>2, <2>3, <3>1, <3>2 DEF LineAfter, LinesAfter
    <2> QED
      BY <1>3, <2>1, <2>2, <2>3, <2>4 DEF Amid
  <1> QED
    BY <1>4, <1>5

\* A command leaves the line alone.
LEMMA CommandRead ==
  ASSUME NEW x \in DOMAIN Bytes, x \notin NoCommand, NEW t \in Typed, NEW i \in Nat,
         NEW f, NEW l, NEW k, Amid(x, t, i, f, l, k), i < Len(Bytes[x]), NEW b, b = Bytes[x][i + 1]
  PROVE  Amid(x, t, i + 1, Filter(f, b), LineAfter(f, l, b), LinesAfter(f, l, k, b))
  <1>1. PICK y, N : y = Bytes[x] /\ N = Len(y)
    OBVIOUS
  <1>2. y \in Seq(STRING) /\ IsCommand(y) /\ N \in Nat
    BY <1>1, KeyIs
  <1>3. /\ N > 1 /\ y[1] = "IAC"
        /\ \/ N = 2 /\ y[2] \notin Options \cup {"SB"}
           \/ N = 3 /\ y[2] \in Options
           \/ N > 3 /\ y[2] = "SB" /\ \A j \in 4..N : y[j - 1] = "IAC" /\ y[j] = "SE" <=> j = N
    BY <1>1, <1>2 DEF IsCommand
  <1>4. x \notin {"crlf", "crnul"} /\ Press(t, x) = t
    <2>1. x \notin {"crlf", "crnul"}
      BY DEF NoCommand, Enter
    <2> QED
      BY <2>1, PressIs DEF NoCommand
  <1>5. l = t.line /\ k = t.lines
    BY <1>1, <1>4 DEF Amid
  <1>6. IF i = 0 THEN f = "data" ELSE f = Part(y, i)
    <2>1. i # N
      BY <1>1
    <2>2. i # 0 => ~(i = 0)
      OBVIOUS
    <2>3. Part(y, i) = Part(Bytes[x], i)
      BY <1>1
    <2>4. i \in 1..(Len(Bytes[x]) - 1) => i # 0
      OBVIOUS
    <2> QED
      BY <1>1, <1>4, <2>1, <2>3, <2>4 DEF Amid
  <1>7. b = y[i + 1] /\ i < N
    BY <1>1
  <1>8. /\ Filter(f, b) = IF i + 1 = N THEN "data" ELSE Part(y, i + 1)
        /\ Passes(f, b) => b = "IAC"
    <2>1. CASE i = 0
      <3>1. f = "data" /\ b = "IAC" /\ i + 1 = 1 /\ 1 # N
        BY <1>3, <1>6, <1>7, <2>1
      <3>2. Part(y, i + 1) = "iac"
        BY <3>1 DEF Part
      <3> QED
        BY <3>1, <3>2, FilterIs DEF Passes
    <2>2. CASE i = 1
      <3>1. f = "iac" /\ b = y[2] /\ i + 1 = 2
        BY <1>6, <1>7, <2>2 DEF Part
      <3>2. Passes(f, b) => b = "IAC"
        BY <3>1 DEF Passes
      <3>3. CASE N = 2
        <4>1. b \notin Options \cup {"SB"}
          BY <1>3, <3>1, <3>3
        <4> QED
          BY <3>1, <3>2, <3>3, <4>1, FilterIs
      <3>4. CASE N = 3 /\ b \in Options
        <4>1. Part(y, 2) = "option"
          BY <3>1, <3>4 DEF Part
        <4> QED
          BY <3>1, <3>2, <3>4, <4>1, FilterIs
      <3>5. CASE N > 3 /\ b = "SB"
        <4>1. Part(y, 2) = "sub"
          BY <3>1, <3>5 DEF Part, Options
        <4>2. i + 1 # N
          BY <3>1, <3>5
        <4> QED
          BY <3>1, <3>2, <3>5, <4>1, <4>2, FilterIs
      <3> QED
        BY <1>3, <3>1, <3>3, <3>4, <3>5
    <2>3. CASE i > 1
      <3>1. CASE N = 3 /\ y[2] \in Options
        <4>1. f = "option" /\ i + 1 = N
          BY <1>6, <1>7, <2>3, <3>1 DEF Part
        <4> QED
          BY <4>1, FilterIs DEF Passes
      <3>2. CASE N > 3 /\ y[2] = "SB" /\ \A j \in 4..N : y[j - 1] = "IAC" /\ y[j] = "SE" <=> j = N
        <4>1. y[2] \notin Options /\ i # 0 /\ i # 1 /\ i + 1 # 1
          BY <2>3, <3>2 DEF Options
        <4>2. /\ f = IF y[i] = "IAC" THEN "subiac" ELSE "sub"
              /\ Part(y, i + 1) = IF b = "IAC" THEN "subiac" ELSE "sub"
          BY <1>6, <1>7, <4>1 DEF Part
        <4>3. ~Passes(f, b)
          BY <4>2 DEF Passes
        <4>4. CASE i = 2
          <5>1. f = "sub" /\ i + 1 # N
            BY <3>2, <4>2, <4>4
          <5> QED
            BY <4>2, <4>3, <5>1, FilterIs
        <4>5. CASE i # 2
          <5>1. i + 1 \in 4..N /\ (i + 1) - 1 = i
            BY <1>2, <1>7, <2>3, <4>5
          <5>2. y[i] = "IAC" /\ b = "SE" <=> i + 1 = N
            BY <1>7, <3>2, <5>1
          <5>3. CASE i + 1 = N
            BY <4>2, <4>3, <5>2, <5>3, FilterIs
          <5>4. CASE i + 1 # N
            <6>1. ~(y[i] = "IAC" /\ b = "SE")
              BY <5>2, <5>4
            <6>2. CASE b = "IAC"
              BY <4>2, <4>3, <5>4, <6>2, FilterIs
            <6>3. CASE b # "IAC"
              <7>1. Filter(f, b) = "sub"
                BY <4>2, <6>1, <6>3, FilterIs
              <7> QED
                BY <4>2, <4>3, <5>4, <6>3, <7>1
            <6> QED
              BY <6>2, <6>3
          <5> QED
            BY <5>3, <5>4
        <4> QED
          BY <4>4, <4>5
      <3> QED
        BY <1>3, <1>7, <2>3, <3>1, <3>2
    <2> QED
      BY <2>1, <2>2, <2>3
  <1>9. LineAfter(f, l, b) = l /\ LinesAfter(f, l, k, b) = k
    <2>1. "IAC" \notin Chars /\ "IAC" \notin {"CR", "LF"} /\ Edited(l, "IAC") = l
      BY KeyIs DEF Edited
    <2> QED
      BY <1>8, <2>1 DEF LineAfter, LinesAfter
  <1>10. CASE i + 1 = N
    <2>1. Filter(f, b) = "data" /\ i + 1 = Len(Bytes[x])
      BY <1>1, <1>8, <1>10
    <2> QED
      BY <1>4, <1>5, <1>9, <2>1 DEF Amid
  <1>11. CASE i + 1 # N
    <2>1. Filter(f, b) = Part(Bytes[x], i + 1) /\ i + 1 \in 1..(Len(Bytes[x]) - 1)
      BY <1>1, <1>2, <1>7, <1>8, <1>11
    <2> QED
      BY <1>5, <1>9, <2>1 DEF Amid
  <1> QED
    BY <1>10, <1>11

\* Whatever key is being read.
LEMMA KeyRead ==
  ASSUME NEW x \in DOMAIN Bytes, NEW t \in Typed, NEW i \in Nat,
         NEW f, NEW l, NEW k, Amid(x, t, i, f, l, k), i < Len(Bytes[x]), NEW b, b = Bytes[x][i + 1]
  PROVE  Amid(x, t, i + 1, Filter(f, b), LineAfter(f, l, b), LinesAfter(f, l, k, b))
  BY CharRead, EnterRead, CommandRead DEF NoCommand

\* Every key sends something.
LEMMA KeySends == ASSUME NEW x \in DOMAIN Bytes PROVE Len(Bytes[x]) \in Nat /\ Len(Bytes[x]) > 0
  <1>1. Bytes[x] \in Seq(STRING)
    BY KeyIs
  <1>2. CASE x \in NoCommand
    <2>1. x \in Chars \/ x = "rub" => Len(Bytes[x]) = 1
      BY KeyIs
    <2>2. x \in DOMAIN Enter => Len(Bytes[x]) = 1 \/ Len(Bytes[x]) = 2
      BY KeyIs
    <2> QED
      BY <1>2, <2>1, <2>2 DEF NoCommand
  <1>3. CASE x \notin NoCommand
    BY <1>1, <1>3, KeyIs DEF IsCommand
  <1> QED
    BY <1>1, <1>2, <1>3

\* Between two keys, of which n have been read.
Between(s, n, f, l, k) == f = "data" /\ l = MeantBy(s)[n].line /\ k = MeantBy(s)[n].lines

\* Where the filter, the line and the lines are after m bytes of a script.
At(s, m, f, l, k) ==
    \E n \in 0..Len(s) :
       \/ m = Len(SentFor(s)[n]) /\ Between(s, n, f, l, k)
       \/ n < Len(s) /\ \E i \in 1..(Len(Bytes[s[n + 1]]) - 1) :
             m = Len(SentFor(s)[n]) + i /\ Amid(s[n + 1], MeantBy(s)[n], i, f, l, k)

\* Nothing read yet.
LEMMA AtStart == ASSUME NEW s \in Scripts PROVE At(s, 0, "data", <<>>, <<>>)
  <1>1. 0 \in 0..Len(s) /\ Len(SentFor(s)[0]) = 0
    <2>1. SentFor(s)[0] = <<>>
      BY SentIs
    <2> QED
      BY <2>1, ScriptIs
  <1>2. Between(s, 0, "data", <<>>, <<>>)
    BY MeantIs DEF Between
  <1> QED
    BY <1>1, <1>2 DEF At

\* What is being edited is a line.
LEMMA AtLine ==
  ASSUME NEW s \in Scripts, NEW m, NEW f, NEW l, NEW k, At(s, m, f, l, k)
  PROVE  l \in Seq(STRING)
  <1>1. PICK n \in 0..Len(s) :
           \/ m = Len(SentFor(s)[n]) /\ Between(s, n, f, l, k)
           \/ n < Len(s) /\ \E i \in 1..(Len(Bytes[s[n + 1]]) - 1) :
                 m = Len(SentFor(s)[n]) + i /\ Amid(s[n + 1], MeantBy(s)[n], i, f, l, k)
    BY DEF At
  <1>2. PICK t \in Typed : t = MeantBy(s)[n]
    BY MeantIs
  <1>3. \A u \in Typed : u.line \in Seq(STRING)
    BY DEF Typed
  <1>4. CASE Between(s, n, f, l, k)
    BY <1>2, <1>3, <1>4 DEF Between
  <1>5. CASE n < Len(s) /\ \E i \in 1..(Len(Bytes[s[n + 1]]) - 1) : Amid(s[n + 1], t, i, f, l, k)
    <2>1. PICK x : x = s[n + 1]
      OBVIOUS
    <2>2. x \in DOMAIN Bytes
      <3>1. n + 1 \in 1..Len(s)
        BY <1>5, ScriptIs
      <3> QED
        BY <2>1, <3>1, ScriptIs
    <2>3. PICK i : Amid(x, t, i, f, l, k)
      BY <1>5, <2>1
    <2>4. l = t.line \/ l = Press(t, x).line \/ l = <<>>
      BY <2>3 DEF Amid
    <2>5. Press(t, x) \in Typed /\ <<>> \in Seq(STRING)
      BY <2>2, PressIs
    <2> QED
      BY <1>3, <2>4, <2>5
  <1> QED
    BY <1>1, <1>2, <1>4, <1>5

\* A key amid or at the end of its bytes.
LEMMA KeyEnds ==
  ASSUME NEW s \in Scripts, NEW n \in 0..Len(s), n < Len(s), NEW i \in Nat, i < Len(Bytes[s[n + 1]]),
         NEW f, NEW l, NEW k, Amid(s[n + 1], MeantBy(s)[n], i + 1, f, l, k)
  PROVE  At(s, Len(SentFor(s)[n]) + i + 1, f, l, k)
  <1>1. PICK x, t, L : x = s[n + 1] /\ t = MeantBy(s)[n] /\ L = Len(Bytes[x])
    OBVIOUS
  <1>2. n + 1 \in 1..Len(s) /\ n + 1 \in 0..Len(s) /\ (n + 1) - 1 = n
    BY ScriptIs
  <1>3. x \in DOMAIN Bytes /\ L \in Nat /\ t \in Typed
    BY <1>1, <1>2, ScriptIs, KeySends, MeantIs
  <1>4. PICK p \in Nat : p = Len(SentFor(s)[n]) /\ Len(SentFor(s)[n + 1]) = p + L
    <2>1. Len(s) \in 0..Len(s)
      BY ScriptIs
    <2> QED
      BY <1>1, <2>1, BytesFollow
  <1>5. CASE i + 1 = L
    <2>1. MeantBy(s)[n + 1] = Press(t, x)
      BY <1>1, <1>2, MeantIs
    <2>2. ~(x \in {"crlf", "crnul"} /\ i + 1 = 1)
      <3>1. x \in {"crlf", "crnul"} => Len(Bytes[x]) = 2
        <4>1. x \in {"crlf", "crnul"} => x \in DOMAIN Enter
          BY DEF Enter
        <4> QED
          BY <1>3, <4>1, KeyIs
      <3>2. x \in {"crlf", "crnul"} => L = 2
        BY <1>1, <3>1, Zenon
      <3>3. L = 2 => i + 1 # 1
        BY <1>5
      <3> QED
        BY <3>2, <3>3, Zenon
    <2>3. f = "data" /\ l = Press(t, x).line /\ k = Press(t, x).lines
      <3>1. i + 1 # 0 /\ ~(i + 1 \in 1..(L - 1))
        BY <1>3, <1>5
      <3>2. Amid(x, t, i + 1, f, l, k)
        BY <1>1
      <3> QED
        BY <1>1, <2>2, <3>1, <3>2 DEF Amid
    <2>4. Between(s, n + 1, f, l, k)
      BY <2>1, <2>3 DEF Between
    <2>5. Len(SentFor(s)[n]) + i + 1 = Len(SentFor(s)[n + 1])
      BY <1>3, <1>4, <1>5
    <2> QED
      BY <1>2, <2>4, <2>5 DEF At
  <1>6. CASE i + 1 # L
    <2>0. i < L
      BY <1>1
    <2>1. i + 1 \in 1..(L - 1) /\ p + i + 1 = p + (i + 1)
      BY <1>3, <1>6, <2>0
    <2> QED
      BY <1>1, <1>4, <2>1 DEF At
  <1> QED
    BY <1>5, <1>6

\* One byte read, of whatever key it is.
LEMMA ByteRead ==
  ASSUME NEW s \in Scripts, NEW m \in Nat, m < Len(Sent(s)), NEW f, NEW l, NEW k, At(s, m, f, l, k),
         NEW b, b = Sent(s)[m + 1]
  PROVE  At(s, m + 1, Filter(f, b), LineAfter(f, l, b), LinesAfter(f, l, k, b))
  <1>1. PICK n \in 0..Len(s) :
           \/ m = Len(SentFor(s)[n]) /\ Between(s, n, f, l, k)
           \/ n < Len(s) /\ \E i \in 1..(Len(Bytes[s[n + 1]]) - 1) :
                 m = Len(SentFor(s)[n]) + i /\ Amid(s[n + 1], MeantBy(s)[n], i, f, l, k)
    BY DEF At
  <1>2. PICK p : p = Len(SentFor(s)[n])
    OBVIOUS
  <1>3. Len(s) \in Nat /\ Len(s) \in 0..Len(s)
    BY ScriptIs
  <1>4. n < Len(s)
    <2>1. n # Len(s) \/ m # p
      BY <1>2 DEF Sent
    <2> QED
      BY <1>1, <1>2, <1>3, <2>1
  <1>5. PICK x, t : x = s[n + 1] /\ t = MeantBy(s)[n]
    OBVIOUS
  <1>6. x \in DOMAIN Bytes /\ t \in Typed
    <2>1. n + 1 \in 1..Len(s)
      BY <1>3, <1>4
    <2> QED
      BY <1>5, <2>1, ScriptIs, MeantIs
  <1>7. PICK i \in Nat : m = p + i /\ i < Len(Bytes[x]) /\ Amid(x, t, i, f, l, k)
    <2>0. p \in Nat /\ Len(Bytes[x]) \in Nat /\ Len(Bytes[x]) > 0
      BY <1>2, <1>3, <1>4, <1>6, BytesFollow, KeySends
    <2>1. CASE m = p /\ Between(s, n, f, l, k)
      <3>1. Amid(x, t, 0, f, l, k)
        BY <1>5, <2>1 DEF Amid, Between
      <3> QED
        BY <2>0, <2>1, <3>1
    <2>2. CASE \E i \in 1..(Len(Bytes[x]) - 1) : m = p + i /\ Amid(x, t, i, f, l, k)
      <3>1. PICK i \in 1..(Len(Bytes[x]) - 1) : m = p + i /\ Amid(x, t, i, f, l, k)
        BY <2>2
      <3>2. i \in Nat /\ i < Len(Bytes[x])
        BY <2>0
      <3> QED
        BY <3>1, <3>2
    <2> QED
      BY <1>1, <1>2, <1>5, <2>1, <2>2
  <1>8. p \in Nat /\ p + i + 1 = m + 1 /\ b = Bytes[x][i + 1]
    <2>1. p \in Nat /\ \A j \in 1..Len(Bytes[x]) : Sent(s)[p + j] = Bytes[x][j]
      BY <1>2, <1>3, <1>4, <1>5, BytesFollow DEF Sent
    <2>2. i + 1 \in 1..Len(Bytes[x]) /\ p + (i + 1) = m + 1
      BY <1>6, <1>7, <2>1, KeySends
    <2>3. Sent(s)[p + (i + 1)] = Bytes[x][i + 1]
      BY <2>1, <2>2
    <2> QED
      BY <1>7, <2>1, <2>2, <2>3
  <1>9. Amid(x, t, i + 1, Filter(f, b), LineAfter(f, l, b), LinesAfter(f, l, k, b))
    BY <1>6, <1>7, <1>8, KeyRead
  <1>10. At(s, p + i + 1, Filter(f, b), LineAfter(f, l, b), LinesAfter(f, l, k, b))
    BY <1>2, <1>4, <1>5, <1>7, <1>9, KeyEnds
  <1> QED
    BY <1>8, <1>10

\* When all the bytes of n keys have been read and no more.
LEMMA AtKeys ==
  ASSUME NEW s \in Scripts, NEW n \in 0..Len(s), NEW f, NEW l, NEW k, At(s, Len(SentFor(s)[n]), f, l, k)
  PROVE  Between(s, n, f, l, k)
  <1>1. Len(s) \in Nat
    BY ScriptIs
  <1>2. PICK q \in 0..Len(s) :
           \/ Len(SentFor(s)[n]) = Len(SentFor(s)[q]) /\ Between(s, q, f, l, k)
           \/ q < Len(s) /\ \E i \in 1..(Len(Bytes[s[q + 1]]) - 1) :
                 Len(SentFor(s)[n]) = Len(SentFor(s)[q]) + i
    BY DEF At
  <1>3. ASSUME NEW c \in 0..Len(s), NEW d \in 0..Len(s), c < d
        PROVE  /\ Len(SentFor(s)[c]) \in Nat /\ Len(SentFor(s)[c]) < Len(SentFor(s)[d])
               /\ Len(SentFor(s)[c]) + Len(Bytes[s[c + 1]]) <= Len(SentFor(s)[d])
    <2>1. c + 1 \in 1..Len(s)
      BY <1>1, <1>3
    <2>2. Len(Bytes[s[c + 1]]) \in Nat /\ Len(Bytes[s[c + 1]]) > 0
      BY <2>1, ScriptIs, KeySends
    <2>3. /\ Len(SentFor(s)[c]) \in Nat
          /\ Len(SentFor(s)[c]) + Len(Bytes[s[c + 1]]) <= Len(SentFor(s)[d])
      <3>1. /\ Len(SentFor(s)[c]) \in Nat
            /\ Len(SentFor(s)[c + 1]) = Len(SentFor(s)[c]) + Len(Bytes[s[c + 1]])
            /\ Len(SentFor(s)[c + 1]) <= Len(SentFor(s)[d])
        BY <1>3, BytesFollow, Zenon
      <3> QED
        BY <3>1, Zenon
    <2>4. Len(SentFor(s)[d]) \in Nat
      BY SentIs
    <2>5. \A e, g, h \in Nat : e + g <= h /\ g > 0 => e < h
      OBVIOUS
    <2> QED
      BY <2>2, <2>3, <2>4, <2>5
  <1>4. PICK v, w : v = Len(SentFor(s)[n]) /\ w = Len(SentFor(s)[q])
    OBVIOUS
  <1>5. v \in Nat /\ w \in Nat
    BY <1>4, SentIs
  <1>6. n < q \/ n = q \/ q < n
    BY <1>1
  <1>7. CASE q < n
    <2>1. PICK L : L = Len(Bytes[s[q + 1]])
      OBVIOUS
    <2>2. L \in Nat
      <3>1. q + 1 \in 1..Len(s)
        BY <1>1, <1>7
      <3> QED
        BY <2>1, <3>1, ScriptIs, KeySends
    <2>3. w < v /\ w + L <= v
      BY <1>3, <1>4, <1>7, <2>1
    <2>4. \A i \in 1..(L - 1) : v # w + i
      BY <1>5, <2>2, <2>3
    <2>5. v # w
      BY <1>5, <2>3
    <2> QED
      BY <1>2, <1>4, <2>1, <2>4, <2>5
  <1>8. CASE n < q
    <2>1. v < w
      BY <1>3, <1>4, <1>8
    <2>2. v # w /\ \A i \in Nat : v # w + i
      BY <1>5, <2>1
    <2>3. \A z : \A i \in 1..(z - 1) : i \in Nat
      OBVIOUS
    <2> QED
      BY <1>2, <1>4, <2>2, <2>3
  <1>9. CASE n = q
    <2>1. \A z : \A i \in 1..(z - 1) : v # v + i
      BY <1>5
    <2> QED
      BY <1>2, <1>4, <1>9, <2>1
  <1> QED
    BY <1>6, <1>7, <1>8, <1>9

\* What a connection that is not closed has been sent, and what has become of it.
Faithful(r) ==
    /\ r.script \in Scripts
    /\ r.received \in 0..Len(Sent(r.script)) /\ r.consumed \in 0..r.received
    /\ r.said \in Lines
    /\ At(r.script, r.consumed, r.filter, r.line, Filled(r.said))

TextInv == \A c \in Conns : conn[c].st # "closed" => Faithful(conn[c])

\* What is in the buffer.
LEMMA BufferIs ==
  ASSUME NEW s \in Scripts, NEW p \in Nat, NEW q \in 0..Len(Sent(s)), p <= q,
         NEW buf, buf = SubSeq(Sent(s), p + 1, q)
  PROVE  /\ Len(Sent(s)) \in Nat
         /\ buf # <<>> => p < q /\ Head(buf) = Sent(s)[p + 1]
         /\ Len(buf) > 1 => p + 1 < q /\ buf[2] = Sent(s)[(p + 1) + 1]
  <1>1. PICK z \in Seq(STRING) : z = Sent(s)
    <2>1. Len(s) \in 0..Len(s)
      BY ScriptIs
    <2> QED
      BY <2>1, SentIs DEF Sent
  <1>2. buf = SubSeq(z, p + 1, q) /\ q \in 0..Len(z)
    BY <1>1
  <1>3. q \in Nat /\ p + 1 \in Nat /\ q <= Len(z) /\ Len(z) \in Nat
    BY <1>2
  <1>4. Len(buf) = q - p /\ \A i \in 1..(q - p) : buf[i] = z[p + i]
    <2>1. Len(buf) = q - p
      BY <1>2, <1>3
    <2>2. \A i \in 1..(q - p) : buf[i] = z[(p + 1) + i - 1]
      BY <1>2, <1>3
    <2>3. \A i \in 1..(q - p) : (p + 1) + i - 1 = p + i
      OBVIOUS
    <2> QED
      BY <2>1, <2>2, <2>3
  <1>5. buf # <<>> => p < q
    BY <1>2, <1>3
  <1>6. buf # <<>> => Head(buf) = buf[1]
    BY <1>2, <1>3
  <1>7. p < q => 1 \in 1..(q - p)
    BY <1>3
  <1>8. q - p > 1 => p + 1 < q /\ 2 \in 1..(q - p) /\ p + 2 = (p + 1) + 1
    BY <1>3
  <1> QED
    BY <1>1, <1>3, <1>4, <1>5, <1>6, <1>7, <1>8

\* The state of the text is the same.
LEMMA SameText ==
  ASSUME NEW r, NEW s, Faithful(r), s.script = r.script, s.received = r.received,
         s.consumed = r.consumed, s.said = r.said, s.filter = r.filter, s.line = r.line
  PROVE  Faithful(s)
  BY DEF Faithful

\* A step of one connection.
LEMMA OneText ==
  ASSUME LineInv, TextInv, NEW c \in Conns, NEW s, conn' = [conn EXCEPT ![c] = s],
         s.st = "closed" \/ Faithful(s)
  PROVE  TextInv'
  <1>1. \A d \in Conns : conn'[d] = IF d = c THEN s ELSE conn[d]
    BY DEF LineInv
  <1> QED
    BY <1>1 DEF TextInv

\* The throttle reads nothing, a new connection has read nothing, and what is
\* received is not read yet.
LEMMA WaitText == ASSUME LineInv, TextInv, NEW c \in Conns, Wait(c) PROVE TextInv'
  <1>1. PICK r : r = conn[c]
    OBVIOUS
  <1>2. r.st = "throttled" /\ Fields(r)
    BY <1>1 DEF Wait, LineInv, Held
  <1>3. Faithful(r)
    BY <1>1, <1>2 DEF TextInv
  <1>4. PICK b : b = Refill(r.bucket, CmdFull)
    OBVIOUS
  <1>5. CASE conn' = [conn EXCEPT ![c] = [r EXCEPT !.st = "reading", !.begun = Append(r.begun, clock),
                                                   !.bucket = [b EXCEPT !.tokens = @ - CmdPer]]]
    <2>1. PICK e, g : e = [b EXCEPT !.tokens = @ - CmdPer] /\ g = Append(r.begun, clock)
      OBVIOUS
    <2>2. PICK s : s = [r EXCEPT !.st = "reading", !.bucket = e, !.begun = g]
      OBVIOUS
    <2>3. /\ s.script = r.script /\ s.received = r.received /\ s.consumed = r.consumed
          /\ s.said = r.said /\ s.filter = r.filter /\ s.line = r.line
      BY <1>2, <2>2 DEF Fields
    <2>4. conn' = [conn EXCEPT ![c] = s]
      BY <1>5, <2>1, <2>2
    <2> QED
      BY <1>3, <2>3, <2>4, SameText, OneText
  <1>6. CASE \E w : conn' = [conn EXCEPT ![c] = [r EXCEPT !.bucket = b, !.wake = w]]
    <2>1. PICK w : conn' = [conn EXCEPT ![c] = [r EXCEPT !.bucket = b, !.wake = w]]
      BY <1>6
    <2>2. PICK s : s = [r EXCEPT !.bucket = b, !.wake = w]
      OBVIOUS
    <2>3. /\ s.script = r.script /\ s.received = r.received /\ s.consumed = r.consumed
          /\ s.said = r.said /\ s.filter = r.filter /\ s.line = r.line
      BY <1>2, <2>2 DEF Fields
    <2>4. conn' = [conn EXCEPT ![c] = s]
      BY <2>1, <2>2
    <2> QED
      BY <1>3, <2>3, <2>4, SameText, OneText
  <1>7. CASE b.tokens >= CmdPer
    BY <1>1, <1>4, <1>5, <1>7 DEF Wait
  <1>8. CASE ~(b.tokens >= CmdPer)
    BY <1>1, <1>4, <1>6, <1>8 DEF Wait
  <1> QED
    BY <1>7, <1>8

LEMMA AcceptText ==
  ASSUME LineInv, TextInv, NEW c \in Conns, NEW k \in Keys, NEW s \in Scripts, Accept(c, k, s)
  PROVE  TextInv'
  <1>1. CASE Admits(k)
    <2>1. PICK r : r = [Closed EXCEPT !.st = "throttled", !.script = s, !.wake = clock,
                                      !.bucket = NewBucket(CmdFull)]
      OBVIOUS
    <2>2. conn' = [conn EXCEPT ![c] = r]
      BY <1>1, <2>1 DEF Accept
    <2>3. /\ r.script = s /\ r.received = 0 /\ r.consumed = 0 /\ r.said = <<>>
          /\ r.filter = "data" /\ r.line = <<>>
      BY <2>1 DEF Closed
    <2>4. Len(Sent(s)) \in Nat
      <3>1. SentFor(s)[Len(s)] \in Seq(STRING)
        <4>1. Len(s) \in 0..Len(s)
          BY ScriptIs
        <4> QED
          BY <4>1, SentIs
      <3> QED
        BY <3>1 DEF Sent
    <2>5. 0 \in 0..Len(Sent(s)) /\ 0 \in 0..0 /\ <<>> \in Lines
      BY <2>4 DEF Lines
    <2>6. Faithful(r)
      BY <2>3, <2>5, AtStart, FilledIs DEF Faithful
    <2> QED
      BY <2>2, <2>6, OneText
  <1>2. CASE ~Admits(k)
    <2>1. conn' = conn
      BY <1>2 DEF Accept
    <2> QED
      BY <2>1 DEF TextInv
  <1> QED
    BY <1>1, <1>2

LEMMA ReceiveText == ASSUME LineInv, TextInv, NEW c \in Conns, Receive(c) PROVE TextInv'
  <1>1. PICK r : r = conn[c]
    OBVIOUS
  <1>2. r.st = "reading" /\ Fields(r)
    BY <1>1 DEF Receive, LineInv, Held
  <1>3. Faithful(r)
    BY <1>1, <1>2 DEF TextInv
  <1>4. PICK n \in r.consumed + 1 .. Len(Sent(r.script)) :
           conn' = [conn EXCEPT ![c] = [r EXCEPT !.received = n]]
    BY <1>1 DEF Receive
  <1>5. PICK s : s = [r EXCEPT !.received = n]
    OBVIOUS
  <1>6. /\ s.script = r.script /\ s.received = n /\ s.consumed = r.consumed
        /\ s.said = r.said /\ s.filter = r.filter /\ s.line = r.line
    BY <1>2, <1>5 DEF Fields
  <1>7. n \in 0..Len(Sent(r.script)) /\ r.consumed \in 0..n
    <2>1. r.consumed \in Nat
      BY <1>3 DEF Faithful
    <2>2. PICK L : L = Len(Sent(r.script))
      OBVIOUS
    <2>3. n \in r.consumed + 1 .. L
      BY <2>2
    <2> QED
      BY <2>1, <2>2, <2>3
  <1>8. Faithful(s)
    BY <1>3, <1>6, <1>7 DEF Faithful
  <1> QED
    BY <1>4, <1>5, <1>8, OneText

\* A byte, and the line feed or NUL that goes with the end of a line.
LEMMA ConsumeText == ASSUME LineInv, TextInv, NEW c \in Conns, Consume(c) PROVE TextInv'
  <1>1. PICK r, s, p, buf : r = conn[c] /\ s = r.script /\ p = r.consumed /\ buf = Buffered(c)
    OBVIOUS
  <1>2. r.st = "reading" /\ Fields(r) /\ buf # <<>>
    BY <1>1 DEF Consume, LineInv, Held
  <1>3. Faithful(r)
    BY <1>1, <1>2 DEF TextInv
  <1>4. PICK q : q = r.received
    OBVIOUS
  <1>5. /\ s \in Scripts /\ q \in 0..Len(Sent(s)) /\ p \in 0..q /\ r.said \in Lines
        /\ At(s, p, r.filter, r.line, Filled(r.said))
    BY <1>1, <1>3, <1>4 DEF Faithful
  <1>6. buf = SubSeq(Sent(s), p + 1, q)
    BY <1>1, <1>4 DEF Buffered
  <1>7. p \in Nat /\ p <= q /\ q \in Nat
    BY <1>5
  <1>8. /\ Len(Sent(s)) \in Nat /\ p < q /\ Head(buf) = Sent(s)[p + 1]
        /\ Len(buf) > 1 => p + 1 < q /\ buf[2] = Sent(s)[(p + 1) + 1]
    BY <1>2, <1>5, <1>6, <1>7, BufferIs
  <1>9. PICK b, f, l, k : b = Head(buf) /\ f = r.filter /\ l = r.line /\ k = Filled(r.said)
    OBVIOUS
  <1>10. p + 1 \in Nat /\ p < Len(Sent(s)) /\ p + 1 \in 0..q
    BY <1>5, <1>7, <1>8
  <1>11. At(s, p + 1, Filter(f, b), LineAfter(f, l, b), LinesAfter(f, l, k, b))
    BY <1>5, <1>7, <1>8, <1>9, <1>10, ByteRead
  <1>12. PICK next : next = [r EXCEPT !.consumed = @ + 1, !.filter = Filter(f, b)]
    OBVIOUS
  <1>13. /\ Fields(next) /\ next.script = s /\ next.received = q /\ next.consumed = p + 1
         /\ next.said = r.said /\ next.filter = Filter(f, b) /\ next.line = l /\ next.st = "reading"
    BY <1>1, <1>2, <1>4, <1>9, <1>12 DEF Fields
  <1>14. CASE ~Passes(f, b) /\ conn' = [conn EXCEPT ![c] = next]
    <2>1. LineAfter(f, l, b) = l /\ LinesAfter(f, l, k, b) = k
      BY <1>14 DEF LineAfter, LinesAfter
    <2>2. Faithful(next)
      BY <1>5, <1>9, <1>10, <1>11, <1>13, <2>1 DEF Faithful
    <2> QED
      BY <1>14, <2>2, OneText
  <1>15. CASE /\ Passes(f, b) /\ b \notin {"CR", "LF"}
              /\ conn' = [conn EXCEPT ![c] = [next EXCEPT !.line = Edited(@, b)]]
    <2>1. LineAfter(f, l, b) = Edited(l, b) /\ LinesAfter(f, l, k, b) = k
      BY <1>15 DEF LineAfter, LinesAfter
    <2>2. PICK u : u = [next EXCEPT !.line = Edited(@, b)]
      OBVIOUS
    <2>3. /\ u.script = s /\ u.received = q /\ u.consumed = p + 1
          /\ u.said = r.said /\ u.filter = Filter(f, b) /\ u.line = Edited(l, b)
      BY <1>13, <2>2 DEF Fields
    <2>4. Faithful(u)
      BY <1>5, <1>9, <1>10, <1>11, <2>1, <2>3 DEF Faithful
    <2> QED
      BY <1>15, <2>2, <2>4, OneText
  <1>16. CASE /\ Passes(f, b) /\ b \in {"CR", "LF"}
              /\ LET swallowed == IF Len(buf) > 1 /\ buf[2] \in {"LF", "NUL"} THEN 1 ELSE 0
                 IN conn' = [conn EXCEPT ![c] = [next EXCEPT !.consumed = @ + swallowed, !.line = <<>>,
                                                             !.said = Append(r.said, r.line),
                                                             !.st = "throttled", !.wake = clock]]
    <2>1. PICK n : n = IF Len(buf) > 1 /\ buf[2] \in {"LF", "NUL"} THEN 1 ELSE 0
      OBVIOUS
    <2>2. PICK u : u = [next EXCEPT !.consumed = @ + n, !.line = <<>>, !.said = Append(r.said, r.line),
                                    !.st = "throttled", !.wake = clock]
      OBVIOUS
    <2>3. conn' = [conn EXCEPT ![c] = u]
      BY <1>16, <2>1, <2>2
    <2>4. PICK said : said = Append(r.said, r.line)
      OBVIOUS
    <2>5. /\ u.script = s /\ u.received = q /\ u.consumed = (p + 1) + n
          /\ u.said = said /\ u.filter = Filter(f, b) /\ u.line = <<>>
      BY <1>13, <2>2, <2>4 DEF Fields
    <2>6. f = "data" /\ b # "IAC" /\ Filter(f, b) = "data"
      <3>1. f = "data" /\ b # "IAC"
        BY <1>16 DEF Passes
      <3> QED
        BY <3>1, FilterIs
    <2>7. LineAfter(f, l, b) = <<>> /\ LinesAfter(f, l, k, b) = AndLine(k, l)
      BY <1>16 DEF LineAfter, LinesAfter
    <2>8. l \in Seq(STRING)
      BY <1>5, <1>9, AtLine
    <2>9. said \in Lines /\ Filled(said) = AndLine(k, l)
      <3>1. ASSUME NEW S, NEW z \in Seq(S), NEW e \in S PROVE Append(z, e) \in Seq(S)
        OBVIOUS
      <3>2. said \in Lines
        BY <1>5, <1>9, <2>4, <2>8, <3>1 DEF Lines
      <3> QED
        BY <1>5, <1>9, <2>4, <2>8, <3>2, FilledIs
    <2>10. PICK j : j = AndLine(k, l)
      OBVIOUS
    <2>11. At(s, p + 1, "data", <<>>, j)
      BY <1>11, <2>6, <2>7, <2>10
    <2>12. CASE n = 0
      <3>1. (p + 1) + n = p + 1
        BY <1>7, <2>12
      <3> QED
        BY <1>5, <1>10, <2>3, <2>5, <2>6, <2>9, <2>10, <2>11, <3>1, OneText DEF Faithful
    <2>13. CASE n # 0
      <3>1. n = 1 /\ Len(buf) > 1 /\ buf[2] \in {"LF", "NUL"}
        BY <2>1, <2>13
      <3>2. PICK d : d = buf[2]
        OBVIOUS
      <3>3. p + 1 < q /\ d = Sent(s)[(p + 1) + 1] /\ d \in {"LF", "NUL"}
        BY <1>8, <3>1, <3>2
      <3>4. p + 1 < Len(Sent(s)) /\ (p + 1) + 1 \in 0..q
        BY <1>5, <1>7, <1>8, <3>3
      <3>5. At(s, (p + 1) + 1, Filter("data", d), LineAfter("data", <<>>, d), LinesAfter("data", <<>>, j, d))
        BY <1>5, <1>10, <2>11, <3>3, <3>4, ByteRead
      <3>6. Filter("data", d) = "data" /\ Passes("data", d)
        BY <3>3, FilterIs DEF Passes
      <3>7. LineAfter("data", <<>>, d) = <<>> /\ LinesAfter("data", <<>>, j, d) = j
        <4>1. AndLine(j, <<>>) = j
          BY DEF AndLine
        <4>2. Edited(<<>>, "NUL") = <<>>
          <5>1. "NUL" \notin Chars
            BY BytesAssumption
          <5> QED
            BY <5>1 DEF Edited
        <4> QED
          BY <3>3, <3>6, <4>1, <4>2 DEF LineAfter, LinesAfter
      <3>8. At(s, (p + 1) + 1, "data", <<>>, j)
        BY <3>5, <3>6, <3>7
      <3> QED
        BY <1>5, <2>3, <2>5, <2>6, <2>9, <2>10, <3>1, <3>4, <3>8, OneText DEF Faithful
    <2> QED
      BY <2>12, <2>13
  <1> QED
    BY <1>1, <1>9, <1>12, <1>14, <1>15, <1>16 DEF Consume

\* Every step keeps every connection's text faithful.
LEMMA TextOK == LineInv /\ TextInv /\ [TelnetNext]_telnetVars => TextInv'
  <1> SUFFICES ASSUME LineInv, TextInv, [TelnetNext]_telnetVars PROVE TextInv'
    OBVIOUS
  <1>1. ASSUME NEW c \in Conns, Drop(c)
        PROVE  TextInv'
    <2>1. conn' = [conn EXCEPT ![c] = Closed] /\ Closed.st = "closed"
      BY <1>1 DEF Drop, Closed
    <2> QED
      BY <2>1, OneText
  <1>2. CASE conn' = conn
    BY <1>2 DEF TextInv
  <1>3. Pass \/ UNCHANGED telnetVars => conn' = conn
    BY DEF Pass, telnetVars
  <1> QED
    BY <1>1, <1>2, <1>3, WaitText, AcceptText, ReceiveText, ConsumeText DEF TelnetNext

\* telnetserver.go, readByte and readLineEcho: whatever keys and commands a client
\* sends, and however TCP cuts their bytes, the dialogue is given the lines that were
\* meant, blank ones apart, and edits what was meant since.
THEOREM LinesAreAsMeant == TelnetSpec => []LinesAsMeant
  <1>1. TelnetInit => TextInv
    <2>1. Closed.st = "closed"
      BY DEF Closed
    <2> QED
      BY <2>1 DEF TelnetInit, TextInv
  <1>2. TextInv => LinesAsMeant
    <2> SUFFICES ASSUME TextInv, NEW c \in Conns, conn[c].st # "closed", NEW n \in 0..Len(conn[c].script),
                        conn[c].consumed = Len(SentFor(conn[c].script)[n])
                 PROVE  /\ Filled(conn[c].said) = MeantBy(conn[c].script)[n].lines
                        /\ conn[c].line = MeantBy(conn[c].script)[n].line
      BY DEF LinesAsMeant
    <2>1. PICK r : r = conn[c]
      OBVIOUS
    <2>2. r.script \in Scripts /\ At(r.script, Len(SentFor(r.script)[n]), r.filter, r.line, Filled(r.said))
      BY <2>1 DEF TextInv, Faithful
    <2>3. Between(r.script, n, r.filter, r.line, Filled(r.said))
      BY <2>1, <2>2, AtKeys
    <2> QED
      BY <2>1, <2>3 DEF Between
  <1> QED
    BY <1>1, <1>2, LinesBegin, LinesOK, TextOK, PTL DEF TelnetSpec
=============================================================================
