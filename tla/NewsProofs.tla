----------------------------- MODULE NewsProofs -----------------------------
(***************************************************************************)
(* That a player's news comes oldest first, each item once, and is lost    *)
(* unread only to a full cap, for any number of players and any caps.  The *)
(* list is in the order of the ids, and what a player has been told is all *)
(* older than what is left for him to be told.                             *)
(***************************************************************************)
EXTENDS WebSession, Integers, FiniteSetTheorems, FunctionTheorems, WellFoundedInduction,
        TLAPS

----------------------------------------------------------------------------
(* The entries kept of a list *)

\* A set of numbers that is not empty has a least one.
LEMMA LeastNumber == ASSUME NEW S \in SUBSET Nat, S # {} PROVE \E x \in S : \A y \in S : x <= y
  <1> DEFINE R == OpToRel(<, Nat)
  <1>1. IsWellFoundedOn(R, Nat)
    BY NatLessThanWellFounded
  <1>2. \A x, y \in Nat : x < y => <<x, y>> \in R
    BY DEF OpToRel
  <1> HIDE DEF R
  <1>3. PICK x \in S : \A y \in S : ~(<<y, x>> \in R)
    BY <1>1, WFMin
  <1>4. \A y \in S : x \in Nat /\ y \in Nat /\ ~(y < x)
    BY <1>2, <1>3
  <1>5. \A y \in S : x <= y
    BY <1>4, SMT
  <1> QED
    BY <1>5

\* Positions are finitely many.
LEMMA PositionsFinite ==
  ASSUME NEW n \in Nat, NEW K \in SUBSET (1..n)
  PROVE  IsFiniteSet(K) /\ Cardinality(K) \in Nat /\ Cardinality(K) <= n
  <1>1. IsFiniteSet(1..n) /\ Cardinality(1..n) = n
    BY FS_Interval
  <1>2. IsFiniteSet(K) /\ Cardinality(K) <= Cardinality(1..n)
    BY <1>1, FS_Subset
  <1> QED
    BY <1>1, <1>2, FS_CardinalityType

\* How the positions are counted.
LEMMA Counting ==
  ASSUME NEW n \in Nat, NEW K \in SUBSET (1..n)
  PROVE  /\ \A i \in 0..n : UpTo(K, i) \in Nat
         /\ UpTo(K, 0) = 0 /\ UpTo(K, n) = Cardinality(K)
         /\ \A i \in 1..n : UpTo(K, i) = IF i \in K THEN UpTo(K, i - 1) + 1 ELSE UpTo(K, i - 1)
         /\ \A i, j \in 0..n : i <= j => UpTo(K, i) <= UpTo(K, j)
  <1>1. \A i \in 0..n : {j \in K : j <= i} \in SUBSET K
    OBVIOUS
  <1>2. IsFiniteSet(K)
    BY PositionsFinite
  <1>3. \A i \in 0..n : IsFiniteSet({j \in K : j <= i}) /\ UpTo(K, i) \in Nat
    BY <1>1, <1>2, FS_Subset, FS_CardinalityType DEF UpTo
  <1>N. \A j \in K : j \in Int /\ j >= 1 /\ j <= n /\ ~(j <= 0)
    OBVIOUS
  <1>4. {j \in K : j <= 0} = {} /\ {j \in K : j <= n} = K
    BY <1>N, Zenon
  <1>5. UpTo(K, 0) = 0 /\ UpTo(K, n) = Cardinality(K)
    BY <1>4, FS_EmptySet DEF UpTo
  <1>6. ASSUME NEW i \in 1..n
        PROVE  UpTo(K, i) = IF i \in K THEN UpTo(K, i - 1) + 1 ELSE UpTo(K, i - 1)
    <2>1. i - 1 \in 0..n
      OBVIOUS
    <2>2. CASE i \in K
      <3>1. {j \in K : j <= i} = {j \in K : j <= i - 1} \cup {i} /\ i \notin {j \in K : j <= i - 1}
        <4>1. \A j \in K : (j <= i <=> j <= i - 1 \/ j = i) /\ ~(i <= i - 1)
          BY <1>N
        <4> QED
          BY <2>2, <4>1, Zenon
      <3> QED
        BY <1>3, <2>1, <2>2, <3>1, FS_AddElement DEF UpTo
    <2>3. CASE i \notin K
      <3>1. {j \in K : j <= i} = {j \in K : j <= i - 1}
        <4>1. \A j \in K : j <= i <=> j <= i - 1
          BY <1>N, <2>3
        <4> QED
          BY <4>1, Zenon
      <3> QED
        BY <2>3, <3>1 DEF UpTo
    <2> QED
      BY <2>2, <2>3
  <1>7. ASSUME NEW i \in 0..n, NEW j \in 0..n, i <= j
        PROVE  UpTo(K, i) <= UpTo(K, j)
    <2>1. {x \in K : x <= i} \in SUBSET {x \in K : x <= j}
      <3>1. \A x \in K : x <= i => x <= j
        BY <1>N, <1>7
      <3> QED
        BY <3>1, Zenon
    <2> QED
      BY <1>3, <2>1, FS_Subset DEF UpTo
  <1> QED
    BY <1>3, <1>5, <1>6, <1>7

\* The position each count belongs to.
LEMMA Counted ==
  ASSUME NEW n \in Nat, NEW K \in SUBSET (1..n), NEW k \in 1..Cardinality(K)
  PROVE  \E i \in K : UpTo(K, i) = k
  <1> DEFINE S == {i \in 0..n : UpTo(K, i) >= k}
  <1>1. n \in S /\ S \in SUBSET Nat
    BY Counting
  <1>2. PICK m \in S : \A y \in S : m <= y
    <2> HIDE DEF S
    <2> QED
      BY <1>1, LeastNumber
  <1>3. m \in 0..n /\ UpTo(K, m) >= k /\ k \in Nat /\ k > 0
    OBVIOUS
  <1>4. m # 0
    BY <1>3, Counting
  <1>5. m \in 1..n /\ m - 1 \in 0..n /\ m - 1 \notin S
    BY <1>2, <1>3, <1>4
  <1>6. UpTo(K, m - 1) < k /\ UpTo(K, m - 1) \in Nat
    <2>1. UpTo(K, m - 1) \in Nat
      BY <1>5, Counting
    <2> QED
      BY <1>3, <1>5, <2>1
  <1> QED
    <2>1. UpTo(K, m) = IF m \in K THEN UpTo(K, m - 1) + 1 ELSE UpTo(K, m - 1)
      BY <1>5, Counting
    <2> HIDE DEF S
    <2> QED
      BY <1>3, <1>6, <2>1

\* Each position is counted once.
LEMMA CountedOnce ==
  ASSUME NEW n \in Nat, NEW K \in SUBSET (1..n), NEW i \in K, NEW j \in K, i < j
  PROVE  UpTo(K, i) < UpTo(K, j)
  <1>1. i \in 0..n /\ j \in 1..n /\ j - 1 \in 0..n /\ i <= j - 1
    OBVIOUS
  <1>2. UpTo(K, i) <= UpTo(K, j - 1) /\ UpTo(K, i) \in Nat /\ UpTo(K, j - 1) \in Nat
    BY <1>1, Counting
  <1>3. UpTo(K, j) = UpTo(K, j - 1) + 1
    BY <1>1, Counting
  <1> QED
    BY <1>2, <1>3

\* What a list is that has kept the entries of another at the positions K: it is
\* h that says where each of them was.
IsKept(r, list, K, h) ==
  /\ h \in [DOMAIN r -> K]
  /\ \A k, l \in DOMAIN r : k < l => h[k] < h[l]
  /\ \A i \in K : \E k \in DOMAIN r : h[k] = i
  /\ \A k \in DOMAIN r : r[k] = list[h[k]]

LEMMA KeepKeeps ==
  ASSUME NEW S, NEW list \in Seq(S), NEW K \in SUBSET DOMAIN list
  PROVE  /\ Keep(list, K) \in Seq(S)
         /\ DOMAIN Keep(list, K) = 1..Cardinality(K)
         /\ Len(Keep(list, K)) = Cardinality(K) /\ Cardinality(K) \in Nat
         /\ \E h : IsKept(Keep(list, K), list, K, h)
  <1> DEFINE n == Len(list)
             c == Cardinality(K)
             at == [k \in 1..c |-> CHOOSE i \in K : UpTo(K, i) = k]
             r == Keep(list, K)
  <1>1. n \in Nat /\ DOMAIN list = 1..n /\ K \in SUBSET (1..n) /\ \A i \in 1..n : list[i] \in S
    OBVIOUS
  <1> HIDE DEF n
  <1>2. c \in Nat /\ IsFiniteSet(K)
    BY <1>1, PositionsFinite
  <1>3. \A k \in 1..c : at[k] \in K /\ UpTo(K, at[k]) = k
    BY <1>1, Counted
  <1>4. r = [k \in 1..c |-> list[at[k]]]
    BY DEF Keep
  <1> HIDE DEF at, r, c
  <1>5. r \in Seq(S) /\ DOMAIN r = 1..c /\ Len(r) = c
    <2>1. \A k \in 1..c : list[at[k]] \in S
      BY <1>1, <1>3
    <2>2. r \in [1..c -> S]
      BY <1>4, <2>1
    <2> QED
      BY <1>2, <2>2
  <1>6. ASSUME NEW k \in 1..c, NEW l \in 1..c, k < l
        PROVE  at[k] < at[l]
    <2>1. at[k] \in K /\ at[l] \in K /\ at[k] \in Int /\ at[l] \in Int
      BY <1>1, <1>3
    <2>2. ~(at[l] < at[k])
      <3>1. at[l] < at[k] => UpTo(K, at[l]) < UpTo(K, at[k])
        BY <1>1, <2>1, CountedOnce
      <3> QED
        BY <1>3, <1>6, <3>1
    <2>3. at[l] # at[k]
      BY <1>3, <1>6
    <2> QED
      BY <2>1, <2>2, <2>3
  <1>7. ASSUME NEW i \in K
        PROVE  \E k \in 1..c : at[k] = i
    <2>1. UpTo(K, i) \in Nat /\ UpTo(K, i) <= c /\ UpTo(K, i) > 0
      <3>1. i \in 1..n /\ i - 1 \in 0..n /\ i \in 0..n /\ n \in 0..n /\ i <= n
        BY <1>1
      <3>2. UpTo(K, i) = UpTo(K, i - 1) + 1 /\ UpTo(K, i - 1) \in Nat
        <4>1. \A x \in 1..n : UpTo(K, x) = IF x \in K THEN UpTo(K, x - 1) + 1 ELSE UpTo(K, x - 1)
          BY <1>1, Counting
        <4>2. \A x \in 0..n : UpTo(K, x) \in Nat
          BY <1>1, Counting
        <4> QED
          BY <3>1, <4>1, <4>2
      <3>3. UpTo(K, i) <= UpTo(K, n) /\ UpTo(K, n) = c
        <4>1. UpTo(K, n) = c
          BY <1>1, Counting DEF c
        <4>2. \A x, y \in 0..n : x <= y => UpTo(K, x) <= UpTo(K, y)
          BY <1>1, Counting
        <4> QED
          BY <3>1, <4>1, <4>2
      <3> QED
        BY <3>2, <3>3
    <2>2. UpTo(K, i) \in 1..c
      BY <1>2, <2>1
    <2>3. PICK k \in 1..c : k = UpTo(K, i)
      BY <2>2
    <2>4. at[k] \in K /\ UpTo(K, at[k]) = UpTo(K, i) /\ at[k] \in Int /\ i \in Int
      BY <1>1, <1>3, <2>3
    <2>5. ~(at[k] < i)
      <3>1. at[k] < i => UpTo(K, at[k]) < UpTo(K, i)
        BY <1>1, <2>4, CountedOnce
      <3> QED
        BY <2>1, <2>4, <3>1
    <2>6. ~(i < at[k])
      <3>1. i < at[k] => UpTo(K, i) < UpTo(K, at[k])
        BY <1>1, <2>4, CountedOnce
      <3> QED
        BY <2>1, <2>4, <3>1
    <2> QED
      BY <2>4, <2>5, <2>6
  <1>8. IsKept(r, list, K, at)
    <2>1. at \in [1..c -> K]
      <3>1. DOMAIN at = 1..c /\ at = [k \in 1..c |-> at[k]]
        BY DEF at
      <3> QED
        BY <1>3, <3>1
    <2> QED
      BY <1>4, <1>5, <1>6, <1>7, <2>1 DEF IsKept
  <1> QED
    BY <1>2, <1>5, <1>8 DEF r, c, n

----------------------------------------------------------------------------
(* The invariant *)

Items(q, d) == [player : Players, id : 1..q, at : 1..d, delivered : BOOLEAN]

\* The list is in the order queued.
Sorted(list) == \A i, j \in DOMAIN list : i < j => list[i].id < list[j].id

\* What a player has been told is older than what is left to tell.
Older(list, t) ==
  \A p \in Players : \A k \in DOMAIN t[p], i \in DOMAIN list :
     list[i].player = p /\ ~list[i].delivered => t[p][k] < list[i].id

Rising(s) == \A j, k \in DOMAIN s : j < k => s[j] < s[k]

\* A list and what was told, when q items have been queued by day d.
Books(list, t, q, d) ==
  /\ q \in Nat /\ d \in Nat \ {0}
  /\ list \in Seq(Items(q, d)) /\ t \in [Players -> Seq(1..q)]
  /\ Sorted(list) /\ Older(list, t)
  /\ \A p \in Players : Rising(t[p])

\* Both caps.
Capped(list) ==
  /\ Len(list) <= MaxItems
  /\ \A p \in Players : Cardinality(Mine(p, list)) <= MaxPerPlayer

IndInv == Books(news, told, queued, day) /\ Capped(news)

\* A sequence over a set is one over any larger set.
LEMMA SeqGrows == ASSUME NEW S, NEW T, S \subseteq T, NEW s \in Seq(S) PROVE s \in Seq(T)
  <1>1. PICK n \in Nat : n = Len(s)
    OBVIOUS
  <1>2. s \in [1..n -> S]
    BY <1>1
  <1>3. s \in [1..n -> T]
    BY <1>2
  <1> QED
    BY <1>1, <1>3

LEMMA MineFinite ==
  ASSUME NEW S, NEW list \in Seq(S), NEW p, NEW K
  PROVE  /\ Mine(p, list) \in SUBSET DOMAIN list
         /\ IsFiniteSet(Mine(p, list)) /\ Cardinality(Mine(p, list)) \in Nat
         /\ IsFiniteSet(Mine(p, list) \cap K) /\ Cardinality(Mine(p, list) \cap K) \in Nat
         /\ Cardinality(Mine(p, list) \cap K) <= Cardinality(Mine(p, list))
  <1>1. PICK n \in Nat : DOMAIN list = 1..n
    OBVIOUS
  <1>2. Mine(p, list) \in SUBSET (1..n) /\ Mine(p, list) \cap K \in SUBSET (1..n)
    BY <1>1 DEF Mine
  <1>3. IsFiniteSet(Mine(p, list)) /\ Cardinality(Mine(p, list)) \in Nat
    BY <1>2, PositionsFinite
  <1>4. IsFiniteSet(Mine(p, list) \cap K) /\ Cardinality(Mine(p, list) \cap K) \in Nat
    BY <1>2, PositionsFinite
  <1>5. Cardinality(Mine(p, list) \cap K) <= Cardinality(Mine(p, list))
    BY <1>3, FS_Subset
  <1> QED
    BY <1>1, <1>2, <1>3, <1>4, <1>5

\* Entries dropped do no harm, and no player has more of them after it.
LEMMA KeepBooks ==
  ASSUME NEW list, NEW t, NEW q, NEW d, Books(list, t, q, d), NEW K \in SUBSET DOMAIN list,
         NEW r, r = Keep(list, K)
  PROVE  /\ Books(r, t, q, d)
         /\ Len(r) = Cardinality(K)
         /\ \A p \in Players : Cardinality(Mine(p, r)) <= Cardinality(Mine(p, list) \cap K)
  <1>1. list \in Seq(Items(q, d))
    BY DEF Books
  <1>2. r \in Seq(Items(q, d)) /\ DOMAIN r = 1..Len(r) /\ Len(r) = Cardinality(K)
    BY <1>1, KeepKeeps
  <1>3. PICK h : IsKept(r, list, K, h)
    BY <1>1, KeepKeeps
  <1>4. /\ \A k \in DOMAIN r : h[k] \in K /\ h[k] \in DOMAIN list /\ r[k] = list[h[k]]
        /\ \A k, l \in DOMAIN r : k < l => h[k] < h[l]
    BY <1>3 DEF IsKept
  <1>5. Sorted(r)
    BY <1>4 DEF Sorted, Books
  <1>6. Older(r, t)
    BY <1>4 DEF Older, Books
  <1>7. ASSUME NEW p \in Players
        PROVE  Cardinality(Mine(p, r)) <= Cardinality(Mine(p, list) \cap K)
    <2>1. PICK f : f = [k \in Mine(p, r) |-> h[k]]
      OBVIOUS
    <2>2. f \in [Mine(p, r) -> Mine(p, list) \cap K]
      BY <1>4, <2>1 DEF Mine
    <2>3. \A k, l \in Mine(p, r) : f[k] = f[l] => k = l
      <3>1. \A k, l \in Mine(p, r) : k \in DOMAIN r /\ l \in DOMAIN r /\ k \in Int /\ l \in Int
        BY <1>2 DEF Mine
      <3>2. \A k \in DOMAIN r : h[k] \in Int
        BY <1>1, <1>4
      <3> SUFFICES ASSUME NEW k \in Mine(p, r), NEW l \in Mine(p, r), h[k] = h[l]
                   PROVE  k = l
        BY <2>1
      <3>3. ~(k < l) /\ ~(l < k)
        BY <1>4, <3>1, <3>2
      <3> QED
        BY <3>1, <3>3
    <2>4. f \in Injection(Mine(p, r), Mine(p, list) \cap K)
      BY <2>2, <2>3, Fun_IsInj
    <2> QED
      BY <1>1, <2>4, MineFinite, FS_Injection
  <1> QED
    BY <1>2, <1>5, <1>6, <1>7 DEF Books

\* An item queued is the newest of all.
Fresher(p, q, d) == [player |-> p, id |-> q + 1, at |-> d, delivered |-> FALSE]
Queued(list, p, q, d) == Append(list, Fresher(p, q, d))

LEMMA AppendBooks ==
  ASSUME NEW list, NEW t, NEW q, NEW d, Books(list, t, q, d),
         NEW p \in Players, NEW r, r = Queued(list, p, q, d)
  PROVE  /\ Books(r, t, q + 1, d)
         /\ \A o \in Players \ {p} : Mine(o, r) = Mine(o, list)
         /\ Mine(p, r) = Mine(p, list) \cup {Len(list) + 1}
  <1>E. PICK e : e = Fresher(p, q, d) /\ r = Append(list, e)
    BY DEF Queued
  <1>1. q \in Nat /\ d \in Nat \ {0} /\ list \in Seq(Items(q, d)) /\ t \in [Players -> Seq(1..q)]
    BY DEF Books
  <1>L. PICK n \in Nat : Len(list) = n /\ DOMAIN list = 1..n
    BY <1>1
  <1>4. \A i \in 1..n : /\ list[i] \in Items(q, d) /\ list[i] \in Items(q + 1, d)
                        /\ list[i].id \in Int /\ list[i].id < q + 1
    <2>1. \A i \in 1..n : list[i] \in Items(q, d)
      BY <1>1, <1>L
    <2>2. 1..q \subseteq 1..(q + 1)
      BY <1>1
    <2>3. \A x \in 1..q : x \in Int /\ x < q + 1
      BY <1>1
    <2> QED
      BY <2>1, <2>2, <2>3 DEF Items
  <1>5. e \in Items(q + 1, d) /\ e.id = q + 1 /\ e.player = p
    <2>1. q + 1 \in 1..(q + 1) /\ d \in 1..d
      BY <1>1
    <2> QED
      BY <1>E, <2>1 DEF Items, Fresher
  <1>S. list \in Seq(Items(q + 1, d))
    <2>1. Items(q, d) \subseteq Items(q + 1, d)
      <3>1. 1..q \subseteq 1..(q + 1)
        BY <1>1
      <3> QED
        BY <3>1 DEF Items
    <2> QED
      BY <1>1, <2>1, SeqGrows
  <1>2. /\ Len(list) = n /\ DOMAIN list = 1..n /\ DOMAIN r = 1..(n + 1)
        /\ \A i \in 1..n : r[i] = list[i]
        /\ r[n + 1] = e /\ r \in Seq(Items(q + 1, d))
    BY <1>E, <1>L, <1>5, <1>S
  <1>3. \A i \in DOMAIN r : i \in 1..n \/ i = n + 1
    BY <1>2
  <1>7. t \in [Players -> Seq(1..(q + 1))]
    <2>1. ASSUME NEW o \in Players
          PROVE  t[o] \in Seq(1..(q + 1))
      <3>1. t[o] \in Seq(1..q) /\ 1..q \subseteq 1..(q + 1)
        BY <1>1
      <3> QED
        BY <3>1, SeqGrows
    <2> QED
      BY <1>1, <2>1
  <1>8. Sorted(r)
    <2> SUFFICES ASSUME NEW i \in DOMAIN r, NEW j \in DOMAIN r, i < j
                 PROVE  r[i].id < r[j].id
      BY DEF Sorted
    <2>1. i \in 1..n
      BY <1>2
    <2>2. CASE j \in 1..n
      BY <1>2, <2>1, <2>2 DEF Sorted, Books
    <2>3. CASE j = n + 1
      BY <1>2, <1>4, <1>5, <2>1, <2>3
    <2> QED
      BY <1>3, <2>2, <2>3
  <1>9. Older(r, t)
    <2> SUFFICES ASSUME NEW o \in Players, NEW k \in DOMAIN t[o], NEW i \in DOMAIN r,
                        r[i].player = o, ~r[i].delivered
                 PROVE  t[o][k] < r[i].id
      BY DEF Older
    <2>1. CASE i \in 1..n
      BY <1>2, <2>1 DEF Older, Books
    <2>2. CASE i = n + 1
      <3>1. t[o][k] \in 1..q
        BY <1>1
      <3> QED
        BY <1>1, <1>2, <1>5, <2>2, <3>1
    <2> QED
      BY <1>3, <2>1, <2>2
  <1>10. \A o \in Players \ {p} : Mine(o, r) = Mine(o, list)
    <2> SUFFICES ASSUME NEW o \in Players \ {p}
                 PROVE  Mine(o, r) = Mine(o, list)
      OBVIOUS
    <2>1. \A i : i \in DOMAIN r /\ r[i].player = o <=> i \in DOMAIN list /\ list[i].player = o
      <3>1. \A i \in 1..n : i \in DOMAIN r
        BY <1>2
      <3> QED
        BY <1>2, <1>3, <1>5, <3>1, Zenon
    <2> QED
      BY <2>1 DEF Mine
  <1>11. Mine(p, r) = Mine(p, list) \cup {Len(list) + 1}
    <2>1. \A i : i \in DOMAIN r /\ r[i].player = p
                   <=> (i \in DOMAIN list /\ list[i].player = p) \/ i = n + 1
      <3>1. \A i \in 1..n : i \in DOMAIN r
        BY <1>2
      <3>2. n + 1 \in DOMAIN r
        BY <1>2
      <3> QED
        BY <1>2, <1>3, <1>5, <3>1, <3>2, Zenon
    <2> QED
      BY <1>2, <2>1 DEF Mine
  <1>12. q + 1 \in Nat
    BY <1>1
  <1> QED
    BY <1>1, <1>2, <1>7, <1>8, <1>9, <1>10, <1>11, <1>12 DEF Books

----------------------------------------------------------------------------
(* The caps *)

\* The positions that the player's cap keeps, and the global one.
Recent(p, list) ==
  {i \in DOMAIN list :
     i \in Mine(p, list) => Cardinality({j \in Mine(p, list) : j >= i}) <= MaxPerPlayer}
Newest(list) == {i \in DOMAIN list : i > Len(list) - MaxItems}

\* The cap of a player: within it after that; and what goes is his own, is older
\* than all that stays of him, and goes for the cap is exceeded.
LEMMA ShareIs ==
  ASSUME NEW S, NEW list \in Seq(S), NEW p
  PROVE  /\ CapShare(p, list) = Keep(list, Recent(p, list))
         /\ Recent(p, list) \in SUBSET DOMAIN list
         /\ Cardinality(Mine(p, list) \cap Recent(p, list)) <= MaxPerPlayer
         /\ \A i \in DOMAIN list \ Recent(p, list) :
               /\ i \in Mine(p, list) /\ Cardinality(Mine(p, list)) > MaxPerPlayer
               /\ \A j \in Mine(p, list) \cap Recent(p, list) : i < j
  <1> DEFINE M == Mine(p, list)
             K == Recent(p, list)
             From(i) == {j \in M : j >= i}
  <1>1. PICK n \in Nat : DOMAIN list = 1..n
    OBVIOUS
  <1>2. M \in SUBSET (1..n) /\ \A i \in M : i \in Nat
    BY <1>1 DEF Mine
  <1>3. K = {i \in DOMAIN list : i \in M => Cardinality(From(i)) <= MaxPerPlayer}
    BY DEF Recent
  <1>4. MaxPerPlayer \in Nat
    BY NewsAssumption
  <1> HIDE DEF M, K
  <1>5. IsFiniteSet(M) /\ Cardinality(M) \in Nat
    BY <1>2, PositionsFinite
  <1>6. ASSUME NEW T \in SUBSET M
        PROVE  IsFiniteSet(T) /\ Cardinality(T) \in Nat /\ Cardinality(T) <= Cardinality(M)
    BY <1>5, FS_Subset, FS_CardinalityType
  <1>7. ASSUME NEW i \in M, NEW j \in M, j <= i
        PROVE  Cardinality(From(i)) <= Cardinality(From(j))
    <2>1. From(i) \in SUBSET From(j)
      <3>1. \A x \in M : x >= i => x >= j
        BY <1>2, <1>7
      <3> QED
        BY <3>1, Zenon
    <2>2. IsFiniteSet(From(j))
      BY <1>6
    <2> HIDE DEF From
    <2> QED
      BY <2>1, <2>2, FS_Subset
  <1>8. Cardinality(M \cap K) <= MaxPerPlayer
    <2>1. CASE M \cap K = {}
      <3>1. Cardinality(M \cap K) = 0
        BY <2>1, FS_EmptySet
      <3> QED
        BY <1>4, <3>1
    <2>2. CASE M \cap K # {}
      <3>1. M \cap K \in SUBSET Nat
        BY <1>2, Zenon
      <3>2. PICK x \in M \cap K : \A y \in M \cap K : x <= y
        BY <2>2, <3>1, LeastNumber
      <3>3. M \cap K \in SUBSET From(x)
        BY <1>2, <3>2
      <3>4. IsFiniteSet(From(x)) /\ Cardinality(From(x)) \in Nat
        BY <1>6
      <3>5. Cardinality(M \cap K) <= Cardinality(From(x)) /\ Cardinality(M \cap K) \in Nat
        BY <1>6, <3>3, <3>4, FS_Subset
      <3>6. Cardinality(From(x)) <= MaxPerPlayer
        BY <1>3, <3>2
      <3> QED
        BY <1>4, <3>4, <3>5, <3>6
    <2> QED
      BY <2>1, <2>2
  <1>9. ASSUME NEW i \in DOMAIN list \ K
        PROVE  /\ i \in M /\ Cardinality(M) > MaxPerPlayer
               /\ \A j \in M \cap K : i < j
    <2>1. i \in M /\ ~(Cardinality(From(i)) <= MaxPerPlayer)
      BY <1>3
    <2>2. Cardinality(From(i)) \in Nat /\ Cardinality(From(i)) <= Cardinality(M)
      BY <1>6
    <2>3. Cardinality(M) > MaxPerPlayer
      BY <1>4, <1>5, <2>1, <2>2
    <2>4. ASSUME NEW j \in M \cap K
          PROVE  i < j
      <3>1. Cardinality(From(j)) <= MaxPerPlayer
        BY <1>3
      <3>2. Cardinality(From(j)) \in Nat
        BY <1>6
      <3>3. j <= i => Cardinality(From(i)) <= Cardinality(From(j))
        BY <1>7, <2>1
      <3>4. ~(j <= i)
        BY <1>4, <2>1, <2>2, <3>1, <3>2, <3>3
      <3> QED
        BY <1>2, <2>1, <3>4
    <2> QED
      BY <2>1, <2>3, <2>4
  <1>10. K \in SUBSET DOMAIN list
    BY <1>3
  <1>11. CapShare(p, list) = Keep(list, Recent(p, list))
    BY DEF CapShare, Recent
  <1> QED
    BY <1>8, <1>9, <1>10, <1>11 DEF M, K

\* The global cap.
LEMMA AllIs ==
  ASSUME NEW S, NEW list \in Seq(S)
  PROVE  /\ CapAll(list) = Keep(list, Newest(list))
         /\ Newest(list) \in SUBSET DOMAIN list
         /\ Cardinality(Newest(list)) <= MaxItems
         /\ \A i \in DOMAIN list \ Newest(list) :
               Len(list) > MaxItems /\ \A j \in Newest(list) : i < j
  <1>1. PICK n \in Nat : Len(list) = n /\ DOMAIN list = 1..n
    OBVIOUS
  <1>2. Newest(list) = {i \in 1..n : i > n - MaxItems} /\ MaxItems \in Nat
    BY <1>1, NewsAssumption DEF Newest
  <1>3. Cardinality(Newest(list)) <= MaxItems
    <2>1. CASE n <= MaxItems
      <3>1. Newest(list) \in SUBSET (1..n)
        BY <1>2
      <3>2. Cardinality(Newest(list)) <= n /\ Cardinality(Newest(list)) \in Nat
        BY <3>1, PositionsFinite
      <3> QED
        BY <1>2, <2>1, <3>2
    <2>2. CASE ~(n <= MaxItems)
      <3>1. Newest(list) = (n - MaxItems + 1)..n /\ n - MaxItems + 1 \in Int
        BY <1>2, <2>2
      <3>2. PICK a \in Int : a = n - MaxItems + 1
        BY <3>1
      <3>3. Cardinality(a..n) = IF a > n THEN 0 ELSE n - a + 1
        BY FS_Interval
      <3>4. (IF a > n THEN 0 ELSE n - a + 1) <= MaxItems
        BY <1>2, <2>2, <3>2
      <3> QED
        BY <3>1, <3>2, <3>3, <3>4
    <2> QED
      BY <2>1, <2>2
  <1>4. ASSUME NEW i \in DOMAIN list \ Newest(list)
        PROVE  Len(list) > MaxItems /\ \A j \in Newest(list) : i < j
    BY <1>1, <1>2
  <1>5. CapAll(list) = Keep(list, Newest(list))
    BY DEF CapAll, Newest
  <1> QED
    BY <1>1, <1>2, <1>3, <1>4, <1>5

\* A player's share of a list.
LEMMA OfIs ==
  ASSUME NEW S, NEW list \in Seq(S), NEW p
  PROVE  /\ Len(Of(p, list)) = Cardinality(Mine(p, list))
         /\ \A m \in ToSet(Of(p, list)) : \E i \in Mine(p, list) : m = list[i]
  <1>1. Mine(p, list) \in SUBSET DOMAIN list
    BY DEF Mine
  <1>2. PICK r : r = Of(p, list) /\ r = Keep(list, Mine(p, list))
    BY DEF Of
  <1>3. Len(r) = Cardinality(Mine(p, list)) /\ \E h : IsKept(r, list, Mine(p, list), h)
    BY <1>1, <1>2, KeepKeeps
  <1>4. \A k \in DOMAIN r : \E i \in Mine(p, list) : r[k] = list[i]
    BY <1>3 DEF IsKept
  <1> QED
    BY <1>2, <1>3, <1>4 DEF ToSet

\* An item queued: the books stay right, both caps hold, and an item goes only for
\* a cap that is full, when all that stay of that player are newer.
LEMMA Added ==
  ASSUME NEW list, NEW t, NEW q, NEW d, Books(list, t, q, d), Capped(list),
         NEW p \in Players, NEW r, r = CapAll(CapShare(p, Queued(list, p, q, d)))
  PROVE  /\ Books(r, t, q + 1, d) /\ Capped(r)
         /\ \A o \in Players : \A i \in Mine(o, list) :
               \/ \E k \in DOMAIN r : r[k] = list[i]
               \/ /\ Cardinality(Mine(o, list)) = MaxPerPlayer \/ Len(list) = MaxItems
                  /\ \A k \in Mine(o, r) : r[k].id > list[i].id
  <1>1. PICK a : a = Queued(list, p, q, d)
    OBVIOUS
  <1>2. /\ Books(a, t, q + 1, d)
        /\ \A o \in Players \ {p} : Mine(o, a) = Mine(o, list)
        /\ Mine(p, a) = Mine(p, list) \cup {Len(list) + 1}
    BY <1>1, AppendBooks
  <1>3. list \in Seq(Items(q, d)) /\ a \in Seq(Items(q + 1, d)) /\ q \in Nat
    BY <1>2 DEF Books
  <1>4. PICK n \in Nat : /\ Len(list) = n /\ Len(a) = n + 1 /\ DOMAIN list = 1..n
                         /\ DOMAIN a = 1..(n + 1) /\ \A i \in 1..n : a[i] = list[i] /\ i \in 1..(n + 1)
    <2>1. Len(list) \in Nat /\ DOMAIN list = 1..Len(list)
      BY <1>3
    <2>2. Len(a) = Len(list) + 1 /\ \A i \in 1..Len(list) : a[i] = list[i]
      BY <1>1, <1>3 DEF Queued
    <2>3. DOMAIN a = 1..Len(a)
      BY <1>3
    <2>4. \A m \in Nat : \A i \in 1..m : i \in 1..(m + 1)
      OBVIOUS
    <2> QED
      BY <2>1, <2>2, <2>3, <2>4
  <1> DEFINE K == Recent(p, a)
  <1>5. /\ CapShare(p, a) = Keep(a, K) /\ K \in SUBSET DOMAIN a
        /\ Cardinality(Mine(p, a) \cap K) <= MaxPerPlayer
        /\ \A i \in DOMAIN a \ K : /\ i \in Mine(p, a) /\ Cardinality(Mine(p, a)) > MaxPerPlayer
                                   /\ \A j \in Mine(p, a) \cap K : i < j
    BY <1>3, ShareIs
  <1> HIDE DEF K
  <1>6. PICK b : b = Keep(a, K)
    OBVIOUS
  <1>7. /\ Books(b, t, q + 1, d) /\ Len(b) = Cardinality(K)
        /\ \A o \in Players : Cardinality(Mine(o, b)) <= Cardinality(Mine(o, a) \cap K)
    BY <1>2, <1>5, <1>6, KeepBooks
  <1>8. b \in Seq(Items(q + 1, d))
    BY <1>7 DEF Books
  <1> DEFINE L == Newest(b)
  <1>9. /\ CapAll(b) = Keep(b, L) /\ L \in SUBSET DOMAIN b /\ Cardinality(L) <= MaxItems
        /\ \A i \in DOMAIN b \ L : Len(b) > MaxItems /\ \A j \in L : i < j
    BY <1>8, AllIs
  <1> HIDE DEF L
  <1>10. r = Keep(b, L)
    BY <1>1, <1>5, <1>6, <1>9
  <1>11. /\ Books(r, t, q + 1, d) /\ Len(r) = Cardinality(L)
         /\ \A o \in Players : Cardinality(Mine(o, r)) <= Cardinality(Mine(o, b) \cap L)
    BY <1>7, <1>9, <1>10, KeepBooks
  <1>12. r \in Seq(Items(q + 1, d))
    BY <1>11 DEF Books
  <1>13. MaxItems \in Nat /\ MaxPerPlayer \in Nat
    BY NewsAssumption
  <1>14. ASSUME NEW o \in Players
         PROVE  Cardinality(Mine(o, r)) <= MaxPerPlayer
    <2>1. /\ Cardinality(Mine(o, r)) \in Nat /\ Cardinality(Mine(o, b)) \in Nat
          /\ Cardinality(Mine(o, b) \cap L) <= Cardinality(Mine(o, b))
          /\ Cardinality(Mine(o, b) \cap L) \in Nat
          /\ Cardinality(Mine(o, a) \cap K) <= Cardinality(Mine(o, a))
          /\ Cardinality(Mine(o, a) \cap K) \in Nat /\ Cardinality(Mine(o, a)) \in Nat
      BY <1>3, <1>8, <1>12, MineFinite
    <2>2. Cardinality(Mine(o, a) \cap K) <= MaxPerPlayer
      <3>1. CASE o = p
        BY <1>5, <3>1
      <3>2. CASE o # p
        <4>1. Cardinality(Mine(o, a)) <= MaxPerPlayer
          BY <1>2, <3>2 DEF Capped
        <4> QED
          BY <1>13, <2>1, <4>1
      <3> QED
        BY <3>1, <3>2
    <2>3. /\ Cardinality(Mine(o, b)) <= Cardinality(Mine(o, a) \cap K)
          /\ Cardinality(Mine(o, r)) <= Cardinality(Mine(o, b) \cap L)
      BY <1>7, <1>11
    <2> QED
      BY <1>13, <2>1, <2>2, <2>3
  <1>15. Capped(r)
    BY <1>9, <1>11, <1>14 DEF Capped
  <1>16. PICK f : IsKept(b, a, K, f)
    BY <1>3, <1>5, <1>6, KeepKeeps
  <1>17. PICK g : IsKept(r, b, L, g)
    BY <1>8, <1>9, <1>10, KeepKeeps
  <1>18. \A k \in DOMAIN r : /\ g[k] \in L /\ g[k] \in DOMAIN b /\ f[g[k]] \in K
                             /\ r[k] = b[g[k]] /\ r[k] = a[f[g[k]]]
    BY <1>9, <1>16, <1>17 DEF IsKept
  <1>19. ASSUME NEW o \in Players, NEW i \in Mine(o, list), ~(\E k \in DOMAIN r : r[k] = list[i])
         PROVE  /\ Cardinality(Mine(o, list)) = MaxPerPlayer \/ Len(list) = MaxItems
                /\ \A k \in Mine(o, r) : r[k].id > list[i].id
    <2>1. i \in 1..n /\ i \in DOMAIN a /\ a[i] = list[i] /\ list[i].player = o
      BY <1>4 DEF Mine
    <2>2. \A k \in Mine(o, r) : k \in DOMAIN r /\ f[g[k]] \in Mine(o, a)
      <3>1. \A k \in Mine(o, r) : k \in DOMAIN r /\ r[k].player = o
        BY DEF Mine
      <3> QED
        BY <1>5, <1>18, <3>1 DEF Mine
    <2>3. CASE i \notin K
      <3>1. /\ i \in Mine(p, a) /\ Cardinality(Mine(p, a)) > MaxPerPlayer
            /\ \A j \in Mine(p, a) \cap K : i < j
        BY <1>5, <2>1, <2>3
      <3>2. o = p
        BY <2>1, <3>1 DEF Mine
      <3>3. Cardinality(Mine(p, list)) = MaxPerPlayer
        <4>1. Cardinality(Mine(p, list)) \in Nat /\ IsFiniteSet(Mine(p, list))
          BY <1>3, MineFinite
        <4>2. Cardinality(Mine(p, a)) <= Cardinality(Mine(p, list)) + 1 /\ Cardinality(Mine(p, a)) \in Nat
          <5>1. PICK x : x = Len(list) + 1
            OBVIOUS
          <5>2. Cardinality(Mine(p, list) \cup {x}) =
                  IF x \in Mine(p, list) THEN Cardinality(Mine(p, list)) ELSE Cardinality(Mine(p, list)) + 1
            BY <4>1, FS_AddElement
          <5>3. Mine(p, a) = Mine(p, list) \cup {x}
            BY <1>2, <5>1
          <5> QED
            BY <4>1, <5>2, <5>3
        <4>3. Cardinality(Mine(p, list)) <= MaxPerPlayer
          BY DEF Capped
        <4> QED
          BY <1>13, <3>1, <4>1, <4>2, <4>3
      <3>4. ASSUME NEW k \in Mine(o, r)
            PROVE  r[k].id > list[i].id
        <4>1. PICK j : j = f[g[k]]
          OBVIOUS
        <4>2. j \in Mine(p, a) \cap K /\ i < j /\ r[k] = a[j] /\ j \in DOMAIN a
          BY <1>5, <1>18, <2>2, <3>1, <3>2, <4>1
        <4>3. a[i].id < a[j].id
          BY <1>2, <2>1, <4>2 DEF Books, Sorted
        <4>4. a[i].id \in Int /\ a[j].id \in Int
          <5>1. a[i] \in Items(q + 1, d) /\ a[j] \in Items(q + 1, d)
            BY <1>3, <2>1, <4>2
          <5>2. \A x \in Items(q + 1, d) : x.id \in Int
            BY DEF Items
          <5> QED
            BY <5>1, <5>2
        <4> QED
          BY <2>1, <4>2, <4>3, <4>4
      <3> QED
        BY <3>2, <3>3, <3>4
    <2>4. CASE i \in K
      <3>1. PICK k \in DOMAIN b : f[k] = i /\ b[k] = a[i]
        BY <1>16, <2>4 DEF IsKept
      <3>2. k \notin L
        <4>1. ASSUME k \in L
              PROVE  FALSE
          <5>1. PICK x \in DOMAIN r : g[x] = k
            BY <1>17, <4>1 DEF IsKept
          <5>2. r[x] = list[i]
            BY <1>18, <2>1, <3>1, <5>1
          <5> QED
            BY <1>19, <5>2
        <4> QED
          BY <4>1
      <3>3. Len(b) > MaxItems /\ \A j \in L : k < j
        BY <1>9, <3>1, <3>2
      <3>4. Len(list) = MaxItems
        <4>1. Cardinality(K) <= n + 1 /\ Cardinality(K) \in Nat
          <5>1. n + 1 \in Nat /\ K \in SUBSET (1..(n + 1))
            BY <1>4, <1>5
          <5> QED
            BY <5>1, PositionsFinite
        <4>2. n <= MaxItems
          BY <1>4 DEF Capped
        <4> QED
          BY <1>4, <1>7, <1>13, <3>3, <4>1, <4>2
      <3>5. ASSUME NEW x \in Mine(o, r)
            PROVE  r[x].id > list[i].id
        <4>1. PICK j : j = g[x]
          OBVIOUS
        <4>2. j \in L /\ k < j /\ r[x] = b[j] /\ j \in DOMAIN b
          BY <1>18, <2>2, <3>3, <4>1
        <4>3. b[k].id < b[j].id
          BY <1>7, <3>1, <4>2 DEF Books, Sorted
        <4>4. b[k].id \in Int /\ b[j].id \in Int
          <5>1. b[k] \in Items(q + 1, d) /\ b[j] \in Items(q + 1, d)
            BY <1>8, <3>1, <4>2
          <5>2. \A y \in Items(q + 1, d) : y.id \in Int
            BY DEF Items
          <5> QED
            BY <5>1, <5>2
        <4> QED
          BY <2>1, <3>1, <4>2, <4>3, <4>4
      <3> QED
        BY <3>4, <3>5
    <2> QED
      BY <2>3, <2>4
  <1> QED
    BY <1>11, <1>15, <1>19

----------------------------------------------------------------------------
(* The steps *)

LEMMA SeqIs ==
  ASSUME NEW n \in Nat, NEW S, NEW s \in [1..n -> S]
  PROVE  s \in Seq(S) /\ Len(s) = n /\ DOMAIN s = 1..n
  OBVIOUS

\* What is told later is newer.
Before(s, z) == \A j \in DOMAIN s, k \in DOMAIN z : s[j] < z[k]
Joined(s, z) == s \o z
Tells(s, q) == s \in Seq(1..q) /\ Rising(s)

LEMMA ToldLater ==
  ASSUME NEW q \in Nat, NEW s, NEW z, Tells(s, q), Tells(z, q), Before(s, z),
         NEW r, r = Joined(s, z)
  PROVE  /\ Tells(r, q)
         /\ \A k \in DOMAIN z : \E i \in DOMAIN r : r[i] = z[k]
         /\ \A i \in DOMAIN r : (\E j \in DOMAIN s : r[i] = s[j]) \/ (\E k \in DOMAIN z : r[i] = z[k])
  <1>T. s \in Seq(1..q) /\ z \in Seq(1..q) /\ Rising(s) /\ Rising(z)
    BY DEF Tells
  <1>1. PICK m \in Nat, c \in Nat : m = Len(s) /\ c = Len(z)
    BY <1>T
  <1>2. /\ DOMAIN s = 1..m /\ DOMAIN z = 1..c /\ DOMAIN r = 1..(m + c)
        /\ \A i \in 1..(m + c) : r[i] = IF i <= m THEN s[i] ELSE z[i - m]
        /\ r \in Seq(1..q)
    BY <1>T, <1>1 DEF Joined
  <1>3. \A k \in 1..c : m + k \in 1..(m + c) /\ ~(m + k <= m) /\ (m + k) - m = k
    OBVIOUS
  <1>4. \A k \in DOMAIN z : \E i \in DOMAIN r : r[i] = z[k]
    <2> SUFFICES ASSUME NEW k \in 1..c PROVE \E i \in DOMAIN r : r[i] = z[k]
      BY <1>2
    <2>1. PICK i \in 1..(m + c) : i = m + k /\ ~(i <= m) /\ i - m = k
      BY <1>3
    <2> QED
      BY <1>2, <2>1
  <1>5. \A i \in 1..(m + c) : (i <= m /\ i \in 1..m) \/ (~(i <= m) /\ i - m \in 1..c)
    OBVIOUS
  <1>6. ASSUME NEW i \in 1..(m + c)
        PROVE  (\E j \in DOMAIN s : r[i] = s[j]) \/ (\E k \in DOMAIN z : r[i] = z[k])
    BY <1>2, <1>5
  <1>7. ASSUME NEW i \in 1..(m + c), NEW j \in 1..(m + c), i < j
        PROVE  r[i] < r[j]
    <2>1. CASE j <= m
      <3>1. i \in 1..m /\ j \in 1..m /\ i <= m
        BY <1>7, <2>1
      <3> QED
        BY <1>T, <1>2, <1>7, <2>1, <3>1 DEF Rising
    <2>2. CASE i <= m /\ ~(j <= m)
      <3>1. i \in 1..m /\ j - m \in 1..c
        BY <1>5, <2>2
      <3> QED
        BY <1>2, <2>2, <3>1 DEF Before
    <2>3. CASE ~(i <= m) /\ ~(j <= m)
      <3>1. PICK x \in 1..c, y \in 1..c : x = i - m /\ y = j - m /\ x < y
        BY <1>5, <1>7, <2>3
      <3> QED
        BY <1>T, <1>2, <2>3, <3>1 DEF Rising
    <2>4. i <= m \/ ~(j <= m)
      BY <1>7
    <2> QED
      BY <2>1, <2>2, <2>3
  <1> QED
    BY <1>2, <1>4, <1>6, <1>7 DEF Rising, Tells

LEMMA TakeOK ==
  ASSUME IndInv, NEW p \in Players, TakeNews(p)
  PROVE  /\ IndInv'
         /\ \A o \in Players : \A i \in Mine(o, news) : ~news[i].delivered =>
               \/ \E k \in DOMAIN told'[o] : told'[o][k] = news[i].id
               \/ i \in DOMAIN news' /\ news'[i] = news[i]
  <1> DEFINE K == {i \in Mine(p, news) : ~news[i].delivered}
             z == Shown(Fresh(p))
  <1>1. /\ queued \in Nat /\ day \in Nat \ {0}
        /\ news \in Seq(Items(queued, day)) /\ told \in [Players -> Seq(1..queued)]
        /\ queued' = queued /\ day' = day
    BY DEF IndInv, Books, TakeNews
  <1>2. PICK n \in Nat : Len(news) = n /\ DOMAIN news = 1..n
    BY <1>1
  <1>3. news' = [i \in 1..n |-> IF news[i].player = p THEN [news[i] EXCEPT !.delivered = TRUE]
                                                      ELSE news[i]]
    BY <1>2 DEF TakeNews
  <1>4. ASSUME NEW i \in 1..n
        PROVE  /\ news[i] \in Items(queued, day) /\ news'[i] \in Items(queued, day)
               /\ news'[i].id = news[i].id /\ news'[i].player = news[i].player
               /\ news[i].player # p => news'[i] = news[i]
               /\ news[i].player = p => news'[i].delivered
    <2>1. news[i] \in Items(queued, day)
      BY <1>1, <1>2
    <2>2. PICK e : e = news[i]
      OBVIOUS
    <2>3. news'[i] = IF e.player = p THEN [e EXCEPT !.delivered = TRUE] ELSE e
      BY <1>3, <2>2
    <2> QED
      BY <2>1, <2>2, <2>3 DEF Items
  <1>5. news' \in Seq(Items(queued, day)) /\ DOMAIN news' = 1..n /\ Len(news') = n
    <2>1. news' = [i \in 1..n |-> news'[i]]
      BY <1>3
    <2>2. PICK r : r = news'
      OBVIOUS
    <2>3. r \in [1..n -> Items(queued, day)]
      BY <1>4, <2>1, <2>2
    <2>4. r \in Seq(Items(queued, day)) /\ DOMAIN r = 1..n /\ Len(r) = n
      BY <2>3
    <2> QED
      BY <2>2, <2>4
  <1>6. /\ Sorted(news) /\ Older(news, told) /\ Capped(news)
        /\ \A o \in Players : Rising(told[o])
    BY DEF IndInv, Books
  <1>7. K \in SUBSET DOMAIN news
    BY DEF Mine
  <1>8. PICK f, h : f = Fresh(p) /\ IsKept(f, news, K, h) /\ f \in Seq(Items(queued, day))
    <2>1. Fresh(p) = Keep(news, K)
      BY DEF Fresh
    <2> HIDE DEF K
    <2> QED
      BY <1>1, <1>7, <2>1, KeepKeeps
  <1>9. PICK c \in Nat : /\ DOMAIN f = 1..c /\ z = [k \in 1..c |-> f[k].id]
    <2>1. Len(f) \in Nat /\ DOMAIN f = 1..Len(f)
      BY <1>8
    <2> QED
      BY <1>8, <2>1 DEF Shown
  <1> HIDE DEF z
  <1>10. /\ \A k \in 1..c : h[k] \in K /\ h[k] \in 1..n /\ z[k] = news[h[k]].id
         /\ \A k, l \in 1..c : k < l => h[k] < h[l]
         /\ \A i \in K : \E k \in 1..c : h[k] = i
    BY <1>2, <1>7, <1>8, <1>9 DEF IsKept
  <1>11. z \in Seq(1..queued) /\ DOMAIN z = 1..c
    <2>1. \A k \in 1..c : z[k] \in 1..queued
      BY <1>4, <1>10 DEF Items
    <2>2. PICK Q : Q = 1..queued
      OBVIOUS
    <2>3. z \in [1..c -> Q]
      BY <1>9, <2>1, <2>2
    <2> QED
      BY <2>2, <2>3, SeqIs
  <1>12. Rising(z)
    <2>1. \A k, l \in 1..c : k < l => news[h[k]].id < news[h[l]].id
      BY <1>2, <1>6, <1>10 DEF Sorted
    <2> QED
      BY <1>10, <1>11, <2>1 DEF Rising
  <1>13. Before(told[p], z)
    <2>1. \A i \in K : i \in DOMAIN news /\ news[i].player = p /\ ~news[i].delivered
      BY DEF Mine
    <2>2. \A j \in DOMAIN told[p] : \A i \in K : told[p][j] < news[i].id
      BY <1>6, <2>1 DEF Older
    <2> QED
      BY <1>10, <1>11, <2>2 DEF Before
  <1> HIDE DEF K
  <1>14. PICK s : s = told[p]
    OBVIOUS
  <1>15. PICK r : r = Joined(s, z)
    OBVIOUS
  <1>16. /\ r \in Seq(1..queued) /\ Rising(r)
         /\ \A k \in DOMAIN z : \E i \in DOMAIN r : r[i] = z[k]
         /\ \A i \in DOMAIN r : (\E j \in DOMAIN s : r[i] = s[j]) \/ (\E k \in DOMAIN z : r[i] = z[k])
    <2>1. Tells(s, queued) /\ Before(s, z)
      BY <1>1, <1>6, <1>13, <1>14 DEF Tells
    <2>2. Tells(z, queued)
      BY <1>11, <1>12 DEF Tells
    <2>3. /\ Tells(r, queued)
          /\ \A k \in DOMAIN z : \E i \in DOMAIN r : r[i] = z[k]
          /\ \A i \in DOMAIN r : (\E j \in DOMAIN s : r[i] = s[j]) \/ (\E k \in DOMAIN z : r[i] = z[k])
      BY <1>1, <1>15, <2>1, <2>2, ToldLater
    <2> QED
      BY <2>3 DEF Tells
  <1>17. told' = [told EXCEPT ![p] = r]
    BY <1>14, <1>15 DEF TakeNews, z, Joined
  <1>18. told' \in [Players -> Seq(1..queued)] /\ \A o \in Players : Rising(told'[o])
    BY <1>1, <1>6, <1>16, <1>17
  <1>19. Sorted(news')
    BY <1>2, <1>4, <1>5, <1>6 DEF Sorted
  <1>20. Older(news', told')
    <2> SUFFICES ASSUME NEW o \in Players, NEW k \in DOMAIN told'[o], NEW i \in DOMAIN news',
                        news'[i].player = o, ~news'[i].delivered
                 PROVE  told'[o][k] < news'[i].id
      BY DEF Older
    <2>1. o # p
      BY <1>4, <1>5
    <2>2. told'[o] = told[o] /\ news'[i] = news[i]
      BY <1>1, <1>4, <1>5, <1>17, <2>1
    <2> QED
      BY <1>2, <1>5, <1>6, <2>2 DEF Older
  <1>21. \A o : Mine(o, news') = Mine(o, news)
    <2> SUFFICES ASSUME NEW o PROVE Mine(o, news') = Mine(o, news)
      OBVIOUS
    <2>1. \A i : i \in DOMAIN news' /\ news'[i].player = o <=> i \in DOMAIN news /\ news[i].player = o
      BY <1>2, <1>4, <1>5
    <2> QED
      BY <2>1 DEF Mine
  <1>22. Capped(news')
    BY <1>2, <1>5, <1>6, <1>21 DEF Capped
  <1>23. ASSUME NEW o \in Players, NEW i \in Mine(o, news), ~news[i].delivered
         PROVE  \/ \E k \in DOMAIN told'[o] : told'[o][k] = news[i].id
                \/ i \in DOMAIN news' /\ news'[i] = news[i]
    <2>1. i \in 1..n /\ news[i].player = o
      BY <1>2 DEF Mine
    <2>2. CASE o = p
      <3>1. i \in K
        BY <1>23, <2>2 DEF K
      <3>2. PICK k \in 1..c : z[k] = news[i].id
        BY <1>10, <3>1
      <3>3. PICK x \in DOMAIN r : r[x] = news[i].id
        BY <1>11, <1>16, <3>2
      <3>4. told'[p] = r
        BY <1>1, <1>17
      <3> QED
        BY <2>2, <3>3, <3>4
    <2>3. CASE o # p
      BY <1>4, <1>5, <2>1, <2>3
    <2> QED
      BY <2>2, <2>3
  <1>24. Books(news', told', queued', day')
    BY <1>1, <1>5, <1>18, <1>19, <1>20 DEF Books
  <1> QED
    BY <1>22, <1>23, <1>24 DEF IndInv

LEMMA TrimOK ==
  ASSUME IndInv, TrimNews
  PROVE  /\ IndInv' /\ told' = told
         /\ \A i \in DOMAIN news : ~news[i].delivered => \E k \in DOMAIN news' : news'[k] = news[i]
  <1> DEFINE K == {i \in DOMAIN news : ~Stale(news[i])}
  <1>1. /\ news' = Keep(news, K) /\ K \in SUBSET DOMAIN news
        /\ told' = told /\ queued' = queued /\ day' = day + 1
    BY DEF TrimNews
  <1>2. \A i \in DOMAIN news : ~news[i].delivered => i \in K
    BY DEF Stale
  <1> HIDE DEF K
  <1>3. PICK d : d = day + 1
    OBVIOUS
  <1>4. Books(news, told, queued, d)
    <2>1. day \in Nat \ {0} /\ d \in Nat \ {0} /\ 1..day \subseteq 1..d
      BY <1>3 DEF IndInv, Books
    <2>2. Items(queued, day) \subseteq Items(queued, d)
      BY <2>1 DEF Items
    <2>3. news \in Seq(Items(queued, d))
      BY <2>2, SeqGrows DEF IndInv, Books
    <2> QED
      BY <2>1, <2>3 DEF IndInv, Books
  <1>5. PICK r : r = Keep(news, K)
    OBVIOUS
  <1>6. /\ Books(r, told, queued, d) /\ Len(r) = Cardinality(K)
        /\ \A o \in Players : Cardinality(Mine(o, r)) <= Cardinality(Mine(o, news) \cap K)
    BY <1>1, <1>4, <1>5, KeepBooks
  <1>7. news \in Seq(Items(queued, d)) /\ r \in Seq(Items(queued, d))
    BY <1>4, <1>6 DEF Books
  <1>8. MaxItems \in Nat /\ MaxPerPlayer \in Nat /\ Capped(news)
    BY NewsAssumption DEF IndInv
  <1>9. Capped(r)
    <2>1. Len(r) <= MaxItems
      <3>1. PICK n \in Nat : Len(news) = n /\ DOMAIN news = 1..n
        BY <1>7
      <3>2. Cardinality(K) <= n /\ Cardinality(K) \in Nat
        BY <1>1, <3>1, PositionsFinite
      <3> QED
        BY <1>6, <1>8, <3>1, <3>2 DEF Capped
    <2>2. ASSUME NEW o \in Players
          PROVE  Cardinality(Mine(o, r)) <= MaxPerPlayer
      <3>1. /\ Cardinality(Mine(o, r)) \in Nat /\ Cardinality(Mine(o, news)) \in Nat
            /\ Cardinality(Mine(o, news) \cap K) <= Cardinality(Mine(o, news))
            /\ Cardinality(Mine(o, news) \cap K) \in Nat
        BY <1>7, MineFinite
      <3>2. Cardinality(Mine(o, news)) <= MaxPerPlayer
        BY <1>8 DEF Capped
      <3> QED
        BY <1>6, <1>8, <3>1, <3>2
    <2> QED
      BY <2>1, <2>2 DEF Capped
  <1>10. PICK h : IsKept(r, news, K, h)
    BY <1>1, <1>5, <1>7, KeepKeeps
  <1>11. ASSUME NEW i \in K
         PROVE  \E k \in DOMAIN r : r[k] = news[i]
    BY <1>10 DEF IsKept
  <1>12. news' = r /\ day' = d
    BY <1>1, <1>3, <1>5
  <1> QED
    BY <1>1, <1>2, <1>6, <1>9, <1>11, <1>12 DEF IndInv

LEMMA AddOK ==
  ASSUME IndInv, NEW p \in Players, AddNews(p)
  PROVE  /\ IndInv' /\ queued' = queued + 1 /\ told' = told
         /\ \A o \in Players : \A i \in Mine(o, news) :
               \/ \E k \in DOMAIN news' : news'[k] = news[i]
               \/ /\ Cardinality(Mine(o, news)) = MaxPerPlayer \/ Len(news) = MaxItems
                  /\ \A k \in Mine(o, news') : news'[k].id > news[i].id
  <1>1. PICK r : r = CapAll(CapShare(p, Queued(news, p, queued, day)))
    OBVIOUS
  <1>2. news' = r /\ told' = told /\ queued' = queued + 1 /\ day' = day
    BY <1>1 DEF AddNews, Item, Queued, Fresher
  <1>3. /\ Books(r, told, queued + 1, day) /\ Capped(r)
        /\ \A o \in Players : \A i \in Mine(o, news) :
              \/ \E k \in DOMAIN r : r[k] = news[i]
              \/ /\ Cardinality(Mine(o, news)) = MaxPerPlayer \/ Len(news) = MaxItems
                 /\ \A k \in Mine(o, r) : r[k].id > news[i].id
    BY <1>1, Added DEF IndInv
  <1> QED
    BY <1>2, <1>3 DEF IndInv

----------------------------------------------------------------------------
(* The theorems *)

LEMMA InitOK == Init => IndInv
  <1> SUFFICES ASSUME Init PROVE IndInv
    OBVIOUS
  <1>1. news = <<>> /\ queued = 0 /\ day = 1 /\ told = [p \in Players |-> <<>>]
    BY DEF Init
  <1>2. news \in Seq(Items(queued, day)) /\ \A p \in Players : Mine(p, news) = {}
    BY <1>1 DEF Mine
  <1>3. Cardinality({}) = 0 /\ MaxItems \in Nat /\ MaxPerPlayer \in Nat
    BY FS_EmptySet, NewsAssumption
  <1>4. Capped(news)
    <2>1. Len(news) = 0
      BY <1>1
    <2>2. \A p \in Players : Cardinality(Mine(p, news)) = 0
      BY <1>2, <1>3
    <2> QED
      BY <1>3, <2>1, <2>2 DEF Capped
  <1>5. Sorted(news) /\ Older(news, told) /\ \A p \in Players : Rising(told[p])
    BY <1>1 DEF Sorted, Older, Rising
  <1>6. told \in [Players -> Seq(1..queued)]
    BY <1>1
  <1> QED
    BY <1>1, <1>2, <1>4, <1>5, <1>6 DEF IndInv, Books

LEMMA NextOK == IndInv /\ [Next]_vars => IndInv'
  <1> SUFFICES ASSUME IndInv, [Next]_vars PROVE IndInv'
    OBVIOUS
  <1>1. CASE UNCHANGED vars
    BY <1>1 DEF vars, IndInv
  <1> QED
    BY <1>1, AddOK, TakeOK, TrimOK DEF Next

\* The list is in the order queued, its caps hold, and nobody has been told anything
\* newer than what he is still to be told (news.go).
THEOREM NewsInvariance == Spec => []IndInv
  BY InitOK, NextOK, PTL DEF Spec

\* The portal does nothing to the news but what News does.
LEMMA PortalStep == [WebNext]_webVars => [Next]_vars
  <1> SUFFICES ASSUME WebNext PROVE [Next]_vars
    BY DEF webVars, vars
  <1> USE DEF Becomes
  <1>1. ASSUME NEW p \in Browsers, Ui(p)
        PROVE  [Next]_vars
    <2>1. CASE Top(p)
      BY <2>1, WebSessionAssumption DEF Top, Next
    <2>2. CASE ~Top(p)
      BY <1>1, <2>2 DEF Ui, PrintNews, ReadLine, IdleTimeout, EndOfInput, Farewell
    <2> QED
      BY <2>1, <2>2
  <1>2. ASSUME NEW p \in Browsers,
               Connect(p) \/ Reader(p) \/ Writer(p) \/ Evict(p) \/ Send(p) \/ Leave(p) \/ Forget(p)
        PROVE  [Next]_vars
    BY <1>2 DEF Connect, Reader, Deliver, ReadFails, Writer, Take, Write, SeeClosed, Drain, Evict,
                Send, Leave, Forget
  <1>3. CASE Elsewhere
    BY <1>3 DEF Elsewhere
  <1> QED
    BY <1>1, <1>2, <1>3 DEF WebNext

LEMMA PortalIsNews == WebSpec => Spec
  <1>1. WebInit => Init
    BY DEF WebInit
  <1> QED
    BY <1>1, PortalStep, PTL DEF WebSpec, Spec

\* news.go, TakeNews ("oldest first, and marks it delivered"): whatever is queued,
\* capped, trimmed and taken, by the portal or any other way, a player is told each
\* thing once, and in the order it happened.
THEOREM NewsComesOnceInOrder == WebSpec => []ToldOnceInOrder
  <1>1. IndInv => ToldOnceInOrder
    BY DEF IndInv, Books, Rising, ToldOnceInOrder
  <1> QED
    BY <1>1, NewsInvariance, PortalIsNews, PTL

\* The type invariant of the list, with both caps of news.go.
THEOREM NewsWellTyped == Spec => []TypeOK
  <1>1. IndInv => TypeOK
    <2> SUFFICES ASSUME IndInv PROVE TypeOK
      OBVIOUS
    <2>1. news \in Seq(Items(queued, day)) /\ told \in [Players -> Seq(1..queued)] /\ Capped(news)
      BY DEF IndInv, Books
    <2>2. \A p \in Players : Len(Of(p, news)) <= MaxPerPlayer
      BY <2>1, OfIs DEF Capped
    <2> QED
      BY <2>1, <2>2 DEF TypeOK, Items, Capped
  <1> QED
    BY <1>1, NewsInvariance, PTL

\* news.go, AddNews and trimNews: an unread item goes only for a cap that is full,
\* after all of the player's older ones, and never by the nightly trim.
THEOREM UnreadIsLostLast == WebSpec => UnreadGoesLast
  <1> DEFINE A == \A p \in Players : \A n \in Undelivered(p) :
                     n \notin Undelivered(p)' =>
                        \/ \E k \in DOMAIN told'[p] : told'[p][k] = n
                        \/ /\ queued' = queued + 1
                           /\ Len(Of(p, news)) = MaxPerPlayer \/ Len(news) = MaxItems
                           /\ \A m \in ToSet(Of(p, news')) : m.id > n
  <1>1. IndInv /\ IndInv' /\ [Next]_vars => [A]_vars
    <2> SUFFICES ASSUME IndInv, IndInv', Next, NEW p \in Players, NEW n \in Undelivered(p),
                        n \notin Undelivered(p)'
                 PROVE  \/ \E k \in DOMAIN told'[p] : told'[p][k] = n
                        \/ /\ queued' = queued + 1
                           /\ Len(Of(p, news)) = MaxPerPlayer \/ Len(news) = MaxItems
                           /\ \A m \in ToSet(Of(p, news')) : m.id > n
      OBVIOUS
    <2>1. PICK i \in Mine(p, news) : ~news[i].delivered /\ n = news[i].id /\ news[i].player = p
      BY DEF Undelivered, ToSet, Mine
    <2>2. ~(\E k \in DOMAIN news' : news'[k] = news[i])
      BY <2>1 DEF Undelivered, ToSet
    <2>3. i \in DOMAIN news
      BY DEF Mine
    <2>4. CASE TrimNews
      BY <2>1, <2>2, <2>3, <2>4, TrimOK
    <2>5. ASSUME NEW o \in Players, TakeNews(o)
          PROVE  \E k \in DOMAIN told'[p] : told'[p][k] = n
      BY <2>1, <2>2, <2>5, TakeOK
    <2>6. ASSUME NEW o \in Players, AddNews(o)
          PROVE  /\ queued' = queued + 1
                 /\ Len(Of(p, news)) = MaxPerPlayer \/ Len(news) = MaxItems
                 /\ \A m \in ToSet(Of(p, news')) : m.id > n
      <3>1. /\ queued' = queued + 1
            /\ Cardinality(Mine(p, news)) = MaxPerPlayer \/ Len(news) = MaxItems
            /\ \A k \in Mine(p, news') : news'[k].id > n
        BY <2>1, <2>2, <2>6, AddOK
      <3>2. news \in Seq(Items(queued, day))
        BY DEF IndInv, Books
      <3>3. news' \in Seq(Items(queued', day'))
        BY DEF IndInv, Books
      <3>4. PICK r, q, d : r = news' /\ q = queued' /\ d = day'
        OBVIOUS
      <3>5. \A m \in ToSet(Of(p, r)) : \E k \in Mine(p, r) : m = r[k]
        BY <3>3, <3>4, OfIs
      <3>6. Len(Of(p, news)) = Cardinality(Mine(p, news))
        BY <3>2, OfIs
      <3> QED
        BY <3>1, <3>4, <3>5, <3>6
    <2> QED
      BY <2>4, <2>5, <2>6 DEF Next
  <1> QED
    BY <1>1, NewsInvariance, PortalIsNews, PTL DEF UnreadGoesLast, Spec
=============================================================================
