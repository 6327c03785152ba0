---------------------------- MODULE GalaxyProofs ----------------------------
(***************************************************************************)
(* The galaxy is always well formed, whoever does what to whom: for every  *)
(* map, any number of players, forces and planets, and every strength of   *)
(* ships, mines and factions.                                              *)
(*                                                                         *)
(* None of the invariants is inductive, because a command is spread over   *)
(* many steps: what it found when it began must still be so when it goes   *)
(* on.  CmdOK says what each kind of command relies on.  The building      *)
(* blocks (a death, an escape, losses, a force swept away) are dealt with  *)
(* first, as facts about the values they leave.                            *)
(*                                                                         *)
(* For every command two more things are kept track of.  One is how many   *)
(* fighters there are in the galaxy: each step takes them off one account  *)
(* (a ship, a force, a planet, a fleet at sea) and puts no more than that  *)
(* on another, and the sums are over finite sets.  The other is whom the   *)
(* step may touch: none but ships outside Federation space, and, unless    *)
(* they are the commander's own, ships that have moved and whose pilots    *)
(* logged in lately.                                                       *)
(***************************************************************************)
EXTENDS GalaxyNight, TLAPS, FiniteSetTheorems

Battlegroup == [owner : Owners \union {Nobody}, sector : 0..NumSec,
                FIGHTERS : Nat, MINES : Nat]
Planet == [owner : Owners \union {Nobody}, sector : 0..NumSec,
           FIGHTERS : Nat, MINES : Nat, name : PlanetNames]

-----------------------------------------------------------------------------
(* The inductive invariant *)

\* Ships S at sectors sec, lost on the days D: the dead are off the map.
ShipsOK(S, sec, D, today) ==
    /\ S \in [Players -> [Goods -> Nat]]
    /\ sec \in [Players -> 0..NumSec] /\ D \in [Players -> 0..today]
    /\ \A p \in Players : D[p] = 0 <=> sec[p] # 0

\* Defense forces G: one per sector, none in Federation space or of the dead.
ForcesOK(G, D) ==
    /\ G \in [Gids -> Battlegroup]
    /\ \A g \in Gids : Present(G[g]) => G[g].sector > FedMax
    /\ \A g, h \in Gids :
          Present(G[g]) /\ Present(G[h]) /\ G[g].sector = G[h].sector => g = h
    /\ \A p \in Players, g \in Gids : G[g].owner = p => D[p] = 0

\* No force is an empty shell.
Manned(G, g) == Present(G[g]) => G[g].FIGHTERS > 0 \/ G[g].MINES > 0

\* Planets P: the same.
PlanetsOK(P, D) ==
    /\ P \in [Pids -> Planet]
    /\ \A i \in Pids : Present(P[i]) => P[i].sector > FedMax
    /\ \A i, j \in Pids :
          Present(P[i]) /\ Present(P[j]) /\ P[i].sector = P[j].sector => i = j
    /\ \A p \in Players, i \in Pids : P[i].owner = p => D[p] = 0

World ==
    /\ ShipsOK(ship, sector, diedAt, day)
    /\ ForcesOK(garrison, diedAt) /\ \A g \in Gids : Manned(garrison, g)
    /\ PlanetsOK(planet, diedAt)

Clock ==
    /\ day \in Nat \ {0} /\ lastMaint \in 0..day /\ lastSeen \in [Players -> 1..day]
    /\ turns \in [Players -> 0..TurnsPerDay] /\ banked \in [Players -> 0..TurnsPerDay]

Marks == everMoved \in [Players -> BOOLEAN] /\ expired \in [Players -> BOOLEAN]

\* All the fields of cmd.
Whole(c) ==
    c = [op |-> c.op, who |-> c.who, other |-> c.other, slot |-> c.slot, src |-> c.src,
         left |-> c.left, ships |-> c.ships, route |-> c.route, todo |-> c.todo,
         awake |-> c.awake, next |-> c.next]

\* A living player outside Federation space.
Exposed(q) == q \in Players /\ Alive(q) /\ sector[q] > FedMax

UnderMines(c) ==
    /\ c.who \in Players /\ Alive(c.who) /\ c.slot \in Gids
    /\ sector[c.who] = garrison[c.slot].sector
    /\ garrison[c.slot].owner \notin {Nobody, c.who} /\ garrison[c.slot].MINES > 0

Storming(c) ==
    /\ c.who \in Players /\ Alive(c.who) /\ c.slot \in Pids
    /\ Present(planet[c.slot]) /\ sector[c.who] = planet[c.slot].sector
    /\ planet[c.slot].MINES = c.left /\ ship[c.who]["FIGHTERS"] > 0

BreakingUp(c) ==
    /\ c.who \in Players /\ Exposed(c.other) /\ c.who # c.other
    /\ c.left > 0 => Alive(c.who) /\ sector[c.who] = sector[c.other]

\* A faction with a stronghold to send raids from, and players still to raid.
Raiding(c) ==
    /\ c.who \in {"cabal", "renegades"} /\ c.src \in Pids
    /\ \A q \in c.todo : Exposed(q)

\* A fleet: a player's, which may be among ships it met; or a faction's on its
\* way to a target it will not be sent against again.
Sailing(c) ==
    \/ c.who \in Players /\ \A q \in c.todo : Exposed(q) /\ q # c.who
    \/ /\ Raiding(c) /\ c.op # "engage" /\ c.next \in {"mayhem", "raids"}
       /\ Exposed(c.other) /\ c.other \notin c.todo

\* What the command under way relies on.
CommandOK(c) ==
    /\ Whole(c) /\ c.left \in Nat /\ c.ships \in Nat
    /\ c.op = "minefield" => UnderMines(c)
    /\ c.op = "storm" => Storming(c)
    /\ c.op = "carried" => BreakingUp(c)
    /\ c.op \in {"transit", "sweep", "engage"} => Sailing(c)
    /\ c.op = "sweep" => c.slot \in Gids /\ garrison[c.slot].MINES > 0
    /\ c.op = "gate" => c.who \in {"cabal", "renegades"} /\ c.todo = {}
    /\ c.op \in {"hunt", "mayhem", "raids"} => Raiding(c)
    /\ c.op = "hunt" => c.todo = {}

CmdOK == CommandOK(cmd)

IndInv == World /\ Clock /\ Marks /\ CmdOK

-----------------------------------------------------------------------------
(* Sums over finite sets *)

LEMMA SmallestSet ==
    ASSUME NEW S, IsFiniteSet(S), NEW B \in SUBSET (SUBSET S), B # {}
    PROVE  \E T \in B : \A U \in B : U \subseteq T => U = T
<1> DEFINE R == StrictSubsetOrdering(S)
<1>1. IsWellFoundedOn(R, FiniteSubsetsOf(S)) /\ FiniteSubsetsOf(S) = SUBSET S
    BY FS_StrictSubsetOrderingWellFounded, FS_FiniteSubsetsOfFinite
<1>2. \A T, U \in SUBSET S : U \subseteq T /\ U # T => <<U, T>> \in R
    BY DEF StrictSubsetOrdering
<1> HIDE DEF R
<1>3. PICK T \in B : \A U \in B : ~(<<U, T>> \in R)
    BY <1>1, WFMin
<1> QED
    BY <1>2, <1>3

\* g[T] is the sum of h over T, for every subset T of S, in whatever order.
Sums(g, h, S) ==
    /\ g \in [SUBSET S -> Nat] /\ g[{}] = 0
    /\ \A T \in SUBSET S : \A x \in T : g[T] = h[x] + g[T \ {x}]

LEMMA SumsGrow ==
    ASSUME NEW S, NEW h \in [S -> Nat], NEW T \in SUBSET S, NEW x \in T,
           NEW k, Sums(k, h, T \ {x})
    PROVE  \E g : Sums(g, h, T)
<1> DEFINE g == [U \in SUBSET T |-> IF x \in U THEN h[x] + k[U \ {x}] ELSE k[U]]
<1>1. \A U \in SUBSET (T \ {x}) : k[U] \in Nat
    BY DEF Sums
<1>2. \A U \in SUBSET T : /\ U \ {x} \in SUBSET (T \ {x})
                          /\ x \notin U => U \in SUBSET (T \ {x})
    OBVIOUS
<1>3. \A y \in T : h[y] \in Nat
    OBVIOUS
<1>4. \A U \in SUBSET T : g[U] = IF x \in U THEN h[x] + k[U \ {x}] ELSE k[U]
    OBVIOUS
<1>5. g \in [SUBSET T -> Nat]
  <2>1. ASSUME NEW U \in SUBSET T
        PROVE  (IF x \in U THEN h[x] + k[U \ {x}] ELSE k[U]) \in Nat
    <3>1. h[x] \in Nat /\ k[U \ {x}] \in Nat /\ (x \notin U => k[U] \in Nat)
        BY <1>1, <1>2, <1>3
    <3> QED
        BY <3>1
  <2> QED
      BY <2>1
<1>6. g[{}] = 0
    BY <1>4 DEF Sums
<1> HIDE DEF g
<1>7. ASSUME NEW U \in SUBSET T, NEW y \in U PROVE g[U] = h[y] + g[U \ {y}]
  <2>1. U \ {y} \in SUBSET T
      OBVIOUS
  <2>2. CASE y = x
      BY <1>4, <2>1, <2>2
  <2>3. CASE y # x /\ x \notin U
    <3>1. U \in SUBSET (T \ {x})
        BY <2>3
    <3>2. k[U] = h[y] + k[U \ {y}]
        BY <3>1 DEF Sums
    <3> QED
        BY <1>4, <2>1, <2>3, <3>2
  <2>4. CASE y # x /\ x \in U
    <3>1. U \ {x} \in SUBSET (T \ {x}) /\ y \in U \ {x} /\ (U \ {x}) \ {y} = (U \ {y}) \ {x}
        BY <2>4
    <3>2. k[U \ {x}] = h[y] + k[(U \ {y}) \ {x}]
      <4>1. PICK V : V = U \ {x}
          OBVIOUS
      <4>2. k[V] = h[y] + k[V \ {y}]
          BY <3>1, <4>1 DEF Sums
      <4> QED
          BY <3>1, <4>1, <4>2
    <3>3. g[U] = h[x] + k[U \ {x}] /\ g[U \ {y}] = h[x] + k[(U \ {y}) \ {x}]
        BY <1>4, <2>1, <2>4
    <3>4. PICK m \in Nat : m = k[(U \ {y}) \ {x}]
        BY <1>1, <1>2, <2>1
    <3>5. h[x] \in Nat /\ h[y] \in Nat
        BY <1>3
    <3>6. g[U] = h[x] + (h[y] + m) /\ g[U \ {y}] = h[x] + m
        BY <3>2, <3>3, <3>4
    <3> QED
        BY <3>5, <3>6
  <2> QED
      BY <2>2, <2>3, <2>4
<1> QED
    BY <1>5, <1>6, <1>7 DEF Sums

LEMMA SumsExist ==
    ASSUME NEW S, IsFiniteSet(S), NEW h \in [S -> Nat]
    PROVE  \E g : Sums(g, h, S)
<1> DEFINE B == {T \in SUBSET S : ~ \E g : Sums(g, h, T)}
<1>1. SUFFICES ASSUME B # {} PROVE FALSE
    OBVIOUS
<1>2. PICK T \in B : \A U \in B : U \subseteq T => U = T
  <2>1. B \in SUBSET (SUBSET S)
      OBVIOUS
  <2> HIDE DEF B
  <2> QED
      BY <1>1, <2>1, SmallestSet
<1>3. T \in SUBSET S /\ ~ \E g : Sums(g, h, T)
    OBVIOUS
<1>4. CASE T = {}
  <2> DEFINE g == [U \in {{}} |-> 0]
  <2>1. g \in [SUBSET {} -> Nat] /\ g[{}] = 0
      OBVIOUS
  <2>2. \A U \in SUBSET {} : \A x \in U : FALSE
      OBVIOUS
  <2> HIDE DEF g
  <2> QED
      BY <1>3, <1>4, <2>1, <2>2 DEF Sums
<1>5. CASE T # {}
  <2>1. PICK x \in T : TRUE
      BY <1>5
  <2>2. T \ {x} \in SUBSET S /\ T \ {x} \subseteq T /\ T \ {x} # T
      BY <1>3
  <2>3. T \ {x} \notin B
      BY <1>2, <2>2
  <2>4. PICK k : Sums(k, h, T \ {x})
      BY <2>2, <2>3
  <2> HIDE DEF B
  <2> QED
      BY <1>3, <2>4, SumsGrow
<1> QED
    BY <1>4, <1>5

LEMMA TotalIs ==
    ASSUME NEW S, IsFiniteSet(S), NEW h, NEW g, Sums(g, h, S)
    PROVE  Total(h, S) = g[S]
<1> DEFINE D(f) == [s \in SUBSET S |-> IF s = {} THEN 0
                                       ELSE h[CHOOSE x \in s : TRUE] + f[s \ {CHOOSE x \in s : TRUE}]]
           it == CHOOSE f : f = D(f)
<1>1. Total(h, S) = it[S]
    BY DEF Total, MapThenSumSet, MapThenFoldSet
<1>2. g = D(g)
  <2>1. \A s \in SUBSET S : g[s] = D(g)[s]
    <3> SUFFICES ASSUME NEW s \in SUBSET S, s # {}
                 PROVE  g[s] = h[CHOOSE x \in s : TRUE] + g[s \ {CHOOSE x \in s : TRUE}]
        BY DEF Sums
    <3>1. PICK y \in s : y = CHOOSE x \in s : TRUE
        OBVIOUS
    <3> QED
        BY <3>1 DEF Sums
  <2>2. g \in [SUBSET S -> Nat]
      BY DEF Sums
  <2> QED
      BY <2>1, <2>2
<1>3. it = D(it)
  <2> HIDE DEF D
  <2> QED
      BY <1>2
<1> HIDE DEF it
<1>4. \A s \in SUBSET S : it[s] = g[s]
  <2> DEFINE B == {s \in SUBSET S : it[s] # g[s]}
  <2>1. SUFFICES ASSUME B # {} PROVE FALSE
      OBVIOUS
  <2>2. PICK T \in B : \A U \in B : U \subseteq T => U = T
    <3>1. B \in SUBSET (SUBSET S)
        OBVIOUS
    <3> HIDE DEF B
    <3> QED
        BY <2>1, <3>1, SmallestSet
  <2>3. T \in SUBSET S /\ it[T] # g[T]
      OBVIOUS
  <2>4. it[T] = D(it)[T] /\ g[T] = D(g)[T]
    <3> HIDE DEF D
    <3> QED
        BY <1>2, <1>3
  <2>5. CASE T = {}
      BY <2>3, <2>4, <2>5
  <2>6. CASE T # {}
    <3>1. PICK y \in T : y = CHOOSE x \in T : TRUE
        BY <2>6
    <3>2. T \ {y} \in SUBSET S /\ T \ {y} \subseteq T /\ T \ {y} # T
        BY <2>3
    <3>3. it[T \ {y}] = g[T \ {y}]
        BY <2>2, <3>2
    <3>4. it[T] = h[y] + it[T \ {y}] /\ g[T] = h[y] + g[T \ {y}]
        BY <2>3, <2>4, <2>6, <3>1
    <3> QED
        BY <2>3, <3>3, <3>4
  <2> QED
      BY <2>5, <2>6
<1>5. S \in SUBSET S
    OBVIOUS
<1> QED
    BY <1>1, <1>4, <1>5

\* A sum is a natural number; less of everything makes no more, and the same
\* makes the same.
LEMMA TotalGrows ==
    ASSUME NEW S, IsFiniteSet(S), NEW h \in [S -> Nat], NEW k \in [S -> Nat],
           \A x \in S : k[x] <= h[x]
    PROVE  Total(h, S) \in Nat /\ Total(k, S) \in Nat /\ Total(k, S) <= Total(h, S)
<1>1. PICK a, b : Sums(a, h, S) /\ Sums(b, k, S)
    BY SumsExist
<1>2. Total(h, S) = a[S] /\ Total(k, S) = b[S]
    BY <1>1, TotalIs
<1>3. \A T \in SUBSET S : a[T] \in Nat /\ b[T] \in Nat
    BY <1>1 DEF Sums
<1> DEFINE B == {T \in SUBSET S : ~(b[T] <= a[T])}
<1>4. ASSUME B # {} PROVE FALSE
  <2>1. PICK T \in B : \A U \in B : U \subseteq T => U = T
    <3>1. B \in SUBSET (SUBSET S)
        OBVIOUS
    <3> HIDE DEF B
    <3> QED
        BY <1>4, <3>1, SmallestSet
  <2>2. T \in SUBSET S /\ ~(b[T] <= a[T])
      OBVIOUS
  <2>3. T # {}
    <3>1. a[{}] = 0 /\ b[{}] = 0 /\ 0 <= 0
        BY <1>1 DEF Sums
    <3> QED
        BY <2>2, <3>1
  <2>4. PICK x \in T : TRUE
      BY <2>3
  <2>5. T \ {x} \in SUBSET S /\ T \ {x} \subseteq T /\ T \ {x} # T
      BY <2>2
  <2>6. b[T \ {x}] <= a[T \ {x}]
      BY <2>1, <2>5
  <2>7. a[T] = h[x] + a[T \ {x}] /\ b[T] = k[x] + b[T \ {x}]
    <3> HIDE DEF B
    <3> QED
        BY <1>1, <2>2, <2>4 DEF Sums
  <2>8. PICK m \in Nat, n \in Nat : m = a[T \ {x}] /\ n = b[T \ {x}]
      BY <1>3, <2>5
  <2>9. h[x] \in Nat /\ k[x] \in Nat /\ k[x] <= h[x]
      BY <2>2
  <2> QED
      BY <2>2, <2>6, <2>7, <2>8, <2>9
<1>5. S \in SUBSET S
    OBVIOUS
<1> QED
    BY <1>2, <1>3, <1>4, <1>5

\* Changing one term changes the sum by as much.
LEMMA TotalChanges ==
    ASSUME NEW S, IsFiniteSet(S), NEW h \in [S -> Nat], NEW k \in [S -> Nat],
           NEW x \in S, \A y \in S \ {x} : k[y] = h[y]
    PROVE  /\ Total(h, S) \in Nat /\ Total(k, S) \in Nat
           /\ Total(k, S) + h[x] = Total(h, S) + k[x]
<1>1. PICK a, b : Sums(a, h, S) /\ Sums(b, k, S)
    BY SumsExist
<1>2. Total(h, S) = a[S] /\ Total(k, S) = b[S]
    BY <1>1, TotalIs
<1>3. \A T \in SUBSET S : a[T] \in Nat /\ b[T] \in Nat
    BY <1>1 DEF Sums
<1> DEFINE B == {T \in SUBSET (S \ {x}) : b[T] # a[T]}
<1>4. ASSUME B # {} PROVE FALSE
  <2>1. PICK T \in B : \A U \in B : U \subseteq T => U = T
    <3>1. B \in SUBSET (SUBSET S)
        OBVIOUS
    <3> HIDE DEF B
    <3> QED
        BY <1>4, <3>1, SmallestSet
  <2>2. T \in SUBSET S /\ x \notin T /\ b[T] # a[T]
      OBVIOUS
  <2>3. T # {}
      BY <1>1, <2>2 DEF Sums
  <2>4. PICK y \in T : TRUE
      BY <2>3
  <2>5. T \ {y} \in SUBSET (S \ {x}) /\ T \ {y} \subseteq T /\ T \ {y} # T
      BY <2>2
  <2>6. b[T \ {y}] = a[T \ {y}]
      BY <2>1, <2>5
  <2>7. a[T] = h[y] + a[T \ {y}] /\ b[T] = k[y] + b[T \ {y}]
      BY <1>1, <2>2 DEF Sums
  <2>8. k[y] = h[y]
      BY <2>2
  <2> QED
      BY <2>2, <2>6, <2>7, <2>8
<1>5. S \in SUBSET S /\ S \ {x} \in SUBSET (S \ {x}) /\ S \ {x} \in SUBSET S
    OBVIOUS
<1>6. a[S] = h[x] + a[S \ {x}] /\ b[S] = k[x] + b[S \ {x}]
    BY <1>1, <1>5 DEF Sums
<1>7. b[S \ {x}] = a[S \ {x}]
    BY <1>4, <1>5
<1>8. PICK m \in Nat : m = a[S \ {x}]
    BY <1>3, <1>5
<1>9. h[x] \in Nat /\ k[x] \in Nat
    OBVIOUS
<1> QED
    BY <1>2, <1>3, <1>5, <1>6, <1>7, <1>8, <1>9

-----------------------------------------------------------------------------
(* Building blocks *)

Fleet == [Players -> [Goods -> Nat]]

LEMMA LossesAreBounded ==
    ASSUME NEW a \in Nat, NEW d \in Nat, NEW loss \in AttritionLosses(a, d)
    PROVE  /\ loss[1] \in 0..a /\ loss[2] \in 0..d
           /\ a = 0 \/ d = 0 => loss[1] = 0 /\ loss[2] = 0
           /\ a > 0 /\ d > 0 => \/ loss[1] = a /\ loss[2] < d
                                \/ loss[1] < a /\ loss[2] = d
BY DEF AttritionLosses

LEMMA AtMostIs ==
    ASSUME NEW n \in Nat, NEW cap \in Nat
    PROVE  AtMost(n, cap) \in 0..cap
BY DEF AtMost

\* Taking something off a ship touches that good of that ship alone.
LEMMA LessIs ==
    ASSUME NEW S \in Fleet, NEW p \in Players, NEW good \in Goods,
           NEW k \in 0..S[p][good], NEW T, T = Less(S, p, good, k)
    PROVE  /\ T \in Fleet /\ T[p][good] = S[p][good] - k
           /\ \A x \in Goods : x # good => T[p][x] = S[p][x]
           /\ \A q \in Players : q # p => T[q] = S[q]
<1>1. T = [S EXCEPT ![p] = [S[p] EXCEPT ![good] = S[p][good] - k]]
    BY DEF Less
<1>2. S[p] \in [Goods -> Nat] /\ S[p][good] - k \in Nat
    BY DEF Fleet
<1> DEFINE L == [S[p] EXCEPT ![good] = S[p][good] - k]
<1>3. /\ L \in [Goods -> Nat] /\ L[good] = S[p][good] - k
      /\ \A x \in Goods : x # good => L[x] = S[p][x]
    BY <1>2
<1> HIDE DEF L
<1>4. T = [S EXCEPT ![p] = L]
    BY <1>1 DEF L
<1> QED
    BY <1>3, <1>4 DEF Fleet

Holding(S, p, good, k) == [S EXCEPT ![p][good] = k]

LEMMA HoldingIs ==
    ASSUME NEW S \in Fleet, NEW p \in Players, NEW good \in Goods,
           NEW k \in Nat, NEW T, T = Holding(S, p, good, k)
    PROVE  /\ T \in Fleet /\ T[p][good] = k
           /\ \A x \in Goods : x # good => T[p][x] = S[p][x]
           /\ \A q \in Players : q # p => T[q] = S[q]
<1>1. T = [S EXCEPT ![p] = [S[p] EXCEPT ![good] = k]]
    BY DEF Holding
<1>2. S[p] \in [Goods -> Nat]
    BY DEF Fleet
<1> DEFINE L == [S[p] EXCEPT ![good] = k]
<1>3. /\ L \in [Goods -> Nat] /\ L[good] = k
      /\ \A x \in Goods : x # good => L[x] = S[p][x]
    BY <1>2
<1> HIDE DEF L
<1>4. T = [S EXCEPT ![p] = L]
    BY <1>1 DEF L
<1> QED
    BY <1>3, <1>4 DEF Fleet

\* Only owners and places matter to the order of the forces.
LEMMA ForcesKeepPlaces ==
    ASSUME NEW G, NEW D, ForcesOK(G, D), NEW H \in [Gids -> Battlegroup],
           \A g \in Gids : H[g].owner = G[g].owner /\ H[g].sector = G[g].sector
    PROVE  ForcesOK(H, D)
BY DEF ForcesOK, Present

Thinned(G, g, k) == [G EXCEPT ![g].FIGHTERS = @ - k]
Unmined(G, g) == [G EXCEPT ![g].MINES = @ - 1]

LEMMA ForceThinned ==
    ASSUME NEW G, NEW D, ForcesOK(G, D), NEW g \in Gids, NEW k \in 0..G[g].FIGHTERS,
           NEW H, H = Thinned(G, g, k)
    PROVE  /\ ForcesOK(H, D)
           /\ H[g].FIGHTERS = G[g].FIGHTERS - k /\ H[g].MINES = G[g].MINES
           /\ H[g].owner = G[g].owner /\ H[g].sector = G[g].sector
           /\ \A h \in Gids : h # g => H[h] = G[h]
<1>1. G \in [Gids -> Battlegroup]
    BY DEF ForcesOK
<1>2. G[g] \in Battlegroup
    BY <1>1
<1> DEFINE F == [G[g] EXCEPT !.FIGHTERS = G[g].FIGHTERS - k]
<1>3. /\ F \in Battlegroup /\ F.FIGHTERS = G[g].FIGHTERS - k /\ F.MINES = G[g].MINES
      /\ F.owner = G[g].owner /\ F.sector = G[g].sector
    BY <1>2 DEF Battlegroup
<1>4. H = [G EXCEPT ![g] = F]
    BY DEF Thinned
<1> HIDE DEF F
<1>5. H \in [Gids -> Battlegroup] /\ H[g] = F /\ \A h \in Gids : h # g => H[h] = G[h]
    BY <1>1, <1>3, <1>4
<1>6. \A h \in Gids : H[h].owner = G[h].owner /\ H[h].sector = G[h].sector
    BY <1>3, <1>5
<1> QED
    BY <1>3, <1>5, <1>6, ForcesKeepPlaces

LEMMA MineSpent ==
    ASSUME NEW G, NEW D, ForcesOK(G, D), NEW g \in Gids, G[g].MINES > 0,
           NEW H, H = Unmined(G, g)
    PROVE  /\ ForcesOK(H, D)
           /\ H[g].MINES = G[g].MINES - 1 /\ H[g].FIGHTERS = G[g].FIGHTERS
           /\ H[g].owner = G[g].owner /\ H[g].sector = G[g].sector
           /\ \A h \in Gids : h # g => H[h] = G[h]
<1>1. G \in [Gids -> Battlegroup]
    BY DEF ForcesOK
<1>2. G[g] \in Battlegroup
    BY <1>1
<1> DEFINE F == [G[g] EXCEPT !.MINES = G[g].MINES - 1]
<1>3. /\ F \in Battlegroup /\ F.MINES = G[g].MINES - 1 /\ F.FIGHTERS = G[g].FIGHTERS
      /\ F.owner = G[g].owner /\ F.sector = G[g].sector
    BY <1>2 DEF Battlegroup
<1>4. H = [G EXCEPT ![g] = F]
    BY DEF Unmined
<1> HIDE DEF F
<1>5. H \in [Gids -> Battlegroup] /\ H[g] = F /\ \A h \in Gids : h # g => H[h] = G[h]
    BY <1>1, <1>3, <1>4
<1>6. \A h \in Gids : H[h].owner = G[h].owner /\ H[h].sector = G[h].sector
    BY <1>3, <1>5
<1> QED
    BY <1>3, <1>5, <1>6, ForcesKeepPlaces

\* A force swept away leaves the others as they are, and no empty shell behind.
LEMMA SweptIs ==
    ASSUME NEW G, NEW D, ForcesOK(G, D), NEW g \in Gids, NEW H, H = Swept(G, g)
    PROVE  /\ ForcesOK(H, D) /\ Manned(H, g)
           /\ \A h \in Gids : h # g => H[h] = G[h]
           /\ G[g].FIGHTERS > 0 \/ G[g].MINES > 0 => H = G
           /\ \A h \in Gids : H[h].FIGHTERS = G[h].FIGHTERS
<1>1. G \in [Gids -> Battlegroup]
    BY DEF ForcesOK
<1>2. G[g] \in Battlegroup
    BY <1>1
<1>3. G[g].FIGHTERS \in Nat /\ G[g].MINES \in Nat
    BY <1>2 DEF Battlegroup
<1>4. CASE G[g].FIGHTERS > 0 \/ G[g].MINES > 0
    BY <1>3, <1>4 DEF Swept, Manned
<1>5. CASE ~(G[g].FIGHTERS > 0 \/ G[g].MINES > 0)
  <2>1. H = [G EXCEPT ![g] = VacantForce]
      BY <1>3, <1>5 DEF Swept
  <2>2. /\ VacantForce \in Battlegroup /\ VacantForce.owner = Nobody
        /\ VacantForce.FIGHTERS = 0
      BY GalaxyAssumption DEF VacantForce, Battlegroup
  <2>3. /\ H \in [Gids -> Battlegroup] /\ H[g].owner = Nobody /\ H[g].FIGHTERS = 0
        /\ \A h \in Gids : h # g => H[h] = G[h]
      BY <1>1, <2>1, <2>2
  <2>4. Nobody \notin Players
      BY GalaxyAssumption
  <2>5. ~Present(H[g])
      BY <2>3 DEF Present
  <2>6. ForcesOK(H, D)
      BY <2>3, <2>4, <2>5 DEF ForcesOK
  <2>7. \A h \in Gids : H[h].FIGHTERS = G[h].FIGHTERS
      BY <1>3, <1>5, <2>3
  <2> QED
      BY <1>5, <2>3, <2>5, <2>6, <2>7 DEF Manned
<1> QED
    BY <1>4, <1>5

LEMMA PlanetsKeepPlaces ==
    ASSUME NEW P, NEW D, PlanetsOK(P, D), NEW Q \in [Pids -> Planet],
           \A i \in Pids : Q[i].owner = P[i].owner /\ Q[i].sector = P[i].sector
    PROVE  PlanetsOK(Q, D)
BY DEF PlanetsOK, Present

Restocked(P, i, kind, n) == [P EXCEPT ![i][kind] = n]

\* Stationing another number of fighters or mines on a planet.
LEMMA PlanetRestocked ==
    ASSUME NEW P, NEW D, PlanetsOK(P, D), NEW i \in Pids, NEW n \in Nat, NEW Q,
           NEW kind \in {"FIGHTERS", "MINES"}, Q = Restocked(P, i, kind, n)
    PROVE  /\ PlanetsOK(Q, D) /\ Q[i][kind] = n
           /\ \A x \in {"FIGHTERS", "MINES"} : x # kind => Q[i][x] = P[i][x]
           /\ Q[i].owner = P[i].owner /\ Q[i].sector = P[i].sector
           /\ \A j \in Pids : j # i => Q[j] = P[j]
<1>1. P \in [Pids -> Planet]
    BY DEF PlanetsOK
<1>2. P[i] \in Planet
    BY <1>1
<1> DEFINE F == [P[i] EXCEPT ![kind] = n]
<1>3. /\ F \in Planet /\ F[kind] = n /\ F.owner = P[i].owner /\ F.sector = P[i].sector
      /\ \A x \in {"FIGHTERS", "MINES"} : x # kind => F[x] = P[i][x]
  <2>1. CASE kind = "FIGHTERS"
      BY <1>2, <2>1 DEF Planet
  <2>2. CASE kind = "MINES"
      BY <1>2, <2>2 DEF Planet
  <2> QED
      BY <2>1, <2>2
<1>4. Q = [P EXCEPT ![i] = F]
    BY DEF Restocked
<1> HIDE DEF F
<1>5. Q \in [Pids -> Planet] /\ Q[i] = F /\ \A j \in Pids : j # i => Q[j] = P[j]
    BY <1>1, <1>3, <1>4
<1>6. \A j \in Pids : Q[j].owner = P[j].owner /\ Q[j].sector = P[j].sector
    BY <1>3, <1>5
<1> QED
    BY <1>3, <1>5, <1>6, PlanetsKeepPlaces

LEMMA PlanetGarrisoned ==
    ASSUME NEW P, NEW D, PlanetsOK(P, D), NEW i \in Pids, NEW n \in Nat,
           NEW Q, Q = Restocked(P, i, "FIGHTERS", n)
    PROVE  /\ PlanetsOK(Q, D) /\ Q[i].FIGHTERS = n /\ Q[i].MINES = P[i].MINES
           /\ Q[i].owner = P[i].owner /\ Q[i].sector = P[i].sector
           /\ \A j \in Pids : j # i => Q[j] = P[j]
<1>1. PICK kind \in {"FIGHTERS", "MINES"} : kind = "FIGHTERS"
    OBVIOUS
<1>2. Q = Restocked(P, i, kind, n)
    BY <1>1
<1>3. /\ PlanetsOK(Q, D) /\ Q[i][kind] = n
      /\ \A x \in {"FIGHTERS", "MINES"} : x # kind => Q[i][x] = P[i][x]
      /\ Q[i].owner = P[i].owner /\ Q[i].sector = P[i].sector
      /\ \A j \in Pids : j # i => Q[j] = P[j]
    BY <1>2, PlanetRestocked
<1>4. Q[i].FIGHTERS = n /\ Q[i].MINES = P[i].MINES
    BY <1>1, <1>3
<1> QED
    BY <1>3, <1>4

LEMMA PlanetMined ==
    ASSUME NEW P, NEW D, PlanetsOK(P, D), NEW i \in Pids, NEW n \in Nat,
           NEW Q, Q = Restocked(P, i, "MINES", n)
    PROVE  /\ PlanetsOK(Q, D) /\ Q[i].MINES = n /\ Q[i].FIGHTERS = P[i].FIGHTERS
           /\ Q[i].owner = P[i].owner /\ Q[i].sector = P[i].sector
           /\ \A j \in Pids : j # i => Q[j] = P[j]
<1>1. PICK kind \in {"FIGHTERS", "MINES"} : kind = "MINES"
    OBVIOUS
<1>2. Q = Restocked(P, i, kind, n)
    BY <1>1
<1>3. /\ PlanetsOK(Q, D) /\ Q[i][kind] = n
      /\ \A x \in {"FIGHTERS", "MINES"} : x # kind => Q[i][x] = P[i][x]
      /\ Q[i].owner = P[i].owner /\ Q[i].sector = P[i].sector
      /\ \A j \in Pids : j # i => Q[j] = P[j]
    BY <1>2, PlanetRestocked
<1>4. Q[i].MINES = n /\ Q[i].FIGHTERS = P[i].FIGHTERS
    BY <1>1, <1>3
<1> QED
    BY <1>3, <1>4

Placed(P, i, x) == [P EXCEPT ![i] = x]

\* A planet in a sector of deep space that has no other, of a living owner or
\* of nobody's.
LEMMA PlanetSettled ==
    ASSUME NEW P, NEW D, PlanetsOK(P, D), NEW i \in Pids, NEW x \in Planet,
           NEW Q, Q = Placed(P, i, x),
           Present(x) => x.sector > FedMax,
           Present(x) => \A j \in Pids : j # i /\ Present(P[j]) => P[j].sector # x.sector,
           \A p \in Players : x.owner = p => D[p] = 0
    PROVE  PlanetsOK(Q, D)
<1>1. P \in [Pids -> Planet]
    BY DEF PlanetsOK
<1>2. Q \in [Pids -> Planet] /\ Q[i] = x /\ \A j \in Pids : j # i => Q[j] = P[j]
    BY <1>1 DEF Placed
<1>3. \A j \in Pids : Present(Q[j]) => Q[j].sector > FedMax
    BY <1>2 DEF PlanetsOK
<1>4. \A j, k \in Pids :
          Present(Q[j]) /\ Present(Q[k]) /\ Q[j].sector = Q[k].sector => j = k
    BY <1>2 DEF PlanetsOK
<1>5. \A p \in Players, j \in Pids : Q[j].owner = p => D[p] = 0
    BY <1>2 DEF PlanetsOK
<1> QED
    BY <1>2, <1>3, <1>4, <1>5 DEF PlanetsOK

LEMMA NobodyIsNoPlayer ==
    /\ \A p \in Players : p # Nobody /\ p \notin NPCs
    /\ Nobody \notin NPCs /\ {"renegades", "cabal", "federation"} \subseteq NPCs
BY GalaxyAssumption DEF NPCs, Nobody

LEMMA VacantPlanetIs ==
    VacantPlanet \in Planet /\ VacantPlanet.owner = Nobody /\ ~Present(VacantPlanet)
BY GalaxyAssumption DEF VacantPlanet, Planet, PlanetNames, Present

\* The forces of the players in E go to the Renegades: none of these players
\* owns any, whether they are dead (on the days D2) or not.
LEMMA ForcesForfeited ==
    ASSUME NEW G, NEW D, ForcesOK(G, D), NEW E \in SUBSET Players, NEW D2,
           \A p \in Players \ E : D2[p] = D[p],
           NEW H, H = ForfeitForces(G, E)
    PROVE  /\ ForcesOK(H, D2)
           /\ \A g \in Gids : Manned(G, g) => Manned(H, g)
           /\ \A g \in Gids : H[g].FIGHTERS = G[g].FIGHTERS
<1>1. G \in [Gids -> Battlegroup]
    BY DEF ForcesOK
<1>2. \A g \in Gids : G[g] \in Battlegroup
    BY <1>1
<1>3. \A g \in Gids : [G[g] EXCEPT !.owner = "renegades"] \in Battlegroup
    BY <1>2 DEF Battlegroup, Owners, NPCs
<1>4. H \in [Gids -> Battlegroup]
    BY <1>2, <1>3 DEF ForfeitForces
<1>5. \A g \in Gids : /\ H[g].owner = IF G[g].owner \in E THEN "renegades" ELSE G[g].owner
                      /\ H[g].sector = G[g].sector
                      /\ H[g].FIGHTERS = G[g].FIGHTERS /\ H[g].MINES = G[g].MINES
    BY <1>2 DEF ForfeitForces, Battlegroup
<1>6. \A g \in Gids : Present(H[g]) <=> Present(G[g])
    BY <1>5, NobodyIsNoPlayer DEF Present
<1>7. \A p \in Players, g \in Gids : H[g].owner = p => G[g].owner = p /\ p \notin E
    BY <1>5, NobodyIsNoPlayer
<1> HIDE DEF ForfeitForces
<1>8. ForcesOK(H, D2)
    BY <1>4, <1>5, <1>6, <1>7 DEF ForcesOK
<1> QED
    BY <1>5, <1>6, <1>8 DEF Manned

LEMMA PlanetsForfeited ==
    ASSUME NEW P, NEW D, PlanetsOK(P, D), NEW E \in SUBSET Players, NEW D2,
           \A p \in Players \ E : D2[p] = D[p], ForfeitPlanets(P, E)
    PROVE  PlanetsOK(planet', D2) /\ \A i \in Pids : planet'[i].FIGHTERS = P[i].FIGHTERS
<1>1. PICK heir \in [{i \in Pids : P[i].owner \in E} -> {"cabal", "federation"}] :
          planet' = [i \in Pids |-> IF P[i].owner \in E
                                    THEN [P[i] EXCEPT !.owner = heir[i]] ELSE P[i]]
    BY DEF ForfeitPlanets
<1>2. P \in [Pids -> Planet]
    BY DEF PlanetsOK
<1>3. \A i \in Pids : P[i] \in Planet
    BY <1>2
<1>4. \A i \in Pids : P[i].owner \in E => heir[i] \in {"cabal", "federation"}
    OBVIOUS
<1>5. \A i \in Pids : P[i].owner \in E => [P[i] EXCEPT !.owner = heir[i]] \in Planet
    BY <1>3, <1>4 DEF Planet, Owners, NPCs
<1>6. planet' \in [Pids -> Planet]
    BY <1>1, <1>3, <1>5
<1>7. \A i \in Pids :
          /\ planet'[i].owner = IF P[i].owner \in E THEN heir[i] ELSE P[i].owner
          /\ planet'[i].sector = P[i].sector /\ planet'[i].FIGHTERS = P[i].FIGHTERS
    BY <1>1, <1>3 DEF Planet
<1>8. \A i \in Pids : Present(planet'[i]) <=> Present(P[i])
    BY <1>4, <1>7, NobodyIsNoPlayer DEF Present
<1>9. \A p \in Players, i \in Pids : planet'[i].owner = p => P[i].owner = p /\ p \notin E
    BY <1>4, <1>7, NobodyIsNoPlayer
<1> QED
    BY <1>6, <1>7, <1>8, <1>9 DEF PlanetsOK

\* World', as long as the day is the same.
WorldLeft ==
    /\ ShipsOK(ship', sector', diedAt', day)
    /\ ForcesOK(garrison', diedAt') /\ \A g \in Gids : Manned(garrison', g)
    /\ PlanetsOK(planet', diedAt')

\* Of the ships S none but those of E are lost, moved or touched.
OnlyHits(E, S) ==
    \A q \in Players :
        q \notin E => sector'[q] = sector[q] /\ diedAt'[q] = diedAt[q] /\ ship'[q] = S[q]

\* The fighters left are those of the ships S, the forces G and the planets P.
SameFighters(S, G, P) ==
    /\ \A q \in Players : ship'[q]["FIGHTERS"] = S[q]["FIGHTERS"]
    /\ \A g \in Gids : garrison'[g].FIGHTERS = G[g].FIGHTERS
    /\ \A i \in Pids : planet'[i].FIGHTERS = P[i].FIGHTERS

LEMMA Killed ==
    ASSUME NEW p \in Players, NEW S \in Fleet, NEW G, NEW P,
           ShipsOK(S, sector, diedAt, day), day \in Nat \ {0},
           ForcesOK(G, diedAt), \A g \in Gids : Manned(G, g), PlanetsOK(P, diedAt),
           ship' = S, Kill(p, G, P)
    PROVE  WorldLeft /\ OnlyHits({p}, S) /\ SameFighters(S, G, P)
<1>1. /\ diedAt' = [diedAt EXCEPT ![p] = day] /\ sector' = [sector EXCEPT ![p] = 0]
      /\ garrison' = ForfeitForces(G, {p}) /\ ForfeitPlanets(P, {p})
    BY DEF Kill
<1>2. \A q \in Players \ {p} : diedAt'[q] = diedAt[q]
    BY <1>1 DEF ShipsOK
<1>3. ShipsOK(ship', sector', diedAt', day)
    BY <1>1, GalaxyAssumption DEF ShipsOK
<1>4. PICK E \in SUBSET Players : E = {p}
    OBVIOUS
<1> DEFINE D2 == diedAt'
<1>5. \A q \in Players \ E : D2[q] = diedAt[q]
    BY <1>2, <1>4
<1>6. garrison' = ForfeitForces(G, E) /\ ForfeitPlanets(P, E)
    BY <1>1, <1>4
<1> HIDE DEF D2
<1>7. /\ ForcesOK(garrison', diedAt') /\ \A g \in Gids : Manned(garrison', g)
      /\ \A g \in Gids : garrison'[g].FIGHTERS = G[g].FIGHTERS
    BY <1>5, <1>6, ForcesForfeited DEF D2
<1>8. /\ PlanetsOK(planet', diedAt')
      /\ \A i \in Pids : planet'[i].FIGHTERS = P[i].FIGHTERS
    BY <1>5, <1>6, PlanetsForfeited DEF D2
<1>9. OnlyHits({p}, S)
    BY <1>1 DEF OnlyHits, ShipsOK
<1>10. SameFighters(S, G, P)
    BY <1>7, <1>8 DEF SameFighters
<1> QED
    BY <1>3, <1>7, <1>8, <1>9, <1>10 DEF WorldLeft

LEMMA WarpedOrDead ==
    ASSUME NEW p \in Players, NEW S \in Fleet, NEW G, NEW P,
           ShipsOK(S, sector, diedAt, day), day \in Nat \ {0}, Alive(p),
           ForcesOK(G, diedAt), \A g \in Gids : Manned(G, g), PlanetsOK(P, diedAt),
           EmWarp(p, S, G, P) \/ WarpOrDie(p, S, G, P)
    PROVE  WorldLeft /\ OnlyHits({p}, S) /\ SameFighters(S, G, P)
<1>1. CASE EmWarp(p, S, G, P)
  <2>1. /\ S[p]["EMWARP"] >= 1 /\ ship' = Less(S, p, "EMWARP", 1)
        /\ garrison' = G /\ planet' = P /\ diedAt' = diedAt
      BY <1>1 DEF EmWarp
  <2>2. PICK s \in EscapeSectors(p) : sector' = [sector EXCEPT ![p] = s]
      BY <1>1 DEF EmWarp
  <2>3. s \in Sectors
      BY <2>2 DEF EscapeSectors
  <2>4. S[p]["EMWARP"] \in Nat /\ "EMWARP" \in Goods /\ "FIGHTERS" \in Goods
      BY DEF Fleet, Goods
  <2>5. /\ ship' \in Fleet /\ \A q \in Players : q # p => ship'[q] = S[q]
        /\ ship'[p]["FIGHTERS"] = S[p]["FIGHTERS"]
      BY <2>1, <2>4, LessIs
  <2>6. ShipsOK(ship', sector', diedAt', day) /\ OnlyHits({p}, S)
      BY <2>1, <2>2, <2>3, <2>5, GalaxyAssumption
         DEF ShipsOK, Alive, Fleet, Sectors, OnlyHits
  <2>7. SameFighters(S, G, P)
      BY <2>1, <2>5 DEF SameFighters
  <2> QED
      BY <2>1, <2>6, <2>7 DEF WorldLeft
<1>2. CASE S[p]["EMWARP"] < 1 /\ ship' = S /\ Kill(p, G, P)
    BY <1>2, Killed
<1> QED
    BY <1>1, <1>2 DEF WarpOrDie

\* Nobody dies or moves.
Still == sector' = sector /\ diedAt' = diedAt

LEMMA ForcesSettled ==
    ASSUME World, NEW S \in Fleet, NEW G, ForcesOK(G, diedAt),
           \A g \in Gids : Manned(G, g), Settle(S, G)
    PROVE  WorldLeft /\ Still /\ SameFighters(S, G, planet)
BY DEF World, Settle, WorldLeft, Still, ShipsOK, Fleet, SameFighters

LEMMA PlanetsSettled ==
    ASSUME World, NEW S \in Fleet, NEW P, PlanetsOK(P, diedAt), SettlePlanet(S, P)
    PROVE  WorldLeft /\ Still /\ SameFighters(S, garrison, P)
BY DEF World, SettlePlanet, WorldLeft, Still, ShipsOK, Fleet, SameFighters

LEMMA SameDay == ASSUME WorldLeft, day' = day PROVE World'
BY DEF WorldLeft, World

\* An idle actor relies on nothing.
LEMMA IdleIsOK == ASSUME cmd' = Idle PROVE CmdOK' /\ AtSea(cmd') = 0
BY DEF Idle, CmdOK, CommandOK, Whole, AtSea

LEMMA ReadyStays == ASSUME Ready, CmdOK, cmd' = cmd PROVE CmdOK'
BY DEF Ready, CmdOK, CommandOK, Whole

\* What the invariant says of one ship, one force, one planet.
LEMMA InWorld ==
    ASSUME World
    PROVE  /\ ship \in Fleet /\ ForcesOK(garrison, diedAt) /\ PlanetsOK(planet, diedAt)
           /\ ShipsOK(ship, sector, diedAt, day) /\ \A g \in Gids : Manned(garrison, g)
           /\ \A p \in Players : \A x \in Goods : ship[p][x] \in Nat
           /\ \A p \in Players : sector[p] \in 0..NumSec /\ diedAt[p] \in 0..day
           /\ \A g \in Gids : /\ garrison[g] \in Battlegroup /\ garrison[g].FIGHTERS \in Nat
                              /\ garrison[g].MINES \in Nat /\ garrison[g].sector \in 0..NumSec
           /\ \A i \in Pids : /\ planet[i] \in Planet /\ planet[i].FIGHTERS \in Nat
                              /\ planet[i].MINES \in Nat /\ planet[i].sector \in 0..NumSec
<1>1. /\ ship \in [Players -> [Goods -> Nat]] /\ garrison \in [Gids -> Battlegroup]
      /\ planet \in [Pids -> Planet]
    BY DEF World, ShipsOK, ForcesOK, PlanetsOK
<1>2. \A g \in Gids : /\ garrison[g] \in Battlegroup /\ garrison[g].FIGHTERS \in Nat
                      /\ garrison[g].MINES \in Nat /\ garrison[g].sector \in 0..NumSec
    BY <1>1 DEF Battlegroup
<1>3. \A i \in Pids : /\ planet[i] \in Planet /\ planet[i].FIGHTERS \in Nat
                      /\ planet[i].MINES \in Nat /\ planet[i].sector \in 0..NumSec
    BY <1>1 DEF Planet
<1>4. \A p \in Players : \A x \in Goods : ship[p][x] \in Nat
    BY <1>1
<1>5. \A p \in Players : sector[p] \in 0..NumSec /\ diedAt[p] \in 0..day
    BY DEF World, ShipsOK
<1> QED
    BY <1>1, <1>2, <1>3, <1>4, <1>5 DEF World, Fleet

-----------------------------------------------------------------------------
(* Counting fighters *)

LEMMA AboardIs ==
    ASSUME NEW S \in Fleet, NEW T \in Fleet
    PROVE  /\ Aboard(S) \in Nat /\ Aboard(T) \in Nat
           /\ (\A q \in Players : T[q]["FIGHTERS"] <= S[q]["FIGHTERS"])
                  => Aboard(T) <= Aboard(S)
           /\ \A p \in Players :
                  (\A q \in Players : q # p => T[q]["FIGHTERS"] = S[q]["FIGHTERS"])
                  => Aboard(T) + S[p]["FIGHTERS"] = Aboard(S) + T[p]["FIGHTERS"]
<1> DEFINE h == [q \in Players |-> S[q]["FIGHTERS"]]
           k == [q \in Players |-> T[q]["FIGHTERS"]]
<1>1. /\ h \in [Players -> Nat] /\ \A q \in Players : h[q] = S[q]["FIGHTERS"]
      /\ k \in [Players -> Nat] /\ \A q \in Players : k[q] = T[q]["FIGHTERS"]
    BY DEF Fleet, Goods
<1>2. Aboard(S) = Total(h, Players) /\ Aboard(T) = Total(k, Players) /\ IsFiniteSet(Players)
    BY FiniteAssumption DEF Aboard
<1> HIDE DEF h, k
<1>3. (\A q \in Players : k[q] <= h[q]) => Total(k, Players) <= Total(h, Players)
    BY <1>1, <1>2, TotalGrows
<1>4. \A p \in Players : (\A q \in Players \ {p} : k[q] = h[q])
                              => Total(k, Players) + h[p] = Total(h, Players) + k[p]
    BY <1>1, <1>2, TotalChanges
<1>5. Total(h, Players) \in Nat /\ Total(k, Players) \in Nat
  <2>1. \A q \in Players : h[q] <= h[q] /\ k[q] <= k[q]
      BY <1>1
  <2> QED
      BY <1>1, <1>2, <2>1, TotalGrows
<1> QED
    BY <1>1, <1>2, <1>3, <1>4, <1>5

LEMMA OnGuardIs ==
    ASSUME NEW G \in [Gids -> Battlegroup], NEW H \in [Gids -> Battlegroup]
    PROVE  /\ OnGuard(G) \in Nat /\ OnGuard(H) \in Nat
           /\ (\A g \in Gids : H[g].FIGHTERS <= G[g].FIGHTERS) => OnGuard(H) <= OnGuard(G)
           /\ \A f \in Gids :
                  (\A g \in Gids : g # f => H[g].FIGHTERS = G[g].FIGHTERS)
                  => OnGuard(H) + G[f].FIGHTERS = OnGuard(G) + H[f].FIGHTERS
<1> DEFINE h == [g \in Gids |-> G[g].FIGHTERS]
           k == [g \in Gids |-> H[g].FIGHTERS]
<1>1. /\ h \in [Gids -> Nat] /\ \A g \in Gids : h[g] = G[g].FIGHTERS
      /\ k \in [Gids -> Nat] /\ \A g \in Gids : k[g] = H[g].FIGHTERS
    BY DEF Battlegroup
<1>2. OnGuard(G) = Total(h, Gids) /\ OnGuard(H) = Total(k, Gids) /\ IsFiniteSet(Gids)
    BY FiniteAssumption DEF OnGuard
<1> HIDE DEF h, k
<1>3. (\A g \in Gids : k[g] <= h[g]) => Total(k, Gids) <= Total(h, Gids)
    BY <1>1, <1>2, TotalGrows
<1>4. \A f \in Gids : (\A g \in Gids \ {f} : k[g] = h[g])
                              => Total(k, Gids) + h[f] = Total(h, Gids) + k[f]
    BY <1>1, <1>2, TotalChanges
<1>5. Total(h, Gids) \in Nat /\ Total(k, Gids) \in Nat
  <2>1. \A g \in Gids : h[g] <= h[g] /\ k[g] <= k[g]
      BY <1>1
  <2> QED
      BY <1>1, <1>2, <2>1, TotalGrows
<1> QED
    BY <1>1, <1>2, <1>3, <1>4, <1>5

LEMMA BasedIs ==
    ASSUME NEW P \in [Pids -> Planet], NEW Q \in [Pids -> Planet]
    PROVE  /\ Based(P) \in Nat /\ Based(Q) \in Nat
           /\ (\A i \in Pids : Q[i].FIGHTERS <= P[i].FIGHTERS) => Based(Q) <= Based(P)
           /\ \A j \in Pids :
                  (\A i \in Pids : i # j => Q[i].FIGHTERS = P[i].FIGHTERS)
                  => Based(Q) + P[j].FIGHTERS = Based(P) + Q[j].FIGHTERS
<1> DEFINE h == [i \in Pids |-> P[i].FIGHTERS]
           k == [i \in Pids |-> Q[i].FIGHTERS]
<1>1. /\ h \in [Pids -> Nat] /\ \A i \in Pids : h[i] = P[i].FIGHTERS
      /\ k \in [Pids -> Nat] /\ \A i \in Pids : k[i] = Q[i].FIGHTERS
    BY DEF Planet
<1>2. Based(P) = Total(h, Pids) /\ Based(Q) = Total(k, Pids) /\ IsFiniteSet(Pids)
    BY FiniteAssumption DEF Based
<1> HIDE DEF h, k
<1>3. (\A i \in Pids : k[i] <= h[i]) => Total(k, Pids) <= Total(h, Pids)
    BY <1>1, <1>2, TotalGrows
<1>4. \A j \in Pids : (\A i \in Pids \ {j} : k[i] = h[i])
                              => Total(k, Pids) + h[j] = Total(h, Pids) + k[j]
    BY <1>1, <1>2, TotalChanges
<1>5. Total(h, Pids) \in Nat /\ Total(k, Pids) \in Nat
  <2>1. \A i \in Pids : h[i] <= h[i] /\ k[i] <= k[i]
      BY <1>1
  <2> QED
      BY <1>1, <1>2, <2>1, TotalGrows
<1> QED
    BY <1>1, <1>2, <1>3, <1>4, <1>5

\* The fighters of the ships, the forces and the planets before and after a step.
LEMMA Counted ==
    ASSUME World, WorldLeft
    PROVE  /\ Aboard(ship) \in Nat /\ OnGuard(garrison) \in Nat /\ Based(planet) \in Nat
           /\ Aboard(ship') \in Nat /\ OnGuard(garrison') \in Nat /\ Based(planet') \in Nat
           /\ (\A q \in Players : ship'[q]["FIGHTERS"] <= ship[q]["FIGHTERS"])
                  => Aboard(ship') <= Aboard(ship)
           /\ (\A g \in Gids : garrison'[g].FIGHTERS <= garrison[g].FIGHTERS)
                  => OnGuard(garrison') <= OnGuard(garrison)
           /\ (\A i \in Pids : planet'[i].FIGHTERS <= planet[i].FIGHTERS)
                  => Based(planet') <= Based(planet)
<1>1. ship \in Fleet /\ garrison \in [Gids -> Battlegroup] /\ planet \in [Pids -> Planet]
    BY DEF World, ShipsOK, Fleet, ForcesOK, PlanetsOK
<1>2. /\ ship' \in Fleet /\ garrison' \in [Gids -> Battlegroup]
      /\ planet' \in [Pids -> Planet]
    BY DEF WorldLeft, ShipsOK, Fleet, ForcesOK, PlanetsOK
<1> QED
    BY <1>1, <1>2, AboardIs, OnGuardIs, BasedIs

\* The same, when only one ship, force or planet has another number of them.
LEMMA OneShipChanges ==
    ASSUME World, WorldLeft, NEW p \in Players,
           \A q \in Players : q # p => ship'[q]["FIGHTERS"] = ship[q]["FIGHTERS"]
    PROVE  Aboard(ship') + ship[p]["FIGHTERS"] = Aboard(ship) + ship'[p]["FIGHTERS"]
<1>1. ship \in Fleet /\ ship' \in Fleet
    BY DEF World, WorldLeft, ShipsOK, Fleet
<1> QED
    BY <1>1, AboardIs

LEMMA OneForceChanges ==
    ASSUME World, WorldLeft, NEW f \in Gids,
           \A g \in Gids : g # f => garrison'[g].FIGHTERS = garrison[g].FIGHTERS
    PROVE  OnGuard(garrison') + garrison[f].FIGHTERS
               = OnGuard(garrison) + garrison'[f].FIGHTERS
<1>1. garrison \in [Gids -> Battlegroup] /\ garrison' \in [Gids -> Battlegroup]
    BY DEF World, WorldLeft, ForcesOK
<1> QED
    BY <1>1, OnGuardIs

LEMMA OnePlanetChanges ==
    ASSUME World, WorldLeft, NEW j \in Pids,
           \A i \in Pids : i # j => planet'[i].FIGHTERS = planet[i].FIGHTERS
    PROVE  Based(planet') + planet[j].FIGHTERS = Based(planet) + planet'[j].FIGHTERS
<1>1. planet \in [Pids -> Planet] /\ planet' \in [Pids -> Planet]
    BY DEF World, WorldLeft, PlanetsOK
<1> QED
    BY <1>1, BasedIs

\* Ships S, forces G and planets P with no more fighters than there are.
NoMore(S, G, P) ==
    /\ \A q \in Players : S[q]["FIGHTERS"] <= ship[q]["FIGHTERS"]
    /\ \A g \in Gids : G[g].FIGHTERS <= garrison[g].FIGHTERS
    /\ \A i \in Pids : P[i].FIGHTERS <= planet[i].FIGHTERS

NoneMade == AllFighters' <= AllFighters
AsMany == AllFighters' = AllFighters

LEMMA NoneAdded ==
    ASSUME World, WorldLeft, NEW S, NEW G, NEW P, SameFighters(S, G, P), NoMore(S, G, P),
           NEW m \in Nat, NEW n \in Nat, AtSea(cmd) = m, AtSea(cmd') = n, n <= m
    PROVE  NoneMade
<1>1. /\ \A q \in Players : ship'[q]["FIGHTERS"] <= ship[q]["FIGHTERS"]
      /\ \A g \in Gids : garrison'[g].FIGHTERS <= garrison[g].FIGHTERS
      /\ \A i \in Pids : planet'[i].FIGHTERS <= planet[i].FIGHTERS
    BY DEF SameFighters, NoMore
<1>2. /\ Aboard(ship') <= Aboard(ship) /\ OnGuard(garrison') <= OnGuard(garrison)
      /\ Based(planet') <= Based(planet)
      /\ Aboard(ship) \in Nat /\ OnGuard(garrison) \in Nat /\ Based(planet) \in Nat
      /\ Aboard(ship') \in Nat /\ OnGuard(garrison') \in Nat /\ Based(planet') \in Nat
    BY <1>1, Counted
<1>3. /\ AllFighters = Aboard(ship) + OnGuard(garrison) + Based(planet) + m
      /\ AllFighters' = Aboard(ship') + OnGuard(garrison') + Based(planet') + n
    BY DEF AllFighters
<1> QED
    BY <1>2, <1>3 DEF NoneMade

LEMMA NoneLost ==
    ASSUME World, WorldLeft, SameFighters(ship, garrison, planet), AtSea(cmd') = AtSea(cmd)
    PROVE  AsMany
<1>1. ship \in Fleet /\ garrison \in [Gids -> Battlegroup] /\ planet \in [Pids -> Planet]
    BY DEF World, ShipsOK, Fleet, ForcesOK, PlanetsOK
<1>2. /\ [q \in Players |-> ship'[q]["FIGHTERS"]] = [q \in Players |-> ship[q]["FIGHTERS"]]
      /\ [g \in Gids |-> garrison'[g].FIGHTERS] = [g \in Gids |-> garrison[g].FIGHTERS]
      /\ [i \in Pids |-> planet'[i].FIGHTERS] = [i \in Pids |-> planet[i].FIGHTERS]
    BY DEF SameFighters
<1>3. /\ Aboard(ship') = Aboard(ship) /\ OnGuard(garrison') = OnGuard(garrison)
      /\ Based(planet') = Based(planet)
    BY <1>2, Zenon DEF Aboard, OnGuard, Based
<1> QED
    BY <1>3 DEF AsMany, AllFighters

LEMMA NothingNew == ASSUME World PROVE NoMore(ship, garrison, planet)
BY InWorld DEF NoMore, Goods

\* What a ship loses or gains is what is at sea more or less.
LEMMA ToSeaAndBack ==
    ASSUME World, WorldLeft, NEW p \in Players, NEW S,
           SameFighters(S, garrison, planet), \A q \in Players : q # p => S[q] = ship[q],
           NEW m \in Nat, NEW n \in Nat, AtSea(cmd) = m, AtSea(cmd') = n,
           S[p]["FIGHTERS"] + n = ship[p]["FIGHTERS"] + m
    PROVE  NoneMade
<1>1. /\ ship'[p]["FIGHTERS"] = S[p]["FIGHTERS"]
      /\ \A q \in Players : q # p => ship'[q]["FIGHTERS"] = ship[q]["FIGHTERS"]
      /\ \A g \in Gids : garrison'[g].FIGHTERS <= garrison[g].FIGHTERS
      /\ \A i \in Pids : planet'[i].FIGHTERS <= planet[i].FIGHTERS
    BY InWorld DEF SameFighters
<1>2. PICK a \in Nat, b \in Nat : a = ship[p]["FIGHTERS"] /\ b = ship'[p]["FIGHTERS"]
    BY InWorld DEF WorldLeft, ShipsOK, Goods
<1>3. Aboard(ship') + a = Aboard(ship) + b
    BY <1>1, <1>2, OneShipChanges
<1>4. /\ OnGuard(garrison') <= OnGuard(garrison) /\ Based(planet') <= Based(planet)
      /\ Aboard(ship) \in Nat /\ OnGuard(garrison) \in Nat /\ Based(planet) \in Nat
      /\ Aboard(ship') \in Nat /\ OnGuard(garrison') \in Nat /\ Based(planet') \in Nat
    BY <1>1, Counted
<1>5. b + n = a + m
    BY <1>1, <1>2
<1>6. /\ AllFighters = Aboard(ship) + OnGuard(garrison) + Based(planet) + m
      /\ AllFighters' = Aboard(ship') + OnGuard(garrison') + Based(planet') + n
    BY DEF AllFighters
<1> QED
    BY <1>2, <1>3, <1>4, <1>5, <1>6 DEF NoneMade

\* A planet is left with n fighters.
LEMMA StrongholdLeft ==
    ASSUME World, NEW i \in Pids, NEW n \in Nat,
           NEW P, P = Restocked(planet, i, "FIGHTERS", n)
    PROVE  /\ PlanetsOK(P, diedAt) /\ P[i].FIGHTERS = n
           /\ \A j \in Pids : j # i => P[j] = planet[j]
<1>1. PICK D : D = diedAt
    OBVIOUS
<1>2. PlanetsOK(planet, D)
    BY <1>1, InWorld
<1>3. PlanetsOK(P, D) /\ P[i].FIGHTERS = n /\ \A j \in Pids : j # i => P[j] = planet[j]
    BY <1>2, PlanetGarrisoned
<1> QED
    BY <1>1, <1>3

\* What a planet loses or gains is what is at sea more or less; ships may lose some.
LEMMA RaidersCount ==
    ASSUME World, WorldLeft, NEW S, NEW P, SameFighters(S, garrison, P),
           \A q \in Players : S[q]["FIGHTERS"] <= ship[q]["FIGHTERS"],
           NEW i \in Pids, \A j \in Pids : j # i => P[j] = planet[j],
           NEW m \in Nat, NEW n \in Nat, AtSea(cmd) = m, AtSea(cmd') = n,
           P[i].FIGHTERS + n <= planet[i].FIGHTERS + m
    PROVE  NoneMade
<1>1. /\ \A q \in Players : ship'[q]["FIGHTERS"] <= ship[q]["FIGHTERS"]
      /\ \A g \in Gids : garrison'[g].FIGHTERS <= garrison[g].FIGHTERS
    BY InWorld DEF SameFighters
<1>2. /\ planet'[i].FIGHTERS = P[i].FIGHTERS
      /\ \A j \in Pids : j # i => planet'[j].FIGHTERS = planet[j].FIGHTERS
    BY DEF SameFighters
<1>3. PICK a \in Nat, b \in Nat : a = planet[i].FIGHTERS /\ b = planet'[i].FIGHTERS
    BY InWorld DEF WorldLeft, PlanetsOK, Planet
<1>4. Based(planet') + a = Based(planet) + b
    BY <1>2, <1>3, OnePlanetChanges
<1>5. /\ Aboard(ship') <= Aboard(ship) /\ OnGuard(garrison') <= OnGuard(garrison)
      /\ Aboard(ship) \in Nat /\ OnGuard(garrison) \in Nat /\ Based(planet) \in Nat
      /\ Aboard(ship') \in Nat /\ OnGuard(garrison') \in Nat /\ Based(planet') \in Nat
    BY <1>1, Counted
<1>6. b + n <= a + m
    BY <1>2, <1>3
<1>7. /\ AllFighters = Aboard(ship) + OnGuard(garrison) + Based(planet) + m
      /\ AllFighters' = Aboard(ship') + OnGuard(garrison') + Based(planet') + n
    BY DEF AllFighters
<1> QED
    BY <1>3, <1>4, <1>5, <1>6, <1>7 DEF NoneMade

LEMMA ReadyAtSea == ASSUME Ready PROVE AtSea(cmd) = 0
BY DEF Ready, AtSea

-----------------------------------------------------------------------------
(* Moving *)

LEMMA ArriveOK ==
    ASSUME World, NEW p \in Players, Alive(p), NEW d \in Sectors, NEW S \in Fleet, NEW G,
           ForcesOK(G, diedAt), \A g \in Gids : Manned(G, g), Arrive(p, d, S, G)
    PROVE  /\ WorldLeft /\ CmdOK' /\ OnlyHits({p}, S)
           /\ SameFighters(S, G, planet) /\ AtSea(cmd') = 0
<1>1. /\ ship' = S /\ garrison' = G /\ diedAt' = diedAt /\ planet' = planet
      /\ sector' = [sector EXCEPT ![p] = d]
    BY DEF Arrive
<1>2. d \in 1..NumSec
    BY DEF Sectors
<1>3. ShipsOK(ship', sector', diedAt', day)
    BY <1>1, <1>2, GalaxyAssumption DEF World, ShipsOK, Fleet, Alive
<1>4. WorldLeft
    BY <1>1, <1>3 DEF World, WorldLeft
<1>5. OnlyHits({p}, S)
    BY <1>1 DEF OnlyHits, World, ShipsOK
<1>6. CmdOK' /\ AtSea(cmd') = 0
  <2> DEFINE mined == {g \in HostileForces(p, d, G) : G[g].MINES > 0}
  <2>1. cmd' = Idle \/ \E g \in mined :
            cmd' = [Idle EXCEPT !.op = "minefield", !.who = p, !.slot = g]
      BY DEF Arrive
  <2>2. ASSUME NEW g \in mined,
               cmd' = [Idle EXCEPT !.op = "minefield", !.who = p, !.slot = g]
        PROVE  CmdOK' /\ AtSea(cmd') = 0
    <3>1. /\ g \in Gids /\ G[g].MINES > 0 /\ Present(G[g])
          /\ G[g].sector = d /\ G[g].owner # p
        BY DEF HostileForces
    <3>2. /\ cmd'.op = "minefield" /\ cmd'.who = p /\ cmd'.slot = g /\ Whole(cmd')
          /\ cmd'.left = 0 /\ cmd'.ships = 0
        BY <2>2 DEF Idle, Whole
    <3>3. sector'[p] = d /\ diedAt'[p] = 0
        BY <1>1 DEF World, ShipsOK, Alive
    <3>4. UnderMines(cmd)'
        BY <1>1, <3>1, <3>2, <3>3 DEF UnderMines, Alive, Present
    <3> QED
        BY <3>2, <3>4 DEF CmdOK, CommandOK, AtSea
  <2> QED
      BY <2>1, <2>2, IdleIsOK
<1>7. SameFighters(S, G, planet)
    BY <1>1 DEF SameFighters
<1> QED
    BY <1>4, <1>5, <1>6, <1>7

LEMMA ContestOK ==
    ASSUME World, Clock, NEW p \in Players, Alive(p), NEW d \in Sectors, NEW g \in Gids,
           Contest(p, d, g), garrison[g].FIGHTERS > 0
    PROVE  /\ WorldLeft /\ CmdOK' /\ OnlyHits({p}, ship) /\ AtSea(cmd') = 0
           /\ \E S, G : SameFighters(S, G, planet) /\ NoMore(S, G, planet)
<1> DEFINE T(loss) == Less(ship, p, "FIGHTERS", loss[1])
           H(loss) == [garrison EXCEPT ![g].FIGHTERS = @ - loss[2]]
<1>1. PICK loss \in AttritionLosses(ship[p]["FIGHTERS"], garrison[g].FIGHTERS) :
          IF T(loss)[p]["FIGHTERS"] = 0 /\ H(loss)[g].FIGHTERS > 0
          THEN WarpOrDie(p, T(loss), H(loss), planet) /\ cmd' = Idle
          ELSE Arrive(p, d, T(loss), Swept(H(loss), g))
    BY DEF Contest
<1>2. PICK S : S = T(loss)
    OBVIOUS
<1>3. PICK G, k : G = H(loss) /\ k = loss[2] /\ G = Thinned(garrison, g, k)
    BY DEF Thinned
<1>4. loss[1] \in 0..ship[p]["FIGHTERS"] /\ loss[2] \in 0..garrison[g].FIGHTERS
    BY LossesAreBounded, InWorld DEF Goods
<1>5. /\ S \in Fleet /\ \A q \in Players : q # p => S[q] = ship[q]
      /\ S[p]["FIGHTERS"] = ship[p]["FIGHTERS"] - loss[1]
    BY <1>2, <1>4, LessIs, InWorld DEF Goods
<1>6. /\ ForcesOK(G, diedAt) /\ \A h \in Gids : h # g => G[h] = garrison[h]
      /\ G[g].FIGHTERS = garrison[g].FIGHTERS - k
  <2>1. k \in 0..garrison[g].FIGHTERS /\ G = Thinned(garrison, g, k)
      BY <1>3, <1>4
  <2>2. ForcesOK(garrison, diedAt)
      BY InWorld
  <2> QED
      BY <2>1, <2>2, ForceThinned
<1>7. \A h \in Gids : h # g => Manned(G, h)
    BY <1>6, InWorld DEF Manned
<1>8. NoMore(S, G, planet)
  <2>1. \A q \in Players : S[q]["FIGHTERS"] <= ship[q]["FIGHTERS"]
      BY <1>4, <1>5, InWorld DEF Goods
  <2>2. \A h \in Gids : G[h].FIGHTERS <= garrison[h].FIGHTERS
      BY <1>3, <1>4, <1>6, InWorld
  <2>3. \A i \in Pids : planet[i].FIGHTERS <= planet[i].FIGHTERS
      BY InWorld
  <2> QED
      BY <2>1, <2>2, <2>3 DEF NoMore
<1> HIDE DEF T, H
<1>9. CASE S[p]["FIGHTERS"] = 0 /\ G[g].FIGHTERS > 0
  <2>1. WarpOrDie(p, S, G, planet) /\ cmd' = Idle
      BY <1>1, <1>2, <1>3, <1>9
  <2>2. \A h \in Gids : Manned(G, h)
      BY <1>7, <1>9 DEF Manned
  <2>3. ShipsOK(S, sector, diedAt, day)
      BY <1>5 DEF World, ShipsOK, Fleet
  <2>4. WorldLeft /\ OnlyHits({p}, S) /\ SameFighters(S, G, planet)
      BY <1>5, <1>6, <2>1, <2>2, <2>3, WarpedOrDead, InWorld DEF Clock
  <2>5. OnlyHits({p}, ship)
      BY <1>5, <2>4 DEF OnlyHits
  <2> QED
      BY <1>8, <2>1, <2>4, <2>5, IdleIsOK
<1>10. CASE ~(S[p]["FIGHTERS"] = 0 /\ G[g].FIGHTERS > 0)
  <2>1. PICK F : F = Swept(G, g)
      OBVIOUS
  <2>2. Arrive(p, d, S, F)
      BY <1>1, <1>2, <1>3, <1>10, <2>1
  <2>3. /\ ForcesOK(F, diedAt) /\ \A h \in Gids : Manned(F, h)
        /\ \A h \in Gids : F[h].FIGHTERS = G[h].FIGHTERS
      BY <1>6, <1>7, <2>1, SweptIs DEF Manned
  <2>4. /\ WorldLeft /\ CmdOK' /\ OnlyHits({p}, S)
        /\ SameFighters(S, F, planet) /\ AtSea(cmd') = 0
      BY <1>5, <2>2, <2>3, ArriveOK
  <2>5. OnlyHits({p}, ship)
      BY <1>5, <2>4 DEF OnlyHits
  <2>6. NoMore(S, F, planet)
      BY <1>8, <2>3 DEF NoMore
  <2> QED
      BY <2>4, <2>5, <2>6
<1> QED
    BY <1>9, <1>10

LEMMA MovePlayerOK ==
    ASSUME World, Clock, NEW p \in Players, NEW d \in Sectors, MovePlayer(p, d)
    PROVE  WorldLeft /\ CmdOK' /\ OnlyHits({p}, ship) /\ NoneMade
<1>1. Alive(p) /\ AtSea(cmd) = 0
    BY ReadyAtSea DEF MovePlayer
<1>2. \/ Arrive(p, d, ship, garrison)
      \/ \E g \in Gids : garrison[g].FIGHTERS > 0 /\ Contest(p, d, g)
    BY DEF MovePlayer, HostileForces
<1>3. CASE Arrive(p, d, ship, garrison)
    BY <1>1, <1>3, ArriveOK, NothingNew, NoneAdded, InWorld
<1>4. CASE \E g \in Gids : garrison[g].FIGHTERS > 0 /\ Contest(p, d, g)
    BY <1>1, <1>4, ContestOK, NoneAdded
<1> QED
    BY <1>2, <1>3, <1>4

\* What one mine under p may leave of the ships: it was absorbed, or it destroyed
\* fighters.
Blasted(p, S) ==
    IF ship[p]["MINEDEFLECTOR"] >= 1 THEN S = Less(ship, p, "MINEDEFLECTOR", 1)
    ELSE \E b \in Blasts : S = Less(ship, p, "FIGHTERS", AtMost(b, ship[p]["FIGHTERS"]))

LEMMA BlastedIs ==
    ASSUME World, NEW p \in Players, NEW S, Blasted(p, S)
    PROVE  /\ S \in Fleet /\ \A q \in Players : q # p => S[q] = ship[q]
           /\ S[p]["FIGHTERS"] \in 0..ship[p]["FIGHTERS"]
           /\ ship[p]["MINEDEFLECTOR"] >= 1 => S[p]["FIGHTERS"] = ship[p]["FIGHTERS"]
<1>1. "FIGHTERS" \in Goods /\ "MINEDEFLECTOR" \in Goods
    BY DEF Goods
<1>2. CASE ship[p]["MINEDEFLECTOR"] >= 1 /\ S = Less(ship, p, "MINEDEFLECTOR", 1)
    BY <1>1, <1>2, LessIs, InWorld
<1>3. ASSUME ~(ship[p]["MINEDEFLECTOR"] >= 1), NEW b \in Blasts,
             S = Less(ship, p, "FIGHTERS", AtMost(b, ship[p]["FIGHTERS"]))
      PROVE  /\ S \in Fleet /\ \A q \in Players : q # p => S[q] = ship[q]
             /\ S[p]["FIGHTERS"] \in 0..ship[p]["FIGHTERS"]
  <2>1. PICK k : k = AtMost(b, ship[p]["FIGHTERS"])
      OBVIOUS
  <2>2. k \in 0..ship[p]["FIGHTERS"]
      BY <1>1, <2>1, AtMostIs, InWorld, GalaxyAssumption
  <2>3. /\ S \in Fleet /\ \A q \in Players : q # p => S[q] = ship[q]
        /\ S[p]["FIGHTERS"] = ship[p]["FIGHTERS"] - k
      BY <1>1, <1>3, <2>1, <2>2, LessIs, InWorld
  <2> QED
      BY <1>1, <2>2, <2>3, InWorld
<1> QED
    BY <1>2, <1>3 DEF Blasted

LEMMA MinefieldOK ==
    ASSUME World, Clock, CmdOK, Minefield
    PROVE  /\ WorldLeft /\ CmdOK' /\ NoneMade
           /\ cmd.who \in Players /\ Exposed(cmd.who) /\ OnlyHits({cmd.who}, ship)
<1> DEFINE p == cmd.who
           g == cmd.slot
           H == [garrison EXCEPT ![g].MINES = @ - 1]
<1>1. cmd.op = "minefield" /\ UnderMines(cmd) /\ AtSea(cmd) = 0
    BY DEF Minefield, CmdOK, CommandOK, AtSea
<1>2. /\ p \in Players /\ Alive(p) /\ g \in Gids /\ sector[p] = garrison[g].sector
      /\ garrison[g].owner \notin {Nobody, p} /\ garrison[g].MINES > 0
    BY <1>1 DEF UnderMines
<1>3. PICK G : G = H /\ G = Unmined(garrison, g)
    BY DEF Unmined
<1>4. PICK S : /\ Blasted(p, S)
               /\ \/ /\ Settle(S, Swept(G, g))
                     /\ cmd' = IF G[g].MINES > 0 THEN cmd ELSE Idle
                  \/ WarpOrDie(p, S, Swept(G, g), planet) /\ cmd' = Idle
    BY <1>3 DEF Minefield, Detonate, Blasted
<1> HIDE DEF p, H
<1>5. /\ S \in Fleet /\ \A q \in Players : q # p => S[q] = ship[q]
      /\ S[p]["FIGHTERS"] \in 0..ship[p]["FIGHTERS"]
    BY <1>2, <1>4, BlastedIs
<1>6. /\ ForcesOK(G, diedAt) /\ \A h \in Gids : h # g => G[h] = garrison[h]
      /\ G[g].owner = garrison[g].owner /\ G[g].sector = garrison[g].sector
      /\ G[g].MINES = garrison[g].MINES - 1 /\ G[g].FIGHTERS = garrison[g].FIGHTERS
    BY <1>2, <1>3, MineSpent, InWorld
<1>7. PICK F : F = Swept(G, g)
    OBVIOUS
<1>8. /\ ForcesOK(F, diedAt) /\ \A h \in Gids : Manned(F, h)
      /\ G[g].MINES > 0 => F = G
      /\ \A h \in Gids : F[h].FIGHTERS = G[h].FIGHTERS
  <2>1. /\ ForcesOK(F, diedAt) /\ Manned(F, g) /\ \A h \in Gids : h # g => F[h] = G[h]
        /\ G[g].MINES > 0 => F = G
        /\ \A h \in Gids : F[h].FIGHTERS = G[h].FIGHTERS
      BY <1>2, <1>6, <1>7, SweptIs
  <2>2. \A h \in Gids : h # g => F[h] = garrison[h]
      BY <1>6, <2>1
  <2> QED
      BY <2>1, <2>2, InWorld DEF Manned
<1>9. Exposed(p)
    BY <1>2, InWorld DEF Exposed, ForcesOK, Present
<1>10. NoMore(S, F, planet)
  <2>1. \A q \in Players : S[q]["FIGHTERS"] <= ship[q]["FIGHTERS"]
      BY <1>5, InWorld DEF Goods
  <2>2. \A h \in Gids : F[h].FIGHTERS <= garrison[h].FIGHTERS
      BY <1>6, <1>8, InWorld
  <2> QED
      BY <2>1, <2>2, NothingNew DEF NoMore
<1>11. CASE Settle(S, F) /\ cmd' = IF G[g].MINES > 0 THEN cmd ELSE Idle
  <2>1. WorldLeft /\ Still /\ SameFighters(S, F, planet)
      BY <1>5, <1>8, <1>11, ForcesSettled
  <2>2. AtSea(cmd') = 0
    <3>1. cmd' = cmd \/ cmd' = Idle
        BY <1>11
    <3> QED
        BY <1>1, <3>1, IdleIsOK
  <2>3. NoneMade
      BY <1>1, <1>10, <2>1, <2>2, NoneAdded
  <2>4. OnlyHits({p}, ship)
      BY <1>5, <1>11, <2>1 DEF OnlyHits, Still, Settle
  <2>5. CASE G[g].MINES > 0
    <3>1. cmd' = cmd /\ garrison' = G
        BY <1>8, <1>11, <2>5 DEF Settle
    <3>2. UnderMines(cmd)'
        BY <1>1, <1>2, <1>6, <2>1, <2>5, <3>1 DEF UnderMines, Still, Alive, p
    <3> QED
        BY <1>1, <1>2, <1>9, <2>1, <2>3, <2>4, <3>1, <3>2 DEF CmdOK, CommandOK, Whole, p
  <2> QED
      BY <1>2, <1>9, <1>11, <2>1, <2>3, <2>4, <2>5, IdleIsOK DEF p
<1>12. CASE WarpOrDie(p, S, F, planet) /\ cmd' = Idle
  <2>1. ShipsOK(S, sector, diedAt, day)
      BY <1>5 DEF World, ShipsOK, Fleet
  <2>2. WorldLeft /\ OnlyHits({p}, S) /\ SameFighters(S, F, planet)
      BY <1>2, <1>5, <1>8, <1>12, <2>1, WarpedOrDead, InWorld DEF Clock
  <2>3. OnlyHits({p}, ship)
      BY <1>5, <2>2 DEF OnlyHits
  <2>4. CmdOK' /\ AtSea(cmd') = 0
      BY <1>12, IdleIsOK
  <2>5. NoneMade
      BY <1>1, <1>10, <2>2, <2>4, NoneAdded
  <2> QED
      BY <1>2, <1>9, <2>2, <2>3, <2>4, <2>5 DEF p
<1> QED
    BY <1>4, <1>7, <1>11, <1>12

-----------------------------------------------------------------------------
(* Ship against ship *)

LEMMA ExchangeIs ==
    ASSUME NEW S \in Fleet, NEW a \in Players, NEW d \in Players, a # d,
           NEW loss, loss[1] \in 0..S[a]["FIGHTERS"], loss[2] \in 0..S[d]["FIGHTERS"],
           NEW T, T = Exchange(S, a, d, loss)
    PROVE  /\ T \in Fleet /\ \A q \in Players : q \notin {a, d} => T[q] = S[q]
           /\ T[a]["FIGHTERS"] = S[a]["FIGHTERS"] - loss[1]
           /\ T[d]["FIGHTERS"] = S[d]["FIGHTERS"] - loss[2]
<1>1. S[a] \in [Goods -> Nat] /\ S[d] \in [Goods -> Nat] /\ "FIGHTERS" \in Goods
    BY DEF Fleet, Goods
<1>2. PICK U : U = Less(S, a, "FIGHTERS", loss[1])
    OBVIOUS
<1>3. /\ U \in Fleet /\ U[a]["FIGHTERS"] = S[a]["FIGHTERS"] - loss[1]
      /\ \A q \in Players : q # a => U[q] = S[q]
  <2>1. PICK k : k = loss[1]
      OBVIOUS
  <2> QED
      BY <1>1, <1>2, <2>1, LessIs
<1>4. T = Less(U, d, "FIGHTERS", loss[2])
    BY <1>2 DEF Exchange, Less
<1>5. loss[2] \in 0..U[d]["FIGHTERS"]
    BY <1>3
<1>6. /\ T \in Fleet /\ T[d]["FIGHTERS"] = U[d]["FIGHTERS"] - loss[2]
      /\ \A q \in Players : q # d => T[q] = U[q]
  <2>1. PICK k : k = loss[2]
      OBVIOUS
  <2> QED
      BY <1>1, <1>3, <1>4, <1>5, <2>1, LessIs
<1> QED
    BY <1>3, <1>6

LEMMA FleetInPlace ==
    ASSUME World, NEW S \in Fleet
    PROVE  ShipsOK(S, sector, diedAt, day)
BY DEF World, ShipsOK, Fleet

LEMMA ResolveKillOK ==
    ASSUME World, Clock, NEW killer \in Players, NEW v \in Players, killer # v,
           Alive(killer), Exposed(v), sector[killer] = sector[v],
           NEW S \in Fleet, ResolveKill(killer, v, S)
    PROVE  /\ WorldLeft /\ CmdOK' /\ OnlyHits({v}, S)
           /\ SameFighters(S, garrison, planet) /\ AtSea(cmd') = 0
<1>1. CASE EmWarp(v, S, garrison, planet) /\ cmd' = Idle
  <2>1. WorldLeft /\ OnlyHits({v}, S) /\ SameFighters(S, garrison, planet)
      BY <1>1, WarpedOrDead, FleetInPlace, InWorld DEF Clock, Exposed
  <2> QED
      BY <1>1, <2>1, IdleIsOK
<1>2. CASE /\ Settle(S, garrison)
           /\ cmd' = [Idle EXCEPT !.op = "carried", !.who = killer, !.other = v,
                                  !.left = S[v]["MINES"]]
  <2>1. WorldLeft /\ Still /\ SameFighters(S, garrison, planet)
      BY <1>2, ForcesSettled, InWorld
  <2>2. OnlyHits({v}, S)
      BY <1>2, <2>1 DEF OnlyHits, Still, Settle
  <2>3. S[v]["MINES"] \in Nat
      BY DEF Fleet, Goods
  <2>4. /\ cmd'.op = "carried" /\ cmd'.who = killer /\ cmd'.other = v /\ Whole(cmd')
        /\ cmd'.left \in Nat /\ cmd'.ships = 0
      BY <1>2, <2>3 DEF Idle, Whole
  <2>5. BreakingUp(cmd)'
      BY <2>1, <2>4 DEF BreakingUp, Exposed, Still, Alive
  <2> QED
      BY <2>1, <2>2, <2>4, <2>5 DEF CmdOK, CommandOK, AtSea
<1> QED
    BY <1>1, <1>2 DEF ResolveKill

LEMMA CounterAttackOK ==
    ASSUME World, Clock, NEW a \in Players, NEW t \in Players, a # t,
           Alive(a), Exposed(t), sector[a] = sector[t],
           NEW S \in Fleet, CounterAttack(a, t, S)
    PROVE  /\ WorldLeft /\ CmdOK' /\ OnlyHits({a, t}, S) /\ AtSea(cmd') = 0
           /\ \E T : /\ SameFighters(T, garrison, planet)
                     /\ \A q \in Players : T[q]["FIGHTERS"] <= S[q]["FIGHTERS"]
<1>1. PICK loss \in AttritionLosses(S[a]["FIGHTERS"], S[t]["FIGHTERS"]) :
          LET T == Exchange(S, a, t, loss) IN
          IF T[a]["FIGHTERS"] = 0 THEN WarpOrDie(a, T, garrison, planet) /\ cmd' = Idle
                                 ELSE ResolveKill(a, t, T)
    BY DEF CounterAttack
<1>2. PICK T : T = Exchange(S, a, t, loss)
    OBVIOUS
<1>3. S[a]["FIGHTERS"] \in Nat /\ S[t]["FIGHTERS"] \in Nat
    BY DEF Fleet, Goods
<1>4. loss[1] \in 0..S[a]["FIGHTERS"] /\ loss[2] \in 0..S[t]["FIGHTERS"]
    BY <1>3, LossesAreBounded
<1>5. /\ T \in Fleet /\ \A q \in Players : q \notin {a, t} => T[q] = S[q]
      /\ T[a]["FIGHTERS"] = S[a]["FIGHTERS"] - loss[1]
      /\ T[t]["FIGHTERS"] = S[t]["FIGHTERS"] - loss[2]
    BY <1>2, <1>4, ExchangeIs
<1>6. \A q \in Players : T[q]["FIGHTERS"] <= S[q]["FIGHTERS"]
  <2>1. \A q \in Players : S[q]["FIGHTERS"] \in Nat
      BY DEF Fleet, Goods
  <2> QED
      BY <1>4, <1>5, <2>1
<1>7. CASE WarpOrDie(a, T, garrison, planet) /\ cmd' = Idle
  <2>1. WorldLeft /\ OnlyHits({a}, T) /\ SameFighters(T, garrison, planet)
      BY <1>5, <1>7, WarpedOrDead, FleetInPlace, InWorld DEF Clock
  <2>2. OnlyHits({a, t}, S)
      BY <1>5, <2>1 DEF OnlyHits
  <2> QED
      BY <1>6, <1>7, <2>1, <2>2, IdleIsOK
<1>8. CASE ResolveKill(a, t, T)
  <2>1. /\ WorldLeft /\ CmdOK' /\ OnlyHits({t}, T)
        /\ SameFighters(T, garrison, planet) /\ AtSea(cmd') = 0
      BY <1>5, <1>8, ResolveKillOK
  <2>2. OnlyHits({a, t}, S)
      BY <1>5, <2>1 DEF OnlyHits
  <2> QED
      BY <1>6, <2>1, <2>2
<1> QED
    BY <1>1, <1>2, <1>7, <1>8

LEMMA AttackPlayerOK ==
    ASSUME World, Clock, NEW a \in Players, NEW t \in Players, NEW commit,
           AttackPlayer(a, t, commit)
    PROVE  /\ WorldLeft /\ CmdOK' /\ NoneMade
           /\ Exposed(a) /\ Exposed(t) /\ OnlyHits({a, t}, ship)
<1>1. /\ Alive(a) /\ sector[a] > FedMax /\ Alive(t) /\ sector[t] = sector[a] /\ t # a
      /\ commit \in 1..ship[a]["FIGHTERS"] /\ AtSea(cmd) = 0
    BY ReadyAtSea DEF AttackPlayer
<1>2. Exposed(a) /\ Exposed(t)
    BY <1>1 DEF Exposed
<1>3. PICK loss \in AttritionLosses(commit, ship[t]["FIGHTERS"]) :
          LET S == Exchange(ship, a, t, loss) IN
          IF S[t]["FIGHTERS"] = 0 THEN ResolveKill(a, t, S)
          ELSE \/ Settle(S, garrison) /\ cmd' = Idle
               \/ CounterAttack(a, t, S)
    BY DEF AttackPlayer
<1>4. PICK S : S = Exchange(ship, a, t, loss)
    OBVIOUS
<1>5. ship \in Fleet /\ ship[a]["FIGHTERS"] \in Nat /\ ship[t]["FIGHTERS"] \in Nat
    BY InWorld DEF Goods
<1>6. loss[1] \in 0..ship[a]["FIGHTERS"] /\ loss[2] \in 0..ship[t]["FIGHTERS"]
  <2>1. commit \in Nat
      BY <1>1
  <2>2. loss[1] \in 0..commit /\ loss[2] \in 0..ship[t]["FIGHTERS"]
      BY <1>5, <2>1, LossesAreBounded
  <2> QED
      BY <1>1, <1>5, <2>2
<1>7. /\ S \in Fleet /\ \A q \in Players : q \notin {a, t} => S[q] = ship[q]
      /\ S[a]["FIGHTERS"] = ship[a]["FIGHTERS"] - loss[1]
      /\ S[t]["FIGHTERS"] = ship[t]["FIGHTERS"] - loss[2]
    BY <1>1, <1>4, <1>5, <1>6, ExchangeIs
<1>8. \A q \in Players : S[q]["FIGHTERS"] <= ship[q]["FIGHTERS"]
    BY <1>5, <1>6, <1>7, InWorld DEF Goods
<1>9. ASSUME NEW T, WorldLeft, SameFighters(T, garrison, planet), AtSea(cmd') = 0,
             \A q \in Players : T[q]["FIGHTERS"] <= S[q]["FIGHTERS"],
             \A q \in Players : T[q]["FIGHTERS"] \in Nat
      PROVE  NoneMade
  <2>1. \A q \in Players : S[q]["FIGHTERS"] \in Nat /\ ship[q]["FIGHTERS"] \in Nat
      BY <1>7, InWorld DEF Fleet, Goods
  <2>2. \A q \in Players : T[q]["FIGHTERS"] <= ship[q]["FIGHTERS"]
      BY <1>8, <1>9, <2>1
  <2>3. NoMore(T, garrison, planet)
      BY <2>2, NothingNew DEF NoMore
  <2> QED
      BY <1>1, <1>9, <2>3, NoneAdded
<1>10. \A q \in Players : S[q]["FIGHTERS"] \in Nat /\ S[q]["FIGHTERS"] <= S[q]["FIGHTERS"]
    BY <1>7 DEF Fleet, Goods
<1>11. CASE ResolveKill(a, t, S)
  <2>1. /\ WorldLeft /\ CmdOK' /\ OnlyHits({t}, S)
        /\ SameFighters(S, garrison, planet) /\ AtSea(cmd') = 0
      BY <1>1, <1>2, <1>7, <1>11, ResolveKillOK
  <2>2. NoneMade
      BY <1>9, <1>10, <2>1
  <2> QED
      BY <1>2, <1>7, <2>1, <2>2 DEF OnlyHits
<1>12. CASE Settle(S, garrison) /\ cmd' = Idle
  <2>1. WorldLeft /\ Still /\ SameFighters(S, garrison, planet)
      BY <1>7, <1>12, ForcesSettled, InWorld
  <2>2. NoneMade /\ CmdOK'
      BY <1>9, <1>10, <1>12, <2>1, IdleIsOK
  <2> QED
      BY <1>2, <1>7, <1>12, <2>1, <2>2 DEF OnlyHits, Still, Settle
<1>13. CASE CounterAttack(a, t, S)
  <2>1. /\ WorldLeft /\ CmdOK' /\ OnlyHits({a, t}, S) /\ AtSea(cmd') = 0
        /\ \E T : /\ SameFighters(T, garrison, planet)
                  /\ \A q \in Players : T[q]["FIGHTERS"] <= S[q]["FIGHTERS"]
      BY <1>1, <1>2, <1>7, <1>13, CounterAttackOK
  <2>2. PICK T : /\ SameFighters(T, garrison, planet)
                 /\ \A q \in Players : T[q]["FIGHTERS"] <= S[q]["FIGHTERS"]
      BY <2>1
  <2>3. \A q \in Players : T[q]["FIGHTERS"] \in Nat
      BY <2>1, <2>2 DEF SameFighters, WorldLeft, ShipsOK, Goods
  <2>4. NoneMade
      BY <1>9, <2>1, <2>2, <2>3
  <2> QED
      BY <1>2, <1>7, <2>1, <2>4 DEF OnlyHits
<1> QED
    BY <1>3, <1>4, <1>11, <1>12, <1>13

LEMMA CarriedOK ==
    ASSUME World, Clock, CmdOK, Carried
    PROVE  /\ WorldLeft /\ CmdOK' /\ NoneMade
           /\ \E p \in Players :
                  /\ Exposed(p) /\ OnlyHits({p}, ship)
                  /\ p = cmd.who \/ (p = cmd.other /\ AsMany)
<1> DEFINE k == cmd.who
           v == cmd.other
<1>1. /\ cmd.op = "carried" /\ BreakingUp(cmd) /\ Whole(cmd) /\ cmd.left \in Nat
      /\ AtSea(cmd) = 0
    BY DEF Carried, CmdOK, CommandOK, AtSea
<1>2. /\ k \in Players /\ v \in Players /\ Exposed(v) /\ k # v
      /\ cmd.left > 0 => Alive(k) /\ sector[k] = sector[v]
    BY <1>1 DEF BreakingUp, Exposed
<1>3. CASE cmd.left = 0
  <2>1. ship' = ship /\ Kill(v, garrison, planet) /\ cmd' = Idle
      BY <1>3 DEF Carried
  <2>2. WorldLeft /\ OnlyHits({v}, ship) /\ SameFighters(ship, garrison, planet)
      BY <1>2, <2>1, Killed, InWorld DEF Clock
  <2>3. CmdOK' /\ AtSea(cmd') = 0
      BY <2>1, IdleIsOK
  <2>4. NoneMade /\ AsMany
      BY <1>1, <2>2, <2>3, NoneLost, NoneAdded, NothingNew
  <2> QED
      BY <1>2, <2>2, <2>3, <2>4
<1>4. CASE cmd.left > 0
  <2>1. PICK S : /\ Blasted(k, S)
                 /\ \/ Settle(S, garrison) /\ cmd' = [cmd EXCEPT !.left = @ - 1]
                    \/ WarpOrDie(k, S, garrison, planet) /\ cmd' = [cmd EXCEPT !.left = 0]
      BY <1>4 DEF Carried, Detonate, Blasted
  <2> HIDE DEF k, v
  <2>2. /\ S \in Fleet /\ \A q \in Players : q # k => S[q] = ship[q]
        /\ S[k]["FIGHTERS"] \in 0..ship[k]["FIGHTERS"]
      BY <1>2, <2>1, BlastedIs
  <2>3. NoMore(S, garrison, planet)
    <3>1. \A q \in Players : S[q]["FIGHTERS"] <= ship[q]["FIGHTERS"]
        BY <2>2, InWorld DEF Goods
    <3> QED
        BY <3>1, NothingNew DEF NoMore
  <2>4. Exposed(k)
      BY <1>2, <1>4 DEF Exposed
  <2>5. CASE Settle(S, garrison) /\ cmd' = [cmd EXCEPT !.left = @ - 1]
    <3>1. WorldLeft /\ Still /\ SameFighters(S, garrison, planet)
        BY <2>2, <2>5, ForcesSettled, InWorld
    <3>2. OnlyHits({k}, ship)
        BY <2>2, <2>5, <3>1 DEF OnlyHits, Still, Settle
    <3>3. /\ cmd'.op = "carried" /\ cmd'.who = cmd.who /\ cmd'.other = cmd.other
          /\ Whole(cmd') /\ cmd'.left = cmd.left - 1 /\ cmd'.ships = cmd.ships
        BY <1>1, <2>5 DEF Whole
    <3>4. BreakingUp(cmd)'
        BY <1>2, <1>4, <3>1, <3>3 DEF BreakingUp, Exposed, Still, Alive, k, v
    <3>5. CmdOK'
        BY <1>1, <1>4, <3>3, <3>4 DEF CmdOK, CommandOK
    <3>6. AtSea(cmd') = 0
        BY <3>3 DEF AtSea
    <3>7. NoneMade
        BY <1>1, <2>3, <3>1, <3>6, NoneAdded
    <3> QED
        BY <1>2, <2>4, <3>1, <3>2, <3>5, <3>7 DEF k
  <2>6. CASE WarpOrDie(k, S, garrison, planet) /\ cmd' = [cmd EXCEPT !.left = 0]
    <3>1. WorldLeft /\ OnlyHits({k}, S) /\ SameFighters(S, garrison, planet)
        BY <1>2, <1>4, <2>2, <2>6, WarpedOrDead, FleetInPlace, InWorld DEF Clock
    <3>2. OnlyHits({k}, ship)
        BY <2>2, <3>1 DEF OnlyHits
    <3>3. /\ cmd'.op = "carried" /\ cmd'.who = cmd.who /\ cmd'.other = cmd.other
          /\ Whole(cmd') /\ cmd'.left = 0 /\ cmd'.ships = cmd.ships
        BY <1>1, <2>6 DEF Whole
    <3>4. BreakingUp(cmd)'
        BY <1>2, <3>2, <3>3 DEF BreakingUp, Exposed, OnlyHits, Alive, k, v
    <3>5. CmdOK'
        BY <1>1, <3>3, <3>4 DEF CmdOK, CommandOK
    <3>6. AtSea(cmd') = 0
        BY <3>3 DEF AtSea
    <3>7. NoneMade
        BY <1>1, <2>3, <3>1, <3>6, NoneAdded
    <3> QED
        BY <1>2, <2>4, <3>1, <3>2, <3>5, <3>7 DEF k
  <2> QED
      BY <2>1, <2>5, <2>6
<1>5. cmd.left = 0 \/ cmd.left > 0
    BY <1>1
<1> QED
    BY <1>3, <1>4, <1>5

-----------------------------------------------------------------------------
(* Planets *)

LEMMA InvadePlanetOK ==
    ASSUME World, Clock, NEW p \in Players, NEW commit, InvadePlanet(p, commit)
    PROVE  WorldLeft /\ CmdOK' /\ OnlyHits({p}, ship) /\ Exposed(p) /\ NoneMade
<1>1. /\ Alive(p) /\ commit \in 1..ship[p]["FIGHTERS"] /\ commit \in Nat
      /\ AtSea(cmd) = 0
    BY InWorld, ReadyAtSea DEF InvadePlanet, Goods
<1>2. PICK i \in PlanetsAt(sector[p]) : 
          \E loss \in AttritionLosses(commit, planet[i].FIGHTERS) :
             LET S == Less(ship, p, "FIGHTERS", loss[1])
                 P == [planet EXCEPT ![i].FIGHTERS = @ - loss[2]]
             IN IF P[i].FIGHTERS > 0 THEN Repelled(p, S, P)
                ELSE /\ SettlePlanet(S, P)
                     /\ cmd' = [Idle EXCEPT !.op = "storm", !.who = p, !.slot = i,
                                     !.left = P[i].MINES, !.ships = ship[p]["FIGHTERS"]]
    BY DEF InvadePlanet
<1>3. i \in Pids /\ Present(planet[i]) /\ planet[i].sector = sector[p]
    BY DEF PlanetsAt
<1>4. PICK loss \in AttritionLosses(commit, planet[i].FIGHTERS) :
             LET S == Less(ship, p, "FIGHTERS", loss[1])
                 P == [planet EXCEPT ![i].FIGHTERS = @ - loss[2]]
             IN IF P[i].FIGHTERS > 0 THEN Repelled(p, S, P)
                ELSE /\ SettlePlanet(S, P)
                     /\ cmd' = [Idle EXCEPT !.op = "storm", !.who = p, !.slot = i,
                                     !.left = P[i].MINES, !.ships = ship[p]["FIGHTERS"]]
    BY <1>2
<1>5. PICK S, P, j, k : /\ j = loss[1] /\ k = planet[i].FIGHTERS - loss[2]
                        /\ S = Less(ship, p, "FIGHTERS", j)
                        /\ P = Restocked(planet, i, "FIGHTERS", k)
    OBVIOUS
<1>6. IF P[i].FIGHTERS > 0 THEN Repelled(p, S, P)
      ELSE /\ SettlePlanet(S, P)
           /\ cmd' = [Idle EXCEPT !.op = "storm", !.who = p, !.slot = i,
                           !.left = P[i].MINES, !.ships = ship[p]["FIGHTERS"]]
    BY <1>4, <1>5 DEF Restocked
<1>7. planet[i].FIGHTERS \in Nat /\ planet[i].MINES \in Nat
    BY <1>3, InWorld
<1>8. /\ loss[1] \in 0..commit /\ loss[2] \in 0..planet[i].FIGHTERS
      /\ planet[i].FIGHTERS = 0 => loss[1] = 0 /\ loss[2] = 0
      /\ planet[i].FIGHTERS > 0 => \/ loss[1] = commit /\ loss[2] < planet[i].FIGHTERS
                                   \/ loss[1] < commit /\ loss[2] = planet[i].FIGHTERS
    BY <1>1, <1>7, LossesAreBounded
<1>9. /\ S \in Fleet /\ \A q \in Players : q # p => S[q] = ship[q]
      /\ S[p]["FIGHTERS"] = ship[p]["FIGHTERS"] - j
  <2>1. j \in 0..ship[p]["FIGHTERS"] /\ ship \in Fleet /\ "FIGHTERS" \in Goods
      BY <1>1, <1>5, <1>8, InWorld DEF Goods
  <2> QED
      BY <1>5, <2>1, LessIs
<1>10. /\ PlanetsOK(P, diedAt) /\ P[i].FIGHTERS = k /\ P[i].MINES = planet[i].MINES
       /\ P[i].owner = planet[i].owner /\ P[i].sector = planet[i].sector
       /\ \A x \in Pids : x # i => P[x] = planet[x]
  <2>1. k \in Nat
      BY <1>5, <1>7, <1>8
  <2>2. PlanetsOK(planet, diedAt) /\ P = Restocked(planet, i, "FIGHTERS", k)
      BY <1>5, InWorld
  <2> QED
      BY <1>3, <2>1, <2>2, PlanetGarrisoned
<1>11. Exposed(p)
    BY <1>1, <1>3, InWorld DEF Exposed, PlanetsOK
<1>12. NoMore(S, garrison, P)
  <2>1. \A q \in Players : S[q]["FIGHTERS"] <= ship[q]["FIGHTERS"]
      BY <1>1, <1>5, <1>8, <1>9, InWorld DEF Goods
  <2>2. \A x \in Pids : P[x].FIGHTERS <= planet[x].FIGHTERS
      BY <1>3, <1>5, <1>7, <1>8, <1>10, InWorld
  <2> QED
      BY <2>1, <2>2, NothingNew DEF NoMore
<1>13. CASE P[i].FIGHTERS > 0 /\ Repelled(p, S, P)
  <2>1. cmd' = Idle
      BY <1>13 DEF Repelled
  <2>2. CmdOK' /\ AtSea(cmd') = 0
      BY <2>1, IdleIsOK
  <2>3. CASE WarpOrDie(p, S, garrison, P)
    <3>1. WorldLeft /\ OnlyHits({p}, S) /\ SameFighters(S, garrison, P)
        BY <1>1, <1>9, <1>10, <2>3, WarpedOrDead, FleetInPlace, InWorld DEF Clock
    <3>2. NoneMade
        BY <1>1, <1>12, <2>2, <3>1, NoneAdded
    <3> QED
        BY <1>9, <1>11, <2>2, <3>1, <3>2 DEF OnlyHits
  <2>4. CASE SettlePlanet(S, P)
    <3>1. WorldLeft /\ Still /\ SameFighters(S, garrison, P)
        BY <1>9, <1>10, <2>4, PlanetsSettled
    <3>2. NoneMade
        BY <1>1, <1>12, <2>2, <3>1, NoneAdded
    <3> QED
        BY <1>9, <1>11, <2>2, <2>4, <3>1, <3>2 DEF OnlyHits, Still, SettlePlanet
  <2> QED
      BY <1>13, <2>3, <2>4 DEF Repelled
<1>14. CASE /\ ~(P[i].FIGHTERS > 0) /\ SettlePlanet(S, P)
            /\ cmd' = [Idle EXCEPT !.op = "storm", !.who = p, !.slot = i,
                            !.left = P[i].MINES, !.ships = ship[p]["FIGHTERS"]]
  <2>1. WorldLeft /\ Still /\ ship' = S /\ planet' = P /\ SameFighters(S, garrison, P)
      BY <1>9, <1>10, <1>14, PlanetsSettled DEF SettlePlanet
  <2>2. OnlyHits({p}, ship)
      BY <1>9, <2>1 DEF OnlyHits, Still
  <2>3. S[p]["FIGHTERS"] > 0
      BY <1>1, <1>5, <1>7, <1>8, <1>9, <1>10, <1>14, InWorld DEF Goods
  <2>4. /\ cmd'.op = "storm" /\ cmd'.who = p /\ cmd'.slot = i /\ Whole(cmd')
        /\ cmd'.left = P[i].MINES /\ cmd'.ships = ship[p]["FIGHTERS"]
      BY <1>14 DEF Idle, Whole
  <2>5. Storming(cmd)'
      BY <1>1, <1>3, <1>10, <2>1, <2>3, <2>4 DEF Storming, Still, Alive, Present
  <2>6. cmd'.left \in Nat /\ cmd'.ships \in Nat
      BY <1>7, <1>10, <2>4, InWorld DEF Goods
  <2>7. CmdOK' /\ AtSea(cmd') = 0
      BY <2>1, <2>4, <2>5, <2>6 DEF CmdOK, CommandOK, AtSea
  <2>8. NoneMade
      BY <1>1, <1>12, <2>1, <2>7, NoneAdded
  <2> QED
      BY <1>11, <2>1, <2>2, <2>7, <2>8
<1> QED
    BY <1>6, <1>13, <1>14

\* A planet that is no more has no fighters.
LEMMA PlanetRuined ==
    ASSUME World, NEW i \in Pids, NEW P, P = Placed(planet, i, VacantPlanet)
    PROVE  NoMore(ship, garrison, P)
<1>1. planet \in [Pids -> Planet] /\ VacantPlanet.FIGHTERS = 0
    BY InWorld DEF PlanetsOK, VacantPlanet
<1>2. PICK x : x = VacantPlanet
    OBVIOUS
<1>3. P[i] = x /\ \A j \in Pids : j # i => P[j] = planet[j]
    BY <1>1, <1>2 DEF Placed
<1>4. \A j \in Pids : P[j].FIGHTERS <= planet[j].FIGHTERS
    BY <1>1, <1>2, <1>3, InWorld
<1> QED
    BY <1>4, NothingNew DEF NoMore

LEMMA StormOK ==
    ASSUME World, Clock, CmdOK, Storm
    PROVE  /\ WorldLeft /\ CmdOK' /\ NoneMade
           /\ cmd.who \in Players /\ Exposed(cmd.who) /\ OnlyHits({cmd.who}, ship)
<1> DEFINE p == cmd.who
           i == cmd.slot
           Q == [planet EXCEPT ![i].MINES = @ - 1]
<1>1. /\ cmd.op = "storm" /\ Storming(cmd) /\ Whole(cmd) /\ cmd.left \in Nat
      /\ cmd.ships \in Nat /\ AtSea(cmd) = 0
    BY DEF Storm, CmdOK, CommandOK, AtSea
<1>2. /\ p \in Players /\ Alive(p) /\ i \in Pids /\ Present(planet[i])
      /\ sector[p] = planet[i].sector /\ planet[i].MINES = cmd.left
    BY <1>1 DEF Storming
<1>3. Exposed(p)
    BY <1>2, InWorld DEF Exposed, PlanetsOK
<1>4. CASE cmd.left = 0
  <2>1. Capture(p, i)
      BY <1>4 DEF Storm
  <2> HIDE DEF p, i
  <2>2. \A x \in Planet : Present(x) =>
            [x EXCEPT !.owner = p] \in Planet /\ [x EXCEPT !.owner = p].owner = p
                /\ [x EXCEPT !.owner = p].sector = x.sector
      BY <1>2 DEF Planet, Owners
  <2>3. PICK x, y : x = planet[i] /\ y = [x EXCEPT !.owner = p]
      OBVIOUS
  <2>4. /\ x \in Planet /\ y \in Planet /\ y.owner = p /\ y.sector = x.sector
        /\ y.sector > FedMax
        /\ \A j \in Pids : j # i /\ Present(planet[j]) => planet[j].sector # y.sector
      BY <1>2, <2>2, <2>3, InWorld DEF PlanetsOK
  <2>5. CmdOK' /\ AtSea(cmd') = 0
      BY <2>1, IdleIsOK DEF Capture
  <2>6. CASE SettlePlanet(ship, [planet EXCEPT ![i].owner = p])
    <3>1. PICK P : P = Placed(planet, i, y)
        OBVIOUS
    <3>2. \A q \in Players : y.owner = q => diedAt[q] = 0
        BY <1>2, <2>4 DEF Alive
    <3>3. PlanetsOK(P, diedAt)
        BY <1>2, <2>4, <3>1, <3>2, PlanetSettled, InWorld
    <3>4. SettlePlanet(ship, P)
        BY <2>3, <2>6, <3>1 DEF Placed
    <3>5. WorldLeft /\ Still /\ SameFighters(ship, garrison, P)
        BY <3>3, <3>4, PlanetsSettled, InWorld
    <3>6. \A j \in Pids : P[j].FIGHTERS <= planet[j].FIGHTERS
      <4>1. P[i] = y /\ \A j \in Pids : j # i => P[j] = planet[j]
          BY <1>2, <3>1, InWorld DEF Placed, PlanetsOK
      <4> QED
          BY <2>3, <2>4, <4>1, InWorld DEF Planet
    <3>7. NoneMade
      <4>1. NoMore(ship, garrison, P)
          BY <3>6, NothingNew DEF NoMore
      <4> QED
          BY <1>1, <2>5, <3>5, <4>1, NoneAdded
    <3>8. OnlyHits({p}, ship)
        BY <3>4, <3>5 DEF OnlyHits, Still, SettlePlanet
    <3> QED
        BY <1>2, <1>3, <2>5, <3>5, <3>7, <3>8 DEF p
  <2>7. CASE SettlePlanet(ship, [planet EXCEPT ![i] = VacantPlanet])
    <3>1. PICK P : P = Placed(planet, i, VacantPlanet) /\ SettlePlanet(ship, P)
        BY <2>7 DEF Placed
    <3>2. PlanetsOK(P, diedAt)
        BY <1>2, <3>1, PlanetSettled, InWorld, VacantPlanetIs, NobodyIsNoPlayer
    <3>3. WorldLeft /\ Still /\ SameFighters(ship, garrison, P)
        BY <3>1, <3>2, PlanetsSettled, InWorld
    <3>4. NoneMade
      <4>1. NoMore(ship, garrison, P)
          BY <1>2, <3>1, PlanetRuined DEF NoMore
      <4> QED
          BY <1>1, <2>5, <3>3, <4>1, NoneAdded
    <3>5. OnlyHits({p}, ship)
        BY <3>1, <3>3 DEF OnlyHits, Still, SettlePlanet
    <3> QED
        BY <1>2, <1>3, <2>5, <3>3, <3>4, <3>5 DEF p
  <2> QED
      BY <2>1, <2>6, <2>7 DEF Capture
<1>5. CASE cmd.left > 0
  <2>1. PICK S : /\ Blasted(p, S)
                 /\ \/ /\ SettlePlanet(S, Q) /\ cmd' = [cmd EXCEPT !.left = @ - 1]
                       /\ ship[p]["MINEDEFLECTOR"] >= 1 \/ S[p]["FIGHTERS"] # 0
                    \/ WarpOrDie(p, S, garrison, Q) /\ cmd' = Idle
    <3>1. CASE ship[p]["MINEDEFLECTOR"] >= 1
      <4>1. /\ SettlePlanet(Less(ship, p, "MINEDEFLECTOR", 1), Q)
            /\ cmd' = [cmd EXCEPT !.left = @ - 1]
          BY <1>5, <3>1 DEF Storm, Detonate
      <4> QED
          BY <3>1, <4>1 DEF Blasted
    <3>2. CASE ~(ship[p]["MINEDEFLECTOR"] >= 1)
      <4>1. cmd.left # 0
          BY <1>5
      <4>2. PICK b \in Blasts :
                LET S == Less(ship, p, "FIGHTERS", AtMost(b, ship[p]["FIGHTERS"])) IN
                IF S[p]["FIGHTERS"] = 0 THEN WarpOrDie(p, S, garrison, Q) /\ cmd' = Idle
                ELSE SettlePlanet(S, Q) /\ cmd' = [cmd EXCEPT !.left = @ - 1]
          BY <3>2, <4>1 DEF Storm, Detonate
      <4> QED
          BY <3>2, <4>2 DEF Blasted
    <3> QED
        BY <3>1, <3>2
  <2>2. PICK P, k : k = planet[i].MINES - 1 /\ P = Restocked(planet, i, "MINES", k) /\ P = Q
      BY DEF Restocked
  <2> HIDE DEF p, i, Q
  <2>3. /\ S \in Fleet /\ \A q \in Players : q # p => S[q] = ship[q]
        /\ S[p]["FIGHTERS"] \in 0..ship[p]["FIGHTERS"]
      BY <1>2, <2>1, BlastedIs
  <2>4. k \in Nat /\ k = cmd.left - 1
      BY <1>1, <1>2, <1>5, <2>2
  <2>5. /\ PlanetsOK(P, diedAt) /\ P[i].MINES = k
        /\ P[i].owner = planet[i].owner /\ P[i].sector = planet[i].sector
        /\ \A x \in Pids : P[x].FIGHTERS = planet[x].FIGHTERS
    <3>1. PlanetsOK(planet, diedAt) /\ P = Restocked(planet, i, "MINES", k)
        BY <2>2, InWorld
    <3>2. /\ PlanetsOK(P, diedAt) /\ P[i].MINES = k /\ P[i].FIGHTERS = planet[i].FIGHTERS
          /\ P[i].owner = planet[i].owner /\ P[i].sector = planet[i].sector
          /\ \A x \in Pids : x # i => P[x] = planet[x]
      <4>1. PICK D : D = diedAt /\ PlanetsOK(planet, D)
          BY <3>1
      <4>2. i \in Pids
          BY <1>2
      <4>3. P[i].FIGHTERS = planet[i].FIGHTERS
          BY <2>4, <3>1, <4>1, <4>2, PlanetMined
      <4>4. \A x \in Pids : x # i => P[x] = planet[x]
          BY <2>4, <3>1, <4>1, <4>2, PlanetMined
      <4> QED
          BY <2>4, <3>1, <4>1, <4>2, <4>3, <4>4, PlanetMined
    <3> QED
        BY <3>2
  <2>6. NoMore(S, garrison, P)
    <3>1. \A q \in Players : S[q]["FIGHTERS"] <= ship[q]["FIGHTERS"]
        BY <2>3, InWorld DEF Goods
    <3> QED
        BY <2>5, <3>1, NothingNew DEF NoMore
  <2>7. CASE /\ SettlePlanet(S, P) /\ cmd' = [cmd EXCEPT !.left = @ - 1]
             /\ ship[p]["MINEDEFLECTOR"] >= 1 \/ S[p]["FIGHTERS"] # 0
    <3>1. /\ WorldLeft /\ Still /\ ship' = S /\ planet' = P
          /\ SameFighters(S, garrison, P)
        BY <2>3, <2>5, <2>7, PlanetsSettled DEF SettlePlanet
    <3>2. OnlyHits({p}, ship)
        BY <2>3, <3>1 DEF OnlyHits, Still
    <3>3. S[p]["FIGHTERS"] > 0
      <4>1. S[p]["FIGHTERS"] \in Nat /\ ship[p]["FIGHTERS"] > 0
          BY <1>1, <1>2, <2>3 DEF Fleet, Goods, Storming, p
      <4>2. ship[p]["MINEDEFLECTOR"] >= 1 => S[p]["FIGHTERS"] = ship[p]["FIGHTERS"]
          BY <1>2, <2>1, BlastedIs
      <4> QED
          BY <2>7, <4>1, <4>2
    <3>4. /\ cmd'.op = "storm" /\ cmd'.who = cmd.who /\ cmd'.slot = cmd.slot
          /\ Whole(cmd') /\ cmd'.left = cmd.left - 1 /\ cmd'.ships = cmd.ships
        BY <1>1, <2>7 DEF Whole
    <3>5. Storming(cmd)'
        BY <1>2, <2>4, <2>5, <3>1, <3>3, <3>4 DEF Storming, Still, Alive, Present, p, i
    <3>6. CmdOK'
        BY <1>1, <1>5, <3>4, <3>5 DEF CmdOK, CommandOK
    <3>7. AtSea(cmd') = 0
        BY <3>4 DEF AtSea
    <3>8. NoneMade
        BY <1>1, <2>6, <3>1, <3>7, NoneAdded
    <3> QED
        BY <1>2, <1>3, <3>1, <3>2, <3>6, <3>8 DEF p
  <2>8. CASE WarpOrDie(p, S, garrison, P) /\ cmd' = Idle
    <3>1. WorldLeft /\ OnlyHits({p}, S) /\ SameFighters(S, garrison, P)
        BY <1>2, <2>3, <2>5, <2>8, WarpedOrDead, FleetInPlace, InWorld DEF Clock
    <3>2. OnlyHits({p}, ship)
        BY <2>3, <3>1 DEF OnlyHits
    <3>3. CmdOK' /\ AtSea(cmd') = 0
        BY <2>8, IdleIsOK
    <3>4. NoneMade
        BY <1>1, <2>6, <3>1, <3>3, NoneAdded
    <3> QED
        BY <1>2, <1>3, <3>1, <3>2, <3>3, <3>4 DEF p
  <2> QED
      BY <2>1, <2>2, <2>7, <2>8
<1>6. cmd.left = 0 \/ cmd.left > 0
    BY <1>1
<1> QED
    BY <1>4, <1>5, <1>6

LEMMA InDeepSpace ==
    ASSUME World, NEW p \in Players, sector[p] > FedMax
    PROVE  Exposed(p)
BY GalaxyAssumption DEF World, ShipsOK, Exposed, Alive

LEMMA UseGenesisDeviceOK ==
    ASSUME World, CmdOK, NEW p \in Players, NEW name \in GivenNames, UseGenesisDevice(p, name)
    PROVE  /\ WorldLeft /\ CmdOK' /\ Exposed(p) /\ OnlyHits({p}, ship) /\ NoneMade
           /\ ~Harmed(p)
<1>1. /\ sector[p] > FedMax /\ PlanetsAt(sector[p]) = {} /\ ship[p]["GENESIS"] >= 1
      /\ Ready /\ cmd' = cmd
    BY DEF UseGenesisDevice
<1>2. PICK S : S = Less(ship, p, "GENESIS", 1)
    OBVIOUS
<1>3. PICK x : x = [VacantPlanet EXCEPT !.owner = p, !.name = name, !.sector = sector[p]]
    OBVIOUS
<1>4. PICK i, P : i \in Pids /\ P = Placed(planet, i, x) /\ SettlePlanet(S, P)
    BY <1>2, <1>3 DEF UseGenesisDevice, Placed
<1>5. Exposed(p)
    BY <1>1, InDeepSpace
<1>6. x \in Planet /\ x.owner = p /\ x.sector = sector[p] /\ x.FIGHTERS = 0
    BY <1>3, InWorld DEF VacantPlanet, Planet, Owners, PlanetNames
<1>7. \A j \in Pids : Present(planet[j]) => planet[j].sector # x.sector
    BY <1>1, <1>6 DEF PlanetsAt
<1>8. \A q \in Players : x.owner = q => diedAt[q] = 0
    BY <1>5, <1>6 DEF Exposed, Alive
<1>9. PlanetsOK(P, diedAt)
    BY <1>1, <1>4, <1>6, <1>7, <1>8, PlanetSettled, InWorld
<1>10. /\ S \in Fleet /\ \A q \in Players : q # p => S[q] = ship[q]
       /\ S[p]["FIGHTERS"] = ship[p]["FIGHTERS"]
    BY <1>1, <1>2, LessIs, InWorld DEF Goods
<1>11. WorldLeft /\ Still /\ SameFighters(S, garrison, P)
    BY <1>4, <1>9, <1>10, PlanetsSettled
<1>12. OnlyHits({p}, ship)
    BY <1>4, <1>10, <1>11 DEF OnlyHits, Still, SettlePlanet
<1>13. NoMore(S, garrison, P)
  <2>1. planet \in [Pids -> Planet]
      BY InWorld DEF PlanetsOK
  <2>2. P[i] = x /\ \A j \in Pids : j # i => P[j] = planet[j]
      BY <1>4, <2>1 DEF Placed
  <2>3. \A j \in Pids : P[j].FIGHTERS <= planet[j].FIGHTERS
      BY <1>6, <2>2, InWorld
  <2>4. \A q \in Players : S[q]["FIGHTERS"] <= ship[q]["FIGHTERS"]
      BY <1>10, InWorld DEF Goods
  <2> QED
      BY <2>3, <2>4, NothingNew DEF NoMore
<1>14. NoneMade
    BY <1>1, <1>11, <1>13, ReadyAtSea, NoneAdded
<1>15. ~Harmed(p)
  <2>1. ship'[p]["FIGHTERS"] = ship[p]["FIGHTERS"] /\ diedAt' = diedAt
      BY <1>10, <1>11 DEF SameFighters, Still
  <2> QED
      BY <2>1, InWorld DEF Harmed, Goods
<1> QED
    BY <1>1, <1>5, <1>11, <1>12, <1>14, <1>15, ReadyStays

LEMMA TransferSetOK ==
    ASSUME World, CmdOK, NEW p \in Players, NEW kind \in {"FIGHTERS", "MINES"},
           NEW amount \in Nat, TransferSet(p, kind, amount)
    PROVE  WorldLeft /\ CmdOK' /\ Exposed(p) /\ OnlyHits({p}, ship) /\ AsMany
<1>1. PICK i \in PlanetsAt(sector[p]) :
          /\ amount <= planet[i][kind] + ship[p][kind]
          /\ SettlePlanet(
                [ship EXCEPT ![p][kind] = planet[i][kind] + ship[p][kind] - amount],
                [planet EXCEPT ![i][kind] = amount])
    BY DEF TransferSet
<1>2. Ready /\ cmd' = cmd
    BY DEF TransferSet
<1>3. i \in Pids /\ Present(planet[i]) /\ planet[i].sector = sector[p]
    BY DEF PlanetsAt
<1>4. Exposed(p)
    BY <1>3, InDeepSpace, InWorld DEF PlanetsOK
<1>5. PICK P, S, k : /\ k = planet[i][kind] + ship[p][kind] - amount
                     /\ S = Holding(ship, p, kind, k)
                     /\ P = Restocked(planet, i, kind, amount)
    OBVIOUS
<1>6. SettlePlanet(S, P)
    BY <1>1, <1>5 DEF Restocked, Holding
<1>7. planet[i][kind] \in Nat /\ ship[p][kind] \in Nat /\ kind \in Goods
    BY <1>3, InWorld DEF Goods
<1>8. k \in Nat
    BY <1>1, <1>5, <1>7
<1>9. /\ S \in Fleet /\ \A q \in Players : q # p => S[q] = ship[q]
      /\ S[p][kind] = k /\ \A x \in Goods : x # kind => S[p][x] = ship[p][x]
  <2>1. ship \in Fleet /\ S = Holding(ship, p, kind, k)
      BY <1>5, InWorld
  <2> QED
      BY <1>7, <1>8, <2>1, HoldingIs
<1>10. /\ PlanetsOK(P, diedAt) /\ P[i][kind] = amount
       /\ \A x \in {"FIGHTERS", "MINES"} : x # kind => P[i][x] = planet[i][x]
       /\ \A j \in Pids : j # i => P[j] = planet[j]
  <2>1. PlanetsOK(planet, diedAt) /\ P = Restocked(planet, i, kind, amount)
      BY <1>5, InWorld
  <2> QED
      BY <1>3, <2>1, PlanetRestocked
<1>11. WorldLeft /\ Still /\ SameFighters(S, garrison, P)
    BY <1>6, <1>9, <1>10, PlanetsSettled
<1>12. OnlyHits({p}, ship)
    BY <1>6, <1>9, <1>11 DEF OnlyHits, Still, SettlePlanet
<1>13. AsMany
  <2>1. CASE kind = "MINES"
    <3>1. S[p]["FIGHTERS"] = ship[p]["FIGHTERS"] /\ P[i].FIGHTERS = planet[i].FIGHTERS
        BY <1>9, <1>10, <2>1 DEF Goods
    <3>2. SameFighters(ship, garrison, planet)
        BY <1>9, <1>10, <1>11, <3>1 DEF SameFighters
    <3> QED
        BY <1>2, <1>11, <3>2, NoneLost
  <2>2. CASE kind = "FIGHTERS"
    <3>1. S[p]["FIGHTERS"] = k /\ P[i].FIGHTERS = amount
        BY <1>9, <1>10, <2>2
    <3>2. /\ ship'[p]["FIGHTERS"] = k
          /\ \A q \in Players : q # p => ship'[q]["FIGHTERS"] = ship[q]["FIGHTERS"]
        BY <1>9, <1>11, <3>1 DEF SameFighters
    <3>3. /\ planet'[i].FIGHTERS = amount
          /\ \A j \in Pids : j # i => planet'[j].FIGHTERS = planet[j].FIGHTERS
        BY <1>3, <1>10, <1>11, <3>1 DEF SameFighters
    <3>4. PICK a \in Nat, f \in Nat : a = ship[p]["FIGHTERS"] /\ f = planet[i].FIGHTERS
        BY <1>3, InWorld DEF Goods
    <3>5. k = f + a - amount
        BY <1>5, <2>2, <3>4
    <3>6. Aboard(ship') + a = Aboard(ship) + k
        BY <1>11, <3>2, <3>4, OneShipChanges
    <3>7. Based(planet') + f = Based(planet) + amount
        BY <1>3, <1>11, <3>3, <3>4, OnePlanetChanges
    <3>8. garrison' = garrison
        BY <1>6 DEF SettlePlanet
    <3>9. /\ Aboard(ship) \in Nat /\ OnGuard(garrison) \in Nat /\ Based(planet) \in Nat
          /\ Aboard(ship') \in Nat /\ Based(planet') \in Nat
        BY <1>11, Counted
    <3>10. /\ amount <= f + a
           /\ AllFighters = Aboard(ship) + OnGuard(garrison) + Based(planet) + 0
           /\ AllFighters' = Aboard(ship') + OnGuard(garrison) + Based(planet') + 0
      <4>1. AtSea(cmd) = 0 /\ AtSea(cmd') = 0
          BY <1>2, ReadyAtSea
      <4> QED
          BY <1>1, <2>2, <3>4, <3>8, <4>1 DEF AllFighters
    <3> QED
        BY <1>8, <3>4, <3>5, <3>6, <3>7, <3>9, <3>10 DEF AsMany
  <2> QED
      BY <2>1, <2>2
<1> QED
    BY <1>2, <1>4, <1>11, <1>12, <1>13, ReadyStays

LEMMA BombPlanetOK ==
    ASSUME World, CmdOK, NEW p \in Players, NEW bombs, BombPlanet(p, bombs)
    PROVE  WorldLeft /\ CmdOK' /\ OnlyHits({p}, ship) /\ Still /\ NoneMade
<1>1. Ready /\ cmd' = cmd /\ bombs \in 1..ship[p]["PULSAR"]
    BY DEF BombPlanet
<1>2. PICK S : S = Less(ship, p, "PULSAR", bombs)
    OBVIOUS
<1>3. PICK i, P : /\ i \in Pids /\ P \in {planet, Placed(planet, i, VacantPlanet)}
                  /\ SettlePlanet(S, P)
    BY <1>2 DEF BombPlanet, PlanetsAt, Placed
<1>4. PlanetsOK(P, diedAt)
  <2>1. CASE P = Placed(planet, i, VacantPlanet)
    <3>1. PICK x : x = VacantPlanet
        OBVIOUS
    <3> QED
        BY <1>3, <2>1, <3>1, PlanetSettled, VacantPlanetIs, InWorld, NobodyIsNoPlayer
  <2> QED
      BY <1>3, <2>1, InWorld
<1>5. /\ S \in Fleet /\ \A q \in Players : q # p => S[q] = ship[q]
      /\ S[p]["FIGHTERS"] = ship[p]["FIGHTERS"]
  <2>1. /\ ship[p]["PULSAR"] \in Nat /\ "PULSAR" \in Goods /\ ship \in Fleet
        /\ "FIGHTERS" \in Goods
      BY InWorld DEF Goods
  <2>2. bombs \in 0..ship[p]["PULSAR"]
      BY <1>1, <2>1
  <2> QED
      BY <1>2, <2>1, <2>2, LessIs
<1>6. WorldLeft /\ Still /\ SameFighters(S, garrison, P)
    BY <1>3, <1>4, <1>5, PlanetsSettled
<1>7. OnlyHits({p}, ship)
    BY <1>3, <1>5, <1>6 DEF OnlyHits, Still, SettlePlanet
<1>8. NoMore(S, garrison, P)
  <2>1. \A q \in Players : S[q]["FIGHTERS"] <= ship[q]["FIGHTERS"]
      BY <1>5, InWorld DEF Goods
  <2>2. NoMore(ship, garrison, P)
      BY <1>3, PlanetRuined, NothingNew
  <2> QED
      BY <2>1, <2>2 DEF NoMore
<1>9. NoneMade
    BY <1>1, <1>6, <1>8, ReadyAtSea, NoneAdded
<1> QED
    BY <1>1, <1>6, <1>7, <1>9, ReadyStays

-----------------------------------------------------------------------------
(* Sector defense forces *)

LEMMA AdjustBattlegroupOK ==
    ASSUME World, CmdOK, NEW p \in Players, NEW kind \in {"FIGHTERS", "MINES"},
           NEW amount \in Nat, AdjustBattlegroup(p, kind, amount)
    PROVE  WorldLeft /\ CmdOK' /\ Exposed(p) /\ OnlyHits({p}, ship) /\ AsMany
<1>1. PICK g \in GetBattlegroup(p) :
          LET total == garrison[g][kind] + ship[p][kind] IN
          /\ amount <= total
          /\ Settle([ship EXCEPT ![p][kind] = total - amount],
                    Swept([garrison EXCEPT ![g].owner = p, ![g].sector = sector[p],
                                           ![g][kind] = amount], g))
    BY DEF AdjustBattlegroup
<1>2. Ready /\ cmd' = cmd /\ sector[p] > FedMax
    BY DEF AdjustBattlegroup
<1>3. /\ g \in Gids
      /\ Present(garrison[g]) => garrison[g].sector = sector[p]
      /\ \A h \in Gids : h # g /\ Present(garrison[h]) => garrison[h].sector # sector[p]
  <2> DEFINE here == {h \in Gids : Present(garrison[h]) /\ garrison[h].sector = sector[p]}
  <2>1. CASE here = {}
      BY <2>1 DEF GetBattlegroup
  <2>2. CASE here # {}
    <3>1. g \in here
        BY <2>2 DEF GetBattlegroup
    <3>2. \A h \in Gids : Present(garrison[h]) /\ garrison[h].sector = sector[p] => h = g
        BY <3>1, InWorld DEF ForcesOK
    <3> QED
        BY <3>1, <3>2
  <2> QED
      BY <2>1, <2>2
<1>4. Exposed(p)
    BY <1>2, InDeepSpace
<1>5. PICK k, S, x, y, G : /\ k = (garrison[g][kind] + ship[p][kind]) - amount
                     /\ S = Holding(ship, p, kind, k)
                     /\ x = garrison[g]
                     /\ y = [x EXCEPT !.owner = p, !.sector = sector[p], ![kind] = amount]
                     /\ G = [garrison EXCEPT ![g] = y]
    OBVIOUS
<1>6. garrison[g][kind] \in Nat /\ ship[p][kind] \in Nat /\ kind \in Goods
    BY <1>3, InWorld DEF Goods
<1>7. k \in Nat
    BY <1>1, <1>5, <1>6
<1>8. /\ S \in Fleet /\ \A q \in Players : q # p => S[q] = ship[q]
      /\ S[p][kind] = k /\ \A z \in Goods : z # kind => S[p][z] = ship[p][z]
  <2>1. ship \in Fleet /\ S = Holding(ship, p, kind, k)
      BY <1>5, InWorld
  <2> QED
      BY <1>6, <1>7, <2>1, HoldingIs
<1>9. garrison \in [Gids -> Battlegroup]
    BY InWorld DEF ForcesOK
<1>10. /\ y \in Battlegroup /\ y.owner = p /\ y.sector = sector[p]
       /\ y.FIGHTERS = IF kind = "FIGHTERS" THEN amount ELSE x.FIGHTERS
  <2>1. x \in Battlegroup /\ sector[p] \in 0..NumSec /\ p \in Owners
      BY <1>3, <1>5, InWorld DEF Owners
  <2>2. CASE kind = "FIGHTERS"
      BY <1>5, <2>1, <2>2 DEF Battlegroup
  <2>3. CASE kind = "MINES"
      BY <1>5, <2>1, <2>3 DEF Battlegroup
  <2> QED
      BY <2>2, <2>3
<1>11. G \in [Gids -> Battlegroup] /\ G[g] = y /\ \A h \in Gids : h # g => G[h] = garrison[h]
    BY <1>3, <1>5, <1>9, <1>10
<1>12. ForcesOK(G, diedAt)
  <2>1. \A h \in Gids : Present(G[h]) => G[h].sector > FedMax
      BY <1>2, <1>10, <1>11, InWorld DEF ForcesOK
  <2>2. \A h, h2 \in Gids :
            Present(G[h]) /\ Present(G[h2]) /\ G[h].sector = G[h2].sector => h = h2
      BY <1>3, <1>10, <1>11, InWorld DEF ForcesOK
  <2>3. \A q \in Players, h \in Gids : G[h].owner = q => diedAt[q] = 0
      BY <1>4, <1>10, <1>11, InWorld DEF ForcesOK, Exposed, Alive
  <2> QED
      BY <1>11, <2>1, <2>2, <2>3 DEF ForcesOK
<1>13. PICK F : F = Swept(G, g)
    OBVIOUS
<1>14. /\ ForcesOK(F, diedAt) /\ \A h \in Gids : Manned(F, h)
       /\ \A h \in Gids : F[h].FIGHTERS = G[h].FIGHTERS
  <2>1. /\ ForcesOK(F, diedAt) /\ Manned(F, g) /\ \A h \in Gids : h # g => F[h] = G[h]
        /\ \A h \in Gids : F[h].FIGHTERS = G[h].FIGHTERS
      BY <1>3, <1>12, <1>13, SweptIs
  <2>2. \A h \in Gids : h # g => F[h] = garrison[h]
      BY <1>11, <2>1
  <2> QED
      BY <2>1, <2>2, InWorld DEF Manned
<1>15. Settle(S, F)
  <2>1. G = [garrison EXCEPT ![g].owner = p, ![g].sector = sector[p], ![g][kind] = amount]
      BY <1>3, <1>5, <1>9, <1>10
  <2>2. PICK H : H = [garrison EXCEPT ![g].owner = p, ![g].sector = sector[p],
                                      ![g][kind] = amount]
      OBVIOUS
  <2>3. Settle(S, Swept(H, g))
      BY <1>1, <1>5, <2>2 DEF Holding
  <2> QED
      BY <1>13, <2>1, <2>2, <2>3
<1>16. WorldLeft /\ Still /\ SameFighters(S, F, planet)
    BY <1>8, <1>14, <1>15, ForcesSettled
<1>17. OnlyHits({p}, ship)
    BY <1>8, <1>15, <1>16 DEF OnlyHits, Still, Settle
<1>18. /\ \A h \in Gids : h # g => garrison'[h].FIGHTERS = garrison[h].FIGHTERS
       /\ garrison'[g].FIGHTERS = y.FIGHTERS
    BY <1>3, <1>11, <1>14, <1>16 DEF SameFighters
<1>19. AsMany
  <2>1. CASE kind = "MINES"
    <3>1. S[p]["FIGHTERS"] = ship[p]["FIGHTERS"] /\ y.FIGHTERS = garrison[g].FIGHTERS
        BY <1>5, <1>8, <1>10, <2>1 DEF Goods
    <3>2. SameFighters(ship, garrison, planet)
        BY <1>8, <1>16, <1>18, <3>1 DEF SameFighters
    <3> QED
        BY <1>2, <1>16, <3>2, NoneLost
  <2>2. CASE kind = "FIGHTERS"
    <3>1. S[p]["FIGHTERS"] = k /\ y.FIGHTERS = amount
        BY <1>8, <1>10, <2>2
    <3>2. /\ ship'[p]["FIGHTERS"] = k
          /\ \A q \in Players : q # p => ship'[q]["FIGHTERS"] = ship[q]["FIGHTERS"]
        BY <1>8, <1>16, <3>1 DEF SameFighters
    <3>3. PICK a \in Nat, f \in Nat : a = ship[p]["FIGHTERS"] /\ f = garrison[g].FIGHTERS
        BY <1>3, InWorld DEF Goods
    <3>4. k = (f + a) - amount /\ amount <= f + a
        BY <1>1, <1>5, <2>2, <3>3
    <3>5. Aboard(ship') + a = Aboard(ship) + k
        BY <1>16, <3>2, <3>3, OneShipChanges
    <3>6. OnGuard(garrison') + f = OnGuard(garrison) + amount
        BY <1>3, <1>16, <1>18, <3>1, <3>3, OneForceChanges
    <3>7. planet' = planet
        BY <1>15 DEF Settle
    <3>8. /\ Aboard(ship) \in Nat /\ OnGuard(garrison) \in Nat /\ Based(planet) \in Nat
          /\ Aboard(ship') \in Nat /\ OnGuard(garrison') \in Nat
        BY <1>16, Counted
    <3>9. /\ AllFighters = Aboard(ship) + OnGuard(garrison) + Based(planet) + 0
          /\ AllFighters' = Aboard(ship') + OnGuard(garrison') + Based(planet) + 0
      <4>1. AtSea(cmd) = 0 /\ AtSea(cmd') = 0
          BY <1>2, ReadyAtSea
      <4> QED
          BY <3>7, <4>1 DEF AllFighters
    <3> QED
        BY <1>7, <3>3, <3>4, <3>5, <3>6, <3>8, <3>9 DEF AsMany
  <2> QED
      BY <2>1, <2>2
<1> QED
    BY <1>2, <1>4, <1>16, <1>17, <1>19, ReadyStays

-----------------------------------------------------------------------------
(* Strike fleets *)

LEMMA LaunchBattleGroupOK ==
    ASSUME World, NEW p \in Players, NEW target, NEW ships,
           LaunchBattleGroup(p, target, ships)
    PROVE  WorldLeft /\ CmdOK' /\ OnlyHits({p}, ship) /\ Still /\ NoneMade
<1>1. ships \in 1..ship[p]["FIGHTERS"] /\ ship[p]["FIGHTERS"] \in Nat /\ "FIGHTERS" \in Goods
    BY InWorld DEF LaunchBattleGroup, Goods
<1>2. PICK S : S = Less(ship, p, "FIGHTERS", ships)
    OBVIOUS
<1>3. PICK r : cmd' = [Idle EXCEPT !.op = "transit", !.who = p, !.ships = ships,
                                   !.route = Tail(r)]
    BY DEF LaunchBattleGroup
<1>4. Settle(S, garrison)
    BY <1>2 DEF LaunchBattleGroup
<1>5. /\ S \in Fleet /\ \A q \in Players : q # p => S[q] = ship[q]
      /\ S[p]["FIGHTERS"] = ship[p]["FIGHTERS"] - ships
  <2>1. ships \in 0..ship[p]["FIGHTERS"]
      BY <1>1
  <2> QED
      BY <1>1, <1>2, <2>1, LessIs, InWorld
<1>6. WorldLeft /\ Still /\ SameFighters(S, garrison, planet)
    BY <1>4, <1>5, ForcesSettled, InWorld
<1>7. OnlyHits({p}, ship)
    BY <1>4, <1>5, <1>6 DEF OnlyHits, Still, Settle
<1>8. /\ cmd'.op = "transit" /\ cmd'.who = p /\ cmd'.ships = ships /\ cmd'.left = 0
      /\ cmd'.todo = {} /\ Whole(cmd')
    BY <1>3 DEF Idle, Whole
<1>9. Sailing(cmd)'
    BY <1>8 DEF Sailing
<1>10. AtSea(cmd) = 0 /\ AtSea(cmd') = ships
    BY <1>8, ReadyAtSea DEF LaunchBattleGroup, AtSea
<1>11. ships \in Nat /\ S[p]["FIGHTERS"] + ships = ship[p]["FIGHTERS"] + 0
    BY <1>1, <1>5
<1>12. NoneMade
    BY <1>5, <1>6, <1>10, <1>11, ToSeaAndBack
<1> QED
    BY <1>1, <1>6, <1>7, <1>8, <1>9, <1>12 DEF CmdOK, CommandOK

\* A fleet only meets ships in deep space, and only a player's does.
LEMMA ShipsMetAreExposed ==
    ASSUME NEW who, NEW fleet, NEW s, NEW q \in ShipsMet(who, fleet, s)
    PROVE  Exposed(q) /\ q # who /\ who \in Players
<1>1. who \in Players /\ fleet > 1 /\ s > FedMax
    BY DEF ShipsMet
<1>2. q \in {x \in Players \ {who} :
                 /\ sector[x] = s /\ Alive(x) /\ everMoved[x] /\ ~Dormant(x) /\ CanSee(who, x)}
    BY <1>1 DEF ShipsMet
<1>3. q \in Players /\ q # who /\ sector[q] = s /\ Alive(q)
    BY <1>2
<1> QED
    BY <1>1, <1>3 DEF Exposed

LEMMA MoveOnIs ==
    ASSUME Whole(cmd), NEW fleet, NEW c, c = MoveOn(fleet)
    PROVE  /\ Whole(c) /\ c.op = "transit" /\ c.who = cmd.who /\ c.ships = fleet
           /\ c.left = cmd.left /\ c.other = cmd.other /\ c.src = cmd.src
           /\ c.next = cmd.next
           /\ c.todo = IF cmd.who \in Players THEN {} ELSE cmd.todo
BY DEF Whole, MoveOn

\* Once the force in a sector is dealt with, the fleet sails on or engages.
LEMMA SailOn ==
    ASSUME Whole(cmd), cmd.left \in Nat, Sailing(cmd), NEW fleet \in Nat, Still,
           cmd.op # "engage", MeetShips(fleet)
    PROVE  CmdOK' /\ AtSea(cmd') = fleet
<1> DEFINE met == ShipsMet(cmd.who, fleet, Head(cmd.route))
<1>1. CASE met = {}
  <2>1. cmd' = MoveOn(fleet)
      BY <1>1 DEF MeetShips
  <2>2. /\ Whole(cmd') /\ cmd'.op = "transit" /\ cmd'.who = cmd.who /\ cmd'.ships = fleet
        /\ cmd'.left = cmd.left /\ cmd'.other = cmd.other /\ cmd'.src = cmd.src
        /\ cmd'.next = cmd.next
        /\ cmd'.todo = IF cmd.who \in Players THEN {} ELSE cmd.todo
      BY <2>1, MoveOnIs
  <2>3. CASE cmd.who \in Players
    <3>1. Sailing(cmd)'
        BY <2>2, <2>3 DEF Sailing
    <3> QED
        BY <2>2, <3>1 DEF CmdOK, CommandOK, AtSea
  <2>4. CASE cmd.who \notin Players
    <3>1. /\ Raiding(cmd) /\ cmd.next \in {"mayhem", "raids"}
          /\ Exposed(cmd.other) /\ cmd.other \notin cmd.todo
        BY <2>4 DEF Sailing
    <3>2. cmd'.todo = cmd.todo
        BY <2>2, <2>4
    <3>3. Sailing(cmd)'
        BY <2>2, <2>4, <3>1, <3>2 DEF Sailing, Raiding, Exposed, Still, Alive
    <3> QED
        BY <2>2, <3>3 DEF CmdOK, CommandOK, AtSea
  <2> QED
      BY <2>3, <2>4
<1>2. CASE met # {}
  <2>1. cmd' = [cmd EXCEPT !.op = "engage", !.ships = fleet, !.slot = Nobody, !.todo = met]
      BY <1>2 DEF MeetShips
  <2>2. /\ Whole(cmd') /\ cmd'.op = "engage" /\ cmd'.who = cmd.who /\ cmd'.ships = fleet
        /\ cmd'.left = cmd.left /\ cmd'.todo = met
      BY <2>1 DEF Whole
  <2>3. \A q \in met : Exposed(q) /\ q # cmd.who
      BY ShipsMetAreExposed
  <2>4. cmd.who \in Players
      BY <1>2, ShipsMetAreExposed
  <2> HIDE DEF met
  <2>5. Sailing(cmd)'
      BY <2>2, <2>3, <2>4 DEF Sailing, Exposed, Still, Alive
  <2> QED
      BY <2>2, <2>5 DEF CmdOK, CommandOK, AtSea
<1> QED
    BY <1>1, <1>2

LEMMA TransitOK ==
    ASSUME World, CmdOK, Transit
    PROVE  WorldLeft /\ CmdOK' /\ OnlyHits({}, ship) /\ NoneMade
<1>1. /\ cmd.op = "transit" /\ Sailing(cmd) /\ Whole(cmd) /\ cmd.left \in Nat
      /\ cmd.ships \in Nat /\ AtSea(cmd) = cmd.ships
    BY DEF Transit, CmdOK, CommandOK, AtSea
<1>2. CASE Settle(ship, garrison) /\ MeetShips(cmd.ships)
  <2>1. WorldLeft /\ Still /\ SameFighters(ship, garrison, planet)
      BY <1>2, ForcesSettled, InWorld
  <2>2. CmdOK' /\ AtSea(cmd') = cmd.ships
      BY <1>1, <1>2, <2>1, SailOn
  <2>3. NoneMade
      BY <1>1, <2>1, <2>2, NothingNew, NoneAdded
  <2> QED
      BY <1>2, <2>1, <2>2, <2>3 DEF OnlyHits, Still, Settle
<1>3. ASSUME NEW g \in HostileForces(cmd.who, Head(cmd.route), garrison),
             NEW loss \in AttritionLosses(cmd.ships, garrison[g].FIGHTERS),
             LET fleet == cmd.ships - loss[1]
                 G == [garrison EXCEPT ![g].FIGHTERS = @ - loss[2]]
             IN IF G[g].MINES > 0 /\ fleet > 0 /\ fleet >= FleetTrigger
                THEN /\ Settle(ship, G)
                     /\ cmd' = [cmd EXCEPT !.op = "sweep", !.ships = fleet, !.slot = g]
                ELSE Settle(ship, Swept(G, g)) /\ MeetShips(fleet)
      PROVE  WorldLeft /\ CmdOK' /\ OnlyHits({}, ship) /\ NoneMade
  <2>1. g \in Gids /\ garrison[g].FIGHTERS \in Nat
      BY InWorld DEF HostileForces
  <2>2. loss[1] \in 0..cmd.ships /\ loss[2] \in 0..garrison[g].FIGHTERS
      BY <1>1, <2>1, LossesAreBounded
  <2>3. PICK fleet, k, G : /\ fleet = cmd.ships - loss[1] /\ k = loss[2]
                           /\ G = Thinned(garrison, g, k)
      OBVIOUS
  <2>4. fleet \in Nat /\ fleet <= cmd.ships
      BY <1>1, <2>2, <2>3
  <2>5. /\ ForcesOK(G, diedAt) /\ \A h \in Gids : h # g => G[h] = garrison[h]
        /\ G[g].MINES = garrison[g].MINES /\ G[g].FIGHTERS = garrison[g].FIGHTERS - k
    <3>1. ForcesOK(garrison, diedAt) /\ k \in 0..garrison[g].FIGHTERS
        BY <2>2, <2>3, InWorld
    <3> QED
        BY <2>1, <2>3, <3>1, ForceThinned
  <2>6. IF G[g].MINES > 0 /\ fleet > 0 /\ fleet >= FleetTrigger
        THEN /\ Settle(ship, G)
             /\ cmd' = [cmd EXCEPT !.op = "sweep", !.ships = fleet, !.slot = g]
        ELSE Settle(ship, Swept(G, g)) /\ MeetShips(fleet)
      BY <1>3, <2>3 DEF Thinned
  <2>7. NoMore(ship, G, planet)
    <3>1. \A h \in Gids : G[h].FIGHTERS <= garrison[h].FIGHTERS
        BY <2>1, <2>2, <2>3, <2>5, InWorld
    <3> QED
        BY <3>1, NothingNew DEF NoMore
  <2>8. CASE /\ G[g].MINES > 0 /\ Settle(ship, G)
             /\ cmd' = [cmd EXCEPT !.op = "sweep", !.ships = fleet, !.slot = g]
    <3>1. \A h \in Gids : Manned(G, h)
        BY <2>5, <2>8, InWorld DEF Manned
    <3>2. WorldLeft /\ Still /\ garrison' = G /\ SameFighters(ship, G, planet)
        BY <2>5, <2>8, <3>1, ForcesSettled, InWorld DEF Settle
    <3>3. /\ Whole(cmd') /\ cmd'.op = "sweep" /\ cmd'.who = cmd.who /\ cmd'.ships = fleet
          /\ cmd'.left = cmd.left /\ cmd'.other = cmd.other /\ cmd'.src = cmd.src
          /\ cmd'.next = cmd.next /\ cmd'.todo = cmd.todo /\ cmd'.slot = g
        BY <1>1, <2>8 DEF Whole
    <3>4. Sailing(cmd)'
        BY <1>1, <3>2, <3>3 DEF Sailing, Raiding, Exposed, Still, Alive
    <3>5. CmdOK'
        BY <1>1, <2>1, <2>4, <2>8, <3>2, <3>3, <3>4 DEF CmdOK, CommandOK
    <3>6. AtSea(cmd') = fleet
        BY <3>3 DEF AtSea
    <3>7. NoneMade
        BY <1>1, <2>4, <2>7, <3>2, <3>6, NoneAdded
    <3> QED
        BY <2>8, <3>2, <3>5, <3>7 DEF OnlyHits, Still, Settle
  <2>9. CASE Settle(ship, Swept(G, g)) /\ MeetShips(fleet)
    <3>1. PICK F : F = Swept(G, g)
        OBVIOUS
    <3>2. /\ ForcesOK(F, diedAt) /\ \A h \in Gids : Manned(F, h)
          /\ \A h \in Gids : F[h].FIGHTERS = G[h].FIGHTERS
      <4>1. /\ ForcesOK(F, diedAt) /\ Manned(F, g) /\ \A h \in Gids : h # g => F[h] = G[h]
            /\ \A h \in Gids : F[h].FIGHTERS = G[h].FIGHTERS
          BY <2>1, <2>5, <3>1, SweptIs
      <4>2. \A h \in Gids : h # g => F[h] = garrison[h]
          BY <2>5, <4>1
      <4> QED
          BY <4>1, <4>2, InWorld DEF Manned
    <3>3. WorldLeft /\ Still /\ SameFighters(ship, F, planet)
        BY <2>9, <3>1, <3>2, ForcesSettled, InWorld
    <3>4. CmdOK' /\ AtSea(cmd') = fleet
        BY <1>1, <2>4, <2>9, <3>3, SailOn
    <3>5. NoMore(ship, F, planet)
        BY <2>7, <3>2 DEF NoMore
    <3>6. NoneMade
        BY <1>1, <2>4, <3>3, <3>4, <3>5, NoneAdded
    <3> QED
        BY <2>9, <3>3, <3>4, <3>6 DEF OnlyHits, Still, Settle
  <2> QED
      BY <2>6, <2>8, <2>9
<1> QED
    BY <1>2, <1>3 DEF Transit

LEMMA SweepOK ==
    ASSUME World, CmdOK, Sweep
    PROVE  WorldLeft /\ CmdOK' /\ OnlyHits({}, ship) /\ NoneMade
<1> DEFINE g == cmd.slot
<1>1. /\ cmd.op = "sweep" /\ Sailing(cmd) /\ Whole(cmd) /\ cmd.left \in Nat
      /\ cmd.ships \in Nat /\ g \in Gids /\ garrison[g].MINES > 0
      /\ AtSea(cmd) = cmd.ships
    BY DEF Sweep, CmdOK, CommandOK, AtSea
<1>2. PICK b \in Blasts :
         LET fleet == cmd.ships - AtMost(b, cmd.ships)
             G == [garrison EXCEPT ![g].MINES = @ - 1]
         IN IF G[g].MINES > 0 /\ fleet > 0
            THEN Settle(ship, G) /\ cmd' = [cmd EXCEPT !.ships = fleet]
            ELSE Settle(ship, Swept(G, g)) /\ MeetShips(fleet)
    BY DEF Sweep
<1>3. PICK fleet, G : fleet = cmd.ships - AtMost(b, cmd.ships) /\ G = Unmined(garrison, g)
    OBVIOUS
<1>4. IF G[g].MINES > 0 /\ fleet > 0
      THEN Settle(ship, G) /\ cmd' = [cmd EXCEPT !.ships = fleet]
      ELSE Settle(ship, Swept(G, g)) /\ MeetShips(fleet)
    BY <1>2, <1>3 DEF Unmined
<1> HIDE DEF g
<1>5. fleet \in Nat /\ fleet <= cmd.ships
  <2>1. AtMost(b, cmd.ships) \in 0..cmd.ships
      BY <1>1, AtMostIs, GalaxyAssumption
  <2> QED
      BY <1>1, <1>3, <2>1
<1>6. /\ ForcesOK(G, diedAt) /\ \A h \in Gids : h # g => G[h] = garrison[h]
      /\ G[g].FIGHTERS = garrison[g].FIGHTERS
    BY <1>1, <1>3, MineSpent, InWorld
<1>7. NoMore(ship, G, planet)
  <2>1. \A h \in Gids : G[h].FIGHTERS <= garrison[h].FIGHTERS
      BY <1>6, InWorld
  <2> QED
      BY <2>1, NothingNew DEF NoMore
<1>8. CASE G[g].MINES > 0 /\ Settle(ship, G) /\ cmd' = [cmd EXCEPT !.ships = fleet]
  <2>1. \A h \in Gids : Manned(G, h)
      BY <1>6, <1>8, InWorld DEF Manned
  <2>2. WorldLeft /\ Still /\ garrison' = G /\ SameFighters(ship, G, planet)
      BY <1>6, <1>8, <2>1, ForcesSettled, InWorld DEF Settle
  <2>3. /\ Whole(cmd') /\ cmd'.op = "sweep" /\ cmd'.who = cmd.who /\ cmd'.ships = fleet
        /\ cmd'.left = cmd.left /\ cmd'.other = cmd.other /\ cmd'.src = cmd.src
        /\ cmd'.next = cmd.next /\ cmd'.todo = cmd.todo /\ cmd'.slot = cmd.slot
      BY <1>1, <1>8 DEF Whole
  <2>4. Sailing(cmd)'
      BY <1>1, <2>2, <2>3 DEF Sailing, Raiding, Exposed, Still, Alive
  <2>5. CmdOK'
      BY <1>1, <1>5, <1>8, <2>2, <2>3, <2>4 DEF CmdOK, CommandOK, g
  <2>6. AtSea(cmd') = fleet
      BY <1>1, <2>3 DEF AtSea
  <2>7. NoneMade
      BY <1>1, <1>5, <1>7, <2>2, <2>6, NoneAdded
  <2> QED
      BY <1>8, <2>2, <2>5, <2>7 DEF OnlyHits, Still, Settle
<1>9. CASE Settle(ship, Swept(G, g)) /\ MeetShips(fleet)
  <2>1. PICK F : F = Swept(G, g)
      OBVIOUS
  <2>2. /\ ForcesOK(F, diedAt) /\ \A h \in Gids : Manned(F, h)
        /\ \A h \in Gids : F[h].FIGHTERS = G[h].FIGHTERS
    <3>1. /\ ForcesOK(F, diedAt) /\ Manned(F, g) /\ \A h \in Gids : h # g => F[h] = G[h]
          /\ \A h \in Gids : F[h].FIGHTERS = G[h].FIGHTERS
        BY <1>1, <1>6, <2>1, SweptIs
    <3>2. \A h \in Gids : h # g => F[h] = garrison[h]
        BY <1>6, <3>1
    <3> QED
        BY <3>1, <3>2, InWorld DEF Manned
  <2>3. WorldLeft /\ Still /\ SameFighters(ship, F, planet)
      BY <1>9, <2>1, <2>2, ForcesSettled, InWorld
  <2>4. CmdOK' /\ AtSea(cmd') = fleet
      BY <1>1, <1>5, <1>9, <2>3, SailOn
  <2>5. NoMore(ship, F, planet)
      BY <1>7, <2>2 DEF NoMore
  <2>6. NoneMade
      BY <1>1, <1>5, <2>3, <2>4, <2>5, NoneAdded
  <2> QED
      BY <1>9, <2>3, <2>4, <2>6 DEF OnlyHits, Still, Settle
<1> QED
    BY <1>4, <1>8, <1>9

LEMMA EngageOK ==
    ASSUME World, Clock, CmdOK, Engage
    PROVE  /\ WorldLeft /\ CmdOK' /\ NoneMade
           /\ \E q \in cmd.todo : Exposed(q) /\ OnlyHits({q}, ship)
<1>1. /\ cmd.op = "engage" /\ Sailing(cmd) /\ Whole(cmd) /\ cmd.left \in Nat
      /\ cmd.ships \in Nat /\ AtSea(cmd) = cmd.ships
    BY DEF Engage, CmdOK, CommandOK, AtSea
<1>2. cmd.who \in Players /\ \A q \in cmd.todo : Exposed(q) /\ q # cmd.who
    BY <1>1 DEF Sailing
<1>3. PICK q \in cmd.todo : \E loss \in AttritionLosses(cmd.ships, ship[q]["FIGHTERS"]) :
          LET S == Less(ship, q, "FIGHTERS", loss[2])
              fleet == cmd.ships - loss[1]
          IN /\ IF S[q]["FIGHTERS"] = 0 THEN WarpOrDie(q, S, garrison, planet)
                                         ELSE Settle(S, garrison)
             /\ cmd' = IF fleet = 0 \/ cmd.todo = {q} THEN MoveOn(fleet)
                       ELSE [cmd EXCEPT !.ships = fleet, !.todo = @ \ {q}]
    BY DEF Engage
<1>4. q \in Players /\ Exposed(q) /\ Alive(q) /\ q # cmd.who
    BY <1>2 DEF Exposed
<1>5. ship[q]["FIGHTERS"] \in Nat /\ "FIGHTERS" \in Goods /\ ship \in Fleet
    BY <1>4, InWorld DEF Goods
<1>6. PICK loss \in AttritionLosses(cmd.ships, ship[q]["FIGHTERS"]) :
          LET S == Less(ship, q, "FIGHTERS", loss[2])
              fleet == cmd.ships - loss[1]
          IN /\ IF S[q]["FIGHTERS"] = 0 THEN WarpOrDie(q, S, garrison, planet)
                                         ELSE Settle(S, garrison)
             /\ cmd' = IF fleet = 0 \/ cmd.todo = {q} THEN MoveOn(fleet)
                       ELSE [cmd EXCEPT !.ships = fleet, !.todo = @ \ {q}]
    BY <1>3
<1>7. loss[1] \in 0..cmd.ships /\ loss[2] \in 0..ship[q]["FIGHTERS"]
    BY <1>1, <1>5, LossesAreBounded
<1>8. PICK fleet, k, S : /\ fleet = cmd.ships - loss[1] /\ k = loss[2]
                         /\ S = Less(ship, q, "FIGHTERS", k)
    OBVIOUS
<1>9. /\ WarpOrDie(q, S, garrison, planet) \/ Settle(S, garrison)
      /\ cmd' = IF fleet = 0 \/ cmd.todo = {q} THEN MoveOn(fleet)
                ELSE [cmd EXCEPT !.ships = fleet, !.todo = @ \ {q}]
    BY <1>6, <1>8
<1>10. fleet \in Nat /\ fleet <= cmd.ships /\ k \in 0..ship[q]["FIGHTERS"]
    BY <1>1, <1>7, <1>8
<1>11. /\ S \in Fleet /\ \A x \in Players : x # q => S[x] = ship[x]
       /\ S[q]["FIGHTERS"] = ship[q]["FIGHTERS"] - k
    BY <1>4, <1>5, <1>8, <1>10, LessIs
<1>12. WorldLeft /\ OnlyHits({q}, S) /\ SameFighters(S, garrison, planet)
  <2>1. CASE WarpOrDie(q, S, garrison, planet)
      BY <1>4, <1>11, <2>1, WarpedOrDead, FleetInPlace, InWorld DEF Clock
  <2>2. CASE Settle(S, garrison)
      BY <1>11, <2>2, ForcesSettled, InWorld DEF OnlyHits, Still, Settle
  <2> QED
      BY <1>9, <2>1, <2>2
<1>13. OnlyHits({q}, ship)
    BY <1>11, <1>12 DEF OnlyHits
<1>14. CmdOK' /\ AtSea(cmd') = fleet
  <2>1. CASE cmd' = MoveOn(fleet)
    <3>1. /\ Whole(cmd') /\ cmd'.op = "transit" /\ cmd'.who = cmd.who
          /\ cmd'.ships = fleet /\ cmd'.left = cmd.left /\ cmd'.todo = {}
        BY <1>1, <1>2, <2>1, MoveOnIs
    <3>2. Sailing(cmd)'
        BY <1>2, <3>1 DEF Sailing
    <3> QED
        BY <1>1, <1>10, <3>1, <3>2 DEF CmdOK, CommandOK, AtSea
  <2>2. CASE cmd' = [cmd EXCEPT !.ships = fleet, !.todo = @ \ {q}]
    <3>1. /\ Whole(cmd') /\ cmd'.op = "engage" /\ cmd'.who = cmd.who
          /\ cmd'.ships = fleet /\ cmd'.left = cmd.left /\ cmd'.todo = cmd.todo \ {q}
        BY <1>1, <2>2 DEF Whole
    <3>2. \A x \in cmd.todo \ {q} :
              x \in Players /\ x # cmd.who /\ diedAt'[x] = 0 /\ sector'[x] > FedMax
        BY <1>2, <1>13 DEF Exposed, OnlyHits, Alive
    <3>3. Sailing(cmd)'
        BY <1>2, <3>1, <3>2 DEF Sailing, Exposed, Alive
    <3> QED
        BY <1>1, <1>10, <3>1, <3>3 DEF CmdOK, CommandOK, AtSea
  <2> QED
      BY <1>9, <2>1, <2>2
<1>15. NoMore(S, garrison, planet)
  <2>1. \A x \in Players : S[x]["FIGHTERS"] <= ship[x]["FIGHTERS"]
      BY <1>4, <1>5, <1>10, <1>11, InWorld DEF Goods
  <2> QED
      BY <2>1, NothingNew DEF NoMore
<1>16. NoneMade
    BY <1>1, <1>10, <1>12, <1>14, <1>15, NoneAdded
<1> QED
    BY <1>4, <1>12, <1>13, <1>14, <1>16

LEMMA FleetHomeOK ==
    ASSUME World, CmdOK, FleetHome
    PROVE  /\ WorldLeft /\ CmdOK' /\ OnlyHits({cmd.who}, ship) /\ Still /\ NoneMade
           /\ cmd.who \in Players /\ ship'[cmd.who]["FIGHTERS"] >= ship[cmd.who]["FIGHTERS"]
<1> DEFINE p == cmd.who
<1>1. p \in Players /\ cmd' = Idle /\ cmd.ships \in Nat /\ AtSea(cmd) = cmd.ships
    BY DEF FleetHome, CmdOK, CommandOK, AtSea
<1>2. PICK k, S : k = ship[p]["FIGHTERS"] + cmd.ships /\ S = Holding(ship, p, "FIGHTERS", k)
    OBVIOUS
<1>3. Settle(S, garrison)
    BY <1>2 DEF FleetHome, Holding
<1> HIDE DEF p
<1>4. ship[p]["FIGHTERS"] \in Nat /\ "FIGHTERS" \in Goods /\ ship \in Fleet
    BY <1>1, InWorld DEF Goods
<1>5. k \in Nat
    BY <1>1, <1>2, <1>4
<1>6. S \in Fleet /\ S[p]["FIGHTERS"] = k /\ \A q \in Players : q # p => S[q] = ship[q]
    BY <1>1, <1>2, <1>4, <1>5, HoldingIs
<1>7. WorldLeft /\ Still /\ SameFighters(S, garrison, planet)
    BY <1>3, <1>6, ForcesSettled, InWorld
<1>8. OnlyHits({p}, ship)
    BY <1>3, <1>6, <1>7 DEF OnlyHits, Still, Settle
<1>9. ship'[p]["FIGHTERS"] >= ship[p]["FIGHTERS"]
    BY <1>1, <1>2, <1>3, <1>4, <1>6 DEF Settle
<1>10. CmdOK' /\ AtSea(cmd') = 0
    BY <1>1, IdleIsOK
<1>11. S[p]["FIGHTERS"] + 0 = ship[p]["FIGHTERS"] + cmd.ships
    BY <1>1, <1>2, <1>4, <1>6
<1>12. NoneMade
    BY <1>1, <1>6, <1>7, <1>10, <1>11, ToSeaAndBack
<1> QED
    BY <1>1, <1>7, <1>8, <1>9, <1>10, <1>12 DEF p

-----------------------------------------------------------------------------
(* Days, logins, absence *)

LEMMA DayPassesOK ==
    ASSUME World, Clock, CmdOK, DayPasses
    PROVE  World' /\ WorldLeft /\ CmdOK' /\ OnlyHits({}, ship) /\ AsMany
<1>1. /\ day' = day + 1 /\ ship' = ship /\ sector' = sector /\ diedAt' = diedAt
      /\ garrison' = garrison /\ planet' = planet /\ cmd' = cmd /\ Ready
    BY DEF DayPasses
<1>2. ShipsOK(ship', sector', diedAt', day')
    BY <1>1 DEF World, ShipsOK, Clock
<1>3. CmdOK'
    BY <1>1, ReadyStays
<1>4. AsMany
    BY <1>1 DEF AsMany, AllFighters
<1>5. WorldLeft
    BY <1>1 DEF World, WorldLeft
<1> QED
    BY <1>1, <1>2, <1>3, <1>4, <1>5 DEF World, OnlyHits

LEMMA LoginOK ==
    ASSUME World, Clock, CmdOK, NEW p \in Players, Login(p)
    PROVE  /\ WorldLeft /\ CmdOK' /\ OnlyHits({p}, ship)
           /\ Alive(p) => diedAt' = diedAt /\ ship' = ship
           /\ AsMany \/ (~Alive(p) /\ diedAt'[p] = 0)
<1>1. Ready /\ cmd' = cmd /\ garrison' = garrison /\ planet' = planet
    BY DEF Login
<1>2. CASE /\ diedAt[p] # 0 /\ ship' = [ship EXCEPT ![p] = StarterKit]
           /\ sector' = [sector EXCEPT ![p] = 1] /\ diedAt' = [diedAt EXCEPT ![p] = 0]
  <2>1. ShipsOK(ship', sector', diedAt', day)
      BY <1>2, GalaxyAssumption DEF World, ShipsOK, Clock
  <2>2. ForcesOK(garrison', diedAt') /\ PlanetsOK(planet', diedAt')
    <3>1. \A q \in Players : diedAt[q] = 0 => diedAt'[q] = 0
        BY <1>2 DEF World, ShipsOK
    <3> QED
        BY <1>1, <3>1 DEF World, ForcesOK, PlanetsOK
  <2>3. OnlyHits({p}, ship)
      BY <1>2 DEF OnlyHits, World, ShipsOK
  <2>4. ~Alive(p) /\ diedAt'[p] = 0
      BY <1>2 DEF World, ShipsOK, Alive
  <2> QED
      BY <1>1, <1>2, <2>1, <2>2, <2>3, <2>4, ReadyStays DEF World, WorldLeft, Alive
<1>3. CASE ship' = ship /\ sector' = sector /\ diedAt' = diedAt
  <2>1. AsMany
      BY <1>1, <1>3 DEF AsMany, AllFighters
  <2> QED
      BY <1>1, <1>3, <2>1, ReadyStays DEF World, WorldLeft, OnlyHits
<1> QED
    BY <1>2, <1>3 DEF Login, Alive

LEMMA GrowthIs ==
    ASSUME World, NEW P \in Growths
    PROVE  PlanetsOK(P, diedAt)
<1>1. PICK f \in [Pids -> 0..MaxGrowth], m \in [Pids -> 0..MaxGrowth] :
          P = [i \in Pids |-> IF Present(planet[i]) THEN Grown(planet[i], f[i], m[i])
                                                  ELSE planet[i]]
    BY DEF Growths
<1>2. \A i \in Pids : f[i] \in Nat /\ m[i] \in Nat
    BY GalaxyAssumption
<1>3. \A i \in Pids : planet[i] \in Planet
    BY InWorld
<1>4. ASSUME NEW x \in Planet, NEW j \in Nat, NEW k \in Nat
      PROVE  /\ Grown(x, j, k) \in Planet
             /\ Grown(x, j, k).owner = x.owner /\ Grown(x, j, k).sector = x.sector
  <2>1. PICK z : z = [x EXCEPT !.FIGHTERS = @ + j]
      OBVIOUS
  <2>2. /\ z \in Planet /\ z.owner = x.owner /\ z.sector = x.sector
        /\ z.MINES \in Nat
      BY <2>1 DEF Planet
  <2>3. AtMost(z.MINES + k, MaxMines) \in Nat
      BY <2>2, GalaxyAssumption DEF AtMost
  <2>4. Grown(x, j, k) = [z EXCEPT !.MINES = AtMost(@ + k, MaxMines)]
      BY <2>1 DEF Grown
  <2> QED
      BY <2>2, <2>3, <2>4 DEF Planet
<1>5. ASSUME NEW i \in Pids
      PROVE  P[i] \in Planet /\ P[i].owner = planet[i].owner /\ P[i].sector = planet[i].sector
  <2>1. PICK x, j, k : x = planet[i] /\ j = f[i] /\ k = m[i]
      OBVIOUS
  <2>2. P[i] = x \/ P[i] = Grown(x, j, k)
      BY <1>1, <2>1
  <2>3. x \in Planet /\ j \in Nat /\ k \in Nat
      BY <1>2, <1>3, <2>1
  <2>4. /\ Grown(x, j, k) \in Planet
        /\ Grown(x, j, k).owner = x.owner /\ Grown(x, j, k).sector = x.sector
      BY <1>4, <2>3
  <2> QED
      BY <2>1, <2>2, <2>3, <2>4
<1>6. P \in [Pids -> Planet]
    BY <1>1, <1>5
<1> QED
    BY <1>5, <1>6, PlanetsKeepPlaces, InWorld

LEMMA GateIsOK ==
    ASSUME NEW f \in {"cabal", "renegades"}, NEW awake, cmd' = TurnOf(f, awake)
    PROVE  CmdOK'
BY DEF TurnOf, Idle, CmdOK, CommandOK, Whole

LEMMA MaintenanceOK ==
    ASSUME World, RunDailyMaintenance
    PROVE  /\ WorldLeft /\ CmdOK'
           /\ \A q \in Players : ~IsExpired(q) => diedAt'[q] = diedAt[q] /\ ship'[q] = ship[q]
<1> DEFINE X == {p \in Players : IsExpired(p)}
<1>1. /\ ship' = [p \in Players |-> IF p \in X THEN StarterKit ELSE ship[p]]
      /\ sector' = [p \in Players |-> IF p \in X THEN 1 ELSE sector[p]]
      /\ garrison' = ForfeitForces(garrison, X) /\ diedAt' = diedAt
      /\ \E P \in Growths : ForfeitPlanets(P, X)
    BY DEF RunDailyMaintenance
<1>2. PICK E \in SUBSET Players : E = X
    OBVIOUS
<1>3. \A p \in E : Alive(p)
    BY <1>2 DEF IsExpired
<1>4. /\ ship' = [p \in Players |-> IF p \in E THEN StarterKit ELSE ship[p]]
      /\ sector' = [p \in Players |-> IF p \in E THEN 1 ELSE sector[p]]
      /\ garrison' = ForfeitForces(garrison, E)
      /\ \E P \in Growths : ForfeitPlanets(P, E)
    BY <1>1, <1>2
<1>5. \A q \in Players : ~IsExpired(q) => q \notin E
    BY <1>2
<1> HIDE DEF X
<1>6. ShipsOK(ship', sector', diedAt', day)
    BY <1>1, <1>3, <1>4, GalaxyAssumption DEF World, ShipsOK, Alive
<1>7. ForcesOK(garrison', diedAt') /\ \A g \in Gids : Manned(garrison', g)
    BY <1>1, <1>4, ForcesForfeited, InWorld
<1>8. PlanetsOK(planet', diedAt')
  <2>1. PICK P \in Growths : ForfeitPlanets(P, E)
      BY <1>4
  <2>2. PlanetsOK(P, diedAt)
      BY GrowthIs
  <2> QED
      BY <1>1, <2>1, <2>2, PlanetsForfeited
<1>9. CmdOK'
  <2>1. \/ cmd' = Idle
        \/ \E awake \in SUBSET {"cabal", "renegades"} \ {{}} :
              cmd' = TurnOf(FirstOf(awake), awake)
      BY DEF RunDailyMaintenance
  <2>2. \A awake : FirstOf(awake) \in {"cabal", "renegades"}
      BY DEF FirstOf
  <2> QED
      BY <2>1, <2>2, IdleIsOK, GateIsOK
<1>10. \A q \in Players : ~IsExpired(q) => diedAt'[q] = diedAt[q] /\ ship'[q] = ship[q]
    BY <1>1, <1>4, <1>5
<1> QED
    BY <1>6, <1>7, <1>8, <1>9, <1>10 DEF WorldLeft

-----------------------------------------------------------------------------
(* The factions' turns *)

\* A step of the factions that leaves ships and forces alone.
Quiet == UNCHANGED <<ship, sector, diedAt, garrison, playerVars, day>>

LEMMA QuietIs ==
    ASSUME World, Quiet, PlanetsOK(planet', diedAt)
    PROVE  WorldLeft /\ Still /\ OnlyHits({}, ship)
BY DEF World, Quiet, WorldLeft, Still, OnlyHits, ShipsOK

LEMMA NextFactionIsOK == ASSUME cmd' = NextFaction PROVE CmdOK' /\ AtSea(cmd') = 0
BY GateIsOK DEF NextFaction, TurnOf, Idle, CmdOK, CommandOK, Whole, AtSea

\* ... and the planets too, none of its fighters being at sea.
LEMMA QuietNight ==
    ASSUME World, Quiet, planet' = planet, AtSea(cmd) = 0, AtSea(cmd') = 0
    PROVE  NoneMade
<1>1. WorldLeft
    BY QuietIs, InWorld
<1>2. SameFighters(ship, garrison, planet)
    BY DEF SameFighters, Quiet
<1> QED
    BY <1>1, <1>2, NothingNew, NoneAdded

LEMMA MusterIsOK ==
    ASSUME Whole(cmd), cmd.left \in Nat, cmd.ships \in Nat, cmd.todo = {},
           cmd.who \in {"cabal", "renegades"}, NEW i \in Pids, cmd' = Muster(i)
    PROVE  CmdOK'
<1>1. /\ Whole(cmd') /\ cmd'.op \in {"hunt", "mayhem"} /\ cmd'.who = cmd.who /\ cmd'.src = i
      /\ cmd'.left = cmd.left /\ cmd'.ships = cmd.ships /\ cmd'.todo = cmd.todo
    BY DEF Whole, Muster
<1>2. Raiding(cmd)'
    BY <1>1 DEF Raiding
<1> QED
    BY <1>1, <1>2 DEF CmdOK, CommandOK

LEMMA GateOK ==
    ASSUME World, CmdOK, Gate
    PROVE  WorldLeft /\ CmdOK' /\ OnlyHits({}, ship)
<1> DEFINE f == cmd.who
           hq == Strongholds(f)
<1>1. /\ Whole(cmd) /\ cmd.left \in Nat /\ cmd.ships \in Nat
      /\ f \in {"cabal", "renegades"} /\ cmd.todo = {}
    BY DEF Gate, CmdOK, CommandOK
<1>2. Quiet
    BY DEF Gate, Quiet, dayVars
<1>3. CASE hq = {} /\ cmd' = NextFaction /\ UNCHANGED planet
    BY <1>2, <1>3, QuietIs, NextFactionIsOK, InWorld
<1>4. ASSUME NEW i \in hq, cmd' = Muster(i) /\ UNCHANGED planet
      PROVE  WorldLeft /\ CmdOK' /\ OnlyHits({}, ship)
  <2>1. i \in Pids
      BY DEF Strongholds
  <2> QED
      BY <1>1, <1>2, <1>4, <2>1, QuietIs, MusterIsOK, InWorld
<1>5. ASSUME NEW i \in hq, NEW n \in 1..StrongholdCap,
             planet' = [planet EXCEPT ![i].FIGHTERS = @ + n], cmd' = Muster(i)
      PROVE  WorldLeft /\ CmdOK' /\ OnlyHits({}, ship)
  <2>1. i \in Pids /\ n \in Nat
      BY GalaxyAssumption DEF Strongholds
  <2>2. PICK k : k = planet[i].FIGHTERS + n
      OBVIOUS
  <2>3. k \in Nat
      BY <2>1, <2>2, InWorld
  <2>4. planet' = Restocked(planet, i, "FIGHTERS", k)
      BY <1>5, <2>2 DEF Restocked
  <2>5. PlanetsOK(planet', diedAt)
      BY <2>1, <2>3, <2>4, PlanetGarrisoned, InWorld
  <2> QED
      BY <1>1, <1>2, <1>5, <2>1, <2>5, QuietIs, MusterIsOK
<1>6. ASSUME NEW i \in Pids, NEW s \in FreeSectors, NEW n \in 1..StrongholdCap,
             planet' = [planet EXCEPT ![i] =
                 [owner |-> f, sector |-> s, FIGHTERS |-> n, MINES |-> 0, name |-> HQ[f]]],
             cmd' = Muster(i)
      PROVE  WorldLeft /\ CmdOK' /\ OnlyHits({}, ship)
  <2>1. PICK x : x = [owner |-> f, sector |-> s, FIGHTERS |-> n, MINES |-> 0, name |-> HQ[f]]
      OBVIOUS
  <2>2. /\ s \in 1..NumSec /\ s > FedMax
        /\ \A j \in Pids : Present(planet[j]) => planet[j].sector # s
      BY DEF FreeSectors, PlanetsAt, Sectors
  <2>3. n \in Nat /\ s \in 0..NumSec
      BY <2>2, GalaxyAssumption
  <2>4. HQ[f] \in PlanetNames /\ f \in Owners
    <3>1. CASE f = "cabal"
        BY <3>1 DEF HQ, PlanetNames, Owners, NPCs
    <3>2. CASE f = "renegades"
        BY <3>2 DEF HQ, PlanetNames, Owners, NPCs
    <3> QED
        BY <1>1, <3>1, <3>2
  <2>5. x \in Planet /\ x.owner = f /\ x.sector = s
      BY <2>1, <2>3, <2>4 DEF Planet
  <2>6. \A p \in Players : x.owner # p
      BY <1>1, <2>5, NobodyIsNoPlayer
  <2>7. planet' = Placed(planet, i, x)
      BY <1>6, <2>1 DEF Placed
  <2>8. PlanetsOK(planet', diedAt)
      BY <2>2, <2>5, <2>6, <2>7, PlanetSettled, InWorld
  <2> QED
      BY <1>1, <1>2, <1>6, <2>8, QuietIs, MusterIsOK
<1> QED
    BY <1>3, <1>4, <1>5, <1>6 DEF Gate

LEMMA StrikeOK ==
    ASSUME World, NEW t \in Players, Alive(t), NEW ships \in Nat, cmd.src \in Pids,
           NEW then, Whole(then), Raiding(then), then.left \in Nat, then.ships \in Nat,
           then.op \in {"mayhem", "raids"}, t \notin then.todo,
           Strike(t, ships, then), Quiet, AtSea(cmd) = 0
    PROVE  WorldLeft /\ CmdOK' /\ OnlyHits({}, ship) /\ NoneMade
<1> DEFINE src == cmd.src
           force == AtMost(ships, planet[src].FIGHTERS)
<1>1. planet[src].FIGHTERS \in Nat /\ force \in 0..planet[src].FIGHTERS
    BY InWorld, AtMostIs
<1>2. \A q \in Players : sector'[q] = sector[q] /\ diedAt'[q] = diedAt[q]
    BY DEF Quiet
<1>3. CASE cmd' = then /\ UNCHANGED planet
  <2>1. Raiding(cmd)'
      BY <1>2, <1>3 DEF Raiding, Exposed, Alive
  <2>2. CmdOK'
      BY <1>3, <2>1 DEF CmdOK, CommandOK
  <2>3. NoneMade
      BY <1>3, QuietNight DEF AtSea
  <2> QED
      BY <1>3, <2>2, <2>3, QuietIs, InWorld
<1>4. ASSUME NEW r, sector[t] > FedMax,
             planet' = [planet EXCEPT ![src].FIGHTERS = @ - force],
             cmd' = [then EXCEPT !.op = "transit", !.next = then.op, !.other = t,
                                 !.ships = force, !.route = Tail(r)]
      PROVE  WorldLeft /\ CmdOK' /\ OnlyHits({}, ship) /\ NoneMade
  <2> HIDE DEF force, src
  <2>1. PICK k : k = planet[src].FIGHTERS - force
      OBVIOUS
  <2>2. k \in Nat
      BY <1>1, <2>1
  <2>3. planet' = Restocked(planet, src, "FIGHTERS", k)
      BY <1>4, <2>1 DEF Restocked
  <2>4. /\ src \in Pids /\ PlanetsOK(planet', diedAt) /\ planet'[src].FIGHTERS = k
        /\ \A j \in Pids : j # src => planet'[j] = planet[j]
      <3>1. src \in Pids
          BY DEF src
      <3> QED
          BY <2>2, <2>3, <3>1, StrongholdLeft DEF Quiet
  <2>5. /\ Whole(cmd') /\ cmd'.op = "transit" /\ cmd'.next = then.op /\ cmd'.other = t
        /\ cmd'.ships = force /\ cmd'.who = then.who /\ cmd'.src = then.src
        /\ cmd'.todo = then.todo /\ cmd'.left = then.left
      BY <1>4 DEF Whole
  <2>6. Sailing(cmd)'
      BY <1>2, <1>4, <2>5 DEF Sailing, Raiding, Exposed, Alive
  <2>7. CmdOK'
      BY <1>1, <2>5, <2>6 DEF CmdOK, CommandOK
  <2>8. WorldLeft /\ OnlyHits({}, ship)
      BY <2>4, QuietIs
  <2>9. SameFighters(ship, garrison, planet')
      BY DEF SameFighters, Quiet
  <2>10. \A q \in Players : ship[q]["FIGHTERS"] <= ship[q]["FIGHTERS"]
      BY InWorld DEF Goods
  <2>11. force \in Nat /\ planet'[src].FIGHTERS + force <= planet[src].FIGHTERS + 0
      BY <1>1, <2>1, <2>2, <2>4
  <2>12. AtSea(cmd') = force
      BY <2>5 DEF AtSea
  <2>13. NoneMade
      BY <2>4, <2>8, <2>9, <2>10, <2>11, <2>12, RaidersCount
  <2> QED
      BY <2>7, <2>8, <2>13
<1>5. \/ cmd' = then /\ UNCHANGED planet
      \/ /\ ~(sector[t] <= FedMax) /\ planet' = [planet EXCEPT ![src].FIGHTERS = @ - force]
         /\ \E r : cmd' = [then EXCEPT !.op = "transit", !.next = then.op, !.other = t,
                                       !.ships = force, !.route = Tail(r)]
    BY DEF Strike
<1>6. ~(sector[t] <= FedMax) => sector[t] > FedMax
    BY InWorld, GalaxyAssumption
<1> QED
    BY <1>3, <1>4, <1>5, <1>6

LEMMA HuntOK ==
    ASSUME World, CmdOK, Hunt
    PROVE  WorldLeft /\ CmdOK' /\ OnlyHits({}, ship) /\ NoneMade
<1>1. /\ Raiding(cmd) /\ Whole(cmd) /\ cmd.left \in Nat /\ cmd.ships \in Nat
      /\ cmd.src \in Pids /\ cmd.todo = {} /\ AtSea(cmd) = 0
    BY DEF Hunt, CmdOK, CommandOK, Raiding, AtSea
<1>2. Quiet
    BY DEF Hunt, Quiet, dayVars
<1>3. PICK then : then = [cmd EXCEPT !.op = "mayhem"]
    OBVIOUS
<1>4. /\ Whole(then) /\ then.op = "mayhem" /\ then.who = cmd.who /\ then.src = cmd.src
      /\ then.left = cmd.left /\ then.ships = cmd.ships /\ then.todo = cmd.todo
    BY <1>1, <1>3 DEF Whole
<1>5. Raiding(then)
    BY <1>1, <1>4 DEF Raiding
<1>6. CASE cmd' = then /\ UNCHANGED planet
  <2>1. Raiding(cmd)'
      BY <1>2, <1>5, <1>6 DEF Raiding, Exposed, Alive, Quiet
  <2>2. CmdOK'
      BY <1>1, <1>4, <1>6, <2>1 DEF CmdOK, CommandOK
  <2>3. NoneMade
      BY <1>1, <1>2, <1>4, <1>6, QuietNight DEF AtSea
  <2> QED
      BY <1>2, <1>6, <2>2, <2>3, QuietIs, InWorld
<1>7. ASSUME NEW t \in Targets, Strike(t, planet[cmd.src].FIGHTERS \div 2, then)
      PROVE  WorldLeft /\ CmdOK' /\ OnlyHits({}, ship) /\ NoneMade
  <2>1. t \in Players /\ Alive(t)
      BY DEF Targets
  <2>2. PICK n : n = planet[cmd.src].FIGHTERS \div 2
      OBVIOUS
  <2>3. n \in Nat
      BY <1>1, <2>2, InWorld
  <2>4. Strike(t, n, then)
      BY <1>7, <2>2
  <2> QED
      BY <1>1, <1>2, <1>4, <1>5, <2>1, <2>3, <2>4, StrikeOK
<1> QED
    BY <1>3, <1>6, <1>7 DEF Hunt

LEMMA MayhemOK ==
    ASSUME World, CmdOK, Mayhem
    PROVE  WorldLeft /\ CmdOK' /\ OnlyHits({}, ship) /\ NoneMade
<1>1. /\ Raiding(cmd) /\ Whole(cmd) /\ cmd.left \in Nat /\ cmd.ships \in Nat
      /\ AtSea(cmd) = 0
    BY DEF Mayhem, CmdOK, CommandOK, AtSea
<1>2. Quiet /\ planet' = planet
    BY DEF Mayhem, Quiet, dayVars
<1>3. PICK pool \in SUBSET {p \in Targets : sector[p] > FedMax} :
          cmd' = [cmd EXCEPT !.op = "raids", !.todo = pool, !.left = Raids]
    BY DEF Mayhem
<1>4. \A q \in pool : Exposed(q)
    BY DEF Targets, Exposed
<1>5. /\ Whole(cmd') /\ cmd'.op = "raids" /\ cmd'.who = cmd.who /\ cmd'.src = cmd.src
      /\ cmd'.left = Raids /\ cmd'.ships = cmd.ships /\ cmd'.todo = pool
    BY <1>1, <1>3 DEF Whole
<1>6. Raiding(cmd)'
    BY <1>1, <1>2, <1>4, <1>5 DEF Raiding, Exposed, Alive, Quiet
<1>7. CmdOK'
    BY <1>1, <1>5, <1>6, GalaxyAssumption DEF CmdOK, CommandOK
<1>8. NoneMade
    BY <1>1, <1>2, <1>5, QuietNight DEF AtSea
<1> QED
    BY <1>2, <1>7, <1>8, QuietIs, InWorld

LEMMA RaidOK ==
    ASSUME World, CmdOK, Raid
    PROVE  WorldLeft /\ CmdOK' /\ OnlyHits({}, ship) /\ NoneMade
<1>1. /\ Raiding(cmd) /\ Whole(cmd) /\ cmd.left \in Nat /\ cmd.ships \in Nat
      /\ cmd.src \in Pids /\ cmd.op = "raids" /\ AtSea(cmd) = 0
    BY DEF Raid, CmdOK, CommandOK, Raiding, AtSea
<1>2. Quiet
    BY DEF Raid, Quiet, dayVars
<1>3. CASE cmd' = NextFaction /\ UNCHANGED planet
    BY <1>1, <1>2, <1>3, QuietIs, NextFactionIsOK, QuietNight, InWorld
<1>4. ASSUME NEW t \in cmd.todo, cmd.left # 0,
             Strike(t, IF ship[t]["FIGHTERS"] < RaidFloor THEN RaidFloor
                                                           ELSE ship[t]["FIGHTERS"],
                    [cmd EXCEPT !.left = @ - 1, !.todo = @ \ {t}])
      PROVE  WorldLeft /\ CmdOK' /\ OnlyHits({}, ship) /\ NoneMade
  <2>1. t \in Players /\ Alive(t)
      BY <1>1 DEF Raiding, Exposed
  <2>2. PICK then, n :
            /\ then = [cmd EXCEPT !.left = @ - 1, !.todo = @ \ {t}]
            /\ n = IF ship[t]["FIGHTERS"] < RaidFloor THEN RaidFloor ELSE ship[t]["FIGHTERS"]
      OBVIOUS
  <2>3. n \in Nat
      BY <2>1, <2>2, InWorld, RaidFloorAssumption DEF Goods
  <2>4. /\ Whole(then) /\ then.op = "raids" /\ then.who = cmd.who /\ then.src = cmd.src
        /\ then.left = cmd.left - 1 /\ then.ships = cmd.ships /\ then.todo = cmd.todo \ {t}
      BY <1>1, <2>2 DEF Whole
  <2>5. Raiding(then) /\ t \notin then.todo
      BY <1>1, <2>4 DEF Raiding
  <2>6. then.left \in Nat
      BY <1>1, <1>4, <2>4
  <2>7. Strike(t, n, then)
      BY <1>4, <2>2
  <2> QED
      BY <1>1, <1>2, <2>1, <2>3, <2>4, <2>5, <2>6, <2>7, StrikeOK
<1> QED
    BY <1>3, <1>4 DEF Raid

LEMMA RaidHomeOK ==
    ASSUME World, Clock, CmdOK, RaidHome
    PROVE  /\ WorldLeft /\ CmdOK' /\ NoneMade
           /\ Exposed(cmd.other) /\ OnlyHits({cmd.other}, ship)
<1> DEFINE t == cmd.other
           src == cmd.src
<1>1. /\ Whole(cmd) /\ cmd.left \in Nat /\ cmd.ships \in Nat /\ Sailing(cmd)
      /\ cmd.who \notin Players /\ AtSea(cmd) = cmd.ships
    BY NobodyIsNoPlayer DEF RaidHome, CmdOK, CommandOK, AtSea
<1>2. /\ Raiding(cmd) /\ cmd.next \in {"mayhem", "raids"} /\ Exposed(t) /\ t \notin cmd.todo
      /\ t \in Players /\ Alive(t) /\ src \in Pids
    BY <1>1 DEF Sailing, Raiding, Exposed
<1>3. PICK loss \in IF cmd.ships = 0 THEN {<<0, 0>>}
                    ELSE AttritionLosses(cmd.ships, ship[t]["FIGHTERS"]) :
          LET S == Less(ship, t, "FIGHTERS", loss[2])
              P == [planet EXCEPT ![src].FIGHTERS = @ + (cmd.ships - loss[1])]
          IN IF cmd.ships > 0 /\ S[t]["FIGHTERS"] = 0 THEN WarpOrDie(t, S, garrison, P)
                                                      ELSE SettlePlanet(S, P)
    BY DEF RaidHome
<1>4. cmd' = [cmd EXCEPT !.op = cmd.next, !.next = "idle", !.other = Nobody, !.ships = 0]
    BY DEF RaidHome
<1> HIDE DEF t, src
<1>5. /\ ship[t]["FIGHTERS"] \in Nat /\ planet[src].FIGHTERS \in Nat /\ "FIGHTERS" \in Goods
      /\ ship \in Fleet
    BY <1>2, InWorld DEF Goods
<1>6. loss[1] \in 0..cmd.ships /\ loss[2] \in 0..ship[t]["FIGHTERS"]
  <2>1. CASE cmd.ships = 0
      BY <1>5, <2>1
  <2>2. CASE cmd.ships # 0
      BY <1>1, <1>5, <2>2, LossesAreBounded
  <2> QED
      BY <2>1, <2>2
<1>7. PICK k, S, n, P : /\ k = loss[2] /\ S = Less(ship, t, "FIGHTERS", k)
                        /\ n = planet[src].FIGHTERS + (cmd.ships - loss[1])
                        /\ P = Restocked(planet, src, "FIGHTERS", n)
    OBVIOUS
<1>8. WarpOrDie(t, S, garrison, P) \/ SettlePlanet(S, P)
    BY <1>3, <1>7 DEF Restocked
<1>9. /\ S \in Fleet /\ \A q \in Players : q # t => S[q] = ship[q]
      /\ S[t]["FIGHTERS"] = ship[t]["FIGHTERS"] - k
  <2>1. k \in 0..ship[t]["FIGHTERS"]
      BY <1>6, <1>7
  <2> QED
      BY <1>2, <1>5, <1>7, <2>1, LessIs
<1>10. /\ PlanetsOK(P, diedAt) /\ P[src].FIGHTERS = n
       /\ \A j \in Pids : j # src => P[j] = planet[j]
  <2>1. n \in Nat
      BY <1>1, <1>5, <1>6, <1>7
  <2> QED
      BY <1>2, <1>7, <2>1, StrongholdLeft
<1>11. WorldLeft /\ OnlyHits({t}, S) /\ SameFighters(S, garrison, P)
  <2>1. CASE WarpOrDie(t, S, garrison, P)
      BY <1>2, <1>9, <1>10, <2>1, WarpedOrDead, FleetInPlace, InWorld DEF Clock
  <2>2. CASE SettlePlanet(S, P)
      BY <1>9, <1>10, <2>2, PlanetsSettled DEF OnlyHits, Still, SettlePlanet
  <2> QED
      BY <1>8, <2>1, <2>2
<1>12. OnlyHits({t}, ship)
    BY <1>9, <1>11 DEF OnlyHits
<1>13. /\ Whole(cmd') /\ cmd'.op = cmd.next /\ cmd'.who = cmd.who /\ cmd'.src = cmd.src
       /\ cmd'.left = cmd.left /\ cmd'.ships = 0 /\ cmd'.todo = cmd.todo
    BY <1>1, <1>4 DEF Whole
<1>14. Raiding(cmd)'
    BY <1>2, <1>12, <1>13 DEF Raiding, Exposed, OnlyHits, Alive, t
<1>15. CmdOK'
    BY <1>1, <1>2, <1>13, <1>14 DEF CmdOK, CommandOK
<1>16. \A q \in Players : S[q]["FIGHTERS"] <= ship[q]["FIGHTERS"]
  <2>1. k \in Nat
      BY <1>5, <1>6, <1>7
  <2> QED
      BY <1>5, <1>9, <2>1, InWorld DEF Goods
<1>17. P[src].FIGHTERS + 0 <= planet[src].FIGHTERS + cmd.ships
    BY <1>1, <1>5, <1>6, <1>7, <1>10
<1>18. AtSea(cmd') = 0
    BY <1>2, <1>13 DEF AtSea
<1>19. NoneMade
    BY <1>1, <1>2, <1>10, <1>11, <1>16, <1>17, <1>18, RaidersCount
<1> QED
    BY <1>2, <1>11, <1>12, <1>15, <1>19 DEF t

LEMMA FedCounterOK ==
    ASSUME World, FedCounter
    PROVE  WorldLeft /\ CmdOK' /\ OnlyHits({}, ship) /\ NoneMade
<1>1. Quiet /\ cmd' = Idle /\ AtSea(cmd) = 0
    BY DEF FedCounter, Quiet, AtSea
<1>2. PlanetsOK(planet', diedAt) /\ \A i \in Pids : planet'[i].FIGHTERS <= planet[i].FIGHTERS
  <2>1. CASE UNCHANGED planet
      BY <2>1, InWorld
  <2>2. ASSUME NEW i \in Strongholds("cabal"),
               planet' = [planet EXCEPT ![i].FIGHTERS = @ - @ \div 4]
        PROVE  /\ PlanetsOK(planet', diedAt)
               /\ \A j \in Pids : planet'[j].FIGHTERS <= planet[j].FIGHTERS
    <3>1. i \in Pids
        BY DEF Strongholds
    <3>2. PICK n : n = planet[i].FIGHTERS - planet[i].FIGHTERS \div 4
        OBVIOUS
    <3>3. n \in Nat /\ n <= planet[i].FIGHTERS
        BY <3>1, <3>2, InWorld
    <3>4. planet' = Restocked(planet, i, "FIGHTERS", n)
        BY <2>2, <3>2 DEF Restocked
    <3>5. /\ PlanetsOK(planet', diedAt) /\ planet'[i].FIGHTERS = n
          /\ \A j \in Pids : j # i => planet'[j] = planet[j]
        BY <1>1, <3>1, <3>3, <3>4, StrongholdLeft DEF Quiet
    <3> QED
        BY <3>3, <3>5, InWorld
  <2> QED
      BY <2>1, <2>2 DEF FedCounter
<1>3. WorldLeft /\ CmdOK' /\ OnlyHits({}, ship) /\ AtSea(cmd') = 0
    BY <1>1, <1>2, QuietIs, IdleIsOK
<1>4. SameFighters(ship, garrison, planet') /\ NoMore(ship, garrison, planet')
    BY <1>1, <1>2, NothingNew DEF SameFighters, NoMore, Quiet
<1>5. NoneMade
    BY <1>1, <1>3, <1>4, NoneAdded
<1> QED
    BY <1>3, <1>5

-----------------------------------------------------------------------------
(* Turns and dates *)

LEMMA TurnIsSpent ==
    ASSUME Clock, NEW p \in Players, SpendTurn(p), UNCHANGED <<lastSeen, dayVars>>
    PROVE  Clock' /\ SpentTurn(p)
<1>1. UNCHANGED <<lastSeen, day, lastMaint>>
    BY DEF dayVars
<1>2. turns[p] \in 0..TurnsPerDay /\ banked[p] \in 0..TurnsPerDay
    BY DEF Clock
<1>3. CASE turns[p] >= 1 /\ turns' = [turns EXCEPT ![p] = @ - 1] /\ UNCHANGED banked
  <2>1. turns[p] - 1 \in 0..TurnsPerDay /\ turns'[p] < turns[p]
      BY <1>2, <1>3, GalaxyAssumption DEF Clock
  <2> QED
      BY <1>1, <1>3, <2>1 DEF Clock, SpentTurn
<1>4. CASE turns[p] < 1 /\ banked[p] >= 1
           /\ banked' = [banked EXCEPT ![p] = @ - 1] /\ UNCHANGED turns
  <2>1. banked[p] - 1 \in 0..TurnsPerDay /\ banked'[p] < banked[p]
      BY <1>2, <1>4, GalaxyAssumption DEF Clock
  <2> QED
      BY <1>1, <1>4, <2>1 DEF Clock, SpentTurn
<1> QED
    BY <1>3, <1>4 DEF SpendTurn

\* What the commands have in common: a turn is spent, or nothing of the player's
\* record changes.
OnTheClock(p) == SpendTurn(p) /\ UNCHANGED <<lastSeen, expired, dayVars>>
Timeless == UNCHANGED <<playerVars, dayVars>>

LEMMA TimelessIsOK == ASSUME Clock, Timeless PROVE Clock'
BY DEF Clock, Timeless, playerVars, dayVars

LEMMA LoginClock ==
    ASSUME Clock, NEW p \in Players, Login(p)
    PROVE  Clock'
<1>1. lastSeen' = [lastSeen EXCEPT ![p] = day] /\ UNCHANGED <<day, lastMaint>>
    BY DEF Login, dayVars
<1>2. \/ turns' = [turns EXCEPT ![p] = TurnsPerDay] /\ banked' = [banked EXCEPT ![p] = 0]
      \/ UNCHANGED <<turns, banked>>
    BY DEF Login
<1>3. TurnsPerDay \in 0..TurnsPerDay /\ 0 \in 0..TurnsPerDay
    BY GalaxyAssumption
<1>4. lastSeen' \in [Players -> 1..day]
    BY <1>1 DEF Clock
<1> QED
    BY <1>1, <1>2, <1>3, <1>4 DEF Clock

LEMMA MaintenanceClock ==
    ASSUME World, Clock, RunDailyMaintenance
    PROVE  Clock'
<1> DEFINE X == {p \in Players : IsExpired(p)}
<1>1. /\ banked' = [p \in Players |-> IF p \in X THEN 0 ELSE Rested(p)]
      /\ turns' = [p \in Players |-> TurnsPerDay]
      /\ lastSeen' = lastSeen /\ day' = day
      /\ lastMaint' = day \/ lastMaint' = lastMaint
    BY DEF RunDailyMaintenance
<1> HIDE DEF X
<1>2. TurnsPerDay \in 0..TurnsPerDay /\ 0 \in 0..TurnsPerDay
    BY GalaxyAssumption
<1>3. \A p \in Players : Rested(p) \in 0..TurnsPerDay
  <2> SUFFICES ASSUME NEW p \in Players PROVE Rested(p) \in 0..TurnsPerDay
      OBVIOUS
  <2>1. PICK n : n = banked[p] + turns[p]
      OBVIOUS
  <2>2. n \in Nat
      BY <2>1 DEF Clock
  <2>3. AtMost(n, TurnsPerDay) \in 0..TurnsPerDay
      BY <2>2, AtMostIs, GalaxyAssumption
  <2> QED
      BY <1>2, <2>1, <2>3 DEF Rested
<1>4. banked' \in [Players -> 0..TurnsPerDay]
    BY <1>1, <1>2, <1>3
<1>5. turns' \in [Players -> 0..TurnsPerDay]
    BY <1>1, <1>2
<1> QED
    BY <1>1, <1>4, <1>5 DEF Clock

LEMMA FedCounterClock ==
    ASSUME Clock, FedCounter
    PROVE  Clock'
<1>1. lastMaint' = day /\ UNCHANGED <<day, lastSeen, turns, banked>>
    BY DEF FedCounter, playerVars
<1> QED
    BY <1>1 DEF Clock

LEMMA DayPassesClock ==
    ASSUME Clock, DayPasses
    PROVE  Clock'
<1>1. day' = day + 1 /\ UNCHANGED <<lastMaint, lastSeen, turns, banked>>
    BY DEF DayPasses, playerVars
<1>2. \A p \in Players : lastSeen[p] \in 1..(day + 1)
    BY DEF Clock
<1>3. lastSeen \in [Players -> 1..(day + 1)]
    BY <1>2 DEF Clock
<1> QED
    BY <1>1, <1>3 DEF Clock

LEMMA MarksStay == ASSUME Marks, UNCHANGED <<everMoved, expired>> PROVE Marks'
BY DEF Marks

-----------------------------------------------------------------------------
(* Federation space *)

\* No ship in Federation space was harmed, save by its pilot or by absence.
Sanctuary ==
    \A p \in Players : Alive(p) /\ sector[p] <= FedMax /\ Harmed(p) =>
        SpentTurn(p) \/ IsExpired(p)

LEMMA Untouched ==
    ASSUME World, NEW p \in Players, diedAt'[p] = diedAt[p],
           ship'[p]["FIGHTERS"] >= ship[p]["FIGHTERS"], ship'[p]["FIGHTERS"] \in Nat
    PROVE  ~Harmed(p)
<1>1. ship[p]["FIGHTERS"] \in Nat
    BY InWorld DEF Goods
<1> QED
    BY <1>1 DEF Harmed

LEMMA LoginHarmsNone ==
    ASSUME World, Clock, CmdOK, NEW p \in Players, Login(p)
    PROVE  \A q \in Players : Alive(q) => ~Harmed(q)
<1> SUFFICES ASSUME NEW q \in Players, Alive(q) PROVE ~Harmed(q)
    OBVIOUS
<1>1. ship[q]["FIGHTERS"] \in Nat
    BY InWorld DEF Goods
<1>2. diedAt'[q] = diedAt[q] /\ ship'[q] = ship[q]
    BY LoginOK DEF OnlyHits
<1> QED
    BY <1>1, <1>2 DEF Harmed

LEMMA MaintenanceHarmsNone ==
    ASSUME World, RunDailyMaintenance
    PROVE  \A q \in Players : Harmed(q) => IsExpired(q)
<1> SUFFICES ASSUME NEW q \in Players, ~IsExpired(q) PROVE ~Harmed(q)
    OBVIOUS
<1>1. ship[q]["FIGHTERS"] \in Nat
    BY InWorld DEF Goods
<1>2. diedAt'[q] = diedAt[q] /\ ship'[q] = ship[q]
    BY MaintenanceOK
<1> QED
    BY <1>1, <1>2 DEF Harmed

LEMMA FleetHomeHarmsNone ==
    ASSUME World, CmdOK, FleetHome
    PROVE  \A q \in Players : ~Harmed(q)
<1> SUFFICES ASSUME NEW q \in Players PROVE ~Harmed(q)
    OBVIOUS
<1>1. /\ WorldLeft /\ OnlyHits({cmd.who}, ship) /\ Still
      /\ ship'[cmd.who]["FIGHTERS"] >= ship[cmd.who]["FIGHTERS"]
    BY FleetHomeOK
<1>2. ship[q]["FIGHTERS"] \in Nat
    BY InWorld DEF Goods
<1>3. ship'[q]["FIGHTERS"] \in Nat
    BY <1>1 DEF WorldLeft, ShipsOK, Goods
<1>4. ship'[q]["FIGHTERS"] >= ship[q]["FIGHTERS"]
    BY <1>1, <1>2 DEF OnlyHits
<1> QED
    BY <1>1, <1>2, <1>3, <1>4 DEF Harmed, Still

LEMMA OutsideIsExposed ==
    ASSUME World, NEW E, OnlyHits(E, ship), \A q \in E : Exposed(q) \/ SpentTurn(q)
    PROVE  Sanctuary
<1> SUFFICES ASSUME NEW p \in Players, sector[p] <= FedMax, Harmed(p)
             PROVE  SpentTurn(p)
    BY DEF Sanctuary
<1>1. CASE p \in E
    BY <1>1, InWorld, GalaxyAssumption DEF Exposed
<1>2. CASE p \notin E
  <2>1. ship[p]["FIGHTERS"] \in Nat
      BY InWorld DEF Goods
  <2> QED
      BY <1>2, <2>1 DEF OnlyHits, Harmed
<1> QED
    BY <1>1, <1>2

LEMMA NobodyHit == ASSUME World, OnlyHits({}, ship) PROVE Sanctuary
BY OutsideIsExposed

LEMMA OneHit ==
    ASSUME World, NEW p, OnlyHits({p}, ship), Exposed(p) \/ SpentTurn(p)
    PROVE  Sanctuary
<1>1. \A q \in {p} : Exposed(q) \/ SpentTurn(q)
    OBVIOUS
<1> QED
    BY <1>1, OutsideIsExposed

-----------------------------------------------------------------------------
(* Every step *)

Kept == World' /\ Clock' /\ CmdOK' /\ Sanctuary

LEMMA CommandKeeps ==
    ASSUME World, Clock, CmdOK, NEW p \in Players, PlayerCommand(p)
    PROVE  Kept
<1>1. ASSUME NEW d \in Sectors, MovePlayer(p, d) PROVE Kept
  <2>1. SpendTurn(p) /\ UNCHANGED <<lastSeen, dayVars>>
      BY <1>1 DEF MovePlayer
  <2>2. Clock' /\ SpentTurn(p) /\ day' = day
      BY <2>1, TurnIsSpent DEF dayVars
  <2> QED
      BY <1>1, <2>2, MovePlayerOK, SameDay, OneHit DEF Kept
<1>2. ASSUME NEW t \in Players, NEW n, AttackPlayer(p, t, n) PROVE Kept
  <2>1. SpendTurn(p) /\ UNCHANGED <<lastSeen, dayVars>>
      BY <1>2 DEF AttackPlayer
  <2>2. Clock' /\ day' = day
      BY <2>1, TurnIsSpent DEF dayVars
  <2>3. WorldLeft /\ CmdOK' /\ OnlyHits({p, t}, ship) /\ Exposed(p) /\ Exposed(t)
      BY <1>2, AttackPlayerOK
  <2>4. Sanctuary
      BY <2>3, OutsideIsExposed
  <2> QED
      BY <2>2, <2>3, <2>4, SameDay DEF Kept
<1>3. ASSUME NEW n, InvadePlanet(p, n) PROVE Kept
  <2>1. SpendTurn(p) /\ UNCHANGED <<lastSeen, dayVars>>
      BY <1>3 DEF InvadePlanet
  <2>2. Clock' /\ SpentTurn(p) /\ day' = day
      BY <2>1, TurnIsSpent DEF dayVars
  <2> QED
      BY <1>3, <2>2, InvadePlanetOK, SameDay, OneHit DEF Kept
<1>4. ASSUME NEW s, NEW n, LaunchBattleGroup(p, s, n) PROVE Kept
  <2>1. SpendTurn(p) /\ UNCHANGED <<lastSeen, dayVars>>
      BY <1>4 DEF LaunchBattleGroup
  <2>2. Clock' /\ SpentTurn(p) /\ day' = day
      BY <2>1, TurnIsSpent DEF dayVars
  <2> QED
      BY <1>4, <2>2, LaunchBattleGroupOK, SameDay, OneHit DEF Kept
<1>5. ASSUME NEW kind \in {"FIGHTERS", "MINES"}, NEW n \in Nat,
             AdjustBattlegroup(p, kind, n) \/ TransferSet(p, kind, n)
      PROVE  Kept
  <2>1. Timeless
      BY <1>5 DEF AdjustBattlegroup, TransferSet, Timeless
  <2>2. Clock' /\ day' = day
      BY <2>1, TimelessIsOK DEF Timeless, dayVars
  <2> QED
      BY <1>5, <2>2, AdjustBattlegroupOK, TransferSetOK, SameDay, OneHit DEF Kept
<1>6. ASSUME NEW name \in GivenNames, UseGenesisDevice(p, name) PROVE Kept
  <2>1. Timeless
      BY <1>6 DEF UseGenesisDevice, Timeless
  <2>2. Clock' /\ day' = day
      BY <2>1, TimelessIsOK DEF Timeless, dayVars
  <2> QED
      BY <1>6, <2>2, UseGenesisDeviceOK, SameDay, OneHit DEF Kept
<1>7. ASSUME NEW n, BombPlanet(p, n) PROVE Kept
  <2>1. SpendTurn(p) /\ UNCHANGED <<lastSeen, dayVars>>
      BY <1>7 DEF BombPlanet
  <2>2. Clock' /\ SpentTurn(p) /\ day' = day
      BY <2>1, TurnIsSpent DEF dayVars
  <2> QED
      BY <1>7, <2>2, BombPlanetOK, SameDay, OneHit DEF Kept
<1>8. CASE Login(p)
  <2>1. WorldLeft /\ CmdOK' /\ OnlyHits({p}, ship) /\ day' = day
      BY <1>8, LoginOK DEF Login, dayVars
  <2>2. Sanctuary
      BY <1>8, LoginHarmsNone DEF Sanctuary
  <2> QED
      BY <1>8, <2>1, <2>2, SameDay, LoginClock DEF Kept
<1>9. \A kind \in {"FIGHTERS", "MINES"} : \A n \in Amounts(p, kind) : n \in Nat
    BY DEF Amounts
<1> QED
    BY <1>1, <1>2, <1>3, <1>4, <1>5, <1>6, <1>7, <1>8, <1>9 DEF PlayerCommand

LEMMA ResumeKeeps ==
    ASSUME World, Clock, CmdOK, Resume
    PROVE  Kept
<1>1. ASSUME Timeless, WorldLeft, CmdOK', Sanctuary PROVE Kept
    BY <1>1, TimelessIsOK, SameDay DEF Kept, Timeless, dayVars
<1>2. CASE Minefield
    BY <1>1, <1>2, MinefieldOK, OneHit DEF Minefield, Timeless
<1>3. CASE Carried
  <2>1. WorldLeft /\ CmdOK' /\ \E p \in Players : Exposed(p) /\ OnlyHits({p}, ship)
      BY <1>3, CarriedOK
  <2> QED
      BY <1>1, <1>3, <2>1, OneHit DEF Carried, Timeless
<1>4. CASE Storm
    BY <1>1, <1>4, StormOK, OneHit DEF Storm, Timeless
<1>5. CASE Transit
    BY <1>1, <1>5, TransitOK, NobodyHit DEF Transit, Timeless
<1>6. CASE Sweep
    BY <1>1, <1>6, SweepOK, NobodyHit DEF Sweep, Timeless
<1>7. CASE Engage
  <2>1. WorldLeft /\ CmdOK' /\ \E q \in cmd.todo : Exposed(q) /\ OnlyHits({q}, ship)
      BY <1>7, EngageOK
  <2> QED
      BY <1>1, <1>7, <2>1, OneHit DEF Engage, Timeless, Exposed
<1>8. CASE FleetHome
  <2>1. Sanctuary
      BY <1>8, FleetHomeHarmsNone DEF Sanctuary
  <2> QED
      BY <1>1, <1>8, <2>1, FleetHomeOK DEF FleetHome, Timeless
<1>9. CASE Gate
    BY <1>1, <1>9, GateOK, NobodyHit DEF Gate, Timeless
<1>10. CASE Hunt
    BY <1>1, <1>10, HuntOK, NobodyHit DEF Hunt, Timeless
<1>11. CASE Mayhem
    BY <1>1, <1>11, MayhemOK, NobodyHit DEF Mayhem, Timeless
<1>12. CASE Raid
    BY <1>1, <1>12, RaidOK, NobodyHit DEF Raid, Timeless
<1>13. CASE RaidHome
    BY <1>1, <1>13, RaidHomeOK, OneHit DEF RaidHome, Timeless
<1>14. CASE FedCounter
  <2>1. WorldLeft /\ CmdOK' /\ OnlyHits({}, ship) /\ day' = day
      BY <1>14, FedCounterOK DEF FedCounter
  <2> QED
      BY <1>14, <2>1, SameDay, FedCounterClock, NobodyHit DEF Kept
<1> QED
    BY <1>2, <1>3, <1>4, <1>5, <1>6, <1>7, <1>8, <1>9, <1>10, <1>11, <1>12, <1>13,
       <1>14 DEF Resume

LEMMA NightKeeps ==
    ASSUME World, Clock, CmdOK, DayPasses \/ RunDailyMaintenance
    PROVE  Kept
<1>1. CASE DayPasses
    BY <1>1, DayPassesOK, DayPassesClock, NobodyHit DEF Kept
<1>2. CASE RunDailyMaintenance
  <2>1. WorldLeft /\ CmdOK' /\ day' = day
      BY <1>2, MaintenanceOK DEF RunDailyMaintenance
  <2>2. Sanctuary
      BY <1>2, MaintenanceHarmsNone DEF Sanctuary
  <2> QED
      BY <1>2, <2>1, <2>2, SameDay, MaintenanceClock DEF Kept
<1> QED
    BY <1>1, <1>2

LEMMA MarksKept ==
    ASSUME Marks, Next
    PROVE  Marks'
<1>1. CASE \E p \in Players : PlayerCommand(p)
  <2>1. PICK p \in Players : PlayerCommand(p)
      BY <1>1
  <2>2. ASSUME NEW d \in Sectors, MovePlayer(p, d) PROVE Marks'
    <3>1. everMoved' = [everMoved EXCEPT ![p] = TRUE] /\ UNCHANGED expired
        BY <2>2 DEF MovePlayer
    <3> QED
        BY <3>1 DEF Marks
  <2>3. CASE Login(p)
    <3>1. expired' = [expired EXCEPT ![p] = FALSE] /\ UNCHANGED everMoved
        BY <2>3 DEF Login
    <3> QED
        BY <3>1 DEF Marks
  <2>4. \/ \E d \in Sectors : MovePlayer(p, d)
        \/ Login(p)
        \/ UNCHANGED <<everMoved, expired>>
      BY <2>1 DEF PlayerCommand, AttackPlayer, InvadePlanet, LaunchBattleGroup,
                  AdjustBattlegroup, TransferSet, UseGenesisDevice, BombPlanet, playerVars
  <2> QED
      BY <2>2, <2>3, <2>4, MarksStay
<1>2. CASE DayPasses
    BY <1>2, MarksStay DEF DayPasses, playerVars
<1>3. CASE RunDailyMaintenance
  <2>1. PICK E \in SUBSET Players :
            expired' = [p \in Players |-> p \in E \/ expired[p]] /\ UNCHANGED everMoved
      BY <1>3 DEF RunDailyMaintenance
  <2> QED
      BY <2>1 DEF Marks
<1>4. CASE Resume
    BY <1>4, MarksStay DEF Resume, Minefield, Carried, Storm, Transit, Sweep, Engage,
       FleetHome, Gate, Hunt, Mayhem, Raid, RaidHome, FedCounter, playerVars
<1> QED
    BY <1>1, <1>2, <1>3, <1>4 DEF Next

LEMMA StepKeeps ==
    ASSUME IndInv, Next
    PROVE  IndInv' /\ Sanctuary
<1>1. World /\ Clock /\ CmdOK
    BY DEF IndInv
<1>2. Kept
    BY <1>1, CommandKeeps, ResumeKeeps, NightKeeps DEF Next
<1>3. Marks'
    BY MarksKept DEF IndInv
<1> QED
    BY <1>2, <1>3 DEF IndInv, Kept

LEMMA StutterKeeps ==
    ASSUME IndInv, UNCHANGED vars
    PROVE  IndInv' /\ Sanctuary
<1>1. UNCHANGED <<ship, sector, diedAt, garrison, planet, day>> /\ cmd' = cmd
    BY DEF vars, dayVars
<1>2. Timeless /\ UNCHANGED <<everMoved, expired>>
    BY DEF vars, Timeless, playerVars
<1>3. World'
    BY <1>1 DEF IndInv, World
<1>4. Clock' /\ Marks'
    BY <1>2, TimelessIsOK, MarksStay DEF IndInv
<1>5. CmdOK'
    BY <1>1 DEF IndInv, CmdOK, CommandOK, Whole, UnderMines, Storming, BreakingUp, Sailing,
                Raiding, Exposed, Alive, Present
<1>6. Sanctuary
  <2>1. World /\ OnlyHits({}, ship)
      BY <1>1 DEF OnlyHits, IndInv
  <2> QED
      BY <2>1, NobodyHit
<1> QED
    BY <1>3, <1>4, <1>5, <1>6 DEF IndInv

-----------------------------------------------------------------------------
(* Fighters from nothing *)

LEMMA FightersAreCountable ==
    ASSUME World, WorldLeft, CmdOK, CmdOK'
    PROVE  AllFighters \in Nat /\ AllFighters' \in Nat
<1>1. /\ Aboard(ship) \in Nat /\ OnGuard(garrison) \in Nat /\ Based(planet) \in Nat
      /\ Aboard(ship') \in Nat /\ OnGuard(garrison') \in Nat /\ Based(planet') \in Nat
    BY Counted
<1>2. AtSea(cmd) \in Nat /\ AtSea(cmd') \in Nat
    BY DEF AtSea, CmdOK, CommandOK
<1>3. /\ AllFighters = Aboard(ship) + OnGuard(garrison) + Based(planet) + AtSea(cmd)
      /\ AllFighters' = Aboard(ship') + OnGuard(garrison') + Based(planet') + AtSea(cmd')
    BY DEF AllFighters
<1> QED
    BY <1>1, <1>2, <1>3

\* Where there may be more fighters: rebuilt ships, the night's growth, the gates.
Restocking ==
    \/ \E p \in Players : ~Alive(p) /\ diedAt'[p] = 0
    \/ Ready /\ lastMaint # day /\ (cmd'.op = "gate" \/ lastMaint' = day)
    \/ cmd.op = "gate"

LEMMA CommandMakesNone ==
    ASSUME World, Clock, CmdOK, NEW p \in Players, PlayerCommand(p)
    PROVE  NoneMade \/ AsMany \/ Restocking
<1>1. CASE \E d \in Sectors : MovePlayer(p, d)
    BY <1>1, MovePlayerOK
<1>2. CASE \E t \in Players, n \in 1..ship[p]["FIGHTERS"] : AttackPlayer(p, t, n)
    BY <1>2, AttackPlayerOK
<1>3. CASE \E n \in 1..ship[p]["FIGHTERS"] : InvadePlanet(p, n)
    BY <1>3, InvadePlanetOK
<1>4. CASE \E t \in Sectors, n \in 1..ship[p]["FIGHTERS"] : LaunchBattleGroup(p, t, n)
    BY <1>4, LaunchBattleGroupOK
<1>5. ASSUME NEW kind \in {"FIGHTERS", "MINES"}, NEW n \in Nat,
             AdjustBattlegroup(p, kind, n) \/ TransferSet(p, kind, n)
      PROVE  AsMany
    BY <1>5, AdjustBattlegroupOK, TransferSetOK
<1>6. CASE \E name \in GivenNames : UseGenesisDevice(p, name)
    BY <1>6, UseGenesisDeviceOK
<1>7. CASE \E n \in 1..ship[p]["PULSAR"] : BombPlanet(p, n)
    BY <1>7, BombPlanetOK
<1>8. CASE Login(p)
    BY <1>8, LoginOK DEF Restocking
<1>9. \A kind \in {"FIGHTERS", "MINES"} : \A n \in Amounts(p, kind) : n \in Nat
    BY DEF Amounts
<1> QED
    BY <1>1, <1>2, <1>3, <1>4, <1>5, <1>6, <1>7, <1>8, <1>9 DEF PlayerCommand

LEMMA StepMakesNone ==
    ASSUME IndInv, Next
    PROVE  NoneMade \/ AsMany \/ Restocking
<1>1. World /\ Clock /\ CmdOK
    BY DEF IndInv
<1>2. CASE \E p \in Players : PlayerCommand(p)
    BY <1>1, <1>2, CommandMakesNone
<1>3. CASE DayPasses
    BY <1>1, <1>3, DayPassesOK
<1>4. CASE RunDailyMaintenance
  <2>1. Ready /\ lastMaint # day
      BY <1>4 DEF RunDailyMaintenance
  <2>2. \/ lastMaint' = day
        \/ \E f, awake : cmd' = TurnOf(f, awake)
      BY <1>4 DEF RunDailyMaintenance
  <2> QED
      BY <2>1, <2>2 DEF Restocking, TurnOf, Idle
<1>5. CASE Resume
  <2>1. CASE Minefield \/ Carried \/ Storm
      BY <1>1, <2>1, MinefieldOK, CarriedOK, StormOK
  <2>2. CASE Transit \/ Sweep \/ Engage \/ FleetHome
      BY <1>1, <2>2, TransitOK, SweepOK, EngageOK, FleetHomeOK
  <2>3. CASE Gate
      BY <2>3 DEF Gate, Restocking
  <2>4. CASE Hunt \/ Mayhem \/ Raid \/ RaidHome \/ FedCounter
      BY <1>1, <2>4, HuntOK, MayhemOK, RaidOK, RaidHomeOK, FedCounterOK
  <2> QED
      BY <1>5, <2>1, <2>2, <2>3, <2>4 DEF Resume
<1> QED
    BY <1>2, <1>3, <1>4, <1>5 DEF Next

LEMMA StutterMakesNone == ASSUME UNCHANGED vars PROVE AsMany
BY DEF vars, AsMany, AllFighters

LEMMA WorldIsLeft == ASSUME World, World', day' = day \/ diedAt' = diedAt PROVE WorldLeft
<1>1. CASE day' = day
    BY <1>1 DEF World, WorldLeft
<1>2. CASE diedAt' = diedAt
    BY <1>2 DEF World, WorldLeft, ShipsOK
<1> QED
    BY <1>1, <1>2

\* Whatever happens to the day, it is not a death.
LEMMA DaysKill == ASSUME IndInv, [Next]_vars PROVE day' = day \/ diedAt' = diedAt
<1>1. CASE UNCHANGED vars
    BY <1>1 DEF vars, dayVars
<1>2. CASE \E p \in Players : PlayerCommand(p)
  <2>1. PICK p \in Players : PlayerCommand(p)
      BY <1>2
  <2>2. /\ \A d : MovePlayer(p, d) => UNCHANGED dayVars
        /\ \A t, n : AttackPlayer(p, t, n) => UNCHANGED dayVars
      BY DEF MovePlayer, AttackPlayer
  <2>3. /\ \A n : InvadePlanet(p, n) \/ BombPlanet(p, n) => UNCHANGED dayVars
        /\ \A t, n : LaunchBattleGroup(p, t, n) => UNCHANGED dayVars
      BY DEF InvadePlanet, BombPlanet, LaunchBattleGroup
  <2>4. /\ \A kind, n : AdjustBattlegroup(p, kind, n) \/ TransferSet(p, kind, n)
                             => UNCHANGED dayVars
        /\ \A name : UseGenesisDevice(p, name) => UNCHANGED dayVars
        /\ Login(p) => UNCHANGED dayVars
      BY DEF AdjustBattlegroup, TransferSet, UseGenesisDevice, Login
  <2> QED
      BY <2>1, <2>2, <2>3, <2>4 DEF PlayerCommand, dayVars
<1>3. CASE DayPasses \/ RunDailyMaintenance
    BY <1>3 DEF DayPasses, RunDailyMaintenance
<1>4. CASE Resume
    BY <1>4 DEF Resume, Minefield, Carried, Storm, Transit, Sweep, Engage, FleetHome,
       Gate, Hunt, Mayhem, Raid, RaidHome, FedCounter, dayVars
<1> QED
    BY <1>1, <1>2, <1>3, <1>4 DEF Next

Conserved == AllFighters' > AllFighters => Restocking

LEMMA FightersConserved ==
    ASSUME IndInv, [Next]_vars
    PROVE  /\ Conserved
           /\ AllFighters \in Nat /\ AllFighters' \in Nat
<1>1. IndInv'
    BY StepKeeps, StutterKeeps
<1>2. World /\ World' /\ CmdOK /\ CmdOK'
    BY <1>1 DEF IndInv
<1>3. AllFighters \in Nat /\ AllFighters' \in Nat
    BY <1>2, DaysKill, WorldIsLeft, FightersAreCountable
<1>4. NoneMade \/ AsMany \/ Restocking
    BY StepMakesNone, StutterMakesNone
<1> QED
    BY <1>3, <1>4 DEF Conserved, NoneMade, AsMany

-----------------------------------------------------------------------------
(* The hidden *)

\* No ship is outside Federation space that never left dock.
Moored == \A p \in Players : sector[p] > FedMax => everMoved[p]

\* Whoever is fought, met or to be raided has been seen lately, and stays so as
\* no day passes before the command ends.
Recent(q) == day - lastSeen[q] < DormantDays
Pursuit ==
    /\ Ready => cmd = Idle
    /\ \A q \in Players : q \in cmd.todo \/ q = cmd.other => Recent(q)

Abroad == Moored /\ Pursuit

\* None of the hidden was harmed by others.
Spared ==
    \A p \in Players :
        Alive(p) /\ Harmed(p) /\ ~SpentTurn(p) /\ ~IsExpired(p) =>
            /\ sector[p] > FedMax
            /\ /\ Dormant(p) \/ ~everMoved[p]
               /\ diedAt'[p] # diedAt[p] \/ AllFighters' < AllFighters
               => cmd.who = p

LEMMA AwakeIsRecent ==
    ASSUME Clock, NEW q \in Players, Alive(q), ~Dormant(q)
    PROVE  Recent(q)
<1>1. lastSeen[q] \in Nat /\ day \in Nat
    BY DEF Clock
<1> QED
    BY <1>1, GalaxyAssumption DEF Dormant, Recent

LEMMA RecentIsAwake ==
    ASSUME Clock, NEW q \in Players, Recent(q)
    PROVE  ~Dormant(q)
<1>1. lastSeen[q] \in Nat /\ day \in Nat
    BY DEF Clock
<1> QED
    BY <1>1, GalaxyAssumption DEF Dormant, Recent

\* Only ships outside Federation space are flung about.
LEMMA StayMoored ==
    ASSUME Moored, NEW E, OnlyHits(E, ship), \A q \in E : Exposed(q), everMoved' = everMoved
    PROVE  Moored'
BY DEF Moored, OnlyHits, Exposed

LEMMA StillMoored == ASSUME Moored, Still, everMoved' = everMoved PROVE Moored'
BY DEF Moored, Still

\* It was the pilot's own doing, or q was not hidden at all.
Accounted(q) ==
    \/ q \in Players /\ (SpentTurn(q) \/ ~Harmed(q))
    \/ Exposed(q) /\ (q = cmd.who \/ Recent(q) \/ (AsMany /\ diedAt' = diedAt))

LEMMA SparedAre ==
    ASSUME World, Clock, Moored, AllFighters \in Nat, NEW E, OnlyHits(E, ship),
           \A q \in E : Accounted(q)
    PROVE  Spared
<1> SUFFICES ASSUME NEW p \in Players, Harmed(p), ~SpentTurn(p)
             PROVE  /\ sector[p] > FedMax
                    /\ /\ Dormant(p) \/ ~everMoved[p]
                       /\ diedAt'[p] # diedAt[p] \/ AllFighters' < AllFighters
                       => cmd.who = p
    BY DEF Spared
<1>1. p \in E
  <2>1. ship[p]["FIGHTERS"] \in Nat
      BY InWorld DEF Goods
  <2> QED
      BY <2>1 DEF OnlyHits, Harmed
<1>2. Exposed(p) /\ (p = cmd.who \/ Recent(p) \/ (AsMany /\ diedAt' = diedAt))
    BY <1>1 DEF Accounted
<1>3. sector[p] > FedMax /\ everMoved[p]
    BY <1>2 DEF Exposed, Moored
<1>4. AsMany /\ diedAt' = diedAt => ~(diedAt'[p] # diedAt[p] \/ AllFighters' < AllFighters)
    BY DEF AsMany
<1>5. Recent(p) => ~Dormant(p)
    BY RecentIsAwake
<1> QED
    BY <1>2, <1>3, <1>4, <1>5

LEMMA NobodySpared ==
    ASSUME World, Clock, Moored, AllFighters \in Nat, OnlyHits({}, ship)
    PROVE  Spared
BY SparedAre

LEMMA OneSpared ==
    ASSUME World, Clock, Moored, AllFighters \in Nat, NEW p, OnlyHits({p}, ship),
           Accounted(p)
    PROVE  Spared
<1>1. \A q \in {p} : Accounted(q)
    OBVIOUS
<1> QED
    BY <1>1, SparedAre

LEMMA OneMoored ==
    ASSUME Moored, NEW p, OnlyHits({p}, ship), Exposed(p), everMoved' = everMoved
    PROVE  Moored'
<1>1. \A q \in {p} : Exposed(q)
    OBVIOUS
<1> QED
    BY <1>1, StayMoored

LEMMA IdlePursuesNobody == ASSUME cmd' = Idle PROVE Pursuit'
BY NobodyIsNoPlayer DEF Pursuit, Idle, Ready

LEMMA NobodyPursued ==
    ASSUME cmd'.op # "idle", cmd'.todo = {}, cmd'.other = Nobody
    PROVE  Pursuit'
BY NobodyIsNoPlayer DEF Pursuit, Ready

LEMMA PursuitGoesOn ==
    ASSUME Pursuit, UNCHANGED <<day, lastSeen>>, cmd'.op # "idle",
           \A q \in Players : q \in cmd'.todo \/ q = cmd'.other =>
               q \in cmd.todo \/ q = cmd.other \/ Recent(q)
    PROVE  Pursuit'
BY DEF Pursuit, Recent, Ready

\* The players' commands.
LEMMA CommandPursues ==
    ASSUME Clock, Pursuit, NEW p \in Players, PlayerCommand(p)
    PROVE  Pursuit'
<1>1. cmd' = cmd => Pursuit'
  <2>1. Ready
      BY DEF PlayerCommand, MovePlayer, AttackPlayer, InvadePlanet, LaunchBattleGroup,
             AdjustBattlegroup, TransferSet, UseGenesisDevice, BombPlanet, Login
  <2> QED
      BY <2>1, IdlePursuesNobody DEF Pursuit
<1>2. ASSUME NEW d \in Sectors, MovePlayer(p, d) PROVE Pursuit'
  <2>1. cmd' = Idle \/ \E g : cmd' = [Idle EXCEPT !.op = "minefield", !.who = p, !.slot = g]
      BY <1>2 DEF MovePlayer, Contest, Arrive
  <2> QED
      BY <2>1, IdlePursuesNobody, NobodyPursued DEF Idle
<1>3. ASSUME NEW t \in Players, NEW n, AttackPlayer(p, t, n) PROVE Pursuit'
  <2>1. cmd' = Idle \/ \E m : cmd' = [Idle EXCEPT !.op = "carried", !.who = p, !.other = t,
                                                  !.left = m]
      BY <1>3 DEF AttackPlayer, CounterAttack, ResolveKill
  <2>2. Alive(t) /\ ~Dormant(t) /\ UNCHANGED <<day, lastSeen>>
      BY <1>3 DEF AttackPlayer, dayVars
  <2>3. Recent(t)
      BY <2>2, AwakeIsRecent
  <2> QED
      BY <2>1, <2>2, <2>3, IdlePursuesNobody, PursuitGoesOn DEF Idle
<1>4. ASSUME NEW n, InvadePlanet(p, n) PROVE Pursuit'
  <2>1. cmd' = Idle \/ \E i, m, k : cmd' = [Idle EXCEPT !.op = "storm", !.who = p, !.slot = i,
                                                        !.left = m, !.ships = k]
      BY <1>4 DEF InvadePlanet, Repelled
  <2> QED
      BY <2>1, IdlePursuesNobody, NobodyPursued DEF Idle
<1>5. ASSUME NEW t, NEW n, LaunchBattleGroup(p, t, n) PROVE Pursuit'
  <2>1. \E r : cmd' = [Idle EXCEPT !.op = "transit", !.who = p, !.ships = n, !.route = r]
      BY <1>5 DEF LaunchBattleGroup
  <2> QED
      BY <2>1, NobodyPursued DEF Idle
<1>6. \/ \E d \in Sectors : MovePlayer(p, d)
      \/ \E t \in Players, n \in 1..ship[p]["FIGHTERS"] : AttackPlayer(p, t, n)
      \/ \E n \in 1..ship[p]["FIGHTERS"] : InvadePlanet(p, n)
      \/ \E t \in Sectors, n \in 1..ship[p]["FIGHTERS"] : LaunchBattleGroup(p, t, n)
      \/ cmd' = cmd
    BY DEF PlayerCommand, AdjustBattlegroup, TransferSet, UseGenesisDevice, BombPlanet, Login
<1> QED
    BY <1>1, <1>2, <1>3, <1>4, <1>5, <1>6

\* A fleet picks its fights with ships whose pilots were seen lately.
LEMMA MeetingPursues ==
    ASSUME Clock, CmdOK, Pursuit, UNCHANGED <<day, lastSeen>>, NEW fleet, MeetShips(fleet)
    PROVE  Pursuit'
<1>1. Whole(cmd)
    BY DEF CmdOK, CommandOK
<1>2. PICK met : met = ShipsMet(cmd.who, fleet, Head(cmd.route))
    OBVIOUS
<1>3. CASE cmd' = MoveOn(fleet)
  <2>1. cmd'.op = "transit" /\ cmd'.other = cmd.other /\ cmd'.todo \subseteq cmd.todo
      BY <1>1, <1>3, MoveOnIs
  <2> QED
      BY <2>1, PursuitGoesOn
<1>4. CASE cmd' = [cmd EXCEPT !.op = "engage", !.ships = fleet, !.slot = Nobody, !.todo = met]
  <2>1. cmd'.op = "engage" /\ cmd'.other = cmd.other /\ cmd'.todo = met
      BY <1>1, <1>4 DEF Whole
  <2>2. \A q \in met : q \in Players /\ Alive(q) /\ ~Dormant(q)
      BY <1>2 DEF ShipsMet
  <2>3. \A q \in met : Recent(q)
      BY <2>2, AwakeIsRecent
  <2> QED
      BY <2>1, <2>3, PursuitGoesOn
<1> QED
    BY <1>2, <1>3, <1>4 DEF MeetShips

\* A faction strikes at players seen lately.
LEMMA StrikePursues ==
    ASSUME Clock, Pursuit, UNCHANGED <<day, lastSeen>>, NEW t \in Players, Recent(t),
           NEW ships, NEW then, Whole(then), then.op # "idle",
           then.todo \subseteq cmd.todo, then.other = cmd.other, Strike(t, ships, then)
    PROVE  Pursuit'
<1>1. \/ cmd' = then
      \/ \E force, r : cmd' = [then EXCEPT !.op = "transit", !.next = then.op, !.other = t,
                                           !.ships = force, !.route = r]
    BY DEF Strike
<1>2. CASE cmd' = then
    BY <1>2, PursuitGoesOn
<1>3. ASSUME NEW force, NEW r,
             cmd' = [then EXCEPT !.op = "transit", !.next = then.op, !.other = t,
                                 !.ships = force, !.route = r]
      PROVE  Pursuit'
  <2>1. cmd'.op = "transit" /\ cmd'.todo = then.todo /\ cmd'.other = t
      BY <1>3 DEF Whole
  <2> QED
      BY <2>1, PursuitGoesOn
<1> QED
    BY <1>1, <1>2, <1>3

LEMMA TargetsAreRecent == ASSUME Clock PROVE \A q \in Targets : q \in Players /\ Recent(q)
BY AwakeIsRecent DEF Targets

LEMMA NextFactionPursues == ASSUME cmd' = NextFaction PROVE Pursuit'
<1>1. cmd'.op # "idle" /\ cmd'.todo = {} /\ cmd'.other = Nobody
    BY DEF NextFaction, TurnOf, Idle
<1> QED
    BY <1>1, NobodyPursued

LEMMA ResumePursues ==
    ASSUME Clock, CmdOK, Pursuit, Resume
    PROVE  Pursuit'
<1>1. Whole(cmd)
    BY DEF CmdOK, CommandOK
<1>2. UNCHANGED <<day, lastSeen>>
    BY DEF Resume, Minefield, Carried, Storm, Transit, Sweep, Engage, FleetHome,
       Gate, Hunt, Mayhem, Raid, RaidHome, FedCounter, playerVars, dayVars
<1>3. CASE Minefield
  <2>1. cmd.op = "minefield" /\ (cmd' = Idle \/ cmd' = cmd)
      BY <1>3 DEF Minefield, Detonate
  <2> QED
      BY <1>2, <2>1, IdlePursuesNobody, PursuitGoesOn
<1>4. CASE Carried
  <2>1. cmd.op = "carried" /\ (cmd' = Idle \/ \E m : cmd' = [cmd EXCEPT !.left = m])
      BY <1>4 DEF Carried, Detonate
  <2>2. \/ cmd' = Idle
        \/ cmd'.op = "carried" /\ cmd'.todo = cmd.todo /\ cmd'.other = cmd.other
      BY <1>1, <2>1 DEF Whole
  <2> QED
      BY <1>2, <2>2, IdlePursuesNobody, PursuitGoesOn
<1>5. CASE Storm
  <2>1. cmd.op = "storm" /\ (cmd' = Idle \/ \E m : cmd' = [cmd EXCEPT !.left = m])
      BY <1>5 DEF Storm, Detonate, Capture
  <2>2. \/ cmd' = Idle
        \/ cmd'.op = "storm" /\ cmd'.todo = cmd.todo /\ cmd'.other = cmd.other
      BY <1>1, <2>1 DEF Whole
  <2> QED
      BY <1>2, <2>2, IdlePursuesNobody, PursuitGoesOn
<1>6. CASE Transit
  <2>1. \/ \E fleet : MeetShips(fleet)
        \/ \E fleet, g : cmd' = [cmd EXCEPT !.op = "sweep", !.ships = fleet, !.slot = g]
      BY <1>6 DEF Transit
  <2>2. \/ \E fleet : MeetShips(fleet)
        \/ cmd'.op = "sweep" /\ cmd'.todo = cmd.todo /\ cmd'.other = cmd.other
      BY <1>1, <2>1 DEF Whole
  <2> QED
      BY <1>2, <2>2, MeetingPursues, PursuitGoesOn
<1>7. CASE Sweep
  <2>1. \/ \E fleet : MeetShips(fleet)
        \/ cmd.op = "sweep" /\ \E fleet : cmd' = [cmd EXCEPT !.ships = fleet]
      BY <1>7 DEF Sweep
  <2>2. \/ \E fleet : MeetShips(fleet)
        \/ cmd'.op = "sweep" /\ cmd'.todo = cmd.todo /\ cmd'.other = cmd.other
      BY <1>1, <2>1 DEF Whole
  <2> QED
      BY <1>2, <2>2, MeetingPursues, PursuitGoesOn
<1>8. CASE Engage
  <2>1. \E q, fleet : cmd' = MoveOn(fleet)
                      \/ (cmd.op = "engage"
                            /\ cmd' = [cmd EXCEPT !.ships = fleet, !.todo = @ \ {q}])
      BY <1>8 DEF Engage
  <2>2. cmd'.op # "idle" /\ cmd'.todo \subseteq cmd.todo /\ cmd'.other = cmd.other
    <3>1. ASSUME NEW fleet, cmd' = MoveOn(fleet)
          PROVE  cmd'.op # "idle" /\ cmd'.todo \subseteq cmd.todo /\ cmd'.other = cmd.other
        BY <1>1, <3>1, MoveOnIs
    <3>2. ASSUME NEW q, NEW fleet, cmd.op = "engage",
                 cmd' = [cmd EXCEPT !.ships = fleet, !.todo = @ \ {q}]
          PROVE  cmd'.op # "idle" /\ cmd'.todo \subseteq cmd.todo /\ cmd'.other = cmd.other
        BY <1>1, <3>2 DEF Whole
    <3> QED
        BY <2>1, <3>1, <3>2
  <2> QED
      BY <1>2, <2>2, PursuitGoesOn
<1>9. CASE FleetHome
    BY <1>9, IdlePursuesNobody DEF FleetHome
<1>10. CASE Gate
  <2>1. cmd' = NextFaction \/ \E i : cmd' = Muster(i)
      BY <1>10 DEF Gate
  <2>2. ASSUME NEW i, cmd' = Muster(i)
        PROVE  cmd'.op # "idle" /\ cmd'.todo = cmd.todo /\ cmd'.other = cmd.other
      BY <1>1, <2>2 DEF Muster, Whole
  <2> QED
      BY <1>2, <2>1, <2>2, NextFactionPursues, PursuitGoesOn
<1>11. CASE Hunt
  <2>1. PICK then : then = [cmd EXCEPT !.op = "mayhem"]
      OBVIOUS
  <2>2. Whole(then) /\ then.op = "mayhem" /\ then.todo = cmd.todo /\ then.other = cmd.other
      BY <1>1, <2>1 DEF Whole
  <2>3. cmd' = then \/ \E t \in Targets : \E n : Strike(t, n, then)
      BY <1>11, <2>1 DEF Hunt
  <2> QED
      BY <1>2, <2>2, <2>3, TargetsAreRecent, StrikePursues, PursuitGoesOn
<1>12. CASE Mayhem
  <2>1. PICK pool \in SUBSET Targets :
            cmd' = [cmd EXCEPT !.op = "raids", !.todo = pool, !.left = Raids]
      BY <1>12 DEF Mayhem
  <2>2. cmd'.op = "raids" /\ cmd'.todo = pool /\ cmd'.other = cmd.other
      BY <1>1, <2>1 DEF Whole
  <2> QED
      BY <1>2, <2>2, TargetsAreRecent, PursuitGoesOn
<1>13. CASE Raid
  <2>1. ASSUME NEW t \in cmd.todo, NEW n,
               Strike(t, n, [cmd EXCEPT !.left = @ - 1, !.todo = @ \ {t}])
        PROVE  Pursuit'
    <3>1. PICK then : then = [cmd EXCEPT !.left = @ - 1, !.todo = @ \ {t}]
        OBVIOUS
    <3>2. /\ Whole(then) /\ then.op = cmd.op /\ then.todo \subseteq cmd.todo
          /\ then.other = cmd.other
        BY <1>1, <3>1 DEF Whole
    <3>3. cmd.op = "raids" /\ t \in Players /\ Recent(t)
        BY <1>13 DEF Raid, CmdOK, CommandOK, Raiding, Exposed, Pursuit
    <3>4. Strike(t, n, then)
        BY <2>1, <3>1
    <3> QED
        BY <1>2, <3>2, <3>3, <3>4, StrikePursues
  <2>2. cmd' = NextFaction
        \/ \E t \in cmd.todo : \E n :
              Strike(t, n, [cmd EXCEPT !.left = @ - 1, !.todo = @ \ {t}])
      BY <1>13 DEF Raid
  <2> QED
      BY <2>1, <2>2, NextFactionPursues
<1>14. CASE RaidHome
  <2>1. cmd' = [cmd EXCEPT !.op = cmd.next, !.next = "idle", !.other = Nobody, !.ships = 0]
      BY <1>14 DEF RaidHome
  <2>2. cmd.next \in {"mayhem", "raids"}
      BY <1>14, NobodyIsNoPlayer DEF RaidHome, CmdOK, CommandOK, Sailing
  <2>3. cmd'.op = cmd.next /\ cmd'.todo = cmd.todo /\ cmd'.other = Nobody
      BY <1>1, <2>1 DEF Whole
  <2> QED
      BY <1>2, <2>2, <2>3, NobodyIsNoPlayer, PursuitGoesOn
<1>15. CASE FedCounter
    BY <1>15, IdlePursuesNobody DEF FedCounter
<1> QED
    BY <1>3, <1>4, <1>5, <1>6, <1>7, <1>8, <1>9, <1>10, <1>11, <1>12, <1>13, <1>14,
       <1>15 DEF Resume

\* What one command does to those who hide, and to where ships are moored.
LEMMA CommandSpares ==
    ASSUME World, Clock, Marks, CmdOK, Moored, AllFighters \in Nat,
           NEW p \in Players, PlayerCommand(p)
    PROVE  Moored' /\ Spared
<1>1. ASSUME NEW d \in Sectors, MovePlayer(p, d) PROVE Moored' /\ Spared
  <2>1. /\ SpendTurn(p) /\ UNCHANGED <<lastSeen, dayVars>>
        /\ everMoved' = [everMoved EXCEPT ![p] = TRUE]
      BY <1>1 DEF MovePlayer
  <2>2. SpentTurn(p)
      BY <2>1, TurnIsSpent
  <2>3. OnlyHits({p}, ship)
      BY <1>1, MovePlayerOK
  <2>4. Spared
      BY <2>2, <2>3, OneSpared DEF Accounted
  <2>5. Moored'
      <3>1. everMoved'[p] /\ \A q \in Players : q # p => everMoved'[q] = everMoved[q]
          BY <2>1 DEF Marks
      <3> QED
          BY <2>3, <3>1 DEF Moored, OnlyHits
  <2> QED
      BY <2>4, <2>5
<1>2. ASSUME NEW t \in Players, NEW n, AttackPlayer(p, t, n) PROVE Moored' /\ Spared
  <2>1. /\ SpendTurn(p) /\ UNCHANGED <<lastSeen, dayVars>> /\ everMoved' = everMoved
        /\ Alive(t) /\ ~Dormant(t)
      BY <1>2 DEF AttackPlayer
  <2>2. SpentTurn(p) /\ Recent(t)
      BY <2>1, TurnIsSpent, AwakeIsRecent
  <2>3. OnlyHits({p, t}, ship) /\ Exposed(p) /\ Exposed(t)
      BY <1>2, AttackPlayerOK
  <2>4. \A q \in {p, t} : Exposed(q) /\ Accounted(q)
      BY <2>2, <2>3 DEF Accounted
  <2> QED
      BY <2>1, <2>3, <2>4, SparedAre, StayMoored
<1>3. ASSUME NEW n, InvadePlanet(p, n) PROVE Moored' /\ Spared
  <2>1. SpendTurn(p) /\ UNCHANGED <<lastSeen, dayVars>> /\ everMoved' = everMoved
      BY <1>3 DEF InvadePlanet
  <2>2. Accounted(p)
      BY <2>1, TurnIsSpent DEF Accounted
  <2> QED
      BY <1>3, <2>1, <2>2, InvadePlanetOK, OneSpared, OneMoored
<1>4. ASSUME NEW s, NEW n, LaunchBattleGroup(p, s, n) PROVE Moored' /\ Spared
  <2>1. SpendTurn(p) /\ UNCHANGED <<lastSeen, dayVars>> /\ everMoved' = everMoved
      BY <1>4 DEF LaunchBattleGroup
  <2>2. Accounted(p)
      BY <2>1, TurnIsSpent DEF Accounted
  <2> QED
      BY <1>4, <2>1, <2>2, LaunchBattleGroupOK, OneSpared, StillMoored
<1>5. ASSUME NEW kind \in {"FIGHTERS", "MINES"}, NEW n \in Nat,
             AdjustBattlegroup(p, kind, n) \/ TransferSet(p, kind, n)
      PROVE  Moored' /\ Spared
  <2>1. everMoved' = everMoved
      BY <1>5 DEF AdjustBattlegroup, TransferSet, playerVars
  <2>2. Exposed(p) /\ OnlyHits({p}, ship) /\ AsMany
      BY <1>5, AdjustBattlegroupOK, TransferSetOK
  <2>3. diedAt' = diedAt
      BY <1>5 DEF AdjustBattlegroup, TransferSet, Settle, SettlePlanet
  <2> QED
      BY <2>1, <2>2, <2>3, OneSpared, OneMoored DEF Accounted
<1>6. ASSUME NEW name \in GivenNames, UseGenesisDevice(p, name) PROVE Moored' /\ Spared
  <2>1. everMoved' = everMoved
      BY <1>6 DEF UseGenesisDevice, playerVars
  <2>2. Exposed(p) /\ OnlyHits({p}, ship) /\ ~Harmed(p)
      BY <1>6, UseGenesisDeviceOK
  <2> QED
      BY <2>1, <2>2, OneSpared, OneMoored DEF Accounted
<1>7. ASSUME NEW n, BombPlanet(p, n) PROVE Moored' /\ Spared
  <2>1. SpendTurn(p) /\ UNCHANGED <<lastSeen, dayVars>> /\ everMoved' = everMoved
      BY <1>7 DEF BombPlanet
  <2>2. Accounted(p)
      BY <2>1, TurnIsSpent DEF Accounted
  <2> QED
      BY <1>7, <2>1, <2>2, BombPlanetOK, OneSpared, StillMoored
<1>8. CASE Login(p)
  <2>1. Spared
      BY <1>8, LoginHarmsNone DEF Spared
  <2>2. /\ everMoved' = everMoved
        /\ sector' = sector \/ sector' = [sector EXCEPT ![p] = 1]
      BY <1>8 DEF Login
  <2>3. ~(1 > FedMax) /\ sector \in [Players -> 0..NumSec]
      BY GalaxyAssumption DEF World, ShipsOK
  <2> QED
      BY <2>1, <2>2, <2>3 DEF Moored
<1>9. \A kind \in {"FIGHTERS", "MINES"} : \A n \in Amounts(p, kind) : n \in Nat
    BY DEF Amounts
<1> QED
    BY <1>1, <1>2, <1>3, <1>4, <1>5, <1>6, <1>7, <1>8, <1>9 DEF PlayerCommand

LEMMA ResumeSpares ==
    ASSUME World, Clock, CmdOK, Abroad, AllFighters \in Nat, Resume
    PROVE  Moored' /\ Spared
<1>1. everMoved' = everMoved /\ Moored /\ Pursuit
    BY DEF Resume, Minefield, Carried, Storm, Transit, Sweep, Engage, FleetHome,
       Gate, Hunt, Mayhem, Raid, RaidHome, FedCounter, playerVars, Abroad
<1>2. CASE Minefield
    BY <1>1, <1>2, MinefieldOK, OneSpared, OneMoored DEF Accounted
<1>3. CASE Carried
  <2>1. PICK p \in Players :
            Exposed(p) /\ OnlyHits({p}, ship) /\ (p = cmd.who \/ p = cmd.other)
      BY <1>3, CarriedOK
  <2>2. p = cmd.who \/ Recent(p)
      BY <1>1, <2>1 DEF Pursuit
  <2> QED
      BY <1>1, <2>1, <2>2, OneSpared, OneMoored DEF Accounted
<1>4. CASE Storm
    BY <1>1, <1>4, StormOK, OneSpared, OneMoored DEF Accounted
<1>5. CASE Engage
  <2>1. PICK q \in cmd.todo : Exposed(q) /\ OnlyHits({q}, ship)
      BY <1>5, EngageOK
  <2>2. Recent(q)
      BY <1>1, <2>1 DEF Pursuit, Exposed
  <2> QED
      BY <1>1, <2>1, <2>2, OneSpared, OneMoored DEF Accounted
<1>6. CASE RaidHome
  <2>1. Exposed(cmd.other) /\ OnlyHits({cmd.other}, ship)
      BY <1>6, RaidHomeOK
  <2>2. Recent(cmd.other)
      BY <1>1, <2>1 DEF Pursuit, Exposed
  <2> QED
      BY <1>1, <2>1, <2>2, OneSpared, OneMoored DEF Accounted
<1>7. CASE FleetHome
    BY <1>1, <1>7, FleetHomeOK, FleetHomeHarmsNone, StillMoored DEF Spared
<1>8. ASSUME OnlyHits({}, ship) PROVE Moored' /\ Spared
    BY <1>1, <1>8, NobodySpared, StayMoored
<1>9. CASE Transit \/ Sweep
    BY <1>8, <1>9, TransitOK, SweepOK
<1>10. CASE Gate \/ Hunt \/ Mayhem \/ Raid \/ FedCounter
    BY <1>8, <1>10, GateOK, HuntOK, MayhemOK, RaidOK, FedCounterOK
<1> QED
    BY <1>2, <1>3, <1>4, <1>5, <1>6, <1>7, <1>9, <1>10 DEF Resume

LEMMA NightSpares ==
    ASSUME World, Clock, CmdOK, Moored, AllFighters \in Nat, DayPasses \/ RunDailyMaintenance
    PROVE  Moored' /\ Spared
<1>1. CASE DayPasses
  <2>1. OnlyHits({}, ship) /\ everMoved' = everMoved
      BY <1>1, DayPassesOK DEF DayPasses, playerVars
  <2> QED
      BY <2>1, NobodySpared, StayMoored
<1>2. CASE RunDailyMaintenance
  <2>1. Spared
      BY <1>2, MaintenanceHarmsNone DEF Spared
  <2>2. PICK E \in SUBSET Players :
            sector' = [q \in Players |-> IF q \in E THEN 1 ELSE sector[q]]
      BY <1>2 DEF RunDailyMaintenance
  <2>3. everMoved' = everMoved /\ ~(1 > FedMax)
      BY <1>2, GalaxyAssumption DEF RunDailyMaintenance
  <2> QED
      BY <2>1, <2>2, <2>3 DEF Moored
<1> QED
    BY <1>1, <1>2

LEMMA StepSpares ==
    ASSUME IndInv, Abroad, [Next]_vars
    PROVE  Abroad' /\ Spared
<1>1. World /\ Clock /\ Marks /\ CmdOK /\ Moored /\ Pursuit /\ AllFighters \in Nat
    BY FightersConserved DEF IndInv, Abroad
<1>2. CASE \E p \in Players : PlayerCommand(p)
    BY <1>1, <1>2, CommandSpares, CommandPursues DEF Abroad
<1>3. CASE DayPasses \/ RunDailyMaintenance
  <2>1. cmd' = Idle \/ \E f, awake : cmd' = TurnOf(f, awake)
    <3>1. CASE DayPasses
        BY <1>1, <3>1 DEF DayPasses, Pursuit
    <3>2. CASE RunDailyMaintenance
        BY <3>2 DEF RunDailyMaintenance
    <3> QED
        BY <1>3, <3>1, <3>2
  <2>2. Pursuit'
      BY <2>1, IdlePursuesNobody, NobodyPursued DEF TurnOf, Idle
  <2> QED
      BY <1>1, <1>3, <2>2, NightSpares DEF Abroad
<1>4. CASE Resume
    BY <1>1, <1>4, ResumeSpares, ResumePursues DEF Abroad
<1>5. CASE UNCHANGED vars
  <2>1. /\ UNCHANGED <<ship, sector, diedAt, everMoved, lastSeen, day>> /\ cmd' = cmd
      BY <1>5 DEF vars, playerVars, dayVars
  <2>2. OnlyHits({}, ship)
      BY <2>1 DEF OnlyHits
  <2>3. Moored' /\ Pursuit'
      BY <1>1, <2>1 DEF Moored, Pursuit, Ready, Recent
  <2> QED
      BY <1>1, <2>2, <2>3, NobodySpared DEF Abroad
<1> QED
    BY <1>2, <1>3, <1>4, <1>5 DEF Next

-----------------------------------------------------------------------------
(* From the beginning *)

LEMMA InitOK ==
    ASSUME Init
    PROVE  IndInv
<1>1. ship \in [Players -> [Goods -> Nat]]
    BY GalaxyAssumption DEF Init
<1>2. /\ \A p \in Players : sector[p] = 1 /\ diedAt[p] = 0
      /\ sector \in [Players -> 0..NumSec] /\ diedAt \in [Players -> 0..day] /\ day = 1
    BY GalaxyAssumption DEF Init
<1>3. ShipsOK(ship, sector, diedAt, day)
    BY <1>1, <1>2 DEF ShipsOK
<1>4. VacantForce \in Battlegroup /\ VacantForce.owner = Nobody
    BY GalaxyAssumption DEF VacantForce, Battlegroup
<1>5. garrison \in [Gids -> Battlegroup] /\ \A g \in Gids : garrison[g].owner = Nobody
    BY <1>4 DEF Init
<1>6. ForcesOK(garrison, diedAt) /\ \A g \in Gids : Manned(garrison, g)
    BY <1>5, NobodyIsNoPlayer DEF ForcesOK, Manned, Present
<1>7. planet \in [Pids -> Planet] /\ \A i \in Pids : planet[i].owner = Nobody
    BY VacantPlanetIs DEF Init
<1>8. PlanetsOK(planet, diedAt)
    BY <1>7, NobodyIsNoPlayer DEF PlanetsOK, Present
<1>9. Clock
    BY GalaxyAssumption DEF Init, Clock
<1>10. Marks
    BY DEF Init, Marks
<1>11. CmdOK
    BY DEF Init, Idle, CmdOK, CommandOK, Whole
<1> QED
    BY <1>3, <1>6, <1>8, <1>9, <1>10, <1>11 DEF IndInv, World

\* The inductive invariant: the world is well formed after every step, and what
\* the command under way relies on still holds when it goes on.
THEOREM AlwaysWellFormed == Spec => []IndInv
<1>1. Init => IndInv
    BY InitOK
<1>2. IndInv /\ [Next]_vars => IndInv'
    BY StepKeeps, StutterKeeps
<1> QED
    BY <1>1, <1>2, PTL DEF Spec

LEMMA InitAbroad ==
    ASSUME Init
    PROVE  Abroad
<1>1. Moored
  <2>1. \A p \in Players : ~(sector[p] > FedMax)
      BY GalaxyAssumption DEF Init
  <2> QED
      BY <2>1 DEF Moored
<1>2. cmd = Idle
    BY DEF Init
<1>3. Pursuit
    BY <1>2, NobodyIsNoPlayer DEF Pursuit, Idle
<1> QED
    BY <1>1, <1>3 DEF Abroad

\* Nobody is out in space who has not moved (MovePlayer), and whoever a command
\* under way is after logged in less than DormantDays ago: no day passes, and
\* nobody's lastSeen changes, while the actor is in the middle of a command.
THEOREM TheHuntedAreAbroad == Spec => []Abroad
<1>1. Init => Abroad
    BY InitAbroad
<1>2. IndInv /\ Abroad /\ [Next]_vars => Abroad'
    BY StepSpares
<1> QED
    BY <1>1, <1>2, AlwaysWellFormed, PTL DEF Spec

-----------------------------------------------------------------------------
(* What follows *)

LEMMA WellFormedIsTyped == ASSUME IndInv PROVE TypeOK
<1>1. World /\ Clock /\ CmdOK
    BY DEF IndInv
<1>2. /\ ship \in [Players -> [Goods -> Nat]]
      /\ sector \in [Players -> 0..NumSec] /\ diedAt \in [Players -> 0..day]
    BY <1>1 DEF World, ShipsOK
<1>3. garrison \in [Gids -> [owner : Owners \union {Nobody}, sector : 0..NumSec,
                             FIGHTERS : Nat, MINES : Nat]]
    BY <1>1 DEF World, ForcesOK, Battlegroup
<1>4. planet \in [Pids -> [owner : Owners \union {Nobody}, sector : 0..NumSec,
                           FIGHTERS : Nat, MINES : Nat, name : PlanetNames]]
    BY <1>1 DEF World, PlanetsOK, Planet
<1>5. cmd.left \in Nat /\ cmd.ships \in Nat
    BY <1>1 DEF CmdOK, CommandOK
<1>6. everMoved \in [Players -> BOOLEAN] /\ expired \in [Players -> BOOLEAN]
    BY DEF IndInv, Marks
<1>7. day \in Nat
    BY <1>1 DEF Clock
<1> QED
    BY <1>1, <1>2, <1>3, <1>4, <1>5, <1>6, <1>7, Zenon DEF TypeOK, Clock

LEMMA WellFormedIsOnePerSector == ASSUME IndInv PROVE OnePerSector
<1>1. /\ \A g, h \in Forces : garrison[g].sector = garrison[h].sector => g = h
      /\ \A g \in Forces : garrison[g].sector > FedMax
    BY DEF IndInv, World, ForcesOK, Forces
<1>2. /\ \A i, j \in Colonies : planet[i].sector = planet[j].sector => i = j
      /\ \A i \in Colonies : planet[i].sector > FedMax
    BY DEF IndInv, World, PlanetsOK, Colonies
<1>3. \A g \in Forces : garrison[g].FIGHTERS + garrison[g].MINES > 0
  <2> SUFFICES ASSUME NEW g \in Gids, Present(garrison[g])
               PROVE  garrison[g].FIGHTERS + garrison[g].MINES > 0
      BY DEF Forces
  <2>1. garrison[g].FIGHTERS \in Nat /\ garrison[g].MINES \in Nat
      BY InWorld DEF IndInv
  <2>2. garrison[g].FIGHTERS > 0 \/ garrison[g].MINES > 0
      BY DEF IndInv, World, Manned
  <2> QED
      BY <2>1, <2>2
<1> QED
    BY <1>1, <1>2, <1>3 DEF OnePerSector

LEMMA WellFormedDeadHoldNothing == ASSUME IndInv PROVE DeadHoldNothing
<1>1. \A p \in Players : diedAt[p] = 0 <=> sector[p] # 0
    BY DEF IndInv, World, ShipsOK
<1>2. \A p \in Players, g \in Gids : garrison[g].owner = p => diedAt[p] = 0
    BY DEF IndInv, World, ForcesOK
<1>3. \A p \in Players, i \in Pids : planet[i].owner = p => diedAt[p] = 0
    BY DEF IndInv, World, PlanetsOK
<1> QED
    BY <1>1, <1>2, <1>3 DEF DeadHoldNothing, Alive

LEMMA WellFormedMines == ASSUME IndInv PROVE MinesHitWhoIsThere
BY DEF IndInv, CmdOK, CommandOK, UnderMines, Storming, BreakingUp, Exposed,
       MinesHitWhoIsThere

\* Every quantity stays a natural number, whatever is shot, mined, transferred,
\* gated or absorbed, so the clamp at zero of AdjustQuantity (base.go) never
\* hides an error; no player ever has more than a day's turns to spend, nor more
\* than a day's in reserve.
THEOREM QuantitiesStayNatural == Spec => []TypeOK
<1>1. IndInv => TypeOK
    BY WellFormedIsTyped
<1> QED
    BY <1>1, AlwaysWellFormed, PTL

\* Whatever AdjustBattlegroup, UseGenesisDevice, the death of an owner, a
\* capture or the gating of a stronghold do, a sector has one defense force and
\* one planet at most, Federation space has none, and no force is left empty.
THEOREM SectorsHoldOne == Spec => []OnePerSector
<1>1. IndInv => OnePerSector
    BY WellFormedIsOnePerSector
<1> QED
    BY <1>1, AlwaysWellFormed, PTL

\* KillPlayer, whichever battle, mine, raid or chain reaction it is called from,
\* leaves the victim off the map without forces and planets, and nothing gives
\* the dead any until ReconstructIfDue puts them back on it.
THEOREM TheDeadHoldNothing == Spec => []DeadHoldNothing
<1>1. IndInv => DeadHoldNothing
    BY WellFormedDeadHoldNothing
<1> QED
    BY <1>1, AlwaysWellFormed, PTL

\* The loops over mines in MovePlayer, InvadePlanet and detonateCarriedMines go
\* on only under a living ship in the minefield's sector, as long as there are
\* mines: an Emergency Warp or a death ends them.
THEOREM MinesAreWhereTheShipIs == Spec => []MinesHitWhoIsThere
<1>1. IndInv => MinesHitWhoIsThere
    BY WellFormedMines
<1> QED
    BY <1>1, AlwaysWellFormed, PTL

\* No attack, battle group, raid, mine or chain reaction touches a ship in
\* Federation space: it loses fighters or its life by its own pilot's turn, or
\* by repossession.
THEOREM FederationIsSafe == Spec => FedSanctuary
<1>1. IndInv /\ [Next]_vars => Sanctuary
    BY StepKeeps, StutterKeeps
<1>2. Sanctuary <=> \A p \in Players : Alive(p) /\ sector[p] <= FedMax /\ Harmed(p) =>
                                           SpentTurn(p) \/ IsExpired(p)
    BY DEF Sanctuary
<1> QED
    BY <1>1, <1>2, AlwaysWellFormed, PTL DEF Spec, FedSanctuary

\* No exchange of fire, mine, transfer, deployment, capture, strike or death makes
\* a fighter: losses are taken from what there is, what AdjustBattlegroup and
\* TransferSet move and what LaunchBattleGroup and factionStrike send out is
\* charged where it came from, and the survivors come home once.
THEOREM FightersAreConserved == Spec => NoFightersFromNothing
<1>1. IndInv /\ [Next]_vars => Conserved
    BY FightersConserved
<1>2. Conserved <=>
          (AllFighters' > AllFighters =>
              \/ \E p \in Players : ~Alive(p) /\ diedAt'[p] = 0
              \/ Ready /\ lastMaint # day /\ (cmd'.op = "gate" \/ lastMaint' = day)
              \/ cmd.op = "gate")
    BY DEF Conserved, Restocking
<1> QED
    BY <1>1, <1>2, AlwaysWellFormed, PTL DEF Spec, NoFightersFromNothing

\* The dormant, and pilots who never left dock, lose no fighters and no ship, armed
\* or not, to others: AttackPlayer's guard, shipsInSector and the factions' target lists,
\* drawn up before the raids that move and kill the others on them, leave them out.
THEOREM TheHiddenAreSafe == Spec => HiddenAreSafe
<1>1. IndInv /\ Abroad /\ [Next]_vars => Spared
    BY StepSpares
<1>2. Spared <=>
          \A p \in Players :
              Alive(p) /\ Harmed(p) /\ ~SpentTurn(p) /\ ~IsExpired(p) =>
                  /\ sector[p] > FedMax
                  /\ /\ Dormant(p) \/ ~everMoved[p]
                     /\ diedAt'[p] # diedAt[p] \/ AllFighters' < AllFighters
                     => cmd.who = p
    BY DEF Spared
<1> QED
    BY <1>1, <1>2, AlwaysWellFormed, TheHuntedAreAbroad, PTL DEF Spec, HiddenAreSafe
=============================================================================
