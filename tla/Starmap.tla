------------------------------ MODULE Starmap ------------------------------
(***************************************************************************)
(* The map: how Generate wires the sectors (init.go), how plasma devices   *)
(* rewire them (specials.go), and the route computer that autopilot,       *)
(* battle groups and faction strikes rely on (universe.go).  Generate runs *)
(* before the actor starts, a search is one command of the actor; both are *)
(* loops, and each action below is a round of one.  Ports and planets are  *)
(* no concern of the map.  Whatever rand chooses is a choice.              *)
(***************************************************************************)
EXTENDS Naturals, Sequences, FiniteSetsExt

CONSTANTS NumSec,     \* sectors (2000 in the code)
          Hub,        \* sectors 2..Hub are linked to sector 1 (9)
          Block,      \* extra links stay within a block of sectors (100)
          Links,      \* rounds of extra links (NumSec \div 2)
          Relinks,    \* rounds of relinking (250)
          DeadEnds,   \* rounds of making dead ends (NumSec \div 100)
          DeadFloor,  \* dead ends lie beyond this sector (20)
          PlasmaMax,  \* sectors 1..PlasmaMax are protected from plasma (10)
          MaxWarps,   \* warps plasma may give a sector (8)
          MaxPlasma   \* bound: plasma devices used in a behaviour

ASSUME StarmapAssumption ==
    /\ NumSec \in Nat \ {0} /\ Hub \in 1..NumSec /\ Block \in Nat \ {0}
    /\ Links \in Nat /\ Relinks \in Nat /\ DeadEnds \in Nat /\ DeadFloor \in Nat
    /\ PlasmaMax \in Nat /\ MaxWarps \in Nat /\ MaxPlasma \in Nat

Sectors == 1..NumSec
Inf == NumSec + 1     \* the largest int of the code: farther than any sector
None == 0             \* no sector

VARIABLES warps,     \* the warps, as pairs <<from, to>>
          op,        \* the loop that is running, or how a search ended, or "idle"
          left,      \* its rounds left; in "scan", the sector to look at
          marked,    \* reachable in repairConnectivity, visited in ShortestPathTo
          frontier,  \* marked, and the warps leading out not yet followed
          dist, prev,      \* distances and previous of ShortestPathTo
          from, target,    \* its arguments
          path,            \* its result, while it is put together
          plasma           \* devices used so far

searchVars == <<dist, prev, from, target, path>>
vars == <<warps, op, left, marked, frontier, searchVars, plasma>>

Neighbors(s) == {t \in Sectors : <<s, t>> \in warps}
Link(a, b) == {<<a, b>>, <<b, a>>}

Unknown == [s \in Sectors |-> Inf]
NoPrev  == [s \in Sectors |-> None]

Chain  == UNION {Link(s, s + 1) : s \in 1..(NumSec - 1)}
Spokes == UNION {Link(1, s) : s \in 2..Hub}

Init ==
    /\ warps = Chain \cup Spokes
    /\ op = "links" /\ left = Links
    /\ marked = {} /\ frontier = {} /\ plasma = 0
    /\ dist = Unknown /\ prev = NoPrev /\ from = None /\ target = None /\ path = <<>>

----------------------------------------------------------------------------
(* Generate *)

Round(l) == op = l /\ left > 0 /\ left' = left - 1 /\ UNCHANGED op
Then(l, n) == op' = l /\ left' = n
OnlyWarps == UNCHANGED <<marked, frontier, searchVars, plasma>>

ExtraLink ==
    \/ /\ Round("links")
       /\ \E a, b \in Sectors : a # b /\ a \div Block = b \div Block /\ warps' = warps \cup Link(a, b)
       /\ OnlyWarps
    \/ /\ op = "links" /\ left = 0
       /\ Then("relink", Relinks)
       /\ UNCHANGED warps /\ OnlyWarps

\* One of the first two warps of a sector is moved, at both its ends; a new end
\* that happens to be the old one leaves a warp that leads only one way.
Moved(b, c, g, h) ==
    LET new(s, t) == IF s = t THEN {} ELSE Link(s, t)
        once == (warps \ {<<b, c>>}) \cup new(b, g)
    IN (once \ {<<c, b>>}) \cup new(c, h)

FirstTwo(b) == {c \in Neighbors(b) : Cardinality({d \in Neighbors(b) : d < c}) < 2}

Relink ==
    \/ /\ Round("relink")
       /\ \E b \in Sectors :
             IF Cardinality(Neighbors(b)) < 2 THEN UNCHANGED warps
             ELSE \E c \in FirstTwo(b), g, h \in Sectors : warps' = Moved(b, c, g, h)
       /\ OnlyWarps
    \/ /\ op = "relink" /\ left = 0
       /\ Then("deadends", DeadEnds)
       /\ UNCHANGED warps /\ OnlyWarps

\* Every warp out of s goes, at both its ends, but for the one to keep.
DeadEnd(s, keep) ==
    (warps \ UNION {Link(s, t) : t \in Neighbors(s)}) \cup Link(s, keep)

MakeDeadEnds ==
    \/ /\ Round("deadends")
       /\ \E s \in (DeadFloor + 1)..NumSec :
             IF Neighbors(s) = {} THEN UNCHANGED warps
             ELSE \E keep \in Neighbors(s) : warps' = DeadEnd(s, keep)
       /\ OnlyWarps
    \/ /\ op = "deadends" /\ left = 0
       /\ Then("bfs", 2)
       /\ marked' = {1} /\ frontier' = {1}
       /\ UNCHANGED <<warps, searchVars, plasma>>

\* Deliberately wrong: a sector already marked is visited again.
Unseen_All(s) == Neighbors(s)

Unseen(s) == Neighbors(s) \ marked

\* repairConnectivity marks what it can reach, first from sector 1.  The code's
\* queue orders the visits, which makes no difference to what gets marked.
Visit ==
    /\ op = "bfs" /\ frontier # {}
    /\ \E s \in frontier :
          /\ marked' = marked \cup Neighbors(s)
          /\ frontier' = (frontier \ {s}) \cup Unseen(s)
    /\ UNCHANGED <<warps, op, left, searchVars, plasma>>

Visited ==
    /\ op = "bfs" /\ frontier = {}
    /\ op' = "scan"
    /\ UNCHANGED <<warps, left, marked, frontier, searchVars, plasma>>

\* Deliberately wrong: the warp leads out of the lost sector only.
Relinked_OneWay(s, t) == warps \cup {<<s, t>>}

Relinked(s, t) == warps \cup Link(s, t)

\* A sector not marked yet is linked to one that is, and what it leads to marked.
Scan ==
    /\ op = "scan" /\ left <= NumSec
    /\ left' = left + 1
    /\ IF left \in marked THEN UNCHANGED <<warps, op, marked, frontier>>
       ELSE /\ \E t \in marked : warps' = Relinked(left, t)
            /\ marked' = marked \cup {left} /\ frontier' = {left}
            /\ op' = "bfs"
    /\ UNCHANGED <<searchVars, plasma>>

Generated ==
    /\ op = "scan" /\ left > NumSec
    /\ Then("idle", 0)
    /\ marked' = {}
    /\ UNCHANGED <<warps, frontier, searchVars, plasma>>

Generate == ExtraLink \/ Relink \/ MakeDeadEnds \/ Visit \/ Visited \/ Scan \/ Generated

----------------------------------------------------------------------------
(* UsePlasma, wherever a ship may be: a warp is opened, or closed, both ways. *)
UsePlasma ==
    /\ op = "idle" /\ plasma < MaxPlasma
    /\ plasma' = plasma + 1
    /\ \E src, dst \in (PlasmaMax + 1)..NumSec :
          /\ src # dst
          /\ \/ /\ dst \notin Neighbors(src)
                /\ \A s \in {src, dst} : Cardinality(Neighbors(s)) < MaxWarps
                /\ warps' = warps \cup Link(src, dst)
             \/ /\ dst \in Neighbors(src)
                /\ warps' = warps \ Link(src, dst)
    /\ UNCHANGED <<op, left, marked, frontier, searchVars>>

----------------------------------------------------------------------------
(* ShortestPathTo *)

\* The search between two sectors of the map; for any other number, of a sector there
\* is not, the answer is none at once and nothing is searched: no step.
StartSearch(a, b) ==
    /\ op = "idle"
    /\ op' = "settle" /\ left' = a
    /\ from' = a /\ target' = b
    /\ dist' = [dist EXCEPT ![a] = 0]
    /\ UNCHANGED <<warps, marked, frontier, prev, path, plasma>>

\* The neighbours the current sector is a shorter way to.
Nearer(seen) == {t \in Neighbors(left) \ seen : dist[left] + 1 < dist[t]}

\* Deliberately wrong: any sector seen will do, near or far.
Closest_Any(open) == open

\* The open sectors nearest to the start; of several, the lowest.
Closest(open) ==
    {s \in open : \A t \in open : dist'[s] < dist'[t] \/ (dist'[s] = dist'[t] /\ s <= t)}

\* One round of the main loop, `left` being the current sector.
Settle ==
    /\ op = "settle" /\ left # target
    /\ marked' = marked \cup {left}
    /\ LET N == Nearer(marked') IN
       /\ dist' = [s \in Sectors |-> IF s \in N THEN dist[left] + 1 ELSE dist[s]]
       /\ prev' = [s \in Sectors |-> IF s \in N THEN left ELSE prev[s]]
    /\ LET open == {s \in Sectors \ marked' : dist'[s] < Inf} IN
       IF open = {} THEN Then("noroute", 0)
       ELSE left' \in Closest(open) /\ UNCHANGED op
    /\ UNCHANGED <<warps, frontier, from, target, path, plasma>>

Arrived ==
    /\ op = "settle" /\ left = target
    /\ op' = "walk"
    /\ UNCHANGED <<warps, left, marked, frontier, searchVars, plasma>>

\* The path is put together from its end.
WalkBack ==
    /\ op = "walk"
    /\ path' = <<left>> \o path
    /\ IF left = from THEN Then("found", 0) ELSE left' = prev[left] /\ UNCHANGED op
    /\ UNCHANGED <<warps, marked, frontier, dist, prev, from, target, plasma>>

\* The caller has its answer.
Answered ==
    /\ op \in {"found", "noroute"}
    /\ Then("idle", 0)
    /\ marked' = {}
    /\ dist' = Unknown /\ prev' = NoPrev /\ from' = None /\ target' = None /\ path' = <<>>
    /\ UNCHANGED <<warps, frontier, plasma>>

ShortestPathTo == Settle \/ Arrived \/ WalkBack \/ Answered

Next ==
    \/ Generate \/ UsePlasma \/ ShortestPathTo
    \/ \E a, b \in Sectors : StartSearch(a, b)

Spec == Init /\ [][Next]_vars

\* A loop that has begun goes on.
FairSpec == Spec /\ WF_vars(Generate \/ ShortestPathTo)
----------------------------------------------------------------------------
(* PROPERTIES *)

Building == {"links", "relink", "deadends", "bfs", "scan"}

\* Types; no sector has a warp to itself, however links are moved about.
TypeOK ==
    /\ warps \subseteq Sectors \X Sectors
    /\ \A s \in Sectors : <<s, s>> \notin warps
    /\ op \in Building \cup {"idle", "settle", "walk", "found", "noroute"}
    /\ left \in Nat /\ plasma \in 0..MaxPlasma
    /\ marked \subseteq Sectors /\ frontier \subseteq marked
    /\ dist \in [Sectors -> 0..Inf] /\ prev \in [Sectors -> Sectors \cup {None}]
    /\ from \in Sectors \cup {None} /\ target \in Sectors \cup {None}
    /\ path \in Seq(Sectors)

\* A set of sectors no warp leads out of.
Closed(R) == \A s \in R : Neighbors(s) \subseteq R

\* The sectors reachable from a: the least such set with a in it.
Reach(a) == {s \in Sectors : \A R \in SUBSET Sectors : a \in R /\ Closed(R) => s \in R}

\* init.go: Generate promises that "every sector is reachable from sector 1",
\* whatever its random links, moved links and dead ends did before the repair.
EverySectorReachable ==
    plasma = 0 /\ op \notin Building => Reach(1) = Sectors

\* How far there is to go from a: the sectors within n warps, for every n.
Within(a) ==
    LET ball[n \in 0..NumSec] ==
            IF n = 0 THEN {a}
            ELSE ball[n - 1] \cup UNION {Neighbors(s) : s \in ball[n - 1]}
    IN ball
Distance(a, b) == Min({n \in 0..NumSec : b \in Within(a)[n]})

\* The route computer: a route is found exactly if there is one, it follows the
\* warps from the start to the target, and no route is shorter (this is what
\* module Galaxy assumes of ShortestPaths).
RouteIsWalk ==
    op = "found" =>
        /\ Len(path) > 0 /\ path[1] = from /\ path[Len(path)] = target
        /\ \A k \in 1..(Len(path) - 1) : <<path[k], path[k + 1]>> \in warps
RouteIsShortest ==
    /\ RouteIsWalk
    /\ op = "found" => Len(path) - 1 = Distance(from, target)
    /\ op = "noroute" => target \notin Reach(from)

\* Generation ends, and so does every search, whatever was cut.
LoopsEnd == []<>(op = "idle")
=============================================================================
