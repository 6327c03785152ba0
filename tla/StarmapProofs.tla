--------------------------- MODULE StarmapProofs ---------------------------
(***************************************************************************)
(* Theorems about the map, for any number of sectors, links, moves and     *)
(* dead ends: the repair reaches every sector, and what ShortestPathTo     *)
(* returns is a shortest walk along the warps from start to target.        *)
(***************************************************************************)
EXTENDS Starmap, TLAPS, FiniteSetTheorems

Searching == {"settle", "walk"}

\* What is marked can be reached, the sectors before the one being looked at are
\* marked, and every warp out of a marked sector leads to a marked one or is
\* still to be followed.
RepairInv ==
    /\ op \in {"bfs", "scan"} =>
          /\ 1 \in marked /\ marked \subseteq Reach(1)
          /\ \A s \in marked \ frontier : Neighbors(s) \subseteq marked
          /\ left \in 2..(NumSec + 1)
          /\ \A s \in Sectors : s < left => s \in marked
    /\ op # "bfs" => frontier = {}

\* A search goes from a sector to a sector; of every sector at a known distance
\* the previous one is a neighbour at a known distance.
SearchInv ==
    /\ op \in Searching =>
          /\ from \in Sectors /\ target \in Sectors /\ left \in Sectors
          /\ dist[left] < Inf /\ dist[from] = 0
          /\ \A s \in Sectors : s # from /\ dist[s] < Inf =>
                prev[s] \in Sectors /\ <<prev[s], s>> \in warps /\ dist[prev[s]] < Inf
    /\ op \notin Searching \cup {"found", "noroute"} => dist = Unknown /\ prev = NoPrev
    /\ op \notin {"walk", "found"} => path = <<>>

\* The path so far leads from a neighbour of the current sector to the target.
WalkInv ==
    op = "walk" =>
        /\ path = <<>> => left = target
        /\ path # <<>> => <<left, path[1]>> \in warps /\ path[Len(path)] = target
        /\ \A k \in 1..(Len(path) - 1) : <<path[k], path[k + 1]>> \in warps

IndInv == TypeOK /\ RepairInv /\ EverySectorReachable /\ SearchInv /\ WalkInv /\ RouteIsWalk
----------------------------------------------------------------------------
(* Reachability. *)

\* What can be reached leads to nothing that cannot.
LEMMA ReachClosed ==
    ASSUME NEW a \in Sectors
    PROVE  /\ a \in Reach(a) /\ Reach(a) \subseteq Sectors
           /\ \A s \in Reach(a) : Neighbors(s) \subseteq Reach(a)
  BY DEF Reach, Closed, Neighbors

\* The same of the next state.
LEMMA ReachClosedNext ==
    ASSUME NEW a \in Sectors
    PROVE  /\ a \in Reach(a)' /\ Reach(a)' \subseteq Sectors
           /\ \A s \in Reach(a)' : Neighbors(s)' \subseteq Reach(a)'
  BY DEF Reach, Closed, Neighbors

\* More warps, more to reach.
LEMMA ReachGrows ==
    ASSUME NEW a \in Sectors, warps \subseteq warps'
    PROVE  Reach(a) \subseteq Reach(a)'
  <1>1. \A R : Closed(R)' => Closed(R)
    BY DEF Closed, Neighbors
  <1> QED
    BY <1>1 DEF Reach

LEMMA OneIsASector == 1 \in Sectors /\ Sectors \subseteq Nat /\ None \notin Sectors
  BY StarmapAssumption DEF Sectors, None
----------------------------------------------------------------------------
(* Types. *)

WarpsOK == warps \subseteq Sectors \X Sectors /\ \A s \in Sectors : <<s, s>> \notin warps

LEMMA LinkTyped ==
    ASSUME NEW a \in Sectors, NEW b \in Sectors, a # b
    PROVE  Link(a, b) \subseteq Sectors \X Sectors /\ \A s \in Sectors : <<s, s>> \notin Link(a, b)
  BY DEF Link

LEMMA WarpsInit == Init => WarpsOK
  <1> SUFFICES ASSUME Init PROVE WarpsOK
    OBVIOUS
  <1>1. \A s \in 1..(NumSec - 1) : s \in Sectors /\ s + 1 \in Sectors /\ s # s + 1
    BY StarmapAssumption DEF Sectors
  <1>2. \A s \in 2..Hub : 1 \in Sectors /\ s \in Sectors /\ 1 # s
    BY StarmapAssumption DEF Sectors
  <1>3. \A w \in warps : \E a, b \in Sectors : a # b /\ w \in Link(a, b)
    <2> SUFFICES ASSUME NEW w \in warps PROVE \E a, b \in Sectors : a # b /\ w \in Link(a, b)
      OBVIOUS
    <2>1. w \in Chain => \E s \in 1..(NumSec - 1) : w \in Link(s, s + 1)
      BY DEF Chain
    <2>2. w \in Spokes => \E s \in 2..Hub : w \in Link(1, s)
      BY DEF Spokes
    <2>3. warps = Chain \cup Spokes
      BY DEF Init
    <2> QED
      BY <1>1, <1>2, <2>1, <2>2, <2>3
  <1> QED
    BY <1>3, LinkTyped DEF WarpsOK

LEMMA WarpsNext == IndInv /\ [Next]_vars => WarpsOK'
  <1> SUFFICES ASSUME IndInv, [Next]_vars PROVE WarpsOK'
    OBVIOUS
  <1> USE DEF WarpsOK
  <1>0. WarpsOK /\ frontier \subseteq Sectors
    BY DEF IndInv, TypeOK
  <1>1. CASE ExtraLink
    BY <1>1, <1>0, LinkTyped DEF ExtraLink
  <1>2. CASE Relink
    <2>1. ASSUME NEW b \in Sectors, NEW c \in Neighbors(b), NEW g \in Sectors, NEW h \in Sectors
          PROVE  Moved(b, c, g, h) \subseteq Sectors \X Sectors
                 /\ \A s \in Sectors : <<s, s>> \notin Moved(b, c, g, h)
      <3>1. c \in Sectors
        BY DEF Neighbors
      <3> QED
        BY <1>0, <3>1, LinkTyped DEF Moved
    <2>2. UNCHANGED warps \/ \E b \in Sectors : \E c \in Neighbors(b), g, h \in Sectors : warps' = Moved(b, c, g, h)
      BY <1>2 DEF Relink, FirstTwo
    <2> QED
      BY <1>0, <2>1, <2>2
  <1>3. CASE MakeDeadEnds
    <2>1. ASSUME NEW s \in Sectors, NEW keep \in Neighbors(s)
          PROVE  DeadEnd(s, keep) \subseteq Sectors \X Sectors
                 /\ \A t \in Sectors : <<t, t>> \notin DeadEnd(s, keep)
      <3>1. keep \in Sectors /\ keep # s
        BY <1>0 DEF Neighbors
      <3> QED
        BY <1>0, <3>1, LinkTyped DEF DeadEnd
    <2>2. (DeadFloor + 1)..NumSec \subseteq Sectors
      BY StarmapAssumption DEF Sectors
    <2>3. UNCHANGED warps \/ \E s \in Sectors : \E keep \in Neighbors(s) : warps' = DeadEnd(s, keep)
      BY <1>3, <2>2 DEF MakeDeadEnds
    <2> QED
      BY <1>0, <2>1, <2>3
  <1>4. CASE Scan
    <2>1. UNCHANGED warps \/ \E t \in marked : left \notin marked /\ warps' = Relinked(left, t)
      BY <1>4 DEF Scan
    <2>2. left \in Sectors /\ marked \subseteq Sectors
      BY <1>4, StarmapAssumption DEF Scan, IndInv, TypeOK, RepairInv, Sectors
    <2> QED
      BY <1>0, <2>1, <2>2, LinkTyped DEF Relinked
  <1>5. CASE UsePlasma
    <2>1. (PlasmaMax + 1)..NumSec \subseteq Sectors
      BY StarmapAssumption DEF Sectors
    <2>2. \E src, dst \in Sectors : src # dst /\ (warps' = warps \cup Link(src, dst) \/ warps' = warps \ Link(src, dst))
      BY <1>5, <2>1 DEF UsePlasma
    <2> QED
      BY <1>0, <2>2, LinkTyped
  <1>6. CASE UNCHANGED warps
    BY <1>0, <1>6
  <1> QED
    BY <1>1, <1>2, <1>3, <1>4, <1>5, <1>6
       DEF Next, Generate, ShortestPathTo, Visit, Visited, Generated, StartSearch, Settle, Arrived,
           WalkBack, Answered, vars

\* The state of the loops; the warps have been typed above.
LoopsOK ==
    /\ op \in Building \cup {"idle", "settle", "walk", "found", "noroute"}
    /\ left \in Nat /\ plasma \in 0..MaxPlasma
    /\ marked \subseteq Sectors /\ frontier \subseteq marked

FoundOK ==
    /\ dist \in [Sectors -> 0..Inf] /\ prev \in [Sectors -> Sectors \cup {None}]
    /\ from \in Sectors \cup {None} /\ target \in Sectors \cup {None}
    /\ path \in Seq(Sectors)

LEMMA TypeInit == Init => TypeOK
  <1> SUFFICES ASSUME Init PROVE TypeOK
    OBVIOUS
  <1>1. Unknown \in [Sectors -> 0..Inf] /\ NoPrev \in [Sectors -> Sectors \cup {None}]
    BY StarmapAssumption DEF Unknown, NoPrev, Inf, Sectors
  <1>2. Init!2 /\ Init!3 /\ Init!4 /\ WarpsOK
    BY WarpsInit DEF Init
  <1> QED
    BY <1>1, <1>2, StarmapAssumption DEF TypeOK, Building, WarpsOK

LEMMA LoopsNext == IndInv /\ [Next]_vars => LoopsOK'
  <1> SUFFICES ASSUME IndInv, [Next]_vars PROVE LoopsOK'
    OBVIOUS
  <1>0. LoopsOK /\ (\A s \in Sectors : Neighbors(s) \subseteq Sectors)
    BY DEF IndInv, TypeOK, LoopsOK, Neighbors
  <1> USE StarmapAssumption, <1>0 DEF LoopsOK, Building
  <1>1. CASE ExtraLink
    BY <1>1 DEF ExtraLink, Round, Then, OnlyWarps
  <1>2. CASE Relink
    BY <1>2 DEF Relink, Round, Then, OnlyWarps
  <1>3. CASE MakeDeadEnds
    <2>1. CASE op' = "bfs"
      BY <1>3, <2>1, OneIsASector DEF MakeDeadEnds, Then, Round
    <2>2. CASE op' # "bfs"
      BY <1>3, <2>2 DEF MakeDeadEnds, Then, Round, OnlyWarps
    <2> QED
      BY <2>1, <2>2
  <1>4. CASE Visit
    BY <1>4 DEF Visit, Unseen
  <1>5. CASE Visited
    BY <1>5 DEF Visited
  <1>6. CASE Scan
    <2>1. left \in Sectors
      BY <1>6 DEF Scan, IndInv, RepairInv, Sectors
    <2>2. frontier = {} /\ left' = left + 1 /\ plasma' = plasma
      BY <1>6 DEF Scan, IndInv, RepairInv
    <2>3. UNCHANGED <<op, marked, frontier>>
          \/ (marked' = marked \cup {left} /\ frontier' = {left} /\ op' = "bfs")
      BY <1>6 DEF Scan
    <2>4. left' \in Nat /\ plasma' \in 0..MaxPlasma
      BY <2>1, <2>2
    <2>5. CASE UNCHANGED <<op, marked, frontier>>
      BY <2>4, <2>5
    <2>6. CASE marked' = marked \cup {left} /\ frontier' = {left} /\ op' = "bfs"
      BY <2>1, <2>4, <2>6
    <2> QED
      BY <2>3, <2>5, <2>6
  <1>7. CASE Generated
    BY <1>7 DEF Generated, Then, IndInv, RepairInv
  <1>8. CASE UsePlasma
    BY <1>8 DEF UsePlasma
  <1>9. CASE \E a, b \in Sectors : StartSearch(a, b)
    BY <1>9, OneIsASector DEF StartSearch
  <1>10. CASE Settle
    <2>1. left \in Sectors /\ Sectors \subseteq Nat
      BY <1>10, OneIsASector DEF Settle, IndInv, SearchInv, Searching
    <2>2. left' \in Nat /\ op' \in {"settle", "noroute"}
      <3> DEFINE open == {s \in Sectors \ marked' : dist'[s] < Inf}
      <3>1. Then("noroute", 0) \/ (left' \in Closest(open) /\ op' = op)
        BY <1>10 DEF Settle
      <3>2. Closest(open) \subseteq Nat
        BY <2>1 DEF Closest
      <3>3. op = "settle"
        BY <1>10 DEF Settle
      <3> HIDE DEF open
      <3> QED
        BY <3>1, <3>2, <3>3 DEF Then
    <2> QED
      BY <1>10, <2>1, <2>2 DEF Settle
  <1>11. CASE Arrived
    BY <1>11 DEF Arrived
  <1>12. CASE WalkBack
    <2>1. prev[left] \in Sectors \/ left = from
      BY <1>12 DEF WalkBack, IndInv, SearchInv, Searching
    <2>2. left' \in Nat /\ op' \in {"walk", "found"}
      <3>1. op = "walk" /\ (Then("found", 0) \/ (left # from /\ left' = prev[left] /\ op' = op))
        BY <1>12 DEF WalkBack
      <3>2. prev[left] \in Nat \/ left = from
        BY <2>1, OneIsASector
      <3> QED
        BY <3>1, <3>2 DEF Then
    <2> QED
      BY <1>12, <2>2 DEF WalkBack
  <1>13. CASE Answered
    BY <1>13 DEF Answered, Then, IndInv, RepairInv
  <1>14. CASE UNCHANGED vars
    BY <1>14 DEF vars
  <1> QED
    BY <1>1, <1>2, <1>3, <1>4, <1>5, <1>6, <1>7, <1>8, <1>9, <1>10, <1>11, <1>12, <1>13, <1>14
       DEF Next, Generate, ShortestPathTo

LEMMA FoundNext == IndInv /\ [Next]_vars => FoundOK'
  <1> SUFFICES ASSUME IndInv, [Next]_vars PROVE FoundOK'
    OBVIOUS
  <1>0. FoundOK
    BY DEF IndInv, TypeOK, FoundOK
  <1> USE StarmapAssumption, <1>0 DEF FoundOK
  <1>1. CASE \E a, b \in Sectors : StartSearch(a, b)
    BY <1>1 DEF StartSearch, Inf
  <1>2. CASE Settle
    <2>1. left \in Sectors /\ dist[left] < Inf
      BY <1>2 DEF Settle, IndInv, SearchInv, Searching
    <2>2. dist' = [s \in Sectors |-> IF s \in Nearer(marked') THEN dist[left] + 1 ELSE dist[s]]
      BY <1>2 DEF Settle
    <2>3. dist[left] + 1 \in 0..Inf
      BY <2>1 DEF Inf
    <2>4. dist' \in [Sectors -> 0..Inf]
      BY <2>2, <2>3
    <2>5. prev' \in [Sectors -> Sectors \cup {None}]
      BY <1>2, <2>1 DEF Settle
    <2> QED
      BY <1>2, <2>4, <2>5 DEF Settle
  <1>3. CASE WalkBack
    <2>1. left \in Sectors
      BY <1>3 DEF WalkBack, IndInv, SearchInv, Searching
    <2> QED
      BY <1>3, <2>1 DEF WalkBack
  <1>4. CASE Answered
    BY <1>4 DEF Answered, Unknown, NoPrev, Inf
  <1>5. CASE UNCHANGED searchVars
    BY <1>5 DEF searchVars
  <1> QED
    BY <1>1, <1>2, <1>3, <1>4, <1>5
       DEF Next, Generate, ShortestPathTo, ExtraLink, Relink, MakeDeadEnds, OnlyWarps, Visit, Visited, Scan,
           Generated, UsePlasma, Arrived, vars

LEMMA TypeNext == IndInv /\ [Next]_vars => TypeOK'
  BY WarpsNext, LoopsNext, FoundNext DEF TypeOK, WarpsOK, LoopsOK, FoundOK
----------------------------------------------------------------------------
(* The repair. *)

LEMMA RepairInit == Init => RepairInv /\ EverySectorReachable
  BY DEF Init, RepairInv, EverySectorReachable, Building

LEMMA RepairNext == IndInv /\ [Next]_vars => RepairInv'
  <1> SUFFICES ASSUME IndInv, [Next]_vars PROVE RepairInv'
    OBVIOUS
  <1> USE DEF RepairInv
  <1>0. RepairInv /\ marked \subseteq Sectors /\ frontier \subseteq marked /\ 1 \in Sectors
    BY OneIsASector DEF IndInv, TypeOK
  <1>1. CASE ExtraLink \/ Relink
    BY <1>0, <1>1 DEF ExtraLink, Relink, Round, Then, OnlyWarps
  <1>2. CASE MakeDeadEnds
    <2>1. CASE op' = "bfs"
      <3>1. op = "deadends" /\ Then("bfs", 2) /\ marked' = {1} /\ frontier' = {1}
        BY <1>2, <2>1 DEF MakeDeadEnds, Round
      <3>2. 1 \in Reach(1)'
        BY <1>0, ReachClosedNext
      <3>3. 2 \in 2..(NumSec + 1) /\ \A s \in Sectors : s < 2 => s = 1
        BY StarmapAssumption DEF Sectors
      <3> QED
        BY <3>1, <3>2, <3>3 DEF Then
    <2>2. CASE op' # "bfs"
      BY <1>0, <1>2, <2>2 DEF MakeDeadEnds, Round, Then, OnlyWarps
    <2> QED
      BY <2>1, <2>2
  <1>3. CASE Visit
    <2> PICK s \in frontier : marked' = marked \cup Neighbors(s)
                              /\ frontier' = (frontier \ {s}) \cup Unseen(s)
      BY <1>3 DEF Visit
    <2>1. op = "bfs" /\ op' = op /\ left' = left /\ warps' = warps
      BY <1>3 DEF Visit
    <2>2. Neighbors(s) \subseteq Reach(1) /\ Reach(1) \subseteq Reach(1)'
      BY <1>0, <2>1, ReachClosed, ReachGrows
    <2>3. \A t \in marked' \ frontier' : Neighbors(t) \subseteq marked'
      BY <1>0, <2>1 DEF Unseen
    <2>4. \A t : Neighbors(t)' = Neighbors(t)
      BY <2>1 DEF Neighbors
    <2> QED
      BY <1>0, <2>1, <2>2, <2>3, <2>4
  <1>4. CASE Visited
    <2>1. warps' = warps /\ op = "bfs" /\ op' = "scan" /\ frontier = {}
          /\ left' = left /\ marked' = marked /\ frontier' = frontier
      BY <1>4 DEF Visited
    <2>2. Reach(1) \subseteq Reach(1)' /\ \A t : Neighbors(t)' = Neighbors(t)
      BY <1>0, <2>1, ReachGrows DEF Neighbors
    <2> QED
      BY <1>0, <2>1, <2>2
  <1>5. CASE Scan
    <2>1. op = "scan" /\ frontier = {} /\ left \in Sectors /\ left' = left + 1 /\ left' \in 2..(NumSec + 1)
      BY <1>0, <1>5, StarmapAssumption DEF Scan, Sectors
    <2>2. left \in marked' /\ marked \subseteq marked'
      BY <1>5 DEF Scan
    <2>3. \A s \in Sectors : s < left' => s \in marked'
      <3>1. \A s \in Sectors : s < left' => s < left \/ s = left
        BY <2>1, OneIsASector
      <3> QED
        BY <1>0, <2>1, <2>2, <3>1
    <2>4. CASE left \in marked
      <3>1. UNCHANGED <<warps, op, marked, frontier>>
        BY <1>5, <2>4 DEF Scan
      <3>2. Reach(1) \subseteq Reach(1)' /\ \A t : Neighbors(t)' = Neighbors(t)
        BY <1>0, <3>1, ReachGrows DEF Neighbors
      <3> QED
        BY <1>0, <2>1, <2>3, <3>1, <3>2
    <2>5. CASE left \notin marked
      <3>1. PICK t \in marked : warps' = Relinked(left, t)
        BY <1>5, <2>5 DEF Scan
      <3>2. marked' = marked \cup {left} /\ frontier' = {left} /\ op' = "bfs"
        BY <1>5, <2>5 DEF Scan
      <3>3. warps \subseteq warps' /\ left \in Neighbors(t)'
            /\ \A s : s # left => Neighbors(s)' \subseteq Neighbors(s) \cup {left}
        BY <2>1, <3>1 DEF Relinked, Link, Neighbors
      <3>4. marked' \subseteq Reach(1)'
        BY <1>0, <2>1, <3>2, <3>3, ReachGrows, ReachClosedNext
      <3>5. \A s \in marked' \ frontier' : Neighbors(s)' \subseteq marked'
        BY <1>0, <2>1, <3>2, <3>3
      <3> QED
        BY <1>0, <2>1, <2>3, <3>2, <3>4, <3>5
    <2> QED
      BY <2>4, <2>5
  <1>6. CASE op' \notin {"bfs", "scan"} /\ op # "bfs" /\ frontier' = frontier
    BY <1>0, <1>6
  <1>7. CASE UNCHANGED vars
    <2>1. Reach(1) \subseteq Reach(1)' /\ \A t : Neighbors(t)' = Neighbors(t)
      BY <1>0, <1>7, ReachGrows DEF Neighbors, vars
    <2> QED
      BY <1>0, <1>7, <2>1 DEF vars
  <1>8. Generated \/ UsePlasma \/ ShortestPathTo \/ (\E a, b \in Sectors : StartSearch(a, b))
        => op' \notin {"bfs", "scan"} /\ op # "bfs" /\ frontier' = frontier
    BY DEF Generated, UsePlasma, ShortestPathTo, StartSearch, Settle, Arrived, WalkBack, Answered, Then
  <1> QED
    BY <1>1, <1>2, <1>3, <1>4, <1>5, <1>6, <1>7, <1>8 DEF Next, Generate

LEMMA ReachableNext == IndInv /\ [Next]_vars => EverySectorReachable'
  <1> SUFFICES ASSUME IndInv, Next \/ UNCHANGED vars, plasma' = 0, op' \notin Building
               PROVE  Reach(1)' = Sectors
    BY DEF EverySectorReachable, Sectors
  <1> USE DEF Building
  <1>1. CASE Generated
    <2>1. Sectors \subseteq marked /\ marked \subseteq Reach(1) /\ warps' = warps
      BY <1>1, StarmapAssumption DEF Generated, IndInv, RepairInv, Sectors
    <2> QED
      BY <2>1, OneIsASector, ReachGrows, ReachClosedNext
  <1>2. CASE op \notin Building /\ plasma = 0 /\ warps' = warps
    BY <1>2, OneIsASector, ReachGrows, ReachClosedNext DEF IndInv, EverySectorReachable
  <1>3. ~UsePlasma
    BY DEF UsePlasma, IndInv, TypeOK
  <1>4. ~(ExtraLink \/ Relink \/ MakeDeadEnds \/ Visit \/ Visited \/ Scan)
    BY DEF ExtraLink, Relink, MakeDeadEnds, Visit, Visited, Scan, Round, Then
  <1>5. ShortestPathTo \/ (\E a, b \in Sectors : StartSearch(a, b)) \/ UNCHANGED vars
        => op \notin Building /\ plasma = 0 /\ warps' = warps
    BY DEF ShortestPathTo, StartSearch, Settle, Arrived, WalkBack, Answered, vars, searchVars
  <1> QED
    BY <1>1, <1>2, <1>3, <1>4, <1>5 DEF Next, Generate
----------------------------------------------------------------------------
(* The search. *)

LEMMA SearchInit == Init => SearchInv /\ WalkInv /\ RouteIsWalk
  BY DEF Init, SearchInv, Searching, WalkInv, RouteIsWalk

LEMMA SearchNext == IndInv /\ [Next]_vars => SearchInv'
  <1> SUFFICES ASSUME IndInv, [Next]_vars PROVE SearchInv'
    OBVIOUS
  <1> USE DEF SearchInv, Searching
  <1>0. SearchInv /\ FoundOK /\ Sectors \subseteq Nat /\ NumSec \in Nat
    BY OneIsASector, StarmapAssumption DEF IndInv, TypeOK, FoundOK
  <1>1. CASE \E a, b \in Sectors : StartSearch(a, b)
    <2> PICK a \in Sectors, b \in Sectors : StartSearch(a, b)
      BY <1>1
    <2>1. op = "idle" /\ op' = "settle" /\ left' = a /\ from' = a /\ target' = b
          /\ dist' = [dist EXCEPT ![a] = 0] /\ path' = path
      BY DEF StartSearch, searchVars
    <2>2. dist = Unknown
      BY <1>0, <2>1
    <2>3. \A s \in Sectors : dist'[s] = IF s = a THEN 0 ELSE Inf
      BY <2>1, <2>2 DEF Unknown
    <2>4. 0 < Inf /\ ~(Inf < Inf)
      BY <1>0 DEF Inf
    <2> QED
      BY <1>0, <2>1, <2>3, <2>4
  <1>2. CASE Settle
    <2> DEFINE N == Nearer(marked')
    <2>1. op = "settle" /\ left \in Sectors /\ from \in Sectors /\ dist[left] < Inf /\ dist[from] = 0
          /\ left \in marked' /\ UNCHANGED <<from, target, path>>
      BY <1>0, <1>2 DEF Settle
    <2>2. dist' = [s \in Sectors |-> IF s \in N THEN dist[left] + 1 ELSE dist[s]]
          /\ prev' = [s \in Sectors |-> IF s \in N THEN left ELSE prev[s]] /\ warps' = warps
      BY <1>2 DEF Settle
    <2>3. dist \in [Sectors -> 0..Inf] /\ Inf \in Nat
      BY <1>0 DEF FoundOK, Inf
    <2>4. left \notin N /\ (\A t \in N : t \in Sectors /\ <<left, t>> \in warps /\ dist[left] + 1 < dist[t])
      BY <2>1 DEF Nearer, Neighbors
    <2> HIDE DEF N
    <2>5. \A s \in Sectors : dist'[s] \in 0..Inf /\ (dist'[s] < Inf <=> dist[s] < Inf \/ s \in N)
                             /\ (dist[s] = 0 => dist'[s] = 0)
      <3> SUFFICES ASSUME NEW s \in Sectors
                   PROVE  dist'[s] \in 0..Inf /\ (dist'[s] < Inf <=> dist[s] < Inf \/ s \in N)
                          /\ (dist[s] = 0 => dist'[s] = 0)
        OBVIOUS
      <3>1. dist[s] \in Nat /\ dist[s] <= Inf /\ dist[left] \in Nat
        BY <2>1, <2>3
      <3>2. CASE s \in N
        <4>1. dist'[s] = dist[left] + 1 /\ dist[left] + 1 < dist[s]
          BY <2>2, <2>4, <3>2
        <4> QED
          BY <2>3, <3>1, <3>2, <4>1
      <3>3. CASE s \notin N
        BY <2>2, <2>3, <3>1, <3>3
      <3> QED
        BY <3>2, <3>3
    <2>6. ASSUME NEW s \in Sectors, s # from, dist'[s] < Inf
          PROVE  prev'[s] \in Sectors /\ <<prev'[s], s>> \in warps' /\ dist'[prev'[s]] < Inf
      BY <1>0, <2>1, <2>2, <2>4, <2>5, <2>6
    <2>7. CASE op' = "noroute"
      BY <1>0, <2>1, <2>7
    <2>8. CASE op' # "noroute"
      <3> DEFINE open == {s \in Sectors \ marked' : dist'[s] < Inf}
      <3>1. left' \in Closest(open) /\ op' = op
        BY <1>2, <2>8 DEF Settle, Then
      <3>2. left' \in Sectors /\ dist'[left'] < Inf
        BY <3>1 DEF Closest
      <3> QED
        BY <1>0, <2>1, <2>5, <2>6, <3>1, <3>2
    <2> QED
      BY <2>7, <2>8
  <1>3. CASE Arrived
    BY <1>0, <1>3 DEF Arrived, searchVars
  <1>4. CASE WalkBack
    <2>1. op = "walk" /\ UNCHANGED <<warps, dist, prev, from, target>>
          /\ (Then("found", 0) \/ (left # from /\ left' = prev[left] /\ op' = op))
      BY <1>4 DEF WalkBack
    <2> QED
      BY <1>0, <2>1 DEF Then
  <1>5. CASE Answered
    BY <1>5 DEF Answered, Then
  <1>6. CASE op \notin Searching /\ UNCHANGED searchVars
             /\ (op' = op \/ (op' \notin Searching /\ op \notin {"found", "noroute"}))
    BY <1>0, <1>6 DEF searchVars
  <1>7. CASE UNCHANGED vars
    BY <1>0, <1>7 DEF vars, searchVars
  <1>8. Generate \/ UsePlasma => op \notin Searching /\ UNCHANGED searchVars
             /\ (op' = op \/ (op' \notin Searching /\ op \notin {"found", "noroute"}))
    BY DEF Generate, ExtraLink, Relink, MakeDeadEnds, Round, Then, OnlyWarps, Visit, Visited, Scan,
           Generated, UsePlasma
  <1> QED
    BY <1>1, <1>2, <1>3, <1>4, <1>5, <1>6, <1>7, <1>8 DEF Next, ShortestPathTo

\* One more sector in front of the path.
LEMMA Longer ==
    ASSUME NEW s \in Sectors, path \in Seq(Sectors), path' = <<s>> \o path
    PROVE  /\ Len(path') = Len(path) + 1 /\ Len(path) \in Nat
           /\ path'[1] = s /\ \A k \in 1..Len(path) : path'[k + 1] = path[k]
  OBVIOUS

LEMMA WalkNext == IndInv /\ [Next]_vars => WalkInv' /\ RouteIsWalk'
  <1> SUFFICES ASSUME IndInv, [Next]_vars PROVE WalkInv' /\ RouteIsWalk'
    OBVIOUS
  <1>0. WalkInv /\ RouteIsWalk /\ path \in Seq(Sectors)
    BY DEF IndInv, TypeOK
  <1>1. CASE Arrived
    BY <1>1 DEF Arrived, searchVars, IndInv, SearchInv, WalkInv, RouteIsWalk
  <1>2. CASE WalkBack
    <2>1. op = "walk" /\ path' = <<left>> \o path /\ UNCHANGED <<warps, prev, from, target>>
      BY <1>2 DEF WalkBack
    <2>2. left \in Sectors /\ (left # from => <<prev[left], left>> \in warps)
      BY <2>1 DEF IndInv, SearchInv, Searching
    <2>3. /\ Len(path') = Len(path) + 1 /\ Len(path) \in Nat
          /\ path'[1] = left /\ \A k \in 1..Len(path) : path'[k + 1] = path[k]
      BY <1>0, <2>1, <2>2, Longer
    <2>4. path'[Len(path')] = target /\ path' # <<>>
      <3>1. CASE path = <<>>
        BY <1>0, <2>1, <2>3, <3>1 DEF WalkInv
      <3>2. CASE path # <<>>
        <4>1. Len(path) \in 1..Len(path)
          BY <1>0, <2>3, <3>2
        <4> QED
          BY <1>0, <2>1, <2>3, <3>2, <4>1 DEF WalkInv
      <3> QED
        BY <3>1, <3>2
    <2>5. ASSUME NEW k \in 1..(Len(path') - 1)
          PROVE  <<path'[k], path'[k + 1]>> \in warps'
      <3>1. path # <<>> /\ k \in 1..Len(path)
        BY <2>3
      <3>2. CASE k = 1
        BY <1>0, <2>1, <2>3, <3>1, <3>2 DEF WalkInv
      <3>3. CASE k # 1
        <4> DEFINE j == k - 1
        <4>1. j \in 1..(Len(path) - 1) /\ j \in 1..Len(path) /\ k = j + 1
          BY <2>3, <3>1, <3>3
        <4>2. path'[k] = path[j] /\ path'[k + 1] = path[j + 1]
          BY <2>3, <3>1, <4>1
        <4>3. <<path[j], path[j + 1]>> \in warps
          BY <1>0, <2>1, <4>1 DEF WalkInv
        <4> QED
          BY <2>1, <4>2, <4>3
      <3> QED
        BY <3>2, <3>3
    <2>6. CASE left = from
      <3>1. op' = "found"
        BY <1>2, <2>6 DEF WalkBack, Then
      <3> QED
        BY <2>1, <2>3, <2>4, <2>5, <2>6, <3>1 DEF WalkInv, RouteIsWalk
    <2>7. CASE left # from
      <3>1. op' = "walk" /\ left' = prev[left]
        BY <1>2, <2>1, <2>7 DEF WalkBack
      <3> QED
        BY <2>1, <2>2, <2>3, <2>4, <2>5, <2>7, <3>1 DEF WalkInv, RouteIsWalk
    <2> QED
      BY <2>6, <2>7
  <1>3. CASE op' \notin {"walk", "found"}
    BY <1>3 DEF WalkInv, RouteIsWalk
  <1>4. CASE UNCHANGED vars
    BY <1>0, <1>4 DEF vars, searchVars, WalkInv, RouteIsWalk
  <1>5. Generate \/ UsePlasma \/ Settle \/ Answered \/ (\E a, b \in Sectors : StartSearch(a, b))
        => op' \notin {"walk", "found"}
    BY DEF Generate, ExtraLink, Relink, MakeDeadEnds, Round, Then, Visit, Visited, Scan, Generated,
           UsePlasma, Settle, Answered, StartSearch
  <1> QED
    BY <1>1, <1>2, <1>3, <1>4, <1>5 DEF Next, ShortestPathTo
----------------------------------------------------------------------------
(* The theorems. *)

LEMMA Invariant == Spec => []IndInv
  <1>1. Init => IndInv
    BY TypeInit, RepairInit, SearchInit DEF IndInv
  <1>2. IndInv /\ [Next]_vars => IndInv'
    BY TypeNext, RepairNext, ReachableNext, SearchNext, WalkNext DEF IndInv
  <1> QED
    BY <1>1, <1>2, PTL DEF Spec

\* The types of the loops hold, and no sector ever has a warp to itself
\* (init.go:63-209, specials.go:22-85, universe.go:308-361).
THEOREM MapTypeCorrect == Spec => []TypeOK
  <1>1. IndInv => TypeOK
    BY DEF IndInv
  <1> QED
    BY <1>1, Invariant, PTL

\* Whatever the random links, moves and dead ends were, for a map of any size:
\* when Generate returns, every sector is reachable from sector 1 (init.go:146-209).
THEOREM GeneratedMapIsReachable == Spec => []EverySectorReachable
  <1>1. IndInv => EverySectorReachable
    BY DEF IndInv
  <1> QED
    BY <1>1, Invariant, PTL

\* What ShortestPathTo returns leads along warps from the start to the target
\* (universe.go:308-361).
THEOREM RoutesAreWalks == Spec => []RouteIsWalk
  <1>1. IndInv => RouteIsWalk
    BY DEF IndInv
  <1> QED
    BY <1>1, Invariant, PTL
----------------------------------------------------------------------------
(* Shortest ways, first of any set w of warps. *)

LEMMA LeastNumber == ASSUME NEW S \in SUBSET Nat, S # {} PROVE \E x \in S : \A y \in S : x <= y
  <1> DEFINE R == OpToRel(<, Nat)
  <1>1. IsWellFoundedOn(R, Nat)
    BY NatLessThanWellFounded
  <1>2. \A x, y \in Nat : x < y => <<x, y>> \in R
    BY DEF OpToRel
  <1> HIDE DEF R
  <1>3. PICK x \in S : \A y \in S : ~(<<y, x>> \in R)
    BY <1>1, WFMin
  <1>4. \A y \in S : x \in Nat /\ y \in Nat /\ ~(y < x)
    BY <1>2, <1>3
  <1>5. \A y \in S : x <= y
    BY <1>4
  <1> QED
    BY <1>5

\* One warp further than S.
Beyond(w, S) == S \cup {t \in Sectors : \E s \in S : <<s, t>> \in w}

\* The sectors within n warps of a, for n up to k.
Balls(w, a, k, F) ==
    /\ F \in [0..k -> SUBSET Sectors] /\ F[0] = {a}
    /\ \A n \in 1..k : F[n] = Beyond(w, F[n - 1])

LEMMA NumSecIsNat == NumSec \in Nat \ {0} /\ Inf = NumSec + 1 /\ Inf \in Nat /\ Sectors = 1..NumSec
  BY StarmapAssumption DEF Inf, Sectors

LEMMA BallsGrow ==
    ASSUME NEW w, NEW a \in Sectors, NEW k \in Nat, NEW F, Balls(w, a, k, F)
    PROVE  \E G : Balls(w, a, k + 1, G)
  <1> DEFINE G == [n \in 0..(k + 1) |-> IF n <= k THEN F[n] ELSE Beyond(w, F[k])]
  <1>1. \A n \in 0..k : F[n] \in SUBSET Sectors /\ Beyond(w, F[n]) \in SUBSET Sectors
    BY DEF Balls, Beyond
  <1>2. \A n \in 0..(k + 1) : n \in 0..k \/ n = k + 1
    OBVIOUS
  <1>3. \A n \in 0..k : n \in 0..(k + 1) /\ n <= k /\ G[n] = F[n]
    OBVIOUS
  <1>4. k \in 0..k /\ k + 1 \in 0..(k + 1) /\ 0 \in 0..k /\ ~(k + 1 <= k)
    OBVIOUS
  <1>5. G[k + 1] = Beyond(w, F[k])
    BY <1>4
  <1>6. G \in [0..(k + 1) -> SUBSET Sectors]
    <2>1. \A n \in 0..(k + 1) : G[n] \in SUBSET Sectors
      BY <1>1, <1>2, <1>3, <1>4, <1>5, Zenon
    <2> QED BY <2>1
  <1>7. G[0] = {a}
    BY <1>3, <1>4 DEF Balls
  <1>8. ASSUME NEW n \in 1..(k + 1) PROVE G[n] = Beyond(w, G[n - 1])
    <2>1. n - 1 \in 0..k /\ (n \in 1..k \/ (n = k + 1 /\ n - 1 = k))
      OBVIOUS
    <2>2. G[n - 1] = F[n - 1]
      BY <1>3, <2>1
    <2>3. CASE n \in 1..k
      <3>1. n \in 0..k
        BY <2>3
      <3> HIDE DEF G
      <3> QED BY <1>3, <2>2, <2>3, <3>1 DEF Balls
    <2>4. CASE n = k + 1 /\ n - 1 = k
      <3> HIDE DEF G
      <3> QED BY <1>5, <2>2, <2>4
    <2> QED BY <2>1, <2>3, <2>4
  <1> HIDE DEF G
  <1> QED BY <1>6, <1>7, <1>8 DEF Balls

LEMMA BallsExist ==
    ASSUME NEW w, NEW a \in Sectors, NEW k \in Nat
    PROVE  \E F : Balls(w, a, k, F)
  <1> DEFINE Bad == {n \in Nat : ~ \E F : Balls(w, a, n, F)}
  <1>1. SUFFICES ASSUME Bad # {} PROVE FALSE
    BY DEF Bad
  <1>2. PICK m \in Bad : \A n \in Bad : m <= n
    <2>1. Bad \in SUBSET Nat
      OBVIOUS
    <2> HIDE DEF Bad
    <2> QED BY <1>1, <2>1, LeastNumber
  <1>3. m \in Nat /\ ~ \E F : Balls(w, a, m, F)
    OBVIOUS
  <1>4. m # 0
    <2> DEFINE F == [n \in 0..0 |-> {a}]
    <2>1. F \in [0..0 -> SUBSET Sectors] /\ F[0] = {a}
      OBVIOUS
    <2>2. \A n \in 1..0 : FALSE
      OBVIOUS
    <2> HIDE DEF F
    <2>3. Balls(w, a, 0, F)
      BY <2>1, <2>2 DEF Balls
    <2> QED BY <1>3, <2>3
  <1>5. m - 1 \in Nat /\ ~(m <= m - 1) /\ m = (m - 1) + 1
    BY <1>3, <1>4
  <1>6. m - 1 \notin Bad
    BY <1>2, <1>5
  <1>7. PICK F : Balls(w, a, m - 1, F)
    BY <1>5, <1>6
  <1>8. PICK j \in Nat : j = m - 1 /\ m = j + 1
    BY <1>5
  <1>9. \E G : Balls(w, a, j + 1, G)
    BY <1>7, <1>8, BallsGrow
  <1> QED BY <1>3, <1>8, <1>9

\* Within is such a function.
LEMMA WithinIs == ASSUME NEW a \in Sectors PROVE Balls(warps, a, NumSec, Within(a))
  <1> DEFINE D(g) == [n \in 0..NumSec |->
                        IF n = 0 THEN {a} ELSE g[n - 1] \cup UNION {Neighbors(s) : s \in g[n - 1]}]
  <1>1. PICK F : Balls(warps, a, NumSec, F)
    BY NumSecIsNat, BallsExist
  <1>2. \A S : S \cup UNION {Neighbors(s) : s \in S} = Beyond(warps, S)
    <2> SUFFICES ASSUME NEW S PROVE UNION {Neighbors(s) : s \in S} = {t \in Sectors : \E s \in S : <<s, t>> \in warps}
      BY DEF Beyond
    <2>1. ASSUME NEW t PROVE t \in UNION {Neighbors(s) : s \in S} <=> \E s \in S : t \in Neighbors(s)
      BY Zenon
    <2>2. ASSUME NEW t PROVE t \in UNION {Neighbors(s) : s \in S} <=> t \in Sectors /\ \E s \in S : <<s, t>> \in warps
      BY <2>1, Zenon DEF Neighbors
    <2> QED BY <2>2, Zenon
  <1>3. \A n \in 0..NumSec : n # 0 => n \in 1..NumSec
    BY NumSecIsNat
  <1>4. F = D(F)
    <2>1. \A n \in 0..NumSec : F[n] = IF n = 0 THEN {a} ELSE Beyond(warps, F[n - 1])
      BY <1>1, <1>3 DEF Balls
    <2>2. \A n \in 0..NumSec : F[n] = D(F)[n]
      BY <1>2, <2>1
    <2>3. F \in [0..NumSec -> SUBSET Sectors]
      BY <1>1 DEF Balls
    <2> QED BY <2>2, <2>3
  <1>5. Within(a) = CHOOSE g : g = D(g)
    BY DEF Within
  <1> DEFINE W == Within(a)
  <1>6. W = D(W)
    <2> HIDE DEF D
    <2> QED BY <1>4, <1>5
  <1> HIDE DEF W
  <1>7. \A n \in 0..NumSec : W[n] = IF n = 0 THEN {a} ELSE Beyond(warps, W[n - 1])
    BY <1>2, <1>6
  <1>8. 0 \in 0..NumSec /\ \A n \in 1..NumSec : n \in 0..NumSec /\ n # 0 /\ n - 1 \in 0..NumSec
    BY NumSecIsNat
  <1>9. W[0] = {a} /\ \A n \in 1..NumSec : W[n] = Beyond(warps, W[n - 1])
    <2> HIDE DEF D
    <2> QED BY <1>7, <1>8
  <1>10. \A n \in 0..NumSec : W[n] \in SUBSET Sectors
    <2> DEFINE Bad == {n \in 0..NumSec : W[n] \notin SUBSET Sectors}
    <2>1. SUFFICES ASSUME Bad # {} PROVE FALSE
      OBVIOUS
    <2>2. PICK m \in Bad : \A n \in Bad : m <= n
      <3>1. Bad \in SUBSET Nat
        BY NumSecIsNat
      <3> HIDE DEF Bad
      <3> QED BY <2>1, <3>1, LeastNumber
    <2>3. m # 0
      BY <1>9
    <2>4. m \in 1..NumSec /\ m - 1 \in 0..NumSec /\ ~(m <= m - 1)
      BY <2>3, NumSecIsNat
    <2>5. W[m - 1] \in SUBSET Sectors
      BY <2>2, <2>4
    <2>6. W[m] \in SUBSET Sectors
      BY <1>9, <2>4, <2>5 DEF Beyond
    <2> QED BY <2>6
  <1>11. W \in [0..NumSec -> SUBSET Sectors]
    <2>1. DOMAIN W = 0..NumSec /\ W = [n \in 0..NumSec |-> W[n]]
      BY <1>6
    <2> HIDE DEF D
    <2> QED BY <1>10, <2>1
  <1>12. Balls(warps, a, NumSec, W)
    BY <1>9, <1>11 DEF Balls
  <1> QED BY <1>12 DEF W

----------------------------------------------------------------------------
(* What a search knows, of any set w of warps: d and p are dist and prev, M is *)
(* marked and c the current sector.                                            *)

\* Every known distance is one more than that of a previous, marked sector.
Measured(w, f, d, p, M) ==
    /\ f \in Sectors /\ d \in [Sectors -> 0..Inf] /\ M \subseteq Sectors
    /\ d[f] = 0
    /\ \A s \in Sectors : d[s] < Inf /\ s # f =>
          p[s] \in M /\ d[s] = d[p[s]] + 1 /\ <<p[s], s>> \in w

\* Those marked are near, the others at least as far as the current sector; and
\* no warp out of a marked sector leads farther than one step.
Settled(w, f, d, M, c) ==
    /\ c \in Sectors \ M /\ d[c] < Inf /\ f \in M \cup {c}
    /\ \A s \in M : d[s] <= d[c]
    /\ \A s \in Sectors \ M : d[c] <= d[s]
    /\ \A s \in M, t \in Sectors : <<s, t>> \in w => d[t] <= d[s] + 1

\* The distance from f to t is k; t cannot be reached from f at all.
IsDistance(w, f, t, k) ==
    /\ k \in 0..NumSec
    /\ \A F : Balls(w, f, NumSec, F) => t \in F[k] /\ \A n \in 0..NumSec : n < k => t \notin F[n]
CutOff(w, f, t) ==
    \E R \in SUBSET Sectors : f \in R /\ t \notin R /\ \A s \in R, u \in Sectors : <<s, u>> \in w => u \in R

\* There is a sector at every distance up to a known one ...
LEMMA LevelsOccupied ==
    ASSUME NEW w, NEW f, NEW d, NEW p, NEW M, Measured(w, f, d, p, M),
           NEW c \in Sectors, d[c] < Inf
    PROVE  d[c] \in Nat /\ \A k \in 0..d[c] : \E s \in Sectors : d[s] = k
  <1>1. \A s \in Sectors : d[s] \in Nat /\ d[s] <= Inf
    BY NumSecIsNat DEF Measured
  <1>2. PICK m \in Nat : d[c] = m
    BY <1>1
  <1> DEFINE Bad == {j \in 0..m : \A s \in Sectors : d[s] # m - j}
  <1>3. SUFFICES ASSUME Bad # {} PROVE FALSE
    <2>1. ASSUME Bad = {}, NEW k \in 0..m PROVE \E s \in Sectors : d[s] = k
      <3>1. m - k \in 0..m /\ m - (m - k) = k
        BY <1>2
      <3>2. m - k \notin Bad
        BY <2>1
      <3>3. \E s \in Sectors : d[s] = m - (m - k)
        BY <3>1, <3>2
      <3> QED BY <3>1, <3>3
    <2> QED BY <1>2, <2>1
  <1>4. PICK j \in Bad : \A i \in Bad : j <= i
    <2>1. Bad \in SUBSET Nat
      OBVIOUS
    <2> HIDE DEF Bad
    <2> QED BY <1>3, <2>1, LeastNumber
  <1>5. j \in 0..m /\ j # 0
    BY <1>2
  <1>6. j - 1 \in 0..m /\ ~(j <= j - 1) /\ m - (j - 1) = (m - j) + 1 /\ m - j \in Nat
    BY <1>2, <1>5
  <1>7. j - 1 \notin Bad
    BY <1>4, <1>6
  <1>8. PICK s \in Sectors : d[s] = (m - j) + 1
    BY <1>6, <1>7
  <1>9. d[s] < Inf /\ d[s] # 0
    <2>1. m < Inf /\ (m - j) + 1 <= m
      BY <1>2, <1>5, NumSecIsNat
    <2> QED BY <1>1, <1>6, <1>8, <2>1, NumSecIsNat
  <1>10. p[s] \in Sectors /\ d[s] = d[p[s]] + 1
    BY <1>9 DEF Measured
  <1>11. d[p[s]] = m - j
    BY <1>1, <1>6, <1>8, <1>10
  <1> QED BY <1>10, <1>11

\* ... and so there are more sectors than the distance to the current one.
LEMMA DistancesAreSmall ==
    ASSUME NEW w, NEW f, NEW d, NEW p, NEW M, Measured(w, f, d, p, M),
           NEW c \in Sectors, d[c] < Inf
    PROVE  d[c] < NumSec
  <1>1. PICK m \in Nat : d[c] = m
    BY LevelsOccupied
  <1>2. \A k \in 0..m : \E s \in Sectors : d[s] = k
    BY <1>1, LevelsOccupied
  <1> DEFINE g == [k \in 0..m |-> CHOOSE s \in Sectors : d[s] = k]
  <1>3. \A k \in 0..m : g[k] \in Sectors /\ d[g[k]] = k
    BY <1>2
  <1>4. g \in [0..m -> Sectors]
    BY <1>3
  <1> HIDE DEF g
  <1>5. ~ \E j, k \in 0..m : j # k /\ g[j] = g[k]
    BY <1>3
  <1>6. IsFiniteSet(0..m) /\ IsFiniteSet(Sectors) /\ Cardinality(Sectors) = NumSec /\ Cardinality(0..m) = m + 1
    BY NumSecIsNat, FS_Interval, <1>1
  <1>7. ~(Cardinality(Sectors) < Cardinality(0..m))
    BY <1>4, <1>5, <1>6, FS_PigeonHole
  <1> QED BY <1>1, <1>6, <1>7, NumSecIsNat

\* The known distance of the current sector is its distance.
LEMMA CurrentIsExact ==
    ASSUME NEW w, NEW f, NEW d, NEW p, NEW M, Measured(w, f, d, p, M),
           NEW c, Settled(w, f, d, M, c)
    PROVE  IsDistance(w, f, c, d[c])
  <1>1. \A s \in Sectors : d[s] \in Nat /\ d[s] <= Inf
    BY NumSecIsNat DEF Measured
  <1>2. PICK m \in Nat : d[c] = m /\ m <= NumSec
    BY <1>1, NumSecIsNat DEF Settled
  <1> SUFFICES ASSUME NEW F, Balls(w, f, NumSec, F)
               PROVE  c \in F[m] /\ \A n \in 0..NumSec : n < m => c \notin F[n]
    BY <1>2, NumSecIsNat DEF IsDistance
  <1>3. \A n \in 1..NumSec : F[n] = F[n - 1] \cup {t \in Sectors : \E s \in F[n - 1] : <<s, t>> \in w}
    BY DEF Balls, Beyond
  <1>4. F[0] = {f} /\ f \in Sectors /\ d[f] = 0
    BY DEF Balls, Measured
  <1>5. c \in F[m]
    <2> DEFINE Bad == {n \in 0..NumSec : \E s \in Sectors : d[s] = n /\ s \notin F[n]}
    <2>1. SUFFICES ASSUME Bad # {} PROVE FALSE
      BY <1>2, NumSecIsNat DEF Settled
    <2>2. PICK n \in Bad : \A i \in Bad : n <= i
      <3>1. Bad \in SUBSET Nat
        BY NumSecIsNat
      <3> HIDE DEF Bad
      <3> QED BY <2>1, <3>1, LeastNumber
    <2>3. PICK s \in Sectors : d[s] = n /\ s \notin F[n]
      OBVIOUS
    <2>4. n \in 0..NumSec
      OBVIOUS
    <2>5. d[s] < Inf
      BY <2>3, <2>4, NumSecIsNat
    <2>6. s # f
      BY <1>4, <2>3
    <2>7. p[s] \in Sectors /\ n = d[p[s]] + 1 /\ <<p[s], s>> \in w
      BY <2>3, <2>5, <2>6 DEF Measured
    <2>8. d[p[s]] = n - 1 /\ n - 1 \in 0..NumSec /\ n \in 1..NumSec /\ ~(n <= n - 1)
      BY <1>1, <2>4, <2>7, NumSecIsNat
    <2>9. n - 1 \notin Bad
      BY <2>2, <2>8
    <2>10. p[s] \in F[n - 1]
      BY <2>7, <2>8, <2>9
    <2> HIDE DEF Bad
    <2> QED BY <1>3, <2>3, <2>7, <2>8, <2>10
  <1>6. ASSUME NEW k \in 0..NumSec, k < m PROVE c \notin F[k]
    <2> DEFINE Bad == {n \in 0..k : \E t \in F[n] : ~(t \in Sectors /\ d[t] <= n)}
    <2>1. SUFFICES ASSUME Bad # {} PROVE FALSE
      <3>1. k \in Nat /\ ~(m <= k)
        BY <1>2, <1>6
      <3> QED BY <1>2, <3>1
    <2>2. PICK n \in Bad : \A i \in Bad : n <= i
      <3>1. Bad \in SUBSET Nat
        BY NumSecIsNat
      <3> HIDE DEF Bad
      <3> QED BY <2>1, <3>1, LeastNumber
    <2>3. PICK t \in F[n] : ~(t \in Sectors /\ d[t] <= n)
      OBVIOUS
    <2>4. n \in 0..k /\ n # 0
      BY <1>4, <2>3
    <2>5. n \in 1..NumSec /\ n - 1 \in 0..k /\ ~(n <= n - 1) /\ n - 1 < m /\ n \in Nat
      BY <1>2, <1>6, <2>4, NumSecIsNat
    <2>6. n - 1 \notin Bad
      BY <2>2, <2>5
    <2>7. \A s \in F[n - 1] : s \in Sectors /\ d[s] <= n - 1
      BY <2>5, <2>6
    <2> HIDE DEF Bad
    <2>8. CASE t \in F[n - 1]
      <3>1. t \in Sectors /\ d[t] <= n - 1 /\ d[t] \in Nat
        BY <1>1, <2>7, <2>8
      <3>2. d[t] <= n
        BY <2>5, <3>1
      <3> QED BY <2>3, <3>1, <3>2
    <2>9. CASE t \notin F[n - 1]
      <3>1. t \in Sectors /\ \E s \in F[n - 1] : <<s, t>> \in w
        BY <1>3, <2>5, <2>9
      <3>2. PICK s \in F[n - 1] : <<s, t>> \in w
        BY <3>1
      <3>3. s \in Sectors /\ d[s] <= n - 1 /\ d[s] \in Nat /\ d[t] \in Nat
        BY <1>1, <2>7, <3>1
      <3>4. ~(m <= d[s])
        BY <1>2, <2>5, <3>3
      <3>5. s \in M
        BY <1>2, <3>3, <3>4 DEF Settled
      <3>6. d[t] <= d[s] + 1
        BY <3>1, <3>2, <3>5 DEF Settled
      <3>7. d[t] <= n
        BY <2>5, <3>3, <3>6
      <3> QED BY <2>3, <3>1, <3>7
    <2> QED BY <2>8, <2>9
  <1> QED BY <1>5, <1>6

\* One round of the main loop, in which the sectors N get nearer.
Nearing(w, d, p, M, c, d2, p2, M2, N) ==
    /\ M2 = M \cup {c} /\ N = {t \in Sectors \ M2 : <<c, t>> \in w /\ d[c] + 1 < d[t]}
    /\ d2 = [s \in Sectors |-> IF s \in N THEN d[c] + 1 ELSE d[s]]
    /\ p2 = [s \in Sectors |-> IF s \in N THEN c ELSE p[s]]

LEMMA SettleStep ==
    ASSUME NEW w, NEW f, NEW d, NEW p, NEW M, NEW c, Measured(w, f, d, p, M), Settled(w, f, d, M, c),
           NEW d2, NEW p2, NEW M2, NEW N, Nearing(w, d, p, M, c, d2, p2, M2, N)
    PROVE  /\ Measured(w, f, d2, p2, M2)
           /\ f \in M2 /\ d[c] \in Nat
           /\ \A s \in M2 : d2[s] <= d[c]
           /\ \A s \in Sectors \ M2 : d[c] <= d2[s]
           /\ \A s \in M2, t \in Sectors : <<s, t>> \in w => d2[t] <= d2[s] + 1
  <1> USE DEF Nearing
  <1>1. \A s \in Sectors : d[s] \in Nat /\ d[s] <= Inf
    BY NumSecIsNat DEF Measured
  <1>2. c \in Sectors \ M /\ M \subseteq Sectors /\ M2 \subseteq Sectors /\ f \in M2 /\ d[c] \in Nat
    BY <1>1 DEF Settled, Measured
  <1>3. \A s \in N : s \in Sectors \ M2 /\ <<c, s>> \in w /\ d[c] + 1 < d[s] /\ d2[s] = d[c] + 1
    OBVIOUS
  <1>4. \A s \in Sectors \ N : d2[s] = d[s] /\ p2[s] = p[s]
    OBVIOUS
  <1>5. \A s \in M2 : s \in Sectors \ N /\ d2[s] = d[s]
    BY <1>2, <1>3, <1>4
  <1>6. \A s \in Sectors : d2[s] \in 0..Inf /\ d2[s] \in Nat /\ d2[s] <= d[s]
    <2> TAKE s \in Sectors
    <2>1. d[s] \in Nat /\ d[s] <= Inf
      BY <1>1
    <2>2. CASE s \in N
      <3>1. d2[s] = d[c] + 1 /\ d[c] + 1 < d[s]
        BY <1>3, <2>2
      <3> QED BY <1>2, <2>1, <3>1, NumSecIsNat
    <2>3. CASE s \notin N
      <3>1. d2[s] = d[s]
        BY <1>4, <2>3
      <3> QED BY <2>1, <3>1, NumSecIsNat
    <2> QED BY <2>2, <2>3
  <1>7. Measured(w, f, d2, p2, M2)
    <2>1. d2 \in [Sectors -> 0..Inf]
      BY <1>6
    <2>2. f \in Sectors /\ d2[f] = 0
      BY <1>2, <1>5 DEF Measured
    <2>3. ASSUME NEW s \in Sectors, d2[s] < Inf, s # f
          PROVE  p2[s] \in M2 /\ d2[s] = d2[p2[s]] + 1 /\ <<p2[s], s>> \in w
      <3>1. CASE s \in N
        <4>1. p2[s] = c /\ c \in M2
          BY <3>1
        <4> QED BY <1>3, <1>5, <3>1, <4>1
      <3>2. CASE s \notin N
        <4>1. d2[s] = d[s] /\ p2[s] = p[s]
          BY <1>4, <3>2
        <4>2. p[s] \in M /\ d[s] = d[p[s]] + 1 /\ <<p[s], s>> \in w
          BY <2>3, <4>1 DEF Measured
        <4>3. p[s] \in M2
          BY <4>2
        <4>4. d2[p[s]] = d[p[s]]
          BY <1>5, <4>3
        <4> QED BY <4>1, <4>2, <4>3, <4>4
      <3> QED BY <3>1, <3>2
    <2> QED BY <1>2, <2>1, <2>2, <2>3 DEF Measured
  <1>8. \A s \in M2 : d2[s] <= d[c]
    <2> TAKE s \in M2
    <2>1. d2[s] = d[s] /\ (s = c \/ s \in M)
      BY <1>5
    <2>2. s \in M => d[s] <= d[c]
      BY DEF Settled
    <2>3. d[c] <= d[c]
      BY <1>2
    <2> QED BY <2>1, <2>2, <2>3
  <1>9. \A s \in Sectors \ M2 : d[c] <= d2[s]
    <2> TAKE s \in Sectors \ M2
    <2>1. CASE s \in N
      <3>1. d2[s] = d[c] + 1
        BY <1>3, <2>1
      <3> QED BY <1>2, <3>1
    <2>2. CASE s \notin N
      BY <1>4, <2>2 DEF Settled
    <2> QED BY <2>1, <2>2
  <1>10. ASSUME NEW s \in M2, NEW t \in Sectors, <<s, t>> \in w PROVE d2[t] <= d2[s] + 1
    <2>1. d2[t] \in Nat /\ d2[t] <= d[t] /\ d[t] \in Nat /\ d2[s] = d[s] /\ d[s] \in Nat
      BY <1>1, <1>2, <1>5, <1>6
    <2>2. CASE s \in M
      <3>1. d[t] <= d[s] + 1
        BY <1>10, <2>2 DEF Settled
      <3> QED BY <2>1, <3>1
    <2>3. CASE s = c /\ t \in N
      <3>1. d2[t] = d[c] + 1
        BY <1>3, <2>3
      <3> QED BY <2>1, <2>3, <3>1
    <2>4. CASE s = c /\ t \notin N /\ t \notin M2
      <3>1. ~(d[c] + 1 < d[t])
        BY <1>10, <2>4
      <3> QED BY <2>1, <2>4, <3>1
    <2>5. CASE s = c /\ t \in M2
      <3>1. d2[t] <= d[c]
        BY <1>8, <2>5
      <3> QED BY <2>1, <2>5, <3>1
    <2> QED BY <2>2, <2>3, <2>4, <2>5
  <1> QED BY <1>2, <1>7, <1>8, <1>9, <1>10
----------------------------------------------------------------------------
(* The searches. *)

\* What is known while a sector is settled, of the path while it is put together,
\* and of the answer.
ShortInv ==
    /\ op = "idle" => marked = {}
    /\ op \in Searching => Measured(warps, from, dist, prev, marked)
    /\ op = "settle" => Settled(warps, from, dist, marked, left) /\ target \notin marked
    /\ op = "walk" => IsDistance(warps, from, target, dist[target]) /\ Len(path) + dist[left] = dist[target]
    /\ op = "found" => IsDistance(warps, from, target, Len(path) - 1)
    /\ op = "noroute" => CutOff(warps, from, target)

LEMMA StartMeasured ==
    ASSUME NEW w, NEW a \in Sectors, NEW d, d = [Unknown EXCEPT ![a] = 0], NEW p
    PROVE  Measured(w, a, d, p, {}) /\ Settled(w, a, d, {}, a)
  <1>1. \A s \in Sectors : d[s] = IF s = a THEN 0 ELSE Inf
    BY DEF Unknown
  <1>2. 0 < Inf /\ ~(Inf < Inf) /\ 0 \in 0..Inf /\ Inf \in 0..Inf /\ 0 <= Inf /\ 0 <= 0
    BY NumSecIsNat
  <1>3. d \in [Sectors -> 0..Inf]
    BY <1>2 DEF Unknown
  <1>4. Measured(w, a, d, p, {})
    BY <1>1, <1>2, <1>3 DEF Measured
  <1>5. Settled(w, a, d, {}, a)
    BY <1>1, <1>2 DEF Settled
  <1> QED BY <1>4, <1>5

LEMMA StartShort == IndInv /\ ShortInv /\ (\E a, b \in Sectors : StartSearch(a, b)) => ShortInv'
  <1> SUFFICES ASSUME IndInv, ShortInv, NEW a \in Sectors, NEW b \in Sectors, StartSearch(a, b)
               PROVE  ShortInv'
    BY Zenon
  <1>1. op = "idle" /\ op' = "settle" /\ left' = a /\ from' = a /\ target' = b /\ marked' = marked
        /\ dist' = [dist EXCEPT ![a] = 0]
    BY DEF StartSearch
  <1>2. marked = {} /\ dist = Unknown
    BY <1>1 DEF ShortInv, IndInv, SearchInv, Searching
  <1>3. Measured(warps', a, dist', prev', {}) /\ Settled(warps', a, dist', {}, a)
    BY <1>1, <1>2, StartMeasured
  <1> QED BY <1>1, <1>2, <1>3 DEF ShortInv, Searching

LEMMA SettleShort == IndInv /\ ShortInv /\ Settle => ShortInv'
  <1> SUFFICES ASSUME IndInv, ShortInv, Settle PROVE ShortInv'
    OBVIOUS
  <1> DEFINE N == Nearer(marked')
             open == {s \in Sectors \ marked' : dist'[s] < Inf}
  <1>1. /\ op = "settle" /\ left # target /\ UNCHANGED <<warps, from, target>>
        /\ marked' = marked \cup {left}
        /\ dist' = [s \in Sectors |-> IF s \in N THEN dist[left] + 1 ELSE dist[s]]
        /\ prev' = [s \in Sectors |-> IF s \in N THEN left ELSE prev[s]]
        /\ open = {} => op' = "noroute"
        /\ open # {} => left' \in Closest(open) /\ op' = op
    BY DEF Settle, Then
  <1>2. Measured(warps, from, dist, prev, marked) /\ Settled(warps, from, dist, marked, left)
        /\ target \notin marked
    BY <1>1 DEF ShortInv, Searching
  <1>3. N = {t \in Sectors \ marked' : <<left, t>> \in warps /\ dist[left] + 1 < dist[t]}
    BY DEF Nearer, Neighbors
  <1> HIDE DEF N
  <1>4. /\ Measured(warps, from, dist', prev', marked')
        /\ from \in marked' /\ dist[left] \in Nat
        /\ \A s \in marked' : dist'[s] <= dist[left]
        /\ \A s \in Sectors \ marked' : dist[left] <= dist'[s]
        /\ \A s \in marked', t \in Sectors : <<s, t>> \in warps => dist'[t] <= dist'[s] + 1
    <2>1. Nearing(warps, dist, prev, marked, left, dist', prev', marked', N)
      BY <1>1, <1>3 DEF Nearing
    <2> QED BY <1>2, <2>1, SettleStep
  <1>5. \A s \in Sectors : dist'[s] \in Nat /\ dist'[s] <= Inf
    BY <1>4, NumSecIsNat DEF Measured
  <1>6. marked' \subseteq Sectors /\ target \notin marked'
    <2>1. marked' \subseteq Sectors
      BY <1>4 DEF Measured
    <2> QED BY <1>1, <1>2, <2>1
  <1>7. CASE open = {}
    <2>1. dist[left] < NumSec
      <3>1. left \in Sectors /\ dist[left] < Inf
        BY <1>2 DEF Settled
      <3> QED BY <1>2, <3>1, DistancesAreSmall
    <2>2. ASSUME NEW s \in marked', NEW u \in Sectors, <<s, u>> \in warps PROVE u \in marked'
      <3>1. dist'[s] <= dist[left] /\ dist'[u] <= dist'[s] + 1 /\ dist'[s] \in Nat /\ dist'[u] \in Nat
        BY <1>4, <1>5, <1>6, <2>2
      <3>2. dist'[u] < Inf
        BY <1>4, <2>1, <3>1, NumSecIsNat
      <3> QED BY <1>7, <3>2
    <2>3. CutOff(warps, from, target)
      BY <1>4, <1>6, <2>2 DEF CutOff
    <2>4. op' = "noroute" /\ warps' = warps /\ from' = from /\ target' = target
      BY <1>1, <1>7
    <2> QED BY <2>3, <2>4 DEF ShortInv, Searching
  <1>8. CASE open # {}
    <2>1. op' = "settle" /\ warps' = warps /\ from' = from /\ target' = target
          /\ left' \in Closest(open)
      BY <1>1, <1>8
    <2>2. left' \in open
          /\ (\A t \in open : dist'[left'] < dist'[t] \/ dist'[left'] = dist'[t])
      BY <2>1 DEF Closest
    <2>3. left' \in Sectors \ marked' /\ dist'[left'] < Inf /\ dist'[left'] \in Nat
      BY <1>5, <2>2
    <2>4. ASSUME NEW s \in marked' PROVE dist'[s] <= dist'[left']
      <3>1. dist'[s] <= dist[left] /\ dist[left] <= dist'[left'] /\ dist'[s] \in Nat /\ dist[left] \in Nat
        BY <1>4, <1>5, <1>6, <2>3
      <3> QED BY <2>3, <3>1
    <2>5. ASSUME NEW s \in Sectors \ marked' PROVE dist'[left'] <= dist'[s]
      <3>1. dist'[s] \in Nat /\ dist'[s] <= Inf
        BY <1>5
      <3>2. dist'[s] < Inf => s \in open
        OBVIOUS
      <3>3. s \in open => dist'[left'] < dist'[s] \/ dist'[left'] = dist'[s]
        BY <2>2
      <3>4. dist'[s] < Inf \/ dist'[s] = Inf
        BY <3>1, NumSecIsNat
      <3> HIDE DEF open
      <3> QED BY <2>3, <3>1, <3>2, <3>3, <3>4
    <2> HIDE DEF open
    <2>6. Settled(warps, from, dist', marked', left')
      BY <1>4, <2>3, <2>4, <2>5 DEF Settled
    <2> QED BY <1>4, <1>6, <2>1, <2>6 DEF ShortInv, Searching
  <1> QED BY <1>7, <1>8

LEMMA WalkShort == IndInv /\ ShortInv /\ (Arrived \/ WalkBack) => ShortInv'
  <1> SUFFICES ASSUME IndInv, ShortInv, Arrived \/ WalkBack PROVE ShortInv'
    OBVIOUS
  <1>1. path \in Seq(Sectors) /\ Len(path) \in Nat /\ left \in Sectors /\ dist[left] < Inf /\ dist[from] = 0
    BY DEF IndInv, TypeOK, SearchInv, Searching, Arrived, WalkBack
  <1>2. Measured(warps, from, dist, prev, marked)
    BY DEF ShortInv, Searching, Arrived, WalkBack
  <1>3. dist[left] \in Nat
    BY <1>1, <1>2, NumSecIsNat DEF Measured
  <1>4. CASE Arrived
    <2>1. op = "settle" /\ left = target /\ op' = "walk" /\ UNCHANGED <<warps, left, marked, searchVars>>
      BY <1>4 DEF Arrived
    <2>2. UNCHANGED <<dist, prev, from, target, path>>
      BY <2>1 DEF searchVars
    <2>3. IsDistance(warps, from, target, dist[target])
      BY <1>2, <2>1, CurrentIsExact DEF ShortInv
    <2>4. path = <<>>
      BY <2>1 DEF IndInv, SearchInv
    <2>5. Len(path) + dist[left] = dist[target]
      BY <1>3, <2>1, <2>4
    <2> QED BY <1>2, <2>1, <2>2, <2>3, <2>5 DEF ShortInv, Searching
  <1>5. CASE WalkBack
    <2>1. op = "walk" /\ path' = <<left>> \o path /\ UNCHANGED <<warps, marked, dist, prev, from, target>>
      BY <1>5 DEF WalkBack
    <2>2. Len(path') = Len(path) + 1
      BY <1>1, <2>1, Longer
    <2>3. IsDistance(warps, from, target, dist[target]) /\ Len(path) + dist[left] = dist[target]
      BY <2>1 DEF ShortInv
    <2>4. CASE left = from
      <3>1. op' = "found"
        BY <1>5, <2>4 DEF WalkBack, Then
      <3>2. dist[target] = Len(path')  - 1
        BY <1>1, <2>2, <2>3, <2>4
      <3>3. IsDistance(warps, from, target, Len(path') - 1)
        BY <2>3, <3>2
      <3> QED BY <2>1, <3>1, <3>3 DEF ShortInv, Searching
    <2>5. CASE left # from
      <3>1. op' = "walk" /\ left' = prev[left]
        BY <1>5, <2>1, <2>5 DEF WalkBack
      <3>2. prev[left] \in Sectors /\ dist[left] = dist[prev[left]] + 1
        BY <1>1, <1>2, <2>5 DEF Measured
      <3>3. dist[prev[left]] \in Nat
        BY <1>2, <3>2, NumSecIsNat DEF Measured
      <3>4. Len(path') + dist[prev[left]] = dist[target]
        BY <1>1, <2>2, <2>3, <3>2, <3>3
      <3> QED BY <1>2, <2>1, <2>3, <3>1, <3>4 DEF ShortInv, Searching
    <2> QED BY <2>4, <2>5
  <1> QED BY <1>4, <1>5

LEMMA ShortNext == IndInv /\ ShortInv /\ [Next]_vars => ShortInv'
  <1> SUFFICES ASSUME IndInv, ShortInv, [Next]_vars PROVE ShortInv'
    OBVIOUS
  <1>1. Generate => op' \in Building \/ (op' = "idle" /\ marked' = {})
    BY DEF Generate, ExtraLink, Relink, MakeDeadEnds, Round, Then, Visit, Visited, Scan, Generated, Building
  <1>2. UsePlasma => op = "idle" /\ op' = "idle" /\ marked' = marked
    BY DEF UsePlasma
  <1>3. Answered => op' = "idle" /\ marked' = {}
    BY DEF Answered, Then
  <1>4. Generate \/ UsePlasma \/ Answered => ShortInv'
    BY <1>1, <1>2, <1>3 DEF ShortInv, Searching, Building
  <1>5. UNCHANGED vars => ShortInv'
    BY DEF vars, searchVars, ShortInv
  <1> QED
    BY <1>4, <1>5, StartShort, SettleShort, WalkShort DEF Next, ShortestPathTo

\* What is a shortest way here is one in the words of RouteIsShortest.
LEMMA DistanceIs ==
    ASSUME NEW a \in Sectors, NEW b, NEW k, IsDistance(warps, a, b, k)
    PROVE  Distance(a, b) = k
  <1> DEFINE W == Within(a)
             S == {n \in 0..NumSec : b \in W[n]}
  <1>1. b \in W[k] /\ \A n \in 0..NumSec : n < k => b \notin W[n]
    BY WithinIs DEF IsDistance
  <1>2. k \in 0..NumSec
    BY DEF IsDistance
  <1>3. Distance(a, b) = CHOOSE x \in S : \A y \in S : x <= y
    BY DEF Distance, Min
  <1> HIDE DEF W
  <1>4. k \in S /\ \A n \in S : n \in Nat /\ k \in Nat /\ ~(n < k)
    BY <1>1, <1>2, NumSecIsNat
  <1> HIDE DEF S
  <1>5. k \in S /\ \A n \in S : k <= n
    BY <1>4
  <1>6. \A x \in S : (\A y \in S : x <= y) => x = k
    BY <1>4, <1>5
  <1> QED BY <1>3, <1>5, <1>6

LEMMA CutOffIs == ASSUME NEW a, NEW b, CutOff(warps, a, b) PROVE b \notin Reach(a)
  <1>1. PICK R \in SUBSET Sectors : a \in R /\ b \notin R
                                    /\ \A s \in R, u \in Sectors : <<s, u>> \in warps => u \in R
    BY DEF CutOff
  <1>2. Closed(R)
    BY <1>1 DEF Closed, Neighbors
  <1> QED BY <1>1, <1>2 DEF Reach

\* A route is found exactly if there is one, it follows the warps from the start
\* to the target, and none is shorter, on every map and for every two sectors
\* (universe.go:308-361).
THEOREM RoutesAreShortest == Spec => []RouteIsShortest
  <1>1. Init => ShortInv
    BY DEF Init, ShortInv, Searching
  <1>2. IndInv /\ ShortInv => RouteIsShortest
    <2> SUFFICES ASSUME IndInv, ShortInv PROVE RouteIsShortest
      OBVIOUS
    <2>1. RouteIsWalk
      BY DEF IndInv
    <2>2. ASSUME op = "found" PROVE Len(path) - 1 = Distance(from, target)
      <3>1. Len(path) > 0 /\ path[1] = from /\ path \in Seq(Sectors)
        BY <2>1, <2>2 DEF RouteIsWalk, IndInv, TypeOK
      <3>2. from \in Sectors
        BY <3>1
      <3> QED BY <2>2, <3>2, DistanceIs DEF ShortInv
    <2>3. ASSUME op = "noroute" PROVE target \notin Reach(from)
      BY <2>3, CutOffIs DEF ShortInv
    <2> QED BY <2>1, <2>2, <2>3 DEF RouteIsShortest
  <1> QED
    BY <1>1, <1>2, Invariant, ShortNext, PTL DEF Spec
=============================================================================
