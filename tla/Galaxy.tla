------------------------------- MODULE Galaxy -------------------------------
(***************************************************************************)
(* The game engine of galwar2025: ships, sector defense forces             *)
(* ("battlegroups"), planets, and every command that moves fighters, mines *)
(* or ownership between them (pkg/galwar: commands.go, combat.go,          *)
(* battlegroup.go, planet.go, death.go, specials.go, dormancy.go,          *)
(* maintenance.go and the strikes of factions.go).                         *)
(*                                                                         *)
(* All of it runs on the universe actor, one command at a time.  A command *)
(* whose code loops - over mines, over the sectors of a route, over the    *)
(* ships met there, over the factions at night - is a run of steps during  *)
(* which `cmd` says where the actor is in that loop; no other command      *)
(* starts before it is idle again.  A refused command changes nothing and  *)
(* is no step.  Money, cargo, holds, system damage and the warp-changing   *)
(* plasma device are left to other modules: here they could only refuse a  *)
(* command.  Chance (attrition, blasts, escapes, heirs) is a choice.       *)
(***************************************************************************)
EXTENDS Naturals, Sequences, FiniteSets, Losses

CONSTANTS
    Players,       \* human players
    Gids, Pids,    \* slots for defense forces and planets (bounds on how many)
    NumSec,        \* sectors are 1..NumSec, 0 is off the map
    FedMax,        \* Federation space is 1..FedMax (10 in the code)
    Warps,         \* pairs of linked sectors
    GivenNames,    \* names players give to the planets they create
    Kits,          \* what a ship may hold when its player has shopped at Sol
    StarterKit,    \* what a reconstructed ship holds
    TurnsPerDay, DormantDays, ExpireDays,
    Blasts,        \* fighters one mine may destroy (300..499 in the code)
    FleetTrigger,  \* smallest fleet that sets off mines (150 in the code)
    CollapseLoss,  \* fighters an assault must cost to ruin a planet (2000)
    StrongholdCap, \* cabal_max_planet_fighters
    Raids,         \* strikes of one faction in one night
    MaxGrowth,     \* bound: fighters, and mines, a planet builds in a day
    MaxMines,      \* planet_max_mines (1000)
    MaxDay         \* bound: days explored

Goods == {"FIGHTERS", "MINES", "EMWARP", "MINEDEFLECTOR", "GENESIS", "PULSAR",
          "PULSARTUBE", "CLOAK", "ANTICLOAK", "FUSIONCELL"}
NPCs == {"renegades", "cabal", "federation"}
Nobody == "nobody"
Owners == Players \union NPCs
Sectors == 1..NumSec
PlanetNames == GivenNames \union {"Cabal Stronghold", "Renegade Nest", ""}

ASSUME GalaxyAssumption ==
    /\ Players \intersect (NPCs \union {Nobody}) = {}
    /\ NumSec \in Nat \ {0} /\ FedMax \in 1..NumSec
    /\ Warps \subseteq Sectors \X Sectors
    /\ Kits \subseteq [Goods -> Nat] /\ StarterKit \in [Goods -> Nat]
    /\ TurnsPerDay \in Nat /\ DormantDays \in Nat \ {0} /\ ExpireDays \in Nat \ {0}
    /\ Blasts \subseteq Nat /\ FleetTrigger \in Nat /\ CollapseLoss \in Nat
    /\ StrongholdCap \in Nat /\ Raids \in Nat /\ MaxGrowth \in Nat /\ MaxMines \in Nat
    /\ MaxDay \in Nat

VARIABLES
    ship,       \* ship[p][good]: the inventory of p's ship
    sector,     \* where the ship is; 0 while dead
    diedAt,     \* day of death, 0 while alive
    lastSeen,   \* day of the last login
    everMoved, expired,
    turns, banked,
    garrison,   \* Battlegroups: slot -> defense force, owner Nobody if vacant
    planet,     \* Planets: slot -> planet, owner Nobody if vacant
    day,        \* the UTC date
    lastMaint,  \* the date of the last maintenance, 0 before the first
    cmd         \* where the actor is in the command it is executing

playerVars == <<lastSeen, everMoved, expired, turns, banked>>
dayVars == <<day, lastMaint>>
vars == <<ship, sector, diedAt, playerVars, garrison, planet, dayVars, cmd>>

VacantForce  == [owner |-> Nobody, sector |-> 0, FIGHTERS |-> 0, MINES |-> 0]
VacantPlanet == [owner |-> Nobody, sector |-> 0, FIGHTERS |-> 0, MINES |-> 0,
                 name |-> ""]
Present(x) == x.owner # Nobody

\* who: commander; other: victim or raid target; slot: defense force or planet
\* fought; src: stronghold a raid came from; left: mines or raids left; ships:
\* size of the fleet, or of the invader's complement at the start; route:
\* sectors to go; todo: ships still to meet in the first of them, or raid
\* targets; awake: factions abroad tonight; next: what a raid returns to.
Idle == [op |-> "idle", who |-> Nobody, other |-> Nobody, slot |-> Nobody,
         src |-> Nobody, left |-> 0, ships |-> 0, route |-> <<>>, todo |-> {},
         awake |-> {}, next |-> "idle"]
Ready == cmd.op = "idle"

Alive(p) == diedAt[p] = 0
Dormant(p) == Alive(p) /\ day - lastSeen[p] >= DormantDays
IsExpired(p) == Alive(p) /\ ~expired[p] /\ day - lastSeen[p] >= ExpireDays
CanSee(viewer, q) ==
    \/ ship[q]["CLOAK"] = 0
    \/ viewer \in Players /\ ship[viewer]["ANTICLOAK"] >= 1

AtMost(n, cap) == IF n > cap THEN cap ELSE n
Less(S, p, good, k) == [S EXCEPT ![p][good] = @ - k]

Init ==
    /\ ship \in [Players -> Kits]
    /\ sector = [p \in Players |-> 1] /\ diedAt = [p \in Players |-> 0]
    /\ lastSeen = [p \in Players |-> 1]
    /\ everMoved = [p \in Players |-> FALSE] /\ expired = [p \in Players |-> FALSE]
    /\ turns = [p \in Players |-> TurnsPerDay] /\ banked = [p \in Players |-> 0]
    /\ garrison = [g \in Gids |-> VacantForce]
    /\ planet = [i \in Pids |-> VacantPlanet]
    /\ day = 1 /\ lastMaint = 0 /\ cmd = Idle

-----------------------------------------------------------------------------
(* Building blocks *)

\* spendTurn: today's allowance first, then the Fusion Cell's reserve.
SpendTurn(p) ==
    \/ turns[p] >= 1 /\ turns' = [turns EXCEPT ![p] = @ - 1] /\ UNCHANGED banked
    \/ turns[p] < 1 /\ banked[p] >= 1
       /\ banked' = [banked EXCEPT ![p] = @ - 1] /\ UNCHANGED turns

HostileForces(o, s, G) ==
    {g \in Gids : Present(G[g]) /\ G[g].sector = s /\ G[g].owner # o}
PlanetsAt(s) == {i \in Pids : Present(planet[i]) /\ planet[i].sector = s}

\* A defense force with no inventory left is removed.
Swept(G, g) ==
    IF G[g].FIGHTERS = 0 /\ G[g].MINES = 0 THEN [G EXCEPT ![g] = VacantForce] ELSE G

\* Deliberately wrong: the dead keep their planets.
ForfeitPlanets_Kept(P, E) == planet' = P

\* Deliberately wrong: the dead keep their defense forces.
ForfeitForces_Kept(G, E) == G

\* forfeitAssets: defense forces join the Renegades, each planet revolts to
\* the Cabal or to the Federation.
ForfeitForces(G, E) ==
    [g \in Gids |-> IF G[g].owner \in E THEN [G[g] EXCEPT !.owner = "renegades"] ELSE G[g]]
ForfeitPlanets(P, E) ==
    \E heir \in [{i \in Pids : P[i].owner \in E} -> {"cabal", "federation"}] :
        planet' = [i \in Pids |-> IF P[i].owner \in E
                                  THEN [P[i] EXCEPT !.owner = heir[i]] ELSE P[i]]

\* KillPlayer, on top of the forces G and planets P the command left so far.
Kill(p, G, P) ==
    /\ diedAt' = [diedAt EXCEPT ![p] = day]
    /\ garrison' = ForfeitForces(G, {p}) /\ ForfeitPlanets(P, {p})
    /\ sector' = [sector EXCEPT ![p] = 0]

\* tryEmWarp: an Emergency Warp flings the ship to any other sector.
EscapeSectors(p) == {s \in Sectors : s # sector[p] \/ NumSec = 1}
EmWarp(p, S, G, P) ==
    /\ S[p]["EMWARP"] >= 1
    /\ ship' = Less(S, p, "EMWARP", 1)
    /\ \E s \in EscapeSectors(p) : sector' = [sector EXCEPT ![p] = s]
    /\ garrison' = G /\ planet' = P /\ UNCHANGED diedAt

\* What a ship without fighters comes to: escape if it can, death otherwise.
WarpOrDie(p, S, G, P) ==
    \/ EmWarp(p, S, G, P)
    \/ S[p]["EMWARP"] < 1 /\ ship' = S /\ Kill(p, G, P)

\* One mine goes off under p: a deflector absorbs it, or it destroys fighters.
Detonate(p, GoOn(_), Lost(_)) ==
    IF ship[p]["MINEDEFLECTOR"] >= 1 THEN GoOn(Less(ship, p, "MINEDEFLECTOR", 1))
    ELSE \E b \in Blasts :
            LET S == Less(ship, p, "FIGHTERS", AtMost(b, ship[p]["FIGHTERS"])) IN
            IF S[p]["FIGHTERS"] = 0 THEN Lost(S) ELSE GoOn(S)

\* Nobody dies or moves: the step only leaves these ships and forces.
Settle(S, G) == ship' = S /\ garrison' = G /\ UNCHANGED <<sector, diedAt, planet>>

-----------------------------------------------------------------------------
(* Moving: MovePlayer *)

\* The ship enters; if a hostile force has mines there, they start going off.
Arrive(p, d, S, G) ==
    /\ ship' = S /\ garrison' = G /\ UNCHANGED <<diedAt, planet>>
    /\ sector' = [sector EXCEPT ![p] = d]
    /\ LET mined == {g \in HostileForces(p, d, G) : G[g].MINES > 0} IN
       \/ mined = {} /\ cmd' = Idle
       \/ \E g \in mined :
              cmd' = [Idle EXCEPT !.op = "minefield", !.who = p, !.slot = g]

\* Hostile fighters at the destination contest the entry.
Contest(p, d, g) ==
    \E loss \in AttritionLosses(ship[p]["FIGHTERS"], garrison[g].FIGHTERS) :
        LET S == Less(ship, p, "FIGHTERS", loss[1])
            G == [garrison EXCEPT ![g].FIGHTERS = @ - loss[2]]
        IN IF S[p]["FIGHTERS"] = 0 /\ G[g].FIGHTERS > 0
           THEN WarpOrDie(p, S, G, planet) /\ cmd' = Idle
           ELSE Arrive(p, d, S, Swept(G, g))

MovePlayer(p, d) ==
    /\ Ready /\ Alive(p) /\ sector[p] # 0 /\ <<sector[p], d>> \in Warps
    /\ SpendTurn(p)
    /\ everMoved' = [everMoved EXCEPT ![p] = TRUE]
    /\ LET hostile == HostileForces(p, d, garrison) IN
       \/ hostile = {} /\ Arrive(p, d, ship, garrison)
       \/ \E g \in hostile :
              IF garrison[g].FIGHTERS > 0 THEN Contest(p, d, g)
                                          ELSE Arrive(p, d, ship, garrison)
    /\ UNCHANGED <<lastSeen, expired, dayVars>>

\* Deliberately wrong: the field keeps going off under a ship that has escaped.
Minefield_NoBreak ==
    /\ cmd.op = "minefield"
    /\ LET p == cmd.who
           g == cmd.slot
           G == [garrison EXCEPT ![g].MINES = @ - 1]
           after == IF G[g].MINES > 0 THEN cmd ELSE Idle
           GoOn(S) == Settle(S, Swept(G, g)) /\ cmd' = after
           Lost(S) == WarpOrDie(p, S, Swept(G, g), planet) /\ cmd' = after
       IN Detonate(p, GoOn, Lost)
    /\ UNCHANGED <<playerVars, dayVars>>

\* One mine of the field goes off, until none is left or the ship is gone.
Minefield ==
    /\ cmd.op = "minefield"
    /\ LET p == cmd.who
           g == cmd.slot
           G == [garrison EXCEPT ![g].MINES = @ - 1]
           GoOn(S) == /\ Settle(S, Swept(G, g))
                      /\ cmd' = IF G[g].MINES > 0 THEN cmd ELSE Idle
           Lost(S) == WarpOrDie(p, S, Swept(G, g), planet) /\ cmd' = Idle
       IN Detonate(p, GoOn, Lost)
    /\ UNCHANGED <<playerVars, dayVars>>

-----------------------------------------------------------------------------
(* Ship against ship: AttackPlayer *)

Exchange(S, a, d, loss) == [S EXCEPT ![a]["FIGHTERS"] = @ - loss[1],
                                     ![d]["FIGHTERS"] = @ - loss[2]]

\* resolveKill: the victim escapes, or their ship breaks up and the mines it
\* carries start going off against the killer.
ResolveKill(killer, v, S) ==
    \/ EmWarp(v, S, garrison, planet) /\ cmd' = Idle
    \/ /\ S[v]["EMWARP"] < 1 /\ Settle(S, garrison)
       /\ cmd' = [Idle EXCEPT !.op = "carried", !.who = killer, !.other = v,
                              !.left = S[v]["MINES"]]

\* The automatic counter-attack: all the attacker has left is at stake, so one
\* of the two ends without fighters.
CounterAttack(a, t, S) ==
    \E loss \in AttritionLosses(S[a]["FIGHTERS"], S[t]["FIGHTERS"]) :
        LET S2 == Exchange(S, a, t, loss) IN
        IF S2[a]["FIGHTERS"] = 0 THEN WarpOrDie(a, S2, garrison, planet) /\ cmd' = Idle
                                 ELSE ResolveKill(a, t, S2)

AttackPlayer(a, t, commit) ==
    /\ Ready /\ Alive(a) /\ sector[a] > FedMax
    /\ Alive(t) /\ sector[t] = sector[a] /\ ~Dormant(t) /\ CanSee(a, t) /\ t # a
    /\ commit \in 1..ship[a]["FIGHTERS"]
    /\ SpendTurn(a)
    /\ \E loss \in AttritionLosses(commit, ship[t]["FIGHTERS"]) :
          LET S == Exchange(ship, a, t, loss) IN
          IF S[t]["FIGHTERS"] = 0 THEN ResolveKill(a, t, S)
          ELSE \/ Settle(S, garrison) /\ cmd' = Idle
               \/ CounterAttack(a, t, S)
    /\ UNCHANGED <<lastSeen, everMoved, expired, dayVars>>

\* detonateCarriedMines, one mine per step; when they are spent, or the killer
\* is, the victim dies.
Carried ==
    /\ cmd.op = "carried"
    /\ LET k == cmd.who
           GoOn(S) == Settle(S, garrison) /\ cmd' = [cmd EXCEPT !.left = @ - 1]
           Lost(S) == WarpOrDie(k, S, garrison, planet) /\ cmd' = [cmd EXCEPT !.left = 0]
       IN IF cmd.left = 0
          THEN ship' = ship /\ Kill(cmd.other, garrison, planet) /\ cmd' = Idle
          ELSE Detonate(k, GoOn, Lost)
    /\ UNCHANGED <<playerVars, dayVars>>

-----------------------------------------------------------------------------
(* Planets: InvadePlanet, UseGenesisDevice, TransferSet, the pulsar bombs *)

SettlePlanet(S, P) == ship' = S /\ planet' = P /\ UNCHANGED <<sector, diedAt, garrison>>

\* The garrison holds: a ship without fighters is lost, another withdraws.
Repelled(p, S, P) ==
    /\ IF S[p]["FIGHTERS"] = 0 THEN WarpOrDie(p, S, garrison, P) ELSE SettlePlanet(S, P)
    /\ cmd' = Idle

InvadePlanet(p, commit) ==
    /\ Ready /\ Alive(p) /\ commit \in 1..ship[p]["FIGHTERS"]
    /\ \E i \in PlanetsAt(sector[p]) :
          /\ planet[i].owner # p
          /\ SpendTurn(p)
          /\ \E loss \in AttritionLosses(commit, planet[i].FIGHTERS) :
                LET S == Less(ship, p, "FIGHTERS", loss[1])
                    P == [planet EXCEPT ![i].FIGHTERS = @ - loss[2]]
                IN IF P[i].FIGHTERS > 0 THEN Repelled(p, S, P)
                   ELSE /\ SettlePlanet(S, P)
                        /\ cmd' = [Idle EXCEPT !.op = "storm", !.who = p, !.slot = i,
                                        !.left = P[i].MINES, !.ships = ship[p]["FIGHTERS"]]
    /\ UNCHANGED <<lastSeen, everMoved, expired, dayVars>>

\* Out of mines: the invader has the planet, unless an assault that cost enough
\* leaves nothing of it.
Capture(p, i) ==
    /\ cmd' = Idle
    /\ \/ SettlePlanet(ship, [planet EXCEPT ![i].owner = p])
       \/ /\ cmd.ships - ship[p]["FIGHTERS"] >= CollapseLoss
          /\ SettlePlanet(ship, [planet EXCEPT ![i] = VacantPlanet])

\* Deliberately wrong: the minefield goes on after the invader has escaped it.
Storm_NoBreak ==
    /\ cmd.op = "storm"
    /\ LET p == cmd.who
           i == cmd.slot
           P == [planet EXCEPT ![i].MINES = @ - 1]
           after == [cmd EXCEPT !.left = @ - 1]
           GoOn(S) == SettlePlanet(S, P) /\ cmd' = after
           Lost(S) == WarpOrDie(p, S, garrison, P) /\ cmd' = after
       IN IF cmd.left = 0 THEN Capture(p, i) ELSE Detonate(p, GoOn, Lost)
    /\ UNCHANGED <<playerVars, dayVars>>

\* One planetary mine per step, until none is left or the invader is gone.
Storm ==
    /\ cmd.op = "storm"
    /\ LET p == cmd.who
           i == cmd.slot
           P == [planet EXCEPT ![i].MINES = @ - 1]
           GoOn(S) == SettlePlanet(S, P) /\ cmd' = [cmd EXCEPT !.left = @ - 1]
           Lost(S) == WarpOrDie(p, S, garrison, P) /\ cmd' = Idle
       IN IF cmd.left = 0 THEN Capture(p, i) ELSE Detonate(p, GoOn, Lost)
    /\ UNCHANGED <<playerVars, dayVars>>

UseGenesisDevice(p, name) ==
    /\ Ready /\ sector[p] > FedMax /\ PlanetsAt(sector[p]) = {}
    /\ ship[p]["GENESIS"] >= 1
    /\ \E i \in Pids :
          /\ ~Present(planet[i])
          /\ SettlePlanet(Less(ship, p, "GENESIS", 1),
                [planet EXCEPT ![i] = [VacantPlanet EXCEPT !.owner = p, !.name = name,
                                                           !.sector = sector[p]]])
    /\ UNCHANGED <<playerVars, dayVars, cmd>>

\* Deliberately wrong: the ship keeps what it leaves on the planet.
TransferSet_Keep(p, kind, amount) ==
    /\ Ready
    /\ \E i \in PlanetsAt(sector[p]) :
          /\ planet[i].owner = p /\ amount <= planet[i][kind] + ship[p][kind]
          /\ SettlePlanet(ship, [planet EXCEPT ![i][kind] = amount])
    /\ UNCHANGED <<playerVars, dayVars, cmd>>

\* TransferSet: leave `amount` fighters or mines on one's planet.
TransferSet(p, kind, amount) ==
    /\ Ready
    /\ \E i \in PlanetsAt(sector[p]) :
          /\ planet[i].owner = p /\ amount <= planet[i][kind] + ship[p][kind]
          /\ SettlePlanet(
                [ship EXCEPT ![p][kind] = planet[i][kind] + ship[p][kind] - amount],
                [planet EXCEPT ![i][kind] = amount])
    /\ UNCHANGED <<playerVars, dayVars, cmd>>

\* UsePulsar on one's own planet, UsePulsarTube on any: the planet is destroyed
\* once no production is left.
BombPlanet(p, bombs) ==
    /\ Ready /\ Alive(p) /\ bombs \in 1..ship[p]["PULSAR"]
    /\ \E i \in PlanetsAt(sector[p]) :
          /\ planet[i].owner = p \/ ship[p]["PULSARTUBE"] >= 1
          /\ SpendTurn(p)
          /\ \E P \in {planet, [planet EXCEPT ![i] = VacantPlanet]} :
                SettlePlanet(Less(ship, p, "PULSAR", bombs), P)
    /\ UNCHANGED <<lastSeen, everMoved, expired, dayVars, cmd>>

-----------------------------------------------------------------------------
(* Sector defense forces: AdjustBattlegroup *)

\* Deliberately wrong: somebody else's force in the sector is overlooked.
GetBattlegroup_Own(p) ==
    LET mine == {g \in Gids : garrison[g].owner = p /\ garrison[g].sector = sector[p]}
    IN IF mine = {} THEN {g \in Gids : ~Present(garrison[g])} ELSE mine

\* GetBattlegroup: one's own force here, a new one where there is none at all.
GetBattlegroup(p) ==
    LET here == {g \in Gids : Present(garrison[g]) /\ garrison[g].sector = sector[p]}
    IN IF here = {} THEN {g \in Gids : ~Present(garrison[g])}
                    ELSE {g \in here : garrison[g].owner = p}

AdjustBattlegroup(p, kind, amount) ==
    /\ Ready /\ sector[p] > FedMax
    /\ \E g \in GetBattlegroup(p) :
          LET total == garrison[g][kind] + ship[p][kind] IN
          /\ amount <= total
          /\ Settle([ship EXCEPT ![p][kind] = total - amount],
                    Swept([garrison EXCEPT ![g].owner = p, ![g].sector = sector[p],
                                           ![g][kind] = amount], g))
    /\ UNCHANGED <<playerVars, dayVars, cmd>>

-----------------------------------------------------------------------------
(* Strike fleets: LaunchBattleGroup and battleSector *)

Routes(len) == {r \in UNION {[1..n -> Sectors] : n \in 1..len} :
                    \A k \in 1..(Len(r) - 1) : <<r[k], r[k + 1]>> \in Warps}
AllRoutes == Routes(NumSec)

\* Dijkstra over unit warps answers with some path no other is shorter than.
ShortestPaths(from, to) ==
    {r \in AllRoutes : /\ r[1] = from /\ r[Len(r)] = to
                       /\ \A q \in AllRoutes :
                             q[1] = from /\ q[Len(q)] = to => Len(r) <= Len(q)}

LaunchBattleGroup(p, target, ships) ==
    /\ Ready /\ Alive(p) /\ target # sector[p] /\ ships \in 1..ship[p]["FIGHTERS"]
    /\ SpendTurn(p)
    /\ \E r \in ShortestPaths(sector[p], target) :
          cmd' = [Idle EXCEPT !.op = "transit", !.who = p, !.ships = ships,
                              !.route = Tail(r)]
    /\ Settle(Less(ship, p, "FIGHTERS", ships), garrison)
    /\ UNCHANGED <<lastSeen, everMoved, expired, dayVars>>

\* Deliberately wrong: Federation space is no sanctuary from a battle group.
ShipsMet_NoSanctuary(who, fleet, s) ==
    IF who \in Players /\ fleet > 1
    THEN {q \in Players \ {who} : /\ sector[q] = s /\ Alive(q) /\ everMoved[q]
                                  /\ ~Dormant(q) /\ CanSee(who, q)}
    ELSE {}

\* The ships a player's battle group of two or more picks a fight with.  A
\* faction's fleet engages nobody in transit.
ShipsMet(who, fleet, s) ==
    IF who \in Players /\ fleet > 1 /\ s > FedMax
    THEN {q \in Players \ {who} : /\ sector[q] = s /\ Alive(q) /\ everMoved[q]
                                  /\ ~Dormant(q) /\ CanSee(who, q)}
    ELSE {}

\* Deliberately wrong: the fleet never gets out of the sector it has fought in.
MoveOn_Stuck(fleet) == [cmd EXCEPT !.op = "transit", !.ships = fleet, !.slot = Nobody,
                             !.todo = IF cmd.who \in Players THEN {} ELSE @,
                             !.route = IF fleet = 0 THEN <<>> ELSE @]

\* What is left of the fleet goes on to the next sector; none left, none to go.
MoveOn(fleet) == [cmd EXCEPT !.op = "transit", !.ships = fleet, !.slot = Nobody,
                             !.todo = IF cmd.who \in Players THEN {} ELSE @,
                             !.route = IF fleet = 0 THEN <<>> ELSE Tail(@)]

\* The defense force is dealt with: look for ships.
MeetShips(fleet) ==
    LET met == ShipsMet(cmd.who, fleet, Head(cmd.route)) IN
    cmd' = IF met = {} THEN MoveOn(fleet)
           ELSE [cmd EXCEPT !.op = "engage", !.ships = fleet, !.slot = Nobody, !.todo = met]

\* Enter the next sector of the route: fight the hostile force there.
Transit ==
    /\ cmd.op = "transit" /\ cmd.route # <<>>
    /\ LET hostile == HostileForces(cmd.who, Head(cmd.route), garrison) IN
       \/ hostile = {} /\ Settle(ship, garrison) /\ MeetShips(cmd.ships)
       \/ \E g \in hostile :
          \E loss \in AttritionLosses(cmd.ships, garrison[g].FIGHTERS) :
             LET fleet == cmd.ships - loss[1]
                 G == [garrison EXCEPT ![g].FIGHTERS = @ - loss[2]]
             IN IF G[g].MINES > 0 /\ fleet > 0 /\ fleet >= FleetTrigger
                THEN /\ Settle(ship, G)
                     /\ cmd' = [cmd EXCEPT !.op = "sweep", !.ships = fleet, !.slot = g]
                ELSE Settle(ship, Swept(G, g)) /\ MeetShips(fleet)
    /\ UNCHANGED <<playerVars, dayVars>>

\* One mine of the field goes off under the fleet.
Sweep ==
    /\ cmd.op = "sweep"
    /\ \E b \in Blasts :
         LET g == cmd.slot
             fleet == cmd.ships - AtMost(b, cmd.ships)
             G == [garrison EXCEPT ![g].MINES = @ - 1]
         IN IF G[g].MINES > 0 /\ fleet > 0
            THEN Settle(ship, G) /\ cmd' = [cmd EXCEPT !.ships = fleet]
            ELSE Settle(ship, Swept(G, g)) /\ MeetShips(fleet)
    /\ UNCHANGED <<playerVars, dayVars>>

\* One ship met there is attacked; its pilot may well be offline.
Engage ==
    /\ cmd.op = "engage"
    /\ \E q \in cmd.todo :
       \E loss \in AttritionLosses(cmd.ships, ship[q]["FIGHTERS"]) :
          LET S == Less(ship, q, "FIGHTERS", loss[2])
              fleet == cmd.ships - loss[1]
          IN /\ IF S[q]["FIGHTERS"] = 0 THEN WarpOrDie(q, S, garrison, planet)
                                         ELSE Settle(S, garrison)
             /\ cmd' = IF fleet = 0 \/ cmd.todo = {q} THEN MoveOn(fleet)
                       ELSE [cmd EXCEPT !.ships = fleet, !.todo = @ \ {q}]
    /\ UNCHANGED <<playerVars, dayVars>>

\* The survivors of a player's battle group rejoin the ship.
FleetHome ==
    /\ cmd.op = "transit" /\ cmd.route = <<>> /\ cmd.who \in Players
    /\ Settle([ship EXCEPT ![cmd.who]["FIGHTERS"] = @ + cmd.ships], garrison)
    /\ cmd' = Idle
    /\ UNCHANGED <<playerVars, dayVars>>
=============================================================================
