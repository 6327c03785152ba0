---------------------------- MODULE GalaxyNight ----------------------------
(***************************************************************************)
(* Module Galaxy put to work: days pass, players log in, and once a day    *)
(* the maintenance daemon runs RunDailyMaintenance on the actor (turns,    *)
(* planets, the long absent, then the factions: maintenance.go, death.go,  *)
(* factions.go).  The night is one command of the actor, but a long one:   *)
(* the raids of the awake factions are fleets like the players' own.       *)
(* What wakes a faction, what a player is worth and what a faction's       *)
(* budget buys are choices.                                                *)
(***************************************************************************)
EXTENDS Galaxy, FiniteSetsExt

CONSTANT RaidFloor   \* smallest force a raid is sent with (100 in the code)

ASSUME RaidFloorAssumption == RaidFloor \in Nat

\* There are only so many players, forces and planets to count the fighters of.
ASSUME FiniteAssumption == IsFiniteSet(Players) /\ IsFiniteSet(Gids) /\ IsFiniteSet(Pids)

HQ == [cabal |-> "Cabal Stronghold", renegades |-> "Renegade Nest"]

-----------------------------------------------------------------------------
(* Days, logins, death and absence *)

DayPasses ==
    /\ Ready /\ day < MaxDay
    /\ day' = day + 1
    /\ UNCHANGED <<ship, sector, diedAt, playerVars, garrison, planet, lastMaint, cmd>>

\* A session starts: TouchLastSeen, then ReconstructIfDue - a ship lost on an
\* earlier day is rebuilt at Sol, and the Fusion Cell's reserve went with it.
Login(p) ==
    /\ Ready
    /\ lastSeen' = [lastSeen EXCEPT ![p] = day]
    /\ expired' = [expired EXCEPT ![p] = FALSE]
    /\ IF ~Alive(p) /\ diedAt[p] # day
       THEN /\ ship' = [ship EXCEPT ![p] = StarterKit]
            /\ sector' = [sector EXCEPT ![p] = 1]
            /\ diedAt' = [diedAt EXCEPT ![p] = 0]
            /\ turns' = [turns EXCEPT ![p] = TurnsPerDay]
            /\ banked' = [banked EXCEPT ![p] = 0]
       ELSE UNCHANGED <<ship, sector, diedAt, turns, banked>>
    /\ UNCHANGED <<everMoved, garrison, planet, dayVars, cmd>>

\* Deliberately wrong: the reserve has no limit.
Rested_Uncapped(p) == IF ship[p]["FUSIONCELL"] >= 1 THEN banked[p] + turns[p] ELSE 0

\* A Fusion Cell banks what the day left, up to one day's allowance.
Rested(p) ==
    IF ship[p]["FUSIONCELL"] >= 1 THEN AtMost(banked[p] + turns[p], TurnsPerDay) ELSE 0

\* What growPlanet leaves of a planet that builds so many fighters and mines: mines
\* beyond the maximum are lost, stored ones too.
Grown(x, fighters, mines) ==
    [x EXCEPT !.FIGHTERS = @ + fighters, !.MINES = AtMost(@ + mines, MaxMines)]

Growths ==
    {[i \in Pids |-> IF Present(planet[i]) THEN Grown(planet[i], f[i], m[i]) ELSE planet[i]] :
        f \in [Pids -> 0..MaxGrowth], m \in [Pids -> 0..MaxGrowth]}

\* The factions abroad act in this order.
TurnOf(f, awake) == [Idle EXCEPT !.op = "gate", !.who = f, !.awake = awake]
FirstOf(awake) == IF "cabal" \in awake THEN "cabal" ELSE "renegades"

RunDailyMaintenance ==
    /\ Ready /\ lastMaint # day
    /\ LET E == {p \in Players : IsExpired(p)} IN
       /\ banked' = [p \in Players |-> IF p \in E THEN 0 ELSE Rested(p)]
       /\ turns' = [p \in Players |-> TurnsPerDay]
       /\ ship' = [p \in Players |-> IF p \in E THEN StarterKit ELSE ship[p]]
       /\ sector' = [p \in Players |-> IF p \in E THEN 1 ELSE sector[p]]
       /\ expired' = [p \in Players |-> p \in E \/ expired[p]]
       /\ garrison' = ForfeitForces(garrison, E)
       /\ \E P \in Growths : ForfeitPlanets(P, E)
    /\ \/ cmd' = Idle /\ lastMaint' = day
       \/ \E awake \in SUBSET {"cabal", "renegades"} \ {{}} :
             cmd' = TurnOf(FirstOf(awake), awake) /\ UNCHANGED lastMaint
    /\ UNCHANGED <<diedAt, lastSeen, everMoved, day>>

-----------------------------------------------------------------------------
(* The factions' turns: runFactionAI *)

Strongholds(f) == {i \in Pids : planet[i].owner = f /\ planet[i].name = HQ[f]}

NextFaction ==
    IF cmd.who = "cabal" /\ "renegades" \in cmd.awake
    THEN TurnOf("renegades", cmd.awake)
    ELSE [Idle EXCEPT !.op = "counter"]

\* The Cabal hunts the leader before it raids; the Renegades only raid.
Muster(i) == [cmd EXCEPT !.op = IF cmd.who = "cabal" THEN "hunt" ELSE "mayhem", !.src = i]

\* Deliberately wrong: a sector with a planet will do.
FreeSectors_Any == {s \in Sectors : s > FedMax}

\* freeSectorForPlanet
FreeSectors == {s \in Sectors : s > FedMax /\ PlanetsAt(s) = {}}

\* gateFactionPlanet: nothing, if the faction is rich enough; else fill its
\* stronghold up, to the cap at most, raising one in deep space if it has none.
Gate ==
    /\ cmd.op = "gate"
    /\ LET f == cmd.who
           hq == Strongholds(f)
       IN \/ hq = {} /\ cmd' = NextFaction /\ UNCHANGED planet
          \/ \E i \in hq : cmd' = Muster(i) /\ UNCHANGED planet
          \/ \E i \in hq, n \in 1..StrongholdCap :
                /\ planet[i].FIGHTERS + n <= StrongholdCap
                /\ planet' = [planet EXCEPT ![i].FIGHTERS = @ + n]
                /\ cmd' = Muster(i)
          \/ \E i \in Pids, s \in FreeSectors, n \in 1..StrongholdCap :
                /\ hq = {} /\ ~Present(planet[i])
                /\ planet' = [planet EXCEPT ![i] =
                     [owner |-> f, sector |-> s, FIGHTERS |-> n, MINES |-> 0,
                      name |-> HQ[f]]]
                /\ cmd' = Muster(i)
    /\ UNCHANGED <<ship, sector, diedAt, garrison, playerVars, dayVars>>

\* Deliberately wrong: the stronghold keeps the fighters it sends out.
Strike_NotCharged(t, ships, then) ==
    LET src == cmd.src
        force == AtMost(ships, planet[src].FIGHTERS)
        routes == ShortestPaths(planet[src].sector, sector[t])
    IN /\ UNCHANGED planet
       /\ IF sector[t] <= FedMax \/ force < 1 \/ routes = {}
          THEN cmd' = then
          ELSE \E r \in routes :
                  cmd' = [then EXCEPT !.op = "transit", !.next = then.op, !.other = t,
                                      !.ships = force, !.route = Tail(r)]

\* factionStrike, `then` being where its caller goes on: no fleet leaves if the
\* target shelters in Federation space, no fighters are left or no route leads
\* there.
Strike(t, ships, then) ==
    LET src == cmd.src
        force == AtMost(ships, planet[src].FIGHTERS)
        routes == ShortestPaths(planet[src].sector, sector[t])
    IN IF sector[t] <= FedMax \/ force < 1 \/ routes = {}
       THEN cmd' = then /\ UNCHANGED planet
       ELSE /\ planet' = [planet EXCEPT ![src].FIGHTERS = @ - force]
            /\ \E r \in routes :
                  cmd' = [then EXCEPT !.op = "transit", !.next = then.op, !.other = t,
                                      !.ships = force, !.route = Tail(r)]

\* Deliberately wrong: the absent are fair game.
Targets_All == {p \in Players : Alive(p)}

\* Active players: the hunted, and those a raid may be worth its while.
Targets == {p \in Players : Alive(p) /\ ~Dormant(p)}

\* The Cabal hunts the leader with half its fighters, if one is worth it.
Hunt ==
    /\ cmd.op = "hunt"
    /\ LET then == [cmd EXCEPT !.op = "mayhem"] IN
       \/ cmd' = then /\ UNCHANGED planet
       \/ \E t \in Targets : Strike(t, planet[cmd.src].FIGHTERS \div 2, then)
    /\ UNCHANGED <<ship, sector, diedAt, garrison, playerVars, dayVars>>

\* factionMayhem draws up the list of players worth a raid ...
Mayhem ==
    /\ cmd.op = "mayhem"
    /\ \E pool \in SUBSET {p \in Targets : sector[p] > FedMax} :
          cmd' = [cmd EXCEPT !.op = "raids", !.todo = pool, !.left = Raids]
    /\ UNCHANGED <<ship, sector, diedAt, garrison, planet, playerVars, dayVars>>

\* ... and strikes them one by one, each with about the target's own strength.
Raid ==
    /\ cmd.op = "raids"
    /\ IF cmd.left = 0 \/ cmd.todo = {} \/ planet[cmd.src].FIGHTERS < 1
       THEN cmd' = NextFaction /\ UNCHANGED planet
       ELSE \E t \in cmd.todo :
              Strike(t, IF ship[t]["FIGHTERS"] < RaidFloor THEN RaidFloor
                                                         ELSE ship[t]["FIGHTERS"],
                     [cmd EXCEPT !.left = @ - 1, !.todo = @ \ {t}])
    /\ UNCHANGED <<ship, sector, diedAt, garrison, playerVars, dayVars>>

\* What is left of the fleet fights the target; the survivors return.
RaidHome ==
    /\ cmd.op = "transit" /\ cmd.route = <<>> /\ cmd.who \in NPCs
    /\ \E loss \in IF cmd.ships = 0 THEN {<<0, 0>>}
                    ELSE AttritionLosses(cmd.ships, ship[cmd.other]["FIGHTERS"]) :
          LET t == cmd.other
              S == Less(ship, t, "FIGHTERS", loss[2])
              P == [planet EXCEPT ![cmd.src].FIGHTERS = @ + (cmd.ships - loss[1])]
          IN IF cmd.ships > 0 /\ S[t]["FIGHTERS"] = 0 THEN WarpOrDie(t, S, garrison, P)
                                                    ELSE SettlePlanet(S, P)
    /\ cmd' = [cmd EXCEPT !.op = cmd.next, !.next = "idle", !.other = Nobody, !.ships = 0]
    /\ UNCHANGED <<playerVars, dayVars>>

\* fedCounterCabal, and the night is over.
FedCounter ==
    /\ cmd.op = "counter"
    /\ LET hq == Strongholds("cabal") IN
       IF hq = {} THEN UNCHANGED planet
       ELSE \E i \in hq : planet' = [planet EXCEPT ![i].FIGHTERS = @ - @ \div 4]
    /\ cmd' = Idle /\ lastMaint' = day
    /\ UNCHANGED <<ship, sector, diedAt, garrison, playerVars, day>>

-----------------------------------------------------------------------------
(* The game *)

\* Quantities a command may name: no larger than what there is to name.
Amounts(p, kind) ==
    0..(ship[p][kind] + MapThenSumSet(LAMBDA i : planet[i][kind], Pids)
                      + MapThenSumSet(LAMBDA g : garrison[g][kind], Gids))

PlayerCommand(p) ==
    \/ \E d \in Sectors : MovePlayer(p, d)
    \/ \E t \in Players, n \in 1..ship[p]["FIGHTERS"] : AttackPlayer(p, t, n)
    \/ \E n \in 1..ship[p]["FIGHTERS"] : InvadePlanet(p, n)
    \/ \E s \in Sectors, n \in 1..ship[p]["FIGHTERS"] : LaunchBattleGroup(p, s, n)
    \/ \E kind \in {"FIGHTERS", "MINES"} : \E n \in Amounts(p, kind) :
          AdjustBattlegroup(p, kind, n) \/ TransferSet(p, kind, n)
    \/ \E name \in GivenNames : UseGenesisDevice(p, name)
    \/ \E n \in 1..ship[p]["PULSAR"] : BombPlanet(p, n)
    \/ Login(p)

\* The command the actor is in the middle of goes on.
Resume ==
    \/ Minefield \/ Carried \/ Storm
    \/ Transit \/ Sweep \/ Engage \/ FleetHome
    \/ Gate \/ Hunt \/ Mayhem \/ Raid \/ RaidHome \/ FedCounter

Next == (\E p \in Players : PlayerCommand(p)) \/ DayPasses \/ RunDailyMaintenance \/ Resume

Spec == Init /\ [][Next]_vars

\* The actor's goroutine runs, so a command it has begun goes on.
FairSpec == Spec /\ WF_vars(Resume)

-----------------------------------------------------------------------------
(* Properties *)

Forces  == {g \in Gids : Present(garrison[g])}
Colonies == {i \in Pids : Present(planet[i])}

\* Types.  Quantities are naturals, so the engine's clamp at zero (base.go,
\* AdjustQuantity: "callers are required to validate before mutating") never
\* has anything to do; neither the day's turns nor the Fusion Cell's reserve
\* ever exceed one day's allowance.
TypeOK ==
    /\ ship \in [Players -> [Goods -> Nat]]
    /\ sector \in [Players -> 0..NumSec] /\ diedAt \in [Players -> 0..day]
    /\ lastSeen \in [Players -> 1..day]
    /\ everMoved \in [Players -> BOOLEAN] /\ expired \in [Players -> BOOLEAN]
    /\ turns \in [Players -> 0..TurnsPerDay] /\ banked \in [Players -> 0..TurnsPerDay]
    /\ garrison \in [Gids -> [owner : Owners \union {Nobody}, sector : 0..NumSec,
                              FIGHTERS : Nat, MINES : Nat]]
    /\ planet \in [Pids -> [owner : Owners \union {Nobody}, sector : 0..NumSec,
                            FIGHTERS : Nat, MINES : Nat, name : PlanetNames]]
    /\ day \in Nat /\ lastMaint \in 0..day
    /\ cmd.left \in Nat /\ cmd.ships \in Nat

\* One defense force and one planet per sector, none of them in Federation space,
\* whatever is deployed, inherited, captured, gated or created; and between commands
\* no force is an empty shell, which would keep others from defending the sector.
OnePerSector ==
    /\ \A g, h \in Forces : garrison[g].sector = garrison[h].sector => g = h
    /\ \A i, j \in Colonies : planet[i].sector = planet[j].sector => i = j
    /\ \A g \in Forces : garrison[g].sector > FedMax
    /\ \A i \in Colonies : planet[i].sector > FedMax
    /\ Ready => \A g \in Forces : garrison[g].FIGHTERS + garrison[g].MINES > 0

\* The dead are off the map and hold nothing, the living are on it.
DeadHoldNothing ==
    \A p \in Players :
        /\ Alive(p) <=> sector[p] # 0
        /\ ~Alive(p) => /\ \A g \in Gids : garrison[g].owner # p
                        /\ \A i \in Pids : planet[i].owner # p

\* A minefield goes off only under a ship that is still there, and only as long
\* as it has mines: nobody dies of mines they escaped from.
MinesHitWhoIsThere ==
    /\ cmd.op = "minefield" =>
          /\ Alive(cmd.who) /\ sector[cmd.who] = garrison[cmd.slot].sector
          /\ garrison[cmd.slot].owner \notin {Nobody, cmd.who}
          /\ garrison[cmd.slot].MINES > 0
    /\ cmd.op = "storm" =>
          /\ Alive(cmd.who) /\ sector[cmd.who] = planet[cmd.slot].sector
          /\ planet[cmd.slot].MINES = cmd.left /\ ship[cmd.who]["FIGHTERS"] > 0
    /\ cmd.op = "carried" =>
          /\ Alive(cmd.other) /\ cmd.who # cmd.other
          /\ cmd.left > 0 => Alive(cmd.who) /\ sector[cmd.who] = sector[cmd.other]

\* All the fighters of the galaxy, those on a strike included.
Total(h, S) == MapThenSumSet(LAMBDA x : h[x], S)
Aboard(S)  == Total([p \in Players |-> S[p]["FIGHTERS"]], Players)
OnGuard(G) == Total([g \in Gids |-> G[g].FIGHTERS], Gids)
Based(P)   == Total([i \in Pids |-> P[i].FIGHTERS], Pids)
AtSea(c)   == IF c.op \in {"transit", "sweep", "engage"} THEN c.ships ELSE 0
AllFighters == Aboard(ship) + OnGuard(garrison) + Based(planet) + AtSea(cmd)

\* No battle, transfer, strike or death ever creates a fighter: there are more
\* of them only after a reconstruction, nightly maintenance or a gating.
NoFightersFromNothing ==
    [][AllFighters' > AllFighters =>
          \/ \E p \in Players : ~Alive(p) /\ diedAt'[p] = 0
          \/ Ready /\ lastMaint # day /\ (cmd'.op = "gate" \/ lastMaint' = day)
          \/ cmd.op = "gate"]_vars

SpentTurn(p) == turns'[p] < turns[p] \/ banked'[p] < banked[p]
Harmed(p) == diedAt'[p] # diedAt[p] \/ ship'[p]["FIGHTERS"] < ship[p]["FIGHTERS"]

\* Federation space is a sanctuary: a ship there loses fighters, or its life, by
\* its own pilot's command alone, or by absence (attacks, battle groups, raids
\* and the chain reactions they set off never reach it).
FedSanctuary ==
    [][\A p \in Players : Alive(p) /\ sector[p] <= FedMax /\ Harmed(p) =>
          SpentTurn(p) \/ IsExpired(p)]_vars

\* The factions' raids, and others' commands, harm nobody who shelters in Federation
\* space, is dormant or never left dock (repossession aside), though the list of
\* targets is drawn up before the raids that change who is where.  The dormant keep
\* their ship, armed or not; what costs them fighters is a transfer of their own
\* to a planet or a force (which loses none) or a command of theirs still running.
HiddenAreSafe ==
    [][\A p \in Players :
          Alive(p) /\ Harmed(p) /\ ~SpentTurn(p) /\ ~IsExpired(p) =>
             /\ sector[p] > FedMax
             /\ /\ Dormant(p) \/ ~everMoved[p]
                /\ diedAt'[p] # diedAt[p] \/ AllFighters' < AllFighters
                => cmd.who = p]_vars

\* Every command comes to an end: the loops over mines, routes, ships and raids
\* all finish, and the actor is free for the next one.
CommandsEnd == []<>Ready
=============================================================================
