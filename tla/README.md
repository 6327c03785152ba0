# galwar2025 in TLA+

A verification project for the Galactic Warzone server (`src/`): TLA+ modules that
model its core logic, TLC configurations that model-check them on small instances,
and TLAPS proofs of the results that should hold for every instance. Definitions
keep the names of the Go functions they model; `PROJECT.json` maps each one to its
lines.

* [1. The system](#1-the-system): components, state, interactions, hazards
* [2. Modules](#2-modules): what each models and how it corresponds to the code
* [3. Runs](#3-runs): what is checked, with which bounds, and what it shows
* [4. Proofs](#4-proofs)
* [5. Disagreements between the code and its comments](#5-disagreements-between-the-code-and-its-comments)
* [6. Not modelled, and the plan](#6-not-modelled-and-the-plan)

## 1. The system

One server process hosts one universe. Everything that reads or changes the universe
runs as a task on a single goroutine, the **universe actor**; sessions (web or telnet),
the maintenance daemon and the persister submit closures to it with `Do` and wait.

```
 browser --ws--> gameSession --+                         +--> Persister --> SQLite
                               +--> ConsoleUI --Do--> actor/universe
 telnet ------> serve ---------+                         +<-- maintenance daemon (Do)
```

| Component | State | Operations | Interacts by | What is hard | Correct when |
|---|---|---|---|---|---|
| Universe actor (`actor.go`) | task channel, the universe | `Start`, `Do`, `DoErr`, `runTask` (recovers panics) | closures over an unbuffered channel | a command that panics half-way; anything that runs off the actor | commands are atomic; the actor always comes back |
| Persister and store (`persister.go`, `snapshot.go`, `store.go`, `main.go`) | kick slot, quit, throttle timer, database | `Notify`, `run`, `flush`, `Stop`, `SaveUniverse`, `LoadUniverse` | `MarkDirty`, `Do` for the snapshot | notifications racing the flush, failing saves, crashes between statements, shutdown | the disk is one whole universe some command left behind; nothing announced is forgotten; bounded staleness |
| Attrition (`combat.go:20-56`) | two loss counters | `attrition` | called by all combat | two coins that may land on opposite sides | never more lost than there is; exactly one side left |
| Movement and combat (`commands.go`, `combat.go`, `specials.go`) | ships, sectors, turns | `MovePlayer`, `AttackPlayer`, `InvadePlanet`, `LaunchBattleGroup`, bombs, escapes | changes forces, planets and other players | loops over mines and routes under a ship that may die or escape; chain reactions on a kill | mines hit who is there; sanctuaries hold; nothing is created by fighting |
| Sector defense forces (`battlegroup.go`) | list of forces | `AdjustBattlegroup`, removal when empty | contested by moves and fleets, inherited on death | ownership that changes in the middle of a battle | one force per sector, no empty shells |
| Planets (`planet.go`) | list of planets | genesis, `TransferSet`, growth, bombs | captured, inherited, gated | the same | one planet per sector, none in Federation space |
| Death, dormancy, expiry (`death.go`, `dormancy.go`) | `DiedAt`, `LastSeen`, `Expired` | `KillPlayer`, `forfeitAssets`, `ReconstructIfDue`, `ExpirePlayer` | called from combat, maintenance and session start | forfeiture while combat holds pointers to what is forfeited | the dead hold nothing and are off the map; the absent are left alone |
| Daily maintenance (`maintenance.go`) | last date run | `RunDailyMaintenance` | the daemon, through `Do` | one long command everybody waits for | it ends; turns stay within the allowance |
| Faction AI (`factions.go`) | strongholds (planets found by name) | gating, hunts, mayhem, counter-strike | strike fleets against players who may be offline | target lists that go stale during the night | conservation of fighters; sanctuary; the hidden are safe |
| News (`news.go`) | one capped list | `AddNews`, `TakeNews`, trim | combat writes, sessions take and print | two caps that compete; taken before it is printed | told once, in order, latest kept; what is printed is seen |
| Trade and port stock (`ops.go`, `commodity.go`, `port.go`) | stock and restock clock per good; ship's money, holds, cargo | `Dock`, `Restock`, `TradeBuy`, `TradeSell`, `TradeBuyNoLimit` | from docking dialogues | rounding in three places, a quote that is old when used, two sessions on one ship | the stock pays for every trade and never goes below nothing; accrual is not rounded away |
| Bank (`bank.go`) | balance per player | deposit, withdraw, interest | docking dialogue, maintenance | death between prompt and answer | money is moved, never made |
| Web portal (`webserver/`) | register of sessions, per-session channels | `attach`, `detach`, `ReadLine`, `Printf`, `close`, `run` | runs a `ConsoleUI` | take-over while the old session leaves; buffered input after a close; three goroutines on bounded channels and a browser that may stall | newest wins: one live session per player; a closed session ends altogether, its output written |
| Telnet gateway (`telnetserver/`) | set of connections, per-connection input buffer | `acceptLoop`, `serve`, `authenticate`, `readLineEcho`, `Stop` | runs a `ConsoleUI` | shares players with the web portal, unregistered there; a byte stream cut anywhere | the dialogue gets the lines that were typed; floods are held off; sessions end |
| Console UI (`consoleui/`) | current prompt, port docked at | `SessionStart`, `Run`, dialogues | commands through `Do` | what a prompt remembers is stale when it is answered | the dead are shown out and cannot act |
| Player registry, moderation (`player.go`, `admin.go`, `pkg/moderation`) | players, bans, reports, audit ring | look-up, `RegisterPlayer`, `SetBanned`, `ForceRename`, `FileReport` | log-in dialogues, sysop menu | a log-in or a ban is several visits to the actor; handles are freed and reused | unique handles; the banned stay out; a name means who it meant; an account keeps its player |
| Rate limiter (`ratelimit/`) | token buckets per address and per connection | `Allow`, `Wait`, the sweep | telnet accept loop and line input, web log-in | lazy refills, forgotten buckets | exactly the rate and the burst, no more and no less |
| Map and routes (`init.go`, `universe.go`, `specials.go`) | sectors, warps | `Generate`, `repairConnectivity`, `UsePlasma`, `ShortestPathTo` | moves, fleets, autopilot | random cuts, one-way warps | every sector reachable in a new universe; a shortest route whenever there is one |
| Configuration, ranking, profanity filter, texts | tables | lookups | - | little | - |

The hazards of the code, each at its line and with the properties that would catch it
going wrong, are listed in `PROJECT.json`.

## 2. Modules

Every module takes its parameters as named, assumed CONSTANTS; no module uses RECURSIVE
operators. Definitions marked *Deliberately wrong* are plausible bugs (one per property
and run, listed as `mutants`); each makes its property fail.

| Module | Models |
|---|---|
| `DurableWorld` | the abstract promise of persistence: a crash comes back to a universe some command left behind |
| `Persistence` | actor, dirty marking, `Persister.run`, saves, crash, restart, shutdown; implements `DurableWorld` |
| `Losses` | what an exchange of fire promises |
| `Attrition` | the loop of `attrition`, which keeps that promise |
| `Galaxy` | ships, forces, planets and all the commands that move fighters, mines or ownership; builds on `Losses` |
| `GalaxyNight` | extends `Galaxy` with days, logins, maintenance and the factions' night; the specification |
| `News` | the news list |
| `WebSession` | extends `News` with a browser's connection: the goroutines and channels the news takes to get there |
| `Trade` | the engine of one port, the bank, the holds sold at Sol, death and reconstruction |
| `Sessions` | extends `Trade` with the sessions from whose prompts the commands come |
| `Starmap` | the generator's warps, the connectivity repair, plasma devices, the route computer |
| `Registry` | how a connection comes by a player, or registers one, against bans, renames and reports |
| `Allowance` | what a rate limit promises |
| `RateLimit` | the token buckets by client address; implements `Allowance` |
| `Telnet` | extends `RateLimit` with the accept loop, the throttle on lines and the line discipline |
| `MCPersistence`, `MCGalaxy`, `MCNews`, `MCSessions`, `MCStarmap`, `MCRegistry`, `MCTelnet` | values for TLC |
| `PersistenceProofs`, `AttritionProofs`, `GalaxyProofs`, `NewsProofs`, `SessionsProofs`, `StarmapProofs`, `RegistryProofs`, `TelnetProofs` | theorems |

**Persistence.** The universe is a version number `mem`; a command makes any number of
mutations, calls `MarkDirty` and ends, and the persister may run between any two of these
steps. `pstate` is the position of the goroutine in `run` (the two selects, the drain, the
flush). A save writes table by table in a transaction (`tx`) and commits, fails at any
statement, or is cut off by a crash. `Tick` is one unit of time, which passes only when no
goroutine has a step to take that does not wait. `base` is the version at the last moment
the actor was idle, `worlds` the set of those: history for the refinement. What
`DurableWorld` demands of `durable` is that it moves only forward, only to a member of
`worlds`.

**Losses, Attrition.** The loop's coins are choices. The other modules use
`AttritionLosses`, the set of all results with exactly one side wiped out, in place of
the loop.

**Galaxy, GalaxyNight.** One action is one command (`MovePlayer`, `AttackPlayer`, ...)
with all its effects. A command whose code loops over mines, sectors of a route, ships or
raids is a run of steps; `cmd` holds the loop's local variables, and no other command
starts until it is idle, as on the actor. Refused commands change nothing and are no
step. Chance (coins, blast sizes, escapes, heirs, how planets grow, which faction wakes
and whom it finds worth a raid) is a choice. Simplifications:

* money, cargo, holds, salvage, system damage and repair, the plasma device and docking are
  left out: here they could only refuse a command;
* what a player buys at Sol is a choice of kit in `Init`; later purchases (turns included)
  are not modelled;
* time is counted in days (death, absence and maintenance compare dates or days);
* `ShortestPaths` is what Dijkstra promises: any shortest route;
* what a planet builds in a day is any number of fighters and of mines up to `MaxGrowth`; mines are
  cut back to `MaxMines`, as in `growPlanet`; the rates themselves are left out;
* slots (`Gids`, `Pids`) bound the number of forces and planets; a command that would need
  one more is not explored.

**News.** An item's text is a number in order of queueing; `told` is the history of what a
player was shown.

**WebSession.** `web` holds, for each browser, the state of its connection: where the game's
goroutine is (`ui`), what it has taken from the list and not printed (`toPrint`), the two
channels (`lines`, `out`), `closed`, the reader (`rd`: in `ReadMessage`, holding a line, done), the
writer (`wr`: waiting, in a write, draining, done, failed) with the message in its `hand`, and the
browser (`link`: up, stalled once a write has missed its deadline, gone). `screen` is what it has
shown. Of the output only news is followed; the rest (prompts, notices, farewells) takes part in
that it may have filled the buffer, so `Printf` may overflow at any time, which is more than the
code can do. Which session is evicted is a choice (module `Sessions` has the register), commands are
`Galaxy`'s and `Trade`'s. `News`'s own `TakeNews` stays: a player also comes by telnet, or with a newer
session.

**Trade.** The engine's own view, without sessions: one port, its stock and restock clock,
money, holds, cargo and account of each ship. `ScaleDown` is stated as the least quantity
whose `ScaleUp` covers the trade, which is what the code's loop finds; that the loop starts
at or below it follows from the factor being at least 1. Prices and scaled quantities are
`float64` expressions in the code: the model takes the exact quotient rounded down, with
one exception that matters. The factor `holds/50` is rounded, so a product that should be
whole may come out just below it (57 holds and 50 units give 56 and not 57, 58 and 25 give
28, 70 and 45 give 62): the pairs in `Short` lose one. The proofs hold for every set
`Short`; the runs use these three pairs. A docking's turn and a damaged cargo bay, which
only refuse, and the forfeiture at death (module `Galaxy`) are left out. `diedAt` records
the day of the death, which is all `ReconstructIfDue` compares.

**Sessions.** `pc` is where each session's goroutine is. A web session passes `attach` (one
step under the lock) and then closes the session it displaced (`evict`); a telnet session goes
straight to `start`. In `cmd`, `sell`, `buy`, `bank` and `sol` it waits in `ReadLine`. Each
answer runs one command on the actor. `web` are the registered kind, `closed` those whose
`closed` channel is closed: they may still find a buffered line, because `select` takes either
case. `offer`
is what the bank's dialogue has read at the start of a round and proposes at its amount
prompts. A failing `ReadLine` (`HangUp`) ends the session, but `GetInput` hands an empty answer
to the prompt first, and the bank's prompts take it as a bare Enter (`TakeDefault`); the port's
prompts look at `Terminated` and do nothing. `docked` is a ghost variable, the life in which the
session docked. Simplifications: one trading port, the
bank and Sol are the only places; the bank's menu and its amount prompt, between which nothing
is read, are one place to wait; asking `isDead` and opening the next prompt is one step (a
death in between is seen at the next round, like one at the prompt), looking up the port
and `Dock` too; registration, credentials, bans, news and output are left out; a
connection's name is not used again while somebody refers to its last holder (a Go
pointer does not get a new meaning).

**Starmap.** The warps are a set of pairs, since one of the generator's steps can leave a warp
that leads one way only. `op` is the loop that runs: `links`, `relink`, `deadends`, then the
repair's `bfs` and `scan`, then `idle`, in which plasma devices are used and searches started
(`settle`, `walk`). One action is one round of a loop, `left` counts the rounds (in `scan`
it is the sector looked at, in `settle` the current sector). Where `rand` chooses, the model
may choose anything. The bfs takes its queue in any order, which makes no difference to what
it marks. Ports and planets are left out; so is a search from or to a sector there is not,
which is answered at once; so are the ship that uses the plasma device, its turn
and its stock of devices.

**Registry.** `conn` is where each connection stands in its log-in: the web portal's look-up
and registration prompt, the telnet gateway's handle, password and new-password prompts, then
the game; each visit to the actor is one action, and what a dialogue has read on an earlier
visit (the ban, the number of tries) it keeps in its record. `sysopBan` visits the actor twice
(`SetBanned`, `BanResolves`). Players are identified by their position in `u.Players`, which is
only ever appended to and is loaded in the order saved. An account of the web portal is its `sub`; it
comes with an address, and `Logins` says with which: two accounts may come with one address, and one
account with several. `lookupPlayer` finds a record by the sub, or adopts the first with the address if
that has no sub yet; it runs when a session starts (`Look`) and when the page asks who is logged in
(`HandleMe`). `Norm` and `Decent` stand for
`moderation.Normalize` and `CheckName`; whether a password is right is a choice. The ghost
variable `shut` holds, for each connection, who has been banned ever since it was made, and a
report's `about` the player it was filed against. The audit ring, news, presence and the
game's own commands are left out; the database the server starts with is any of `Databases`,
with old records that no account has adopted yet.

**Allowance, RateLimit, Telnet.** `Allowance` knows no buckets: an event is let through exactly
when no stretch of time that ends with it would then hold more than burst and rate allow.
`RateLimit` counts time in ticks and tokens in parts of a token, one per tick, so that what the
code computes in `float64` is exact; it has one bucket per address, refilled when used, and the
sweep. `Keyed.Allow` releases its lock before it takes the bucket's; the model takes both as
one step, since nobody can sweep the bucket between the two for as long as it takes to be idle.
In `Telnet` an accepted connection has its own bucket for lines (`Wait` sleeps and tries again; it never sleeps less
than a millisecond, and a tick stands for at least that),
and a client's script is delivered in pieces cut anywhere (`Receive`). `Consume` is one byte of
the buffer. What keys send is a parameter (`Bytes`); `BytesAssumption` says what it may be: a
printable character itself, a rub-out DEL, an Enter one of four line ends, anything else a
telnet command that is complete (two bytes, an option, or a subnegotiation up to its first IAC SE). Output, echo, the two kinds of prompt and `Stop` are left out.

## 3. Runs

| Run | Result | Question |
|---|---|---|
| `persistence` | passes, 66 000 states | Does the layer implement `DurableWorld`, forget nothing, bound staleness, stop? |
| `attrition` | passes | Does the loop keep its promise and end? |
| `galaxy_war` | passes | Ships, mines, escapes and fleets: is the map consistent, Federation space safe? |
| `galaxy_home` | passes, 886 000 states | Planets created, fortified, bombed, stormed, gated and inherited while owners die and stay away: one planet per sector, nothing of the dead left, no fighters from nothing, no mines after an escape? |
| `galaxy_raids` | passes, 478 000 states | Do faction nights end, conserve fighters, respect sanctuary and the hidden? |
| `news` | passes, 82 000 states | Told once, in order, latest kept, lost only to full caps? Does what is printed reach a browser that may stall, leave or be cut off, and does a closed session end? |
| `sessions` | passes, 315 000 states | Two sessions on one ship: rounding, accrual, take-over, death? |
| `sessions_ghost` | violation | Can a prompt opened before a death trade after it? |
| `sessions_hangup` | violation | Does a lost connection abort the command it was lost in? |
| `starmap` | passes, 160 000 states | Is every generated map whole, every search finite, and its answer right? |
| `registry` | passes, 385 000 states | Handles unique, the banned out, reports about whom they name, accounts true to their players? |
| `telnet` | passes, 526 000 states | Does the dialogue get what was typed, however TCP cuts it? Are connections and lines held to their rates exactly? |

**Properties.**

* `Persistence`: `NoLostUpdate` (an announced change is in the channel, in a flush under way, on
  disk, or lost to a failed save), `FinalFlush`, `StalenessBounded` (a marked change is in a
  snapshot within the interval plus the save under way, on disk one save later),
  `ImplementsDurableWorld`, `StopReturns`. Proved only: `DiskWhole` (no mixture of two saves on disk).
* `Attrition`: `KeepsPromise`, `BattleEnds`. Proved only: `NoOverkill` (the clamps after the loop never fire).
* `Galaxy`: `OnePerSector` (and no empty force), `DeadHoldNothing`, `MinesHitWhoIsThere`,
  `NoFightersFromNothing`, `FedSanctuary`, `HiddenAreSafe`, `CommandsEnd`; `TypeOK` includes that
  quantities are naturals (`AdjustQuantity`'s clamp never fires) and that neither turns nor the
  Fusion Cell's reserve exceed one day's allowance.
* `News`: `ToldOnceInOrder`, `UnreadGoesLast`, `LastNewsArrives`.
* `WebSession`: `ClosedSessionsEnd` (game, reader and writer, whoever closed the session and whatever
  the browser does; a failed write leaves the socket open, so a stalled browser that stays keeps a
  reader waiting), `NewsGetsThrough` (news is marked delivered before it is printed: what a session
  printed while it was open is shown, unless the browser fails to take it).
* `Trade`: `QuotedIsInStock` (paying out a quote never exceeds the stock), `PortUnitsCover` (what
  a ship takes or brings, the stock pays for at the ship's factor, also when the factor
  changed since the quote), `NoAccrualLost` (restocking neither rounds accrual away nor gives
  more than a tick's worth too much).
* `Sessions`: `OneLiveWebSession` (newest wins), `DeadDoNotTrade`, `GhostsShownOut` (a destroyed
  ship's sessions leave, at whatever prompt they are).
* `Starmap`: `EverySectorReachable`, `RouteIsShortest` (a route is found exactly if there is one,
  follows the warps, and none is shorter: what `Galaxy` assumes of `ShortestPaths`), `LoopsEnd`.
* `Registry`: `UniqueHandles`, `BannedStayOut` (by sub, by the address of an old record, by
  password), `OpenReportsNameTheReported` (though handles are changed, freed and reused),
  `IdentityIsStable` (an account keeps its player and logs in as it, though it may register twice,
  and whatever becomes of the addresses; a record keeps its account).
  `BannedStayOut` is about bans that stood when the connection was made: one set between the
  telnet gateway's look at the ban and the password comes too late for that log-in, in the code too.
* `Telnet`: `LinesAsMeant` (the lines handed over are those the keys meant; blank lines apart, see
  section 5), `HeldToTheRate` (neither early nor later than needed), and `RateLimit`'s
  `ImplementsAllowance` (exactly the rate and the burst, over every stretch of time).

**Bounds, and why they are enough.**

* `Persistence`: two tables (any two could disagree), an interval of two ticks and saves of
  at most one (so that a notification can fall before, during and after each wait and save),
  two mutations (one inside a flush, one after it; the proofs cover the rest), one failure,
  counters that saturate just above the bound they are compared with.
* `Attrition`: block 3 and threshold 4 for 100 and 1000, forces to three thresholds: every mix
  of block and single ticks, and the zone around the threshold; the proofs are for all
  blocks smaller than the threshold.
* `Galaxy`: two players, three sectors in a row of which the first is Federation space, at
  most two forces or two planets, one or two fighters, mines and turns each. Two players are
  what every rule distinguishes (owner and other); a route of two hops has a sector in between;
  two mines make a loop that is left early or run out; two forces or planets are what
  `OnePerSector` needs. Scaled: blasts of 1 or 2 for 300 to 499, `FleetTrigger` 2 for 150,
  `CollapseLoss` 1 for 2000, `MaxMines` 1 for 1000 (none in `galaxy_raids`, so
  that what planets build there is fighters; the proofs cover the mines they build), one raid a night, one or two days; `galaxy_home` sets dormancy
  and expiry at one day. The three configurations divide the commands between them, since all
  together are out of reach: ships and fleets in `galaxy_war`, planets and absence in
  `galaxy_home`, the factions' raids, with two players and a stronghold, in `galaxy_raids`.
  Players, forces and planets are symmetric where no liveness is checked.
* `News` and `WebSession`: caps 2 and 3 for 50 and 2000 (two full shares exceed the list, as 41 do
  in the code), items kept to the next night, four items (one more than the
  list holds), two days; one of the two players has a browser, with a line buffer of one,
  and at most two items (`MaxLive`) are queued by the time a connection ends, so that a
  session may print several, or be interrupted between them. Connections follow one another.
* `Sessions`: one account with two connections, each over either front-end, so that web/web
  take-overs and web/telnet pairs occur; starting holds 75 (the starting ship is configurable),
  so that one purchase of 10 moves the factor and the quantities round; production 1 and a
  day of 3 ticks, so that a restocking accrues parts of units; the clock stops at 4, past one
  midnight; one death, which allows one reconstruction; amounts of 10, and at the bank the
  default, which is all there is. The two violation runs give the ship 10 credits
  instead of none.
* `Starmap`: five sectors, one extra link, one moved link and two dead ends: enough to cut off
  one sector and a group of two, one way and both ways; one plasma device, which can close the
  only warp of a part of the map; then any search.
* `Registry`: two connections (the races are between two visits of two of them), two accounts
  of which one is a sysop's, two addresses, one of which both come with (the sysop comes with either), handles `Ann` and `4nn`, which look alike, and `Bob`; a database
  with a sysop and an old record, and one with only an old record, which either account may adopt; one try at each prompt (more tries lead
  back to the same prompt), one report, three players. The proofs are for all numbers.
* `Telnet`: one connection of one address, whose three scripts have every kind of line end,
  rub-outs at an empty line and in one, an escaped IAC, and IAC sequences that contain a line feed
  (an option) and a carriage return (a subnegotiation); every way of cutting them up. A burst of two, five attempts, and time
  enough for a bucket to empty, to refill, to be swept and made anew.

Runs of `Galaxy`, `Attrition`, `News` and `Telnet` say `CHECK_DEADLOCK FALSE`: their days, turns, forces or items
run out, and there is nothing more to do. `Persistence`, `Sessions`, `Starmap` and `Registry` may never stop,
and are checked for deadlock.

**Fairness.**

* `Persistence`: weak fairness of the goroutine steps that need no waiting, of commands ending
  (they do not block) and of a save ending; strong fairness of the snapshot, because
  goroutines queue on the task channel and commands that keep coming cannot keep it out; and of
  time, which is interrupted by commands. None for commands, crashes or `Stop`.
* `Attrition`: the loop goes on.
* `Galaxy`: `Resume`, the rest of a command already begun, since the actor's goroutine runs. None
  for players or days.
* `News`: players come back (`LastNewsArrives` is about those who do).
* `WebSession`: weak fairness of the three goroutines (writes end by their deadlines of 30 and 5
  seconds, prompts by the idle timeout); strong fairness of the two `select`s that wait for `closed`
  beside something else (`EndOfInput`, `SeeClosed`), since Go chooses at random among the cases that
  are ready. None for the browser, which may send for ever, stall or leave.
* `Starmap`: a loop that has begun goes on (it runs on one goroutine and waits for nothing). None for
  devices or searches.
* `Registry` and `Telnet` are checked for safety only.
* `Sessions`: weak fairness of the goroutine's own steps and of each `ReadLine` returning, with a
  line or with the idle timeout (15 minutes in both front-ends). None for connections,
  deaths or time. `GhostsShownOut` leaves out the service menu at Sol (`DockServicePort`), which
  does not ask `isDead`: a session there may refuse to leave for as long as its player types.

## 4. Proofs

For every value of the constants that meets the named assumptions; nothing else is
assumed, and `tlapm` checks every leaf.

* **`PersistenceProofs`** (`PersistenceAssumption`): `TypeCorrect`, `DiskWholeAlways`,
  `NoUpdateLost`, `StopFlushes`, `ThrottleBoundsStaleness`, `Refinement`. None of the properties is
  inductive: that a change newer than the snapshot has a wake-up pending needs the order of
  the versions (`disk <= snap <= mem`, `VersionOrder`), that the disk holds a world needs every
  snapshot to be in `worlds` (`WorldsInv`), the final flush needs to know in which phases of
  the process `quit`, `final` and `pstate` can be combined (`LifecycleInv`, `FlushInv`), and the
  staleness bound ties the age counters to the time left on the timer and in the save
  (`AgeInv`). `IndInv` is their conjunction; one lemma per group of actions shows it
  preserved. The refinement maps each step to one of `DurableWorld` or a stutter.
* **`AttritionProofs`** (`AttritionAssumption`): `NobodyOverkilled`, `PromiseKept`. Inductive: while
  the loop runs the losses are within the forces and at most one side is spent, which the
  threshold, larger than a block, guarantees.
* **`GalaxyProofs`** (`GalaxyAssumption`, `RaidFloorAssumption`, `FiniteAssumption`: finitely many
  players, forces and planets): `AlwaysWellFormed`, `QuantitiesStayNatural`, `SectorsHoldOne`,
  `TheDeadHoldNothing`, `MinesAreWhereTheShipIs`, `FederationIsSafe`, `FightersAreConserved`,
  `TheHuntedAreAbroad`, `TheHiddenAreSafe`. None of these invariants is inductive, because a command is spread over
  many steps: what it found when it began must still be so when it goes on. `CommandOK` says
  what each kind of command relies on (`UnderMines`, `Storming`, `BreakingUp`, `Raiding`,
  `Sailing`): that a killer never is the ship whose mines go off, that the list of a night's raids
  names only the living outside Federation space although earlier raids have killed and flung
  away ships since it was drawn up, that a faction's fleet on its way is not sent against
  somebody who is still on the list. With what holds of ships, forces and planets (`World`), the clock and
  the marks it is `IndInv`. The building blocks (a loss, an escape, a death, a force swept
  away) have lemmas of their own, stated of the values they leave, so that the proof of an
  action only says which of them it uses. `FederationIsSafe` follows from the invariant, since every
  step harms only ships it has checked to be exposed, or its own pilot's.

  `FightersAreConserved` says `NoFightersFromNothing`: every step but a reconstruction, the night's growth
  and the gates takes the fighters it puts somewhere off another account. The accounts are
  sums over the ships, the forces, the planets and the fleet at sea. That `MapThenSumSet`
  answers for a finite set at all (`SumsExist`), does not depend on the order in which the set is
  taken apart, and changes by what one of its terms changes (`TotalIs`, `TotalChanges`) is shown without
  induction over an operator: were there a set for which it failed, there would be a smallest
  one (`SmallestSet`). Each action then has a lemma that says what it leaves of the one or two accounts
  it touches; forfeiture and escapes change none (`SameFighters`).

  `TheHiddenAreSafe` says `HiddenAreSafe`. It needs another invariant, `Abroad`, on top of `IndInv`: a ship
  outside Federation space has left dock (`Moored`), and whoever a command under way is after - the
  victim of a kill, the target of a raid, the ships a fleet has met, the players still to be
  raided - logged in less than `DormantDays` ago (`Pursuit`), which stays so because neither the day
  nor anybody's `lastSeen` changes before the command ends. The property counts every death of the hidden,
  with fighters aboard or without, that at the end of `Carried` too (the victim was recent); what it
  leaves out are the commands of one's own: those that take a turn, one still running, and those that
  only put fighters somewhere else (`AdjustBattlegroup`, `TransferSet`), in which nobody dies and the
  fighters remain as many.
* **`NewsProofs`** (`NewsAssumption`, `WebSessionAssumption`): `NewsInvariance`, `NewsComesOnceInOrder`,
  `NewsWellTyped`, `UnreadIsLostLast`. The list is in the order of queueing, within both caps, and what a player
  has been told is older than all that is still undelivered to them; from this, once and in
  order. `Keep`, the filter that all three operations share, is defined by positions (the k-th item
  kept is the one with k positions up to it), which needs no induction over sequences: its
  lemmas say that it keeps exactly the positions asked for, in their order. Steps of the portal (`PortalIsNews`) are
  steps of `News` or leave it alone.
* **`SessionsProofs`**, of `Trade` (`TradeAssumption`): `QuoteIsInStock` is arithmetic: with `ScaleUp` at most the
  true product and at least the whole number below it, less one in the cases of `Short`,
  the stock itself covers any quantity up to its quote, so the *least* covering delta is no
  more than the stock. That a least one exists is `LeastOf`, from the well-foundedness of
  strict inclusion on finite sets (no induction over an operator is needed). With it
  `TradeTypeOK` is inductive (the stock never falls below nothing *because* of
  `QuoteIsInStock`) and gives `TradeTypeCorrect` and `PortsKeepTheirWord`.
  `RoundingAgainstTrader` and `AccrualKept` are action properties from the same invariant; the
  latter turns on the two divisions in `Restock` being inverse up to less than a tick.
* **`SessionsProofs`**, of `Sessions` (also `SessionsAssumption`): `NewestWins`. `OneLiveWebSession` alone is not
  inductive: a session must be known to be registered, closed, or the victim of one about to
  close it (`EveryoneAccounted`), which is also what makes `Detach`'s comparison necessary.
  `SessionsTypeCorrect` needs that registered sessions and victims that have not left are web
  sessions (`WebInv`). `SessionsImplementTrade` shows that every step of a session is a step of `Trade` or leaves it
  alone, whence `SessionsQuotes`, `SessionsRounding`, `SessionsAccrual`. `WrecksAreLeftAlone` shows
  that no answer at a prompt changes what a destroyed ship had.
* **`StarmapProofs`** (`StarmapAssumption`): `MapTypeCorrect`; `GeneratedMapIsReachable`, from the
  invariant that every set that contains sector 1 and is closed under the warps contains what
  the repair has marked, that what is marked and not in the frontier leads only to what is
  marked, and that the scan leaves no unmarked sector behind it. No induction over paths is
  needed, since reachability is stated as the least closed set. `RoutesAreWalks` follows `prev`:
  a visited sector other than the start has a visited predecessor with a warp to it, and the
  path walked back ends where the walk stands. `RoutesAreShortest`: the sectors within n warps are a function
  defined by recursion, which exists (`BallsExist`) because no least number can be without one.
  While the search runs, every known distance is one more than that of a marked predecessor
  (`Measured`), the marked sectors are no farther than the current one and the others no nearer,
  and no warp out of a marked sector leads farther than one step (`Settled`); so the current
  sector's distance is exact (`CurrentIsExact`). That it stays below the number of sectors, so
  that the search cannot take a sector it has reached for one out of reach, is the pigeonhole
  principle: there is a sector at every distance up to it (`LevelsOccupied`).
* **`RegistryProofs`** (`RegistryAssumption`, `DatabasesAssumption`): `RegistryTypeCorrect`,
  `HandlesStayUnique`, `ReportsNameTheReported`, `TheBannedStayOut`, `IdentitiesAreStable`. `UniqueHandles`
  is inductive with the types; that open reports name the reported needs it, since a rename
  resolves the reports against the old handle by its normal form, which is somebody else's
  as well if handles are not unique. `BannedStayOut` needs what each dialogue remembers: the ban
  as read covers everybody in `shut`, and a connection that registers or sets its first
  password has a player nobody has been able to ban for longer than the connection exists.
  `IdentityIsStable` turns on the *first* record with a sub staying first when records are
  appended or adopted, which needs that adoption touches a record without a sub only, and only for an
  account that has none; that a first one exists is the well-foundedness of `<`.
* **`TelnetProofs`** (`LimitAssumption`, `LinesAssumption`, `BytesAssumption`): `LimiterTypeCorrect`; `LimiterIsExact` and
  `GatewayLimitsConnections`, the refinements. The invariant ties a bucket's tokens to the history: from any
  grant on, what the bucket lacks is at least what the stretch since then has used beyond the
  rate, and for some grant, or a full bucket, exactly that; an address without a bucket has
  been quiet for long enough to have a full one (this is where `Idle >= Burst * Per` is needed).
  `LinesAreHeldToTheRate` has the same argument for the bucket of a connection (`LineInv`: from any
  line begun on, the bucket lacks at least what the lines since then have used beyond the rate),
  with the sleep: it lasts exactly as long as the bucket is short of a line.
  `LinesAreAsMeant` is for scripts of any length and any keys and commands. `LinesAsMeant` speaks of
  the moments between two keys only; the invariant (`TextInv`, by `At`) says of every byte in a script
  what filter, line and lines are after it, within a line end or a command too (`Amid`). One byte
  read keeps that, whatever the key (`ByteRead`), and a swallowed LF or NUL is a second byte read
  that changes nothing but a blank line. What was sent and what was meant are recursive functions
  on the keys; that these are defined, and where a key's bytes are in what is sent, goes by
  induction, in the form that a set of numbers has a least one (`AllNumbers`, `RunExists`).

Only model-checked: everything under fairness (`StopReturns`, `BattleEnds`, `CommandsEnd`,
`LastNewsArrives`, `ClosedSessionsEnd`, `NewsGetsThrough`, `GhostsShownOut`, `LoopsEnd`), since `tlapm`
does not handle liveness and ENABLED. Every other property of a passing run is a theorem.

## 5. Disagreements between the code and its comments

1. `consoleui.go:103-106` says a prompt for a number aborts its command on a disconnect.
   `PromptIntDefault` takes the empty string that `GetInput` returns then for a bare Enter, so
   a connection lost (or taken over, or idle) at the bank deposits everything, and by the same
   code at the prompts of `ExecuteAttack`, `ExecuteInvade` and `ExecutePlanetTransfer` an attack
   with all fighters is launched or a planet's garrison taken off (`sessions_hangup`).
2. `ops.go:56-60` says a player killed at a docking prompt cannot trade with the port captured
   before the death. `checkAlive` only asks whether the player is dead *now*: killed before
   midnight UTC, rebuilt after it through another session while the first prompt is still
   open, the new ship trades with the distant port (`sessions_ghost`).

Read from the code while modelling it, and not given a run:

* `factions.go:22-24` says a stronghold, identified by name, is never confused with an inherited
  planet. Players may use the names for their planets.
* `news.go:18-20` says one player's news cannot push another's off the global list. With more
  than 40 full shares the global cap drops the oldest item, whoever's it is.
* `telnetserver.go:368-370` says a line feed after a carriage return is discarded if it was not
  in the buffer. It ends a line, which the dialogue gets as an empty answer (a default is then
  taken); and two line feeds in one segment end only one line. `LinesAsMeant` therefore leaves
  blank lines out.
* A telnet newcomer who gives up at the password prompt has registered a handle without a
  password (`authenticate` registers first), which nobody can use or log in to.
* `sysopBan` resolves, on its second visit, the reports against the handle as typed; if the
  handle has changed hands in between, those against its new owner.
* The generator's relinking leaves a one-way warp when it picks the end it has just removed
  (`init.go:120`); the repair guarantees reachability from sector 1, not back to it.

## 6. Not modelled, and the plan

Not modelled: layout, wording and menus; OAuth and HTTP; the placing of ports and the names of
things; the profanity filter (data); the legacy YAML file and the single-player binary (no
concurrency); rankings. Parts of modelled components that are left out are named in section
2 and in `PROJECT.json`.

What would come next:

1. **Shutdown**: `CloseAllSessions` and the telnet `Stop` against sessions that are just attaching, and
   the order of the shutdown sequence in `main`; the course of an autopilot after an escape.
2. **Economy**: the night's interest and its cap, repossession, holds destroyed under a full
   cargo bay (`combat.go:72`), the price conversion at the edge of the integer width, faction wealth.

After a failed save nothing but a later command causes another try (`persister.go:110-112`):
`NoLostUpdate` and `StalenessBounded` are stated for saves that succeed.
