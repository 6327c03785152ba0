------------------------------- MODULE Trade -------------------------------
(***************************************************************************)
(* One trading port, the bank, and the ships that use them, as the engine  *)
(* sees them: every action below is one command run on the universe actor  *)
(* (ops.go, bank.go, commodity.go), or what happens to a ship meanwhile    *)
(* (death.go).  Nothing here asks where the ship is: the engine does not;  *)
(* Sessions adds the prompts from which the commands are given.            *)
(*                                                                         *)
(* Money and stock are whole numbers as in the code; a price or a scaled   *)
(* quantity, a float64 there, is the exact quotient rounded down, except   *)
(* that the product in ScaleUp may fall just short of a whole number       *)
(* (57 holds, 50 units: 56.99...); Short holds the pairs where it does.    *)
(***************************************************************************)
EXTENDS Integers, Functions

CONSTANTS Traders,    \* the players
          Goods,      \* what the port trades
          Sells,      \* the goods it sells; it buys the others
          Price,      \* [Goods -> Nat]: base price of a unit
          Prod,       \* the port's production; its stock is at most 10 * Prod
          Day,        \* clock ticks in a day, 86400 in the code
          HoldPrice,  \* price of a cargo hold at Sol
          StartMoney, StartHolds,  \* the starting ship
          FirstCargo,  \* what the ships carry at first of what the port buys
          Short,      \* pairs <<holds, units>> where float64 rounds short
          MaxTime,    \* bound: when the clock stops
          MaxDeaths   \* bound: deaths per player

(* A product can fall short of a whole number only where it is one, and    *)
(* only when the factor is above 1.                                        *)
ASSUME TradeAssumption ==
  /\ Sells \subseteq Goods
  /\ Price \in [Goods -> Nat]
  /\ Prod \in Nat \ {0} /\ Day \in Nat \ {0}
  /\ {HoldPrice, StartMoney, StartHolds, FirstCargo} \subseteq Nat
  /\ Short \subseteq (51..13750) \X (Nat \ {0})
  /\ \A x \in Short : (x[2] * x[1]) % 50 = 0
  /\ {MaxTime, MaxDeaths} \subseteq Nat

VARIABLES stock,     \* [Goods -> Nat]: units the port has, or still wants
          clock,     \* [Goods -> Nat]: LastRestock, 0 before the first docking
          money, holds,  \* [Traders -> Nat]
          cargo,     \* [Traders -> [Goods -> Nat]]
          account,   \* [Traders -> Nat]: the balance at the bank
          diedAt,    \* [Traders -> Nat]: the day after the death's, 0 for the living
          timesDied, \* [Traders -> Nat]
          \* the day of the last daily maintenance
          now        \* the clock

ship == <<money, holds, cargo, diedAt, timesDied>>
tradeVars == <<stock, clock, ship, account, now>>

Today == now \div Day
Full == 10 * Prod
Alive(p) == diedAt[p] = 0

----------------------------------------------------------------------------
(* Volume scaling: a ship with more than 50 holds trades in blocks. *)

ScaleUp(h, w) ==
  IF h < 50 THEN w
  ELSE IF h > 13750 THEN 275 * w
  ELSE ((w * h) \div 50) - (IF <<h, w>> \in Short THEN 1 ELSE 0)

\* Deliberately wrong: the original's bare truncation.
ScaleDown_Trunc(h, w) == IF h < 50 THEN w ELSE (w * 50) \div h

\* Deliberately wrong: one unit more than what covers the trade.
ScaleDown_OneMore(h, w) == IF w = 0 THEN 0 ELSE 1 + ((w * 50) \div IF h < 50 THEN 50 ELSE h)

(* The loop starts at or below the answer and stops at the first d that    *)
(* covers w; the factor is at least 1, so d is at most w.                  *)
ScaleDown(h, w) ==
  IF w = 0 THEN 0
  ELSE CHOOSE d \in 1..w : /\ ScaleUp(h, d) >= w
                           /\ \A e \in 1..(d - 1) : ScaleUp(h, e) < w

(* AdjustQuantity never goes below zero, whatever its caller asks.  The    *)
(* clamp is kept where the caller's check is not the same comparison.      *)
AtLeastZero(n) == IF n < 0 THEN 0 ELSE n

(* Prices move up to 5% against the trader as the stock runs out. *)
SellPrice(g, n) == (Price[g] * n * (20 * Full + (Full - stock[g]))) \div (20 * Full)
BuyPrice(g, n) == (Price[g] * n * (20 * Full - (Full - stock[g]))) \div (20 * Full)

FreeHolds(p) == holds[p] - FoldFunction(LAMBDA a, b : a + b, 0, cargo[p])

(* Restock one good: a first visit starts the clock; a full port moves it  *)
(* on; otherwise whole units accrue and the clock advances by the time     *)
(* they took, rounded down.                                                *)
Accrued(g) == (2 * Prod * (now - clock[g])) \div Day

RestockedTo(g) ==
  IF clock[g] = 0 \/ now <= clock[g] \/ stock[g] >= Full THEN stock[g]
  ELSE IF stock[g] + Accrued(g) >= Full THEN Full
  ELSE stock[g] + Accrued(g)

\* Deliberately wrong: every visit starts the clock afresh.
ClockAfter_Now(g) == now

ClockAfter(g) ==
  IF clock[g] = 0 THEN now
  ELSE IF now <= clock[g] THEN clock[g]
  ELSE IF stock[g] >= Full THEN now
  ELSE IF Accrued(g) = 0 THEN clock[g]
  ELSE IF stock[g] + Accrued(g) >= Full THEN now
  ELSE clock[g] + ((Accrued(g) * Day) \div (2 * Prod))

Restock == /\ stock' = [g \in Goods |-> RestockedTo(g)]
           /\ clock' = [g \in Goods |-> ClockAfter(g)]

----------------------------------------------------------------------------
(* The world is young: the port is full and has had no visitor, but the    *)
(* ships carry what they bought elsewhere.                                 *)
TradeInit ==
  /\ stock = [g \in Goods |-> Full]
  /\ clock = [g \in Goods |-> 0]
  /\ money = [p \in Traders |-> StartMoney]
  /\ holds = [p \in Traders |-> StartHolds]
  /\ cargo = [p \in Traders |-> [g \in Goods |-> IF g \in Sells THEN 0 ELSE FirstCargo]]
  /\ account = [p \in Traders |-> 0]
  /\ diedAt = [p \in Traders |-> 0]
  /\ timesDied = [p \in Traders |-> 0]
  /\ now = (Day \div 2) + 1

(* Docking brings the port's stock up to date.  The turn it costs and a    *)
(* damaged cargo bay may refuse it; both are left to whoever gives it.     *)
Dock(p) == /\ Alive(p)
           /\ Restock
           /\ UNCHANGED <<ship, account, now>>

\* Deliberately wrong: ghosts may trade.
CheckAlive_Never(p) == TRUE

CheckAlive(p) == Alive(p)

CanBuy(p, g, n) ==
  /\ CheckAlive(p)
  /\ n <= ScaleUp(holds[p], stock[g])
  /\ SellPrice(g, n) <= money[p]
  /\ n <= FreeHolds(p)

TradeBuy(p, g, n) ==
  /\ CanBuy(p, g, n)
  /\ stock' = [stock EXCEPT ![g] = AtLeastZero(@ - ScaleDown(holds[p], n))]
  /\ money' = [money EXCEPT ![p] = @ - SellPrice(g, n)]
  /\ cargo' = [cargo EXCEPT ![p][g] = @ + n]
  /\ UNCHANGED <<clock, holds, account, diedAt, timesDied, now>>

CanSell(p, g, n) ==
  /\ CheckAlive(p)
  /\ n <= ScaleUp(holds[p], stock[g])
  /\ n <= cargo[p][g]

TradeSell(p, g, n) ==
  /\ CanSell(p, g, n)
  /\ stock' = [stock EXCEPT ![g] = AtLeastZero(@ - ScaleDown(holds[p], n))]
  /\ money' = [money EXCEPT ![p] = @ + BuyPrice(g, n)]
  /\ cargo' = [cargo EXCEPT ![p][g] = @ - n]
  /\ UNCHANGED <<clock, holds, account, diedAt, timesDied, now>>

(* TradeBuyNoLimit, for cargo holds at Sol. *)
BuyHolds(p, n) ==
  /\ CheckAlive(p)
  /\ n * HoldPrice <= money[p]
  /\ money' = [money EXCEPT ![p] = @ - n * HoldPrice]
  /\ holds' = [holds EXCEPT ![p] = @ + n]
  /\ UNCHANGED <<stock, clock, cargo, account, diedAt, timesDied, now>>

BankDeposit(p, n) ==
  /\ Alive(p)
  /\ n >= 1 /\ n <= money[p]
  /\ money' = [money EXCEPT ![p] = @ - n]
  /\ account' = [account EXCEPT ![p] = @ + n]
  /\ UNCHANGED <<stock, clock, holds, cargo, diedAt, timesDied, now>>

BankWithdraw(p, n) ==
  /\ Alive(p)
  /\ n >= 1 /\ n <= account[p]
  /\ account' = [account EXCEPT ![p] = @ - n]
  /\ money' = [money EXCEPT ![p] = @ + n]
  /\ UNCHANGED <<stock, clock, holds, cargo, diedAt, timesDied, now>>

----------------------------------------------------------------------------
(* What happens meanwhile. *)

KillPlayer(p) ==
  /\ Alive(p)
  /\ timesDied[p] < MaxDeaths
  /\ diedAt' = [diedAt EXCEPT ![p] = Today + 1]
  /\ timesDied' = [timesDied EXCEPT ![p] = @ + 1]
  /\ UNCHANGED <<stock, clock, money, holds, cargo, account, now>>

(* The first death is free; later ones cost a growing share of the kit. *)
Penalty(n) == IF n > 1 THEN (130 * (n - 1) + n) \div (2 * n) ELSE 0

(* Only the day of the death matters. *)
Due(p) == ~Alive(p) /\ diedAt[p] # Today + 1

Reconstruct(p) ==
  LET mult == 100 - Penalty(timesDied[p]) IN
  /\ Due(p)
  /\ money' = [money EXCEPT ![p] = (StartMoney * mult) \div 100]
  /\ holds' = [holds EXCEPT ![p] = (StartHolds * mult) \div 100]
  /\ cargo' = [cargo EXCEPT ![p] = [g \in Goods |-> 0]]
  /\ diedAt' = [diedAt EXCEPT ![p] = 0]
  /\ UNCHANGED <<stock, clock, account, timesDied, now>>

Tick == /\ now < MaxTime
        /\ now' = now + 1
        /\ UNCHANGED <<stock, clock, ship, account>>

TradeNext ==
  \/ \E p \in Traders :
       \/ Dock(p) \/ KillPlayer(p) \/ Reconstruct(p)
       \/ \E n \in Nat : \/ BuyHolds(p, n) \/ BankDeposit(p, n) \/ BankWithdraw(p, n)
                         \/ \E g \in Goods : TradeBuy(p, g, n) \/ TradeSell(p, g, n)
  \/ Tick

TradeSpec == TradeInit /\ [][TradeNext]_tradeVars

----------------------------------------------------------------------------
(* PROPERTIES *)

(* The types, with the port never over ten days' production (Restock).     *)
TradeTypeOK ==
  /\ stock \in [Goods -> 0..Full]
  /\ now \in Nat
  /\ clock \in [Goods -> 0..now]
  /\ money \in [Traders -> Nat] /\ holds \in [Traders -> Nat]
  /\ cargo \in [Traders -> [Goods -> Nat]]
  /\ account \in [Traders -> Nat]
  /\ diedAt \in [Traders -> Nat] /\ timesDied \in [Traders -> Nat]

(* Whatever the port quotes a ship, it has: paying out any quantity up to  *)
(* the quote takes no more than the stock, so the clamp in AdjustQuantity  *)
(* never fires (ops.go:36-41).                                             *)
QuotedIsInStock ==
  \A p \in Traders, g \in Goods :
    \A n \in 1..ScaleUp(holds[p], stock[g]) : ScaleDown(holds[p], n) <= stock[g]

(* What a ship takes away or brings, the port's stock pays for at that     *)
(* ship's factor: rounding goes against the trader (ops.go:36-41), also    *)
(* when the factor changed since the quote.                                *)
Moved(p, g) == IF cargo'[p][g] > cargo[p][g] THEN cargo'[p][g] - cargo[p][g]
                                             ELSE cargo[p][g] - cargo'[p][g]
PortUnitsCover ==
  [][\A p \in Traders, g \in Goods :
       (diedAt'[p] = diedAt[p] /\ cargo'[p][g] # cargo[p][g])
         => ScaleUp(holds[p], stock[g] - stock'[g]) >= Moved(p, g)
    ]_tradeVars

(* Restocking never rounds accrual away, however often it is done, and     *)
(* gives less than a tick too much (commodity.go:146-150): unless it fills *)
(* the port, what the port has plus what the clock still owes it, in parts *)
(* of a unit, does not fall and grows by less than one tick's worth.       *)
Owed(g) == Day * stock[g] + 2 * Prod * (now - clock[g])
KeepsAccrual(g) ==
  (clock[g] # 0 /\ clock'[g] # clock[g] /\ stock'[g] < Full)
    => /\ Owed(g) <= Owed(g)'
       /\ Owed(g)' < Owed(g) + 2 * Prod
NoAccrualLost == [][\A g \in Goods : KeepsAccrual(g)]_tradeVars
=============================================================================
