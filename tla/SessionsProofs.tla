--------------------------- MODULE SessionsProofs ---------------------------
(***************************************************************************)
(* Proofs about Trade, for any ports, prices, days and ships, and about    *)
(* Sessions, for any number of players and connections: what the market    *)
(* promises holds whatever happens at the terminals, and the newest web    *)
(* session of a player wins.                                               *)
(***************************************************************************)
EXTENDS Sessions, TLAPS, FiniteSetTheorems, WellFoundedInduction

----------------------------------------------------------------------------
(* Arithmetic. *)

LEMMA DivBounds ==
  ASSUME NEW a \in Int, NEW b \in Nat \ {0}
  PROVE  /\ a \div b \in Int
         /\ b * (a \div b) <= a
         /\ a < b * (a \div b) + b
BY SMT

LEMMA MulMono ==
  ASSUME NEW a \in Nat, NEW b \in Nat, NEW c \in Nat, a <= b
  PROVE  a * c <= b * c /\ a * c \in Nat
BY SMT

LEMMA Distributes ==
  ASSUME NEW a \in Int, NEW b \in Int, NEW c \in Int
  PROVE  a * (b + c) = a * b + c * a
BY SMT

LEMMA DivNat ==
  ASSUME NEW a \in Nat, NEW b \in Nat \ {0}
  PROVE  a \div b \in Nat
BY SMT

(* A quotient is at most what its dividend is at most a multiple of. *)
LEMMA DivAtMost ==
  ASSUME NEW a \in Nat, NEW b \in Nat \ {0}, NEW c \in Nat, a <= b * c
  PROVE  a \div b <= c
<1> DEFINE q == a \div b
<1>1. q \in Nat /\ b * q <= a
  BY DivBounds, DivNat
<1>2. SUFFICES ASSUME q >= c + 1 PROVE FALSE
  BY <1>1
<1>3. b * q >= b * (c + 1)
  <2>1. (c + 1) * b <= q * b
    BY <1>1, <1>2, MulMono
  <2>2. (c + 1) * b = b * (c + 1) /\ q * b = b * q
    BY <1>1
  <2>3. QED
    BY <2>1, <2>2
<1>4. b * (c + 1) = b * c + b
  OBVIOUS
<1>5. QED
  BY <1>1, <1>3, <1>4

(* A non-empty set of naturals has a least element: the initial segments   *)
(* that end in it are finite sets, and strict inclusion is well founded.   *)
LEMMA LeastOf ==
  ASSUME NEW n \in Nat, NEW T, T \subseteq 1..n, T # {}
  PROVE  \E x \in T : \A y \in T : x <= y
<1> DEFINE S == 1..n
           I == {1..d : d \in T}
<1>1. I \subseteq SUBSET S /\ I # {}
  <2>1. \A d \in T : 1..d \subseteq S
    <3> SUFFICES ASSUME NEW d \in T PROVE 1..d \subseteq 1..n
      OBVIOUS
    <3>1. d \in Nat /\ d <= n
      OBVIOUS
    <3> QED BY <3>1
  <2> QED BY <2>1
<1>2. IsFiniteSet(S)
  BY FS_Interval
<1>3. IsWellFoundedOn(StrictSubsetOrdering(S), SUBSET S)
  BY <1>2, FS_FiniteSubsetsOfFinite, FS_StrictSubsetOrderingWellFounded
<1>4. PICK X \in I : \A Y \in I : <<Y, X>> \notin StrictSubsetOrdering(S)
  <2> HIDE DEF I, S
  <2> QED BY <1>1, <1>3, WFMin
<1>5. PICK x \in T : X = 1..x
  BY <1>4
<1>6. \A y \in T : x <= y
  <2> SUFFICES ASSUME NEW y \in T, y < x PROVE FALSE
    BY <1>5
  <2>1. 1..y \in I /\ 1..y \subseteq 1..x /\ x \in 1..x /\ x \notin 1..y
    BY <1>5
  <2>2. <<1..y, X>> \in StrictSubsetOrdering(S)
    BY <2>1, <1>1, <1>4, <1>5 DEF StrictSubsetOrdering
  <2>3. QED
    BY <2>1, <2>2, <1>4
<1>7. QED
  BY <1>6

----------------------------------------------------------------------------
(* Volume scaling. *)

(* The factor is at least 1: a quote is never less than the stock. *)
LEMMA ScaleUpCovers ==
  ASSUME NEW h \in Nat, NEW w \in Nat
  PROVE  ScaleUp(h, w) \in Nat /\ ScaleUp(h, w) >= w
<1>1. CASE h < 50 \/ h > 13750
  BY <1>1 DEF ScaleUp
<1>2. CASE h \in 50..13750
  <2> DEFINE k == w * h
  <2>1. k \in Nat /\ k >= 50 * w
    BY <1>2, MulMono
  <2>2. k \div 50 \in Nat /\ k \div 50 >= w
    BY <2>1
  <2>3. CASE <<h, w>> \in Short
    <3>1. h >= 51 /\ w >= 1 /\ k % 50 = 0
      <4> DEFINE x == <<h, w>>
      <4>1. x[1] = h /\ x[2] = w
        OBVIOUS
      <4>2. x \in Short
        BY <2>3
      <4> HIDE DEF x
      <4>3. (x[2] * x[1]) % 50 = 0
        BY <4>2, TradeAssumption
      <4>4. h \in 51..13750 /\ w \in Nat \ {0}
        <5>1. x \in (51..13750) \X (Nat \ {0})
          BY <4>2, TradeAssumption
        <5>2. x[1] \in 51..13750 /\ x[2] \in Nat \ {0}
          BY <5>1
        <5> QED BY <4>1, <5>2
      <4>5. (w * h) % 50 = 0
        BY <4>1, <4>3
      <4> QED BY <4>4, <4>5
    <3>2. k >= 51 * w
      BY <3>1, MulMono
    <3>3. k >= 50 * w + 1
      BY <3>1, <3>2, <2>1
    <3>4. k \div 50 >= w + 1
      BY <3>1, <3>3, <2>1
    <3>5. QED
      BY <1>2, <2>2, <2>3, <3>4 DEF ScaleUp
  <2>4. CASE <<h, w>> \notin Short
    BY <1>2, <2>2, <2>4 DEF ScaleUp
  <2>5. QED
    BY <2>3, <2>4
<1>3. QED
  BY <1>1, <1>2

LEMMA ScaleUpZero ==
  ASSUME NEW h \in Nat
  PROVE  ScaleUp(h, 0) = 0
<1>1. <<h, 0>> \notin Short
  BY TradeAssumption
<1>2. QED
  BY <1>1 DEF ScaleUp

(* The loop of scaleDown finds the least number of port units that covers  *)
(* the trade.                                                              *)
LEMMA ScaleDownLeast ==
  ASSUME NEW h \in Nat, NEW w \in Nat \ {0}
  PROVE  /\ ScaleDown(h, w) \in 1..w
         /\ ScaleUp(h, ScaleDown(h, w)) >= w
         /\ \A e \in 1..(ScaleDown(h, w) - 1) : ScaleUp(h, e) < w
<1> DEFINE T == {d \in 1..w : ScaleUp(h, d) >= w}
           P(d) == ScaleUp(h, d) >= w /\ \A e \in 1..(d - 1) : ScaleUp(h, e) < w
<1>1. w \in T
  BY ScaleUpCovers
<1>2. PICK x \in T : \A y \in T : x <= y
  BY <1>1, LeastOf
<1>4. \A e \in 1..(x - 1) : ScaleUp(h, e) < w
  <2> SUFFICES ASSUME NEW e \in 1..(x - 1) PROVE ScaleUp(h, e) < w
    OBVIOUS
  <2>1. e \in 1..w /\ e < x
    BY <1>2
  <2>2. e \notin T
    BY <2>1, <1>2
  <2>3. ScaleUp(h, e) \in Nat
    <3>1. e \in Nat
      BY <2>1
    <3> HIDE DEF T
    <3> QED BY <3>1, ScaleUpCovers
  <2>4. QED
    BY <2>1, <2>2, <2>3
<1>5. \E d \in 1..w : P(d)
  BY <1>2, <1>4
<1>6. ScaleDown(h, w) = CHOOSE d \in 1..w : P(d)
  BY DEF ScaleDown
<1>7. QED
  BY <1>5, <1>6

----------------------------------------------------------------------------
(* The quote. *)

(* Whatever passes the check against the quote is in stock: the port's     *)
(* units for any quantity up to ScaleUp(h, q) are at most q, for every     *)
(* ship and stock (scaleDown's comment, ops.go:36-41).                     *)
THEOREM QuoteIsInStock ==
  ASSUME NEW h \in Nat, NEW q \in Nat, NEW n \in Nat, n <= ScaleUp(h, q)
  PROVE  ScaleDown(h, n) \in 0..q
<1>1. CASE n = 0
  BY <1>1 DEF ScaleDown
<1>2. CASE n > 0
  <2> DEFINE d == ScaleDown(h, n)
  <2>1. d \in 1..n /\ \A e \in 1..(d - 1) : ScaleUp(h, e) < n
    BY <1>2, ScaleDownLeast
  <2>2. q > 0
    <3>1. ScaleUp(h, q) # 0
      BY <1>2, ScaleUpCovers
    <3>2. QED
      BY <3>1, ScaleUpZero
  <2>3. SUFFICES ASSUME q < d PROVE FALSE
    BY <2>1
  <2> HIDE DEF d
  <2>4. q \in 1..(d - 1)
    BY <2>1, <2>2, <2>3
  <2>5. ScaleUp(h, q) < n /\ ScaleUp(h, q) \in Nat
    BY <2>1, <2>4, ScaleUpCovers
  <2>6. QED
    BY <2>5
<1>3. QED
  BY <1>1, <1>2

(* As the invariant the runs check.                                        *)
LEMMA TypedQuotes == TradeTypeOK => QuotedIsInStock
<1> SUFFICES ASSUME TradeTypeOK,
                    NEW p \in Traders, NEW g \in Goods,
                    NEW n \in 1..ScaleUp(holds[p], stock[g])
             PROVE  ScaleDown(holds[p], n) <= stock[g]
  BY DEF QuotedIsInStock
<1>1. holds[p] \in Nat /\ stock[g] \in Nat
  BY TradeAssumption DEF TradeTypeOK, Full
<1>2. n \in Nat /\ n <= ScaleUp(holds[p], stock[g])
  BY <1>1, ScaleUpCovers
<1>3. ScaleDown(holds[p], n) \in 0..stock[g]
  BY <1>1, <1>2, QuoteIsInStock
<1>4. QED
  BY <1>1, <1>3

----------------------------------------------------------------------------
(* Restocking one good. *)

(* The time charged for accrued units is at most the time passed and at    *)
(* least what they took, less a tick.                                      *)
LEMMA TimeCharged ==
  ASSUME NEW r \in Nat \ {0}, NEW t \in Nat, NEW D \in Nat \ {0}
  PROVE  LET A == (r * t) \div D
             X == (A * D) \div r
         IN  /\ A \in Nat /\ X \in Nat
             /\ X <= t
             /\ r * X <= A * D
             /\ A * D < r * X + r
<1> DEFINE A == (r * t) \div D
           X == (A * D) \div r
<1>1. r * t \in Nat
  OBVIOUS
<1>2. A \in Nat /\ D * A <= r * t
  BY <1>1, DivBounds, DivNat
<1> HIDE DEF A
<1>3. A * D \in Nat /\ A * D = D * A
  BY <1>2
<1>4. X \in Nat /\ r * X <= A * D /\ A * D < r * X + r
  BY <1>3, DivBounds, DivNat
<1>5. X <= t
  BY <1>2, <1>3, DivAtMost
<1>6. QED
  BY <1>2, <1>4, <1>5 DEF A

LEMMA RestockOne ==
  ASSUME TradeTypeOK, NEW g \in Goods
  PROVE  /\ RestockedTo(g) \in stock[g]..Full
         /\ ClockAfter(g) \in 0..now
         /\ (clock[g] # 0 /\ ClockAfter(g) # clock[g] /\ RestockedTo(g) < Full)
              => /\ Owed(g) <= Day * RestockedTo(g) + 2 * Prod * (now - ClockAfter(g))
                 /\ Day * RestockedTo(g) + 2 * Prod * (now - ClockAfter(g))
                      < Owed(g) + 2 * Prod
<1> DEFINE r == 2 * Prod
           t == now - clock[g]
           A == Accrued(g)
           X == (A * Day) \div r
<1>1. /\ Prod \in Nat \ {0} /\ Day \in Nat \ {0} /\ Full \in Nat
      /\ stock[g] \in 0..Full /\ now \in Nat /\ clock[g] \in 0..now
  BY TradeAssumption DEF TradeTypeOK, Full
<1>2. r \in Nat \ {0} /\ t \in Nat
  BY <1>1
<1>3. /\ A \in Nat /\ X \in Nat /\ X <= t
      /\ r * X <= A * Day /\ A * Day < r * X + r
  <2>1. A = (r * t) \div Day
    BY DEF Accrued
  <2> HIDE DEF r, t, A
  <2>2. QED
    BY <1>1, <1>2, <2>1, TimeCharged DEF X
<1>4. RestockedTo(g) \in stock[g]..Full /\ ClockAfter(g) \in 0..now
  <2>1. RestockedTo(g) \in stock[g]..Full
    <3> HIDE DEF r, t, X
    <3> QED BY <1>1, <1>3 DEF RestockedTo, A
  <2>2. clock[g] + X \in 0..now
    BY <1>1, <1>3
  <2>3. ClockAfter(g) \in {now, clock[g], clock[g] + X}
    BY DEF ClockAfter
  <2>4. QED
    BY <1>1, <2>1, <2>2, <2>3
<1>5. ASSUME clock[g] # 0, ClockAfter(g) # clock[g], RestockedTo(g) < Full
      PROVE  RestockedTo(g) = stock[g] + A /\ ClockAfter(g) = clock[g] + X
  <2> HIDE DEF t
  <2> QED BY <1>1, <1>3, <1>5 DEF RestockedTo, ClockAfter
<1>6. ASSUME clock[g] # 0, ClockAfter(g) # clock[g], RestockedTo(g) < Full
      PROVE  /\ Owed(g) <= Day * RestockedTo(g) + r * (now - ClockAfter(g))
             /\ Day * RestockedTo(g) + r * (now - ClockAfter(g)) < Owed(g) + r
  <2>1. Owed(g) = Day * stock[g] + r * t
    BY DEF Owed
  <2>2. now - ClockAfter(g) = t - X
    BY <1>1, <1>3, <1>5, <1>6
  <2>3. Day * RestockedTo(g) = Day * stock[g] + A * Day
    <3>1. RestockedTo(g) = stock[g] + A
      BY <1>5, <1>6
    <3>2. {Day, stock[g], A} \subseteq Int
      BY <1>1, <1>3
    <3> HIDE DEF A
    <3>3. Day * (stock[g] + A) = Day * stock[g] + A * Day
      BY <3>2, Distributes
    <3> QED BY <3>1, <3>3
  <2> HIDE DEF r, t, A, X
  <2>4. r * (t - X) = r * t - r * X
    BY <1>2, <1>3
  <2>5. {Day * stock[g], r * t, r * X, A * Day} \subseteq Int
    BY <1>1, <1>2, <1>3
  <2>6. QED
    BY <1>2, <1>3, <2>1, <2>2, <2>3, <2>4, <2>5
<1>7. QED
  BY <1>4, <1>6

----------------------------------------------------------------------------
(* Types. *)

LEMMA PriceTypes ==
  ASSUME TradeTypeOK, NEW g \in Goods, NEW n \in Nat
  PROVE  BuyPrice(g, n) \in Nat /\ SellPrice(g, n) \in Nat
<1>1. Full \in Nat \ {0} /\ stock[g] \in 0..Full /\ Price[g] \in Nat
  BY TradeAssumption DEF TradeTypeOK, Full
<1> DEFINE a == Price[g] * n
           b == 20 * Full - (Full - stock[g])
           c == 20 * Full + (Full - stock[g])
<1>2. a \in Nat /\ b \in Nat /\ c \in Nat /\ 20 * Full \in Nat \ {0}
  BY <1>1
<1>3. (a * b) \div (20 * Full) \in Nat /\ (a * c) \div (20 * Full) \in Nat
  <2> HIDE DEF a, b, c
  <2>1. a * b \in Nat /\ a * c \in Nat
    BY <1>2
  <2>2. QED
    BY <1>2, <2>1, DivNat
<1>4. QED
  BY <1>3 DEF BuyPrice, SellPrice

LEMMA PenaltyType ==
  ASSUME NEW n \in Nat
  PROVE  100 - Penalty(n) \in Nat
<1>1. CASE n > 1
  <2> DEFINE a == 130 * (n - 1) + n
  <2>1. a \in Nat /\ 2 * n \in Nat \ {0} /\ a <= (2 * n) * 66
    BY <1>1
  <2>2. a \div (2 * n) \in Nat /\ a \div (2 * n) <= 66
    <3> HIDE DEF a
    <3> QED BY <2>1, DivNat, DivAtMost
  <2>3. Penalty(n) = a \div (2 * n)
    BY <1>1 DEF Penalty
  <2> HIDE DEF a
  <2>4. QED
    BY <2>2, <2>3
<1>2. CASE ~(n > 1)
  BY <1>2 DEF Penalty
<1>3. QED
  BY <1>1, <1>2

LEMMA InitTyped == TradeInit => TradeTypeOK
<1> SUFFICES ASSUME TradeInit PROVE TradeTypeOK
  OBVIOUS
<1>1. (Day \div 2) \in Nat
  BY TradeAssumption, DivNat
<1>2. now \in Nat
  BY <1>1 DEF TradeInit
<1>3. Full \in Nat /\ StartMoney \in Nat /\ StartHolds \in Nat /\ FirstCargo \in Nat
  BY TradeAssumption DEF Full
<1>4. QED
  BY <1>2, <1>3 DEF TradeInit, TradeTypeOK

LEMMA StepTyped == TradeTypeOK /\ [TradeNext]_tradeVars => TradeTypeOK'
<1> SUFFICES ASSUME TradeTypeOK, [TradeNext]_tradeVars
             PROVE  TradeTypeOK'
  OBVIOUS
<1>0. Full \in Nat
  BY TradeAssumption DEF Full
<1>1. ASSUME NEW p \in Traders, Dock(p)
      PROVE  TradeTypeOK'
  <2>1. /\ stock' \in [Goods -> 0..Full]
        /\ clock' \in [Goods -> 0..now]
    <3>1. \A g \in Goods : RestockedTo(g) \in 0..Full /\ ClockAfter(g) \in 0..now
      <4> SUFFICES ASSUME NEW g \in Goods
                   PROVE  RestockedTo(g) \in 0..Full /\ ClockAfter(g) \in 0..now
        OBVIOUS
      <4>1. RestockedTo(g) \in stock[g]..Full /\ ClockAfter(g) \in 0..now
        BY RestockOne
      <4>2. stock[g] \in 0..Full
        BY DEF TradeTypeOK
      <4>3. QED
        BY <1>0, <4>1, <4>2
    <3>2. QED
      BY <1>1, <3>1 DEF Dock, Restock
  <2>2. QED
    BY <1>1, <2>1 DEF Dock, ship, TradeTypeOK
<1>2. ASSUME NEW p \in Traders, KillPlayer(p)
      PROVE  TradeTypeOK'
  <2>1. Today + 1 \in Nat
    <3>1. now \in Nat /\ Day \in Nat \ {0}
      BY TradeAssumption DEF TradeTypeOK
    <3>2. now \div Day \in Nat
      BY <3>1, DivNat
    <3>3. QED
      BY <3>2 DEF Today
  <2>2. QED
    BY <1>2, <2>1 DEF KillPlayer, TradeTypeOK
<1>3. ASSUME NEW p \in Traders, Reconstruct(p)
      PROVE  TradeTypeOK'
  <2> DEFINE mult == 100 - Penalty(timesDied[p])
  <2>1. mult \in Nat
    BY PenaltyType DEF TradeTypeOK
  <2>2. (StartMoney * mult) \div 100 \in Nat /\ (StartHolds * mult) \div 100 \in Nat
    <3>1. StartMoney * mult \in Nat /\ StartHolds * mult \in Nat
      <4> HIDE DEF mult
      <4> QED BY <2>1, TradeAssumption
    <3> HIDE DEF mult
    <3> QED BY <3>1, DivNat
  <2>3. /\ money' = [money EXCEPT ![p] = (StartMoney * mult) \div 100]
        /\ holds' = [holds EXCEPT ![p] = (StartHolds * mult) \div 100]
    BY <1>3 DEF Reconstruct
  <2> HIDE DEF mult
  <2>4. money' \in [Traders -> Nat] /\ holds' \in [Traders -> Nat]
    BY <2>2, <2>3 DEF TradeTypeOK
  <2>5. QED
    BY <1>3, <2>4 DEF Reconstruct, TradeTypeOK
<1>4. ASSUME NEW p \in Traders, NEW n \in Nat,
             BuyHolds(p, n) \/ BankDeposit(p, n) \/ BankWithdraw(p, n)
      PROVE  TradeTypeOK'
  <2>1. CASE BuyHolds(p, n)
    <3>1. n * HoldPrice \in Nat
      BY TradeAssumption
    <3>2. QED
      BY <2>1, <3>1 DEF BuyHolds, TradeTypeOK
  <2>2. CASE BankDeposit(p, n)
    BY <2>2 DEF BankDeposit, TradeTypeOK
  <2>3. CASE BankWithdraw(p, n)
    BY <2>3 DEF BankWithdraw, TradeTypeOK
  <2>4. QED
    BY <1>4, <2>1, <2>2, <2>3
<1>5. ASSUME NEW p \in Traders, NEW n \in Nat, NEW g \in Goods,
             TradeBuy(p, g, n) \/ TradeSell(p, g, n)
      PROVE  TradeTypeOK'
  <2> DEFINE d == ScaleDown(holds[p], n)
  <2>1. d \in 0..stock[g] /\ stock[g] \in 0..Full
    <3>1. holds[p] \in Nat /\ stock[g] \in 0..Full /\ n <= ScaleUp(holds[p], stock[g])
      BY <1>0, <1>5 DEF TradeTypeOK, TradeBuy, TradeSell, CanBuy, CanSell
    <3>2. QED
      BY <1>0, <3>1, QuoteIsInStock
  <2>2. AtLeastZero(stock[g] - d) \in 0..Full
    <3> HIDE DEF d
    <3> QED BY <1>0, <2>1 DEF AtLeastZero
  <2>3. stock' \in [Goods -> 0..Full]
    <3>1. stock' = [stock EXCEPT ![g] = AtLeastZero(stock[g] - d)]
      BY <1>5 DEF TradeBuy, TradeSell, TradeTypeOK
    <3> HIDE DEF d
    <3> QED BY <2>2, <3>1 DEF TradeTypeOK
  <2>4. money' \in [Traders -> Nat] /\ cargo' \in [Traders -> [Goods -> Nat]]
    <3>1. CASE TradeBuy(p, g, n)
      BY <3>1, PriceTypes DEF TradeBuy, CanBuy, TradeTypeOK
    <3>2. CASE TradeSell(p, g, n)
      BY <3>2, PriceTypes DEF TradeSell, CanSell, TradeTypeOK
    <3>3. QED
      BY <1>5, <3>1, <3>2
  <2>5. QED
    BY <1>5, <2>3, <2>4 DEF TradeBuy, TradeSell, TradeTypeOK
<1>6. CASE Tick
  <2>1. \A g \in Goods : clock[g] \in 0..(now + 1)
    BY DEF TradeTypeOK
  <2>2. QED
    BY <1>6, <2>1 DEF Tick, ship, TradeTypeOK
<1>7. CASE UNCHANGED tradeVars
  BY <1>7 DEF tradeVars, ship, TradeTypeOK
<1>8. QED
  BY <1>1, <1>2, <1>3, <1>4, <1>5, <1>6, <1>7 DEF TradeNext

(* Whatever the prices, the day's length and the ships: quantities stay    *)
(* natural numbers and the port's stock within ten days' production.       *)
THEOREM TradeTypeCorrect == TradeSpec => []TradeTypeOK
<1>1. TradeInit => TradeTypeOK
  BY InitTyped
<1>2. TradeTypeOK /\ [TradeNext]_tradeVars => TradeTypeOK'
  BY StepTyped
<1>3. QED
  BY <1>1, <1>2, PTL DEF TradeSpec

(* The port always has what it quotes, to any ship.                        *)
THEOREM PortsKeepTheirWord == TradeSpec => []QuotedIsInStock
BY TradeTypeCorrect, TypedQuotes, PTL

----------------------------------------------------------------------------
(* What steps may do. *)

LEMMA StepCovers ==
  ASSUME TradeTypeOK, [TradeNext]_tradeVars,
         NEW p \in Traders, NEW g \in Goods,
         diedAt'[p] = diedAt[p], cargo'[p][g] # cargo[p][g]
  PROVE  ScaleUp(holds[p], stock[g] - stock'[g]) >= Moved(p, g)
<1>1. PICK n \in Nat : TradeBuy(p, g, n) \/ TradeSell(p, g, n)
  <2>1. CASE \E q \in Traders, m \in Nat, k \in Goods :
               TradeBuy(q, k, m) \/ TradeSell(q, k, m)
    <3>1. PICK q \in Traders, m \in Nat, k \in Goods :
            TradeBuy(q, k, m) \/ TradeSell(q, k, m)
      BY <2>1
    <3>2. q = p /\ k = g
      BY <3>1 DEF TradeBuy, TradeSell, TradeTypeOK
    <3>3. QED
      BY <3>1, <3>2
  <2>2. CASE \E q \in Traders : Reconstruct(q)
    <3>1. PICK q \in Traders : Reconstruct(q)
      BY <2>2
    <3>2. q = p
      BY <3>1 DEF Reconstruct, TradeTypeOK
    <3>3. diedAt[p] # 0 /\ diedAt'[p] = 0
      BY <3>1, <3>2 DEF Reconstruct, Due, Alive, TradeTypeOK
    <3>4. QED
      BY <3>3
  <2>3. CASE UNCHANGED cargo
    BY <2>3
  <2>4. ASSUME NEW q \in Traders, NEW m \in Nat,
               \/ Dock(q) \/ KillPlayer(q)
               \/ BuyHolds(q, m) \/ BankDeposit(q, m) \/ BankWithdraw(q, m)
        PROVE  UNCHANGED cargo
    BY <2>4 DEF Dock, KillPlayer, BuyHolds, BankDeposit, BankWithdraw, ship
  <2>5. CASE Tick \/ UNCHANGED tradeVars
    BY <2>5 DEF Tick, tradeVars, ship
  <2>6. QED
    BY <2>1, <2>2, <2>3, <2>4, <2>5 DEF TradeNext
<1> DEFINE d == ScaleDown(holds[p], n)
<1>2. /\ holds[p] \in Nat /\ stock[g] \in Nat /\ cargo[p][g] \in Nat
      /\ n <= ScaleUp(holds[p], stock[g])
  BY <1>1, TradeAssumption DEF TradeTypeOK, Full, TradeBuy, TradeSell, CanBuy, CanSell
<1>3. d \in 0..stock[g]
  BY <1>2, QuoteIsInStock
<1>4. stock'[g] = AtLeastZero(stock[g] - d)
  BY <1>1 DEF TradeBuy, TradeSell, TradeTypeOK
<1>5. Moved(p, g) = n /\ n # 0
  <2>1. cargo'[p][g] = cargo[p][g] + n \/ cargo'[p][g] = cargo[p][g] - n
    BY <1>1 DEF TradeBuy, TradeSell, TradeTypeOK
  <2>2. QED
    BY <1>2, <2>1 DEF Moved
<1>6. ScaleUp(holds[p], d) >= n
  BY <1>2, <1>5, ScaleDownLeast
<1> HIDE DEF d
<1>7. stock[g] - stock'[g] = d
  BY <1>2, <1>3, <1>4 DEF AtLeastZero
<1>8. QED
  BY <1>5, <1>6, <1>7

(* Rounding goes against the trader, for every ship, stock and quantity.   *)
THEOREM RoundingAgainstTrader == TradeSpec => PortUnitsCover
<1>1. TradeTypeOK /\ [TradeNext]_tradeVars
        => [\A p \in Traders, g \in Goods :
              (diedAt'[p] = diedAt[p] /\ cargo'[p][g] # cargo[p][g])
                => ScaleUp(holds[p], stock[g] - stock'[g]) >= Moved(p, g)]_tradeVars
  BY StepCovers
<1>2. QED
  BY <1>1, TradeTypeCorrect, PTL DEF TradeSpec, PortUnitsCover

LEMMA StepAccrues ==
  ASSUME TradeTypeOK, [TradeNext]_tradeVars, NEW g \in Goods,
         clock[g] # 0, clock'[g] # clock[g], stock'[g] < Full
  PROVE  Owed(g) <= Owed(g)' /\ Owed(g)' < Owed(g) + 2 * Prod
<1>1. CASE \E p \in Traders : Dock(p)
  <2>1. stock'[g] = RestockedTo(g) /\ clock'[g] = ClockAfter(g) /\ now' = now
    BY <1>1 DEF Dock, Restock
  <2>2. Owed(g)' = Day * RestockedTo(g) + 2 * Prod * (now - ClockAfter(g))
    BY <2>1 DEF Owed
  <2>3. QED
    BY <2>1, <2>2, RestockOne
<1>2. CASE UNCHANGED clock
  BY <1>2
<1>3. ASSUME NEW p \in Traders, NEW n \in Nat, NEW k \in Goods,
             \/ KillPlayer(p) \/ Reconstruct(p)
             \/ BuyHolds(p, n) \/ BankDeposit(p, n) \/ BankWithdraw(p, n)
             \/ TradeBuy(p, k, n) \/ TradeSell(p, k, n)
      PROVE  UNCHANGED clock
  BY <1>3 DEF KillPlayer, Reconstruct, BuyHolds, BankDeposit, BankWithdraw,
              TradeBuy, TradeSell
<1>4. CASE Tick \/ UNCHANGED tradeVars
  BY <1>4 DEF Tick, tradeVars
<1>5. QED
  BY <1>1, <1>2, <1>3, <1>4 DEF TradeNext

(* However often a port is docked at, for every production rate and length *)
(* of the day: nothing accrued is lost, and less than a tick's worth given *)
(* away.                                                                   *)
THEOREM AccrualKept == TradeSpec => NoAccrualLost
<1>1. TradeTypeOK /\ [TradeNext]_tradeVars
        => [\A g \in Goods : KeepsAccrual(g)]_tradeVars
  BY StepAccrues DEF KeepsAccrual
<1>2. QED
  BY <1>1, TradeTypeCorrect, PTL DEF TradeSpec, NoAccrualLost

----------------------------------------------------------------------------
(* The register of web sessions. *)

RegisterTyped ==
  /\ pc \in [Conns -> States]
  /\ web \subseteq Conns
  /\ active \in [Traders -> Conns \cup {NoSession}]
  /\ victim \in [Conns -> Conns \cup {NoSession}]

RegisterInv == RegisterTyped /\ EveryoneAccounted

(* A step that moves one session between states of the game, or out of it, *)
(* and leaves the register alone.                                          *)
LEMMA QuietStep ==
  ASSUME RegisterInv, NEW s \in Conns, NEW l \in InGame \cup {"over"},
         pc[s] \in InGame \cup {"start"},
         Goto(s, l), closed \subseteq closed',
         UNCHANGED <<web, active, victim>>
  PROVE  RegisterInv'
<1>1. RegisterTyped'
  BY DEF RegisterInv, RegisterTyped, Goto, States, InGame, Prompts
<1>2. ASSUME NEW t \in web' \ closed', pc'[t] \in Attached
      PROVE  Accounted(t)'
  <2>1. t \in web \ closed /\ pc[t] \in Attached
    BY <1>2 DEF RegisterInv, RegisterTyped, Goto, Attached, InGame, Prompts
  <2>2. Accounted(t)
    BY <2>1 DEF RegisterInv, EveryoneAccounted
  <2>3. \A r \in Conns : pc[r] = "evict" => pc'[r] = "evict"
    BY DEF RegisterInv, RegisterTyped, Goto, InGame, Prompts
  <2>4. QED
    BY <2>2, <2>3 DEF Accounted
<1>3. \A t \in web' : pc'[t] # "out"
  BY DEF RegisterInv, EveryoneAccounted, RegisterTyped, Goto, InGame, Prompts
<1>4. QED
  BY <1>1, <1>2, <1>3 DEF RegisterInv, EveryoneAccounted

LEMMA ConnectStep ==
  ASSUME RegisterInv, NEW s \in Conns, Connect(s)
  PROVE  RegisterInv'
<1>1. s \notin web
  BY DEF RegisterInv, EveryoneAccounted, Connect
<1>2. RegisterTyped'
  BY DEF RegisterInv, RegisterTyped, Connect, Goto, States
<1>3. ASSUME NEW t \in web' \ closed', pc'[t] \in Attached
      PROVE  Accounted(t)'
  <2>1. t # s
    BY <1>1, <1>3 DEF RegisterInv, RegisterTyped, Connect, Goto, Attached, InGame, Prompts
  <2>2. t \in web \ closed /\ pc[t] \in Attached
    BY <1>3, <2>1 DEF RegisterInv, RegisterTyped, Connect, Goto
  <2>3. Accounted(t)
    BY <2>2 DEF RegisterInv, EveryoneAccounted
  <2>4. \A r \in Conns : pc[r] = "evict" => pc'[r] = "evict"
    BY DEF RegisterInv, RegisterTyped, Connect, Goto
  <2>5. QED
    BY <2>3, <2>4 DEF Accounted, Connect
<1>4. \A t \in web' : pc'[t] # "out"
  BY DEF RegisterInv, EveryoneAccounted, RegisterTyped, Connect, Goto
<1>5. QED
  BY <1>2, <1>3, <1>4 DEF RegisterInv, EveryoneAccounted

(* Whoever was registered becomes the victim. *)
LEMMA AttachStep ==
  ASSUME RegisterInv, NEW s \in Conns, Attach(s)
  PROVE  RegisterInv'
<1> DEFINE p == Owner[s]
           old == active[p]
<1>0. p \in Traders
  BY SessionsAssumption
<1>1. RegisterTyped'
  BY <1>0 DEF RegisterInv, RegisterTyped, Attach, Goto, States
<1>2. ASSUME NEW t \in web' \ closed', pc'[t] \in Attached
      PROVE  Accounted(t)'
  <2>1. CASE t = s
    BY <1>0, <2>1 DEF RegisterInv, RegisterTyped, Attach, Accounted
  <2>2. CASE t # s
    <3>1. t \in web \ closed /\ pc[t] \in Attached
      BY <1>2, <2>2 DEF RegisterInv, RegisterTyped, Attach, Goto
    <3>2. Accounted(t) /\ t \in Conns
      BY <3>1 DEF RegisterInv, EveryoneAccounted, RegisterTyped
    <3>3. CASE active[Owner[t]] = t /\ Owner[t] = p
      <4>1. old = t /\ old # NoSession
        BY <3>2, <3>3, SessionsAssumption
      <4>2. pc'[s] = "evict" /\ victim'[s] = t
        BY <4>1 DEF RegisterInv, RegisterTyped, Attach, Goto
      <4>3. QED
        BY <4>2 DEF Accounted
    <3>4. CASE active[Owner[t]] = t /\ Owner[t] # p
      <4>1. active'[Owner[t]] = t
        BY <3>2, <3>4, SessionsAssumption DEF RegisterInv, RegisterTyped, Attach
      <4>2. QED
        BY <4>1 DEF Accounted
    <3>5. CASE \E r \in Conns : pc[r] = "evict" /\ victim[r] = t
      <4>1. PICK r \in Conns : pc[r] = "evict" /\ victim[r] = t
        BY <3>5
      <4>2. r # s
        BY <4>1 DEF Attach
      <4>3. pc'[r] = "evict" /\ victim'[r] = t
        BY <4>1, <4>2 DEF RegisterInv, RegisterTyped, Attach, Goto
      <4>4. QED
        BY <4>3 DEF Accounted
    <3>6. QED
      BY <3>2, <3>3, <3>4, <3>5 DEF Accounted
  <2>3. QED
    BY <2>1, <2>2
<1>3. \A t \in web' : pc'[t] # "out"
  BY DEF RegisterInv, EveryoneAccounted, RegisterTyped, Attach, Goto
<1>4. QED
  BY <1>1, <1>2, <1>3 DEF RegisterInv, EveryoneAccounted

(* The victim is told. *)
LEMMA EvictStep ==
  ASSUME RegisterInv, NEW s \in Conns, Evict(s)
  PROVE  RegisterInv'
<1>1. RegisterTyped'
  BY DEF RegisterInv, RegisterTyped, Evict, Goto, States
<1>2. ASSUME NEW t \in web' \ closed', pc'[t] \in Attached
      PROVE  Accounted(t)'
  <2>1. t \in web \ closed /\ pc[t] \in Attached /\ t \in Conns
    BY <1>2 DEF RegisterInv, RegisterTyped, Evict, Goto, Attached
  <2>2. pc[t] # "out"
    BY <2>1 DEF RegisterInv, EveryoneAccounted
  <2>3. victim[s] # t
    BY <1>2, <2>2 DEF Evict
  <2>4. Accounted(t)
    BY <2>1 DEF RegisterInv, EveryoneAccounted
  <2>5. CASE active[Owner[t]] = t
    BY <2>5 DEF Accounted, Evict
  <2>6. CASE \E r \in Conns : pc[r] = "evict" /\ victim[r] = t
    <3>1. PICK r \in Conns : pc[r] = "evict" /\ victim[r] = t
      BY <2>6
    <3>2. pc'[r] = "evict" /\ victim'[r] = t
      BY <2>3, <3>1 DEF RegisterInv, RegisterTyped, Evict, Goto
    <3>3. QED
      BY <3>2 DEF Accounted
  <2>7. QED
    BY <2>4, <2>5, <2>6 DEF Accounted
<1>3. \A t \in web' : pc'[t] # "out"
  BY DEF RegisterInv, EveryoneAccounted, RegisterTyped, Evict, Goto
<1>4. QED
  BY <1>1, <1>2, <1>3 DEF RegisterInv, EveryoneAccounted

(* A session takes out no registration but its own. *)
LEMMA OverStep ==
  ASSUME RegisterInv, NEW s \in Conns, Over(s)
  PROVE  RegisterInv'
<1>1. RegisterTyped'
  BY SessionsAssumption DEF RegisterInv, RegisterTyped, Over, Goto, Detach, States
<1>2. ASSUME NEW t \in web' \ closed', pc'[t] \in Attached
      PROVE  Accounted(t)'
  <2>1. t # s /\ t \in web \ closed /\ pc[t] \in Attached /\ t \in Conns
    BY <1>2 DEF RegisterInv, RegisterTyped, Over, Goto
  <2>2. Accounted(t)
    BY <2>1 DEF RegisterInv, EveryoneAccounted
  <2>3. CASE active[Owner[t]] = t
    <3>1. active'[Owner[t]] = t
      BY <2>1, <2>3, SessionsAssumption DEF RegisterInv, RegisterTyped, Over, Detach
    <3>2. QED
      BY <3>1 DEF Accounted
  <2>4. CASE \E r \in Conns : pc[r] = "evict" /\ victim[r] = t
    <3>1. PICK r \in Conns : pc[r] = "evict" /\ victim[r] = t
      BY <2>4
    <3>2. pc'[r] = "evict" /\ victim'[r] = t
      BY <3>1 DEF RegisterInv, RegisterTyped, Over, Goto
    <3>3. QED
      BY <3>2 DEF Accounted
  <2>5. QED
    BY <2>2, <2>3, <2>4 DEF Accounted
<1>3. \A t \in web' : pc'[t] # "out"
  BY DEF RegisterInv, EveryoneAccounted, RegisterTyped, Over, Goto
<1>4. QED
  BY <1>1, <1>2, <1>3 DEF RegisterInv, EveryoneAccounted

LEMMA QuietActions ==
  ASSUME RegisterInv, NEW s \in Conns,
         SessionStart(s) \/ Top(s) \/ HangUp(s) \/ Answer(s)
  PROVE  RegisterInv'
<1> DEFINE Quiet(l) == /\ pc[s] \in InGame \cup {"start"}
                       /\ Goto(s, l) /\ closed \subseteq closed'
                       /\ UNCHANGED <<web, active, victim>>
<1>1. CASE SessionStart(s)
  <2>1. Quiet("top") \/ Quiet("over")
    BY <1>1 DEF SessionStart, Only
  <2>2. QED
    BY <2>1, QuietStep DEF InGame
<1>2. CASE Top(s)
  <2>1. Quiet("cmd") \/ Quiet("over")
    BY <1>2 DEF Top, Only, InGame
  <2>2. QED
    BY <2>1, QuietStep DEF InGame, Prompts
<1>3. CASE HangUp(s)
  <2>1. Quiet("over")
    BY <1>3 DEF HangUp, InGame
  <2>2. QED
    BY <2>1, QuietStep
<1>4. CASE Move(s)
  <2>1. Quiet("top")
    BY <1>4 DEF Move, Only, InGame, Prompts
  <2>2. QED
    BY <2>1, QuietStep DEF InGame
<1>5. CASE DockPort(s)
  <2>1. Quiet("sell") \/ Quiet("bank") \/ Quiet("sol")
    BY <1>5 DEF DockPort, InGame, Prompts
  <2>2. QED
    BY <2>1, QuietStep DEF InGame, Prompts
<1>6. CASE Sell(s)
  <2>1. Quiet("sell") \/ Quiet("buy") \/ Quiet("top")
    BY <1>6 DEF Sell, Ask, Only, InGame, Prompts
  <2>2. QED
    BY <2>1, QuietStep DEF InGame, Prompts
<1>7. CASE Buy(s)
  <2>1. Quiet("buy") \/ Quiet("top")
    BY <1>7 DEF Buy, Ask, Only, InGame, Prompts
  <2>2. QED
    BY <2>1, QuietStep DEF InGame, Prompts
<1>8. CASE Bank(s)
  <2>1. Quiet("bank") \/ Quiet("top")
    BY <1>8 DEF Bank, Ask, Only, InGame, Prompts
  <2>2. QED
    BY <2>1, QuietStep DEF InGame, Prompts
<1>9. CASE Sol(s)
  <2>1. Quiet("sol") \/ Quiet("top")
    BY <1>9 DEF Sol, Only, InGame, Prompts
  <2>2. QED
    BY <2>1, QuietStep DEF InGame, Prompts
<1>10. QED
  BY <1>1, <1>2, <1>3, <1>4, <1>5, <1>6, <1>7, <1>8, <1>9 DEF Answer

LEMMA RegisterStep == RegisterInv /\ [Next]_vars => RegisterInv'
<1> SUFFICES ASSUME RegisterInv, [Next]_vars PROVE RegisterInv'
  OBVIOUS
<1>1. ASSUME NEW s \in Conns, SessionNext(s)
      PROVE  RegisterInv'
  BY <1>1, ConnectStep, AttachStep, EvictStep, OverStep, QuietActions
     DEF SessionNext, Inward
<1>2. ASSUME UNCHANGED sessionVars
      PROVE  RegisterInv'
  BY <1>2 DEF sessionVars, RegisterInv, RegisterTyped, EveryoneAccounted, Accounted
<1>3. ASSUME NEW p \in Traders, Destroyed(p)
      PROVE  UNCHANGED sessionVars
  BY <1>3 DEF Destroyed
<1>4. CASE Time
  BY <1>2, <1>4 DEF Time
<1>5. CASE UNCHANGED vars
  BY <1>2, <1>5 DEF vars
<1>6. QED
  BY <1>1, <1>2, <1>3, <1>4, <1>5 DEF Next

LEMMA RegisterStart == Init => RegisterInv
BY DEF Init, RegisterInv, RegisterTyped, EveryoneAccounted, States

(* For any number of players and of connections: of two live web sessions  *)
(* of one player, one is about to be closed.                               *)
THEOREM NewestWins == Spec => []OneLiveWebSession
<1>1. RegisterInv => OneLiveWebSession
  <2> SUFFICES ASSUME RegisterInv, NEW s \in Live, NEW t \in Live,
                      s # t, Owner[s] = Owner[t]
               PROVE  \E r \in Conns : pc[r] = "evict" /\ victim[r] \in {s, t}
    BY DEF OneLiveWebSession
  <2>1. Accounted(s) /\ Accounted(t)
    BY DEF Live, RegisterInv, EveryoneAccounted, Attached
  <2>2. QED
    BY <2>1 DEF Accounted
<1>2. QED
  BY <1>1, RegisterStart, RegisterStep, PTL DEF Spec

----------------------------------------------------------------------------
(* The market below. *)

LEMMA SessionsTrade ==
  ASSUME TypeOK, NEW s \in Conns, SessionNext(s)
  PROVE  [TradeNext]_tradeVars
<1> DEFINE p == Owner[s]
<1>0. p \in Traders /\ Amounts \subseteq Nat
  BY SessionsAssumption
<1>1. CASE Connect(s) \/ Attach(s) \/ Evict(s) \/ Top(s) \/ Over(s)
  BY <1>1 DEF Connect, Attach, Evict, Top, Over, Idle
<1>2. CASE SessionStart(s)
  BY <1>0, <1>2 DEF SessionStart, Idle, TradeNext
<1>3. CASE Move(s)
  BY <1>3 DEF Move
<1>4. CASE DockPort(s)
  BY <1>0, <1>4 DEF DockPort, TradeNext
<1>5. CASE Sell(s)
  <2>1. \/ UNCHANGED tradeVars
        \/ \E g \in Goods, n \in Nat : TradeSell(p, g, n)
    BY <1>0, <1>5 DEF Sell
  <2>2. QED
    BY <1>0, <2>1 DEF TradeNext
<1>6. CASE Buy(s)
  <2>1. \/ UNCHANGED tradeVars
        \/ \E g \in Goods, n \in Nat : TradeBuy(p, g, n)
    BY <1>0, <1>6, TradeAssumption DEF Buy
  <2>2. QED
    BY <1>0, <2>1 DEF TradeNext
<1>7. TakeDefault(s) => \E n \in Nat : BankDeposit(p, n) \/ BankWithdraw(p, n)
  <2>1. offer[s].deposit \in Nat /\ offer[s].withdraw \in Nat
    BY DEF TypeOK
  <2>2. QED
    BY <2>1 DEF TakeDefault
<1>8. CASE Bank(s) \/ HangUp(s)
  <2>1. \/ UNCHANGED tradeVars
        \/ \E n \in Nat : BankDeposit(p, n) \/ BankWithdraw(p, n)
    BY <1>0, <1>7, <1>8 DEF Bank, HangUp
  <2>2. QED
    BY <1>0, <2>1 DEF TradeNext
<1>9. CASE Sol(s)
  <2>1. \/ UNCHANGED tradeVars
        \/ \E n \in Nat : BuyHolds(p, n)
    BY <1>0, <1>9 DEF Sol
  <2>2. QED
    BY <1>0, <2>1 DEF TradeNext
<1>10. QED
  BY <1>1, <1>2, <1>3, <1>4, <1>5, <1>6, <1>8, <1>9 DEF SessionNext, Inward, Answer

LEMMA NextTrade == TypeOK /\ [Next]_vars => [TradeNext]_tradeVars
<1> SUFFICES ASSUME TypeOK, [Next]_vars PROVE [TradeNext]_tradeVars
  OBVIOUS
<1>1. ASSUME NEW p \in Traders, Destroyed(p)
      PROVE  TradeNext
  BY <1>1 DEF Destroyed, TradeNext
<1>2. CASE Time
  BY <1>2 DEF Time, TradeNext
<1>3. CASE UNCHANGED vars
  BY <1>3 DEF vars
<1>4. QED
  BY SessionsTrade, <1>1, <1>2, <1>3 DEF Next

(* Why what is closed is a web session: so is whoever is registered, and   *)
(* every victim that has not left.                                         *)
WebInv ==
  /\ \A s \in Conns : pc[s] \in {"attach", "evict"} => s \in web
  /\ \A s \in Conns : pc[s] = "evict" => victim[s] # NoSession
  /\ \A p \in Traders : active[p] # NoSession => active[p] \in web /\ Owner[active[p]] = p
  /\ \A s \in Conns : victim[s] # NoSession => pc[victim[s]] = "out" \/ victim[s] \in web

(* A session that goes on in the game, or leaves it.                       *)
LEMMA GotoTyped ==
  ASSUME TypeOK, TradeTypeOK', NEW s \in Conns, NEW l \in States, Goto(s, l)
  PROVE  /\ pc' \in [Conns -> States]
         /\ offer' \in [Conns -> [deposit : Nat, withdraw : Nat]]
<1>1. pc' \in [Conns -> States]
  BY DEF TypeOK, Goto
<1>2. Owner[s] \in Traders
  BY SessionsAssumption
<1>3. money'[Owner[s]] \in Nat /\ account'[Owner[s]] \in Nat
  BY <1>2 DEF TradeTypeOK
<1>4. offer' \in [Conns -> [deposit : Nat, withdraw : Nat]]
  BY <1>3 DEF TypeOK, Goto, NoOffer
<1>5. QED
  BY <1>1, <1>4

LEMMA GameTyped ==
  ASSUME TypeOK, TradeTypeOK', NEW s \in Conns,
         SessionStart(s) \/ Top(s) \/ HangUp(s) \/ Answer(s)
  PROVE  TypeOK'
<1> DEFINE Quiet(l) == /\ Goto(s, l) /\ closed' \subseteq closed \cup ({s} \cap web)
                       /\ UNCHANGED <<web, active, victim>>
           Placed == place' \in [Traders -> Places \cup {"nowhere"}]
           Docked == docked' \in [Conns -> Nat]
<1>1. (\E l \in States : Quiet(l)) /\ Placed /\ Docked => TypeOK'
  BY GotoTyped DEF TypeOK
<1>2. CASE SessionStart(s)
  BY <1>1, <1>2, SessionsAssumption
     DEF SessionStart, Only, Idle, States, InGame, TypeOK, Places
<1>3. CASE Top(s)
  BY <1>1, <1>3 DEF Top, Only, Idle, States, InGame, Prompts, TypeOK
<1>4. CASE HangUp(s)
  BY <1>1, <1>4 DEF HangUp, States, TypeOK
<1>5. CASE Move(s)
  BY <1>1, <1>5, SessionsAssumption DEF Move, Only, States, InGame, TypeOK
<1>6. CASE DockPort(s)
  <2>1. timesDied[Owner[s]] \in Nat
    BY SessionsAssumption DEF TypeOK, TradeTypeOK
  <2>2. QED
    BY <1>1, <1>6, <2>1 DEF DockPort, States, InGame, Prompts, TypeOK
<1>7. CASE Sell(s)
  BY <1>1, <1>7 DEF Sell, Ask, Only, States, InGame, Prompts, TypeOK
<1>8. CASE Buy(s)
  BY <1>1, <1>8 DEF Buy, Ask, Only, States, InGame, Prompts, TypeOK
<1>9. CASE Bank(s)
  BY <1>1, <1>9 DEF Bank, Ask, Only, States, InGame, Prompts, TypeOK
<1>10. CASE Sol(s)
  BY <1>1, <1>10 DEF Sol, Only, States, InGame, Prompts, TypeOK
<1>11. QED
  BY <1>2, <1>3, <1>4, <1>5, <1>6, <1>7, <1>8, <1>9, <1>10 DEF Answer

LEMMA DoorTyped ==
  ASSUME TypeOK, WebInv, TradeTypeOK', NEW s \in Conns,
         Connect(s) \/ Attach(s) \/ Evict(s) \/ Over(s)
  PROVE  TypeOK'
<1>0. Owner[s] \in Traders
  BY SessionsAssumption
<1>1. pc' \in [Conns -> States] /\ offer' \in [Conns -> [deposit : Nat, withdraw : Nat]]
  BY GotoTyped DEF Connect, Attach, Evict, Over, States
<1>2. place' = place /\ docked' \in [Conns -> Nat]
  BY DEF TypeOK, Connect, Attach, Evict, Over, Idle
<1>3. CASE Connect(s)
  BY <1>1, <1>2, <1>3 DEF TypeOK, Connect
<1>4. CASE Attach(s)
  BY <1>0, <1>1, <1>2, <1>4 DEF TypeOK, Attach
<1>5. CASE Evict(s)
  BY <1>1, <1>2, <1>5, SessionsAssumption DEF TypeOK, WebInv, Evict
<1>6. CASE Over(s)
  BY <1>0, <1>1, <1>2, <1>6 DEF TypeOK, Over, Detach
<1>7. QED
  BY <1>3, <1>4, <1>5, <1>6

LEMMA WebStep ==
  ASSUME TypeOK, WebInv, NEW s \in Conns, SessionNext(s)
  PROVE  WebInv'
<1>0. Owner[s] \in Traders
  BY SessionsAssumption
<1>1. CASE Connect(s)
  BY <1>1 DEF TypeOK, WebInv, Connect, Goto
<1>2. CASE Attach(s)
  <2>1. s \in web
    BY <1>2 DEF WebInv, Attach
  <2>2. QED
    BY <1>0, <1>2, <2>1 DEF TypeOK, WebInv, Attach, Goto
<1>3. CASE Evict(s)
  BY <1>3 DEF TypeOK, WebInv, Evict, Goto
<1>4. CASE Over(s)
  BY <1>0, <1>4 DEF TypeOK, WebInv, Over, Goto, Detach
<1>5. CASE SessionStart(s) \/ Top(s) \/ HangUp(s) \/ Answer(s)
  <2>1. /\ UNCHANGED <<web, active, victim>>
        /\ pc[s] # "out"
        /\ \E l \in InGame \cup {"over"} : pc' = [pc EXCEPT ![s] = l]
    BY <1>5 DEF SessionStart, Top, HangUp, Answer, Move, DockPort, Sell, Buy, Bank, Sol,
                Ask, Only, Goto, InGame, Prompts
  <2>2. QED
    BY <2>1 DEF TypeOK, WebInv, InGame, Prompts
<1>6. QED
  BY <1>1, <1>2, <1>3, <1>4, <1>5 DEF SessionNext, Inward

LEMMA TypedStep == TypeOK /\ WebInv /\ [Next]_vars => (TypeOK /\ WebInv)'
<1> SUFFICES ASSUME TypeOK, WebInv, [Next]_vars PROVE TypeOK' /\ WebInv'
  OBVIOUS
<1>1. TradeTypeOK'
  BY NextTrade, StepTyped DEF TypeOK
<1>2. ASSUME NEW s \in Conns, SessionNext(s)
      PROVE  TypeOK' /\ WebInv'
  BY <1>1, <1>2, GameTyped, DoorTyped, WebStep DEF SessionNext, Inward
<1>3. ASSUME UNCHANGED sessionVars
      PROVE  WebInv'
  BY <1>3 DEF WebInv, sessionVars
<1>4. ASSUME UNCHANGED sessionVars, place' \in [Traders -> Places \cup {"nowhere"}]
      PROVE  TypeOK'
  BY <1>1, <1>4 DEF TypeOK, sessionVars
<1>5. ASSUME NEW p \in Traders, Destroyed(p)
      PROVE  TypeOK' /\ WebInv'
  BY <1>3, <1>4, <1>5 DEF Destroyed, TypeOK
<1>6. CASE Time
  BY <1>3, <1>4, <1>6 DEF Time, TypeOK
<1>7. CASE UNCHANGED vars
  BY <1>3, <1>4, <1>7 DEF vars, TypeOK
<1>8. QED
  BY <1>2, <1>5, <1>6, <1>7 DEF Next

LEMMA TypedStart == Init => TypeOK /\ WebInv
<1> SUFFICES ASSUME Init PROVE TypeOK /\ WebInv
  OBVIOUS
<1>1. TradeTypeOK
  BY InitTyped DEF Init
<1>2. QED
  BY <1>1 DEF Init, TypeOK, WebInv, States, NoOffer, Places

LEMMA Typed == Spec => [](TypeOK /\ WebInv)
BY TypedStart, TypedStep, PTL DEF Spec

(* Every variable has its type, in particular nothing but web sessions is  *)
(* ever closed from outside, and no one proposes amounts below nothing.    *)
THEOREM SessionsTypeCorrect == Spec => []TypeOK
BY Typed, PTL

(* Whatever goes on at the terminals, the engine takes only the market's   *)
(* steps: Sessions implements Trade.                                       *)
THEOREM SessionsImplementTrade == Spec => TradeSpec
<1>1. Init => TradeInit
  BY DEF Init
<1>2. QED
  BY <1>1, NextTrade, SessionsTypeCorrect, PTL DEF Spec, TradeSpec

(* So what is proved of the market holds of a server with any number of    *)
(* sessions: the port has what it quotes, at every stale prompt too.       *)
THEOREM SessionsQuotes == Spec => []QuotedIsInStock
BY SessionsImplementTrade, PortsKeepTheirWord, PTL

(* Rounding goes against the trader.                                       *)
THEOREM SessionsRounding == Spec => PortUnitsCover
BY SessionsImplementTrade, RoundingAgainstTrader

(* And accrual is kept.                                                    *)
THEOREM SessionsAccrual == Spec => NoAccrualLost
BY SessionsImplementTrade, AccrualKept

LEMMA StepKeepsWreck ==
  ASSUME TradeTypeOK, [TradeNext]_tradeVars, NEW p \in Traders
  PROVE  KeepsWreck(p)
<1> SUFFICES ASSUME diedAt[p] # 0, diedAt'[p] # 0
             PROVE  UNCHANGED <<money[p], holds[p], cargo[p]>>
  BY DEF KeepsWreck, Alive
<1>1. ASSUME NEW q \in Traders, Dock(q) \/ KillPlayer(q)
      PROVE  UNCHANGED <<money[p], holds[p], cargo[p]>>
  BY <1>1 DEF Dock, KillPlayer, ship
<1>2. ASSUME NEW q \in Traders, Reconstruct(q)
      PROVE  UNCHANGED <<money[p], holds[p], cargo[p]>>
  <2>1. q # p
    BY <1>2 DEF Reconstruct, TradeTypeOK
  <2>2. QED
    BY <1>2, <2>1 DEF Reconstruct, TradeTypeOK
<1>3. ASSUME NEW q \in Traders, NEW n \in Nat, NEW g \in Goods,
             \/ BuyHolds(q, n) \/ BankDeposit(q, n) \/ BankWithdraw(q, n)
             \/ TradeBuy(q, g, n) \/ TradeSell(q, g, n)
      PROVE  UNCHANGED <<money[p], holds[p], cargo[p]>>
  <2>1. q # p
    BY <1>3 DEF BuyHolds, BankDeposit, BankWithdraw, TradeBuy, TradeSell,
                CanBuy, CanSell, CheckAlive, Alive
  <2>2. QED
    BY <1>3, <2>1 DEF BuyHolds, BankDeposit, BankWithdraw, TradeBuy, TradeSell,
                      TradeTypeOK
<1>4. ASSUME NEW q \in Traders, NEW n \in Nat,
             BuyHolds(q, n) \/ BankDeposit(q, n) \/ BankWithdraw(q, n)
      PROVE  UNCHANGED <<money[p], holds[p], cargo[p]>>
  <2>1. q # p
    BY <1>4 DEF BuyHolds, BankDeposit, BankWithdraw, CheckAlive, Alive
  <2>2. QED
    BY <1>4, <2>1 DEF BuyHolds, BankDeposit, BankWithdraw, TradeTypeOK
<1>5. CASE Tick \/ UNCHANGED tradeVars
  BY <1>5 DEF Tick, tradeVars, ship
<1>6. QED
  BY <1>1, <1>2, <1>3, <1>4, <1>5 DEF TradeNext

(* No answer at any prompt touches a wreck, for any number of sessions.    *)
THEOREM WrecksAreLeftAlone == Spec => DeadDoNotTrade
<1>1. TradeTypeOK /\ [TradeNext]_tradeVars => \A p \in Traders : KeepsWreck(p)
  BY StepKeepsWreck
<1>2. TradeSpec => [][\A p \in Traders : KeepsWreck(p)]_vars
  BY <1>1, TradeTypeCorrect, PTL DEF TradeSpec
<1>3. QED
  BY <1>2, SessionsImplementTrade, PTL DEF DeadDoNotTrade
=============================================================================
