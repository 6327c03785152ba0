CONSTANTS
  p1 = p1  c1 = c1  c2 = c2  ore = ore  equipment = equipment
  Traders = {p1}
  Goods = {ore, equipment}
  Sells = {equipment}
  Price <- MCPrice
  Prod = 1
  Day = 3
  HoldPrice = 1
  StartMoney = 0
  StartHolds = 75
  FirstCargo = 10
  Short <- MCShort
  MaxTime = 4
  MaxDeaths = 1
  Conns = {c1, c2}
  Owner <- MCOwner
  Amounts = {10}
  NoSession = NoSession
SPECIFICATION FairSpec
INVARIANTS QuotedIsInStock OneLiveWebSession
PROPERTIES PortUnitsCover NoAccrualLost DeadDoNotTrade GhostsShownOut
