SPECIFICATION FairSpec
CONSTANTS
  s1 = s1
  s2 = s2
  w1 = w1
  w2 = w2
  Symbols = {s1, s2}
  Workers = {w1, w2}
  Trades <- BuysAndSells
  MaxFills = 3
  None = None
INVARIANTS
  TypeOK
  CashMatchesLedger
  EquityMatchesPositions
PROPERTY
  EveryTransactionEnds
