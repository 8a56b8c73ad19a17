SPECIFICATION Spec
CONSTANTS
  s1 = s1
  s2 = s2
  w1 = w1
  w2 = w2
  Symbols = {s1, s2}
  Workers = {w1}
  Trades <- BuysAndSells
  MaxFills = 4
  None = None
INVARIANT
  PositionsMatchFills
PROPERTY
  FlattenOnlyReduces
  TradesAreAtomic
