SPECIFICATION Spec
CONSTANTS
  s1 = s1
  s2 = s2
  w1 = w1
  w2 = w2
  Symbols = {s1}
  Workers = {w1}
  Trades <- Buys
  MaxFills = 3
  None = None
PROPERTY
  StopsSurvive
