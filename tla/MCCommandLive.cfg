SPECIFICATION FairSpec
CONSTANTS
  k1 = k1
  k2 = k2
  k3 = k3
  i1 = i1
  i2 = i2
  i3 = i3
  c1 = c1
  c2 = c2
  w1 = w1
  w2 = w2
  Keys = {k1, k2}
  HandledKeys <- MCHandled
  AmbiguousKeys <- MCAmbiguous
  Ids = {i1, i2}
  Clients = {c1}
  Workers = {w1, w2}
  MaxClock = 1
  MaxStops = 0
  None = None
PROPERTY
  EveryCommandFinishes
