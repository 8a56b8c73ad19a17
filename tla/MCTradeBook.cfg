SPECIFICATION DeskSpec
CONSTANTS
  r1 = r1
  r2 = r2
  s1 = s1
  s2 = s2
  d1 = d1
  w1 = w1
  o1 = o1
  o2 = o2
  o3 = o3
  k1 = k1
  k2 = k2
  Runs = {r1, r2}
  Symbols = {s1, s2}
  Days = {d1}
  Workers = {w1}
  Orders = {o1, o2, o3}
  Keys = {k1, k2}
  FillKey <- MCFillKey
  Recalled = {o2}
  Sizes <- MCSizes
  Discovery = {s1}
  SeedShares <- MCSeedShares
  SeedPaid <- MCSeedPaid
  SeedShown <- MCSeedShown
  SeedLedger <- MCSeedLedger
  SeedCash = 5000
  ImportShares <- MCImportShares
  ImportShown <- MCSeedShown
  None = None
SYMMETRY Alike
INVARIANTS
  DeskTypeOK
  ReportedOrdersAreBooked
  OnlyDiscoveredSymbolsTrade
PROPERTIES
  TradesKeepTheEquity
  DatabaseActsLikeFake
