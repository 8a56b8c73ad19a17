SPECIFICATION Spec
CONSTANTS
  None = None
  Weights <- ComponentWeights
  p1 = p1
  p2 = p2
  p3 = p3
  k1 = k1
  k2 = k2
  Positions = {p1, p2, p3}
  Sectors = {k1, k2}
  SectorOf <- MCSectorOf
  Bundles <- MCBundles
  Portfolios <- MCPortfolios
  Books <- MCBooks
  Policies <- MCPolicies
  Equities <- MCEquities
  Quantities = {0, 1, 2, 8, 100}
  Risks = {50, 100, 200}
  Prices <- MCPrices
  Stops <- MCStops
INVARIANTS
  TypeOK
  EntriesNeedRiskOn
  AdviceNeedsData
  BreachStopsTheBook
  PostureAgreesWithDecisions
  PreviewForetellsModify
PROPERTIES
  WorseRegimeNeverUpgrades
  TighterPolicyNeverRelaxes
