SPECIFICATION AdviceFairSpec
CONSTANTS
  r1 = r1
  r2 = r2
  s1 = s1
  s2 = s2
  d1 = d1
  d2 = d2
  w1 = w1
  w2 = w2
  Runs = {r1, r2}
  Symbols = {s1, s2}
  Days = {d1, d2}
  Workers = {w1, w2}
  Explained = {r1}
  StageCount = 1
  None = None
INVARIANTS
  AdviceTypeOK
  ReportsMatchRows
  MarksAreFullyScored
  HaltedRunsLeaveNothing
  ScorecardsHaveReferences
  MissingExplanationsAreLogged
PROPERTY
  EveryRunReports
