SPECIFICATION Spec
CONSTANTS
  r1 = r1
  s1 = s1
  s2 = s2
  d1 = d1
  d2 = d2
  w1 = w1
  Runs = {r1}
  Symbols = {s1, s2}
  Days = {d1, d2}
  Workers = {w1}
  None = None
INVARIANT
  ReportedRunsAreCompleted
