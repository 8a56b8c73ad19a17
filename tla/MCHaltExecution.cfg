SPECIFICATION Spec
CONSTANTS
  h1 = h1
  h2 = h2
  h3 = h3
  w1 = w1
  w2 = w2
  w3 = w3
  Halts = {h1}
  Workers = {w1}
  None = None
PROPERTY
  HaltBlocksExecution
