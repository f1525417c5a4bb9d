SPECIFICATION Spec
CONSTANTS
  c1 = c1
  c2 = c2
  c3 = c3
  Conns = {c1, c2, c3}
  Name <- MCName
  Watching = {c1, c2}
  MaxTries = 2
  MaxLines = 3
  MaxLogins = 2
  MaxFaults = 1
CONSTRAINT Bounds
SYMMETRY Symmetry
INVARIANTS Identities AnsweredOnce NothingSkipped
CHECK_DEADLOCK FALSE
