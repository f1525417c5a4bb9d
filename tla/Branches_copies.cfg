CONSTANTS
  MaxId = 2
  Width = 2
  Patches <- Patches2
  Blocks = {}
  Spans = {}
  Bindings = {}
  Budgets <- Budgets2
  ForkInherited = FALSE
  ConsolidateMerges = FALSE
  IndexFirst = TRUE
SPECIFICATION Spec
INVARIANTS
  ReplayedOnce
CHECK_DEADLOCK FALSE
