CONSTANTS
  MaxId = 6
  Width = 2
  Patches <- Patches1
  Blocks <- Blocks1
  Spans <- Spans1
  Bindings <- Bindings1
  Budgets <- Budgets1
  ForkInherited = FALSE
  ConsolidateMerges = FALSE
  IndexFirst = TRUE
SPECIFICATION Spec
INVARIANTS
  ReplayedOnce
  AncestorsBehind
  ReadsStand
  GraftsTraced
  InterestsNotMissed
  IndexExact
CHECK_DEADLOCK FALSE
