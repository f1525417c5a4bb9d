SPECIFICATION Spec
CONSTANTS
  Transform <- MCTransform
  Accepts <- MCAccepts
  ProbeLimit = 1
  Base = {"e", "s"}
  Writes <- MCWrites
  Plans <- MCPlans
  Copies <- MCCopies
  Maintained <- MCMaintained
  Watches = {1}
  View <- MCView
  p1 = p1
  p2 = p2
  m1 = m1
  m2 = m2
  gc = gc
  Pumps = {p1, p2}
  Pumped <- MCPumped
  Maintainers = {m1, m2}
  Refreshed <- MCRefreshed
  Collectors = {gc}
  Recursion <- Closure
  Bootstrap <- MCBootstrap
  MaxWrites = 2
  MaxAdvances = 2
  MaxEditions = 5
CONSTRAINT Bounds
SYMMETRY Symmetry
INVARIANTS
  DeltaIsDifference
  CopyChangesNoAnswer
  DeliveredOnce
  FixpointExact
PROPERTIES
  StrandedOnlyUnseen
CHECK_DEADLOCK FALSE
