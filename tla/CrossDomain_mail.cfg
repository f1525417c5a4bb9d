SPECIFICATION Spec
CONSTANTS
  Domains = {"a", "b", "c"}
  Routes <- MCRoutes
  Committers = {"c1", "c2", "c3", "c4"}
  Flushers = {"f1", "f2", "f3"}
  Receivers = {"r1"}
  Home <- MCHome
  Job <- MCJob
  World <- MCWorld
  MaxTries = 2
  MaxFaults = 1
INVARIANTS
  MailConserved
  AppliedOnce
CHECK_DEADLOCK FALSE
