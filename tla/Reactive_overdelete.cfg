SPECIFICATION Spec
CONSTANTS
  Transform <- MCTransform
  Accepts <- MCAccepts
  ProbeLimit = 1
  Base = {"e", "s"}
  Writes <- MCDeletion
  Plans = {}
  Copies = {}
  Maintained <- MCMaintained
  Watches = {}
  View <- MCView
  Pumps = {}
  Pumped <- MCPumped
  Maintainers = {}
  Refreshed <- MCRefreshed
  Collectors = {}
  Recursion <- SelfJoin
  Bootstrap <- MCBootstrap
  MaxWrites = 1
  MaxAdvances = 2
  MaxEditions = 5
INVARIANT FixpointExact
CHECK_DEADLOCK FALSE
