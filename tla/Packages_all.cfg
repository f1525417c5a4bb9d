SPECIFICATION Spec
CHECK_DEADLOCK FALSE
CONSTANTS
  EntMax = 99
  IntMax = 49
  Marker = "grmpl:package/install"
  Cursor = "view:cursor"
  Sources <- MCSources
  Hosts <- MCHosts
  Bases = {10, 12}
  MaxLoads = 2
  MaxCrashes = 1
  MaxPlays = 2
INVARIANTS
  NamesAndSchemasStand
  ResourcesStand
