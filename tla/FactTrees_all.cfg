CONSTANTS
  EntMax = 63
  IntMax = 31
  B = 4
  MIN = 2
  OrderColumn = 2
  ProbeCells <- ProbeCells1
  MaxEdits = 2
  Tuples <- Tuples1
  Diffs <- Diffs1
  Holes <- Holes1
  Blocks <- Blocks1
  Beginnings <- Beginnings1
  Shapes <- Shapes1
SPECIFICATION Spec
INVARIANTS
  TreesSound
  ReadsExact
  ComparesExact
PROPERTIES
  ActsAsDictionary
CHECK_DEADLOCK FALSE
