SPECIFICATION Spec
CONSTANTS
  y = y
  p = p
  r = r
  s = s
  NoNode = NoNode
  Nodes <- TreeNodes
  Refs <- TreeRefs
  Edits <- TwoTrees
  MaxPending = 2
  MaxHeld = 1
  GroupsFail = TRUE
INVARIANTS RootStaysClosed StubsReadable
CONSTRAINT UntilLapse
