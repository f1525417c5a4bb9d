SPECIFICATION FairSpec
CONSTANTS
  c1 = c1
  c2 = c2
  c3 = c3
  token = token
  NoOne = NoOne
  Clients = {c1, c2}
  Observers = {c3}
  Facts = {token}
  Patches <- TokenPatches
  Shapes = {"ordered","kd"}
  FreshShape = "ordered"
  MaxBranch = 1
  MaxStages = 2
  MaxFailures = 1
INVARIANTS AckedOnDisk RecoverableIsPrefix NeverLost
PROPERTIES Answered ImplementsPromise
