SPECIFICATION Spec
CHECK_DEADLOCK FALSE
SYMMETRY Symmetry
CONSTANTS
  Workers = {w1, w2}
  w1 = w1
  w2 = w2
  EntMax = 3
  IntMax = 3
  RngWords = 8
  ProbeLimit = 1
  MaxDepth = 2
  MaxIrDepth = 4
  Version = 1
  MaxCommits = 3
  CursorRel = "cursors"
  Direct = "direct"
  Proto = "proto"
  Births = "made"
  Transform <- Apply
  Accepts <- MCTest
  Guard <- MCGuard
  HasWord <- MCHasWord
  Temps <- MCTemps
  Shift <- MCShift
  Scramble <- MCScramble
  Columns <- MCColumns
  Contexts <- MCContexts
  EntityOf <- MCEntityOf
  Views <- MCViews
  Backing <- MCBacking
  Forms <- MCForms
  Ons <- MCOns
  ActorInbox <- MCActorInbox
  Capabilities <- MCCapabilities
  Stored <- MCStored
  Host <- Everything
  Owner <- MCOwner
  Grants <- MCGrants
  Bodies <- MCBodies
  Installs <- MCInstalls
  Receivers <- MCReceivers
  Bootstrap <- MCBootstrap
  Authorities <- MCAuthorities
  Subjects <- MCSubjects
  Inputs <- MCInputs
INVARIANTS
  ViewsMeanBody
  RowsAsTyped
  WordsMeanStack
  RoundTrips
  WellTypedRuns
  EffectsBound
  CapabilitiesStand
