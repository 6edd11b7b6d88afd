SPECIFICATION Spec
CONSTANTS
  Node <- MCNode
  Root = "root"
  Parent <- MCParent
  Name <- MCName
  KindAtFirst <- MCKind
  Target <- MCTarget
  Modified <- MCModified
  PerSecond = 4
  RootAt <- MCRootAt
  Home <- MCHome
  Typed <- MCTyped
  ChunkEntries = 2
  BatchBytes = {7}
  WireFrames = 1
  MaxChanges = 1
INVARIANTS EndTellsTheTruth PreOrder NamesSurvive
PROPERTIES CommandReturns
