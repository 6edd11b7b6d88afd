SPECIFICATION FairSpec
CONSTANTS
  Conn = {"a", "b"}
  Kind <- MCKind
  Stuck = {"a"}
  Chunks = 1
  Asked <- MCAsked
  Flow = 1
  MaxFaults = 1
INVARIANTS AnsweredIsClean
PROPERTIES PublishesTheWhole ClosingSettles
CHECK_DEADLOCK FALSE
