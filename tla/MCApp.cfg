CONSTANTS
  Path <- MCPath
  Typed <- MCTyped
  StartPath = 1
  MaxConnections = 2
  MaxRequests = 1
  MaxTransfers = 1
  MaxEvents = 1
  MaxQuits = 2
SPECIFICATION FairSpec
INVARIANTS ReferencesHold NothingLeftAtExit
PROPERTIES LateAnswersChangeNothing AnswersArrive
CHECK_DEADLOCK FALSE
