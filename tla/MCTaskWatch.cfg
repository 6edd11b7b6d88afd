SPECIFICATION FairSpec
CONSTANTS
  MaxTasks = 2
  Conn = {c1}
  Retained = 1
  Buffer = 1
  Wire = 1
  MaxLinks = 2
  MaxLives = 2
PROPERTIES NeverBackwards PaneFollows StopTellsHowItEnded StopEnds
CHECK_DEADLOCK FALSE
