SPECIFICATION ConnectionFairSpec
CONSTANTS
  EventBuffer = 3
  CommandBuffer = 4
  Width = 3
  Base = 1
  MaxDelay = 6
INVARIANTS CatchesUp
PROPERTIES LoopGoesOn
