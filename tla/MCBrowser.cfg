CONSTANTS
  Node <- MCNode
  Parent <- MCParent
  Name <- MCName
  Navigable <- MCNavigable
  Entries <- MCEntries
  Starts = {2}
  Breaks = {1, 2, 3, 4}
  HalfPage = 2
  Letters = {"a", "b"}
  MaxQuery = 1
  MaxGroups = 1
  MaxRequests = 2
  MaxListings = 2
SPECIFICATION FairSpec
INVARIANTS RowsAreATree
PROPERTIES ArrivalsLeaveSelection AbandonRestores ListingsSettle
CHECK_DEADLOCK FALSE
