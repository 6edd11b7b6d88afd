SPECIFICATION FairProgressSpec
CONSTANTS
  Interval = 3
  MaxReports = 4
  MaxTime = 9
  Never = Never
INVARIANTS LatestBeforeEnd
PROPERTIES EveryReportReaches
