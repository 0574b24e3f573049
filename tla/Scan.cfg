SPECIFICATION Spec
CONSTANTS
  NKeys = 3
  Shards = {1, 2}
  PageSize = 2
  Limits = {1, 3}
  FillPage = 1
  Legacy = {{}, {2, 3}}
  Candidates <- MCCandidates
  Capacity = 1
  MaxEvents = 2
INVARIANTS ScanTypeOK ScanIsExact MovedRowsAreSeen CompleteHidesNothing
PROPERTIES PagesAdvance
CHECK_DEADLOCK FALSE
