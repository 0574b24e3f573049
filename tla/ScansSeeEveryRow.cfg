SPECIFICATION Spec
CONSTANTS
  NKeys = 3
  Shards = {1, 2}
  PageSize = 1
  Limits = {2}
  FillPage = 2
  Legacy = {{}}
  Candidates <- MCCandidates
  Capacity = 1
  MaxEvents = 1
INVARIANT ScansSeeEveryRow
CHECK_DEADLOCK FALSE
