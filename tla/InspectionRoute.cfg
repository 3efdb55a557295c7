CONSTANTS
  RunIds = {run1, run2}
  None = None
  N = 2
  Depth = 2
  MaxTime = 4
SPECIFICATION RouteSpec
INVARIANTS
  RouteTypeOK
  ImageShowsPoint
  RowsFollowRoute
  FinishedIsBacked
PROPERTIES
  DeadRunsStay
CHECK_DEADLOCK FALSE
