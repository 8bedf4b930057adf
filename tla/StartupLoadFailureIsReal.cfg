SPECIFICATION Spec
CONSTANTS
  Databases <- MCDatabases
  DbName = "IMServer"
  Users = {10001, 10002}
  MaxRuns = 1
INVARIANT LoadFailureIsReal
CHECK_DEADLOCK FALSE
