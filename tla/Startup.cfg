SPECIFICATION LiveSpec
CONSTANTS
  Databases <- MCDatabases
  DbName = "IMServer"
  Users = {10001, 10002}
  MaxRuns = 2
INVARIANTS StartSound
PROPERTIES StartEnds
CHECK_DEADLOCK FALSE
