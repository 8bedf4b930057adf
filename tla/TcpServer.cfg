SPECIFICATION LiveSpec
CONSTANTS
  MaxConns = 2
  Fds = {7, 8}
  MaxOutput = 1
  UserOps = {"send", "shutdown", "forceClose", "reading"}
  AssertsOn = TRUE
  CallbackName <- MCCallbackName
INVARIANTS ConnectionsSound NoMisuse
PROPERTIES EndedIsReleased
