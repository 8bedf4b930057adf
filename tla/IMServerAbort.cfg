SPECIFICATION IMSpec
CONSTANTS
  MaxConns = 2
  Fds = {7, 8}
  MaxOutput = 1
  UserOps = {"send"}
  AssertsOn = TRUE
  CallbackName <- MCCallbackName
INVARIANT RemoveFindsConnection
