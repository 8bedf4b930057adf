SPECIFICATION IMSpec
CONSTANTS
  MaxConns = 2
  Fds = {7, 8}
  MaxOutput = 2
  UserOps = {"send", "shutdown", "forceClose"}
  AssertsOn = FALSE
  CallbackName <- MCCallbackName
INVARIANTS SessionsSound
