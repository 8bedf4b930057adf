SPECIFICATION NetSpec
CONSTANTS
  Addrs = {1, 2}
  MaxTimers = 2
  MaxCalls = 1
  MaxNow = 3
  Fds = {1, 2, 3}
  InitDelay = 1
  MaxDelay = 3
  Channels = {1, 2, 3}
  ChannelFds = {0, 1}
  InitEvents = 1
  ConnThreads = {a, b}
  ConnCalls = 2
  MessageUnits = 2
  HighWaterMark = 2
INVARIANTS TimersSound ClientSound PollerSound ConnectionSound OutputSound
PROPERTIES TimersExact StopHolds NetLive
CHECK_DEADLOCK FALSE
