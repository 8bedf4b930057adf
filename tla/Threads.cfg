SPECIFICATION LiveSpec
CONSTANTS
  Producers = {p1, p2}
  Consumers = {c1, c2}
  Capacities = {0, 1, 2}
  Puts = 2
  Workers = {w1, w2}
  Clients = {k1}
  QueueSizes = {0, 1}
  Tasks = {t1, t2, t3}
  Nested = {t1, t2}
  NoTask = noTask
  MaxThreads = 2
  MaxGets = 2
  RollSize = 3
  RollPerSeconds = 2
  FlushInterval = 0
  CheckEveryN = 2
  BufferSize = 3
  DropAbove = 3
  MaxLines = 6
  TooLong = {2, 3}
  MaxTime = 3
  DiskFails = TRUE
  NoBuffer = noBuffer
INVARIANTS QueueSound PoolSound LoopsSound LogSound
PROPERTIES ThreadsLive
CHECK_DEADLOCK FALSE
