SPECIFICATION LiveSpec
CONSTANTS
  Threads = {t1, t2}
  Functors = {f1, f2}
  Channels = {c1, c2}
  WakeupChannel = wakeup
  None = none
  EventfdMax = 2
  MaxPending = 3
INVARIANTS NoLostWakeup NoLostQuit
PROPERTIES ImplementsExecutor LoopServes
