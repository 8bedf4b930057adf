SPECIFICATION CodecsSpec
CONSTANTS
  HttpRequests <- MCHttpRequests
  MaxHttp = 2
  Commands <- MCCommands
  Payloads <- MCPayloads
  Faults = {"short", "long", "sum", "tag"}
  MaxMessageLen = 5
  MaxFrames = 2
  RpcCallers = {k1, k2, k3}
  RpcErrors = {noMethod}
  BodySizes = {0, 1, 3, 6}
  MaxPackets = 3
  DataSizes = {0, 1, 127, 128, 300, 16384}
  UndefinedBytes = {0, 1, 127}
  MaxOut = 8
  SizeMax = 1000
INVARIANTS HttpSound FramesSound RpcSound PacketsSound AnswerSound
PROPERTIES CodecsLive
CHECK_DEADLOCK FALSE
