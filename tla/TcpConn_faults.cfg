SPECIFICATION Spec
CONSTANTS
  Client = client
  Server = server
  TCP_WND = 6
  MSS = 2
  TCP_SND_BUF = 6
  TCP_SND_QUEUELEN = 4
  U16 = 64
  U8 = 6
  MaxBackoff = 2
  TCP_MAXRTX = 3
  TCP_SYNMAXRTX = 2
  ClientData = 4
  ServerData = 0
  WriteSizes = {4}
  Copies = {TRUE}
  Flushes = {TRUE}
  Answers = {"consume"}
  Closers = {client}
  CloseAtEof = {TRUE}
  Accepted = {TRUE}
  NetCap = 3
  MaxLoss = 1
  MaxDup = 1
  MaxEarly = 1
  MemFail = FALSE
  Stuck = FALSE
INVARIANTS
  QueuesSound
  TimerRuns
PROPERTIES
  ImplementsByteStream
CHECK_DEADLOCK FALSE
