SPECIFICATION Spec
CONSTANTS
  Client = client
  Server = server
  TCP_WND = 4
  MSS = 2
  TCP_SND_BUF = 6
  TCP_SND_QUEUELEN = 3
  U16 = 64
  U8 = 6
  MaxBackoff = 2
  TCP_MAXRTX = 3
  TCP_SYNMAXRTX = 2
  ClientData = 3
  ServerData = 0
  WriteSizes = {3}
  Copies = {TRUE, FALSE}
  Flushes = {TRUE, FALSE}
  Answers = {"consume", "refuse"}
  Closers = {client}
  CloseAtEof = {TRUE}
  Accepted = {TRUE, FALSE}
  NetCap = 2
  MaxLoss = 0
  MaxDup = 0
  MaxEarly = 0
  MemFail = TRUE
  Stuck = TRUE
INVARIANTS
  PrefixDelivered
  SendBufferAccounted
CHECK_DEADLOCK FALSE
