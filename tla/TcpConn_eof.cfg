SPECIFICATION Spec
CONSTANTS
  Client = client
  Server = server
  TCP_WND = 4
  MSS = 2
  TCP_SND_BUF = 6
  TCP_SND_QUEUELEN = 4
  U16 = 64
  U8 = 6
  MaxBackoff = 2
  TCP_MAXRTX = 3
  TCP_SYNMAXRTX = 2
  ClientData = 3
  ServerData = 0
  WriteSizes = {3}
  Copies = {TRUE}
  Flushes = {TRUE}
  Answers = {"consume", "refuse"}
  Closers = {client, server}
  CloseAtEof = {TRUE}
  Accepted = {TRUE}
  NetCap = 3
  MaxLoss = 0
  MaxDup = 0
  MaxEarly = 0
  MemFail = FALSE
  Stuck = FALSE
INVARIANTS
  EofAfterData
CHECK_DEADLOCK FALSE
