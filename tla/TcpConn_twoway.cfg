SPECIFICATION FairSpec
CONSTANTS
  Client = client
  Server = server
  TCP_WND = 4
  MSS = 2
  TCP_SND_BUF = 6
  TCP_SND_QUEUELEN = 4
  U16 = 64
  U8 = 6
  MaxBackoff = 2
  TCP_MAXRTX = 3
  TCP_SYNMAXRTX = 2
  ClientData = 4
  ServerData = 2
  WriteSizes = {2, 4}
  Copies = {TRUE}
  Flushes = {TRUE}
  Answers = {"consume"}
  Closers = {client, server}
  CloseAtEof = {TRUE}
  Accepted = {TRUE}
  NetCap = 7
  MaxLoss = 0
  MaxDup = 0
  MaxEarly = 0
  MemFail = FALSE
  Stuck = FALSE
INVARIANTS
  SentCallbacksTrue
  FailsOnlyAfterLoss
PROPERTIES
  ImplementsByteStream
  ConnectionEnds
CHECK_DEADLOCK FALSE
