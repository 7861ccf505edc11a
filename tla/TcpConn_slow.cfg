SPECIFICATION FairSpec
CONSTANTS
  Client = client
  Server = server
  TCP_WND = 4
  MSS = 2
  TCP_SND_BUF = 6
  TCP_SND_QUEUELEN = 4
  U16 = 64
  U8 = 6
  MaxBackoff = 2
  TCP_MAXRTX = 1
  TCP_SYNMAXRTX = 0
  ClientData = 6
  ServerData = 0
  WriteSizes = {6}
  Copies = {TRUE}
  Flushes = {TRUE}
  Answers = {"take"}
  Closers = {}
  CloseAtEof = {TRUE}
  Accepted = {TRUE}
  NetCap = 6
  MaxLoss = 2
  MaxDup = 0
  MaxEarly = 0
  MemFail = FALSE
  Stuck = FALSE
INVARIANTS
  TypeOK
  AckOnItsWay
  WindowRespected
PROPERTIES
  WrittenIsTaken
CHECK_DEADLOCK FALSE
