SPECIFICATION Spec
CONSTANTS
  TCP_WND = 6
  MSS = 2
  TCP_SND_BUF = 6
  TCP_SND_QUEUELEN = 4
  U16 = 64
  U8 = 6
  MaxBackoff = 2
  StreamLen = 8
  MaxSeg = 5
  Answers = {"consume", "take"}
  MemFail = TRUE
INVARIANTS
  StreamExact
  OoseqSound
  WindowExact
