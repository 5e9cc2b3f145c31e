SPECIFICATION FairSpec
CONSTANTS
  Handles = {h1}
  Steady = {}
  None = None
  MaxSessions = 1
  MsgBuf = 1
  NumMsgs = 2
  MayBreak = TRUE
  MayStall = FALSE
  MayClose = FALSE
CHECK_DEADLOCK FALSE
PROPERTIES HandleReturns
