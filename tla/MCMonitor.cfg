SPECIFICATION FairSpec
CONSTANTS
  Handles = {h1, h2, h3}
  Steady = {h2, h3}
  None = None
  MaxSessions = 2
  MsgBuf = 1
  NumMsgs <- MCNumMsgs
  MayBreak = TRUE
  MayStall = TRUE
  MayClose = TRUE
CHECK_DEADLOCK FALSE
INVARIANTS SessionsLive InOrder PanicOnlyAfterClose
PROPERTIES Delivered TaskGoesOn ConnectedHandleReturns
