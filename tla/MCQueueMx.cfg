SPECIFICATION FairSpec
CONSTANTS
  p1 = p1
  p2 = p2
  p3 = p3
  pin = pin
  mx = mx
  pipe = pipe
  m1 = m1
  m2 = m2
  NoProc = NoProc
  NoQueue = NoQueue
  NoMsg = NoMsg
  Proc <- Proc3
  Queue <- QueueMx
  Mx <- QueueMx
  NMsgs <- NMsgsMx
  Msg <- MsgNone
  Prior <- Prior3
  PFlags <- PFlagsMx
  Calls <- CallsMx
  Aborters = {pin}
CHECK_DEADLOCK FALSE
INVARIANTS OwnersSound
PROPERTIES SyncServed AbortServed
