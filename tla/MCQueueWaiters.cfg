SPECIFICATION Spec
CONSTANTS
  p1 = p1
  p2 = p2
  p3 = p3
  pin = pin
  mx = mx
  pipe = pipe
  m1 = m1
  m2 = m2
  NoProc = NoProc
  NoQueue = NoQueue
  NoMsg = NoMsg
  Proc <- Proc3
  Queue <- QueuePipe
  Mx <- NoMx
  NMsgs <- NMsgs1
  Msg <- MsgOne
  Prior <- Prior3
  PFlags <- PFlags3
  Calls <- Calls3
  Aborters = {pin}
SYMMETRY Apps3
CHECK_DEADLOCK FALSE
INVARIANTS QueueMutex WaitersSound QueueStays
