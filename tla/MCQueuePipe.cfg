SPECIFICATION Spec
CONSTANTS
  p1 = p1
  p2 = p2
  p3 = p3
  pin = pin
  mx = mx
  pipe = pipe
  m1 = m1
  m2 = m2
  NoProc = NoProc
  NoQueue = NoQueue
  NoMsg = NoMsg
  Proc <- Proc2
  Queue <- QueuePipe
  Mx <- NoMx
  NMsgs <- NMsgs2
  Msg <- MsgTwo
  Prior <- Prior2
  PFlags <- PFlags2
  Calls <- Calls2
  Aborters = {pin}
SYMMETRY Payloads
CHECK_DEADLOCK FALSE
INVARIANTS TypeOK NoAbortRegion
PROPERTIES Implements
