SPECIFICATION FairSpec
CONSTANTS
  idle = idle
  a = a
  b = b
  c = c
  plr = plr
  dq = dq
  fdc = fdc
  NoProc = NoProc
  NoFlag = NoFlag
  FlagOff = FlagOff
  FlagOn = FlagOn
  PollList = plr
  Proc <- Procs
  SList <- Lists
  Flag <- Flags
  Prior <- Priors
  Idle = idle
  MaxWait = 2
  MaxPending = 2
  Calls <- CallsOf
CHECK_DEADLOCK FALSE
INVARIANTS PlacesSound
PROPERTIES DelaysExact DelayEnds MadeReady
