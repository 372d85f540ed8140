SPECIFICATION MCSpec
CONSTANTS
  B1 = B1
  B2 = B2
  x = x
  FA = FA
  FB = FB
  FBAK = FBAK
  Bufs <- MCBufs
  Names = {FA, FB, FBAK}
  Bak <- MCBak
  NoName = none
  Chars = {x, nl, eof}
  NL = nl
  EOF = eof
  Texts0 <- MCTexts0
  Typed <- MCTyped
  MaxPos = 3
  Heap = 5
  MaxCmds = 4
  Radix = 2
  TPA = 2
  RecSz = 2
  WinSz = 4
  Unsigned = 16
  Colon = colon
  CtrlZ = ctrlz
  NewLine = newline
  Fill = fill
  HexFiles <- MCHexFiles
  Digits <- MCDigits
INVARIANTS KeptOnDisk ReadsBack ImageSound
PROPERTIES WriteKeepsBoth LostOnlyIfTold
