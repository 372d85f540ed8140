SPECIFICATION HexSpec
CONSTANTS
  Radix = 2
  TPA = 2
  RecSz = 2
  WinSz = 4
  Unsigned = 16
  Colon = colon
  CtrlZ = ctrlz
  NewLine = nl
  Fill = fill
  HexFiles <- MCHexFiles
  Digits <- MCDigits
INVARIANTS FromLowest
