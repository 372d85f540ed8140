SPECIFICATION MCSpec
CONSTANTS
  MemWord = 64
  MinMem = 3
  Inputs <- MCInputs
  Places <- MCPlaces
  XtraPds = 1
  MaxEntries = 2
  NDrives = 3
  BlkSize <- MCBlkSize
  CsvSize <- MCCsvSize
  AlvSize <- MCAlvSize
  HashSize <- MCHashSize
  AskCsv = {0, 1}
  AskAlv = {0, 1, 2}
  AskDir = {0, 1, 2}
  AskDat = {0, 1}
  AskHash = {0, 2}
  DirCounts <- MCDirCounts
  DatCounts <- MCDatCounts
  Start = 100
  RsvdSeg = 50
  Word = 65536
  MpmSeg = 100
  ModLen <- MCModLen
  SysdatLen = 33
  XiosLen = 12
  XiosAlloc = 6
  Params <- MCParams
  Rsp <- MCRsp
  MaxRsps = 3
  Rooms <- MCRooms
INVARIANTS MemoryListsSound BuffersSound RspsFound ImageSound
PROPERTIES SystemSurvives
