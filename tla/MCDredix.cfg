SPECIFICATION MCSpec
CONSTANTS
  B1 = B1
  B2 = B2
  a = a
  b = b
  Texts = {B1, B2}
  BD = BD
  BNONE = BNONE
  Alnum = a
  Space = sp
  Tab = tab
  Loaded <- MCLoaded
  Heap = 7
  MaxUndo = 1
  MaxPos = 4
  Slop = 1
  MaxTab = 9
  TabWidth = 3
  Cost <- MCCost
  MaxKeys = 7
  Bytes <- MCBytes
  Star = star
  Quest = quest
  Escape = esc
  Closure = clo
  LitChar = lit
  Nul = nul
  ReplMark = rm
  SearchTexts <- MCTexts
  Sources <- MCSources
  Repls <- MCRepls
  MaxPat = 3
  MaxLen = 5
  MaxInt = 6
  MaxSearches = 2
INVARIANTS CursorInText MarksFollow KeysReverse MatcherExact TranslatedOnce
PROPERTIES MoveKeepsText SearchFinds TranEnds
