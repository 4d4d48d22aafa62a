SPECIFICATION FairSpec
CONSTANTS
  Cols = 3
  Rows = 2
  Texts <- MCTexts
  KeyTexts <- MCKeyTexts
INVARIANTS TypeOK CursorRests KernelStoresOnScreen
PROPERTIES PrintReturns
