SPECIFICATION FairSpec
CONSTANTS
  Keys = {1, 2, 3}
  MaxLen = 7
  Threshold = 2
INVARIANTS TypeOK ReadsInBounds NothingIsLost SortedAtEnd InsertsAreShort
PROPERTIES CutsAreInside SortReturns
CHECK_DEADLOCK FALSE
