SPECIFICATION FairSpec
CONSTANTS
  Keys = {1, 2, 3}
  MaxLen = 5
INVARIANTS TypeOK NothingIsLost HeapIsHeap SortedAtReturn
PROPERTIES IsQueue CallsReturn
