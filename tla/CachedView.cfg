SPECIFICATION Spec
CONSTANTS
  Views = {v1, v2}
  Kinds = {"remove_if", "adjacent_remove_if", "drop", "drop_exactly", "drop_while", "trim", "drop_last", "drop_last_forward", "reverse", "chunk_by"}
  MaxLen = 3
  MaxDrop = 4
  NoIterator = NoIterator
INVARIANTS TypeOK CacheIsOwn ReverseAssertsHold ChunksAreRuns CallsLandRight
PROPERTIES WalksItsElements
