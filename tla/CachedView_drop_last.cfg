SPECIFICATION Spec
CONSTANTS
  Views = {v1, v2}
  Kinds = {"drop_last_unsized"}
  MaxLen = 3
  MaxDrop = 4
  NoIterator = NoIterator
INVARIANTS LastAreDropped
