SPECIFICATION Spec
CONSTANTS
  Iterators = {i, j}
  Kinds = {"cycle", "stride", "chunk", "sliding", "take", "concat", "cartesian", "zip", "join", "join_with", "cache1", "intersperse", "closed_iota", "set", "scan", "adjacent_filter", "split", "split_when", "slice", "generate_n", "sample", "linear_distribute"}
  MaxLen = 5
  MaxPos = 8
  Values = 8
  Known = {}
  First = i
  None = None
INVARIANTS TypeOK ExpectsHold ReadsThePromised DistancesCountSteps EqualityIsPlace ComputedOnce
CHECK_DEADLOCK FALSE
