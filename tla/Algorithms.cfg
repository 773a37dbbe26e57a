SPECIFICATION Spec
CONSTANTS
    Short = 5
    Keys = 5
    Long = 10
    PatternLength = 3
    limit = 3
    insertion_limit = 3
    ChunkSizes = {1, 2}
    BufferFrom = 1
    Known = {}
INVARIANTS NothingIsLost SortsAreSorted PlacesAreRight AnswersAreRight
CHECK_DEADLOCK FALSE
