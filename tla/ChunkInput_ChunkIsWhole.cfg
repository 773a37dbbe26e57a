CONSTANTS
    Lengths = {0, 1, 2, 3, 4, 5, 6, 7}
    ChunkSizes = {1, 2, 3, 4}
    MaxCopies = 2
SPECIFICATION ChunkSpec
INVARIANT ChunkIsWhole
\* The consumer may stop at the end of the traversal.
CHECK_DEADLOCK FALSE
