CONSTANTS
    Cells = {v1, v2}
    NAlt = 3
    CopiesThrow = TRUE
    CopyValueless = TRUE
SPECIFICATION Spec
INVARIANTS TypeOK IndexTellsLifetime
PROPERTY ValuelessByFailureOnly
\* A failed assertion ends the program.
CHECK_DEADLOCK FALSE
