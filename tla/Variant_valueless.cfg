CONSTANTS
    Cells = {v1, v2}
    NAlt = 3
    CopiesThrow = FALSE
    CopyValueless = TRUE
SPECIFICATION Spec
INVARIANT NoAssertionFails
\* A failed assertion ends the program.
CHECK_DEADLOCK FALSE
