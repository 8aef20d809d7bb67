\* A canceled question, and a text in the wrong file.
SPECIFICATION Spec
CONSTANTS
    NumFiles = 2
    MaxClock = 3
    GoesOn = FALSE
INVARIANT OwnText
CHECK_DEADLOCK FALSE
