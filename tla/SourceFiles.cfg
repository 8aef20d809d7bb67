\* Two files; the run ends soon after a canceled question.
SPECIFICATION Spec
CONSTANTS
    NumFiles = 2
    MaxClock = 4
    GoesOn = FALSE
INVARIANTS
    TypeOK
    OwnTextUnlessRefused
    CleanIsSaved
    CorrelatedIsBuilt
    QuestionOfCurrent
    AskedOnce
    EditorsMatchMenu
    SelectedIsShown
PROPERTIES
    UnsavedIsKept
CHECK_DEADLOCK FALSE
