\* Two builds of two targets in every mode; safety and liveness.
SPECIFICATION Spec
CONSTANTS
    Setups <- MCSetups
    MaxFiles = 2
    NumTargets = 2
    MaxBuilds = 2
INVARIANTS
    TypeOK
    OneBuildAtATime
    CancelHonoured
    OwnArtifacts
    SuccessHasOutput
    EmptySourceNotBuilt
    BuildAndCancelExclusive
    EndsOnce
PROPERTIES
    CycleImplemented
    CancelFreesGui
    BuildsEnd
CHECK_DEADLOCK FALSE
