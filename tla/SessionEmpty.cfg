\* A binary project without files can be built.
SPECIFICATION Spec
CONSTANTS
    Setups <- MCBinary
    MaxFiles = 1
    NumTargets = 1
    MaxBuilds = 2
INVARIANT EmptyProjectNotBuilt
CHECK_DEADLOCK FALSE
