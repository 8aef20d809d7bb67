\* A file dropped during a build enables the next build.
SPECIFICATION Spec
CONSTANTS
    Setups <- MCOpenclEdits
    MaxFiles = 1
    NumTargets = 1
    MaxBuilds = 2
INVARIANT NoOverlappingBuilds
CHECK_DEADLOCK FALSE
