\* A canceled build leaves outputs behind.
SPECIFICATION Spec
CONSTANTS
    Setups <- MCOpencl
    MaxFiles = 1
    NumTargets = 1
    MaxBuilds = 2
INVARIANT CanceledLeavesNothing
CHECK_DEADLOCK FALSE
