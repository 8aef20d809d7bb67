\* A build that fails leaves the menu items disabled.
SPECIFICATION Spec
CONSTANTS
    Setups <- MCOpencl
    MaxFiles = 1
    NumTargets = 1
    MaxBuilds = 2
PROPERTY BuildOverEnablesMenu
CHECK_DEADLOCK FALSE
