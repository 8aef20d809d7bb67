\* A canceled call returns while its command runs on.
SPECIFICATION Spec
CONSTANTS
    Platforms = {"linux", "windows"}
    OutputSizes <- MCOutputSizes
    Capacity <- MCCapacity
    MaxCalls = 1
INVARIANT NoOrphan
CHECK_DEADLOCK FALSE
