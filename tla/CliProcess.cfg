\* Both platforms; safety, refinement of CliCall and liveness.
SPECIFICATION Spec
CONSTANTS
    Platforms = {"linux", "windows"}
    OutputSizes <- MCOutputSizes
    Capacity <- MCCapacity
    MaxCalls = 2
INVARIANTS
    TypeOK
    LinuxNoOrphan
    CompleteOutput
    LinuxSuccess
PROPERTIES
    CallImplemented
    CancelReturns
    SmallOutputReturns
CHECK_DEADLOCK FALSE
