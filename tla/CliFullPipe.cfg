\* Linux: a command that prints more than the pipe holds blocks its caller.
SPECIFICATION FairCommandSpec
CONSTANTS
    Platforms = {"linux"}
    OutputSizes <- MCOutputSizes
    Capacity <- MCCapacity
    MaxCalls = 1
PROPERTY EveryCallReturns
CHECK_DEADLOCK FALSE
