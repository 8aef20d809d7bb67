\* Up to two names, two kernels.
SPECIFICATION Spec
CONSTANTS
    Known <- MCKnown
    Extra <- MCExtra
    Unknown <- MCUnknown
    Default = 1
    Kernel <- MCKernel
    Missing = 9
    Commands <- MCCommands
    MaxNames = 2
    MaxEmpty = 1
INVARIANTS
    TypeOK
    NoNameLost
    SuccessIsWhole
    FailureIsLocal
    NoStrayTempFile
    ListedFilesAreThere
CHECK_DEADLOCK FALSE
