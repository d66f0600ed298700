CONSTANTS
    Junk = Junk  NoCpuSet = NoCpuSet  NoLimit = NoLimit  NoLine = NoLine
    NCPUS = 2
    CAP_LAST_CAP = 33
    MaxLines = 2
    Inputs <- MCInputs
SPECIFICATION Spec
CHECK_DEADLOCK FALSE
INVARIANT TypeOK
INVARIANT ValuesInDomain
INVARIANT ExecCommandsWellFormed
PROPERTY DirectiveTouchesOwnFields
