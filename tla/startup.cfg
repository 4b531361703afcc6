\* Runs of the process over one log directory.
CONSTANTS
    a1 = a1
    a2 = a2
    Addresses = {a1, a2}
    BadAddress = BadAddress
    Unset = Unset
    Files <- MCFiles
    Environments <- MCEnvironments
    FlagSets <- MCFlagSets
    NumCPU = 2
    MaxSize = 1
    MaxAge = 1
    NoFile = NoFile
    MaxLines = 4
    MaxTime = 3
    MaxRuns = 3
SPECIFICATION Spec
INVARIANTS TypeOK LogKept 
\* The runs are over.
CHECK_DEADLOCK FALSE
