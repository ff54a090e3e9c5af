SPECIFICATION Spec
CONSTANTS
    MaxPid = 3
    ExitCodes = {0}
    Vals = {1}
    FpVals = {1}
    Results = {0}
PROPERTY
    NamedWaitReapsNamedChild
