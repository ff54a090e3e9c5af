SPECIFICATION Spec
CONSTANTS
    MaxPid = 3
    ExitCodes <- MCExitCodes
    Vals = {0, 1}
    FpVals = {1}
    Results = {0}
INVARIANTS
    TypeOK
    CurrentIsRunnable
    RunsInOwnSpace
    NoLostWakeup
    PowerOffIsFinal
    ContextPreserved
PROPERTIES
    ImplementsLifecycle
