SPECIFICATION Spec
CONSTANTS
    Size = 4
    Bytes = {0, 1}
    MaxLen = 4
    Chunks <- MCChunks
    Counts <- MCCounts
INVARIANT
    TypeOK
PROPERTIES
    ImplementsFifo
    WriteIsItsLoop
    ReadIsItsLoop
