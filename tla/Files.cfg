SPECIFICATION Spec
CONSTANTS
    None = None
    MaxFd = 3
    FakeBase = 100
    MaxFake = 100
    Width = 6
    MaxSize = 3
    PipeSize = 2
    MaxPipes = 0
    NscdSize = 2
    Order <- FileOrder
    Boot <- FileBoot
    Chunks <- FileChunks
    Counts = {1, 2}
    Seeks <- FileSeeks
    Targets = {0}
    Typed <- Empty
INVARIANTS
    TypeOK
    CursorFaithful
    WritevIsWrite

    
