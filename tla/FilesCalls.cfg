SPECIFICATION Spec
CONSTANTS
    None = None
    MaxFd = 4
    FakeBase = 100
    MaxFake = 101
    Width = 8
    MaxSize = 2
    PipeSize = 2
    MaxPipes = 1
    NscdSize = 1
    Order <- TreeOrder
    Boot <- TreeBoot
    Chunks <- FileChunks
    Counts = {1, 2}
    Seeks <- NoSeeks
    Targets = {}
    Typed <- Empty
INVARIANTS
    
    WritevIsWrite
    
