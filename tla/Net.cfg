SPECIFICATION Spec
CONSTANTS
    NumSlots = 3
    FakeBase = 100
    MaxFake = 104
    MaxClients = 2
    BufSize = 1
    MaxEvents = 3
    Resets = TRUE
INVARIANTS
    TypeOK
    HandlesExclusive
