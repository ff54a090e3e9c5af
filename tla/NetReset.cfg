SPECIFICATION ServerSpec
CONSTANTS
    NumSlots = 3
    FakeBase = 100
    MaxFake = 103
    MaxClients = 2
    BufSize = 1
    MaxEvents = 3
    Resets = TRUE
PROPERTY
    ListensAgain
