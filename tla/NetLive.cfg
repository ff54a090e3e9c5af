SPECIFICATION ServerSpec
CONSTANTS
    NumSlots = 4
    FakeBase = 100
    MaxFake = 104
    MaxClients = 3
    BufSize = 1
    MaxEvents = 4
    Resets = FALSE
INVARIANTS
    SlotsOwned
    EventsAreOpen
PROPERTY
    ListensAgain
