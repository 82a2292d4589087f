SPECIFICATION Spec
CONSTANTS
    w1 = w1
    w2 = w2
    t1 = t1
    t2 = t2
    NoWriter = NoWriter
    Null = Null
    Writers <- TwoWriters
    Tickets <- TwoTickets
    Requests <- Pickup
    MaxClock = 0
    MaxCalls = 4
SYMMETRY Symmetry
PROPERTIES
    ImplementsLifecycle
