SPECIFICATION Spec
CONSTANTS
    w1 = w1
    w2 = w2
    t1 = t1
    t2 = t2
    NoWriter = NoWriter
    Null = Null
    Writers <- TwoWriters
    Tickets <- OneTicket
    Requests <- LongLife
    MaxClock = 1
    MaxCalls = 8
SYMMETRY Symmetry
INVARIANTS
    TypeOK
    AuditReplays
    NeverBothWin
    EscalatedStaysWithHumans
    StampsMatchAudit
PROPERTIES
    ImplementsLifecycle
