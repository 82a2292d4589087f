SPECIFICATION FairSpec
CONSTANTS
    Events <- UnionEvents
    MaxEvents = 2
CHECK_DEADLOCK FALSE
INVARIANTS
    TypeOK
    RenderedEventsParse
PROPERTIES
    ImplementsChannel
    TurnEnds
