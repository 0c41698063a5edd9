SPECIFICATION FairSpec
CONSTANTS
    Capacity = 2
    MaxBatch = 3
    MaxEvents = 5
INVARIANTS
    TypeOK
    EventsConserved
    NothingLostAtShutdown
    StatsMatchWindow
    TraceFaithful
PROPERTIES
    ImplementsBatching
    ShutdownCompletes
    EveryEventProcessed
