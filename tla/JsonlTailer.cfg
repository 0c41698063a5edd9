SPECIFICATION FairSpec
CONSTANTS
    Shapes <- AllShapes
    MaxRows = 3
    MaxClears = 1
    MaxTorn = 1
    MaxRestarts = 1
INVARIANTS
    InOrderAtMostOnce
    NothingSkipped
PROPERTY
    EveryRowDelivered
