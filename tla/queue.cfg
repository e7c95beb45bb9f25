SPECIFICATION FairSpec
CONSTANTS
    Producers = {"main", "collector"}
    InitialCapacity = 1
    MaxCapacity = 2
    MaxAdds = 4
INVARIANTS
    TypeOK
    TakesOnlyAdded
PROPERTIES
    ImplementsFifo
    AddReturns
    QueueEmpties
