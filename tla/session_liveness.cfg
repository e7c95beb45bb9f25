SPECIFICATION FairSpec
CONSTANTS
    MaxRequests = 2
    MaxPushes = 1
    MaxRounds = 2
    ParamKinds = {"sound"}
    ServerName = "address"
    StoreOrder = "any"
    QueueCapacity = 1
INVARIANTS
    IInv
PROPERTIES
    HandshakeEnds
    QueueDrains
    LossIsNoticed
    DestroyEnds
