SPECIFICATION Spec
CONSTANTS
    MaxRequests = 1
    MaxPushes = 0
    MaxRounds = 1
    ParamKinds = {"sound"}
    ServerName = "hostname"
    StoreOrder = "program"
    QueueCapacity = 1
INVARIANTS
    ConnectsToListeningServer
