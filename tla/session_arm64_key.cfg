SPECIFICATION Spec
CONSTANTS
    MaxRequests = 2
    MaxPushes = 1
    MaxRounds = 1
    ParamKinds = {"sound"}
    ServerName = "address"
    StoreOrder = "any"
    QueueCapacity = 1
INVARIANTS
    RequestsUnderAgreedKey
