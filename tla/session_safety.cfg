SPECIFICATION Spec
CONSTANTS
    MaxRequests = 3
    MaxPushes = 2
    MaxRounds = 2
    ParamKinds = {"sound", "weak"}
    ServerName = "address"
    StoreOrder = "program"
    QueueCapacity = 1
INVARIANTS
    TypeOK
    WireFramesWhole
    KeyAgreement
    RequestsUnderAgreedKey
    AcceptedInOrder
    NoneLostWhileWorking
PROPERTIES
    KeyNeverChanges
    ImplementsChannel
