SPECIFICATION FairSpec
CONSTANTS
    Peers = {1}
    Groups = {2}
    MaxMessages = 2
    MaxGestures = 3
    MaxLogins = 2
INVARIANTS
    TypeOK
    OneConversation
    IncomingExactlyOnce
    MapMatchesBox
    ContactsComplete
    PreviewLatest
PROPERTIES
    SelectionLoads
CHECK_DEADLOCK FALSE
