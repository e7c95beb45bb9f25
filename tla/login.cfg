SPECIFICATION WindowsSpec
CONSTANTS
    Accounts = {7, 8}
    Impatient = FALSE
    MaxGestures = 10
    MaxWindows = 4
INVARIANTS
    TypeOK
    HomeActsAsUser
    WindowMatchesServer
    FormAndPointerMatch
    SentOnce
CHECK_DEADLOCK FALSE
