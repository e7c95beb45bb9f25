SPECIFICATION Spec
CONSTANTS
    Accounts = {7}
    Impatient = TRUE
    MaxGestures = 4
PROPERTIES
    LoginOnlyOffline
CHECK_DEADLOCK FALSE
