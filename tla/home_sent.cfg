SPECIFICATION Spec
CONSTANTS
    Peers = {1}
    Groups = {2}
    MaxMessages = 2
    MaxGestures = 3
    MaxLogins = 1
PROPERTIES
    LoadClearsOnlyOld
CHECK_DEADLOCK FALSE
