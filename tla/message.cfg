SPECIFICATION Spec
CONSTANTS
    Base = 3
    InitialSize = 4
    Block = 16
    StringCap = 2
    Fields <- MCFields
    Junk = {0, 1}
    MaxFields = 2
    MaxFailures = 1
INVARIANTS
    TypeOK
    CopyFits
    ReadsBack
    HandedOnWhole
CHECK_DEADLOCK FALSE
