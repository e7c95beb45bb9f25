SPECIFICATION Spec
CONSTANTS
    Offers <- MCOffers
    Secrets <- MCSecrets
    ServerSecrets <- MCServerSecrets
INVARIANTS
    ProductsFit
    SameKey
    SoundParamsWork
CHECK_DEADLOCK FALSE
