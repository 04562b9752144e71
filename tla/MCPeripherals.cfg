SPECIFICATION FairSpec
CONSTANTS
    CallCap = 3
    Events <- Anything
    MaxEvents = 3
CHECK_DEADLOCK FALSE
INVARIANTS
    TypeOK
    ChargerTestPasses
PROPERTIES
    FaultsKept
    ChargerServed
    AttachedFollowsPin
