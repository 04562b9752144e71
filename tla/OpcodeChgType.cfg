SPECIFICATION FairSpec
CONSTANTS
    CallCap = 8
    OpcodeCap = 4
    Tests <- NoTests
    Events <- CombinedEvents
    MaxEvents = 2
CHECK_DEADLOCK FALSE
PROPERTIES
    VbusOffWhenDetached
