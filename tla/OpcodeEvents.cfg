SPECIFICATION FairSpec
CONSTANTS
    CallCap = 8
    OpcodeCap = 4
    Tests <- RegisterAndTest
    Events <- CableAndPdEvents
    MaxEvents = 2
CHECK_DEADLOCK FALSE
INVARIANTS
    TypeOK
    NeverFull
PROPERTIES
    OpcodesKept
    OpcodeQueueDrains
    TestsFinish
    VbusOffWhenDetached
