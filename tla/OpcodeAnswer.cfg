SPECIFICATION Spec
CONSTANTS
    CallCap = 8
    OpcodeCap = 4
    Tests <- OneTest
    Events <- CableEvents
    MaxEvents = 1
CHECK_DEADLOCK FALSE
INVARIANTS
    TestGetsItsAnswer
