SPECIFICATION Spec
CONSTANTS
    CallCap = 2
    OpcodeCap = 2
    Tests <- OneRegister
    Events <- AllButCableEvents
    MaxEvents = 3
CHECK_DEADLOCK FALSE
PROPERTIES
    OpcodesKept
