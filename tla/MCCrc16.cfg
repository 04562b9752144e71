SPECIFICATION Spec
CONSTANTS
    Bytes <- MCBytes
    Noise <- MCNoise
    Length = 3
CHECK_DEADLOCK FALSE
INVARIANTS
    CrcIsRemainder
    BurstsDetected
