SPECIFICATION FairSpec
CONSTANTS
    EncoderCount = 2
    Word = 4
    FifoDepth = 2
    FirstCounts = {3}
    Speed = 3
    Reach <- WheelReach
INVARIANTS
    TypeOK
    CountExact
PROPERTIES
    DeltaExact
    EveryCountComes
    ImplementsStepCounter
