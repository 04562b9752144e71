SPECIFICATION FairSpec
CONSTANTS
    c0 = c0
    c1 = c1
    empty = empty
    short = short
    long = long
    Cores <- MCCores
    Core0 = c0
    NoCore = NoCore
    Messages <- MCMessages
    NoMessage = NoMessage
    Formatted <- MCFormatted
    LineCount = 3
    CharLimit = 4
    Word = 8
INVARIANTS
    TypeOK
    MutualExclusion
    RingShape
    ByteCountExact
    LengthAnnounced
    ChecksumCoversLines
PROPERTIES
    ImplementsAbstractLog
    MutexReleased
