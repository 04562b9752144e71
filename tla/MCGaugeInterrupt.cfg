SPECIFICATION FairSpec
CONSTANTS
    QueueSize = 2
    Others <- AfterBoot
    Glitches = 3
INVARIANTS
    TypeOK
    NeverDeaf
PROPERTIES
    ComesBack
