SPECIFICATION FairSpec
CONSTANTS
    MaxRetries = 2
    Blocks <- SomeBlocks
INVARIANTS
    TypeOK
    ConfiguredWhenSaid
    GoodBootConfigures
    OwnTransfers
PROPERTIES
    OtherBitsKept
    Core0GoesOn
