SPECIFICATION FairSpec
CONSTANTS
    Frames <- MCFrames
    SlowFrames <- MCSlowFrames
    Window = 2
    Buffer = 2
    MaxPayload = 3
    LogText <- MCLogText
    Version <- MCVersion
    Crc <- MCCrc
INVARIANTS
    TypeOK
    OneReplyEach
PROPERTIES
    OnlyIntactFramesAct
    BackToMarker
