CONSTANTS
    kNumVoices = 2
    Capacity = 2
    Messages <- MCOneMessage
    BlockData <- MCBlock
    MaxPending = 2
    MaxLag = 2
    MaxAge = 1
    BlockDelay = 7
    PauseDelay = 3
    SettleDelay = 3
    PartialFrames = {3}
SPECIFICATION LinkSpec
INVARIANTS PausesSuffice SdCardHasTheBus
PROPERTY ImplementsChannel
