SPECIFICATION Spec
CONSTANTS
    kNumParts = 2
    OutRoom = 4
    kDataEntryResendRate = 2
    Draws <- MCDraws
    Voices <- MCVoices
    Default <- MCDefaultMap
    Mappings <- MCMappings
    Channels <- MCChannels
    Versions <- MCVersions
    Sessions <- MCSessions
INVARIANTS
    VoicesOwnedOnce
    StuckOnlyAfterRemap
    EditsArrive
    BytesStayInRange
PROPERTIES
    BootsWithWholeBlocks
CHECK_DEADLOCK FALSE
