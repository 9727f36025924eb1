CONSTANTS
    AllocNotes <- MCNotes
    Sizes = {0, 1, 3}
    CyclicModes = {FALSE, TRUE}
    Capacity = 3
    StackNotes = {0, 60, 61, 127}
    MaxKeys = 4
    MaxOctaves = 4
    Tables <- MCTables
    Internal = {"swing"}
    TicksPerStep = 2
    ReleaseTicks = 3
    ByteSize = 4
    EventSize = 256
    MaxPass = 8
    MidiTransport = TRUE
    Lfos = {0, 1, 2}
    Rates <- MCRates
    MaxTick = 5
    kControlRate = 2
    RefreshByteSize = 5
    MaxPassTicks = 4
    Versions = 4
    Contents = {a, b}
    NoFile = NoFile
SPECIFICATION UnitsSpec
INVARIANT HistoryInOrder
PROPERTIES
    ImplementsPool
    ImplementsKeyStack
    StepsOnPressedKey
    PlaysEveryKey
    TicksKeepTime
    IdleClockStops
    LfosKeepTime
    ForwardIsRedo
    EditedContentIsKept
