CONSTANTS
    Input = {144, 240, 247, 248, 1, 16, 17}
    Header <- MCHeader
    object_size <- MCObjectSize
    BufferBytes = {17}
    LowRoom = 3
    HighRoom = 1
    Plans <- MCPlans
SPECIFICATION MidiSpec
INVARIANTS
    HandsOverWholeMessages
    NextUnitFollows
    OutputIsWhole
PROPERTY ExecutesWholeTransfers
