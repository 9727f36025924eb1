CONSTANTS
    Input = {}
    Header <- MCHeader
    object_size <- MCObjectSize
    BufferBytes = {}
    kNumParts = 2
    SequenceStart = 2
    HeaderReads <- MCHeaderReads
    ProgramMemory <- MCProgramMemory
    Memories <- MCMemories
SPECIFICATION TransferSpec
INVARIANT ObjectsArrive
