CONSTANTS
    Notes = {60, 61}
    PartNotes = {0, 60, 61, 127}
    KeyCapacity = 5
    MonoCapacity = 2
    VoiceCounts = {0, 1, 3}
    PolyModes = {"mono", "poly", "unison_2x", "cyclic"}
    ArpModes = {"step", "arpeggiator"}
    ArpDirections = {"chord"}
    MaxOctaves = 1
    Scales <- MCAllNotes
    NoteSteps <- MCRestOnly
    Restarts = TRUE
SPECIFICATION Spec
INVARIANT VoicesFollowAllocator
