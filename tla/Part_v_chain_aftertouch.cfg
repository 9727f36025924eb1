CONSTANTS
    Notes = {60, 61, 62}
    PartNotes = {0, 60, 61, 62, 127}
    KeyCapacity = 2
    MonoCapacity = 2
    VoiceCounts = {1}
    PolyModes = {"chain"}
    ArpModes = {"step"}
    ArpDirections = {"up"}
    MaxOctaves = 1
    Scales <- MCAllNotes
    NoteSteps <- MCRestOnly
    Restarts = FALSE
SPECIFICATION Spec
INVARIANT AftertouchStaysInPart
