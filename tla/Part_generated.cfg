CONSTANTS
    Notes = {60, 72}
    PartNotes = {0, 60, 72, 84, 127}
    KeyCapacity = 2
    MonoCapacity = 2
    VoiceCounts = {2}
    PolyModes = {"poly", "mono"}
    ArpModes = {"arpeggiator", "note"}
    ArpDirections = {"up_down", "as_played"}
    MaxOctaves = 2
    Scales <- MCAllNotes
    NoteSteps <- MCSequence
    Restarts = FALSE
SPECIFICATION Spec
INVARIANTS
    GeneratedNoteIsRemembered
    QuietWithoutKeys
