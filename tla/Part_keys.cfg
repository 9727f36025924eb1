CONSTANTS
    Notes = {60, 61, 62, 63}
    PartNotes = {0, 60, 61, 62, 63, 127}
    KeyCapacity = 3
    MonoCapacity = 2
    VoiceCounts = {2}
    PolyModes = {"mono", "poly"}
    ArpModes = {"step"}
    ArpDirections = {"up"}
    MaxOctaves = 1
    Scales <- MCAllNotes
    NoteSteps <- MCRestOnly
    Restarts = TRUE
SPECIFICATION Spec
INVARIANTS
    SoundingNotesAreOwned
    AftertouchReachesVoice
PROPERTY PedalUpKillsSustained
