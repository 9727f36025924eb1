SPECIFICATION Spec
CONSTANTS
    kAudioBlockSize = 4
    kNumEnvelopes = 2
    audio_buffer_size = 4
    EnvIncrements <- MCEnvIncrements
    EnvExpo <- MCEnvExpo
    OscIncrements <- MCOscIncrements
    LfoIncrements <- MCLfoIncrements
    RandomBytes = {0, 255}
    Sessions <- MCSessions
PROPERTIES
    ReleasedFallsSilent
    GlideHeadsForTarget
    SyncFollowsMaster
    ReadsOwnTables
