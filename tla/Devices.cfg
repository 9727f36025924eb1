CONSTANTS
    SPM_PAGESIZE = 16
    FileSize = 33
    kConfirmations = 5
    kSyncCommands = 4
    CounterSize = 6
    MaxPages = 3
    MaxStrayPages = 1
    MaxPowerLosses = 2
    PageBytes = 2
    NewImage <- MCImage
    Damage = {1, 240, 247, 248}
    MaxFaults = 2
    Channels = 2
    Steps = 2
    ListSize = 2
    Sticks = {1}
    Shifts = {0, 1}
    MaxPicks = 3
SPECIFICATION DevicesSpec
INVARIANT
    SoundsAreHeld
PROPERTIES
    UpdateEndsWhole
    LoaderComesBack
    BlocksArriveWhole
