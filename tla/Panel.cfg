SPECIFICATION Spec
CONSTANTS
    Lengths <- MCLengths
    LastBank = 0
    LastSlot = 1
    Sessions <- MCSessions
INVARIANTS
    EventsMeetTheirPage
    EditsExistingInstances
    SettingsAreSaved
    BrowserShowsWhatIsLoaded
CHECK_DEADLOCK FALSE
