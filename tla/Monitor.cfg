CONSTANTS
    NGuests = 2
    Required = {1}
    GuestRestartLimit = 2
    Window = 2
    Delay = 1
    TickMod = 4
SPECIFICATION MonitorFairSpec
INVARIANTS
    GuestsOK
    TurnsKept
PROPERTIES
    LaunchGated
    
CHECK_DEADLOCK FALSE
