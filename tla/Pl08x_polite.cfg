SPECIFICATION FairSpec
CONSTANTS
    NSlave = 1
    NMemcpy = 2
    NPhy = 2
    MaxCookie = 2
    MaxQueue = 1
    MaxHold = 2
    Env = {}
INVARIANTS
    NoCrash
    HoldsExact
    StartedWithSignal
    HardwareInStep
PROPERTIES
    StartedRetires
