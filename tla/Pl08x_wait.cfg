SPECIFICATION Spec
CONSTANTS
    NSlave = 1
    NMemcpy = 1
    NPhy = 1
    MaxCookie = 2
    MaxQueue = 1
    MaxHold = 1
    Env = {}
INVARIANT
    WaitsOnlyWhenFull
