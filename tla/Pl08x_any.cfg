SPECIFICATION Spec
CONSTANTS
    NSlave = 1
    NMemcpy = 1
    NPhy = 1
    MaxCookie = 3
    MaxQueue = 2
    MaxHold = 1
    Env = {"cross_call", "terminate_prepared", "fast_hw", "bus_error"}
INVARIANTS
    TypeOK
    PhyExclusive
    NoStrayDma
    CookiesTrue
PROPERTIES
    ImplementsDmaChannel
CHECK_DEADLOCK FALSE
