SPECIFICATION Spec
CONSTANTS
    Periods = {2, 3}
    Env = {"pause", "prep_fails", "late_tasklet"}
INVARIANTS
    TypeOK
    NoBug
    EngineStopped
    PointerTracksDma
    OneInFlight
    NoUseAfterFree
CHECK_DEADLOCK FALSE
