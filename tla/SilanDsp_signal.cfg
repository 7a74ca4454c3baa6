SPECIFICATION Spec
CONSTANTS
    Threads = {1}
    Names = {"a", "b"}
    MaxCalls = 3
    Env = {"signal"}
INVARIANTS
    ServedBeforeSuccess
