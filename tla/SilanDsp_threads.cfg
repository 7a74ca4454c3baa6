\* Two threads and everything that can go wrong; a crash stops the system.
SPECIFICATION Spec
CONSTANTS
    Threads = {1, 2}
    Names = {"a", "b"}
    MaxCalls = 3
    Env = {"timeout", "signal", "mutex_busy", "silent", "load_fails"}
CHECK_DEADLOCK FALSE
INVARIANTS
    TypeOK
    FailedNotQueued
    NameIsImage
    OneLoader
