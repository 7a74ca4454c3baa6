\* One thread and a DSP that answers: a command sent before an image is loaded waits
\* for ever (there is no timeout here), so the system may stop.
SPECIFICATION FairSpec
CONSTANTS
    Threads = {1}
    Names = {"a", "b"}
    MaxCalls = 4
    Env = {"load_fails"}
CHECK_DEADLOCK FALSE
INVARIANTS
    ServedBeforeSuccess
PROPERTIES
    Answered
