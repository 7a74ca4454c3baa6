SPECIFICATION FairSpec
CONSTANTS
    Depth = 3
    MaxLag = 1
    Calls <- TestCalls
    Env = {"nack", "timeout", "signal"}
INVARIANTS
    TypeOK
    QuietCallExecuted
    RightSlave
    MessagesLive
    LeavesQuiet
PROPERTIES
    Returns
