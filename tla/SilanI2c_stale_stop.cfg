SPECIFICATION Spec
CONSTANTS
    Depth = 3
    MaxLag = 1
    Calls <- GoodCalls
    Env = {"nack"}
INVARIANT
    CallExecuted
