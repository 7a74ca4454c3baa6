SPECIFICATION FairSpec
CONSTANTS
    Periods = {2, 3}
    Env = {}
PROPERTIES
    PlaysOn
CHECK_DEADLOCK FALSE
