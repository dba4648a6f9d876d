SPECIFICATION FairSpec
CONSTANTS
    Callers = {t1}
    Args = {a1}
    MaxCalls = 2
PROPERTY CallsReturn
CHECK_DEADLOCK FALSE
