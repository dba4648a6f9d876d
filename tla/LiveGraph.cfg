SPECIFICATION FairSpec
CONSTANTS
    Traces = {t1, t2}
    NoTrace = NoTrace
    Axes = {x1, x2}
    NoAxis = NoAxis
    MaxActs = 3
    MaxQueue = 2
INVARIANTS PushesShown ShownEnabled
PROPERTY GraphSettles
CHECK_DEADLOCK FALSE
