SPECIFICATION FairSpec
CONSTANTS
    Connections = {c1}
    NoConnection = NoConnection
    Axes = {x1, x2}
    NoAxis = NoAxis
    MaxSubs = 2
INVARIANTS NoOrphan OneLateEvent AxisKnown
PROPERTIES AxisConverges EndsWithConnection
