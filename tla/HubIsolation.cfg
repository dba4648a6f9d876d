SPECIFICATION Spec
CONSTANTS
    Connections = {c1, c2, c3}
    Devices = {d1, d2}
    NoConnection = NoConnection
    NoDevice = NoDevice
    Ops = {"query", "select", "command", "capture"}
SYMMETRY Symmetry
INVARIANTS CommandsByOwner CaptureMatches
PROPERTIES SelectionByOwner ServesOneUser
CHECK_DEADLOCK FALSE
