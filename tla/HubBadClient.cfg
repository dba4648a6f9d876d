SPECIFICATION Spec
CONSTANTS
    Connections = {c1, c2}
    Devices = {d1}
    NoConnection = NoConnection
    NoDevice = NoDevice
    Ops = {"query"}
INVARIANT HubStaysUp
CHECK_DEADLOCK FALSE
