SPECIFICATION FairSpec
CONSTANTS
    Connections = {c1, c2}
    Devices = {d1}
    NoConnection = NoConnection
    NoDevice = NoDevice
    Ops = {"select", "disconnect", "force_takeover", "command"}
INVARIANT SessionHasServer
PROPERTY SessionFreed
CHECK_DEADLOCK FALSE
