SPECIFICATION FairSpec
CONSTANTS
    Peers = {p1, p2}
    Modes = {"listen", "dial"}
    Securities = {"none", "token", "tls-token"}
INVARIANTS StoppedIsClean OneMoreRequest
PROPERTIES AcceptsOn ListenStops
CHECK_DEADLOCK FALSE
