SPECIFICATION FairSpec
CONSTANTS
    Peers = {p1}
    Modes = {"dial"}
    Securities = {"none"}
PROPERTY StopReturns
CHECK_DEADLOCK FALSE
