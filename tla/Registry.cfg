SPECIFICATION FairSpec
CONSTANTS
    Ports = {p1, p2, p3}
    NoPort = NoPort
INVARIANTS TypeOK HandlesOwned ClosedForGood
PROPERTIES ImplementsTable VanishedDropped PluggedRegistered StopEnds
