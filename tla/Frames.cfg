SPECIFICATION FairSpec
CONSTANTS
    Senders = {serve, push}
    Unlocked = Unlocked
    HeaderSize = 2
    MaxFrameSize = 2
    WireSize = 3
    MaxMessages = 3
INVARIANT FramesWhole
PROPERTIES ImplementsQueue Arrives
CHECK_DEADLOCK FALSE
