SPECIFICATION AppFairSpec
CONSTANTS
    Byte = {0, 1, 2}
    Delim = 0
    Frames <- MCFrames
    decoded <- MCdecoded
    NotCobs <- MCNotCobs
    Index = {1, 2}
    Data = {a, x}
    Unpackable = {a}
    Callback = {cb1, cb2}
    Accepts <- MCAccepts
    a = a
    x = x
    cb1 = cb1
    cb2 = cb2
    Inputs <- MCInputs
    MaxFeeds = 2
    PeerFrames <- MCFrames
    Opening <- MidPacket
    MaxSend = 3
INVARIANTS SubscriberInv NoReadAfterClose
PROPERTIES RefinesUntilRaised Stops DeliversUntilStopped
CHECK_DEADLOCK FALSE
