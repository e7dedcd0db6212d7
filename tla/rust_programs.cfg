SPECIFICATION AppsFairSpec
CONSTANTS
    Byte = {0, 1, 2}
    Delim = 0
    Frames <- MCFrames
    decoded <- MCdecoded
    Index = {1, 2}
    Data = {a, b}
    Callback = {cbA, cbAny}
    Accepts <- MCAccepts
    a = a
    b = b
    cbA = cbA
    cbAny = cbAny
    N = 8
    Inputs <- MCInputs
    MaxFeeds = 3
    ReadMax = 8
    PeerFrames <- MCFrames
    MaxSend = 3
    NotUtf8 = {2}
INVARIANTS TypeOK DrainedAtReturn DeliversWhatWasSent OneLengthNeverPanics
PROPERTIES RefinesFrameStream WedgedForGood AllDelivered
CHECK_DEADLOCK FALSE
