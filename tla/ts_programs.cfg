SPECIFICATION AppFairSpec
CONSTANTS
    Byte = {0, 1, 2}
    Delim = 0
    Frames <- MCFrames
    decoded <- MCdecoded
    Index = {1, 2}
    Data = {a, x}
    Callback = {cbAny, cbThrows}
    Accepts <- MCAccepts
    Throws <- MCThrows
    a = a
    x = x
    cbAny = cbAny
    cbThrows = cbThrows
    Inputs <- MCInputs
    MaxFeeds = 3
    PeerFrames <- MCPeerFrames
    MaxSend = 3
INVARIANTS AppInv OnlyWhatWasSent
PROPERTIES RefinesUntilThrown PoisonHoldsBack DeliversWhileOpen
CHECK_DEADLOCK FALSE
