SPECIFICATION AppSpec
CONSTANTS
    Byte = {0, 1, 2}
    Delim = 0
    Frames <- MCFrames
    decoded <- MCdecoded
    Index = {1, 2}
    Data = {a, b}
    Callback = {cbA, cbAny}
    Accepts <- MCAccepts
    a = a
    b = b
    cbA = cbA
    cbAny = cbAny
    Crc <- MCCrc
    Zero = 0
    crcUpdate <- MCcrcUpdate
    Chunks <- MCChunks
    parsed <- MCparsed
    Inputs <- MCInputs
    MaxFeeds = 2
    ReadMax = 4
    PeerFrames <- MCFrames
    MaxSend = 2
    Messages <- MCMessages
    MaxWrites = 2
PROPERTIES GoodPacketAccepted
CHECK_DEADLOCK FALSE
