SPECIFICATION MCSpec
CONSTANTS
    Streams = {serial, udp, client, manual}
    Serial = serial
    Udp = udp
    Client = client
    Manual = manual
    Indices = {1, 2, 17, 18, 33, 34, 49, 50}
    Payloads = {full, half, wrong}
    BoundVars = {v}
    Var = v
    Callbacks = {cb}
    Callback = cb
    Unpackers = {u1, u2, u3, u4, u5}
    Null = null
    Fits <- MCSketchFits
    Sized <- MCSized
    Keys <- MCKeys
    full = full
    half = half
    wrong = wrong
    Host = host
    Port = 7
    NoIp = noIp
    Elems = {e1, e2}
    Programs <- AllPrograms
    MaxPackets = 3
    MaxFed = 1
INVARIANTS TypeOK OwnValues PostsNewest
PROPERTIES Echoes EndsUpShown
