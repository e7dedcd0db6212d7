SPECIFICATION MCSpec
CONSTANTS
    SerialStreams = {serial}
    Clients = {client}
    Udps = {udp}
    Indices = {1}
    Ips = {host}
    Ports = {7}
    NoIp = noIp
    GarbagePorts = {0}
    Elems = {e1, e2, e3}
    Null = null
    Values = {v1, v2}
    Shapes <- MCShapes
    MaxArgs = 2
    Intervals = {0, 2, 5}
    DefaultInterval = 3
    StampMod = 6
    ClockMods = {6, 1000}
    MaxTime = 14
    MaxLoop = 1
SYMMETRY ElementSymmetry
INVARIANTS TypeOK UniqueOwner NoNullDereference RegistryExact LateOnlyAcrossAWrap EncodedElement
PROPERTIES RateLimit
CHECK_DEADLOCK FALSE
