SPECIFICATION MCSpec
CONSTANTS
    SerialStreams = {}
    Clients = {client}
    Udps = {}
    Indices = {1}
    Ips = {host}
    Ports = {7}
    NoIp = noIp
    GarbagePorts = {0, 1}
    Elems = {e1, e2}
    Null = null
    Values = {v1}
    Shapes <- OneShape
    MaxArgs = 0
    Intervals = {0}
    DefaultInterval = 0
    StampMod = 6
    ClockMods = {6}
    MaxTime = 0
    MaxLoop = 1
INVARIANTS UnpublishedIsSilent
CHECK_DEADLOCK FALSE
