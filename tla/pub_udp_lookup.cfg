SPECIFICATION MCSpec
CONSTANTS
    SerialStreams = {}
    Clients = {}
    Udps = {udp}
    Indices = {1}
    Ips = {host}
    Ports = {7}
    NoIp = noIp
    GarbagePorts = {0}
    Elems = {e1, e2}
    Null = null
    Values = {v1}
    Shapes <- OneShape
    MaxArgs = 0
    Intervals = {0}
    DefaultInterval = 0
    StampMod = 6
    ClockMods = {6}
    MaxTime = 0
    MaxLoop = 1
INVARIANTS LookupIsSafe
CHECK_DEADLOCK FALSE
