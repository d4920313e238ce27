SPECIFICATION Spec
CONSTANTS
    c1 = c1
    c2 = c2
    p1 = p1
    p2 = p2
    v1 = v1
    v2 = v2
    MaxSessions = 2
    Ports = {p1, p2}
    UdpPorts = {p2}
    Visitors = {v1, v2}
    PortOf <- TcpAndUdp
    Faults = {"accept", "monitor", "channel"}
    Occupied = {}
    Clients = {c1}
    Links <- AllLinks
    AcceptConflict = {}
    Heartbeating = {c1}
    RetryTimes <- RetryOnce
    Stopping = {}
INVARIANTS
    ClaimedIsPending
    OnlyChannelsAnnounced
    ErrorNamesHired
    NoPortLost
CHECK_DEADLOCK FALSE
