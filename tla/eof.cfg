SPECIFICATION FairSpec
CONSTANTS
    c1 = c1
    c2 = c2
    p1 = p1
    p2 = p2
    v1 = v1
    v2 = v2
    MaxSessions = 1
    Ports = {p1}
    UdpPorts = {}
    Visitors = {}
    PortOf <- AllTcp
    Faults = {}
    Occupied = {}
    Clients = {c1}
    Links <- AllLinks
    AcceptConflict = {}
    Heartbeating = {}
    RetryTimes <- NoRetry
    Stopping = {c1}
PROPERTIES
    DisconnectEndsController
CHECK_DEADLOCK FALSE
