SPECIFICATION FairSpec
CONSTANTS
    c1 = c1
    c2 = c2
    p1 = p1
    p2 = p2
    v1 = v1
    v2 = v2
    MaxSessions = 2
    Ports = {p1}
    UdpPorts = {}
    Visitors = {v1}
    PortOf <- AllTcp
    Faults = {"link", "accept", "channel"}
    Occupied = {}
    Clients = {c1}
    Links <- AllLinks
    AcceptConflict = {}
    Heartbeating = {c1}
    RetryTimes <- RetryOnce
    Stopping = {}
PROPERTIES
    DeadClientReleased
    MonitorsStop
    HandshakeEnds
    VisitorSettled
CHECK_DEADLOCK FALSE
