SPECIFICATION Spec
CONSTANTS
    c1 = c1
    c2 = c2
    p1 = p1
    p2 = p2
    v1 = v1
    v2 = v2
    MaxSessions = 2
    Ports = {p1, p2}
    UdpPorts = {}
    Visitors = {}
    PortOf <- AllTcp
    Faults = {"link", "dial"}
    Occupied = {}
    Clients = {c1, c2}
    Links <- Overlapping
    AcceptConflict = {c1, c2}
    Heartbeating = {c1, c2}
    RetryTimes <- OneRetries
    Stopping = {c1, c2}
INVARIANTS
    TypeOK
    RegistryInv
    PortsHeldOnce
    LinksAgree
    StaleListenerIsEnded
PROPERTIES
    ImplementsLeases
CHECK_DEADLOCK FALSE
