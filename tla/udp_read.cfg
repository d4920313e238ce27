SPECIFICATION UdpSpec
CONSTANTS
    a1 = a1
    a2 = a2
    Addrs = {a1, a2}
    MaxDatagrams = 3
INVARIANTS
    ReadNeverPanics
CHECK_DEADLOCK FALSE
