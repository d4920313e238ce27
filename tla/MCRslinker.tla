----------------------------- MODULE MCRslinker -----------------------------
(***************************************************************************)
(* Values of the constants for the model-checking runs of Rslinker.        *)
(***************************************************************************)
EXTENDS Rslinker

CONSTANTS c1, c2, p1, p2, v1, v2

\* Every client wants every port.
AllLinks == [c \in Clients |-> Ports]

\* One client wants some of what the other wants.
Overlapping == [c \in Clients |-> IF c = c1 THEN {p1} ELSE Ports]

NoRetry == [c \in Clients |-> 0]
RetryOnce == [c \in Clients |-> 1]
OneRetries == [c \in Clients |-> IF c = c1 THEN 0 ELSE 1]

\* Both visitors reach the tcp port, or one reaches each port.
AllTcp == [v \in Visitors |-> p1]
TcpAndUdp == [v \in Visitors |-> IF v = v1 THEN p1 ELSE p2]
=============================================================================
