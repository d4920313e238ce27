-------------------------------- MODULE Wire --------------------------------
(***************************************************************************)
(* What a client and the server share: the control connections, over which *)
(* they exchange the framed JSON messages of client.rs and server/mod.rs,  *)
(* and the data connections, one per visitor, that carry one AcceptChannel *)
(* frame and then raw bytes.                                               *)
(*                                                                         *)
(* A control connection is a number, its rank in the order the clients     *)
(* opened them.  The controller the server creates for it draws a fresh    *)
(* uuid (controller.rs:83); that id is the same number here.               *)
(*                                                                         *)
(* The code's framed reader treats a closed peer like a silent one: its    *)
(* read loops ask again after a read of zero bytes (protocol/mod.rs:237,   *)
(* 246).  Only an end whose read or write returns an error learns that the *)
(* connection is over; such an end is "broken" below.                      *)
(***************************************************************************)
EXTENDS Naturals, Sequences, FiniteSets

CONSTANTS
    MaxSessions,    \* bound: control connections opened in a behaviour
    Ports,          \* the remote ports (number and protocol) of all links
    UdpPorts,       \* the ports among them whose protocol is udp
    Visitors,       \* connections (udp: source addresses) reaching the server's ports
    PortOf,         \* the port each visitor reaches
    Faults          \* what may fail: control links, dialling, accepting, monitors, channels

ASSUME WireAssumption ==
    /\ MaxSessions \in Nat \ {0}
    /\ UdpPorts \subseteq Ports
    /\ PortOf \in [Visitors -> Ports]
    /\ Faults \subseteq {"link", "dial", "accept", "monitor", "channel"}

NoOne == 0
Session == 1..MaxSessions

VARIABLES
    opened,         \* control connections opened so far
    accepting,      \* the server's accept loop still runs
    cli,            \* the client's end of each control connection
    srv,            \* the server's end of each control connection
    up,             \* frames written by the client, not read by the server
    down,           \* frames written by the server, not read by the client
    data,           \* the data connection opened for each visitor
    from            \* the controller id each data connection names

wireVars == <<opened, accepting, cli, srv, up, down, data, from>>

End == {"none", "open", "broken", "closed"}
Gone(end) == end \in {"broken", "closed"}

-----------------------------------------------------------------------------
(* Messages.  A number is the uuid of a pending socket: it stands for the  *)
(* visitor whose socket that is.                                           *)

NewClient == [type |-> "new_client"]
PushConfig(ports, beats) ==
    [type |-> "push_config", ports |-> ports, heartbeat_interval |-> beats]
Heartbeat == [type |-> "heartbeat"]

AcceptClient(id) == [type |-> "accept_client", id |-> id]
AcceptConfigAll == [type |-> "accept_config", accepted |-> "all"]
AcceptConfigPart(ports) ==
    [type |-> "accept_config", accepted |-> "part", ports |-> ports]
NewChannel(port, number) ==
    [type |-> "new_channel", port |-> port, number |-> number]

ClientMessage ==
    {NewClient, Heartbeat}
        \cup {PushConfig(ps, b) : ps \in SUBSET Ports, b \in BOOLEAN}
ServerMessage ==
    {AcceptClient(s) : s \in Session}
        \cup {AcceptConfigAll}
        \cup {AcceptConfigPart(ps) : ps \in SUBSET Ports}
        \cup {NewChannel(p, v) : p \in Ports, v \in Visitors}

\* An open end reads the oldest frame; an open end's write always succeeds,
\* whatever has become of the peer.
ServerHears(s) == srv[s] = "open" /\ up[s] # <<>>
ClientHears(s) == cli[s] = "open" /\ down[s] # <<>>
Taken(queue, s) == [queue EXCEPT ![s] = Tail(@)]
Sent(queue, s, msg) == [queue EXCEPT ![s] = Append(@, msg)]

-----------------------------------------------------------------------------
WireInit ==
    /\ opened = 0
    /\ accepting = TRUE
    /\ cli = [s \in Session |-> "none"]
    /\ srv = [s \in Session |-> "none"]
    /\ up = [s \in Session |-> <<>>]
    /\ down = [s \in Session |-> <<>>]
    /\ data = [v \in Visitors |-> "none"]
    /\ from = [v \in Visitors |-> NoOne]

\* Bytes that reach an end that no longer exists, or that it closed without
\* reading, are answered with a reset: the writer's end breaks.
ResetServerEnd(s) ==
    /\ srv[s] = "open" /\ Gone(cli[s]) /\ down[s] # <<>>
    /\ srv' = [srv EXCEPT ![s] = "broken"]
    /\ up' = [up EXCEPT ![s] = <<>>]
    /\ down' = [down EXCEPT ![s] = <<>>]
    /\ UNCHANGED <<opened, accepting, cli, data, from>>

ResetClientEnd(s) ==
    /\ cli[s] = "open" /\ Gone(srv[s]) /\ up[s] # <<>>
    /\ cli' = [cli EXCEPT ![s] = "broken"]
    /\ up' = [up EXCEPT ![s] = <<>>]
    /\ down' = [down EXCEPT ![s] = <<>>]
    /\ UNCHANGED <<opened, accepting, srv, data, from>>

\* The network breaks a connection: one end or both see an error, and what
\* was in flight is lost.
LinkFails(s) ==
    /\ "link" \in Faults
    /\ \E ends \in (SUBSET {"client", "server"}) \ {{}} :
         /\ "client" \in ends => cli[s] = "open"
         /\ "server" \in ends => srv[s] = "open"
         /\ cli' = [cli EXCEPT ![s] = IF "client" \in ends THEN "broken" ELSE @]
         /\ srv' = [srv EXCEPT ![s] = IF "server" \in ends THEN "broken" ELSE @]
    /\ up' = [up EXCEPT ![s] = <<>>]
    /\ down' = [down EXCEPT ![s] = <<>>]
    /\ UNCHANGED <<opened, accepting, data, from>>

WireTypeOK ==
    /\ opened \in 0..MaxSessions
    /\ accepting \in BOOLEAN
    /\ cli \in [Session -> End]
    /\ srv \in [Session -> End]
    /\ up \in [Session -> Seq(ClientMessage)]
    /\ down \in [Session -> Seq(ServerMessage)]
    /\ data \in [Visitors -> {"none", "dialing", "offered", "queued", "handed", "joined", "gone"}]
    /\ from \in [Visitors -> Session \cup {NoOne}]
=============================================================================
