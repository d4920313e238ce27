------------------------------ MODULE Rslinker ------------------------------
(***************************************************************************)
(* The clients, the server and the connections between them, composed: the *)
(* next-state relation, its fairness and the properties of the whole.      *)
(***************************************************************************)
EXTENDS Server, Client

vars == <<wireVars, serverVars, clientVars>>

Init == WireInit /\ ServerInit /\ ClientInit

WireNext ==
    \E s \in Session : ResetServerEnd(s) \/ ResetClientEnd(s) \/ LinkFails(s)

ServerNext ==
    \/ AcceptLoopFails
    \/ \E s \in Session :
         \/ OnNewClient(s) \/ FirstReadFails(s)
         \/ SendAcceptClient(s) \/ ReadConfig(s) \/ AcquirePorts(s) \/ WriteReply(s)
         \/ ReadHeartbeat(s) \/ HeartbeatTimeout(s) \/ ReadFails(s)
         \/ TakeReport(s) \/ NotifyClient(s) \/ Cleanup(s)
         \/ \E p \in Ports : Bind(s, p) \/ MonitorFails(s, p) \/ MonitorStops(s, p)
         \/ \E v \in Visitors : ServerMsg(s, v) \/ MonitorAccepts(s, v)
    \/ \E v \in Visitors :
         OnAcceptChannel(v) \/ MakeChannel(v) \/ PendingTimeout(v) \/ RelayEnds(v)

ClientNext ==
    \/ \E c \in Clients :
         \/ Connect(c) \/ ConnectFails(c) \/ Reconnect(c) \/ ReconnectFails(c)
         \/ SendNewClient(c) \/ RecvAcceptClient(c)
         \/ SendPushConfig(c) \/ RecvAcceptConfig(c)
         \/ SessionReadFails(c) \/ SendHeartbeat(c) \/ RecvNewChannel(c) \/ Stop(c)
    \/ \E v \in Visitors : StartChannel(v) \/ ChannelFails(v)

Next ==
    \/ WireNext /\ UNCHANGED <<serverVars, clientVars>>
    \/ ServerNext /\ UNCHANGED clientVars
    \/ ClientNext /\ UNCHANGED serverVars

Spec == Init /\ [][Next]_vars

-----------------------------------------------------------------------------
(* Fairness.  The runtime polls a task whose future is ready, and select   *)
(* picks among ready branches at random, so a branch that stays ready is   *)
(* taken: weak fairness for every task, and for each branch of the         *)
(* controller's and the client's select.  The kernel answers with a reset  *)
(* sooner or later.  Nothing obliges a network to fail, a visitor to come, *)
(* a relay to end or a process to be stopped.                              *)

KernelFairness ==
    \A s \in Session :
        /\ WF_vars(ResetServerEnd(s) /\ UNCHANGED <<serverVars, clientVars>>)
        /\ WF_vars(ResetClientEnd(s) /\ UNCHANGED <<serverVars, clientVars>>)

\* The part of a controller that has no choice.
ControllerStep(s) ==
    \/ OnNewClient(s) \/ FirstReadFails(s)
    \/ SendAcceptClient(s) \/ ReadConfig(s) \/ AcquirePorts(s) \/ WriteReply(s)
    \/ NotifyClient(s) \/ Cleanup(s)

ServerFairness ==
    /\ \A s \in Session :
         /\ WF_vars(ControllerStep(s) /\ UNCHANGED clientVars)
         /\ WF_vars(ReadHeartbeat(s) /\ UNCHANGED clientVars)
         /\ WF_vars(HeartbeatTimeout(s) /\ UNCHANGED clientVars)
         /\ WF_vars(ReadFails(s) /\ UNCHANGED clientVars)
         /\ WF_vars(TakeReport(s) /\ UNCHANGED clientVars)
         /\ \A p \in Ports : WF_vars((Bind(s, p) \/ MonitorStops(s, p)) /\ UNCHANGED clientVars)
         /\ \A v \in Visitors : WF_vars(ServerMsg(s, v) /\ UNCHANGED clientVars)
    /\ \A v \in Visitors :
         /\ WF_vars((OnAcceptChannel(v) \/ MakeChannel(v)) /\ UNCHANGED clientVars)
         /\ WF_vars(PendingTimeout(v) /\ UNCHANGED clientVars)

ClientStep(c) ==
    \/ Connect(c) \/ Reconnect(c)
    \/ SendNewClient(c) \/ RecvAcceptClient(c) \/ SendPushConfig(c) \/ RecvAcceptConfig(c)
    \/ SessionReadFails(c)

ClientFairness ==
    /\ \A c \in Clients :
         /\ WF_vars(ClientStep(c) /\ UNCHANGED serverVars)
         /\ WF_vars(SendHeartbeat(c) /\ UNCHANGED serverVars)
         /\ WF_vars(RecvNewChannel(c) /\ UNCHANGED serverVars)
    /\ \A v \in Visitors : WF_vars(StartChannel(v) /\ UNCHANGED serverVars)

FairSpec == Spec /\ KernelFairness /\ ServerFairness /\ ClientFairness

-----------------------------------------------------------------------------
(* Safety.                                                                 *)

\* Every variable has its type.
TypeOK == WireTypeOK /\ ServerTypeOK /\ ClientTypeOK

\* The ports a controller will take back or has just taken.
Held(s) ==
    IF phase[s] = "reply" THEN success
    ELSE IF phase[s] \in {"serve", "notify", "cleanup"} THEN ports[s]
    ELSE {}

\* A port is held by one controller at a time and is in using_ports for as
\* long as it is held: accept_config's check-then-insert loop and cleanup's
\* retain (controller.rs:369, 394-402) never hand a port to two clients.
PortsHeldOnce ==
    /\ \A s \in Session : Held(s) \subseteq usingPorts
    /\ \A s, t \in Session : s # t => Held(s) \cap Held(t) = {}

\* The bookkeeping behind PortsHeldOnce.  The write lock is held exactly while
\* a reply is being written, so two controllers never sort the same request
\* at once, and a controller owns nothing before its reply is out: whichever
\* await of prepare fails, cleanup takes back no port of another controller.
Early == {"first", "hello", "config", "lock", "reply"}
RegistryInv ==
    /\ \A s \in Session : phase[s] = "reply" <=> portsLock = s
    /\ \A s \in Session : phase[s] \in Early => ports[s] = {}
    /\ PortsHeldOnce

\* While both ends of a session work, the client forwards exactly the ports
\* its controller listens on: push_config's reading of the reply
\* (client.rs:149-163) agrees with what accept_config kept (controller.rs:411).
LinksAgree ==
    \A c \in Clients :
        (cphase[c] = "run" /\ Granted(conn[c])) => links[c] = ports[conn[c]]

\* A running client is sent NewChannel messages only, so the todo!() of
\* recv_msg (client.rs:296) is never reached.
OnlyChannelsAnnounced ==
    \A c \in Clients :
        cphase[c] = "run" =>
            \A i \in DOMAIN down[conn[c]] : down[conn[c]][i].type = "new_channel"

\* The monitor an Error report names is still in the leader's table, so the
\* unwrap of fired (chat/mod.rs:92) never panics.
ErrorNamesHired ==
    \A s \in Session : \A i \in DOMAIN reports[s] :
        reports[s][i].report = "error" => reports[s][i].port \in hired[s]

Announced(s, v) == \E i \in DOMAIN down[s] : down[s][i] = NewChannel(PortOf[v], v)

\* A visitor is in its controller's pending sockets before anybody can claim
\* it, so a data connection that finds no pending socket was too late for
\* the 300-second timer: it never came too early, and never to a controller
\* other than the one that holds the visitor.
ClaimedIsPending ==
    \A v \in Visitors :
        /\ \A s \in Session :
             Announced(s, v) => host[v] = s /\ visitor[v] \in {"waiting", "closed"}
        /\ data[v] \in {"dialing", "offered", "queued", "handed"} =>
             host[v] = from[v] /\ visitor[v] \in {"waiting", "closed"}

\* When a controller's monitor still listens on a port another controller
\* has been granted, the first controller is gone: cleanup frees the port
\* (controller.rs:370) without waiting for the monitor it has told to stop.
StaleListenerIsEnded ==
    \A s, t \in Session : \A p \in Ports :
        (s # t /\ monitor[s][p] = "listening" /\ p \in Held(t)) => phase[s] = "done"

\* As long as nothing fails, every port in using_ports is one that some
\* controller will give back.
NoPortLost == usingPorts \subseteq UNION {Held(s) : s \in Session}

-----------------------------------------------------------------------------
(* The abstract registry.                                                  *)

LeaseOf(p) ==
    IF p \notin usingPorts THEN NoOne
    ELSE IF \E s \in Session : p \in Held(s) THEN CHOOSE s \in Session : p \in Held(s)
    ELSE MaxSessions + 1

Leases == INSTANCE PortLeases WITH
    Port <- Ports, Holder <- Session, Free <- NoOne, Lost <- MaxSessions + 1,
    lease <- [p \in Ports |-> LeaseOf(p)],
    served <- {s \in Session : phase[s] \notin {"first", "hello", "config", "lock"}}

\* The registry of ports implements the leases.
ImplementsLeases == Leases!LeaseSpec

-----------------------------------------------------------------------------
(* Liveness.                                                               *)

\* With heartbeats, a controller whose client is gone ends and gives its
\* ports back, whatever the network does (controller.rs:110, 366-371).
DeadClientReleased ==
    \A s \in Session :
        (Granted(s) /\ heartbeatOn[s] /\ Gone(cli[s])) ~> phase[s] = "done"

\* A visitor that was accepted is connected to a client or turned away: the
\* 300-second timer (controller.rs:199-208) covers every way the data
\* connection can fail to come, the end of the controller included.
VisitorSettled ==
    \A v \in Visitors : visitor[v] = "reported" ~> visitor[v] \in {"joined", "closed"}

\* The monitors of a controller that is gone stop listening (monitor.rs:32, 62).
MonitorsStop ==
    \A s \in Session :
        phase[s] = "done" ~> \A p \in Ports : monitor[s][p] \in {"none", "dead"}

\* The handshake does not wait forever on a live server: the client gets to
\* run, learns that it was refused or that its connection broke, or is left
\* with a server's end that failed without the client being told
\* (new_client and push_config read without a timeout, client.rs:117, 145).
Shaking(c) == cphase[c] \in {"hello", "id", "push", "config"}
HandshakeEnds ==
    \A c \in Clients : cphase[c] = "hello" ~> (~Shaking(c) \/ Gone(srv[conn[c]]))

\* Controller::main_loop reads an empty message when "Client disconnect
\* nomarlly" (controller.rs:121): a controller whose client has closed its
\* connection ends.
DisconnectEndsController ==
    \A s \in Session : (Granted(s) /\ cli[s] = "closed") ~> phase[s] = "done"
=============================================================================
