------------------------------- MODULE Server -------------------------------
(***************************************************************************)
(* The server: its accept loop, one task per incoming connection           *)
(* (server/mod.rs), one controller task per client (server/controller.rs), *)
(* one monitor task per granted port (server/monitor.rs), and the tasks a  *)
(* controller spawns for pending sockets.  A step is what a task does      *)
(* between two awaits that can suspend it; the only lock held across an    *)
(* await that matters is using_ports (controller.rs:394-410).              *)
(***************************************************************************)
EXTENDS Wire

CONSTANT Occupied       \* ports other programs of the server's host listen on

ASSUME ServerAssumption == Occupied \subseteq Ports

VARIABLES
    phase,          \* where the task that serves each control connection stands
    usingPorts,     \* Server.using_ports
    portsLock,      \* the controller that holds the write lock of using_ports
    success,        \* accept_config's local list of that controller
    asked,          \* the ports of the PushConfig each controller has read
    heartbeatOn,    \* Controller.heartbeat_interval is Some
    ports,          \* Controller.ports
    hired,          \* the keys of monitor_leader.senders
    monitor,        \* the monitor task of each controller and port
    reports,        \* the queue of monitor_leader.recver
    notifying,      \* the pending socket a controller is telling its client of
    visitor,        \* where each visitor's socket is
    host            \* the controller whose monitor accepted it

serverVars == <<phase, usingPorts, portsLock, success, asked, heartbeatOn, ports,
                hired, monitor, reports, notifying, visitor, host>>
registryVars == <<usingPorts, portsLock, success, asked, heartbeatOn, ports>>
monitorVars == <<hired, monitor, reports>>
visitorVars == <<notifying, visitor, host>>

\* "first": on_new_connection reads; "hello" to "reply": prepare; "serve" and
\* "notify": main_loop; "cleanup": exec after it; "done": the controller is dropped.
Phase == {"first", "hello", "config", "lock", "reply", "serve", "notify", "cleanup", "done"}
HasController(s) == phase[s] \notin {"first", "done"}
Granted(s) == phase[s] \in {"serve", "notify"}

NoVisitor == "no visitor"
New(v) == [report |-> "new", visitor |-> v]
Error(p) == [report |-> "error", port |-> p]
Report == {New(v) : v \in Visitors} \cup {Error(p) : p \in Ports}

\* The keys of a controller's pending_sockets.
PendingSockets(s) == {v \in Visitors : visitor[v] = "waiting" /\ host[v] = s}

ServerInit ==
    /\ phase = [s \in Session |-> "first"]
    /\ usingPorts = {}
    /\ portsLock = NoOne
    /\ success = {}
    /\ asked = [s \in Session |-> {}]
    /\ heartbeatOn = [s \in Session |-> FALSE]
    /\ ports = [s \in Session |-> {}]
    /\ hired = [s \in Session |-> {}]
    /\ monitor = [s \in Session |-> [p \in Ports |-> "none"]]
    /\ reports = [s \in Session |-> <<>>]
    /\ notifying = [s \in Session |-> NoVisitor]
    /\ visitor = [v \in Visitors |-> "away"]
    /\ host = [v \in Visitors |-> NoOne]

-----------------------------------------------------------------------------
(* The accept loop and on_new_connection.                                  *)

\* The first error of the transport's accept ends the loop for good.
AcceptLoopFails ==
    /\ "accept" \in Faults /\ accepting
    /\ accepting' = FALSE
    /\ UNCHANGED <<opened, cli, srv, up, down, data, from, serverVars>>

\* The first frame of a control connection hires a controller; any other
\* frame drops the connection.
OnNewClient(s) ==
    /\ phase[s] = "first"
    /\ ServerHears(s)
    /\ up' = Taken(up, s)
    /\ IF Head(up[s]).type = "new_client"
         THEN phase' = [phase EXCEPT ![s] = "hello"] /\ UNCHANGED srv
         ELSE phase' = [phase EXCEPT ![s] = "done"] /\ srv' = [srv EXCEPT ![s] = "closed"]
    /\ UNCHANGED <<opened, accepting, cli, down, data, from, registryVars, monitorVars, visitorVars>>

FirstReadFails(s) ==
    /\ phase[s] = "first"
    /\ srv[s] = "broken"
    /\ phase' = [phase EXCEPT ![s] = "done"]
    /\ srv' = [srv EXCEPT ![s] = "closed"]
    /\ UNCHANGED <<opened, accepting, cli, up, down, data, from, registryVars, monitorVars, visitorVars>>

\* The first frame of a data connection is sent on to the controller it names.
OnAcceptChannel(v) ==
    /\ data[v] = "offered"
    /\ data' = [data EXCEPT ![v] = IF HasController(from[v]) THEN "queued" ELSE "gone"]
    /\ UNCHANGED <<opened, accepting, cli, srv, up, down, from, serverVars>>

-----------------------------------------------------------------------------
(* Controller::prepare.                                                    *)

Goes(s, next) == phase' = [phase EXCEPT ![s] = next]

SendAcceptClient(s) ==
    /\ phase[s] = "hello"
    /\ IF srv[s] = "open"
         THEN Goes(s, "config") /\ down' = Sent(down, s, AcceptClient(s))
         ELSE Goes(s, "cleanup") /\ UNCHANGED down
    /\ UNCHANGED <<opened, accepting, cli, srv, up, data, from, registryVars, monitorVars, visitorVars>>

ReadConfig(s) ==
    /\ phase[s] = "config"
    /\ ServerHears(s)
    /\ up' = Taken(up, s)
    /\ IF Head(up[s]).type = "push_config"
         THEN /\ Goes(s, "lock")
              /\ asked' = [asked EXCEPT ![s] = Head(up[s]).ports]
              /\ heartbeatOn' = [heartbeatOn EXCEPT ![s] = Head(up[s]).heartbeat_interval]
         ELSE Goes(s, "cleanup") /\ UNCHANGED <<asked, heartbeatOn>>
    /\ UNCHANGED <<opened, accepting, cli, srv, down, data, from, usingPorts, portsLock,
                   success, ports, monitorVars, visitorVars>>

\* What accept_config's loop takes.
VacantUnchecked(s) == asked[s]                          \* mutant
Vacant(s) == asked[s] \ usingPorts

\* With the write lock, the free ones of the asked ports become the controller's.
AcquirePorts(s) ==
    /\ phase[s] = "lock"
    /\ portsLock = NoOne
    /\ portsLock' = s
    /\ success' = Vacant(s)
    /\ usingPorts' = usingPorts \cup asked[s]
    /\ Goes(s, "reply")
    /\ UNCHANGED <<wireVars, asked, heartbeatOn, ports, monitorVars, visitorVars>>

Reply(s) == IF asked[s] \ success = {} THEN AcceptConfigAll ELSE AcceptConfigPart(success)

\* Every way out of accept_config drops the write guard.
LockKeptOnError(s) == IF srv[s] = "open" THEN NoOne ELSE s     \* mutant
LockAfterReply(s) == NoOne

\* The reply is written under the lock.  Only after it does the controller
\* note the ports as its own and start their monitors: an error in between
\* drops the lock and the list of what was inserted.
WriteReply(s) ==
    /\ phase[s] = "reply"
    /\ portsLock' = LockAfterReply(s)
    /\ success' = {}
    /\ asked' = [asked EXCEPT ![s] = {}]
    /\ IF srv[s] = "open"
         THEN /\ Goes(s, "serve")
              /\ down' = Sent(down, s, Reply(s))
              /\ ports' = [ports EXCEPT ![s] = success]
              /\ hired' = [hired EXCEPT ![s] = success]
              /\ monitor' = [monitor EXCEPT ![s] =
                               [p \in Ports |-> IF p \in success THEN "starting" ELSE @[p]]]
         ELSE Goes(s, "cleanup") /\ UNCHANGED <<down, ports, hired, monitor>>
    /\ UNCHANGED <<opened, accepting, cli, srv, up, data, from, usingPorts,
                   heartbeatOn, reports, visitorVars>>

-----------------------------------------------------------------------------
(* Controller::main_loop: one action per branch of its select, and the     *)
(* write of NewChannel, which suspends the loop.                           *)

ReadHeartbeatEchoed(s) ==                               \* mutant
    /\ phase[s] = "serve"
    /\ ServerHears(s)
    /\ up' = Taken(up, s)
    /\ down' = Sent(down, s, Heartbeat)
    /\ UNCHANGED <<opened, accepting, cli, srv, data, from, serverVars>>

\* A heartbeat, or a frame it only warns of, restarts the read.
ReadHeartbeat(s) ==
    /\ phase[s] = "serve"
    /\ ServerHears(s)
    /\ up' = Taken(up, s)
    /\ UNCHANGED <<opened, accepting, cli, srv, down, data, from, serverVars>>

\* The read is timed if the client sends heartbeats, and then not forever.
SilentInverted(s) == ~heartbeatOn[s] /\ srv[s] = "open" /\ up[s] = <<>>    \* mutant
Silent(s) == heartbeatOn[s] /\ srv[s] = "open" /\ up[s] = <<>>

HeartbeatTimeoutUnclean(s) ==                           \* mutant
    /\ phase[s] = "serve"
    /\ Silent(s)
    /\ Goes(s, "done")
    /\ UNCHANGED <<wireVars, registryVars, monitorVars, visitorVars>>

HeartbeatTimeout(s) ==
    /\ phase[s] = "serve"
    /\ Silent(s)
    /\ Goes(s, "cleanup")
    /\ UNCHANGED <<wireVars, registryVars, monitorVars, visitorVars>>

\* A read of a broken end fails wherever the task reads after its first frame.
ReadFails(s) ==
    /\ phase[s] \in {"config", "serve"}
    /\ srv[s] = "broken"
    /\ Goes(s, "cleanup")
    /\ UNCHANGED <<wireVars, registryVars, monitorVars, visitorVars>>

\* new_channel: an Error fires the monitor; a new socket becomes pending
\* before its client is told.
TakeReport(s) ==
    /\ phase[s] = "serve"
    /\ reports[s] # <<>>
    /\ reports' = Taken(reports, s)
    /\ LET head == Head(reports[s])
       IN IF head.report = "new"
            THEN /\ Goes(s, "notify")
                 /\ visitor' = [visitor EXCEPT ![head.visitor] = "waiting"]
                 /\ notifying' = [notifying EXCEPT ![s] = head.visitor]
                 /\ UNCHANGED hired
            ELSE /\ hired' = [hired EXCEPT ![s] = @ \ {head.port}]
                 /\ UNCHANGED <<phase, visitor, notifying>>
    /\ UNCHANGED <<wireVars, registryVars, monitor, host>>

NotifyClient(s) ==
    /\ phase[s] = "notify"
    /\ notifying' = [notifying EXCEPT ![s] = NoVisitor]
    /\ IF srv[s] = "open"
         THEN /\ Goes(s, "serve")
              /\ down' = Sent(down, s, NewChannel(PortOf[notifying[s]], notifying[s]))
         ELSE Goes(s, "cleanup") /\ UNCHANGED down
    /\ UNCHANGED <<opened, accepting, cli, srv, up, data, from, registryVars, monitorVars, visitor, host>>

\* server_msg: the data connection gets a task of its own.
ServerMsg(s, v) ==
    /\ phase[s] = "serve"
    /\ data[v] = "queued" /\ from[v] = s
    /\ data' = [data EXCEPT ![v] = "handed"]
    /\ UNCHANGED <<opened, accepting, cli, srv, up, down, from, serverVars>>

\* cleanup's retain on using_ports.
RetainedNone(s) == {}                                   \* mutant
Retained(s) == usingPorts \ ports[s]

\* The broadcast to the monitors went out on the way into this phase; with the
\* write lock the controller takes its ports back and is dropped, with the
\* control connection, the monitors' unread reports and its unread mail.
Cleanup(s) ==
    /\ phase[s] = "cleanup"
    /\ portsLock = NoOne
    /\ usingPorts' = Retained(s)
    /\ Goes(s, "done")
    /\ ports' = [ports EXCEPT ![s] = {}]
    /\ hired' = [hired EXCEPT ![s] = {}]
    /\ srv' = [srv EXCEPT ![s] = "closed"]
    /\ reports' = [reports EXCEPT ![s] = <<>>]
    /\ visitor' = [v \in Visitors |->
                     IF visitor[v] = "reported" /\ host[v] = s THEN "closed" ELSE visitor[v]]
    /\ data' = [v \in Visitors |->
                  IF data[v] = "queued" /\ from[v] = s THEN "gone" ELSE data[v]]
    /\ UNCHANGED <<opened, accepting, cli, up, down, from, portsLock, success, asked,
                   heartbeatOn, monitor, notifying, host>>

-----------------------------------------------------------------------------
(* The tasks of pending sockets and data connections.  The client echoes   *)
(* the port and the number of the NewChannel it was sent, so comparing the *)
(* port again cannot fail; looking up the number can.                      *)

\* make_tcp_channel, make_udp_channel.
MakeChannel(v) ==
    /\ data[v] = "handed"
    /\ IF v \in PendingSockets(from[v])
         THEN /\ data' = [data EXCEPT ![v] = "joined"]
              /\ visitor' = [visitor EXCEPT ![v] = "joined"]
         ELSE data' = [data EXCEPT ![v] = "gone"] /\ UNCHANGED visitor
    /\ UNCHANGED <<opened, accepting, cli, srv, up, down, from, phase, registryVars,
                   monitorVars, notifying, host>>

DueWhileServed(v) == visitor[v] = "waiting" /\ HasController(host[v])   \* mutant
Due(v) == visitor[v] = "waiting"

\* add_pending_socket's timer.  Its task owns a reference to the table, so it
\* runs on after the controller is dropped.
PendingTimeout(v) ==
    /\ Due(v)
    /\ visitor' = [visitor EXCEPT ![v] = "closed"]
    /\ UNCHANGED <<wireVars, phase, registryVars, monitorVars, notifying, host>>

\* The copy between a visitor and its data connection is over; it outlives
\* the controller that started it.
RelayEnds(v) ==
    /\ data[v] = "joined"
    /\ data' = [data EXCEPT ![v] = "gone"]
    /\ visitor' = [visitor EXCEPT ![v] = "closed"]
    /\ UNCHANGED <<opened, accepting, cli, srv, up, down, from, phase, registryVars,
                   monitorVars, notifying, host>>

-----------------------------------------------------------------------------
(* Monitors.                                                               *)

\* Every UdpClient keeps the socket of its port bound (udp.rs:18).
UdpSocketKept(p) ==
    p \in UdpPorts /\ \E v \in Visitors :
        PortOf[v] = p /\ visitor[v] \in {"reported", "waiting", "joined"}

CanBind(p) ==
    /\ p \notin Occupied
    /\ \A s \in Session : monitor[s][p] # "listening"
    /\ ~UdpSocketKept(p)

\* A tcp monitor reports the error that ends it, if anybody still listens;
\* a udp monitor ends in silence.
Dies(s, p) ==
    /\ monitor' = [monitor EXCEPT ![s][p] = "dead"]
    /\ reports' = IF p \in UdpPorts \/ ~HasController(s) THEN reports
                  ELSE Sent(reports, s, Error(p))

Bind(s, p) ==
    /\ monitor[s][p] = "starting"
    /\ IF CanBind(p)
         THEN monitor' = [monitor EXCEPT ![s][p] = "listening"] /\ UNCHANGED reports
         ELSE Dies(s, p)
    /\ UNCHANGED <<wireVars, phase, registryVars, hired, visitorVars>>

MonitorFailsGoesOn(s, p) ==                             \* mutant
    /\ "monitor" \in Faults
    /\ monitor[s][p] = "listening" /\ HasController(s) /\ Len(reports[s]) < 2
    /\ reports' = Sent(reports, s, Error(p))
    /\ UNCHANGED <<wireVars, phase, registryVars, hired, monitor, visitorVars>>

MonitorFails(s, p) ==
    /\ "monitor" \in Faults
    /\ monitor[s][p] = "listening"
    /\ Dies(s, p)
    /\ UNCHANGED <<wireVars, phase, registryVars, hired, visitorVars>>

\* A visitor comes in; without a controller to report it to, the monitor ends
\* and drops it.
MonitorAccepts(s, v) ==
    LET p == PortOf[v] IN
    /\ monitor[s][p] = "listening"
    /\ visitor[v] = "away"
    /\ IF HasController(s)
         THEN /\ visitor' = [visitor EXCEPT ![v] = "reported"]
              /\ host' = [host EXCEPT ![v] = s]
              /\ reports' = Sent(reports, s, New(v))
              /\ UNCHANGED monitor
         ELSE /\ visitor' = [visitor EXCEPT ![v] = "closed"]
              /\ monitor' = [monitor EXCEPT ![s][p] = "dead"]
              /\ UNCHANGED <<host, reports>>
    /\ UNCHANGED <<wireVars, phase, registryVars, hired, notifying>>

\* employee.wait returns: on the broadcast, or because the leader is gone.
StopMissed(s) == phase[s] = "cleanup"                   \* mutant
StopSignalled(s) == phase[s] \in {"cleanup", "done"}

MonitorStops(s, p) ==
    /\ monitor[s][p] = "listening"
    /\ StopSignalled(s)
    /\ monitor' = [monitor EXCEPT ![s][p] = "dead"]
    /\ UNCHANGED <<wireVars, phase, registryVars, hired, reports, visitorVars>>

-----------------------------------------------------------------------------
ServerTypeOK ==
    /\ phase \in [Session -> Phase]
    /\ usingPorts \subseteq Ports
    /\ portsLock \in Session \cup {NoOne}
    /\ success \subseteq Ports
    /\ asked \in [Session -> SUBSET Ports]
    /\ heartbeatOn \in [Session -> BOOLEAN]
    /\ ports \in [Session -> SUBSET Ports]
    /\ hired \in [Session -> SUBSET Ports]
    /\ monitor \in [Session -> [Ports -> {"none", "starting", "listening", "dead"}]]
    /\ reports \in [Session -> Seq(Report)]
    /\ notifying \in [Session -> Visitors \cup {NoVisitor}]
    /\ visitor \in [Visitors -> {"away", "reported", "waiting", "joined", "closed"}]
    /\ host \in [Visitors -> Session \cup {NoOne}]
=============================================================================
