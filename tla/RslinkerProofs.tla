--------------------------- MODULE RslinkerProofs ---------------------------
(***************************************************************************)
(* Proofs about the control plane, for any number of clients, sessions,    *)
(* ports and visitors and whatever fails, in five parts; each uses the     *)
(* invariants of those before it.                                          *)
(*                                                                         *)
(* 1. The types (TypeInv).                                                 *)
(* 2. The registry of ports and the leases it implements (RegistryInv).    *)
(* 3. The monitors (MonitorInv).                                           *)
(* 4. The handshake, the links and the ports (HandshakeInv, RepliesGoOut). *)
(* 5. The visitors (VisitorInv).                                           *)
(***************************************************************************)
EXTENDS Rslinker, TLAPS, SequenceTheorems

-----------------------------------------------------------------------------
(***************************************************************************)
(* 1. The types.  Every variable keeps its type: no task reads a field     *)
(* that a message does not have, names a control connection that does not  *)
(* exist, or counts retries below 0.                                       *)
(***************************************************************************)

\* What the types alone do not say, and three steps need: a client past its
\* first connect has a control connection, a client that retries has tries
\* left, and a controller that notifies has a visitor to name.
ClientBound ==
    /\ \A c \in Clients : cphase[c] \notin {"connect", "down"} => conn[c] \in Session
    /\ \A c \in Clients : cphase[c] = "retry" => tries[c] >= 1
ServerBound ==
    \A s \in Session : phase[s] = "notify" => notifying[s] \in Visitors

\* The inductive invariant.
TypeInv == TypeOK /\ ClientBound /\ ServerBound

-----------------------------------------------------------------------------
(* Queues and messages.                                                    *)

\* Reading and writing a queue of messages of one kind leaves such a queue.
LEMMA QueueTypes ==
    ASSUME NEW M, NEW q \in [Session -> Seq(M)], NEW s \in Session
    PROVE  /\ \A m \in M : Sent(q, s, m) \in [Session -> Seq(M)]
           /\ q[s] # <<>> => Head(q[s]) \in M /\ Taken(q, s) \in [Session -> Seq(M)]
           /\ [q EXCEPT ![s] = <<>>] \in [Session -> Seq(M)]
<1>1. ASSUME NEW m \in M PROVE Append(q[s], m) \in Seq(M)
  BY AppendProperties
<1>2. q[s] # <<>> => Head(q[s]) \in M /\ Tail(q[s]) \in Seq(M)
  BY HeadTailProperties
<1>3. <<>> \in Seq(M)
  BY EmptySeq
<1> QED BY <1>1, <1>2, <1>3 DEF Sent, Taken

\* What the client may write, and what its configuration frame contains.
LEMMA ClientMessages ==
    /\ NewClient \in ClientMessage /\ Heartbeat \in ClientMessage
    /\ \A ps \in SUBSET Ports, b \in BOOLEAN : PushConfig(ps, b) \in ClientMessage
    /\ \A m \in ClientMessage :
         m.type = "push_config" => m.ports \in SUBSET Ports /\ m.heartbeat_interval \in BOOLEAN
<1>1. NewClient \in ClientMessage /\ Heartbeat \in ClientMessage
  BY DEF ClientMessage
<1>2. \A ps \in SUBSET Ports, b \in BOOLEAN : PushConfig(ps, b) \in ClientMessage
  BY DEF ClientMessage
<1>3. ASSUME NEW m \in ClientMessage, m.type = "push_config"
      PROVE  m.ports \in SUBSET Ports /\ m.heartbeat_interval \in BOOLEAN
  <2>1. m # NewClient /\ m # Heartbeat
    BY <1>3 DEF NewClient, Heartbeat
  <2>2. PICK ps \in SUBSET Ports, b \in BOOLEAN : m = PushConfig(ps, b)
    BY <2>1 DEF ClientMessage
  <2> QED BY <2>2 DEF PushConfig
<1> QED BY <1>1, <1>2, <1>3

\* What the server may write, and what its id and its visitors' frames contain.
LEMMA ServerMessages ==
    /\ \A s \in Session : AcceptClient(s) \in ServerMessage
    /\ AcceptConfigAll \in ServerMessage
    /\ \A ps \in SUBSET Ports : AcceptConfigPart(ps) \in ServerMessage
    /\ \A p \in Ports, v \in Visitors : NewChannel(p, v) \in ServerMessage
    /\ \A m \in ServerMessage :
         /\ m.type = "accept_client" => m.id \in Session
         /\ m.type = "new_channel" => m.number \in Visitors
<1>1. \A s \in Session : AcceptClient(s) \in ServerMessage
  BY DEF ServerMessage
<1>2. AcceptConfigAll \in ServerMessage
  BY DEF ServerMessage
<1>3. \A ps \in SUBSET Ports : AcceptConfigPart(ps) \in ServerMessage
  BY DEF ServerMessage
<1>4. \A p \in Ports, v \in Visitors : NewChannel(p, v) \in ServerMessage
  BY DEF ServerMessage
<1>5. /\ \A s : AcceptClient(s).type = "accept_client"
      /\ AcceptConfigAll.type = "accept_config"
      /\ \A ps : AcceptConfigPart(ps).type = "accept_config"
      /\ \A p, v : NewChannel(p, v).type = "new_channel"
  BY DEF AcceptClient, AcceptConfigAll, AcceptConfigPart, NewChannel
<1>6. ASSUME NEW m \in ServerMessage, m.type = "accept_client" PROVE m.id \in Session
  <2>1. PICK s \in Session : m = AcceptClient(s)
    BY <1>5, <1>6 DEF ServerMessage
  <2> QED BY <2>1 DEF AcceptClient
<1>7. ASSUME NEW m \in ServerMessage, m.type = "new_channel" PROVE m.number \in Visitors
  <2>1. PICK p \in Ports, v \in Visitors : m = NewChannel(p, v)
    BY <1>5, <1>7 DEF ServerMessage
  <2> QED BY <2>1 DEF NewChannel
<1> QED BY <1>1, <1>2, <1>3, <1>4, <1>6, <1>7

\* What a monitor may report, and what the report of a visitor contains.
LEMMA Reports ==
    /\ \A v \in Visitors : New(v) \in Report
    /\ \A p \in Ports : Error(p) \in Report
    /\ \A r \in Report : r.report = "new" => r.visitor \in Visitors
<1>1. /\ \A v \in Visitors : New(v) \in Report
      /\ \A p \in Ports : Error(p) \in Report
  BY DEF Report
<1>2. ASSUME NEW r \in Report, r.report = "new" PROVE r.visitor \in Visitors
  <2>1. \A p : r # Error(p)
    BY <1>2 DEF Error
  <2>2. PICK v \in Visitors : r = New(v)
    BY <2>1 DEF Report
  <2> QED BY <2>2 DEF New
<1> QED BY <1>1, <1>2

\* The number that stands for no session is not a session, and the next
\* control connection is one.
LEMMA Numbers ==
    /\ NoOne \notin Session
    /\ Session \subseteq Nat
    /\ \A n \in 0..MaxSessions : n < MaxSessions => n + 1 \in Session /\ n + 1 \in 0..MaxSessions
BY WireAssumption DEF NoOne, Session

\* Reading and writing the frames on their way to the server.
LEMMA UpTypes ==
    ASSUME TypeInv, NEW s \in Session
    PROVE  /\ \A m \in ClientMessage : Sent(up, s, m) \in [Session -> Seq(ClientMessage)]
           /\ up[s] # <<>> => /\ Head(up[s]) \in ClientMessage
                              /\ Taken(up, s) \in [Session -> Seq(ClientMessage)]
           /\ [up EXCEPT ![s] = <<>>] \in [Session -> Seq(ClientMessage)]
<1>1. up \in [Session -> Seq(ClientMessage)]
  BY DEF TypeInv, TypeOK, WireTypeOK
<1> QED BY <1>1, QueueTypes

\* Reading and writing the frames on their way to the client.
LEMMA DownTypes ==
    ASSUME TypeInv, NEW s \in Session
    PROVE  /\ \A m \in ServerMessage : Sent(down, s, m) \in [Session -> Seq(ServerMessage)]
           /\ down[s] # <<>> => /\ Head(down[s]) \in ServerMessage
                                /\ Taken(down, s) \in [Session -> Seq(ServerMessage)]
           /\ [down EXCEPT ![s] = <<>>] \in [Session -> Seq(ServerMessage)]
<1>1. down \in [Session -> Seq(ServerMessage)]
  BY DEF TypeInv, TypeOK, WireTypeOK
<1> QED BY <1>1, QueueTypes

\* Reading and writing the queue of a monitor leader.
LEMMA ReportTypes ==
    ASSUME TypeInv, NEW s \in Session
    PROVE  /\ \A r \in Report : Sent(reports, s, r) \in [Session -> Seq(Report)]
           /\ reports[s] # <<>> => /\ Head(reports[s]) \in Report
                                   /\ Taken(reports, s) \in [Session -> Seq(Report)]
           /\ [reports EXCEPT ![s] = <<>>] \in [Session -> Seq(Report)]
<1>1. reports \in [Session -> Seq(Report)]
  BY DEF TypeInv, TypeOK, ServerTypeOK
<1> QED BY <1>1, QueueTypes

-----------------------------------------------------------------------------
\* The types hold at the start.
LEMMA InitTypes == Init => TypeInv
BY EmptySeq, Numbers, WireAssumption, ClientAssumption
   DEF Init, WireInit, ServerInit, ClientInit, TypeInv, TypeOK, ClientBound, ServerBound,
       WireTypeOK, ServerTypeOK, ClientTypeOK, End, Phase, ClientPhase, NoOne
-----------------------------------------------------------------------------
(* Steps of the network.                                                   *)

\* A reset or a network failure keeps the types.
LEMMA WireTypes ==
    ASSUME TypeInv, WireNext, UNCHANGED <<serverVars, clientVars>>
    PROVE  TypeInv'
<1>1. ServerTypeOK' /\ ClientTypeOK' /\ ClientBound' /\ ServerBound'
  BY DEF serverVars, clientVars, TypeInv, TypeOK, ServerTypeOK, ClientTypeOK, ClientBound, ServerBound
<1>2. ASSUME NEW s \in Session, ResetServerEnd(s) PROVE WireTypeOK'
  BY <1>2, UpTypes, DownTypes DEF ResetServerEnd, TypeInv, TypeOK, WireTypeOK, End
<1>3. ASSUME NEW s \in Session, ResetClientEnd(s) PROVE WireTypeOK'
  BY <1>3, UpTypes, DownTypes DEF ResetClientEnd, TypeInv, TypeOK, WireTypeOK, End
<1>4. ASSUME NEW s \in Session, LinkFails(s) PROVE WireTypeOK'
  BY <1>4, UpTypes, DownTypes DEF LinkFails, TypeInv, TypeOK, WireTypeOK, End
<1> QED BY <1>1, <1>2, <1>3, <1>4 DEF WireNext, TypeInv, TypeOK

-----------------------------------------------------------------------------
(* Steps of the server.                                                    *)

\* A step of the server's tasks keeps the types.
LEMMA ServerTypes ==
    ASSUME TypeInv, ServerNext, UNCHANGED clientVars
    PROVE  TypeInv'
<1>0. ClientTypeOK' /\ ClientBound'
  BY DEF clientVars, TypeInv, TypeOK, ClientTypeOK, ClientBound
<1>1. ASSUME AcceptLoopFails
      PROVE  WireTypeOK' /\ ServerTypeOK' /\ ServerBound'
  <2>1. WireTypeOK'
    BY <1>1 DEF TypeInv, TypeOK, WireTypeOK, End, AcceptLoopFails, serverVars
  <2>2. ServerTypeOK'
    BY <1>1 DEF TypeInv, TypeOK, ServerTypeOK, Phase, AcceptLoopFails, serverVars
  <2>3. ServerBound'
    BY <1>1 DEF TypeInv, TypeOK, ServerTypeOK, ServerBound, AcceptLoopFails, serverVars
  <2> QED BY <2>1, <2>2, <2>3
<1>2. ASSUME NEW s \in Session, OnNewClient(s)
      PROVE  WireTypeOK' /\ ServerTypeOK' /\ ServerBound'
  <2>1. Head(up[s]) \in ClientMessage /\ Taken(up, s) \in [Session -> Seq(ClientMessage)]
    BY <1>2, UpTypes DEF OnNewClient, ServerHears
  <2>2. CASE Head(up[s]).type = "new_client"
    <3>1. /\ up' = Taken(up, s)
          /\ phase' = [phase EXCEPT ![s] = "hello"]
          /\ UNCHANGED <<opened, accepting, cli, srv, down, data, from, usingPorts,
                         portsLock, success, asked, heartbeatOn, ports,
                         hired, monitor, reports, notifying, visitor, host>>
      BY <1>2, <2>2 DEF OnNewClient, ServerHears, registryVars, monitorVars, visitorVars
    <3>2. WireTypeOK'
      BY <3>1, <2>1 DEF TypeInv, TypeOK, WireTypeOK, End
    <3>3. ServerTypeOK'
      BY <3>1, <2>2, <2>1 DEF TypeInv, TypeOK, ServerTypeOK, Phase
    <3>4. ServerBound'
      BY <3>1, <2>2, <2>1 DEF TypeInv, TypeOK, ServerTypeOK, ServerBound
    <3> QED BY <3>2, <3>3, <3>4
  <2>3. CASE ~(Head(up[s]).type = "new_client")
    <3>1. /\ up' = Taken(up, s)
          /\ phase' = [phase EXCEPT ![s] = "done"]
          /\ srv' = [srv EXCEPT ![s] = "closed"]
          /\ UNCHANGED <<opened, accepting, cli, down, data, from, usingPorts,
                         portsLock, success, asked, heartbeatOn, ports,
                         hired, monitor, reports, notifying, visitor, host>>
      BY <1>2, <2>3 DEF OnNewClient, ServerHears, registryVars, monitorVars, visitorVars
    <3>2. WireTypeOK'
      BY <3>1, <2>1 DEF TypeInv, TypeOK, WireTypeOK, End
    <3>3. ServerTypeOK'
      BY <3>1, <2>3, <2>1 DEF TypeInv, TypeOK, ServerTypeOK, Phase
    <3>4. ServerBound'
      BY <3>1, <2>3, <2>1 DEF TypeInv, TypeOK, ServerTypeOK, ServerBound
    <3> QED BY <3>2, <3>3, <3>4
  <2> QED BY <2>2, <2>3
<1>3. ASSUME NEW s \in Session, FirstReadFails(s)
      PROVE  WireTypeOK' /\ ServerTypeOK' /\ ServerBound'
  <2>1. WireTypeOK'
    BY <1>3 DEF TypeInv, TypeOK, WireTypeOK, End, FirstReadFails, registryVars, monitorVars, visitorVars
  <2>2. ServerTypeOK'
    BY <1>3 DEF TypeInv, TypeOK, ServerTypeOK, Phase, FirstReadFails, registryVars, monitorVars, visitorVars
  <2>3. ServerBound'
    BY <1>3 DEF TypeInv, TypeOK, ServerTypeOK, ServerBound, FirstReadFails, registryVars, monitorVars, visitorVars
  <2> QED BY <2>1, <2>2, <2>3
<1>4. ASSUME NEW s \in Session, SendAcceptClient(s)
      PROVE  WireTypeOK' /\ ServerTypeOK' /\ ServerBound'
  <2>1. Sent(down, s, AcceptClient(s)) \in [Session -> Seq(ServerMessage)]
    BY DownTypes, ServerMessages
  <2>2. CASE srv[s] = "open"
    <3>1. /\ down' = Sent(down, s, AcceptClient(s))
          /\ phase' = [phase EXCEPT ![s] = "config"]
          /\ UNCHANGED <<opened, accepting, cli, srv, up, data, from, usingPorts,
                         portsLock, success, asked, heartbeatOn, ports,
                         hired, monitor, reports, notifying, visitor, host>>
      BY <1>4, <2>2 DEF SendAcceptClient, Goes, registryVars, monitorVars, visitorVars
    <3>2. WireTypeOK'
      BY <3>1, <2>1 DEF TypeInv, TypeOK, WireTypeOK, End
    <3>3. ServerTypeOK'
      BY <3>1, <2>2, <2>1 DEF TypeInv, TypeOK, ServerTypeOK, Phase
    <3>4. ServerBound'
      BY <3>1, <2>2, <2>1 DEF TypeInv, TypeOK, ServerTypeOK, ServerBound
    <3> QED BY <3>2, <3>3, <3>4
  <2>3. CASE ~(srv[s] = "open")
    <3>1. /\ phase' = [phase EXCEPT ![s] = "cleanup"]
          /\ UNCHANGED <<opened, accepting, cli, srv, up, down, data, from, usingPorts,
                         portsLock, success, asked, heartbeatOn, ports,
                         hired, monitor, reports, notifying, visitor, host>>
      BY <1>4, <2>3 DEF SendAcceptClient, Goes, registryVars, monitorVars, visitorVars
    <3>2. WireTypeOK'
      BY <3>1, <2>1 DEF TypeInv, TypeOK, WireTypeOK, End
    <3>3. ServerTypeOK'
      BY <3>1, <2>3, <2>1 DEF TypeInv, TypeOK, ServerTypeOK, Phase
    <3>4. ServerBound'
      BY <3>1, <2>3, <2>1 DEF TypeInv, TypeOK, ServerTypeOK, ServerBound
    <3> QED BY <3>2, <3>3, <3>4
  <2> QED BY <2>2, <2>3
<1>5. ASSUME NEW s \in Session, ReadConfig(s)
      PROVE  WireTypeOK' /\ ServerTypeOK' /\ ServerBound'
  <2>1. Head(up[s]) \in ClientMessage /\ Taken(up, s) \in [Session -> Seq(ClientMessage)]
    BY <1>5, UpTypes DEF ReadConfig, ServerHears
  <2>2. Head(up[s]).type = "push_config" =>
         Head(up[s]).ports \in SUBSET Ports /\ Head(up[s]).heartbeat_interval \in BOOLEAN
    BY <2>1, ClientMessages
  <2>3. CASE Head(up[s]).type = "push_config"
    <3>1. /\ up' = Taken(up, s)
          /\ phase' = [phase EXCEPT ![s] = "lock"]
          /\ asked' = [asked EXCEPT ![s] = Head(up[s]).ports]
          /\ heartbeatOn' = [heartbeatOn EXCEPT ![s] = Head(up[s]).heartbeat_interval]
          /\ UNCHANGED <<opened, accepting, cli, srv, down, data, from, usingPorts,
                         portsLock, success, ports, hired, monitor,
                         reports, notifying, visitor, host>>
      BY <1>5, <2>3 DEF ReadConfig, Goes, ServerHears, monitorVars, visitorVars
    <3>2. WireTypeOK'
      BY <3>1, <2>1, <2>2 DEF TypeInv, TypeOK, WireTypeOK, End
    <3>3. ServerTypeOK'
      BY <3>1, <2>3, <2>1, <2>2 DEF TypeInv, TypeOK, ServerTypeOK, Phase
    <3>4. ServerBound'
      BY <3>1, <2>3, <2>1, <2>2 DEF TypeInv, TypeOK, ServerTypeOK, ServerBound
    <3> QED BY <3>2, <3>3, <3>4
  <2>4. CASE ~(Head(up[s]).type = "push_config")
    <3>1. /\ up' = Taken(up, s)
          /\ phase' = [phase EXCEPT ![s] = "cleanup"]
          /\ UNCHANGED <<opened, accepting, cli, srv, down, data, from, usingPorts,
                         portsLock, success, asked, heartbeatOn, ports,
                         hired, monitor, reports, notifying, visitor, host>>
      BY <1>5, <2>4 DEF ReadConfig, Goes, ServerHears, monitorVars, visitorVars
    <3>2. WireTypeOK'
      BY <3>1, <2>1, <2>2 DEF TypeInv, TypeOK, WireTypeOK, End
    <3>3. ServerTypeOK'
      BY <3>1, <2>4, <2>1, <2>2 DEF TypeInv, TypeOK, ServerTypeOK, Phase
    <3>4. ServerBound'
      BY <3>1, <2>4, <2>1, <2>2 DEF TypeInv, TypeOK, ServerTypeOK, ServerBound
    <3> QED BY <3>2, <3>3, <3>4
  <2> QED BY <2>3, <2>4
<1>6. ASSUME NEW s \in Session, AcquirePorts(s)
      PROVE  WireTypeOK' /\ ServerTypeOK' /\ ServerBound'
  <2>1. WireTypeOK'
    BY <1>6 DEF TypeInv, TypeOK, WireTypeOK, End, AcquirePorts, Goes, Vacant, wireVars, monitorVars, visitorVars
  <2>2. ServerTypeOK'
    BY <1>6 DEF TypeInv, TypeOK, ServerTypeOK, Phase, AcquirePorts, Goes, Vacant, wireVars, monitorVars, visitorVars
  <2>3. ServerBound'
    BY <1>6 DEF TypeInv, TypeOK, ServerTypeOK, ServerBound, AcquirePorts, Goes, Vacant, wireVars, monitorVars, visitorVars
  <2> QED BY <2>1, <2>2, <2>3
<1>7. ASSUME NEW s \in Session, WriteReply(s)
      PROVE  WireTypeOK' /\ ServerTypeOK' /\ ServerBound'
  <2>1. success \in SUBSET Ports
    BY DEF TypeInv, TypeOK, ServerTypeOK
  <2>2. Sent(down, s, Reply(s)) \in [Session -> Seq(ServerMessage)]
    BY <2>1, DownTypes, ServerMessages DEF Reply
  <2>3. CASE srv[s] = "open"
    <3>1. /\ portsLock' = NoOne
          /\ success' = {}
          /\ asked' = [asked EXCEPT ![s] = {}]
          /\ phase' = [phase EXCEPT ![s] = "serve"]
          /\ down' = Sent(down, s, Reply(s))
          /\ ports' = [ports EXCEPT ![s] = success]
          /\ hired' = [hired EXCEPT ![s] = success]
          /\ monitor' = [monitor EXCEPT ![s] = [p \in Ports |-> IF p \in success THEN "starting" ELSE @[p]]]
          /\ UNCHANGED <<opened, accepting, cli, srv, up, data, from, usingPorts,
                         heartbeatOn, reports, notifying, visitor, host>>
      BY <1>7, <2>3 DEF WriteReply, Goes, Reply, LockAfterReply, visitorVars
    <3>2. WireTypeOK'
      BY <3>1, <2>1, <2>2 DEF TypeInv, TypeOK, WireTypeOK, End
    <3>3. ServerTypeOK'
      BY <3>1, <2>3, <2>1, <2>2 DEF TypeInv, TypeOK, ServerTypeOK, Phase
    <3>4. ServerBound'
      BY <3>1, <2>3, <2>1, <2>2 DEF TypeInv, TypeOK, ServerTypeOK, ServerBound
    <3> QED BY <3>2, <3>3, <3>4
  <2>4. CASE ~(srv[s] = "open")
    <3>1. /\ portsLock' = NoOne
          /\ success' = {}
          /\ asked' = [asked EXCEPT ![s] = {}]
          /\ phase' = [phase EXCEPT ![s] = "cleanup"]
          /\ UNCHANGED <<opened, accepting, cli, srv, up, down, data, from, usingPorts,
                         heartbeatOn, ports, hired, monitor, reports,
                         notifying, visitor, host>>
      BY <1>7, <2>4 DEF WriteReply, Goes, Reply, LockAfterReply, visitorVars
    <3>2. WireTypeOK'
      BY <3>1, <2>1, <2>2 DEF TypeInv, TypeOK, WireTypeOK, End
    <3>3. ServerTypeOK'
      BY <3>1, <2>4, <2>1, <2>2 DEF TypeInv, TypeOK, ServerTypeOK, Phase
    <3>4. ServerBound'
      BY <3>1, <2>4, <2>1, <2>2 DEF TypeInv, TypeOK, ServerTypeOK, ServerBound
    <3> QED BY <3>2, <3>3, <3>4
  <2> QED BY <2>3, <2>4
<1>8. ASSUME NEW s \in Session, ReadHeartbeat(s)
      PROVE  WireTypeOK' /\ ServerTypeOK' /\ ServerBound'
  <2>1. Head(up[s]) \in ClientMessage /\ Taken(up, s) \in [Session -> Seq(ClientMessage)]
    BY <1>8, UpTypes DEF ReadHeartbeat, ServerHears
  <2>2. WireTypeOK'
    BY <1>8, <2>1 DEF TypeInv, TypeOK, WireTypeOK, End, ReadHeartbeat, ServerHears, serverVars
  <2>3. ServerTypeOK'
    BY <1>8, <2>1 DEF TypeInv, TypeOK, ServerTypeOK, Phase, ReadHeartbeat, ServerHears, serverVars
  <2>4. ServerBound'
    BY <1>8, <2>1 DEF TypeInv, TypeOK, ServerTypeOK, ServerBound, ReadHeartbeat, ServerHears, serverVars
  <2> QED BY <2>2, <2>3, <2>4
<1>9. ASSUME NEW s \in Session, HeartbeatTimeout(s)
      PROVE  WireTypeOK' /\ ServerTypeOK' /\ ServerBound'
  <2>1. WireTypeOK'
    BY <1>9 DEF TypeInv, TypeOK, WireTypeOK, End, HeartbeatTimeout, Goes, wireVars, registryVars, monitorVars, visitorVars
  <2>2. ServerTypeOK'
    BY <1>9 DEF TypeInv, TypeOK, ServerTypeOK, Phase, HeartbeatTimeout, Goes, wireVars, registryVars, monitorVars, visitorVars
  <2>3. ServerBound'
    BY <1>9 DEF TypeInv, TypeOK, ServerTypeOK, ServerBound, HeartbeatTimeout, Goes, wireVars, registryVars, monitorVars, visitorVars
  <2> QED BY <2>1, <2>2, <2>3
<1>10. ASSUME NEW s \in Session, ReadFails(s)
      PROVE  WireTypeOK' /\ ServerTypeOK' /\ ServerBound'
  <2>1. WireTypeOK'
    BY <1>10 DEF TypeInv, TypeOK, WireTypeOK, End, ReadFails, Goes, wireVars, registryVars, monitorVars, visitorVars
  <2>2. ServerTypeOK'
    BY <1>10 DEF TypeInv, TypeOK, ServerTypeOK, Phase, ReadFails, Goes, wireVars, registryVars, monitorVars, visitorVars
  <2>3. ServerBound'
    BY <1>10 DEF TypeInv, TypeOK, ServerTypeOK, ServerBound, ReadFails, Goes, wireVars, registryVars, monitorVars, visitorVars
  <2> QED BY <2>1, <2>2, <2>3
<1>11. ASSUME NEW s \in Session, TakeReport(s)
      PROVE  WireTypeOK' /\ ServerTypeOK' /\ ServerBound'
  <2>1. Head(reports[s]) \in Report /\ Taken(reports, s) \in [Session -> Seq(Report)]
    BY <1>11, ReportTypes DEF TakeReport
  <2>2. Head(reports[s]).report = "new" => Head(reports[s]).visitor \in Visitors
    BY <2>1, Reports
  <2>3. CASE Head(reports[s]).report = "new"
    <3>1. /\ reports' = Taken(reports, s)
          /\ phase' = [phase EXCEPT ![s] = "notify"]
          /\ visitor' = [visitor EXCEPT ![Head(reports[s]).visitor] = "waiting"]
          /\ notifying' = [notifying EXCEPT ![s] = Head(reports[s]).visitor]
          /\ UNCHANGED <<opened, accepting, cli, srv, up, down, data, from, usingPorts,
                         portsLock, success, asked, heartbeatOn, ports,
                         hired, monitor, host>>
      BY <1>11, <2>3 DEF TakeReport, Goes, wireVars, registryVars
    <3>2. WireTypeOK'
      BY <3>1, <2>1, <2>2 DEF TypeInv, TypeOK, WireTypeOK, End
    <3>3. ServerTypeOK'
      BY <3>1, <2>3, <2>1, <2>2 DEF TypeInv, TypeOK, ServerTypeOK, Phase
    <3>4. ServerBound'
      BY <3>1, <2>3, <2>1, <2>2 DEF TypeInv, TypeOK, ServerTypeOK, ServerBound
    <3> QED BY <3>2, <3>3, <3>4
  <2>4. CASE ~(Head(reports[s]).report = "new")
    <3>1. /\ reports' = Taken(reports, s)
          /\ hired' = [hired EXCEPT ![s] = @ \ {Head(reports[s]).port}]
          /\ UNCHANGED <<opened, accepting, cli, srv, up, down, data, from, phase,
                         usingPorts, portsLock, success, asked,
                         heartbeatOn, ports, monitor, notifying, visitor,
                         host>>
      BY <1>11, <2>4 DEF TakeReport, Goes, wireVars, registryVars
    <3>2. WireTypeOK'
      BY <3>1, <2>1, <2>2 DEF TypeInv, TypeOK, WireTypeOK, End
    <3>3. ServerTypeOK'
      BY <3>1, <2>4, <2>1, <2>2 DEF TypeInv, TypeOK, ServerTypeOK, Phase
    <3>4. ServerBound'
      BY <3>1, <2>4, <2>1, <2>2 DEF TypeInv, TypeOK, ServerTypeOK, ServerBound
    <3> QED BY <3>2, <3>3, <3>4
  <2> QED BY <2>3, <2>4
<1>12. ASSUME NEW s \in Session, NotifyClient(s)
      PROVE  WireTypeOK' /\ ServerTypeOK' /\ ServerBound'
  <2>1. notifying[s] \in Visitors /\ PortOf[notifying[s]] \in Ports
    BY <1>12, WireAssumption DEF NotifyClient, TypeInv, ServerBound
  <2>2. Sent(down, s, NewChannel(PortOf[notifying[s]], notifying[s])) \in [Session -> Seq(ServerMessage)]
    BY <2>1, DownTypes, ServerMessages
  <2>3. CASE srv[s] = "open"
    <3>1. /\ notifying' = [notifying EXCEPT ![s] = NoVisitor]
          /\ phase' = [phase EXCEPT ![s] = "serve"]
          /\ down' = Sent(down, s, NewChannel(PortOf[notifying[s]], notifying[s]))
          /\ UNCHANGED <<opened, accepting, cli, srv, up, data, from, usingPorts,
                         portsLock, success, asked, heartbeatOn, ports,
                         hired, monitor, reports, visitor, host>>
      BY <1>12, <2>3 DEF NotifyClient, Goes, registryVars, monitorVars
    <3>2. WireTypeOK'
      BY <3>1, <2>1, <2>2 DEF TypeInv, TypeOK, WireTypeOK, End
    <3>3. ServerTypeOK'
      BY <3>1, <2>3, <2>1, <2>2 DEF TypeInv, TypeOK, ServerTypeOK, Phase
    <3>4. ServerBound'
      BY <3>1, <2>3, <2>1, <2>2 DEF TypeInv, TypeOK, ServerTypeOK, ServerBound
    <3> QED BY <3>2, <3>3, <3>4
  <2>4. CASE ~(srv[s] = "open")
    <3>1. /\ notifying' = [notifying EXCEPT ![s] = NoVisitor]
          /\ phase' = [phase EXCEPT ![s] = "cleanup"]
          /\ UNCHANGED <<opened, accepting, cli, srv, up, down, data, from, usingPorts,
                         portsLock, success, asked, heartbeatOn, ports,
                         hired, monitor, reports, visitor, host>>
      BY <1>12, <2>4 DEF NotifyClient, Goes, registryVars, monitorVars
    <3>2. WireTypeOK'
      BY <3>1, <2>1, <2>2 DEF TypeInv, TypeOK, WireTypeOK, End
    <3>3. ServerTypeOK'
      BY <3>1, <2>4, <2>1, <2>2 DEF TypeInv, TypeOK, ServerTypeOK, Phase
    <3>4. ServerBound'
      BY <3>1, <2>4, <2>1, <2>2 DEF TypeInv, TypeOK, ServerTypeOK, ServerBound
    <3> QED BY <3>2, <3>3, <3>4
  <2> QED BY <2>3, <2>4
<1>13. ASSUME NEW s \in Session, Cleanup(s)
      PROVE  WireTypeOK' /\ ServerTypeOK' /\ ServerBound'
  <2>1. WireTypeOK'
    BY <1>13 DEF TypeInv, TypeOK, WireTypeOK, End, Cleanup, Goes, Retained
  <2>2. ServerTypeOK'
    BY <1>13 DEF TypeInv, TypeOK, ServerTypeOK, Phase, Cleanup, Goes, Retained
  <2>3. ServerBound'
    BY <1>13 DEF TypeInv, TypeOK, ServerTypeOK, ServerBound, Cleanup, Goes, Retained
  <2> QED BY <2>1, <2>2, <2>3
<1>14. ASSUME NEW s \in Session, NEW p \in Ports, Bind(s, p)
      PROVE  WireTypeOK' /\ ServerTypeOK' /\ ServerBound'
  <2>1. Sent(reports, s, Error(p)) \in [Session -> Seq(Report)]
    BY ReportTypes, Reports
  <2>2. CASE CanBind(p)
    <3>1. /\ monitor' = [monitor EXCEPT ![s] = [@ EXCEPT ![p] = "listening"]]
          /\ UNCHANGED <<opened, accepting, cli, srv, up, down, data, from, phase,
                         usingPorts, portsLock, success, asked,
                         heartbeatOn, ports, hired, reports, notifying,
                         visitor, host>>
      BY <1>14, <2>2 DEF Bind, Dies, wireVars, registryVars, visitorVars
    <3>2. WireTypeOK'
      BY <3>1, <2>1 DEF TypeInv, TypeOK, WireTypeOK, End
    <3>3. ServerTypeOK'
      BY <3>1, <2>2, <2>1 DEF TypeInv, TypeOK, ServerTypeOK, Phase
    <3>4. ServerBound'
      BY <3>1, <2>2, <2>1 DEF TypeInv, TypeOK, ServerTypeOK, ServerBound
    <3> QED BY <3>2, <3>3, <3>4
  <2>3. CASE ~(CanBind(p))
    <3>1. /\ monitor' = [monitor EXCEPT ![s] = [@ EXCEPT ![p] = "dead"]]
          /\ reports' = reports \/ reports' = Sent(reports, s, Error(p))
          /\ UNCHANGED <<opened, accepting, cli, srv, up, down, data, from, phase,
                         usingPorts, portsLock, success, asked,
                         heartbeatOn, ports, hired, notifying, visitor,
                         host>>
      BY <1>14, <2>3 DEF Bind, Dies, wireVars, registryVars, visitorVars
    <3>2. WireTypeOK'
      BY <3>1, <2>1 DEF TypeInv, TypeOK, WireTypeOK, End
    <3>3. ServerTypeOK'
      BY <3>1, <2>3, <2>1 DEF TypeInv, TypeOK, ServerTypeOK, Phase
    <3>4. ServerBound'
      BY <3>1, <2>3, <2>1 DEF TypeInv, TypeOK, ServerTypeOK, ServerBound
    <3> QED BY <3>2, <3>3, <3>4
  <2> QED BY <2>2, <2>3
<1>15. ASSUME NEW s \in Session, NEW p \in Ports, MonitorFails(s, p)
      PROVE  WireTypeOK' /\ ServerTypeOK' /\ ServerBound'
  <2>1. Sent(reports, s, Error(p)) \in [Session -> Seq(Report)]
    BY ReportTypes, Reports
  <2>2. WireTypeOK'
    BY <1>15, <2>1 DEF TypeInv, TypeOK, WireTypeOK, End, MonitorFails, Dies, wireVars, registryVars, visitorVars
  <2>3. ServerTypeOK'
    BY <1>15, <2>1 DEF TypeInv, TypeOK, ServerTypeOK, Phase, MonitorFails, Dies, wireVars, registryVars, visitorVars
  <2>4. ServerBound'
    BY <1>15, <2>1 DEF TypeInv, TypeOK, ServerTypeOK, ServerBound, MonitorFails, Dies, wireVars, registryVars, visitorVars
  <2> QED BY <2>2, <2>3, <2>4
<1>16. ASSUME NEW s \in Session, NEW p \in Ports, MonitorStops(s, p)
      PROVE  WireTypeOK' /\ ServerTypeOK' /\ ServerBound'
  <2>1. WireTypeOK'
    BY <1>16 DEF TypeInv, TypeOK, WireTypeOK, End, MonitorStops, wireVars, registryVars, visitorVars
  <2>2. ServerTypeOK'
    BY <1>16 DEF TypeInv, TypeOK, ServerTypeOK, Phase, MonitorStops, wireVars, registryVars, visitorVars
  <2>3. ServerBound'
    BY <1>16 DEF TypeInv, TypeOK, ServerTypeOK, ServerBound, MonitorStops, wireVars, registryVars, visitorVars
  <2> QED BY <2>1, <2>2, <2>3
<1>17. ASSUME NEW s \in Session, NEW v \in Visitors, ServerMsg(s, v)
      PROVE  WireTypeOK' /\ ServerTypeOK' /\ ServerBound'
  <2>1. WireTypeOK'
    BY <1>17 DEF TypeInv, TypeOK, WireTypeOK, End, ServerMsg, serverVars
  <2>2. ServerTypeOK'
    BY <1>17 DEF TypeInv, TypeOK, ServerTypeOK, Phase, ServerMsg, serverVars
  <2>3. ServerBound'
    BY <1>17 DEF TypeInv, TypeOK, ServerTypeOK, ServerBound, ServerMsg, serverVars
  <2> QED BY <2>1, <2>2, <2>3
<1>18. ASSUME NEW s \in Session, NEW v \in Visitors, MonitorAccepts(s, v)
      PROVE  WireTypeOK' /\ ServerTypeOK' /\ ServerBound'
  <2>1. Sent(reports, s, New(v)) \in [Session -> Seq(Report)]
    BY ReportTypes, Reports
  <2>2. PortOf[v] \in Ports
    BY WireAssumption
  <2>3. CASE HasController(s)
    <3>1. /\ visitor' = [visitor EXCEPT ![v] = "reported"]
          /\ host' = [host EXCEPT ![v] = s]
          /\ reports' = Sent(reports, s, New(v))
          /\ UNCHANGED <<opened, accepting, cli, srv, up, down, data, from, phase,
                         usingPorts, portsLock, success, asked,
                         heartbeatOn, ports, hired, monitor, notifying>>
      BY <1>18, <2>3 DEF MonitorAccepts, wireVars, registryVars
    <3>2. WireTypeOK'
      BY <3>1, <2>1, <2>2 DEF TypeInv, TypeOK, WireTypeOK, End
    <3>3. ServerTypeOK'
      BY <3>1, <2>3, <2>1, <2>2 DEF TypeInv, TypeOK, ServerTypeOK, Phase
    <3>4. ServerBound'
      BY <3>1, <2>3, <2>1, <2>2 DEF TypeInv, TypeOK, ServerTypeOK, ServerBound
    <3> QED BY <3>2, <3>3, <3>4
  <2>4. CASE ~(HasController(s))
    <3>1. /\ visitor' = [visitor EXCEPT ![v] = "closed"]
          /\ monitor' = [monitor EXCEPT ![s] = [@ EXCEPT ![PortOf[v]] = "dead"]]
          /\ UNCHANGED <<opened, accepting, cli, srv, up, down, data, from, phase,
                         usingPorts, portsLock, success, asked,
                         heartbeatOn, ports, hired, reports, notifying,
                         host>>
      BY <1>18, <2>4 DEF MonitorAccepts, wireVars, registryVars
    <3>2. WireTypeOK'
      BY <3>1, <2>1, <2>2 DEF TypeInv, TypeOK, WireTypeOK, End
    <3>3. ServerTypeOK'
      BY <3>1, <2>4, <2>1, <2>2 DEF TypeInv, TypeOK, ServerTypeOK, Phase
    <3>4. ServerBound'
      BY <3>1, <2>4, <2>1, <2>2 DEF TypeInv, TypeOK, ServerTypeOK, ServerBound
    <3> QED BY <3>2, <3>3, <3>4
  <2> QED BY <2>3, <2>4
<1>19. ASSUME NEW v \in Visitors, OnAcceptChannel(v)
      PROVE  WireTypeOK' /\ ServerTypeOK' /\ ServerBound'
  <2>1. WireTypeOK'
    BY <1>19 DEF TypeInv, TypeOK, WireTypeOK, End, OnAcceptChannel, serverVars
  <2>2. ServerTypeOK'
    BY <1>19 DEF TypeInv, TypeOK, ServerTypeOK, Phase, OnAcceptChannel, serverVars
  <2>3. ServerBound'
    BY <1>19 DEF TypeInv, TypeOK, ServerTypeOK, ServerBound, OnAcceptChannel, serverVars
  <2> QED BY <2>1, <2>2, <2>3
<1>20. ASSUME NEW v \in Visitors, MakeChannel(v)
      PROVE  WireTypeOK' /\ ServerTypeOK' /\ ServerBound'
  <2>1. CASE v \in PendingSockets(from[v])
    <3>1. /\ data' = [data EXCEPT ![v] = "joined"]
          /\ visitor' = [visitor EXCEPT ![v] = "joined"]
          /\ UNCHANGED <<opened, accepting, cli, srv, up, down, from, phase, usingPorts,
                         portsLock, success, asked, heartbeatOn, ports,
                         hired, monitor, reports, notifying, host>>
      BY <1>20, <2>1 DEF MakeChannel, registryVars, monitorVars
    <3>2. WireTypeOK'
      BY <3>1 DEF TypeInv, TypeOK, WireTypeOK, End
    <3>3. ServerTypeOK'
      BY <3>1, <2>1 DEF TypeInv, TypeOK, ServerTypeOK, Phase
    <3>4. ServerBound'
      BY <3>1, <2>1 DEF TypeInv, TypeOK, ServerTypeOK, ServerBound
    <3> QED BY <3>2, <3>3, <3>4
  <2>2. CASE ~(v \in PendingSockets(from[v]))
    <3>1. /\ data' = [data EXCEPT ![v] = "gone"]
          /\ UNCHANGED <<opened, accepting, cli, srv, up, down, from, phase, usingPorts,
                         portsLock, success, asked, heartbeatOn, ports,
                         hired, monitor, reports, notifying, visitor, host>>
      BY <1>20, <2>2 DEF MakeChannel, registryVars, monitorVars
    <3>2. WireTypeOK'
      BY <3>1 DEF TypeInv, TypeOK, WireTypeOK, End
    <3>3. ServerTypeOK'
      BY <3>1, <2>2 DEF TypeInv, TypeOK, ServerTypeOK, Phase
    <3>4. ServerBound'
      BY <3>1, <2>2 DEF TypeInv, TypeOK, ServerTypeOK, ServerBound
    <3> QED BY <3>2, <3>3, <3>4
  <2> QED BY <2>1, <2>2
<1>21. ASSUME NEW v \in Visitors, PendingTimeout(v)
      PROVE  WireTypeOK' /\ ServerTypeOK' /\ ServerBound'
  <2>1. WireTypeOK'
    BY <1>21 DEF TypeInv, TypeOK, WireTypeOK, End, PendingTimeout, Due, wireVars, registryVars, monitorVars
  <2>2. ServerTypeOK'
    BY <1>21 DEF TypeInv, TypeOK, ServerTypeOK, Phase, PendingTimeout, Due, wireVars, registryVars, monitorVars
  <2>3. ServerBound'
    BY <1>21 DEF TypeInv, TypeOK, ServerTypeOK, ServerBound, PendingTimeout, Due, wireVars, registryVars, monitorVars
  <2> QED BY <2>1, <2>2, <2>3
<1>22. ASSUME NEW v \in Visitors, RelayEnds(v)
      PROVE  WireTypeOK' /\ ServerTypeOK' /\ ServerBound'
  <2>1. WireTypeOK'
    BY <1>22 DEF TypeInv, TypeOK, WireTypeOK, End, RelayEnds, registryVars, monitorVars
  <2>2. ServerTypeOK'
    BY <1>22 DEF TypeInv, TypeOK, ServerTypeOK, Phase, RelayEnds, registryVars, monitorVars
  <2>3. ServerBound'
    BY <1>22 DEF TypeInv, TypeOK, ServerTypeOK, ServerBound, RelayEnds, registryVars, monitorVars
  <2> QED BY <2>1, <2>2, <2>3
<1> QED BY <1>0, <1>1, <1>2, <1>3, <1>4, <1>5, <1>6, <1>7, <1>8, <1>9, <1>10, <1>11, <1>12, <1>13, <1>14, <1>15, <1>16, <1>17, <1>18, <1>19, <1>20, <1>21, <1>22 DEF ServerNext, TypeInv, TypeOK

-----------------------------------------------------------------------------
(* Steps of the clients.                                                   *)

\* The end of a session keeps the types of what it changes: a session ends
\* where the client has a connection, and a retry starts with tries left.
LEMMA Ends ==
    ASSUME TypeInv, NEW c \in Clients, SessionEnds(c), conn' = conn, conn[c] \in Session
    PROVE  /\ cli' \in [Session -> End]
           /\ cphase' \in [Clients -> ClientPhase]
           /\ tries' \in [Clients -> Nat]
           /\ ClientBound'
<1>1. /\ cli \in [Session -> End] /\ cphase \in [Clients -> ClientPhase]
      /\ tries \in [Clients -> Nat] /\ conn \in [Clients -> Session \cup {NoOne}]
      /\ RetryTimes[c] \in Nat /\ ClientBound
  BY ClientAssumption DEF TypeInv, TypeOK, WireTypeOK, ClientTypeOK
<1>2. CASE Retries(c)
  <2>1. /\ cphase' = [cphase EXCEPT ![c] = "retry"]
        /\ tries' = [tries EXCEPT ![c] = RetryTimes[c]]
        /\ cli' = cli /\ RetryTimes[c] >= 1
    BY <1>1, <1>2 DEF SessionEnds, Steps, Retries
  <2> QED BY <1>1, <2>1 DEF ClientPhase, ClientBound
<1>3. CASE ~Retries(c)
  <2>1. /\ cphase' = [cphase EXCEPT ![c] = "down"]
        /\ tries' = tries
        /\ cli' = Dropped(c)
    BY <1>3 DEF SessionEnds, Steps
  <2> QED BY <1>1, <2>1 DEF ClientPhase, ClientBound, Dropped, End
<1> QED BY <1>2, <1>3

\* A write of a frame keeps the types.
LEMMA WriteTypes ==
    ASSUME TypeInv, NEW c \in Clients, NEW msg \in ClientMessage,
           NEW next \in {"id", "config", "run"},
           cphase[c] \in {"hello", "push", "run"}, Writes(c, msg, next)
    PROVE  WireTypeOK' /\ ClientTypeOK' /\ ClientBound'
<1>1. conn[c] \in Session
  BY DEF TypeInv, ClientBound
<1>2. UNCHANGED <<opened, accepting, srv, down, data, from, conn, id, links, owner>>
  BY DEF Writes
<1>3. CASE cli[conn[c]] = "open"
  <2>1. up' = Sent(up, conn[c], msg) /\ cphase' = [cphase EXCEPT ![c] = next]
        /\ UNCHANGED <<cli, tries>>
    BY <1>3 DEF Writes, Steps
  <2>2. up' \in [Session -> Seq(ClientMessage)]
    BY <1>1, <2>1, UpTypes
  <2>3. WireTypeOK'
    BY <1>2, <2>1, <2>2 DEF TypeInv, TypeOK, WireTypeOK
  <2>4. ClientTypeOK'
    BY <1>2, <2>1 DEF TypeInv, TypeOK, ClientTypeOK, ClientPhase
  <2>5. ClientBound'
    BY <1>1, <1>2, <2>1 DEF TypeInv, TypeOK, ClientTypeOK, ClientBound
  <2> QED BY <2>3, <2>4, <2>5
<1>4. CASE cli[conn[c]] # "open"
  <2>1. SessionEnds(c) /\ up' = up
    BY <1>4 DEF Writes
  <2>2. /\ cli' \in [Session -> End] /\ cphase' \in [Clients -> ClientPhase]
        /\ tries' \in [Clients -> Nat] /\ ClientBound'
    BY <1>1, <1>2, <2>1, Ends
  <2> QED BY <1>2, <2>1, <2>2 DEF TypeInv, TypeOK, WireTypeOK, ClientTypeOK
<1> QED BY <1>3, <1>4

\* A new connection keeps the types.
LEMMA DialTypes ==
    ASSUME TypeInv, NEW c \in Clients, Dial(c)
    PROVE  WireTypeOK' /\ ClientTypeOK' /\ ClientBound'
<1>1. opened + 1 \in Session /\ opened' \in 0..MaxSessions
  BY Numbers DEF Dial, TypeInv, TypeOK, WireTypeOK
<1>2. WireTypeOK'
  BY <1>1 DEF Dial, Dropped, TypeInv, TypeOK, WireTypeOK, End
<1>3. ClientTypeOK'
  BY <1>1 DEF Dial, Steps, TypeInv, TypeOK, ClientTypeOK, ClientPhase
<1>4. ClientBound'
  BY <1>1 DEF Dial, Steps, TypeInv, TypeOK, ClientTypeOK, ClientBound
<1> QED BY <1>2, <1>3, <1>4

\* A step of the clients' tasks keeps the types.
LEMMA ClientTypes ==
    ASSUME TypeInv, ClientNext, UNCHANGED serverVars
    PROVE  TypeInv'
<1>0. ServerTypeOK' /\ ServerBound'
  BY DEF serverVars, TypeInv, TypeOK, ServerTypeOK, ServerBound
<1>1. ASSUME NEW c \in Clients, Connect(c) \/ Reconnect(c)
      PROVE  WireTypeOK' /\ ClientTypeOK' /\ ClientBound'
  BY <1>1, DialTypes DEF Connect, Reconnect
<1>2. ASSUME NEW c \in Clients, ConnectFails(c)
      PROVE  WireTypeOK' /\ ClientTypeOK' /\ ClientBound'
  <2>1. WireTypeOK'
    BY <1>2 DEF ConnectFails, wireVars, TypeInv, TypeOK, WireTypeOK
  <2>2. ClientTypeOK' /\ ClientBound'
    BY <1>2 DEF ConnectFails, Steps, TypeInv, TypeOK, ClientTypeOK, ClientPhase, ClientBound
  <2> QED BY <2>1, <2>2
<1>3. ASSUME NEW c \in Clients, ReconnectFails(c)
      PROVE  WireTypeOK' /\ ClientTypeOK' /\ ClientBound'
  <2>1. tries[c] \in Nat \ {0} /\ conn[c] \in Session
    BY <1>3 DEF ReconnectFails, TypeInv, TypeOK, ClientTypeOK, ClientBound
  <2>2. /\ tries' = [tries EXCEPT ![c] = @ - 1]
        /\ UNCHANGED <<opened, accepting, srv, up, down, data, from, conn, id, links, owner>>
    BY <1>3 DEF ReconnectFails
  <2>3. CASE tries[c] = 1
    <3>1. cphase' = [cphase EXCEPT ![c] = "down"] /\ cli' = Dropped(c)
      BY <1>3, <2>3 DEF ReconnectFails, Steps
    <3>2. WireTypeOK'
      BY <2>1, <2>2, <3>1 DEF Dropped, TypeInv, TypeOK, WireTypeOK, End
    <3>3. ClientTypeOK'
      BY <2>1, <2>2, <3>1 DEF TypeInv, TypeOK, ClientTypeOK, ClientPhase
    <3>4. ClientBound'
      BY <2>1, <2>2, <3>1 DEF TypeInv, TypeOK, ClientTypeOK, ClientBound
    <3> QED BY <3>2, <3>3, <3>4
  <2>4. CASE tries[c] # 1
    <3>1. UNCHANGED <<cphase, cli>>
      BY <1>3, <2>4 DEF ReconnectFails
    <3>2. WireTypeOK'
      BY <2>2, <3>1 DEF TypeInv, TypeOK, WireTypeOK
    <3>3. ClientTypeOK'
      BY <2>1, <2>2, <3>1 DEF TypeInv, TypeOK, ClientTypeOK
    <3>4. ClientBound'
      BY <2>1, <2>2, <2>4, <3>1 DEF TypeInv, TypeOK, ClientTypeOK, ClientBound
    <3> QED BY <3>2, <3>3, <3>4
  <2> QED BY <2>3, <2>4
<1>4. ASSUME NEW c \in Clients, SendNewClient(c)
      PROVE  WireTypeOK' /\ ClientTypeOK' /\ ClientBound'
  BY <1>4, WriteTypes, ClientMessages DEF SendNewClient
<1>5. ASSUME NEW c \in Clients, SendPushConfig(c)
      PROVE  WireTypeOK' /\ ClientTypeOK' /\ ClientBound'
  <2>1. links[c] \in SUBSET Ports /\ (c \in Heartbeating) \in BOOLEAN
    BY DEF TypeInv, TypeOK, ClientTypeOK
  <2>2. PushConfig(links[c], c \in Heartbeating) \in ClientMessage
    BY <2>1, ClientMessages
  <2> QED BY <1>5, <2>2, WriteTypes DEF SendPushConfig
<1>6. ASSUME NEW c \in Clients, SendHeartbeat(c)
      PROVE  WireTypeOK' /\ ClientTypeOK' /\ ClientBound'
  BY <1>6, WriteTypes, ClientMessages DEF SendHeartbeat
<1>7. ASSUME NEW c \in Clients, SessionReadFails(c)
      PROVE  WireTypeOK' /\ ClientTypeOK' /\ ClientBound'
  <2>1. conn[c] \in Session
    BY <1>7 DEF SessionReadFails, TypeInv, ClientBound
  <2>2. /\ cli' \in [Session -> End] /\ cphase' \in [Clients -> ClientPhase]
        /\ tries' \in [Clients -> Nat] /\ ClientBound'
    BY <1>7, <2>1, Ends DEF SessionReadFails
  <2> QED BY <1>7, <2>2 DEF SessionReadFails, TypeInv, TypeOK, WireTypeOK, ClientTypeOK
<1>8. ASSUME NEW c \in Clients, RecvAcceptClient(c)
      PROVE  WireTypeOK' /\ ClientTypeOK' /\ ClientBound'
  <2> DEFINE msg == Head(down[conn[c]])
  <2>1. conn[c] \in Session /\ down[conn[c]] # <<>>
    BY <1>8 DEF RecvAcceptClient, ClientHears, TypeInv, ClientBound
  <2>2. msg \in ServerMessage /\ Taken(down, conn[c]) \in [Session -> Seq(ServerMessage)]
    BY <2>1, DownTypes
  <2>3. /\ down' = Taken(down, conn[c])
        /\ UNCHANGED <<opened, accepting, srv, up, data, from, conn, links, owner>>
    BY <1>8 DEF RecvAcceptClient
  <2>4. CASE msg.type = "accept_client"
    <3>1. /\ id' = [id EXCEPT ![c] = msg.id] /\ cphase' = [cphase EXCEPT ![c] = "push"]
          /\ UNCHANGED <<cli, tries>>
      BY <1>8, <2>4 DEF RecvAcceptClient, NewId, Steps
    <3>2. msg.id \in Session
      BY <2>2, <2>4, ServerMessages
    <3>3. WireTypeOK'
      BY <2>2, <2>3, <3>1 DEF TypeInv, TypeOK, WireTypeOK
    <3>4. ClientTypeOK'
      BY <2>3, <3>1, <3>2 DEF TypeInv, TypeOK, ClientTypeOK, ClientPhase
    <3>5. ClientBound'
      BY <2>1, <2>3, <3>1 DEF TypeInv, TypeOK, ClientTypeOK, ClientBound
    <3> QED BY <3>3, <3>4, <3>5
  <2>5. CASE msg.type # "accept_client"
    <3>1. SessionEnds(c) /\ id' = id
      BY <1>8, <2>5 DEF RecvAcceptClient
    <3>2. /\ cli' \in [Session -> End] /\ cphase' \in [Clients -> ClientPhase]
          /\ tries' \in [Clients -> Nat] /\ ClientBound'
      BY <2>1, <2>3, <3>1, Ends
    <3> QED BY <2>2, <2>3, <3>1, <3>2 DEF TypeInv, TypeOK, WireTypeOK, ClientTypeOK
  <2> QED BY <2>4, <2>5
<1>9. ASSUME NEW c \in Clients, RecvAcceptConfig(c)
      PROVE  WireTypeOK' /\ ClientTypeOK' /\ ClientBound'
  <2> DEFINE msg == Head(down[conn[c]])
  <2>1. conn[c] \in Session /\ down[conn[c]] # <<>>
    BY <1>9 DEF RecvAcceptConfig, ClientHears, TypeInv, ClientBound
  <2>2. Taken(down, conn[c]) \in [Session -> Seq(ServerMessage)]
    BY <2>1, DownTypes
  <2>3. /\ down' = Taken(down, conn[c])
        /\ UNCHANGED <<opened, accepting, srv, up, data, from, conn, id, owner>>
    BY <1>9 DEF RecvAcceptConfig
  <2>4. CASE Tolerates(c, msg)
    <3>1. /\ links' = [links EXCEPT ![c] = Kept(c, msg)]
          /\ cphase' = [cphase EXCEPT ![c] = "run"]
          /\ UNCHANGED <<cli, tries>>
      BY <1>9, <2>4 DEF RecvAcceptConfig, Steps
    <3>2. Kept(c, msg) \in SUBSET Ports
      BY DEF Kept, TypeInv, TypeOK, ClientTypeOK
    <3>3. WireTypeOK'
      BY <2>2, <2>3, <3>1 DEF TypeInv, TypeOK, WireTypeOK
    <3>4. ClientTypeOK'
      BY <2>3, <3>1, <3>2 DEF TypeInv, TypeOK, ClientTypeOK, ClientPhase
    <3>5. ClientBound'
      BY <2>1, <2>3, <3>1 DEF TypeInv, TypeOK, ClientTypeOK, ClientBound
    <3> QED BY <3>3, <3>4, <3>5
  <2>5. CASE ~Tolerates(c, msg)
    <3>1. SessionEnds(c) /\ links' = links
      BY <1>9, <2>5 DEF RecvAcceptConfig
    <3>2. /\ cli' \in [Session -> End] /\ cphase' \in [Clients -> ClientPhase]
          /\ tries' \in [Clients -> Nat] /\ ClientBound'
      BY <2>1, <2>3, <3>1, Ends
    <3> QED BY <2>2, <2>3, <3>1, <3>2 DEF TypeInv, TypeOK, WireTypeOK, ClientTypeOK
  <2> QED BY <2>4, <2>5
<1>10. ASSUME NEW c \in Clients, RecvNewChannel(c)
       PROVE  WireTypeOK' /\ ClientTypeOK' /\ ClientBound'
  <2> DEFINE msg == Head(down[conn[c]])
  <2>1. conn[c] \in Session /\ down[conn[c]] # <<>>
    BY <1>10 DEF RecvNewChannel, ClientHears, TypeInv, ClientBound
  <2>2. msg \in ServerMessage /\ Taken(down, conn[c]) \in [Session -> Seq(ServerMessage)]
    BY <2>1, DownTypes
  <2>3. /\ down' = Taken(down, conn[c])
        /\ UNCHANGED <<opened, accepting, srv, up, conn, id, links, tries, owner>>
    BY <1>10 DEF RecvNewChannel
  <2>4. CASE msg.type = "new_channel"
    <3>1. /\ \/ /\ data' = [data EXCEPT ![msg.number] = "dialing"]
                /\ from' = [from EXCEPT ![msg.number] = id[c]]
             \/ UNCHANGED <<data, from>>
          /\ UNCHANGED <<cphase, cli>>
      BY <1>10, <2>4 DEF RecvNewChannel
    <3>2. msg.number \in Visitors /\ id[c] \in Session \cup {NoOne}
      BY <2>2, <2>4, ServerMessages DEF TypeInv, TypeOK, ClientTypeOK
    <3>3. WireTypeOK'
      BY <2>2, <2>3, <3>1, <3>2 DEF TypeInv, TypeOK, WireTypeOK
    <3> QED BY <2>3, <3>1, <3>3 DEF TypeInv, TypeOK, ClientTypeOK, ClientBound
  <2>5. CASE msg.type # "new_channel"
    <3>1. /\ cphase' = [cphase EXCEPT ![c] = "down"] /\ cli' = Dropped(c)
          /\ UNCHANGED <<data, from>>
      BY <1>10, <2>5 DEF RecvNewChannel, Steps
    <3>2. WireTypeOK'
      BY <2>1, <2>2, <2>3, <3>1 DEF Dropped, TypeInv, TypeOK, WireTypeOK, End
    <3>3. ClientTypeOK' /\ ClientBound'
      BY <2>3, <3>1 DEF TypeInv, TypeOK, ClientTypeOK, ClientPhase, ClientBound
    <3> QED BY <3>2, <3>3
  <2> QED BY <2>4, <2>5
<1>11. ASSUME NEW c \in Clients, Stop(c)
       PROVE  WireTypeOK' /\ ClientTypeOK' /\ ClientBound'
  <2>1. WireTypeOK'
    BY <1>11 DEF Stop, Dropped, TypeInv, TypeOK, WireTypeOK, ClientTypeOK, End
  <2>2. ClientTypeOK' /\ ClientBound'
    BY <1>11 DEF Stop, Steps, TypeInv, TypeOK, ClientTypeOK, ClientPhase, ClientBound
  <2> QED BY <2>1, <2>2
<1>12. ASSUME NEW v \in Visitors, StartChannel(v) \/ ChannelFails(v)
       PROVE  WireTypeOK' /\ ClientTypeOK' /\ ClientBound'
  <2>1. WireTypeOK'
    BY <1>12 DEF StartChannel, ChannelFails, TypeInv, TypeOK, WireTypeOK
  <2>2. ClientTypeOK' /\ ClientBound'
    BY <1>12 DEF StartChannel, ChannelFails, clientVars, TypeInv, TypeOK, ClientTypeOK, ClientBound
  <2> QED BY <2>1, <2>2
<1> QED
  BY <1>0, <1>1, <1>2, <1>3, <1>4, <1>5, <1>6, <1>7, <1>8, <1>9, <1>10, <1>11, <1>12
     DEF ClientNext, TypeInv, TypeOK

-----------------------------------------------------------------------------
\* The inductive invariant holds in every reachable state.
THEOREM TypeInvariance == Spec => []TypeInv
<1>1. TypeInv /\ [Next]_vars => TypeInv'
  <2> SUFFICES ASSUME TypeInv, [Next]_vars PROVE TypeInv'
    OBVIOUS
  <2>1. CASE UNCHANGED vars
    <3>1. UNCHANGED <<wireVars, serverVars, clientVars>>
      BY <2>1 DEF vars
    <3>2. WireTypeOK'
      BY <3>1 DEF wireVars, TypeInv, TypeOK, WireTypeOK
    <3>3. ServerTypeOK' /\ ServerBound'
      BY <3>1 DEF serverVars, TypeInv, TypeOK, ServerTypeOK, ServerBound
    <3>4. ClientTypeOK' /\ ClientBound'
      BY <3>1 DEF clientVars, TypeInv, TypeOK, ClientTypeOK, ClientBound
    <3> QED BY <3>2, <3>3, <3>4 DEF TypeInv, TypeOK
  <2> QED BY <2>1, WireTypes, ServerTypes, ClientTypes DEF Next
<1> QED BY <1>1, InitTypes, PTL DEF Spec

\* Every variable keeps its type.
THEOREM TypeCorrect == Spec => []TypeOK
BY TypeInvariance, PTL DEF TypeInv

-----------------------------------------------------------------------------
(***************************************************************************)
(* 2. The registry of ports.  No port is ever held by two controllers.     *)
(* RegistryInv is inductive relative to the types: only three steps        *)
(* (AcquirePorts, WriteReply, Cleanup) touch the registry, and every other *)
(* step at most moves one controller in a way that leaves alone what it    *)
(* holds.  The registry implements PortLeases.                             *)
(***************************************************************************)

\* The types the argument needs.
LEMMA RegistryTypes ==
    ASSUME TypeInv
    PROVE  /\ phase \in [Session -> Phase]
           /\ ports \in [Session -> SUBSET Ports]
           /\ usingPorts \in SUBSET Ports /\ success \in SUBSET Ports
           /\ asked \in [Session -> SUBSET Ports]
BY DEF TypeInv, TypeOK, ServerTypeOK

\* Nobody holds anything at the start.
LEMMA InitRegistry == Init => RegistryInv
BY Numbers DEF Init, ServerInit, RegistryInv, PortsHeldOnce, Held, Early

-----------------------------------------------------------------------------
(* Steps that leave the registry alone.                                    *)

\* A change of phase that neither enters nor leaves "reply", and neither takes
\* up nor lays down what a controller holds.
Holding == {"serve", "notify", "cleanup"}
Harmless(old, new) ==
    \/ old \in Early \ {"reply"} /\ new \in (Early \ {"reply"}) \cup {"cleanup", "done"}
    \/ old \in Holding /\ new \in Holding

\* The invariant speaks of five variables only.
LEMMA RegistryUntouched ==
    ASSUME RegistryInv, UNCHANGED <<phase, usingPorts, portsLock, success, ports>>
    PROVE  RegistryInv'
BY DEF RegistryInv, PortsHeldOnce, Held

\* A harmless change of one controller's phase.
HarmlessMove(s) ==
    /\ \E next \in Phase :
         Harmless(phase[s], next) /\ phase' = [phase EXCEPT ![s] = next]
    /\ UNCHANGED <<usingPorts, portsLock, success, ports>>

\* A harmless move leaves every controller what it holds.
LEMMA HarmlessHolds ==
    ASSUME TypeInv, RegistryInv, NEW s \in Session, HarmlessMove(s)
    PROVE  \A t \in Session : Held(t)' = Held(t)
<1>1. PICK next \in Phase : Harmless(phase[s], next) /\ phase' = [phase EXCEPT ![s] = next]
  BY DEF HarmlessMove
<1>2. phase'[s] = next /\ \A t \in Session : t # s => phase'[t] = phase[t]
  BY <1>1, RegistryTypes
<1>3. ports' = ports /\ success' = success
  BY DEF HarmlessMove
<1>4. Held(s)' = Held(s)
  <2>1. CASE phase[s] \in Early
    BY <1>1, <1>2, <1>3, <2>1 DEF RegistryInv, Harmless, Held, Early, Holding
  <2>2. CASE phase[s] \notin Early
    BY <1>1, <1>2, <1>3, <2>2 DEF Harmless, Held, Early, Holding
  <2> QED BY <2>1, <2>2
<1> QED BY <1>2, <1>3, <1>4 DEF Held

\* A harmless move keeps the invariant.
LEMMA HarmlessKeeps ==
    ASSUME TypeInv, RegistryInv, NEW s \in Session, HarmlessMove(s)
    PROVE  RegistryInv'
<1>1. PICK next \in Phase : Harmless(phase[s], next) /\ phase' = [phase EXCEPT ![s] = next]
  BY DEF HarmlessMove
<1>2. /\ phase'[s] = next /\ \A t \in Session : t # s => phase'[t] = phase[t]
      /\ UNCHANGED <<usingPorts, portsLock, success, ports>>
  BY <1>1, RegistryTypes DEF HarmlessMove
<1>3. \A t \in Session : phase'[t] = "reply" <=> portsLock' = t
  BY <1>1, <1>2 DEF RegistryInv, Harmless, Early, Holding
<1>4. \A t \in Session : phase'[t] \in Early => ports'[t] = {}
  BY <1>1, <1>2 DEF RegistryInv, Harmless, Early, Holding
<1>5. PortsHeldOnce'
  BY <1>2, HarmlessHolds DEF RegistryInv, PortsHeldOnce
<1> QED BY <1>3, <1>4, <1>5 DEF RegistryInv

-----------------------------------------------------------------------------
(* The three steps of the registry.                                        *)

\* accept_config's loop under the lock: what it takes was free.
LEMMA AcquireKeeps ==
    ASSUME TypeInv, RegistryInv, NEW s \in Session, AcquirePorts(s)
    PROVE  /\ RegistryInv'
           /\ Held(s) = {} /\ Held(s)' = asked[s] \ usingPorts
           /\ \A t \in Session : t # s => Held(t)' = Held(t)
<1>1. /\ phase[s] = "lock" /\ portsLock = NoOne /\ portsLock' = s
      /\ success' = asked[s] \ usingPorts /\ usingPorts' = usingPorts \cup asked[s]
      /\ ports' = ports /\ phase' = [phase EXCEPT ![s] = "reply"]
  BY DEF AcquirePorts, Goes, Vacant
<1>2. phase'[s] = "reply" /\ \A t \in Session : t # s => phase'[t] = phase[t]
  BY <1>1, RegistryTypes
<1>3. \A t \in Session : phase[t] # "reply"
  BY <1>1, Numbers DEF RegistryInv
<1>4. \A t \in Session : phase'[t] = "reply" <=> portsLock' = t
  BY <1>1, <1>2, <1>3
<1>5. \A t \in Session : phase'[t] \in Early => ports'[t] = {}
  BY <1>1, <1>2 DEF RegistryInv, Early
<1>6. /\ Held(s) = {} /\ Held(s)' = asked[s] \ usingPorts
      /\ \A t \in Session : t # s => Held(t)' = Held(t)
  BY <1>1, <1>2, <1>3 DEF Held
<1>7. PortsHeldOnce'
  BY <1>1, <1>6 DEF RegistryInv, PortsHeldOnce
<1> QED BY <1>4, <1>5, <1>6, <1>7 DEF RegistryInv

\* The end of accept_config: the controller goes on holding what it took, or,
\* after a failed write, holds nothing.
LEMMA ReplyKeeps ==
    ASSUME TypeInv, RegistryInv, NEW s \in Session, WriteReply(s)
    PROVE  /\ RegistryInv'
           /\ Held(s)' \in {Held(s), {}}
           /\ \A t \in Session : t # s => Held(t)' = Held(t)
<1>1. phase[s] = "reply" /\ portsLock' = NoOne /\ usingPorts' = usingPorts /\ success' = {}
  BY DEF WriteReply, LockAfterReply
<1>2. /\ \A t \in Session : t # s => phase[t] # "reply"
      /\ ports[s] = {} /\ Held(s) = success
  BY <1>1 DEF RegistryInv, Early, Held
<1>3. PICK next \in {"serve", "cleanup"} :
        /\ phase' = [phase EXCEPT ![s] = next]
        /\ next = "serve" => ports' = [ports EXCEPT ![s] = success]
        /\ next = "cleanup" => ports' = ports
  <2>1. CASE srv[s] = "open"
    BY <2>1 DEF WriteReply, Goes
  <2>2. CASE srv[s] # "open"
    BY <2>2 DEF WriteReply, Goes
  <2> QED BY <2>1, <2>2
<1>4. /\ phase'[s] = next /\ ports'[s] \in {success, {}}
      /\ \A t \in Session : t # s => phase'[t] = phase[t] /\ ports'[t] = ports[t]
  BY <1>2, <1>3, RegistryTypes
<1>5. \A t \in Session : phase'[t] = "reply" <=> portsLock' = t
  BY <1>1, <1>2, <1>4, Numbers
<1>6. \A t \in Session : phase'[t] \in Early => ports'[t] = {}
  BY <1>4 DEF RegistryInv, Early
<1>7. Held(s)' \in {Held(s), {}} /\ \A t \in Session : t # s => Held(t)' = Held(t)
  BY <1>2, <1>4 DEF Held
<1>8. PortsHeldOnce'
  BY <1>1, <1>7 DEF RegistryInv, PortsHeldOnce
<1> QED BY <1>5, <1>6, <1>7, <1>8 DEF RegistryInv

\* cleanup's retain: the ports it frees are nobody else's.
LEMMA CleanupKeeps ==
    ASSUME TypeInv, RegistryInv, NEW s \in Session, Cleanup(s)
    PROVE  /\ RegistryInv'
           /\ Held(s) = ports[s] /\ Held(s)' = {}
           /\ \A t \in Session : t # s => Held(t)' = Held(t)
<1>1. /\ phase[s] = "cleanup" /\ portsLock = NoOne /\ portsLock' = portsLock
      /\ usingPorts' = usingPorts \ ports[s] /\ success' = success
      /\ ports' = [ports EXCEPT ![s] = {}] /\ phase' = [phase EXCEPT ![s] = "done"]
  BY DEF Cleanup, Goes, Retained
<1>2. /\ phase'[s] = "done" /\ ports'[s] = {}
      /\ \A t \in Session : t # s => phase'[t] = phase[t] /\ ports'[t] = ports[t]
  BY <1>1, RegistryTypes
<1>3. \A t \in Session : phase'[t] = "reply" <=> portsLock' = t
  BY <1>1, <1>2, Numbers DEF RegistryInv
<1>4. \A t \in Session : phase'[t] \in Early => ports'[t] = {}
  BY <1>2 DEF RegistryInv
<1>5. /\ Held(s) = ports[s] /\ Held(s)' = {}
      /\ \A t \in Session : t # s => Held(t)' = Held(t)
  BY <1>1, <1>2 DEF Held
<1>6. PortsHeldOnce'
  BY <1>1, <1>5 DEF RegistryInv, PortsHeldOnce
<1> QED BY <1>3, <1>4, <1>5, <1>6 DEF RegistryInv

-----------------------------------------------------------------------------
(* All steps.                                                              *)

\* What a step can be, as far as the registry is concerned.
RegistryStep ==
    \/ UNCHANGED <<phase, usingPorts, portsLock, success, ports>>
    \/ \E s \in Session :
         HarmlessMove(s) \/ AcquirePorts(s) \/ WriteReply(s) \/ Cleanup(s)

\* A step of a controller that changes only where the controller stands.
LEMMA MovesAreHarmless ==
    ASSUME NEW s \in Session,
           \/ OnNewClient(s) \/ FirstReadFails(s) \/ SendAcceptClient(s) \/ ReadConfig(s)
           \/ HeartbeatTimeout(s) \/ ReadFails(s) \/ TakeReport(s) \/ NotifyClient(s)
    PROVE  RegistryStep
<1> USE DEF HarmlessMove, RegistryStep, Goes, Harmless, Early, Holding, Phase, registryVars
<1>1. ASSUME OnNewClient(s) PROVE RegistryStep
  <2>1. PICK next \in {"hello", "done"} : phase' = [phase EXCEPT ![s] = next]
    BY <1>1 DEF OnNewClient
  <2> QED BY <1>1, <2>1 DEF OnNewClient
<1>2. ASSUME FirstReadFails(s) PROVE RegistryStep
  BY <1>2 DEF FirstReadFails
<1>3. ASSUME SendAcceptClient(s) PROVE RegistryStep
  <2>1. PICK next \in {"config", "cleanup"} : phase' = [phase EXCEPT ![s] = next]
    BY <1>3 DEF SendAcceptClient
  <2> QED BY <1>3, <2>1 DEF SendAcceptClient
<1>4. ASSUME ReadConfig(s) PROVE RegistryStep
  <2>1. PICK next \in {"lock", "cleanup"} : phase' = [phase EXCEPT ![s] = next]
    BY <1>4 DEF ReadConfig
  <2> QED BY <1>4, <2>1 DEF ReadConfig
<1>5. ASSUME HeartbeatTimeout(s) PROVE RegistryStep
  BY <1>5 DEF HeartbeatTimeout
<1>6. ASSUME ReadFails(s) PROVE RegistryStep
  BY <1>6 DEF ReadFails
<1>7. ASSUME TakeReport(s) PROVE RegistryStep
  <2>1. phase' = phase \/ phase' = [phase EXCEPT ![s] = "notify"]
    BY <1>7 DEF TakeReport
  <2> QED BY <1>7, <2>1 DEF TakeReport
<1>8. ASSUME NotifyClient(s) PROVE RegistryStep
  <2>1. PICK next \in {"serve", "cleanup"} : phase' = [phase EXCEPT ![s] = next]
    BY <1>8 DEF NotifyClient
  <2> QED BY <1>8, <2>1 DEF NotifyClient
<1> QED BY <1>1, <1>2, <1>3, <1>4, <1>5, <1>6, <1>7, <1>8

\* Every step is one of these.
LEMMA RegistrySteps == [Next]_vars => RegistryStep
<1>1. ASSUME UNCHANGED serverVars PROVE RegistryStep
  BY <1>1 DEF serverVars, RegistryStep
<1>2. ASSUME ServerNext PROVE RegistryStep
  <2>1. ASSUME NEW s \in Session, ReadHeartbeat(s) PROVE RegistryStep
    BY <2>1 DEF ReadHeartbeat, serverVars, RegistryStep
  <2>2. ASSUME NEW s \in Session, NEW p \in Ports,
               Bind(s, p) \/ MonitorFails(s, p) \/ MonitorStops(s, p)
        PROVE  RegistryStep
    BY <2>2 DEF Bind, MonitorFails, MonitorStops, registryVars, RegistryStep
  <2>3. ASSUME NEW s \in Session, NEW v \in Visitors, ServerMsg(s, v) \/ MonitorAccepts(s, v)
        PROVE  RegistryStep
    BY <2>3 DEF ServerMsg, MonitorAccepts, registryVars, serverVars, RegistryStep
  <2>4. ASSUME NEW v \in Visitors,
               OnAcceptChannel(v) \/ MakeChannel(v) \/ PendingTimeout(v) \/ RelayEnds(v)
        PROVE  RegistryStep
    BY <2>4 DEF OnAcceptChannel, MakeChannel, PendingTimeout, RelayEnds, registryVars,
                serverVars, RegistryStep
  <2>5. ASSUME AcceptLoopFails PROVE RegistryStep
    BY <2>5 DEF AcceptLoopFails, serverVars, RegistryStep
  <2>6. ASSUME NEW s \in Session, AcquirePorts(s) \/ WriteReply(s) \/ Cleanup(s)
        PROVE  RegistryStep
    BY <2>6 DEF RegistryStep
  <2> QED
    BY <1>2, <2>1, <2>2, <2>3, <2>4, <2>5, <2>6, MovesAreHarmless DEF ServerNext
<1> QED BY <1>1, <1>2 DEF Next, vars

\* Every step keeps the invariant.
LEMMA NextKeeps == ASSUME TypeInv, RegistryInv, [Next]_vars PROVE RegistryInv'
BY RegistrySteps, RegistryUntouched, HarmlessKeeps, AcquireKeeps, ReplyKeeps, CleanupKeeps
   DEF RegistryStep

\* The lock is held exactly while a reply is written, and a controller owns
\* nothing before its reply is out.
THEOREM RegistryInvariance == Spec => []RegistryInv
<1>1. Spec => [](TypeInv /\ RegistryInv)
  <2>1. Init => RegistryInv
    BY InitRegistry
  <2>2. TypeInv /\ RegistryInv /\ [Next]_vars => RegistryInv'
    BY NextKeeps
  <2> QED BY <2>1, <2>2, TypeInvariance, PTL DEF Spec
<1> QED BY <1>1, PTL

\* No port is handed to two clients at once, for every value of the constants.
THEOREM PortsAreHeldOnce == Spec => []PortsHeldOnce
<1>1. RegistryInv => PortsHeldOnce
  BY DEF RegistryInv
<1> QED BY <1>1, RegistryInvariance, PTL

----------------------------------------------------------------------------
(* The leases (PortLeases): every step of the program grants free ports to *)
(* a session that was not served before, ends all the leases of a session  *)
(* together, or changes no lease.  RegistryInv makes "the holder of a      *)
(* port" unique.                                                           *)

\* The refinement mapping.
LeaseMap == [p \in Ports |-> LeaseOf(p)]
Served == {s \in Session : phase[s] \notin {"first", "hello", "config", "lock"}}

\* What the lease of a port says.
LeaseFacts ==
    /\ \A p \in Ports : p \notin usingPorts => LeaseOf(p) = NoOne
    /\ \A p \in Ports : p \in usingPorts => LeaseOf(p) # NoOne
    /\ \A p \in Ports : \A s \in Session : p \in Held(s) <=> LeaseOf(p) = s
    /\ \A p \in Ports :
         (p \in usingPorts /\ \A s \in Session : p \notin Held(s)) => LeaseOf(p) = MaxSessions + 1

\* A held port is leased to its one holder.
LEMMA LeasesAreHeld == RegistryInv => LeaseFacts
<1> SUFFICES ASSUME RegistryInv, NEW p \in Ports
    PROVE  /\ p \notin usingPorts => LeaseOf(p) = NoOne
           /\ p \in usingPorts => LeaseOf(p) # NoOne
           /\ \A s \in Session : p \in Held(s) <=> LeaseOf(p) = s
           /\ (p \in usingPorts /\ \A s \in Session : p \notin Held(s)) =>
                LeaseOf(p) = MaxSessions + 1
  BY DEF LeaseFacts
<1>1. /\ \A s \in Session : p \in Held(s) => p \in usingPorts
      /\ \A s, t \in Session : p \in Held(s) /\ p \in Held(t) => s = t
  BY DEF RegistryInv, PortsHeldOnce
<1>2. NoOne \notin Session /\ MaxSessions + 1 \notin Session /\ MaxSessions + 1 # NoOne
  BY WireAssumption DEF NoOne, Session
<1>3. CASE p \notin usingPorts
  BY <1>1, <1>2, <1>3 DEF LeaseOf
<1>4. CASE \E s \in Session : p \in Held(s)
  <2>1. PICK s \in Session : p \in Held(s)
    BY <1>4
  <2>2. LeaseOf(p) = CHOOSE t \in Session : p \in Held(t)
    BY <1>1, <1>4 DEF LeaseOf
  <2>3. LeaseOf(p) \in Session /\ p \in Held(LeaseOf(p))
    BY <2>1, <2>2
  <2> QED BY <1>1, <1>2, <2>1, <2>3
<1>5. CASE p \in usingPorts /\ \A s \in Session : p \notin Held(s)
  BY <1>2, <1>5 DEF LeaseOf
<1> QED BY <1>3, <1>4, <1>5

\* The same in the next state.
LEMMA LeasesAreHeldNext == RegistryInv' => LeaseFacts'
BY LeasesAreHeld, PTL

-----------------------------------------------------------------------------
(* The steps.                                                              *)

\* Leases depend on what is held and what is used.
LEMMA SameLeases ==
    ASSUME LeaseFacts, LeaseFacts', usingPorts' = usingPorts,
           \A t \in Session : Held(t)' = Held(t)
    PROVE  LeaseMap' = LeaseMap
<1>1. ASSUME NEW p \in Ports PROVE LeaseOf(p)' = LeaseOf(p)
  <2>1. CASE \E s \in Session : p \in Held(s)
    BY <2>1 DEF LeaseFacts
  <2>2. CASE \A s \in Session : p \notin Held(s)
    BY <2>2 DEF LeaseFacts
  <2> QED BY <2>1, <2>2
<1> QED BY <1>1 DEF LeaseMap

\* A step of one controller that changes what it holds, and of no other.
LEMMA OtherLeases ==
    ASSUME LeaseFacts, LeaseFacts', NEW s \in Session,
           \A t \in Session : t # s => Held(t)' = Held(t),
           NEW p \in Ports, p \notin Held(s), p \notin Held(s)', p \in usingPorts <=> p \in usingPorts'
    PROVE  LeaseOf(p)' = LeaseOf(p)
<1>1. CASE \E t \in Session : p \in Held(t)
  BY <1>1 DEF LeaseFacts
<1>2. CASE \A t \in Session : p \notin Held(t)
  BY <1>2 DEF LeaseFacts
<1> QED BY <1>1, <1>2

\* A controller that gives up during the handshake was granted nothing; any
\* other harmless move is none of the leases' business.
LEMMA HarmlessStep ==
    ASSUME TypeInv, RegistryInv, LeaseFacts, LeaseFacts', NEW s \in Session, HarmlessMove(s)
    PROVE  [Leases!LeaseNext]_(Leases!leaseVars)
<1>1. LeaseMap' = LeaseMap
  BY SameLeases, HarmlessHolds DEF HarmlessMove
<1>2. PICK next \in Phase : Harmless(phase[s], next) /\ phase' = [phase EXCEPT ![s] = next]
  BY DEF HarmlessMove
<1>3. phase'[s] = next /\ \A t \in Session : t # s => phase'[t] = phase[t]
  BY <1>2, RegistryTypes
<1>4. CASE phase[s] \in Early /\ next \in {"cleanup", "done"}
  <2>1. s \notin Served /\ Served' = Served \cup {s}
    BY <1>2, <1>3, <1>4 DEF Served, Harmless, Early, Holding
  <2>2. Leases!Grant(s, {})
    BY <1>1, <2>1 DEF Leases!Grant, LeaseMap, Served
  <2> QED BY <2>2 DEF Leases!LeaseNext
<1>5. CASE ~(phase[s] \in Early /\ next \in {"cleanup", "done"})
  <2>1. Served' = Served
    BY <1>2, <1>3, <1>5 DEF Served, Harmless, Early, Holding
  <2> QED BY <1>1, <2>1 DEF Leases!leaseVars, LeaseMap, Served
<1> QED BY <1>4, <1>5

\* AcquirePorts grants what was vacant.
LEMMA AcquireStep ==
    ASSUME TypeInv, RegistryInv, LeaseFacts, LeaseFacts', NEW s \in Session, AcquirePorts(s)
    PROVE  Leases!LeaseNext
<1>1. /\ phase[s] = "lock" /\ phase'[s] = "reply"
      /\ \A t \in Session : t # s => phase'[t] = phase[t]
      /\ usingPorts' = usingPorts \cup asked[s] /\ asked[s] \subseteq Ports
  BY RegistryTypes DEF AcquirePorts, Goes
<1>2. s \notin Served /\ Served' = Served \cup {s}
  BY <1>1 DEF Served
<1>3. /\ Held(s) = {} /\ Held(s)' = asked[s] \ usingPorts
      /\ \A t \in Session : t # s => Held(t)' = Held(t)
  BY AcquireKeeps
<1>0. PICK vacant \in SUBSET Ports : vacant = asked[s] \ usingPorts
  BY <1>1
<1>4. \A p \in vacant : LeaseOf(p) = NoOne
  BY <1>0, <1>1 DEF LeaseFacts
<1>5. ASSUME NEW p \in Ports PROVE LeaseOf(p)' = IF p \in vacant THEN s ELSE LeaseOf(p)
  <2>1. CASE p \in vacant
    BY <1>0, <1>3, <2>1 DEF LeaseFacts
  <2>2. CASE p \notin vacant
    BY <1>0, <1>1, <1>3, <2>2, OtherLeases
  <2> QED BY <2>1, <2>2
<1>6. \A p \in vacant : LeaseMap[p] = NoOne
  BY <1>4 DEF LeaseMap
<1>7. LeaseMap' = [p \in Ports |-> IF p \in vacant THEN s ELSE LeaseMap[p]]
  BY <1>5 DEF LeaseMap
<1>8. Leases!Grant(s, vacant)
  BY <1>2, <1>6, <1>7 DEF Leases!Grant, LeaseMap, Served
<1> QED BY <1>8 DEF Leases!LeaseNext

\* WriteReply changes no lease, or loses all of the controller's.
LEMMA ReplyStep ==
    ASSUME TypeInv, RegistryInv, LeaseFacts, LeaseFacts', NEW s \in Session, WriteReply(s)
    PROVE  [Leases!LeaseNext]_(Leases!leaseVars)
<1>1. phase[s] = "reply" /\ usingPorts' = usingPorts
  BY DEF WriteReply
<1>2. PICK next \in {"serve", "cleanup"} : phase' = [phase EXCEPT ![s] = next]
  <2>1. CASE srv[s] = "open"
    BY <2>1 DEF WriteReply, Goes
  <2>2. CASE srv[s] # "open"
    BY <2>2 DEF WriteReply, Goes
  <2> QED BY <2>1, <2>2
<1>3. phase'[s] = next /\ \A t \in Session : t # s => phase'[t] = phase[t]
  BY <1>2, RegistryTypes
<1>4. s \in Served /\ Served' = Served
  BY <1>1, <1>3 DEF Served
<1>5. Held(s)' \in {Held(s), {}} /\ \A t \in Session : t # s => Held(t)' = Held(t)
  BY ReplyKeeps
<1>6. CASE Held(s)' = Held(s)
  <2>1. LeaseMap' = LeaseMap
    BY <1>1, <1>5, <1>6, SameLeases
  <2> QED BY <1>4, <2>1 DEF Leases!leaseVars, LeaseMap, Served
<1>7. CASE Held(s)' = {}
  <2>1. ASSUME NEW p \in Ports
        PROVE  LeaseOf(p)' = IF LeaseOf(p) = s THEN MaxSessions + 1 ELSE LeaseOf(p)
    <3>1. CASE p \in Held(s)
      <4>1. p \in usingPorts' /\ \A t \in Session : p \notin Held(t)'
        BY <1>1, <1>5, <1>7, <3>1 DEF RegistryInv, PortsHeldOnce
      <4> QED BY <3>1, <4>1 DEF LeaseFacts
    <3>2. CASE p \notin Held(s)
      <4>1. LeaseOf(p)' = LeaseOf(p)
        BY <1>1, <1>5, <1>7, <3>2, OtherLeases
      <4> QED BY <3>2, <4>1 DEF LeaseFacts
    <3> QED BY <3>1, <3>2
  <2>2. Leases!GiveUp(s, MaxSessions + 1)
    BY <1>4, <2>1 DEF Leases!GiveUp, Served
  <2> QED BY <2>2 DEF Leases!LeaseNext
<1> QED BY <1>5, <1>6, <1>7

\* Cleanup frees all of the controller's.
LEMMA CleanupStep ==
    ASSUME TypeInv, RegistryInv, LeaseFacts, LeaseFacts', NEW s \in Session, Cleanup(s)
    PROVE  Leases!LeaseNext
<1>1. /\ phase[s] = "cleanup" /\ usingPorts' = usingPorts \ ports[s] /\ phase'[s] = "done"
      /\ \A t \in Session : t # s => phase'[t] = phase[t]
  BY RegistryTypes DEF Cleanup, Goes, Retained
<1>2. s \in Served /\ Served' = Served
  BY <1>1 DEF Served
<1>3. /\ Held(s) = ports[s] /\ Held(s)' = {}
      /\ \A t \in Session : t # s => Held(t)' = Held(t)
  BY CleanupKeeps
<1>4. ASSUME NEW p \in Ports
      PROVE  LeaseOf(p)' = IF LeaseOf(p) = s THEN NoOne ELSE LeaseOf(p)
  <2>1. CASE p \in Held(s)
    BY <1>1, <1>3, <2>1 DEF LeaseFacts
  <2>2. CASE p \notin Held(s)
    <3>1. LeaseOf(p)' = LeaseOf(p)
      BY <1>1, <1>3, <2>2, OtherLeases
    <3> QED BY <2>2, <3>1 DEF LeaseFacts
  <2> QED BY <2>1, <2>2
<1>5. Leases!GiveUp(s, NoOne)
  BY <1>2, <1>4 DEF Leases!GiveUp, Served
<1> QED BY <1>5 DEF Leases!LeaseNext

-----------------------------------------------------------------------------
\* The registry of ports implements the leases: a port is leased to one
\* session at a time, sessions get their leases in one go, once, and lose
\* them together.
THEOREM RegistryImplementsLeases == Spec => ImplementsLeases
<1>1. Init => Leases!LeaseInit
  <2> SUFFICES ASSUME Init PROVE Leases!LeaseInit
    OBVIOUS
  <2>1. usingPorts = {} /\ \A s \in Session : phase[s] = "first"
    BY DEF Init, ServerInit
  <2>2. LeaseFacts
    BY InitRegistry, LeasesAreHeld
  <2> QED BY <2>1, <2>2 DEF Leases!LeaseInit, LeaseFacts
<1>2. TypeInv /\ RegistryInv /\ RegistryInv' /\ [Next]_vars => [Leases!LeaseNext]_(Leases!leaseVars)
  <2> SUFFICES ASSUME TypeInv, RegistryInv, RegistryInv', [Next]_vars
               PROVE  [Leases!LeaseNext]_(Leases!leaseVars)
    OBVIOUS
  <2>1. LeaseFacts /\ LeaseFacts'
    BY LeasesAreHeld, LeasesAreHeldNext
  <2>2. ASSUME UNCHANGED <<phase, usingPorts, portsLock, success, ports>>
        PROVE  UNCHANGED Leases!leaseVars
    <3>1. LeaseMap' = LeaseMap
      BY <2>1, <2>2, SameLeases DEF Held
    <3> QED BY <2>2, <3>1 DEF Leases!leaseVars, LeaseMap
  <2> QED
    BY <2>1, <2>2, RegistrySteps, HarmlessStep, AcquireStep, ReplyStep, CleanupStep
       DEF RegistryStep
<1> QED
  BY <1>1, <1>2, TypeInvariance, RegistryInvariance, PTL DEF Spec, ImplementsLeases, Leases!LeaseSpec

-----------------------------------------------------------------------------
(***************************************************************************)
(* 3. The monitors.  MonitorInv is inductive relative to the types, and    *)
(* speaks of one controller at a time; what relates two of them is         *)
(* PortsHeldOnce.                                                          *)
(***************************************************************************)

Running == {"starting", "listening"}

\* What the queue of reports says of monitors: one that reported an error has
\* ended, has reported no other, and has not been fired.
ErrorsOf(queue, known, monitors) ==
    \A i \in DOMAIN queue : queue[i].report = "error" =>
        /\ queue[i].port \in known /\ monitors[queue[i].port] = "dead"
        /\ \A j \in DOMAIN queue :
             (queue[j].report = "error" /\ queue[j].port = queue[i].port) => j = i

\* What a controller and its monitors know of each other.
MonitorsOf(s) ==
    /\ phase[s] \in Early => reports[s] = <<>> /\ \A p \in Ports : monitor[s][p] = "none"
    /\ phase[s] = "done" => reports[s] = <<>>
    /\ phase[s] \in Holding =>
         \A p \in Ports : monitor[s][p] \in Running => p \in ports[s] \cap hired[s]
    /\ ErrorsOf(reports[s], hired[s], monitor[s])

MonitorInv == \A s \in Session : MonitorsOf(s)

\* The types the argument needs.
LEMMA MonitorTypes ==
    ASSUME TypeInv
    PROVE  /\ phase \in [Session -> Phase]
           /\ ports \in [Session -> SUBSET Ports] /\ hired \in [Session -> SUBSET Ports]
           /\ success \in SUBSET Ports
           /\ monitor \in [Session -> [Ports -> {"none", "starting", "listening", "dead"}]]
           /\ reports \in [Session -> Seq(Report)]
           /\ \A v \in Visitors : PortOf[v] \in Ports
BY ServerAssumption, WireAssumption DEF TypeInv, TypeOK, ServerTypeOK

\* A report is of a new visitor or of an error.
LEMMA ReportKinds ==
    /\ \A v \in Visitors : New(v).report = "new"
    /\ \A p \in Ports : Error(p).report = "error" /\ Error(p).port = p
    /\ \A r \in Report : r.report = "error" => r.port \in Ports
BY DEF New, Error, Report

\* Nothing runs at the start.
LEMMA InitMonitors == Init => MonitorInv
BY DEF Init, ServerInit, MonitorInv, MonitorsOf, ErrorsOf, Early, Holding, Running

-----------------------------------------------------------------------------
(* The queue of reports.                                                   *)

\* Taking a report from the queue; an error's monitor is fired.
LEMMA ReportTaken ==
    ASSUME NEW q \in Seq(Report), NEW known, NEW monitors,
           ErrorsOf(q, known, monitors), q # <<>>
    PROVE  /\ ErrorsOf(Tail(q), known, monitors)
           /\ Head(q).report = "error" =>
                ErrorsOf(Tail(q), known \ {Head(q).port}, monitors)
<1>1. /\ DOMAIN Tail(q) = 1..(Len(q) - 1) /\ DOMAIN q = 1..Len(q) /\ Len(q) \in Nat \ {0}
      /\ \A i \in DOMAIN Tail(q) : Tail(q)[i] = q[i + 1]
      /\ Head(q) = q[1]
  OBVIOUS
<1>2. \A i \in DOMAIN Tail(q) : i + 1 \in DOMAIN q /\ i + 1 # 1
  BY <1>1
<1>3. 1 \in DOMAIN q
  BY <1>1
<1>4. ErrorsOf(Tail(q), known, monitors)
  <2> SUFFICES ASSUME NEW i \in DOMAIN Tail(q), Tail(q)[i].report = "error"
               PROVE  /\ Tail(q)[i].port \in known /\ monitors[Tail(q)[i].port] = "dead"
                      /\ \A j \in DOMAIN Tail(q) :
                           (Tail(q)[j].report = "error" /\ Tail(q)[j].port = Tail(q)[i].port)
                             => j = i
    BY DEF ErrorsOf
  <2>1. q[i + 1].report = "error" /\ i + 1 \in DOMAIN q /\ Tail(q)[i] = q[i + 1]
    BY <1>1, <1>2
  <2>2. /\ Tail(q)[i].port \in known /\ monitors[Tail(q)[i].port] = "dead"
        /\ \A j \in DOMAIN q :
             (q[j].report = "error" /\ q[j].port = Tail(q)[i].port) => j = i + 1
    BY <2>1 DEF ErrorsOf
  <2>3. ASSUME NEW j \in DOMAIN Tail(q), Tail(q)[j].report = "error",
               Tail(q)[j].port = Tail(q)[i].port
        PROVE  j = i
    <3>1. j + 1 \in DOMAIN q /\ q[j + 1] = Tail(q)[j]
      BY <1>1, <1>2
    <3>2. j + 1 = i + 1
      BY <2>2, <2>3, <3>1
    <3> QED BY <1>1, <3>2
  <2> QED BY <2>2, <2>3
<1>5. ASSUME Head(q).report = "error"
      PROVE  ErrorsOf(Tail(q), known \ {Head(q).port}, monitors)
  <2>1. ASSUME NEW i \in DOMAIN Tail(q), Tail(q)[i].report = "error"
        PROVE  Tail(q)[i].port # Head(q).port
    <3>1. i + 1 \in DOMAIN q /\ i + 1 # 1 /\ q[i + 1] = Tail(q)[i] /\ q[1] = Head(q)
      BY <1>1, <1>2
    <3> QED BY <1>3, <1>5, <2>1, <3>1 DEF ErrorsOf
  <2> QED BY <1>4, <2>1 DEF ErrorsOf
<1> QED BY <1>4, <1>5

\* A new visitor is reported.
LEMMA VisitorReported ==
    ASSUME NEW q \in Seq(Report), NEW known, NEW monitors, NEW v \in Visitors,
           ErrorsOf(q, known, monitors)
    PROVE  ErrorsOf(Append(q, New(v)), known, monitors)
<1>1. /\ DOMAIN Append(q, New(v)) = 1..(Len(q) + 1) /\ DOMAIN q = 1..Len(q) /\ Len(q) \in Nat
      /\ \A i \in DOMAIN q : Append(q, New(v))[i] = q[i]
      /\ Append(q, New(v))[Len(q) + 1] = New(v)
  OBVIOUS
<1>2. \A i \in DOMAIN Append(q, New(v)) :
        Append(q, New(v))[i].report = "error" => i \in DOMAIN q
  BY <1>1, ReportKinds
<1> QED BY <1>1, <1>2 DEF ErrorsOf

\* A running monitor ends.
LEMMA MonitorEnds ==
    ASSUME NEW q \in Seq(Report), NEW known,
           NEW monitors \in [Ports -> {"none", "starting", "listening", "dead"}],
           NEW p \in Ports, ErrorsOf(q, known, monitors)
    PROVE  ErrorsOf(q, known, [monitors EXCEPT ![p] = "dead"])
<1>1. \A i \in DOMAIN q : q[i].report = "error" => q[i].port \in Ports
  BY ReportKinds
<1> QED BY <1>1 DEF ErrorsOf

\* A running monitor reports the error it ends with.
LEMMA ErrorReported ==
    ASSUME NEW q \in Seq(Report), NEW known,
           NEW monitors \in [Ports -> {"none", "starting", "listening", "dead"}],
           NEW p \in known \cap Ports, monitors[p] \in Running, ErrorsOf(q, known, monitors)
    PROVE  ErrorsOf(Append(q, Error(p)), known, [monitors EXCEPT ![p] = "dead"])
<1> DEFINE longer == Append(q, Error(p))
<1>1. /\ DOMAIN longer = 1..(Len(q) + 1) /\ DOMAIN q = 1..Len(q) /\ Len(q) \in Nat
      /\ \A i \in DOMAIN q : longer[i] = q[i]
      /\ longer[Len(q) + 1] = Error(p)
  OBVIOUS
<1>2. ErrorsOf(q, known, [monitors EXCEPT ![p] = "dead"])
  BY MonitorEnds
<1>3. \A i \in DOMAIN q : q[i].report = "error" => q[i].port # p
  BY DEF ErrorsOf, Running
<1>4. Error(p).report = "error" /\ Error(p).port = p
  BY ReportKinds
<1>5. [monitors EXCEPT ![p] = "dead"][p] = "dead"
  OBVIOUS
<1>6. \A i \in DOMAIN longer : i \in DOMAIN q \/ i = Len(q) + 1
  BY <1>1
<1> HIDE DEF longer
<1>7. ErrorsOf(longer, known, [monitors EXCEPT ![p] = "dead"])
  BY <1>1, <1>2, <1>3, <1>4, <1>5, <1>6 DEF ErrorsOf
<1> QED BY <1>7 DEF longer

-----------------------------------------------------------------------------
(* Steps.                                                                  *)

\* What a step does to everybody but s.
LeavesOthers(s) ==
    \A t \in Session : t # s =>
        /\ phase'[t] = phase[t] /\ ports'[t] = ports[t] /\ hired'[t] = hired[t]
        /\ monitor'[t] = monitor[t] /\ reports'[t] = reports[t]

\* The invariant speaks of each controller by itself.
LEMMA OneAtATime ==
    ASSUME MonitorInv, NEW s \in Session, LeavesOthers(s), MonitorsOf(s)'
    PROVE  MonitorInv'
BY DEF MonitorInv, MonitorsOf, LeavesOthers, ErrorsOf

\* Steps that touch nothing the invariant speaks of.
LEMMA MonitorsUntouched ==
    ASSUME MonitorInv, UNCHANGED <<phase, ports, hired, monitor, reports>>
    PROVE  MonitorInv'
BY DEF MonitorInv, MonitorsOf, ErrorsOf

\* A controller goes on from one await to the next.
LEMMA PhaseMoves ==
    ASSUME TypeInv, MonitorInv, NEW s \in Session,
           UNCHANGED <<ports, hired, monitor, reports>>,
           NEW next \in Phase, phase' = [phase EXCEPT ![s] = next],
           \/ phase[s] \in Early
           \/ phase[s] \in Holding /\ next \in Holding
    PROVE  MonitorInv'
<1>1. phase'[s] = next /\ \A t \in Session : t # s => phase'[t] = phase[t]
  BY MonitorTypes
<1>2. LeavesOthers(s)
  BY <1>1 DEF LeavesOthers
<1>3. MonitorsOf(s)
  BY DEF MonitorInv
<1>4. CASE phase[s] \in Early
  BY <1>1, <1>3, <1>4, OneAtATime, <1>2
     DEF MonitorsOf, ErrorsOf, Early, Holding, Running, Phase
<1>5. CASE phase[s] \in Holding /\ next \in Holding
  BY <1>1, <1>3, <1>5, OneAtATime, <1>2
     DEF MonitorsOf, ErrorsOf, Early, Holding, Running
<1> QED BY <1>4, <1>5

\* The steps of controllers that leave their monitors alone.
LEMMA ControllerMoves ==
    ASSUME TypeInv, MonitorInv, NEW s \in Session,
           \/ OnNewClient(s) \/ FirstReadFails(s) \/ SendAcceptClient(s) \/ ReadConfig(s)
           \/ AcquirePorts(s) \/ HeartbeatTimeout(s) \/ ReadFails(s) \/ NotifyClient(s)
    PROVE  MonitorInv'
<1> USE DEF Goes, registryVars, monitorVars, visitorVars
<1>1. /\ UNCHANGED <<ports, hired, monitor, reports>>
      /\ \E next \in Phase : phase' = [phase EXCEPT ![s] = next]
                              /\ (phase[s] \in Early \/ (phase[s] \in Holding /\ next \in Holding))
  <2> USE DEF Phase, Early, Holding
  <2>1. CASE OnNewClient(s)
    BY <2>1 DEF OnNewClient
  <2>2. CASE FirstReadFails(s)
    BY <2>2 DEF FirstReadFails
  <2>3. CASE SendAcceptClient(s)
    BY <2>3 DEF SendAcceptClient
  <2>4. CASE ReadConfig(s)
    BY <2>4 DEF ReadConfig
  <2>5. CASE AcquirePorts(s)
    BY <2>5 DEF AcquirePorts
  <2>6. CASE HeartbeatTimeout(s)
    BY <2>6 DEF HeartbeatTimeout
  <2>7. CASE ReadFails(s)
    BY <2>7 DEF ReadFails
  <2>8. CASE NotifyClient(s)
    BY <2>8 DEF NotifyClient
  <2> QED BY <2>1, <2>2, <2>3, <2>4, <2>5, <2>6, <2>7, <2>8
<1> QED BY <1>1, PhaseMoves

\* The reply is out, and its monitors start with an empty queue.
LEMMA ReplyStartsMonitors ==
    ASSUME TypeInv, MonitorInv, NEW s \in Session, WriteReply(s)
    PROVE  MonitorInv'
<1>1. phase[s] = "reply" /\ MonitorsOf(s) /\ reports' = reports
  BY DEF WriteReply, MonitorInv
<1>2. CASE srv[s] = "open"
  <2>1. /\ phase' = [phase EXCEPT ![s] = "serve"]
        /\ ports' = [ports EXCEPT ![s] = success] /\ hired' = [hired EXCEPT ![s] = success]
        /\ monitor' = [monitor EXCEPT ![s] =
                         [p \in Ports |-> IF p \in success THEN "starting" ELSE monitor[s][p]]]
    BY <1>2 DEF WriteReply, Goes
  <2>2. /\ phase'[s] = "serve" /\ ports'[s] = success /\ hired'[s] = success
        /\ \A p \in Ports : monitor'[s][p] = IF p \in success THEN "starting" ELSE monitor[s][p]
        /\ LeavesOthers(s)
    BY <1>1, <2>1, MonitorTypes DEF LeavesOthers
  <2>3. reports'[s] = <<>> /\ \A p \in Ports : monitor[s][p] = "none"
    BY <1>1 DEF MonitorsOf, Early
  <2>4. MonitorsOf(s)'
    BY <2>2, <2>3 DEF MonitorsOf, ErrorsOf, Early, Holding, Running
  <2> QED BY <2>2, <2>4, OneAtATime
<1>3. CASE srv[s] # "open"
  <2>1. phase' = [phase EXCEPT ![s] = "cleanup"] /\ UNCHANGED <<ports, hired, monitor, reports>>
    BY <1>3 DEF WriteReply, Goes
  <2> QED BY <1>1, <2>1, PhaseMoves DEF Early, Phase
<1> QED BY <1>2, <1>3

\* An error fires its monitor, a new visitor is to be announced.
LEMMA ReportIsTaken ==
    ASSUME TypeInv, MonitorInv, NEW s \in Session, TakeReport(s)
    PROVE  MonitorInv'
<1>1. /\ phase[s] = "serve" /\ reports[s] # <<>> /\ MonitorsOf(s)
      /\ reports' = [reports EXCEPT ![s] = Tail(reports[s])]
      /\ ports' = ports /\ monitor' = monitor
  BY DEF TakeReport, MonitorInv, Taken, registryVars
<1>2. reports[s] \in Seq(Report) /\ reports'[s] = Tail(reports[s])
      /\ \A t \in Session : t # s => reports'[t] = reports[t]
  BY <1>1, MonitorTypes
<1>3. Head(reports[s]) \in Report
  BY <1>1, <1>2
<1>4. CASE Head(reports[s]).report = "new"
  <2>1. phase' = [phase EXCEPT ![s] = "notify"] /\ hired' = hired
    BY <1>4 DEF TakeReport, Goes
  <2>2. phase'[s] = "notify" /\ LeavesOthers(s)
    BY <1>1, <1>2, <2>1, MonitorTypes DEF LeavesOthers
  <2>3. ErrorsOf(reports[s], hired[s], monitor[s])
    BY <1>1 DEF MonitorsOf
  <2>4. ErrorsOf(Tail(reports[s]), hired[s], monitor[s])
    BY <1>1, <1>2, <2>3, ReportTaken
  <2>5. MonitorsOf(s)'
    BY <1>1, <1>2, <2>1, <2>2, <2>4 DEF MonitorsOf, Early, Holding
  <2> QED BY <2>2, <2>5, OneAtATime
<1>5. CASE Head(reports[s]).report # "new"
  <2> DEFINE port == Head(reports[s]).port
  <2>1. /\ phase' = phase /\ hired' = [hired EXCEPT ![s] = hired[s] \ {port}]
        /\ Head(reports[s]).report = "error"
    BY <1>3, <1>5, ReportKinds DEF TakeReport, Report, Error
  <2>2. hired'[s] = hired[s] \ {port} /\ LeavesOthers(s)
    BY <1>1, <1>2, <2>1, MonitorTypes DEF LeavesOthers
  <2>3. ErrorsOf(reports[s], hired[s], monitor[s])
    BY <1>1 DEF MonitorsOf
  <2>4. ErrorsOf(Tail(reports[s]), hired[s] \ {port}, monitor[s])
    BY <1>1, <1>2, <2>1, <2>3, ReportTaken
  <2>5. monitor[s][port] = "dead"
    <3>1. 1 \in DOMAIN reports[s] /\ reports[s][1] = Head(reports[s])
      BY <1>1, <1>2
    <3> QED BY <2>1, <2>3, <3>1 DEF ErrorsOf
  <2> HIDE DEF port
  <2>6. MonitorsOf(s)'
    BY <1>1, <1>2, <2>1, <2>2, <2>4, <2>5 DEF MonitorsOf, Early, Holding, Running
  <2> QED BY <2>2, <2>6, OneAtATime
<1> QED BY <1>4, <1>5

\* With the controller go its queue of reports and its table of monitors.
LEMMA ControllerIsDropped ==
    ASSUME TypeInv, MonitorInv, NEW s \in Session, Cleanup(s)
    PROVE  MonitorInv'
<1>1. /\ phase' = [phase EXCEPT ![s] = "done"] /\ ports' = [ports EXCEPT ![s] = {}]
      /\ hired' = [hired EXCEPT ![s] = {}] /\ reports' = [reports EXCEPT ![s] = <<>>]
      /\ monitor' = monitor
  BY DEF Cleanup, Goes
<1>2. /\ phase'[s] = "done" /\ reports'[s] = <<>>
      /\ LeavesOthers(s)
  BY <1>1, MonitorTypes DEF LeavesOthers
<1>3. MonitorsOf(s)'
  BY <1>2 DEF MonitorsOf, ErrorsOf, Early, Holding
<1> QED BY <1>2, <1>3, OneAtATime

-----------------------------------------------------------------------------
(* Steps of monitors.                                                      *)

\* A running monitor is one that a controller knows, unless it is gone.
LEMMA RunningIsKnown ==
    ASSUME TypeInv, MonitorInv, NEW s \in Session, NEW p \in Ports, monitor[s][p] \in Running
    PROVE  \/ phase[s] = "done" /\ ~HasController(s)
           \/ phase[s] \in Holding /\ HasController(s) /\ p \in ports[s] \cap hired[s]
<1>1. MonitorsOf(s) /\ phase[s] \in Phase
  BY MonitorTypes DEF MonitorInv
<1>2. phase[s] \notin Early
  BY <1>1 DEF MonitorsOf, Running
<1> QED BY <1>1, <1>2 DEF MonitorsOf, Phase, Early, Holding, HasController

\* A monitor ends, with or without a report of it.
LEMMA DyingKeeps ==
    ASSUME TypeInv, MonitorInv, NEW s \in Session, NEW p \in Ports,
           monitor[s][p] \in Running,
           monitor' = [monitor EXCEPT ![s][p] = "dead"],
           UNCHANGED <<phase, ports, hired>>,
           \/ reports' = reports
           \/ HasController(s) /\ reports' = Sent(reports, s, Error(p))
    PROVE  MonitorInv'
<1>1. /\ reports[s] \in Seq(Report) /\ MonitorsOf(s)
      /\ monitor[s] \in [Ports -> {"none", "starting", "listening", "dead"}]
      /\ monitor'[s] = [monitor[s] EXCEPT ![p] = "dead"]
      /\ \A t \in Session : t # s => monitor'[t] = monitor[t]
  BY MonitorTypes DEF MonitorInv
<1>2. \/ reports'[s] = reports[s]
      \/ phase[s] \in Holding /\ p \in hired[s] /\ reports'[s] = Append(reports[s], Error(p))
  <2>1. CASE reports' = reports
    BY <2>1
  <2>2. CASE HasController(s) /\ reports' = Sent(reports, s, Error(p))
    BY <2>2, RunningIsKnown, MonitorTypes DEF Sent
  <2> QED BY <2>1, <2>2
<1>3. LeavesOthers(s)
  BY <1>1, MonitorTypes DEF LeavesOthers, Sent
<1>4. ErrorsOf(reports[s], hired[s], monitor[s])
  BY <1>1 DEF MonitorsOf
<1>5. ErrorsOf(reports'[s], hired'[s], monitor'[s])
  <2>1. CASE reports'[s] = reports[s]
    BY <1>1, <1>4, <2>1, MonitorEnds
  <2>2. CASE p \in hired[s] /\ reports'[s] = Append(reports[s], Error(p))
    BY <1>1, <1>4, <2>2, ErrorReported
  <2> QED BY <1>2, <2>1, <2>2
<1>6. phase[s] \notin Early
  BY <1>1 DEF MonitorsOf, Running
<1>7. \A o \in Ports : monitor'[s][o] \in Running => monitor[s][o] \in Running
  BY <1>1 DEF Running
<1>8. phase[s] = "done" => reports'[s] = <<>>
  BY <1>1, <1>2 DEF MonitorsOf, Holding
<1>9. MonitorsOf(s)'
  BY <1>1, <1>5, <1>6, <1>7, <1>8 DEF MonitorsOf
<1> QED BY <1>3, <1>9, OneAtATime

\* Every step of a monitor.
LEMMA MonitorSteps ==
    ASSUME TypeInv, MonitorInv, NEW s \in Session,
           \/ \E p \in Ports : Bind(s, p) \/ MonitorFails(s, p) \/ MonitorStops(s, p)
           \/ \E v \in Visitors : MonitorAccepts(s, v)
    PROVE  MonitorInv'
<1> USE DEF registryVars, visitorVars
<1>1. ASSUME NEW p \in Ports, Bind(s, p) PROVE MonitorInv'
  <2>1. CASE CanBind(p)
    <3>1. /\ monitor[s][p] = "starting" /\ monitor' = [monitor EXCEPT ![s][p] = "listening"]
          /\ UNCHANGED <<phase, ports, hired, reports>>
      BY <1>1, <2>1 DEF Bind
    <3>2. /\ \A o \in Ports : monitor'[s][o] \in Running => monitor[s][o] \in Running
          /\ \A o \in Ports : monitor[s][o] = "dead" => monitor'[s][o] = "dead"
          /\ LeavesOthers(s)
      BY <3>1, MonitorTypes DEF Running, LeavesOthers
    <3>3. MonitorsOf(s) /\ phase[s] \notin Early
      BY <3>1 DEF MonitorInv, MonitorsOf
    <3>4. \A i \in DOMAIN reports[s] : reports[s][i].report = "error" => reports[s][i].port \in Ports
      BY MonitorTypes, ReportKinds
    <3>5. MonitorsOf(s)'
      BY <3>1, <3>2, <3>3, <3>4 DEF MonitorsOf, ErrorsOf
    <3> QED BY <3>2, <3>5, OneAtATime
  <2>2. CASE ~CanBind(p)
    BY <1>1, <2>2, DyingKeeps DEF Bind, Dies, Running
  <2> QED BY <2>1, <2>2
<1>2. ASSUME NEW p \in Ports, MonitorFails(s, p) PROVE MonitorInv'
  BY <1>2, DyingKeeps DEF MonitorFails, Dies, Running
<1>3. ASSUME NEW p \in Ports, MonitorStops(s, p) PROVE MonitorInv'
  BY <1>3, DyingKeeps DEF MonitorStops, Running
<1>4. ASSUME NEW v \in Visitors, MonitorAccepts(s, v) PROVE MonitorInv'
  <2>1. PortOf[v] \in Ports /\ monitor[s][PortOf[v]] = "listening"
    BY <1>4, MonitorTypes DEF MonitorAccepts
  <2>2. CASE HasController(s)
    <3>1. /\ reports' = [reports EXCEPT ![s] = Append(reports[s], New(v))]
          /\ UNCHANGED <<phase, ports, hired, monitor>>
      BY <1>4, <2>2 DEF MonitorAccepts, Sent
    <3>2. /\ reports[s] \in Seq(Report) /\ reports'[s] = Append(reports[s], New(v))
          /\ LeavesOthers(s)
      BY <3>1, MonitorTypes DEF LeavesOthers
    <3>3. MonitorsOf(s) /\ phase[s] \in Holding
      BY <2>1, <2>2, RunningIsKnown DEF MonitorInv, Running
    <3>4. ErrorsOf(reports'[s], hired[s], monitor[s])
      BY <3>2, <3>3, VisitorReported DEF MonitorsOf
    <3>5. MonitorsOf(s)'
      BY <3>1, <3>3, <3>4 DEF MonitorsOf, Early, Holding
    <3> QED BY <3>2, <3>5, OneAtATime
  <2>3. CASE ~HasController(s)
    <3>1. /\ monitor' = [monitor EXCEPT ![s][PortOf[v]] = "dead"]
          /\ UNCHANGED <<phase, ports, hired, reports>>
      BY <1>4, <2>3 DEF MonitorAccepts
    <3> QED BY <2>1, <3>1, DyingKeeps DEF Running
  <2> QED BY <2>2, <2>3
<1> QED BY <1>1, <1>2, <1>3, <1>4

-----------------------------------------------------------------------------
(* All steps.                                                              *)

\* Every step keeps the invariant.
LEMMA NextKeepsMonitors == ASSUME TypeInv, MonitorInv, [Next]_vars PROVE MonitorInv'
<1>1. ASSUME UNCHANGED serverVars PROVE MonitorInv'
  BY <1>1, MonitorsUntouched DEF serverVars
<1>2. ASSUME ServerNext PROVE MonitorInv'
  <2>1. ASSUME NEW s \in Session, NEW v \in Visitors, ServerMsg(s, v)
        PROVE  MonitorInv'
    BY <2>1, MonitorsUntouched DEF ServerMsg, serverVars
  <2>2. ASSUME NEW s \in Session, ReadHeartbeat(s) PROVE MonitorInv'
    BY <2>2, MonitorsUntouched DEF ReadHeartbeat, serverVars
  <2>3. ASSUME NEW v \in Visitors,
               OnAcceptChannel(v) \/ MakeChannel(v) \/ PendingTimeout(v) \/ RelayEnds(v)
        PROVE  MonitorInv'
    BY <2>3, MonitorsUntouched
       DEF OnAcceptChannel, MakeChannel, PendingTimeout, RelayEnds, registryVars, monitorVars,
           serverVars
  <2>4. ASSUME AcceptLoopFails PROVE MonitorInv'
    BY <2>4, MonitorsUntouched DEF AcceptLoopFails, serverVars
  <2> QED
    BY <1>2, <2>1, <2>2, <2>3, <2>4, ControllerMoves, ReplyStartsMonitors, ReportIsTaken,
       ControllerIsDropped, MonitorSteps DEF ServerNext
<1> QED BY <1>1, <1>2 DEF Next, vars

\* The invariant of controllers and their monitors.
LEMMA MonitorInvariance == Spec => []MonitorInv
<1>1. Spec => [](TypeInv /\ MonitorInv)
  <2>1. TypeInv /\ MonitorInv /\ [Next]_vars => MonitorInv'
    BY NextKeepsMonitors
  <2> QED BY <2>1, InitMonitors, TypeInvariance, PTL DEF Spec
<1> QED BY <1>1, PTL

\* The unwrap of fired (chat/mod.rs:92) never panics: an Error report names a
\* monitor that its leader still knows.
THEOREM ErrorsNameHired == Spec => []ErrorNamesHired
<1>1. MonitorInv => ErrorNamesHired
  BY DEF MonitorInv, MonitorsOf, ErrorsOf, ErrorNamesHired
<1> QED BY <1>1, MonitorInvariance, PTL

\* Whoever listens on a port that has been granted to another is the monitor
\* of a controller that is gone.
THEOREM StaleListenersAreEnded == Spec => []StaleListenerIsEnded
<1>1. ASSUME TypeInv, RegistryInv, MonitorInv PROVE StaleListenerIsEnded
  <2> SUFFICES ASSUME NEW s \in Session, NEW t \in Session, NEW p \in Ports,
                      s # t, monitor[s][p] = "listening", p \in Held(t)
               PROVE  phase[s] = "done"
    BY DEF StaleListenerIsEnded
  <2>1. CASE phase[s] \in Holding /\ p \in ports[s]
    BY <1>1, <2>1 DEF RegistryInv, PortsHeldOnce, Held, Holding
  <2> QED BY <1>1, <2>1, RunningIsKnown DEF Running
<1> QED BY <1>1, TypeInvariance, RegistryInvariance, MonitorInvariance, PTL

-----------------------------------------------------------------------------
(***************************************************************************)
(* 4. The handshake.  Where a client stands says where its controller can  *)
(* stand and which frames can be on their way between them.  HandshakeInv  *)
(* says it for each stage of a client; it is inductive relative to the     *)
(* types and to RegistryInv.  A step of the server or of the network       *)
(* carries every stage of its session over (Carries); a step of a client   *)
(* takes it from one stage to the next.  The links agree by it, the client *)
(* is sent what it expects, and replies go out, so that no port is lost.   *)
(***************************************************************************)

Over == {"cleanup", "done"}
Announcing(queue) == \A i \in DOMAIN queue : queue[i].type = "new_channel"
Asks(queue) == \E i \in DOMAIN queue : queue[i].type = "push_config"

\* A session that no client has opened yet.
Untouched(s) ==
    /\ phase[s] = "first" /\ cli[s] = "none" /\ srv[s] = "none"
    /\ up[s] = <<>> /\ down[s] = <<>>

\* The stages of a client, seen from its session: what it is about to write
\* or waits to read, and the links it asked for or was left with.
AtHello(s) == phase[s] \in {"first", "done"} /\ up[s] = <<>> /\ down[s] = <<>>
AtId(s) ==
    /\ phase[s] \in {"first", "hello", "config"} \cup Over
    /\ up[s] # <<>> => up[s] = <<NewClient>> /\ down[s] = <<>> /\ phase[s] \in {"first", "done"}
    /\ down[s] # <<>> => down[s] = <<AcceptClient(s)>> /\ phase[s] \notin {"first", "hello"}
AtPush(s) == phase[s] \in {"config"} \cup Over /\ up[s] = <<>> /\ down[s] = <<>>
Answered(s, wanted) ==
    /\ down[s] # <<>> /\ Head(down[s]).type = "accept_config" /\ Announcing(Tail(down[s]))
    /\ Granted(s) =>
         /\ ports[s] \subseteq wanted
         /\ \/ Head(down[s]) = AcceptConfigAll /\ ports[s] = wanted
            \/ Head(down[s]) = AcceptConfigPart(ports[s])
AtConfig(s, wanted) ==
    /\ phase[s] \notin {"first", "hello"}
    /\ up[s] # <<>> =>
         /\ phase[s] \in {"config"} \cup Over
         /\ \E msg \in ClientMessage :
              up[s] = <<msg>> /\ msg.type = "push_config" /\ msg.ports = wanted
    /\ phase[s] \in {"config", "lock", "reply"} => down[s] = <<>>
    /\ phase[s] \in {"lock", "reply"} => asked[s] = wanted
    /\ cli[s] = "open" =>
         \/ down[s] = <<>> /\ (Granted(s) => srv[s] # "open")
         \/ Answered(s, wanted)
AtRun(s, kept) ==
    /\ phase[s] \in {"serve", "notify"} \cup Over
    /\ Announcing(down[s])
    /\ Granted(s) => ports[s] = kept

Stage(c) ==
    /\ cphase[c] = "hello" => AtHello(conn[c])
    /\ cphase[c] = "id" => AtId(conn[c])
    /\ cphase[c] = "push" => AtPush(conn[c])
    /\ cphase[c] = "config" => AtConfig(conn[c], links[c])
    /\ cphase[c] = "run" => AtRun(conn[c], links[c])
    /\ cphase[c] \in {"push", "config", "run"} => id[c] = conn[c]

\* A controller that waits for a configuration, or answers one, has written
\* nothing that its client has not read.
Unheard(s) ==
    /\ (phase[s] \in {"first", "hello", "config"} /\ Asks(up[s])) =>
         phase[s] = "config" /\ down[s] = <<>>
    /\ phase[s] \in {"lock", "reply"} => down[s] = <<>>

OneClientEach ==
    /\ \A c \in Clients : conn[c] <= opened
    /\ \A c, d \in Clients : c # d => conn[c] # conn[d] \/ conn[c] = NoOne
Fresh == \A s \in Session : s > opened => Untouched(s)
TakesWhatIsAsked == \A s \in Session : phase[s] = "reply" => success \subseteq asked[s]

HandshakeInv ==
    /\ OneClientEach /\ Fresh /\ TakesWhatIsAsked
    /\ \A s \in Session : Unheard(s)
    /\ \A c \in Clients : Stage(c)

\* The types the argument needs.
LEMMA HandshakeTypes ==
    ASSUME TypeInv
    PROVE  /\ phase \in [Session -> Phase] /\ ports \in [Session -> SUBSET Ports]
           /\ success \in SUBSET Ports /\ asked \in [Session -> SUBSET Ports]
           /\ cli \in [Session -> End] /\ srv \in [Session -> End]
           /\ up \in [Session -> Seq(ClientMessage)] /\ down \in [Session -> Seq(ServerMessage)]
           /\ cphase \in [Clients -> ClientPhase] /\ conn \in [Clients -> Session \cup {NoOne}]
           /\ id \in [Clients -> Session \cup {NoOne}] /\ links \in [Clients -> SUBSET Ports]
           /\ opened \in Nat /\ opened <= MaxSessions /\ MaxSessions \in Nat
           /\ \A c \in Clients : cphase[c] \notin {"connect", "down"} => conn[c] \in Session
           /\ Session = 1..MaxSessions /\ NoOne = 0
<1>1. TypeOK /\ ClientBound
  BY DEF TypeInv
<1>2. opened \in Nat /\ opened <= MaxSessions /\ MaxSessions \in Nat
  BY <1>1, WireAssumption DEF TypeOK, WireTypeOK
<1>3. Session = 1..MaxSessions /\ NoOne = 0
  BY DEF Session, NoOne
<1> QED BY <1>1, <1>2, <1>3 DEF TypeOK, WireTypeOK, ServerTypeOK, ClientTypeOK, ClientBound

\* The types of messages, by which their readers tell them apart.
LEMMA Kinds ==
    /\ NewClient.type = "new_client" /\ Heartbeat.type = "heartbeat"
    /\ \A w, b : PushConfig(w, b).type = "push_config" /\ PushConfig(w, b).ports = w
    /\ \A s : AcceptClient(s).type = "accept_client" /\ AcceptClient(s).id = s
    /\ AcceptConfigAll.type = "accept_config" /\ AcceptConfigAll.accepted = "all"
    /\ \A w : /\ AcceptConfigPart(w).type = "accept_config"
              /\ AcceptConfigPart(w).accepted = "part" /\ AcceptConfigPart(w).ports = w
    /\ \A p, v : NewChannel(p, v).type = "new_channel"
BY DEF NewClient, Heartbeat, PushConfig, AcceptClient, AcceptConfigAll, AcceptConfigPart,
       NewChannel

\* What reading and writing do to a queue.
LEMMA Queues ==
    ASSUME NEW M, NEW q \in Seq(M), NEW m \in M
    PROVE  /\ Append(q, m) # <<>>
           /\ q = <<>> => Append(q, m) = <<m>> /\ Head(Append(q, m)) = m /\ Tail(Append(q, m)) = <<>>
           /\ q # <<>> => Head(Append(q, m)) = Head(q) /\ Tail(Append(q, m)) = Append(Tail(q), m)
           /\ Announcing(q) /\ m.type = "new_channel" => Announcing(Append(q, m))
           /\ Asks(Append(q, m)) => Asks(q) \/ m.type = "push_config"
           /\ q # <<>> => Head(q) \in M /\ Tail(q) \in Seq(M)
           /\ q # <<>> /\ Announcing(q) => Head(q).type = "new_channel" /\ Announcing(Tail(q))
           /\ q # <<>> /\ Asks(Tail(q)) => Asks(q)
           /\ q # <<>> /\ Head(q).type = "push_config" => Asks(q)
           /\ Head(<<m>>) = m /\ Tail(<<m>>) = <<>> /\ <<m>> # <<>>
           /\ Announcing(<<>>) /\ ~Asks(<<>>)
<1>1. /\ Len(q) \in Nat /\ DOMAIN q = 1..Len(q)
      /\ DOMAIN Append(q, m) = 1..(Len(q) + 1)
      /\ \A i \in 1..Len(q) : Append(q, m)[i] = q[i]
      /\ Append(q, m)[Len(q) + 1] = m
  OBVIOUS
<1>2. q # <<>> => /\ 1 \in DOMAIN q /\ Head(q) = q[1] /\ DOMAIN Tail(q) = 1..(Len(q) - 1)
                  /\ \A i \in DOMAIN Tail(q) : Tail(q)[i] = q[i + 1] /\ i + 1 \in DOMAIN q
                  /\ Head(q) \in M /\ Tail(q) \in Seq(M)
  OBVIOUS
<1>3. Append(q, m) # <<>> /\ (q = <<>> => Append(q, m) = <<m>>)
  <2>1. Append(q, m) \in Seq(M) /\ Len(Append(q, m)) = Len(q) + 1
    BY AppendProperties
  <2>2. <<m>> \in Seq(M) /\ Len(<<m>>) = 1 /\ <<m>>[1] = m
    OBVIOUS
  <2>3. q = <<>> => Len(q) = 0
    OBVIOUS
  <2>4. q = <<>> => /\ Len(Append(q, m)) = Len(<<m>>)
                    /\ \A i \in 1..Len(Append(q, m)) : Append(q, m)[i] = <<m>>[i]
    BY <1>1, <2>1, <2>2, <2>3
  <2>5. q = <<>> => Append(q, m) = <<m>>
    BY <2>1, <2>2, <2>4, SeqEqual
  <2>6. Append(q, m) # <<>>
    BY <1>1, <2>1
  <2> QED BY <2>5, <2>6
<1>4. q # <<>> => Head(Append(q, m)) = Head(q) /\ Tail(Append(q, m)) = Append(Tail(q), m)
  BY HeadTailAppend
<1>5. Head(<<m>>) = m /\ Tail(<<m>>) = <<>> /\ <<m>> # <<>>
  OBVIOUS
<1>6. Announcing(q) /\ m.type = "new_channel" => Announcing(Append(q, m))
  BY <1>1 DEF Announcing
<1>7. Asks(Append(q, m)) => Asks(q) \/ m.type = "push_config"
  BY <1>1 DEF Asks
<1>8. q # <<>> /\ Announcing(q) => Head(q).type = "new_channel" /\ Announcing(Tail(q))
  BY <1>2 DEF Announcing
<1>9. q # <<>> => (Asks(Tail(q)) => Asks(q)) /\ (Head(q).type = "push_config" => Asks(q))
  BY <1>2 DEF Asks
<1>10. Announcing(<<>>) /\ ~Asks(<<>>)
  BY DEF Announcing, Asks
<1> QED BY <1>2, <1>3, <1>4, <1>5, <1>6, <1>7, <1>8, <1>9, <1>10

-----------------------------------------------------------------------------
(* Steps of the server and of the network.                                 *)

\* Nothing of session t changes.
Unmoved(t) ==
    /\ phase'[t] = phase[t] /\ cli'[t] = cli[t] /\ srv'[t] = srv[t] /\ up'[t] = up[t]
    /\ down'[t] = down[t] /\ asked'[t] = asked[t] /\ ports'[t] = ports[t]

\* Session t stays where its client expects it.
Carries(t) ==
    /\ Untouched(t) => Untouched(t)'
    /\ AtHello(t) => AtHello(t)'
    /\ AtId(t) => AtId(t)'
    /\ AtPush(t) => AtPush(t)'
    /\ \A wanted \in SUBSET Ports : AtConfig(t, wanted) => AtConfig(t, wanted)'
    /\ \A kept \in SUBSET Ports : AtRun(t, kept) => AtRun(t, kept)'
    /\ Unheard(t) => Unheard(t)'

\* What is left alone is carried over.
LEMMA UnmovedCarried == ASSUME NEW t \in Session, Unmoved(t) PROVE Carries(t)
BY DEF Unmoved, Carries, Untouched, AtHello, AtId, AtPush, AtConfig, Answered, AtRun, Unheard,
       Granted

\* The clients are where they were, and their sessions with them.
LEMMA ClientsCarried ==
    ASSUME TypeInv, HandshakeInv, TakesWhatIsAsked',
           UNCHANGED <<opened, cphase, conn, id, links>>,
           \A t \in Session : Carries(t)
    PROVE  HandshakeInv'
<1>1. OneClientEach'
  BY DEF HandshakeInv, OneClientEach
<1>2. Fresh' /\ \A t \in Session : Unheard(t)'
  BY DEF HandshakeInv, Fresh, Carries
<1>3. ASSUME NEW c \in Clients PROVE Stage(c)'
  <2>1. Stage(c)
    BY DEF HandshakeInv
  <2>2. CASE cphase[c] \in {"connect", "down"}
    BY <2>1, <2>2 DEF Stage
  <2>3. CASE cphase[c] \notin {"connect", "down"}
    <3>1. conn[c] \in Session /\ links[c] \in SUBSET Ports /\ Carries(conn[c])
      BY <2>3, HandshakeTypes
    <3> QED BY <2>1, <3>1 DEF Stage, Carries
  <2> QED BY <2>2, <2>3
<1> QED BY <1>1, <1>2, <1>3 DEF HandshakeInv

\* The network empties the queues of a session and breaks an end of it.
LEMMA LossCarried ==
    ASSUME TypeInv, NEW s \in Session,
           up' = [up EXCEPT ![s] = <<>>], down' = [down EXCEPT ![s] = <<>>],
           NEW c \in End, NEW e \in End,
           cli' = [cli EXCEPT ![s] = c], srv' = [srv EXCEPT ![s] = e],
           cli[s] # "none" \/ srv[s] # "none",
           c = "open" => e # "open",
           UNCHANGED <<phase, asked, ports>>
    PROVE  \A t \in Session : Carries(t)
<1>1. /\ phase'[s] = phase[s] /\ cli'[s] = c /\ srv'[s] = e /\ up'[s] = <<>> /\ down'[s] = <<>>
      /\ asked'[s] = asked[s] /\ ports'[s] = ports[s]
  BY HandshakeTypes
<1>2. \A t \in Session : t # s => Unmoved(t)
  BY HandshakeTypes DEF Unmoved
<1>3. Carries(s)
  BY <1>1, Queues DEF Carries, Untouched, AtHello, AtId, AtPush, AtConfig, Answered, AtRun, Unheard,
         Granted, Asks, Announcing
<1> QED BY <1>2, <1>3, UnmovedCarried

\* Every step of the network.
LEMMA WireCarried ==
    ASSUME TypeInv, NEW s \in Session, ResetServerEnd(s) \/ ResetClientEnd(s) \/ LinkFails(s),
           UNCHANGED <<phase, asked, ports>>
    PROVE  \A t \in Session : Carries(t)
<1>1. CASE ResetServerEnd(s)
  <2>1. /\ cli' = [cli EXCEPT ![s] = cli[s]] /\ srv' = [srv EXCEPT ![s] = "broken"]
        /\ cli[s] \in End /\ cli[s] # "open" /\ cli[s] # "none" /\ "broken" \in End
    BY <1>1, HandshakeTypes DEF ResetServerEnd, Gone, End
  <2> QED BY <1>1, <2>1, LossCarried DEF ResetServerEnd
<1>2. CASE ResetClientEnd(s)
  <2>1. /\ cli' = [cli EXCEPT ![s] = "broken"] /\ srv' = [srv EXCEPT ![s] = srv[s]]
        /\ srv[s] \in End /\ cli[s] # "none" /\ "broken" \in End
    BY <1>2, HandshakeTypes DEF ResetClientEnd, Gone, End
  <2> QED BY <1>2, <2>1, LossCarried DEF ResetClientEnd
<1>3. CASE LinkFails(s)
  <2>1. PICK ends \in (SUBSET {"client", "server"}) \ {{}} :
          /\ "client" \in ends => cli[s] = "open"
          /\ "server" \in ends => srv[s] = "open"
          /\ cli' = [cli EXCEPT ![s] = IF "client" \in ends THEN "broken" ELSE cli[s]]
          /\ srv' = [srv EXCEPT ![s] = IF "server" \in ends THEN "broken" ELSE srv[s]]
    BY <1>3 DEF LinkFails
  <2>2. "client" \in ends \/ "server" \in ends
    BY <2>1
  <2>3. PICK c \in End, e \in End :
          /\ cli' = [cli EXCEPT ![s] = c] /\ srv' = [srv EXCEPT ![s] = e]
          /\ cli[s] # "none" \/ srv[s] # "none"
          /\ c = "open" => e # "open"
    <3> DEFINE c == IF "client" \in ends THEN "broken" ELSE cli[s]
               e == IF "server" \in ends THEN "broken" ELSE srv[s]
    <3>1. cli' = [cli EXCEPT ![s] = c] /\ srv' = [srv EXCEPT ![s] = e]
      BY <2>1
    <3>2. c \in End /\ e \in End /\ (c = "open" => e # "open")
      BY <2>2, HandshakeTypes DEF End
    <3>3. cli[s] # "none" \/ srv[s] # "none"
      BY <2>1, <2>2
    <3> HIDE DEF c, e
    <3> QED BY <3>1, <3>2, <3>3
  <2> QED BY <1>3, <2>3, LossCarried DEF LinkFails
<1> QED BY <1>1, <1>2, <1>3

\* A step of the task that serves session s, and of no other.
OnlyAt(s) == \A t \in Session : t # s => Unmoved(t)

LEMMA OneSession ==
    ASSUME NEW s \in Session, OnlyAt(s), Carries(s)
    PROVE  \A t \in Session : Carries(t)
BY UnmovedCarried DEF OnlyAt

\* on_new_connection.
LEMMA FirstCarried ==
    ASSUME TypeInv, NEW s \in Session, OnNewClient(s) \/ FirstReadFails(s)
    PROVE  \A t \in Session : Carries(t)
<1> USE DEF registryVars
<1>1. CASE OnNewClient(s)
  <2>1. /\ phase[s] = "first" /\ up[s] # <<>> /\ up[s] \in Seq(ClientMessage)
        /\ srv[s] = "open" /\ up'[s] = Tail(up[s])
        /\ UNCHANGED <<cli, down, asked, ports>>
    BY <1>1, HandshakeTypes DEF OnNewClient, ServerHears, Taken
  <2>2. Head(up[s]).type = "new_client" => phase'[s] = "hello" /\ srv' = srv
    BY <1>1, HandshakeTypes DEF OnNewClient
  <2>3. Head(up[s]).type # "new_client" => phase'[s] = "done"
    BY <1>1, HandshakeTypes DEF OnNewClient
  <2>4. OnlyAt(s)
    BY <1>1, HandshakeTypes DEF OnNewClient, Taken, OnlyAt, Unmoved
  <2>5. up[s] = <<NewClient>> => Head(up[s]).type = "new_client" /\ Tail(up[s]) = <<>>
    BY Kinds, Queues
  <2>6. Asks(Tail(up[s])) => Asks(up[s])
    BY <2>1, Queues
  <2>7. Carries(s)
    BY <2>1, <2>2, <2>3, <2>5, <2>6
       DEF Carries, Untouched, AtHello, AtId, AtPush, AtConfig, AtRun, Unheard, Over
  <2> QED BY <2>4, <2>7, OneSession
<1>2. CASE FirstReadFails(s)
  <2>1. /\ phase[s] = "first" /\ phase'[s] = "done" /\ srv[s] = "broken"
        /\ UNCHANGED <<cli, up, down, asked, ports>>
    BY <1>2, HandshakeTypes DEF FirstReadFails
  <2>2. OnlyAt(s)
    BY <1>2, HandshakeTypes DEF FirstReadFails, OnlyAt, Unmoved
  <2>3. Carries(s)
    BY <2>1 DEF Carries, Untouched, AtHello, AtId, AtPush, AtConfig, AtRun, Unheard, Over
  <2> QED BY <2>2, <2>3, OneSession
<1> QED BY <1>1, <1>2

\* prepare, up to the lock.
LEMMA PrepareCarried ==
    ASSUME TypeInv, NEW s \in Session, SendAcceptClient(s) \/ ReadConfig(s)
    PROVE  \A t \in Session : Carries(t)
<1> USE DEF registryVars, Goes
<1>1. CASE SendAcceptClient(s)
  <2>1. /\ phase[s] = "hello" /\ down[s] \in Seq(ServerMessage)
        /\ UNCHANGED <<cli, srv, up, asked, ports>>
    BY <1>1, HandshakeTypes DEF SendAcceptClient
  <2>2. srv[s] = "open" => phase'[s] = "config" /\ down'[s] = Append(down[s], AcceptClient(s))
    BY <1>1, HandshakeTypes DEF SendAcceptClient, Sent
  <2>3. srv[s] # "open" => phase'[s] = "cleanup" /\ down' = down
    BY <1>1, HandshakeTypes DEF SendAcceptClient
  <2>4. OnlyAt(s)
    BY <1>1, HandshakeTypes DEF SendAcceptClient, Sent, OnlyAt, Unmoved
  <2>5. down[s] = <<>> => Append(down[s], AcceptClient(s)) = <<AcceptClient(s)>>
    BY <2>1, Queues, ServerMessages
  <2>6. Carries(s)
    BY <2>1, <2>2, <2>3, <2>5
       DEF Carries, Untouched, AtHello, AtId, AtPush, AtConfig, AtRun, Unheard, Over
  <2> QED BY <2>4, <2>6, OneSession
<1>2. CASE ReadConfig(s)
  <2>1. /\ phase[s] = "config" /\ up[s] # <<>> /\ up[s] \in Seq(ClientMessage)
        /\ up'[s] = Tail(up[s])
        /\ UNCHANGED <<cli, srv, down, ports>>
    BY <1>2, HandshakeTypes DEF ReadConfig, ServerHears, Taken
  <2>2. Head(up[s]).type = "push_config" => phase'[s] = "lock" /\ asked'[s] = Head(up[s]).ports
    BY <1>2, HandshakeTypes DEF ReadConfig
  <2>3. Head(up[s]).type # "push_config" => phase'[s] = "cleanup" /\ asked' = asked
    BY <1>2, HandshakeTypes DEF ReadConfig
  <2>4. OnlyAt(s)
    BY <1>2, HandshakeTypes DEF ReadConfig, Taken, OnlyAt, Unmoved
  <2>5. Head(up[s]).type = "push_config" => Asks(up[s])
    BY <2>1, Queues
  <2>6. ASSUME NEW msg \in ClientMessage, up[s] = <<msg>>
        PROVE  Head(up[s]) = msg /\ Tail(up[s]) = <<>>
    BY <2>6, Queues
  <2>7. Carries(s)
    <3>1. ASSUME NEW wanted \in SUBSET Ports, AtConfig(s, wanted) PROVE AtConfig(s, wanted)'
      <4>1. down[s] = <<>>
        BY <2>1, <3>1 DEF AtConfig
      <4>2. PICK msg \in ClientMessage :
              up[s] = <<msg>> /\ msg.type = "push_config" /\ msg.ports = wanted
        BY <2>1, <3>1 DEF AtConfig
      <4>3. phase'[s] = "lock" /\ asked'[s] = wanted /\ up'[s] = <<>> /\ down'[s] = <<>>
        BY <2>1, <2>2, <2>6, <4>1, <4>2
      <4> QED BY <4>3 DEF AtConfig, Granted
    <3>2. Unheard(s) => Unheard(s)'
      BY <2>1, <2>2, <2>3, <2>5 DEF Unheard
    <3> QED BY <2>1, <3>1, <3>2 DEF Carries, Untouched, AtHello, AtId, AtPush, AtRun, Over
  <2> QED BY <2>4, <2>7, OneSession
<1> QED BY <1>1, <1>2

\* What the reply says of a request is what its client will read in it.
LEMMA Replies ==
    ASSUME NEW s \in Session, success \subseteq asked[s]
    PROVE  /\ Reply(s).type = "accept_config"
           /\ \/ Reply(s) = AcceptConfigAll /\ success = asked[s]
              \/ Reply(s) = AcceptConfigPart(success)
BY Kinds DEF Reply

\* accept_config.
LEMMA AnswerCarried ==
    ASSUME TypeInv, TakesWhatIsAsked, NEW s \in Session, AcquirePorts(s) \/ WriteReply(s)
    PROVE  \A t \in Session : Carries(t)
<1> USE DEF Goes
<1>1. CASE AcquirePorts(s)
  <2>1. phase[s] = "lock" /\ phase'[s] = "reply" /\ UNCHANGED <<cli, srv, up, down, asked, ports>>
    BY <1>1, HandshakeTypes DEF AcquirePorts, wireVars
  <2>2. OnlyAt(s)
    BY <1>1, HandshakeTypes DEF AcquirePorts, wireVars, OnlyAt, Unmoved
  <2>3. Carries(s)
    BY <2>1 DEF Carries, Untouched, AtHello, AtId, AtPush, AtConfig, Answered, AtRun, Unheard, Over,
                Granted
  <2> QED BY <2>2, <2>3, OneSession
<1>2. CASE WriteReply(s)
  <2>1. /\ phase[s] = "reply" /\ success \subseteq asked[s] /\ down[s] \in Seq(ServerMessage)
        /\ UNCHANGED <<cli, srv, up>>
    BY <1>2, HandshakeTypes DEF WriteReply, TakesWhatIsAsked
  <2>2. srv[s] = "open" =>
          phase'[s] = "serve" /\ down'[s] = Append(down[s], Reply(s)) /\ ports'[s] = success
    BY <1>2, HandshakeTypes DEF WriteReply, Sent
  <2>3. srv[s] # "open" => phase'[s] = "cleanup" /\ down' = down
    BY <1>2, HandshakeTypes DEF WriteReply
  <2>4. OnlyAt(s)
    <3>1. ports' = [ports EXCEPT ![s] = success] \/ ports' = ports
      BY <1>2 DEF WriteReply
    <3>2. \A t \in Session : t # s => ports'[t] = ports[t]
      BY <3>1, HandshakeTypes
    <3> QED BY <1>2, <3>2, HandshakeTypes DEF WriteReply, Sent, OnlyAt, Unmoved
  <2>5. Reply(s) \in ServerMessage
    BY <2>1, HandshakeTypes, ServerMessages DEF Reply
  <2>6. ASSUME down[s] = <<>>
        PROVE  /\ Append(down[s], Reply(s)) # <<>>
               /\ Head(Append(down[s], Reply(s))) = Reply(s)
               /\ Tail(Append(down[s], Reply(s))) = <<>>
    BY <2>1, <2>5, <2>6, Queues
  <2>7. ASSUME NEW wanted \in SUBSET Ports, AtConfig(s, wanted) PROVE AtConfig(s, wanted)'
    <3>1. up[s] = <<>> /\ down[s] = <<>> /\ asked[s] = wanted
      BY <2>1, <2>7 DEF AtConfig, Over
    <3>2. CASE srv[s] = "open"
      <4>0. /\ down'[s] # <<>> /\ Head(down'[s]) = Reply(s) /\ Tail(down'[s]) = <<>>
            /\ ports'[s] = success
        BY <2>2, <2>6, <3>1, <3>2
      <4>1. Answered(s, wanted)'
        BY <2>1, <3>1, <4>0, Replies DEF Answered, Announcing
      <4> QED BY <2>1, <2>2, <3>1, <3>2, <4>1 DEF AtConfig
    <3>3. CASE srv[s] # "open"
      BY <2>1, <2>3, <3>1, <3>3 DEF AtConfig, Granted
    <3> QED BY <3>2, <3>3
  <2>8. Carries(s)
    BY <2>1, <2>2, <2>3, <2>7 DEF Carries, Untouched, AtHello, AtId, AtPush, AtRun, Unheard, Over
  <2> QED BY <2>4, <2>8, OneSession
<1> QED BY <1>1, <1>2

\* main_loop, but for its write.
LEMMA LoopCarried ==
    ASSUME TypeInv, NEW s \in Session,
           ReadHeartbeat(s) \/ HeartbeatTimeout(s) \/ ReadFails(s) \/ TakeReport(s) \/ Cleanup(s)
    PROVE  \A t \in Session : Carries(t)
<1> USE DEF Goes
<1>1. CASE ReadHeartbeat(s)
  <2>1. /\ phase[s] = "serve" /\ up[s] # <<>> /\ up[s] \in Seq(ClientMessage)
        /\ up'[s] = Tail(up[s])
        /\ UNCHANGED <<phase, cli, srv, down, asked, ports>>
    BY <1>1, HandshakeTypes DEF ReadHeartbeat, ServerHears, Taken, serverVars
  <2>2. OnlyAt(s)
    BY <1>1, HandshakeTypes DEF ReadHeartbeat, Taken, serverVars, OnlyAt, Unmoved
  <2>3. Carries(s)
    BY <2>1 DEF Carries, Untouched, AtHello, AtId, AtPush, AtConfig, Answered, AtRun, Unheard, Over,
                Granted
  <2> QED BY <2>2, <2>3, OneSession
<1>2. CASE HeartbeatTimeout(s) \/ ReadFails(s)
  <2>1. /\ phase[s] \in {"config", "serve"} /\ phase'[s] = "cleanup"
        /\ srv[s] = "open" \/ srv[s] = "broken"
        /\ UNCHANGED <<cli, srv, up, down, asked, ports>>
    BY <1>2, HandshakeTypes
       DEF HeartbeatTimeout, Silent, ReadFails, wireVars, registryVars
  <2>2. OnlyAt(s)
    BY <1>2, HandshakeTypes DEF HeartbeatTimeout, ReadFails, wireVars, registryVars, OnlyAt, Unmoved
  <2>3. Carries(s)
    BY <2>1 DEF Carries, Untouched, AtHello, AtId, AtPush, AtConfig, Answered, AtRun, Unheard, Over,
                Granted
  <2> QED BY <2>2, <2>3, OneSession
<1>3. CASE TakeReport(s)
  <2>1. /\ phase[s] = "serve" /\ phase'[s] \in {"serve", "notify"}
        /\ UNCHANGED <<cli, srv, up, down, asked, ports>>
    BY <1>3, HandshakeTypes DEF TakeReport, wireVars, registryVars
  <2>2. OnlyAt(s)
    BY <1>3, HandshakeTypes DEF TakeReport, wireVars, registryVars, OnlyAt, Unmoved
  <2>3. Carries(s)
    BY <2>1 DEF Carries, Untouched, AtHello, AtId, AtPush, AtConfig, Answered, AtRun, Unheard, Over,
                Granted
  <2> QED BY <2>2, <2>3, OneSession
<1>4. CASE Cleanup(s)
  <2>1. /\ phase[s] = "cleanup" /\ phase'[s] = "done"
        /\ UNCHANGED <<cli, up, down, asked>>
    BY <1>4, HandshakeTypes DEF Cleanup
  <2>2. OnlyAt(s)
    BY <1>4, HandshakeTypes DEF Cleanup, OnlyAt, Unmoved
  <2>3. Carries(s)
    BY <2>1 DEF Carries, Untouched, AtHello, AtId, AtPush, AtConfig, Answered, AtRun, Unheard, Over,
                Granted
  <2> QED BY <2>2, <2>3, OneSession
<1> QED BY <1>1, <1>2, <1>3, <1>4

\* new_channel's write.
LEMMA NotifyCarried ==
    ASSUME TypeInv, NEW s \in Session, NotifyClient(s)
    PROVE  \A t \in Session : Carries(t)
<1> DEFINE msg == NewChannel(PortOf[notifying[s]], notifying[s])
<1>1. /\ phase[s] = "notify" /\ down[s] \in Seq(ServerMessage)
      /\ msg \in ServerMessage /\ msg.type = "new_channel"
      /\ UNCHANGED <<cli, srv, up, asked, ports>>
  <2>1. notifying[s] \in Visitors /\ PortOf[notifying[s]] \in Ports
    BY WireAssumption DEF NotifyClient, TypeInv, ServerBound
  <2> QED BY <2>1, HandshakeTypes, ServerMessages, Kinds DEF NotifyClient, registryVars
<1>2. srv[s] = "open" => phase'[s] = "serve" /\ down'[s] = Append(down[s], msg)
  BY HandshakeTypes DEF NotifyClient, Goes, Sent
<1>3. srv[s] # "open" => phase'[s] = "cleanup" /\ down' = down
  BY HandshakeTypes DEF NotifyClient, Goes
<1>4. OnlyAt(s)
  BY HandshakeTypes DEF NotifyClient, Goes, registryVars, Sent, OnlyAt, Unmoved
<1> HIDE DEF msg
<1>5. /\ Announcing(down[s]) => Announcing(Append(down[s], msg))
      /\ Append(down[s], msg) # <<>>
      /\ down[s] # <<>> => /\ Head(Append(down[s], msg)) = Head(down[s])
                           /\ Tail(Append(down[s], msg)) = Append(Tail(down[s]), msg)
                           /\ Announcing(Tail(down[s])) => Announcing(Append(Tail(down[s]), msg))
  <2>1. down[s] # <<>> => Tail(down[s]) \in Seq(ServerMessage)
    BY <1>1, Queues
  <2>2. (down[s] # <<>> /\ Announcing(Tail(down[s]))) => Announcing(Append(Tail(down[s]), msg))
    BY <1>1, <2>1, Queues
  <2>3. /\ Append(down[s], msg) # <<>>
        /\ Announcing(down[s]) => Announcing(Append(down[s], msg))
    BY <1>1, Queues
  <2>4. down[s] # <<>> => /\ Head(Append(down[s], msg)) = Head(down[s])
                          /\ Tail(Append(down[s], msg)) = Append(Tail(down[s]), msg)
    BY <1>1, Queues
  <2> QED BY <2>2, <2>3, <2>4
<1>6. ASSUME NEW wanted \in SUBSET Ports, AtConfig(s, wanted) PROVE AtConfig(s, wanted)'
  <2>1. CASE srv[s] = "open"
    <3>1. cli[s] = "open" => Answered(s, wanted)
      BY <1>1, <1>6, <2>1 DEF AtConfig, Granted
    <3>2. Answered(s, wanted) => Answered(s, wanted)'
      BY <1>1, <1>2, <1>5, <2>1 DEF Answered, Granted
    <3> QED BY <1>1, <1>2, <1>6, <2>1, <3>1, <3>2 DEF AtConfig, Over
  <2>2. CASE srv[s] # "open"
    BY <1>1, <1>3, <1>6, <2>2 DEF AtConfig, Answered, Granted, Over
  <2> QED BY <2>1, <2>2
<1>7. ASSUME NEW kept \in SUBSET Ports, AtRun(s, kept) PROVE AtRun(s, kept)'
  BY <1>1, <1>2, <1>3, <1>5, <1>7 DEF AtRun, Granted, Over
<1>8. Carries(s)
  BY <1>1, <1>2, <1>3, <1>6, <1>7 DEF Carries, Untouched, AtHello, AtId, AtPush, Unheard, Over
<1> QED BY <1>4, <1>8, OneSession

\* Steps of the server that touch no session.
LEMMA ElsewhereCarried ==
    ASSUME \/ AcceptLoopFails
           \/ \E s \in Session :
                \/ \E p \in Ports : Bind(s, p) \/ MonitorFails(s, p) \/ MonitorStops(s, p)
                \/ \E v \in Visitors : ServerMsg(s, v) \/ MonitorAccepts(s, v)
           \/ \E v \in Visitors :
                OnAcceptChannel(v) \/ MakeChannel(v) \/ PendingTimeout(v) \/ RelayEnds(v)
    PROVE  UNCHANGED <<opened, phase, cli, srv, up, down, asked, ports, success>>
<1> USE DEF wireVars, serverVars, registryVars
<1>1. CASE AcceptLoopFails
  BY <1>1 DEF AcceptLoopFails
<1>2. ASSUME NEW s \in Session, NEW p \in Ports,
             Bind(s, p) \/ MonitorFails(s, p) \/ MonitorStops(s, p)
      PROVE  UNCHANGED <<opened, phase, cli, srv, up, down, asked, ports, success>>
  BY <1>2 DEF Bind, MonitorFails, MonitorStops
<1>3. ASSUME NEW s \in Session, NEW v \in Visitors, ServerMsg(s, v) \/ MonitorAccepts(s, v)
      PROVE  UNCHANGED <<opened, phase, cli, srv, up, down, asked, ports, success>>
  BY <1>3 DEF ServerMsg, MonitorAccepts
<1>4. ASSUME NEW v \in Visitors,
             OnAcceptChannel(v) \/ MakeChannel(v) \/ PendingTimeout(v) \/ RelayEnds(v)
      PROVE  UNCHANGED <<opened, phase, cli, srv, up, down, asked, ports, success>>
  BY <1>4 DEF OnAcceptChannel, MakeChannel, PendingTimeout, RelayEnds
<1> QED BY <1>1, <1>2, <1>3, <1>4

\* What is taken under the lock was asked for.
NoNewReply ==
    /\ success' = success
    /\ \A t \in Session : phase'[t] = "reply" => phase[t] = "reply" /\ asked'[t] = asked[t]

LEMMA AskedIsTaken ==
    ASSUME TypeInv, RegistryInv, TakesWhatIsAsked, ServerNext
    PROVE  TakesWhatIsAsked' /\ opened' = opened
<1> USE DEF wireVars, serverVars, registryVars, Goes
<1>0. ASSUME NoNewReply PROVE TakesWhatIsAsked'
  BY <1>0 DEF NoNewReply, TakesWhatIsAsked
<1>1. ASSUME NEW s \in Session, OnNewClient(s) \/ FirstReadFails(s)
      PROVE  NoNewReply /\ opened' = opened
  BY <1>1, HandshakeTypes DEF OnNewClient, FirstReadFails, NoNewReply
<1>2. ASSUME NEW s \in Session, SendAcceptClient(s) \/ ReadConfig(s)
      PROVE  NoNewReply /\ opened' = opened
  BY <1>2, HandshakeTypes DEF SendAcceptClient, ReadConfig, NoNewReply
<1>3. ASSUME NEW s \in Session, AcquirePorts(s) PROVE TakesWhatIsAsked' /\ opened' = opened
  <2>1. /\ portsLock = NoOne /\ success' = asked[s] \ usingPorts /\ asked' = asked
        /\ phase' = [phase EXCEPT ![s] = "reply"] /\ opened' = opened
    BY <1>3 DEF AcquirePorts, Vacant
  <2>2. \A t \in Session : phase[t] # "reply"
    BY <2>1, Numbers DEF RegistryInv
  <2>3. \A t \in Session : phase'[t] = "reply" => t = s
    BY <2>1, <2>2, HandshakeTypes
  <2> QED BY <2>1, <2>3 DEF TakesWhatIsAsked
<1>4. ASSUME NEW s \in Session, WriteReply(s) PROVE TakesWhatIsAsked' /\ opened' = opened
  BY <1>4 DEF WriteReply, TakesWhatIsAsked
<1>5. ASSUME NEW s \in Session, ReadHeartbeat(s) \/ HeartbeatTimeout(s) \/ ReadFails(s)
      PROVE  NoNewReply /\ opened' = opened
  BY <1>5, HandshakeTypes DEF ReadHeartbeat, HeartbeatTimeout, ReadFails, NoNewReply
<1>6. ASSUME NEW s \in Session, TakeReport(s) \/ NotifyClient(s) \/ Cleanup(s)
      PROVE  NoNewReply /\ opened' = opened
  <2>1. success' = success /\ asked' = asked /\ opened' = opened
    BY <1>6 DEF TakeReport, NotifyClient, Cleanup
  <2>2. PICK next \in Phase \ {"reply"} : phase' = phase \/ phase' = [phase EXCEPT ![s] = next]
    BY <1>6 DEF TakeReport, NotifyClient, Cleanup, Phase
  <2> QED BY <2>1, <2>2, HandshakeTypes DEF NoNewReply
<1>7. UNCHANGED <<opened, phase, asked, success>> => NoNewReply /\ opened' = opened
  BY DEF NoNewReply
<1> QED BY <1>0, <1>1, <1>2, <1>3, <1>4, <1>5, <1>6, <1>7, ElsewhereCarried DEF ServerNext

\* Every step of the server and of the network keeps the invariant.
LEMMA ServerKeepsHandshake ==
    ASSUME TypeInv, RegistryInv, HandshakeInv,
           \/ WireNext /\ UNCHANGED <<serverVars, clientVars>>
           \/ ServerNext /\ UNCHANGED clientVars
    PROVE  HandshakeInv'
<1>1. CASE WireNext /\ UNCHANGED <<serverVars, clientVars>>
  <2>1. \A t \in Session : Carries(t)
    BY <1>1, WireCarried DEF WireNext, serverVars
  <2>2. /\ UNCHANGED <<opened, cphase, conn, id, links, phase, asked, success>>
    BY <1>1 DEF WireNext, ResetServerEnd, ResetClientEnd, LinkFails, serverVars, clientVars
  <2> QED BY <2>1, <2>2, ClientsCarried DEF HandshakeInv, TakesWhatIsAsked
<1>2. CASE ServerNext /\ UNCHANGED clientVars
  <2>1. TakesWhatIsAsked
    BY DEF HandshakeInv
  <2>2. \A t \in Session : Carries(t)
    <3>1. UNCHANGED <<phase, cli, srv, up, down, asked, ports>> => \A t \in Session : Carries(t)
      BY UnmovedCarried DEF Unmoved
    <3> QED
      BY <1>2, <2>1, <3>1, FirstCarried, PrepareCarried, AnswerCarried, LoopCarried,
         NotifyCarried, ElsewhereCarried DEF ServerNext
  <2>3. TakesWhatIsAsked' /\ opened' = opened
    BY <1>2, <2>1, AskedIsTaken
  <2>4. UNCHANGED <<cphase, conn, id, links>>
    BY <1>2 DEF clientVars
  <2> QED BY <2>2, <2>3, <2>4, ClientsCarried
<1> QED BY <1>1, <1>2

-----------------------------------------------------------------------------
(* Steps of clients.                                                       *)

\* What a step of client c does to the other clients and their sessions.
OnlyOf(c) ==
    /\ UNCHANGED <<opened, conn, srv, phase, asked, ports, success>>
    /\ \A t \in Session : t # conn[c] => Unmoved(t)
    /\ \A d \in Clients : d # c => cphase'[d] = cphase[d] /\ id'[d] = id[d] /\ links'[d] = links[d]

\* No two clients share a session.
LEMMA OneClientAtATime ==
    ASSUME TypeInv, HandshakeInv, NEW c \in Clients, OnlyOf(c), Stage(c)',
           \A t \in Session : t = conn[c] => Unheard(t)'
    PROVE  HandshakeInv'
<1>1. /\ OneClientEach' /\ TakesWhatIsAsked'
      /\ \A d \in Clients : conn[d] <= opened
      /\ \A t \in Session : t # conn[c] => Unmoved(t)
  BY DEF HandshakeInv, OnlyOf, OneClientEach, TakesWhatIsAsked
<1>2. ASSUME NEW t \in Session PROVE Unheard(t)' /\ (t > opened' => Untouched(t)')
  <2>1. Unheard(t) /\ (t > opened => Untouched(t)) /\ opened' = opened
    BY DEF HandshakeInv, Fresh, OnlyOf
  <2>2. CASE t = conn[c]
    <3>1. ~(t > opened)
      BY <1>1, <2>2, HandshakeTypes
    <3> QED BY <2>1, <2>2, <3>1
  <2>3. CASE t # conn[c]
    BY <1>1, <2>1, <2>3, UnmovedCarried DEF Carries
  <2> QED BY <2>2, <2>3
<1>3. ASSUME NEW d \in Clients PROVE Stage(d)'
  <2>1. Stage(d)
    BY DEF HandshakeInv
  <2>2. CASE d = c
    BY <2>2
  <2>3. CASE d # c /\ cphase[d] \in {"connect", "down"}
    BY <2>1, <2>3 DEF Stage, OnlyOf
  <2>4. CASE d # c /\ cphase[d] \notin {"connect", "down"}
    <3>1. conn[d] \in Session /\ links[d] \in SUBSET Ports
      BY <2>4, HandshakeTypes
    <3>2. conn[d] # conn[c]
      BY <2>4, <3>1, Numbers DEF HandshakeInv, OneClientEach
    <3>3. Carries(conn[d])
      BY <1>1, <3>1, <3>2, UnmovedCarried
    <3> QED BY <2>1, <2>4, <3>1, <3>3 DEF Stage, Carries, OnlyOf
  <2> QED BY <2>2, <2>3, <2>4
<1> QED BY <1>1, <1>2, <1>3 DEF HandshakeInv, Fresh

\* The end of a session, of retrying or of the process: the client expects
\* nothing of its session any more.
Leaves(c) ==
    /\ cphase'[c] \in {"retry", "down"}
    /\ \A d \in Clients : d # c => cphase'[d] = cphase[d]
    /\ \A t \in Session : t # conn[c] => cli'[t] = cli[t]

LEMMA EndsLeave ==
    ASSUME TypeInv, NEW c \in Clients,
           \/ SessionEnds(c)
           \/ Steps(c, "down") /\ (cli' = Dropped(c) \/ UNCHANGED cli)
    PROVE  Leaves(c)
<1>1. /\ cphase' = [cphase EXCEPT ![c] = "down"] \/ cphase' = [cphase EXCEPT ![c] = "retry"]
      /\ cli' = cli \/ cli' = Dropped(c)
  BY DEF SessionEnds, Steps
<1>2. \A t \in Session : t # conn[c] => Dropped(c)[t] = cli[t]
  BY HandshakeTypes DEF Dropped
<1> QED BY <1>1, <1>2, HandshakeTypes DEF Leaves

\* A client that leaves may have read one more frame.
LEMMA LeavingKeeps ==
    ASSUME TypeInv, HandshakeInv, NEW c \in Clients, Leaves(c),
           UNCHANGED <<opened, srv, up, conn, id, links, phase, asked, ports, success>>,
           \/ down' = down
           \/ /\ conn[c] \in Session /\ down[conn[c]] # <<>> /\ down' = Taken(down, conn[c])
    PROVE  HandshakeInv'
<1>1. \A t \in Session : t # conn[c] => down'[t] = down[t]
  BY HandshakeTypes DEF Taken
<1>2. OnlyOf(c)
  BY <1>1 DEF OnlyOf, Leaves, Unmoved
<1>3. Stage(c)'
  BY DEF Stage, Leaves
<1>4. ASSUME NEW t \in Session, t = conn[c] PROVE Unheard(t)'
  <2>1. Unheard(t) /\ down[t] \in Seq(ServerMessage)
    BY HandshakeTypes DEF HandshakeInv
  <2>2. down[t] = <<>> => down'[t] = <<>>
    BY <1>4, <2>1, HandshakeTypes DEF Taken
  <2> QED BY <2>1, <2>2 DEF Unheard
<1> QED BY <1>2, <1>3, <1>4, OneClientAtATime

\* A new connection: nobody has touched its session before.
LEMMA DialKeeps ==
    ASSUME TypeInv, HandshakeInv, NEW c \in Clients, Connect(c) \/ Reconnect(c),
           UNCHANGED serverVars
    PROVE  HandshakeInv'
<1> DEFINE s == opened + 1
<1>1. /\ s \in Session /\ opened' = s /\ opened \in Nat
      /\ UNCHANGED <<up, down, id, links, phase, asked, ports, success>>
  BY HandshakeTypes DEF Connect, Reconnect, Dial, serverVars
<1>2. /\ conn'[c] = s /\ \A d \in Clients : d # c => conn'[d] = conn[d]
      /\ cphase'[c] = "hello" /\ \A d \in Clients : d # c => cphase'[d] = cphase[d]
  BY <1>1, HandshakeTypes DEF Connect, Reconnect, Dial, Steps
<1>3. \A t \in Session : (t # s /\ t # conn[c]) => Unmoved(t)
  BY <1>1, HandshakeTypes DEF Connect, Reconnect, Dial, Dropped, Unmoved
<1>4. Untouched(s) /\ \A d \in Clients : conn[d] <= opened
  <2>1. s > opened
    BY <1>1
  <2> QED BY <1>1, <2>1 DEF HandshakeInv, Fresh, OneClientEach
<1>5. OneClientEach'
  <2>1. \A d \in Clients : conn'[d] <= opened'
    <3>1. \A d \in Clients : conn[d] \in Nat
      BY HandshakeTypes
    <3> QED BY <1>1, <1>2, <1>4, <3>1
  <2>2. \A d \in Clients : conn[d] # s
    BY <1>1, <1>4, HandshakeTypes
  <2>3. \A d, e \in Clients : d # e => conn[d] # conn[e] \/ conn[d] = NoOne
    BY DEF HandshakeInv, OneClientEach
  <2>4. ASSUME NEW d \in Clients, NEW e \in Clients, d # e
        PROVE  conn'[d] # conn'[e] \/ conn'[d] = NoOne
    BY <1>2, <2>2, <2>3, <2>4
  <2> QED BY <2>1, <2>4 DEF OneClientEach
<1>6. ASSUME NEW t \in Session PROVE Unheard(t)'
  BY <1>1 DEF HandshakeInv, Unheard
<1>7. Fresh'
  <2>1. ASSUME NEW t \in Session, t > opened' PROVE Untouched(t)'
    <3>1. t # s /\ t # conn[c] /\ t > opened
      BY <1>1, <1>4, <2>1, HandshakeTypes
    <3> QED BY <1>3, <3>1, UnmovedCarried DEF HandshakeInv, Fresh, Carries
  <2> QED BY <2>1 DEF Fresh
<1>8. ASSUME NEW d \in Clients PROVE Stage(d)'
  <2>1. CASE d = c
    <3>1. AtHello(s) /\ AtHello(conn[c])'
      BY <1>1, <1>2, <1>4 DEF Untouched, AtHello
    <3> QED BY <1>2, <2>1, <3>1 DEF Stage
  <2>2. CASE d # c /\ cphase[d] \in {"connect", "down"}
    BY <1>2, <2>2 DEF Stage
  <2>3. CASE d # c /\ cphase[d] \notin {"connect", "down"}
    <3>1. conn[d] \in Session /\ links[d] \in SUBSET Ports
      BY <2>3, HandshakeTypes
    <3>2. conn[d] # conn[c] /\ conn[d] # s
      BY <1>1, <1>4, <2>3, <3>1, HandshakeTypes DEF HandshakeInv, OneClientEach
    <3>3. Carries(conn[d]) /\ Stage(d)
      BY <1>3, <3>1, <3>2, UnmovedCarried DEF HandshakeInv
    <3> QED BY <1>1, <1>2, <2>3, <3>1, <3>3 DEF Stage, Carries
  <2> QED BY <2>1, <2>2, <2>3
<1>9. TakesWhatIsAsked'
  BY <1>1 DEF HandshakeInv, TakesWhatIsAsked
<1> QED BY <1>5, <1>6, <1>7, <1>8, <1>9 DEF HandshakeInv

\* new_client.
LEMMA HelloKeeps ==
    ASSUME TypeInv, HandshakeInv, NEW c \in Clients, SendNewClient(c) \/ RecvAcceptClient(c),
           UNCHANGED serverVars
    PROVE  HandshakeInv'
<1> DEFINE s == conn[c]
<1>0. /\ s \in Session /\ Stage(c) /\ Unheard(s)
      /\ UNCHANGED <<opened, srv, conn, links, phase, asked, ports, success>>
      /\ up[s] \in Seq(ClientMessage) /\ down[s] \in Seq(ServerMessage)
  BY HandshakeTypes DEF HandshakeInv, SendNewClient, RecvAcceptClient, Writes, serverVars
<1>1. CASE SendNewClient(c) /\ cli[s] = "open"
  <2>1. /\ cphase[c] = "hello" /\ cphase' = [cphase EXCEPT ![c] = "id"]
        /\ up' = [up EXCEPT ![s] = Append(up[s], NewClient)]
        /\ UNCHANGED <<cli, down, id>>
    BY <1>1 DEF SendNewClient, Writes, Steps, Sent
  <2>2. OnlyOf(c)
    BY <1>0, <2>1, HandshakeTypes DEF OnlyOf, Unmoved
  <2>3. up[s] = <<>> /\ down[s] = <<>> /\ phase[s] \in {"first", "done"}
    BY <1>0, <2>1 DEF Stage, AtHello
  <2>4. up'[s] = <<NewClient>> /\ down'[s] = <<>> /\ phase'[s] = phase[s] /\ cphase'[c] = "id"
    <3>1. Append(up[s], NewClient) = <<NewClient>>
      BY <1>0, <2>3, ClientMessages, Queues
    <3> QED BY <1>0, <2>1, <2>3, <3>1, HandshakeTypes
  <2>5. Stage(c)'
    BY <1>0, <2>3, <2>4 DEF Stage, AtId, Over
  <2>6. ~Asks(<<NewClient>>)
    BY Kinds DEF Asks
  <2>7. \A t \in Session : t = conn[c] => Unheard(t)'
    BY <2>3, <2>4, <2>6 DEF Unheard
  <2> QED BY <2>2, <2>5, <2>7, OneClientAtATime
<1>2. CASE SendNewClient(c) /\ cli[s] # "open"
  BY <1>0, <1>2, EndsLeave, LeavingKeeps DEF SendNewClient, Writes
<1>3. CASE RecvAcceptClient(c)
  <2>1. /\ cphase[c] = "id" /\ down[s] # <<>> /\ down' = [down EXCEPT ![s] = Tail(down[s])]
        /\ UNCHANGED up
    BY <1>3 DEF RecvAcceptClient, ClientHears, Taken
  <2>2. /\ down[s] = <<AcceptClient(s)>> /\ phase[s] \notin {"first", "hello"}
        /\ phase[s] \in {"first", "hello", "config"} \cup Over
        /\ up[s] = <<>>
    BY <1>0, <2>1 DEF Stage, AtId, Over
  <2>3. /\ Head(down[s]).type = "accept_client" /\ Head(down[s]).id = s /\ Tail(down[s]) = <<>>
    BY <2>2, Kinds, Queues
  <2>4. /\ cphase' = [cphase EXCEPT ![c] = "push"] /\ id' = [id EXCEPT ![c] = s]
        /\ UNCHANGED cli
    BY <1>3, <2>3 DEF RecvAcceptClient, Steps, NewId
  <2>5. OnlyOf(c)
    BY <1>0, <2>1, <2>4, HandshakeTypes DEF OnlyOf, Unmoved
  <2>6. cphase'[c] = "push" /\ id'[c] = s /\ down'[s] = <<>> /\ up'[s] = <<>> /\ phase'[s] = phase[s]
    BY <1>0, <2>1, <2>2, <2>3, <2>4, HandshakeTypes
  <2>7. Stage(c)'
    BY <1>0, <2>2, <2>6 DEF Stage, AtPush
  <2>8. \A t \in Session : t = conn[c] => Unheard(t)'
    BY <2>6, Queues DEF Unheard, Asks
  <2> QED BY <2>5, <2>7, <2>8, OneClientAtATime
<1> QED BY <1>1, <1>2, <1>3

\* push_config's request.
LEMMA PushKeeps ==
    ASSUME TypeInv, HandshakeInv, NEW c \in Clients, SendPushConfig(c), UNCHANGED serverVars
    PROVE  HandshakeInv'
<1> DEFINE s == conn[c]
           msg == PushConfig(links[c], c \in Heartbeating)
<1>0. /\ s \in Session /\ Stage(c) /\ Unheard(s) /\ cphase[c] = "push"
      /\ UNCHANGED <<opened, srv, conn, links, phase, asked, ports, success, down>>
      /\ up[s] \in Seq(ClientMessage) /\ msg \in ClientMessage
  <2>1. links[c] \in SUBSET Ports /\ (c \in Heartbeating) \in BOOLEAN
    BY HandshakeTypes
  <2>2. msg \in ClientMessage
    BY <2>1, ClientMessages
  <2> QED BY <2>2, HandshakeTypes DEF HandshakeInv, SendPushConfig, Writes, serverVars
<1>1. CASE cli[s] = "open"
  <2>1. /\ cphase' = [cphase EXCEPT ![c] = "config"]
        /\ up' = [up EXCEPT ![s] = Append(up[s], msg)]
        /\ UNCHANGED <<cli, id>>
    BY <1>1 DEF SendPushConfig, Writes, Steps, Sent
  <2>2. OnlyOf(c)
    BY <1>0, <2>1, HandshakeTypes DEF OnlyOf, Unmoved
  <2>3. up[s] = <<>> /\ down[s] = <<>> /\ phase[s] \in {"config"} \cup Over /\ id[c] = s
    BY <1>0 DEF Stage, AtPush
  <2>4. up'[s] = <<msg>> /\ cphase'[c] = "config"
    <3>1. Append(up[s], msg) = <<msg>>
      BY <1>0, <2>3, Queues
    <3> QED BY <1>0, <2>1, <3>1, HandshakeTypes
  <2>5. AtConfig(s, links[c])'
    <3>1. msg.type = "push_config" /\ msg.ports = links[c]
      BY Kinds
    <3> QED BY <1>0, <2>3, <2>4, <3>1 DEF AtConfig, Over, Granted
  <2>6. Stage(c)'
    BY <1>0, <2>1, <2>3, <2>4, <2>5 DEF Stage
  <2>7. \A t \in Session : t = conn[c] => Unheard(t)'
    BY <1>0, <2>3 DEF Unheard, Over
  <2> QED BY <2>2, <2>6, <2>7, OneClientAtATime
<1>2. CASE cli[s] # "open"
  BY <1>0, <1>2, EndsLeave, LeavingKeeps DEF SendPushConfig, Writes
<1> QED BY <1>1, <1>2

\* push_config's reading of the reply: what the client keeps of its links is
\* what the controller noted as its own.
LEMMA AnswerKeeps ==
    ASSUME TypeInv, HandshakeInv, NEW c \in Clients, RecvAcceptConfig(c), UNCHANGED serverVars
    PROVE  HandshakeInv'
<1> DEFINE s == conn[c]
           msg == Head(down[s])
<1>0. /\ s \in Session /\ Stage(c) /\ Unheard(s) /\ cphase[c] = "config"
      /\ cli[s] = "open" /\ down[s] # <<>> /\ down[s] \in Seq(ServerMessage)
      /\ down' = [down EXCEPT ![s] = Tail(down[s])]
      /\ UNCHANGED <<opened, srv, conn, id, phase, asked, ports, success, up>>
  BY HandshakeTypes
     DEF HandshakeInv, RecvAcceptConfig, ClientHears, Taken, serverVars
<1>1. /\ AtConfig(s, links[c]) /\ Answered(s, links[c]) /\ id[c] = s
      /\ phase[s] \in {"serve", "notify"} \cup Over
  <2>1. AtConfig(s, links[c]) /\ id[c] = s
    BY <1>0 DEF Stage
  <2> QED BY <1>0, <2>1, HandshakeTypes DEF AtConfig, Over, Phase
<1>2. CASE Tolerates(c, msg)
  <2>1. /\ cphase' = [cphase EXCEPT ![c] = "run"]
        /\ links' = [links EXCEPT ![c] = Kept(c, msg)] /\ UNCHANGED cli
    BY <1>2 DEF RecvAcceptConfig, Steps
  <2>2. OnlyOf(c)
    BY <1>0, <2>1, HandshakeTypes DEF OnlyOf, Unmoved
  <2>3. /\ cphase'[c] = "run" /\ links'[c] = Kept(c, msg) /\ down'[s] = Tail(down[s])
    BY <1>0, <2>1, HandshakeTypes
  <2>4. Granted(s) => Kept(c, msg) = ports[s]
    <3>1. Granted(s) => /\ ports[s] \subseteq links[c]
                        /\ \/ msg = AcceptConfigAll /\ ports[s] = links[c]
                           \/ msg = AcceptConfigPart(ports[s])
      BY <1>1 DEF Answered
    <3>2. msg = AcceptConfigAll => Kept(c, msg) = links[c]
      BY Kinds DEF Kept
    <3>3. msg = AcceptConfigPart(ports[s]) => Kept(c, msg) = links[c] \cap ports[s]
      BY Kinds DEF Kept
    <3> QED BY <3>1, <3>2, <3>3
  <2>5. AtRun(s, links[c])'
    BY <1>0, <1>1, <2>3, <2>4 DEF AtRun, Answered, Granted
  <2>6. Stage(c)'
    BY <1>0, <1>1, <2>3, <2>5 DEF Stage
  <2>7. \A t \in Session : t = conn[c] => Unheard(t)'
    BY <1>0, <1>1 DEF Unheard, Over
  <2> QED BY <2>2, <2>6, <2>7, OneClientAtATime
<1>3. CASE ~Tolerates(c, msg)
  <2>1. SessionEnds(c) /\ links' = links /\ down' = Taken(down, s)
    BY <1>3 DEF RecvAcceptConfig
  <2> QED BY <1>0, <2>1, EndsLeave, LeavingKeeps
<1> QED BY <1>2, <1>3

\* A running client.
LEMMA RunKeeps ==
    ASSUME TypeInv, HandshakeInv, NEW c \in Clients, SendHeartbeat(c) \/ RecvNewChannel(c),
           UNCHANGED serverVars
    PROVE  HandshakeInv'
<1> DEFINE s == conn[c]
<1>0. /\ s \in Session /\ Stage(c) /\ Unheard(s) /\ cphase[c] = "run"
      /\ UNCHANGED <<opened, srv, conn, id, links, phase, asked, ports, success>>
      /\ up[s] \in Seq(ClientMessage) /\ down[s] \in Seq(ServerMessage)
  BY HandshakeTypes DEF HandshakeInv, SendHeartbeat, RecvNewChannel, Writes, serverVars
<1>1. AtRun(s, links[c]) /\ id[c] = s
  BY <1>0 DEF Stage
<1>2. CASE SendHeartbeat(c) /\ cli[s] = "open"
  <2>1. /\ cphase' = [cphase EXCEPT ![c] = "run"]
        /\ up' = [up EXCEPT ![s] = Append(up[s], Heartbeat)]
        /\ UNCHANGED <<cli, down>>
    BY <1>2 DEF SendHeartbeat, Writes, Steps, Sent
  <2>2. OnlyOf(c)
    BY <1>0, <2>1, HandshakeTypes DEF OnlyOf, Unmoved
  <2>3. Stage(c)'
    BY <1>0, <1>1, <2>1, HandshakeTypes DEF Stage, AtRun, Granted
  <2>4. \A t \in Session : t = conn[c] => Unheard(t)'
    BY <1>0, <1>1 DEF AtRun, Unheard, Over
  <2> QED BY <2>2, <2>3, <2>4, OneClientAtATime
<1>3. CASE SendHeartbeat(c) /\ cli[s] # "open"
  BY <1>0, <1>3, EndsLeave, LeavingKeeps DEF SendHeartbeat, Writes
<1>4. CASE RecvNewChannel(c)
  <2>1. /\ down[s] # <<>> /\ down' = [down EXCEPT ![s] = Tail(down[s])] /\ up' = up
        /\ Head(down[s]).type = "new_channel" /\ Announcing(Tail(down[s]))
    BY <1>0, <1>1, <1>4, Queues DEF RecvNewChannel, ClientHears, Taken, AtRun
  <2>2. UNCHANGED <<cphase, cli>>
    BY <1>4, <2>1 DEF RecvNewChannel
  <2>3. OnlyOf(c)
    BY <1>0, <2>1, <2>2, HandshakeTypes DEF OnlyOf, Unmoved
  <2>4. Stage(c)'
    BY <1>0, <1>1, <2>1, <2>2, HandshakeTypes DEF Stage, AtRun, Granted
  <2>5. \A t \in Session : t = conn[c] => Unheard(t)'
    BY <1>0, <1>1 DEF AtRun, Unheard, Over
  <2> QED BY <2>3, <2>4, <2>5, OneClientAtATime
<1> QED BY <1>2, <1>3, <1>4

\* Every other step of a client ends something.
LEMMA EndingKeeps ==
    ASSUME TypeInv, HandshakeInv, NEW c \in Clients,
           ConnectFails(c) \/ ReconnectFails(c) \/ SessionReadFails(c) \/ Stop(c),
           UNCHANGED serverVars
    PROVE  HandshakeInv'
<1> USE DEF serverVars
<1>1. CASE ConnectFails(c)
  <2>1. Leaves(c) /\ UNCHANGED wireVars
    BY <1>1, EndsLeave DEF ConnectFails, wireVars
  <2> QED BY <1>1, <2>1, LeavingKeeps DEF ConnectFails, wireVars
<1>2. CASE ReconnectFails(c)
  <2>1. Leaves(c)
    <3>1. CASE tries[c] = 1
      BY <1>2, <3>1, EndsLeave DEF ReconnectFails
    <3>2. CASE tries[c] # 1
      BY <1>2, <3>2 DEF ReconnectFails, Leaves
    <3> QED BY <3>1, <3>2
  <2> QED BY <1>2, <2>1, LeavingKeeps DEF ReconnectFails
<1>3. CASE SessionReadFails(c)
  BY <1>3, EndsLeave, LeavingKeeps DEF SessionReadFails
<1>4. CASE Stop(c)
  BY <1>4, EndsLeave, LeavingKeeps DEF Stop
<1> QED BY <1>1, <1>2, <1>3, <1>4

-----------------------------------------------------------------------------
(* All steps.                                                              *)

\* Nobody has connected at the start.
LEMMA InitHandshake == Init => HandshakeInv
<1> SUFFICES ASSUME Init PROVE HandshakeInv
  OBVIOUS
<1>1. OneClientEach
  BY DEF Init, WireInit, ClientInit, OneClientEach, NoOne
<1>2. Fresh /\ TakesWhatIsAsked /\ \A s \in Session : Unheard(s)
  BY DEF Init, WireInit, ServerInit, Fresh, Untouched, TakesWhatIsAsked, Unheard, Asks
<1>3. \A c \in Clients : Stage(c)
  BY DEF Init, ClientInit, Stage
<1> QED BY <1>1, <1>2, <1>3 DEF HandshakeInv

\* The invariant speaks of these variables only.
LEMMA HandshakeUntouched ==
    ASSUME HandshakeInv,
           UNCHANGED <<opened, cli, srv, up, down, phase, asked, success, ports,
                       cphase, conn, id, links>>
    PROVE  HandshakeInv'
<1>1. OneClientEach'
  BY DEF HandshakeInv, OneClientEach
<1>2. Fresh' /\ TakesWhatIsAsked'
  BY DEF HandshakeInv, Fresh, Untouched, TakesWhatIsAsked
<1>3. (\A s \in Session : Unheard(s))'
  BY DEF HandshakeInv, Unheard
<1>4. ASSUME NEW c \in Clients PROVE Stage(c)'
  <2>1. Stage(c)
    BY DEF HandshakeInv
  <2>2. /\ cphase[c] = "hello" => AtHello(conn[c])'
        /\ cphase[c] = "id" => AtId(conn[c])'
        /\ cphase[c] = "push" => AtPush(conn[c])'
    BY <2>1 DEF Stage, AtHello, AtId, AtPush
  <2>3. cphase[c] = "config" => AtConfig(conn[c], links[c])'
    BY <2>1 DEF Stage, AtConfig, Answered, Granted
  <2>4. cphase[c] = "run" => AtRun(conn[c], links[c])'
    BY <2>1 DEF Stage, AtRun, Granted
  <2> QED
    BY <2>1, <2>2, <2>3, <2>4 DEF Stage
<1> QED
  BY <1>1, <1>2, <1>3, <1>4 DEF HandshakeInv

\* Every step keeps the invariant.
LEMMA NextKeepsHandshake ==
    ASSUME TypeInv, RegistryInv, HandshakeInv, [Next]_vars
    PROVE  HandshakeInv'
<1>1. ASSUME ClientNext, UNCHANGED serverVars PROVE HandshakeInv'
  <2>1. ASSUME NEW v \in Visitors, StartChannel(v) \/ ChannelFails(v)
        PROVE  HandshakeInv'
    BY <1>1, <2>1, HandshakeUntouched DEF StartChannel, ChannelFails, clientVars, serverVars
  <2> QED
    BY <1>1, <2>1, DialKeeps, HelloKeeps, PushKeeps, AnswerKeeps, RunKeeps, EndingKeeps
       DEF ClientNext
<1>2. ASSUME UNCHANGED vars PROVE HandshakeInv'
  BY <1>2, HandshakeUntouched DEF vars, wireVars, serverVars, clientVars
<1> QED BY <1>1, <1>2, ServerKeepsHandshake DEF Next

\* Where a client stands determines where its controller can stand and what
\* is on its way between them, whatever fails.
THEOREM HandshakeInvariance == Spec => []HandshakeInv
<1>1. Spec => [](TypeInv /\ RegistryInv /\ HandshakeInv)
  <2>1. TypeInv /\ RegistryInv /\ HandshakeInv /\ [Next]_vars => HandshakeInv'
    BY NextKeepsHandshake
  <2> QED BY <2>1, InitHandshake, TypeInvariance, RegistryInvariance, PTL DEF Spec
<1> QED BY <1>1, PTL

\* While a client and its controller both work, the client forwards exactly
\* the ports its controller listens on.
THEOREM LinksAlwaysAgree == Spec => []LinksAgree
<1>1. HandshakeInv => LinksAgree
  BY DEF HandshakeInv, Stage, AtRun, LinksAgree
<1> QED BY <1>1, HandshakeInvariance, PTL

\* The todo!() of recv_msg (client.rs:296) is never reached: a running client
\* is sent NewChannel messages only.
THEOREM ChannelsOnlyAnnounced == Spec => []OnlyChannelsAnnounced
<1>1. HandshakeInv => OnlyChannelsAnnounced
  BY DEF HandshakeInv, Stage, AtRun, Announcing, OnlyChannelsAnnounced
<1> QED BY <1>1, HandshakeInvariance, PTL

-----------------------------------------------------------------------------
(* No port is lost as long as no control connection breaks by itself: a    *)
(* controller that answers a request has nothing unread on its way to the  *)
(* client, so that a client that goes away cannot break its reply.         *)

Answering == {"lock", "reply"}
RepliesGoOut == \A s \in Session : phase[s] \in Answering => srv[s] = "open"

\* The steps of the network and of clients.
LEMMA OutsideKeepsReplies ==
    ASSUME TypeInv, HandshakeInv, RepliesGoOut, "link" \notin Faults,
           \/ WireNext /\ UNCHANGED <<serverVars, clientVars>>
           \/ ClientNext /\ UNCHANGED serverVars
    PROVE  RepliesGoOut'
<1> USE DEF serverVars
<1>1. ASSUME NEW s \in Session, ResetServerEnd(s), phase' = phase PROVE RepliesGoOut'
  <2>1. phase[s] \notin Answering
    BY <1>1 DEF ResetServerEnd, HandshakeInv, Unheard, Answering
  <2> QED BY <1>1, <2>1, HandshakeTypes DEF ResetServerEnd, RepliesGoOut
<1>2. ASSUME UNCHANGED <<phase, srv>> PROVE RepliesGoOut'
  BY <1>2 DEF RepliesGoOut
<1>3. ASSUME NEW c \in Clients, Dial(c), phase' = phase PROVE RepliesGoOut'
  <2>1. \A t \in Session : srv'[t] = srv[t] \/ srv'[t] = "open"
    BY <1>3, HandshakeTypes DEF Dial
  <2> QED BY <1>3, <2>1 DEF RepliesGoOut
<1>4. ASSUME NEW c \in Clients,
             \/ ConnectFails(c) \/ ReconnectFails(c) \/ SendNewClient(c) \/ RecvAcceptClient(c)
             \/ SendPushConfig(c) \/ RecvAcceptConfig(c) \/ SessionReadFails(c)
             \/ SendHeartbeat(c) \/ RecvNewChannel(c) \/ Stop(c)
      PROVE  srv' = srv
  BY <1>4 DEF ConnectFails, ReconnectFails, SendNewClient, RecvAcceptClient, SendPushConfig,
              RecvAcceptConfig, SessionReadFails, SendHeartbeat, RecvNewChannel, Stop, Writes,
              wireVars
<1>5. ASSUME NEW v \in Visitors, StartChannel(v) \/ ChannelFails(v) PROVE srv' = srv
  BY <1>5 DEF StartChannel, ChannelFails
<1>6. ASSUME WireNext, UNCHANGED serverVars PROVE RepliesGoOut'
  <2>1. ASSUME NEW s \in Session, ResetClientEnd(s) PROVE srv' = srv
    BY <2>1 DEF ResetClientEnd
  <2>2. \A s \in Session : ~LinkFails(s)
    BY DEF LinkFails
  <2> QED BY <1>1, <1>2, <1>6, <2>1, <2>2 DEF WireNext
<1>7. ASSUME ClientNext, UNCHANGED serverVars PROVE RepliesGoOut'
  BY <1>2, <1>3, <1>4, <1>5, <1>7 DEF ClientNext, Connect, Reconnect
<1> QED BY <1>6, <1>7

\* The steps of the server.
LEMMA ServerKeepsReplies ==
    ASSUME TypeInv, RepliesGoOut, ServerNext
    PROVE  RepliesGoOut'
<1> USE DEF wireVars, serverVars, Goes, Answering
<1>1. ASSUME UNCHANGED <<phase, srv>> PROVE RepliesGoOut'
  BY <1>1 DEF RepliesGoOut
<1>2. ASSUME NEW s \in Session, OnNewClient(s) \/ FirstReadFails(s) \/ Cleanup(s)
      PROVE  RepliesGoOut'
  <2>1. PICK next \in {"hello", "done"} : phase' = [phase EXCEPT ![s] = next]
    BY <1>2 DEF OnNewClient, FirstReadFails, Cleanup
  <2>2. \A t \in Session : t # s => srv'[t] = srv[t]
    BY <1>2, HandshakeTypes DEF OnNewClient, FirstReadFails, Cleanup
  <2> QED BY <2>1, <2>2, HandshakeTypes DEF RepliesGoOut
<1>3. ASSUME NEW s \in Session,
             \/ SendAcceptClient(s) \/ WriteReply(s) \/ HeartbeatTimeout(s) \/ ReadFails(s)
             \/ NotifyClient(s)
      PROVE  RepliesGoOut'
  <2>1. srv' = srv /\ \E next \in {"config", "serve", "cleanup"} : phase' = [phase EXCEPT ![s] = next]
    BY <1>3 DEF SendAcceptClient, WriteReply, HeartbeatTimeout, ReadFails, NotifyClient
  <2> QED BY <2>1, HandshakeTypes DEF RepliesGoOut
<1>4. ASSUME NEW s \in Session, ReadConfig(s) \/ AcquirePorts(s) PROVE RepliesGoOut'
  <2>1. srv' = srv /\ srv[s] = "open"
    BY <1>4 DEF ReadConfig, ServerHears, AcquirePorts, RepliesGoOut
  <2>2. \A t \in Session : t # s => phase'[t] = phase[t]
    BY <1>4, HandshakeTypes DEF ReadConfig, AcquirePorts
  <2> QED BY <2>1, <2>2 DEF RepliesGoOut
<1>5. ASSUME NEW s \in Session, ReadHeartbeat(s) PROVE RepliesGoOut'
  BY <1>1, <1>5 DEF ReadHeartbeat
<1>6. ASSUME NEW s \in Session, TakeReport(s) PROVE RepliesGoOut'
  <2>1. srv' = srv /\ (phase' = phase \/ phase' = [phase EXCEPT ![s] = "notify"])
    BY <1>6 DEF TakeReport
  <2> QED BY <2>1, HandshakeTypes DEF RepliesGoOut
<1> QED BY <1>1, <1>2, <1>3, <1>4, <1>5, <1>6, ElsewhereCarried DEF ServerNext

\* Every port in using_ports stays one that some controller holds.
LEMMA NextLosesNothing ==
    ASSUME TypeInv, RegistryInv, RepliesGoOut, NoPortLost, [Next]_vars
    PROVE  NoPortLost'
<1> SUFFICES ASSUME NEW p \in usingPorts' PROVE \E t \in Session : p \in Held(t)'
  BY DEF NoPortLost
<1>0. p \in usingPorts => \E t \in Session : p \in Held(t)
  BY DEF NoPortLost
<1>1. CASE UNCHANGED <<phase, usingPorts, portsLock, success, ports>>
  BY <1>0, <1>1 DEF Held
<1>2. ASSUME NEW s \in Session, HarmlessMove(s) PROVE \E t \in Session : p \in Held(t)'
  BY <1>0, <1>2, HarmlessHolds DEF HarmlessMove
<1>3. ASSUME NEW s \in Session, AcquirePorts(s) PROVE \E t \in Session : p \in Held(t)'
  <2>1. usingPorts' = usingPorts \cup asked[s]
    BY <1>3 DEF AcquirePorts
  <2> QED BY <1>0, <1>3, <2>1, AcquireKeeps
<1>4. ASSUME NEW s \in Session, WriteReply(s) PROVE \E t \in Session : p \in Held(t)'
  <2>1. /\ srv[s] = "open" /\ phase[s] = "reply" /\ usingPorts' = usingPorts
        /\ phase' = [phase EXCEPT ![s] = "serve"] /\ ports' = [ports EXCEPT ![s] = success]
    BY <1>4 DEF WriteReply, RepliesGoOut, Answering, Goes
  <2>2. Held(s)' = Held(s)
    BY <2>1, RegistryTypes DEF Held
  <2> QED BY <1>0, <1>4, <2>1, <2>2, ReplyKeeps
<1>5. ASSUME NEW s \in Session, Cleanup(s) PROVE \E t \in Session : p \in Held(t)'
  <2>1. usingPorts' = usingPorts \ ports[s]
    BY <1>5 DEF Cleanup, Retained
  <2> QED BY <1>0, <1>5, <2>1, CleanupKeeps
<1> QED BY <1>1, <1>2, <1>3, <1>4, <1>5, RegistrySteps DEF RegistryStep

\* While no control connection breaks by itself, every port in using_ports is
\* one that some controller will give back, however clients come and go and
\* whatever else fails.
THEOREM NoPortIsLost == ASSUME "link" \notin Faults PROVE Spec => []NoPortLost
<1>1. Init => RepliesGoOut /\ NoPortLost
  BY DEF Init, ServerInit, RepliesGoOut, Answering, NoPortLost
<1>2. TypeInv /\ RegistryInv /\ HandshakeInv /\ RepliesGoOut /\ NoPortLost /\ [Next]_vars
        => RepliesGoOut' /\ NoPortLost'
  <2> SUFFICES ASSUME TypeInv, RegistryInv, HandshakeInv, RepliesGoOut, NoPortLost, [Next]_vars
               PROVE  RepliesGoOut' /\ NoPortLost'
    OBVIOUS
  <2>1. UNCHANGED vars => RepliesGoOut'
    BY DEF vars, wireVars, serverVars, RepliesGoOut
  <2> QED BY <2>1, OutsideKeepsReplies, ServerKeepsReplies, NextLosesNothing DEF Next
<1> QED BY <1>1, <1>2, TypeInvariance, RegistryInvariance, HandshakeInvariance, PTL DEF Spec

-----------------------------------------------------------------------------
(***************************************************************************)
(* 5. The visitors: from the monitor that accepted one through the queue   *)
(* of reports, the announcement to the client and the data connection that *)
(* claims it.  VisitorInv says that a visitor is in one of these places at *)
(* a time, and always with the controller whose monitor accepted it.  It   *)
(* is inductive relative to the types and to what HandshakeInv says of     *)
(* ids: a channel names the session its announcement came over.            *)
(***************************************************************************)

Has(queue, msg) == \E i \in DOMAIN queue : queue[i] = msg
Once(queue, msg) == \A i, j \in DOMAIN queue : (queue[i] = msg /\ queue[j] = msg) => i = j

\* The announcement of a visitor, and the queues that hold no other.
Announcement(v) == NewChannel(PortOf[v], v)
Proper(queue) ==
    \A i \in DOMAIN queue :
        queue[i].type = "new_channel" => queue[i] = Announcement(queue[i].number)

Known(v) == visitor[v] \in {"waiting", "closed"}
Notified(s, v) == phase[s] = "notify" /\ notifying[s] = v
Claiming == {"dialing", "offered", "queued", "handed"}

\* Where a visitor may be: in a queue of reports, being announced, in a queue
\* of announcements, claimed.
VisitorOf(v) ==
    /\ \A s \in Session :
         /\ Has(reports[s], New(v)) => visitor[v] = "reported" /\ host[v] = s
         /\ Notified(s, v) => Known(v) /\ host[v] = s /\ data[v] = "none"
         /\ Has(down[s], Announcement(v)) =>
              Known(v) /\ host[v] = s /\ data[v] = "none" /\ ~Notified(s, v)
         /\ Once(reports[s], New(v)) /\ Once(down[s], Announcement(v))
    /\ data[v] # "none" => visitor[v] \notin {"away", "reported"}
    /\ data[v] \in Claiming => Known(v) /\ host[v] = from[v]

VisitorInv ==
    /\ \A s \in Session : Proper(down[s])
    /\ \A v \in Visitors : VisitorOf(v)

\* The types the argument needs.
LEMMA VisitorTypes ==
    ASSUME TypeInv
    PROVE  /\ phase \in [Session -> Phase]
           /\ reports \in [Session -> Seq(Report)] /\ down \in [Session -> Seq(ServerMessage)]
           /\ notifying \in [Session -> Visitors \cup {NoVisitor}]
           /\ visitor \in [Visitors -> {"away", "reported", "waiting", "joined", "closed"}]
           /\ host \in [Visitors -> Session \cup {NoOne}]
           /\ data \in [Visitors ->
                          {"none", "dialing", "offered", "queued", "handed", "joined", "gone"}]
           /\ from \in [Visitors -> Session \cup {NoOne}]
           /\ conn \in [Clients -> Session \cup {NoOne}]
           /\ \A s \in Session : phase[s] = "notify" => notifying[s] \in Visitors
           /\ \A c \in Clients : cphase[c] \notin {"connect", "down"} => conn[c] \in Session
BY DEF TypeInv, TypeOK, WireTypeOK, ServerTypeOK, ClientTypeOK, ServerBound, ClientBound

\* Reports and announcements of two visitors differ.
LEMMA Namings ==
    /\ \A v, w : New(v) = New(w) => v = w
    /\ \A v, p : New(v) # Error(p)
    /\ \A v : New(v).report = "new" /\ New(v).visitor = v
    /\ \A v, w : Announcement(v) = Announcement(w) => v = w
    /\ \A v : Announcement(v).type = "new_channel" /\ Announcement(v).number = v
    /\ \A v \in Visitors : New(v) \in Report /\ Announcement(v) \in ServerMessage
    /\ \A r \in Report : r.report = "new" => r.visitor \in Visitors /\ r = New(r.visitor)
<1>1. \A v : New(v).report = "new" /\ New(v).visitor = v
  BY DEF New
<1>2. \A v : Announcement(v).type = "new_channel" /\ Announcement(v).number = v
  BY DEF Announcement, NewChannel
<1>3. \A p : Error(p).report = "error"
  BY DEF Error
<1>4. \A v \in Visitors : New(v) \in Report /\ Announcement(v) \in ServerMessage
  BY ServerMessages, WireAssumption DEF Report, Announcement
<1>5. \A r \in Report : r.report = "new" => r.visitor \in Visitors /\ r = New(r.visitor)
  BY <1>1, <1>3 DEF Report
<1> QED BY <1>1, <1>2, <1>3, <1>4, <1>5

\* Nobody has come at the start.
LEMMA InitVisitors == Init => VisitorInv
BY DEF Init, WireInit, ServerInit, VisitorInv, VisitorOf, Proper, Has, Once, Notified, Claiming

-----------------------------------------------------------------------------
(* Queues.                                                                 *)

\* A message that is written is in the queue, and still once if it was not.
LEMMA Written ==
    ASSUME NEW M, NEW q \in Seq(M), NEW m \in M, NEW x
    PROVE  /\ Has(Append(q, m), x) <=> (Has(q, x) \/ m = x)
           /\ (Once(q, x) /\ (m # x \/ ~Has(q, x))) => Once(Append(q, m), x)
           /\ (Proper(q) /\ (m.type = "new_channel" => m = Announcement(m.number)))
                => Proper(Append(q, m))
<1>1. /\ Len(q) \in Nat /\ DOMAIN q = 1..Len(q)
      /\ DOMAIN Append(q, m) = 1..(Len(q) + 1)
      /\ \A i \in 1..Len(q) : Append(q, m)[i] = q[i]
      /\ Append(q, m)[Len(q) + 1] = m
  OBVIOUS
<1>2. \A i \in DOMAIN Append(q, m) : i \in DOMAIN q \/ i = Len(q) + 1
  BY <1>1
<1>3. Has(Append(q, m), x) <=> (Has(q, x) \/ m = x)
  BY <1>1, <1>2 DEF Has
<1>4. (Once(q, x) /\ (m # x \/ ~Has(q, x))) => Once(Append(q, m), x)
  BY <1>1, <1>2 DEF Has, Once
<1>5. ASSUME Proper(q), m.type = "new_channel" => m = Announcement(m.number)
      PROVE  Proper(Append(q, m))
  BY <1>1, <1>2, <1>5 DEF Proper
<1> QED BY <1>3, <1>4, <1>5

\* A message that is read is gone if it was there once.
LEMMA Read ==
    ASSUME NEW M, NEW q \in Seq(M), NEW x, q # <<>>
    PROVE  /\ Has(Tail(q), x) => Has(q, x)
           /\ Once(q, x) => Once(Tail(q), x)
           /\ Proper(q) => Proper(Tail(q))
           /\ Has(q, Head(q)) /\ Head(q) \in M
           /\ Once(q, Head(q)) => ~Has(Tail(q), Head(q))
           /\ (Proper(q) /\ Head(q).type = "new_channel") => Head(q) = Announcement(Head(q).number)
<1>1. /\ Len(q) \in Nat /\ DOMAIN q = 1..Len(q) /\ 1 \in DOMAIN q /\ Head(q) = q[1]
      /\ DOMAIN Tail(q) = 1..(Len(q) - 1) /\ Head(q) \in M
      /\ \A i \in DOMAIN Tail(q) :
           Tail(q)[i] = q[i + 1] /\ i + 1 \in DOMAIN q /\ i + 1 # 1 /\ i \in Nat
  OBVIOUS
<1>2. Has(Tail(q), x) => Has(q, x)
  BY <1>1 DEF Has
<1>3. Once(q, x) => Once(Tail(q), x)
  <2> SUFFICES ASSUME Once(q, x), NEW i \in DOMAIN Tail(q), NEW j \in DOMAIN Tail(q),
                      Tail(q)[i] = x, Tail(q)[j] = x
               PROVE  i = j
    BY DEF Once
  <2>1. i + 1 = j + 1
    BY <1>1 DEF Once
  <2> QED BY <1>1, <2>1
<1>4. Proper(q) => Proper(Tail(q))
  BY <1>1 DEF Proper
<1>5. Has(q, Head(q))
  BY <1>1 DEF Has
<1>6. Once(q, Head(q)) => ~Has(Tail(q), Head(q))
  BY <1>1 DEF Once, Has
<1>7. (Proper(q) /\ Head(q).type = "new_channel") => Head(q) = Announcement(Head(q).number)
  BY <1>1 DEF Proper
<1> QED BY <1>1, <1>2, <1>3, <1>4, <1>5, <1>6, <1>7

\* An empty queue has nothing.
LEMMA Emptied == ASSUME NEW x PROVE ~Has(<<>>, x) /\ Once(<<>>, x) /\ Proper(<<>>)
BY DEF Has, Once, Proper

-----------------------------------------------------------------------------
(* Steps that report and announce nobody new.                              *)

\* The queue of t is left alone, emptied, read, or written something else.
PlainDown(t) ==
    \/ down'[t] = down[t] \/ down'[t] = <<>>
    \/ down[t] # <<>> /\ down'[t] = Tail(down[t])
    \/ \E msg \in ServerMessage :
         msg.type # "new_channel" /\ down'[t] = Append(down[t], msg)
PlainReports(t) ==
    \/ reports'[t] = reports[t] \/ reports'[t] = <<>>
    \/ reports[t] # <<>> /\ reports'[t] = Tail(reports[t])
    \/ \E msg \in Report : msg.report # "new" /\ reports'[t] = Append(reports[t], msg)

LEMMA PlainQueues ==
    ASSUME TypeInv, NEW t \in Session, NEW v \in Visitors
    PROVE  /\ PlainDown(t) =>
                /\ Has(down'[t], Announcement(v)) => Has(down[t], Announcement(v))
                /\ Once(down[t], Announcement(v)) => Once(down'[t], Announcement(v))
                /\ Proper(down[t]) => Proper(down'[t])
           /\ PlainReports(t) =>
                /\ Has(reports'[t], New(v)) => Has(reports[t], New(v))
                /\ Once(reports[t], New(v)) => Once(reports'[t], New(v))
<1>0. down[t] \in Seq(ServerMessage) /\ reports[t] \in Seq(Report)
  BY VisitorTypes
<1>1. ASSUME PlainDown(t)
      PROVE  /\ Has(down'[t], Announcement(v)) => Has(down[t], Announcement(v))
             /\ Once(down[t], Announcement(v)) => Once(down'[t], Announcement(v))
             /\ Proper(down[t]) => Proper(down'[t])
  <2>1. CASE down'[t] = down[t]
    BY <2>1
  <2>2. CASE down'[t] = <<>>
    BY <2>2, Emptied
  <2>3. CASE down[t] # <<>> /\ down'[t] = Tail(down[t])
    BY <1>0, <2>3, Read
  <2>4. ASSUME NEW msg \in ServerMessage, msg.type # "new_channel",
               down'[t] = Append(down[t], msg)
        PROVE  /\ Has(down'[t], Announcement(v)) => Has(down[t], Announcement(v))
               /\ Once(down[t], Announcement(v)) => Once(down'[t], Announcement(v))
               /\ Proper(down[t]) => Proper(down'[t])
    <3>1. msg # Announcement(v)
      BY <2>4, Namings
    <3>2. Proper(down[t]) => Proper(Append(down[t], msg))
      BY <1>0, <2>4, Written
    <3>3. Has(Append(down[t], msg), Announcement(v)) => Has(down[t], Announcement(v))
      BY <1>0, <2>4, <3>1, Written
    <3>4. Once(down[t], Announcement(v)) => Once(Append(down[t], msg), Announcement(v))
      BY <1>0, <2>4, <3>1, Written
    <3> QED BY <2>4, <3>2, <3>3, <3>4
  <2> QED BY <1>1, <2>1, <2>2, <2>3, <2>4 DEF PlainDown
<1>2. ASSUME PlainReports(t)
      PROVE  /\ Has(reports'[t], New(v)) => Has(reports[t], New(v))
             /\ Once(reports[t], New(v)) => Once(reports'[t], New(v))
  <2>1. CASE reports'[t] = reports[t]
    BY <2>1
  <2>2. CASE reports'[t] = <<>>
    BY <2>2, Emptied
  <2>3. CASE reports[t] # <<>> /\ reports'[t] = Tail(reports[t])
    BY <1>0, <2>3, Read
  <2>4. ASSUME NEW msg \in Report, msg.report # "new", reports'[t] = Append(reports[t], msg)
        PROVE  /\ Has(reports'[t], New(v)) => Has(reports[t], New(v))
               /\ Once(reports[t], New(v)) => Once(reports'[t], New(v))
    <3>1. msg # New(v)
      BY <2>4, Namings
    <3> QED BY <1>0, <2>4, <3>1, Written
  <2> QED BY <1>2, <2>1, <2>2, <2>3, <2>4 DEF PlainReports
<1> QED BY <1>1, <1>2

\* Nothing reports, announces or tells of v that did not before.
NoNews(v) ==
    \A t \in Session :
        /\ Has(reports'[t], New(v)) => Has(reports[t], New(v))
        /\ Once(reports[t], New(v)) => Once(reports'[t], New(v))
        /\ Notified(t, v)' => Notified(t, v)
        /\ Has(down'[t], Announcement(v)) => Has(down[t], Announcement(v))
        /\ Once(down[t], Announcement(v)) => Once(down'[t], Announcement(v))

\* What may become of a visitor and its data connection without news of it.
Fate(v) ==
    \/ visitor'[v] = visitor[v] /\ data'[v] = data[v]
    \/ /\ visitor[v] = "waiting" /\ visitor'[v] = "closed" /\ data'[v] = data[v]
    \/ /\ data[v] # "none" /\ data'[v] # "none"
       /\ \/ visitor'[v] = visitor[v] /\ (data'[v] \in Claiming => data[v] \in Claiming)
          \/ visitor'[v] \in {"joined", "closed"} /\ data'[v] \notin Claiming
    \/ /\ visitor[v] = "reported" /\ visitor'[v] = "closed" /\ data'[v] = data[v]
       /\ \A t \in Session : ~Has(reports'[t], New(v))

\* A visitor keeps its place.
LEMMA PlaceKept ==
    ASSUME NEW v \in Visitors, VisitorOf(v), NoNews(v), Fate(v),
           host'[v] = host[v], from'[v] = from[v]
    PROVE  VisitorOf(v)'
<1>1. ASSUME NEW t \in Session
      PROVE  /\ Has(reports[t], New(v))' => visitor'[v] = "reported" /\ host'[v] = t
             /\ Notified(t, v)' => Known(v)' /\ host'[v] = t /\ data'[v] = "none"
             /\ Has(down[t], Announcement(v))' =>
                  Known(v)' /\ host'[v] = t /\ data'[v] = "none" /\ ~Notified(t, v)'
             /\ Once(reports[t], New(v))' /\ Once(down[t], Announcement(v))'
  <2>1. Once(reports[t], New(v))' /\ Once(down[t], Announcement(v))'
    BY DEF NoNews, VisitorOf, Announcement, New, NewChannel, Once
  <2>2. Has(reports[t], New(v))' => visitor'[v] = "reported" /\ host'[v] = t
    <3>1. Has(reports[t], New(v))' => Has(reports'[t], New(v))
      BY DEF New, Has
    <3> QED BY <3>1 DEF NoNews, VisitorOf, Fate
  <2>3. Notified(t, v)' => Known(v)' /\ host'[v] = t /\ data'[v] = "none"
    BY DEF NoNews, VisitorOf, Fate, Known
  <2>4. Has(down[t], Announcement(v))' =>
          Known(v)' /\ host'[v] = t /\ data'[v] = "none" /\ ~Notified(t, v)'
    <3>1. Has(down[t], Announcement(v))' => Has(down'[t], Announcement(v))
      BY DEF Announcement, NewChannel, Has
    <3> QED BY <3>1 DEF NoNews, VisitorOf, Fate, Known
  <2> QED BY <2>1, <2>2, <2>3, <2>4
<1>2. data'[v] # "none" => visitor'[v] \notin {"away", "reported"}
  BY DEF VisitorOf, Fate
<1>3. data'[v] \in Claiming => Known(v)' /\ host'[v] = from'[v]
  BY DEF VisitorOf, Fate, Known, Claiming
<1> QED BY <1>1, <1>2, <1>3 DEF VisitorOf

\* The forms a plain step of session s takes.
PlainlyDown(s) ==
    \/ down' = down \/ down' = [down EXCEPT ![s] = <<>>]
    \/ down[s] # <<>> /\ down' = Taken(down, s)
    \/ \E msg \in ServerMessage : msg.type # "new_channel" /\ down' = Sent(down, s, msg)
PlainlyReports(s) ==
    \/ reports' = reports \/ reports' = [reports EXCEPT ![s] = <<>>]
    \/ reports[s] # <<>> /\ reports' = Taken(reports, s)
    \/ \E msg \in Report : msg.report # "new" /\ reports' = Sent(reports, s, msg)
TellsNobody(s) ==
    /\ \/ phase' = phase
       \/ \E next \in Phase \ {"notify"} : phase' = [phase EXCEPT ![s] = next]
    /\ \/ notifying' = notifying
       \/ phase'[s] # "notify" /\ notifying' = [notifying EXCEPT ![s] = NoVisitor]

LEMMA PlainForms ==
    ASSUME TypeInv, NEW s \in Session, NEW t \in Session
    PROVE  /\ PlainlyDown(s) => PlainDown(t)
           /\ PlainlyReports(s) => PlainReports(t)
           /\ TellsNobody(s) => \A v \in Visitors : Notified(t, v)' => Notified(t, v)
<1>1. ASSUME PlainlyDown(s) PROVE PlainDown(t)
  <2>1. CASE down' = down \/ down' = [down EXCEPT ![s] = <<>>]
    BY <2>1, VisitorTypes DEF PlainDown
  <2>2. CASE down[s] # <<>> /\ down' = Taken(down, s)
    BY <2>2, VisitorTypes DEF PlainDown, Taken
  <2>3. ASSUME NEW msg \in ServerMessage, msg.type # "new_channel", down' = Sent(down, s, msg)
        PROVE  PlainDown(t)
    BY <2>3, VisitorTypes DEF PlainDown, Sent
  <2> QED BY <1>1, <2>1, <2>2, <2>3 DEF PlainlyDown
<1>2. ASSUME PlainlyReports(s) PROVE PlainReports(t)
  <2>1. CASE reports' = reports \/ reports' = [reports EXCEPT ![s] = <<>>]
    BY <2>1, VisitorTypes DEF PlainReports
  <2>2. CASE reports[s] # <<>> /\ reports' = Taken(reports, s)
    BY <2>2, VisitorTypes DEF PlainReports, Taken
  <2>3. ASSUME NEW msg \in Report, msg.report # "new", reports' = Sent(reports, s, msg)
        PROVE  PlainReports(t)
    BY <2>3, VisitorTypes DEF PlainReports, Sent
  <2> QED BY <1>2, <2>1, <2>2, <2>3 DEF PlainlyReports
<1>3. ASSUME TellsNobody(s), NEW v \in Visitors PROVE Notified(t, v)' => Notified(t, v)
  BY <1>3, VisitorTypes DEF TellsNobody, Notified
<1> QED BY <1>1, <1>2, <1>3

\* A plain step keeps every visitor's place.
LEMMA PlainStep ==
    ASSUME TypeInv, VisitorInv, NEW s \in Session,
           PlainlyDown(s), PlainlyReports(s), TellsNobody(s),
           UNCHANGED <<host, from>>, \A v \in Visitors : Fate(v)
    PROVE  VisitorInv'
<1>1. \A t \in Session : PlainDown(t) /\ PlainReports(t)
  BY PlainForms
<1>2. ASSUME NEW v \in Visitors PROVE VisitorOf(v)'
  <2>1. NoNews(v)
    BY <1>1, PlainForms, PlainQueues DEF NoNews
  <2> QED BY <2>1, PlaceKept DEF VisitorInv
<1>3. ASSUME NEW t \in Session PROVE Proper(down[t])'
  <2>1. Proper(down'[t])
    <3>1. PlainDown(t) /\ Proper(down[t]) /\ down[t] \in Seq(ServerMessage)
      BY <1>1, VisitorTypes DEF VisitorInv
    <3>2. CASE down'[t] = down[t]
      BY <3>1, <3>2
    <3>3. CASE down'[t] = <<>>
      BY <3>3, Emptied
    <3>4. CASE down[t] # <<>> /\ down'[t] = Tail(down[t])
      BY <3>1, <3>4, Read
    <3>5. ASSUME NEW msg \in ServerMessage, msg.type # "new_channel",
                 down'[t] = Append(down[t], msg)
          PROVE  Proper(down'[t])
      <4>1. Proper(down[t]) => Proper(Append(down[t], msg))
        BY <3>1, <3>5, Written
      <4> QED BY <3>1, <3>5, <4>1
    <3> QED BY <3>1, <3>2, <3>3, <3>4, <3>5 DEF PlainDown
  <2> QED BY <2>1 DEF Proper, Announcement, NewChannel
<1> QED BY <1>2, <1>3 DEF VisitorInv

\* The network and the controllers' own steps.
LEMMA NetworkKeepsPlaces ==
    ASSUME TypeInv, VisitorInv, NEW s \in Session,
           ResetServerEnd(s) \/ ResetClientEnd(s) \/ LinkFails(s), UNCHANGED serverVars
    PROVE  VisitorInv'
<1>1. PlainlyDown(s) /\ data' = data /\ from' = from
  BY DEF ResetServerEnd, ResetClientEnd, LinkFails, PlainlyDown
<1>2. PlainlyReports(s) /\ TellsNobody(s) /\ host' = host /\ visitor' = visitor
  BY DEF serverVars, PlainlyReports, TellsNobody
<1>3. \A v \in Visitors : Fate(v)
  BY <1>1, <1>2 DEF Fate
<1> QED BY <1>1, <1>2, <1>3, PlainStep

LEMMA ControllersKeepPlaces ==
    ASSUME TypeInv, VisitorInv, NEW s \in Session,
           \/ OnNewClient(s) \/ FirstReadFails(s) \/ SendAcceptClient(s) \/ ReadConfig(s)
           \/ AcquirePorts(s) \/ WriteReply(s) \/ ReadHeartbeat(s) \/ HeartbeatTimeout(s)
           \/ ReadFails(s)
    PROVE  VisitorInv'
<1> USE DEF wireVars, serverVars, registryVars, monitorVars, visitorVars, Goes, Phase
<1>1. /\ UNCHANGED <<reports, notifying, visitor, host, data, from>>
      /\ phase' = phase \/ \E next \in Phase \ {"notify"} : phase' = [phase EXCEPT ![s] = next]
  <2>1. CASE OnNewClient(s)
    <3>1. PICK next \in {"hello", "done"} : phase' = [phase EXCEPT ![s] = next]
      BY <2>1 DEF OnNewClient
    <3> QED BY <2>1, <3>1 DEF OnNewClient
  <2>2. CASE FirstReadFails(s) \/ HeartbeatTimeout(s) \/ ReadFails(s) \/ AcquirePorts(s)
    BY <2>2 DEF FirstReadFails, HeartbeatTimeout, ReadFails, AcquirePorts
  <2>3. CASE SendAcceptClient(s)
    <3>1. PICK next \in {"config", "cleanup"} : phase' = [phase EXCEPT ![s] = next]
      BY <2>3 DEF SendAcceptClient
    <3> QED BY <2>3, <3>1 DEF SendAcceptClient
  <2>4. CASE ReadConfig(s)
    <3>1. PICK next \in {"lock", "cleanup"} : phase' = [phase EXCEPT ![s] = next]
      BY <2>4 DEF ReadConfig
    <3> QED BY <2>4, <3>1 DEF ReadConfig
  <2>5. CASE WriteReply(s)
    <3>1. PICK next \in {"serve", "cleanup"} : phase' = [phase EXCEPT ![s] = next]
      BY <2>5 DEF WriteReply
    <3> QED BY <2>5, <3>1 DEF WriteReply
  <2>6. CASE ReadHeartbeat(s)
    BY <2>6 DEF ReadHeartbeat
  <2> QED BY <2>1, <2>2, <2>3, <2>4, <2>5, <2>6
<1>2. PlainlyDown(s)
  <2>1. CASE SendAcceptClient(s) \/ WriteReply(s)
    <3>1. AcceptClient(s) \in ServerMessage /\ AcceptClient(s).type # "new_channel"
      BY ServerMessages, Kinds
    <3>2. Reply(s) \in ServerMessage /\ Reply(s).type # "new_channel"
      BY ServerMessages, Kinds, HandshakeTypes DEF Reply
    <3>3. \/ down' = down \/ down' = Sent(down, s, AcceptClient(s))
          \/ down' = Sent(down, s, Reply(s))
      BY <2>1 DEF SendAcceptClient, WriteReply
    <3> QED BY <3>1, <3>2, <3>3 DEF PlainlyDown
  <2>2. CASE ~(SendAcceptClient(s) \/ WriteReply(s))
    <3>1. down' = down
      BY <2>2 DEF OnNewClient, FirstReadFails, ReadConfig, AcquirePorts, ReadHeartbeat,
                  HeartbeatTimeout, ReadFails
    <3> QED BY <3>1 DEF PlainlyDown
  <2> QED BY <2>1, <2>2
<1>3. PlainlyReports(s) /\ TellsNobody(s) /\ \A v \in Visitors : Fate(v)
  BY <1>1 DEF PlainlyReports, TellsNobody, Fate
<1> QED BY <1>1, <1>2, <1>3, PlainStep

\* cleanup: reported visitors go with the queue of reports, and unread mail
\* with the data connections it is about.
LEMMA CleanupKeepsPlaces ==
    ASSUME TypeInv, VisitorInv, NEW s \in Session, Cleanup(s)
    PROVE  VisitorInv'
<1>1. /\ phase' = [phase EXCEPT ![s] = "done"] /\ reports' = [reports EXCEPT ![s] = <<>>]
      /\ UNCHANGED <<down, notifying, host, from>>
      /\ \A v \in Visitors :
           /\ visitor'[v] = IF visitor[v] = "reported" /\ host[v] = s THEN "closed" ELSE visitor[v]
           /\ data'[v] = IF data[v] = "queued" /\ from[v] = s THEN "gone" ELSE data[v]
  BY DEF Cleanup, Goes
<1>2. PlainlyDown(s) /\ PlainlyReports(s) /\ TellsNobody(s)
  BY <1>1 DEF PlainlyDown, PlainlyReports, TellsNobody, Phase
<1>3. ASSUME NEW v \in Visitors PROVE Fate(v)
  <2>1. VisitorOf(v)
    BY DEF VisitorInv
  <2>2. CASE visitor[v] = "reported" /\ host[v] = s
    <3>1. data[v] = "none"
      BY <2>1, <2>2 DEF VisitorOf
    <3>2. ASSUME NEW t \in Session PROVE ~Has(reports'[t], New(v))
      <4>1. CASE t = s
        BY <1>1, <4>1, VisitorTypes, Emptied
      <4>2. CASE t # s
        <5>1. reports'[t] = reports[t]
          BY <1>1, <4>2, VisitorTypes
        <5> QED BY <2>1, <2>2, <4>2, <5>1 DEF VisitorOf
      <4> QED BY <4>1, <4>2
    <3> QED BY <1>1, <2>2, <3>1, <3>2 DEF Fate
  <2>3. CASE ~(visitor[v] = "reported" /\ host[v] = s)
    BY <1>1, <2>3 DEF Fate, Claiming
  <2> QED BY <2>2, <2>3
<1> QED BY <1>1, <1>2, <1>3, PlainStep

\* The tasks of pending sockets and of data connections.
LEMMA RelaysKeepPlaces ==
    ASSUME TypeInv, VisitorInv, NEW w \in Visitors,
           \/ \E s \in Session : ServerMsg(s, w)
           \/ OnAcceptChannel(w) \/ MakeChannel(w) \/ PendingTimeout(w) \/ RelayEnds(w)
           \/ (StartChannel(w) \/ ChannelFails(w)) /\ UNCHANGED serverVars
    PROVE  VisitorInv'
<1> USE DEF wireVars, serverVars, registryVars, monitorVars, visitorVars
<1>1. UNCHANGED <<down, reports, phase, notifying, host, from>>
  BY DEF ServerMsg, OnAcceptChannel, MakeChannel, PendingTimeout, RelayEnds, StartChannel,
         ChannelFails
<1>2. \A s \in Session : PlainlyDown(s) /\ PlainlyReports(s) /\ TellsNobody(s)
  BY <1>1 DEF PlainlyDown, PlainlyReports, TellsNobody
<1>3. 1 \in Session
  BY WireAssumption DEF Session
<1>4. ASSUME NEW v \in Visitors PROVE Fate(v)
  <2>1. CASE \/ \E s \in Session : ServerMsg(s, w)
             \/ OnAcceptChannel(w)
             \/ (StartChannel(w) \/ ChannelFails(w)) /\ UNCHANGED serverVars
    <3>1. /\ visitor' = visitor /\ data[w] \in Claiming
          /\ \E next \in Claiming \cup {"gone"} : data' = [data EXCEPT ![w] = next]
      <4> USE DEF Claiming
      <4>1. ASSUME NEW s \in Session, ServerMsg(s, w)
            PROVE  data[w] \in Claiming /\ data' = [data EXCEPT ![w] = "handed"] /\ visitor' = visitor
        BY <4>1 DEF ServerMsg
      <4>2. CASE OnAcceptChannel(w)
        BY <4>2 DEF OnAcceptChannel
      <4>3. CASE StartChannel(w) /\ UNCHANGED serverVars
        BY <4>3 DEF StartChannel
      <4>4. CASE ChannelFails(w) /\ UNCHANGED serverVars
        BY <4>4 DEF ChannelFails
      <4> QED BY <2>1, <4>1, <4>2, <4>3, <4>4
    <3> QED BY <3>1, VisitorTypes DEF Fate, Claiming
  <2>2. CASE MakeChannel(w)
    BY <2>2, VisitorTypes DEF MakeChannel, Fate, Claiming
  <2>3. CASE PendingTimeout(w)
    BY <2>3, VisitorTypes DEF PendingTimeout, Due, Fate, Claiming
  <2>4. CASE RelayEnds(w)
    BY <2>4, VisitorTypes DEF RelayEnds, Fate, Claiming
  <2> QED BY <2>1, <2>2, <2>3, <2>4
<1> QED BY <1>1, <1>2, <1>3, <1>4, PlainStep

\* Monitors that end, and the accept loop.
LEMMA MonitorsKeepPlaces ==
    ASSUME TypeInv, VisitorInv, NEW s \in Session, NEW p \in Ports,
           Bind(s, p) \/ MonitorFails(s, p) \/ MonitorStops(s, p)
    PROVE  VisitorInv'
<1> USE DEF wireVars, visitorVars
<1>1. UNCHANGED <<down, phase, notifying, host, from, visitor, data>>
  BY DEF Bind, MonitorFails, MonitorStops
<1>2. Error(p) \in Report /\ Error(p).report # "new"
  BY DEF Report, Error
<1>3. reports' = reports \/ reports' = Sent(reports, s, Error(p))
  BY DEF Bind, MonitorFails, MonitorStops, Dies
<1>4. PlainlyDown(s) /\ TellsNobody(s) /\ \A v \in Visitors : Fate(v)
  BY <1>1 DEF PlainlyDown, TellsNobody, Fate
<1>5. PlainlyReports(s)
  BY <1>2, <1>3 DEF PlainlyReports
<1> QED BY <1>1, <1>4, <1>5, PlainStep

\* A step of a client that reads no announcement.
LEMMA ClientsKeepPlaces ==
    ASSUME TypeInv, VisitorInv, NEW c \in Clients,
           \/ Connect(c) \/ Reconnect(c) \/ ConnectFails(c) \/ ReconnectFails(c)
           \/ SendNewClient(c) \/ RecvAcceptClient(c) \/ SendPushConfig(c) \/ RecvAcceptConfig(c)
           \/ SessionReadFails(c) \/ SendHeartbeat(c) \/ Stop(c),
           UNCHANGED serverVars
    PROVE  VisitorInv'
<1> USE DEF wireVars, serverVars
<1>1. UNCHANGED <<phase, reports, notifying, visitor, host>>
  OBVIOUS
<1>2. from' = from
  BY DEF Connect, Reconnect, Dial, ConnectFails, ReconnectFails, SendNewClient, RecvAcceptClient,
         SendPushConfig, RecvAcceptConfig, SessionReadFails, SendHeartbeat, Stop, Writes
<1>3. \A v \in Visitors : Fate(v)
  <2>1. CASE Stop(c)
    <3>1. \A v \in Visitors : data'[v] = data[v] \/ (data[v] = "dialing" /\ data'[v] = "gone")
      BY <2>1 DEF Stop
    <3> QED BY <1>1, <3>1 DEF Fate, Claiming
  <2>2. CASE ~Stop(c)
    <3>1. data' = data
      BY <2>2 DEF Connect, Reconnect, Dial, ConnectFails, ReconnectFails, SendNewClient,
                  RecvAcceptClient, SendPushConfig, RecvAcceptConfig, SessionReadFails,
                  SendHeartbeat, Writes
    <3> QED BY <1>1, <3>1 DEF Fate
  <2> QED BY <2>1, <2>2
<1>4. PICK s \in Session : PlainlyDown(s)
  <2>1. CASE RecvAcceptClient(c) \/ RecvAcceptConfig(c)
    <3>1. conn[c] \in Session /\ down[conn[c]] # <<>> /\ down' = Taken(down, conn[c])
      BY <2>1, VisitorTypes DEF RecvAcceptClient, RecvAcceptConfig, ClientHears
    <3> QED BY <3>1 DEF PlainlyDown
  <2>2. CASE ~(RecvAcceptClient(c) \/ RecvAcceptConfig(c))
    <3>1. down' = down
      BY <2>2 DEF Connect, Reconnect, Dial, ConnectFails, ReconnectFails, SendNewClient,
                  SendPushConfig, SessionReadFails, SendHeartbeat, Stop, Writes
    <3>2. 1 \in Session
      BY WireAssumption DEF Session
    <3> QED BY <3>1, <3>2 DEF PlainlyDown
  <2> QED BY <2>1, <2>2
<1>5. PlainlyReports(s) /\ TellsNobody(s)
  BY <1>1 DEF PlainlyReports, TellsNobody
<1> QED BY <1>1, <1>2, <1>3, <1>4, <1>5, PlainStep

-----------------------------------------------------------------------------
(* The four steps that move a visitor on.                                  *)

\* Those that stay behind keep their places.
LEMMA OthersStay ==
    ASSUME VisitorInv, NEW w \in Visitors, VisitorOf(w)',
           \A s \in Session : Proper(down[s])',
           \A v \in Visitors : v # w =>
               /\ NoNews(v) /\ visitor'[v] = visitor[v] /\ data'[v] = data[v]
               /\ host'[v] = host[v] /\ from'[v] = from[v]
    PROVE  VisitorInv'
BY PlaceKept DEF VisitorInv, Fate

\* A monitor accepts a visitor and reports it, if anybody listens.
LEMMA AcceptsMovesOn ==
    ASSUME TypeInv, VisitorInv, NEW s \in Session, NEW w \in Visitors, MonitorAccepts(s, w)
    PROVE  VisitorInv'
<1> USE DEF wireVars, registryVars
<1>0. /\ visitor[w] = "away" /\ VisitorOf(w)
      /\ UNCHANGED <<down, phase, notifying, data, from>>
      /\ New(w) \in Report /\ reports \in [Session -> Seq(Report)]
  BY VisitorTypes, Namings DEF MonitorAccepts, VisitorInv
<1>1. /\ \A t \in Session : ~Has(reports[t], New(w)) /\ ~Notified(t, w)
                            /\ ~Has(down[t], Announcement(w)) /\ Once(reports[t], New(w))
                            /\ Once(down[t], Announcement(w))
      /\ data[w] = "none"
  BY <1>0 DEF VisitorOf, Known
<1>2. \A t \in Session : Proper(down[t])'
  BY <1>0 DEF VisitorInv, Proper, Announcement, NewChannel
<1>3. \A t \in Session, v \in Visitors :
        /\ Notified(t, v)' <=> Notified(t, v)
        /\ Has(down[t], Announcement(v))' <=> Has(down[t], Announcement(v))
        /\ Once(down[t], Announcement(v))' <=> Once(down[t], Announcement(v))
  BY <1>0 DEF Notified, Has, Once, Announcement, NewChannel
<1>4. CASE HasController(s)
  <2>1. /\ visitor' = [visitor EXCEPT ![w] = "reported"] /\ host' = [host EXCEPT ![w] = s]
        /\ reports' = [reports EXCEPT ![s] = Append(reports[s], New(w))]
    BY <1>4 DEF MonitorAccepts, Sent
  <2>2. \A t \in Session : /\ t # s => reports'[t] = reports[t]
                           /\ t = s => reports'[t] = Append(reports[t], New(w))
    BY <1>0, <2>1
  <2>3. ASSUME NEW t \in Session
        PROVE  /\ Has(reports'[t], New(w)) => t = s
               /\ Once(reports'[t], New(w))
    <3>1. Once(Append(reports[t], New(w)), New(w))
      BY <1>0, <1>1, Written
    <3> QED BY <1>1, <2>2, <3>1
  <2>4. VisitorOf(w)'
    <3>1. /\ visitor'[w] = "reported" /\ host'[w] = s /\ data'[w] = "none"
      BY <1>0, <1>1, <2>1, VisitorTypes
    <3>2. \A t \in Session : /\ Has(reports[t], New(w))' <=> Has(reports'[t], New(w))
                             /\ Once(reports[t], New(w))' <=> Once(reports'[t], New(w))
      BY DEF New, Has, Once
    <3> QED BY <1>1, <1>3, <2>3, <3>1, <3>2 DEF VisitorOf, Claiming
  <2>5. ASSUME NEW v \in Visitors, v # w
        PROVE  /\ NoNews(v) /\ visitor'[v] = visitor[v] /\ data'[v] = data[v]
               /\ host'[v] = host[v] /\ from'[v] = from[v]
    <3>1. New(v) # New(w)
      BY <2>5, Namings
    <3>2. ASSUME NEW t \in Session
          PROVE  /\ Has(reports'[t], New(v)) => Has(reports[t], New(v))
                 /\ Once(reports[t], New(v)) => Once(reports'[t], New(v))
      <4>1. /\ Has(Append(reports[t], New(w)), New(v)) => Has(reports[t], New(v))
            /\ Once(reports[t], New(v)) => Once(Append(reports[t], New(w)), New(v))
        BY <1>0, <3>1, Written
      <4> QED BY <2>2, <4>1
    <3> QED BY <1>0, <1>3, <2>1, <2>5, <3>2, VisitorTypes DEF NoNews, Has, Once, Announcement, NewChannel
  <2> QED BY <1>2, <2>4, <2>5, OthersStay
<1>5. CASE ~HasController(s)
  <2>1. /\ visitor' = [visitor EXCEPT ![w] = "closed"] /\ host' = host /\ reports' = reports
    BY <1>5 DEF MonitorAccepts
  <2>2. \A v \in Visitors : NoNews(v)
    BY <1>0, <1>3, <2>1 DEF NoNews
  <2>3. VisitorOf(w)'
    <3>1. visitor'[w] = "closed" /\ data'[w] = "none"
      BY <1>0, <1>1, <2>1, VisitorTypes
    <3>2. \A t \in Session : /\ Has(reports[t], New(w))' <=> Has(reports[t], New(w))
                             /\ Once(reports[t], New(w))' <=> Once(reports[t], New(w))
      BY <2>1 DEF New, Has, Once
    <3> QED BY <1>1, <1>3, <3>1, <3>2 DEF VisitorOf, Claiming
  <2> QED BY <1>0, <1>2, <2>1, <2>2, <2>3, VisitorTypes, OthersStay
<1> QED BY <1>4, <1>5

\* new_channel: the visitor becomes pending and is to be announced; an Error
\* moves nobody.
LEMMA TakeMovesOn ==
    ASSUME TypeInv, VisitorInv, NEW s \in Session, TakeReport(s)
    PROVE  VisitorInv'
<1> USE DEF wireVars, registryVars
<1>0. /\ phase[s] = "serve" /\ reports[s] # <<>> /\ reports' = Taken(reports, s)
      /\ UNCHANGED <<down, data, from, host>>
      /\ reports \in [Session -> Seq(Report)] /\ Head(reports[s]) \in Report
  BY VisitorTypes, Read DEF TakeReport
<1>1. /\ reports'[s] = Tail(reports[s])
      /\ \A t \in Session : t # s => reports'[t] = reports[t]
  BY <1>0 DEF Taken
<1>2. CASE Head(reports[s]).report # "new"
  <2>1. UNCHANGED <<phase, visitor, notifying>>
    BY <1>2 DEF TakeReport
  <2>2. PlainlyDown(s) /\ PlainlyReports(s) /\ TellsNobody(s) /\ \A v \in Visitors : Fate(v)
    BY <1>0, <2>1 DEF PlainlyDown, PlainlyReports, TellsNobody, Fate
  <2> QED BY <1>0, <2>2, PlainStep
<1>3. CASE Head(reports[s]).report = "new"
  <2>1. PICK w \in Visitors : Head(reports[s]) = New(w)
    BY <1>0, <1>3, Namings
  <2>2. /\ phase' = [phase EXCEPT ![s] = "notify"]
        /\ visitor' = [visitor EXCEPT ![w] = "waiting"]
        /\ notifying' = [notifying EXCEPT ![s] = w]
    BY <1>3, <2>1, Namings DEF TakeReport, Goes
  <2>3. /\ phase'[s] = "notify" /\ notifying'[s] = w
        /\ \A t \in Session : t # s => phase'[t] = phase[t] /\ notifying'[t] = notifying[t]
        /\ visitor'[w] = "waiting"
    BY <2>2, VisitorTypes
  <2>4. VisitorOf(w) /\ Has(reports[s], New(w)) /\ Once(reports[s], New(w))
    BY <1>0, <2>1, Read DEF VisitorInv, VisitorOf
  <2>5. /\ visitor[w] = "reported" /\ host[w] = s /\ data[w] = "none"
        /\ \A t \in Session : ~Notified(t, w) /\ ~Has(down[t], Announcement(w))
        /\ \A t \in Session : t # s => ~Has(reports[t], New(w))
    BY <2>4 DEF VisitorOf, Known
  <2>6. ~Has(Tail(reports[s]), New(w))
    BY <1>0, <2>1, <2>4, Read
  <2>7. \A t \in Session : ~Has(reports'[t], New(w))
    BY <1>1, <2>5, <2>6
  <2>8. ASSUME NEW t \in Session, NEW v \in Visitors
        PROVE  /\ Has(reports'[t], New(v)) => Has(reports[t], New(v))
               /\ Once(reports[t], New(v)) => Once(reports'[t], New(v))
    <3>1. /\ Has(Tail(reports[s]), New(v)) => Has(reports[s], New(v))
          /\ Once(reports[s], New(v)) => Once(Tail(reports[s]), New(v))
      BY <1>0, Read
    <3> QED BY <1>1, <3>1
  <2>9. ASSUME NEW t \in Session, NEW v \in Visitors
        PROVE  /\ Has(reports[t], New(v))' <=> Has(reports'[t], New(v))
               /\ Once(reports[t], New(v))' <=> Once(reports'[t], New(v))
               /\ Has(down[t], Announcement(v))' <=> Has(down[t], Announcement(v))
               /\ Once(down[t], Announcement(v))' <=> Once(down[t], Announcement(v))
               /\ Proper(down[t])' <=> Proper(down[t])
    BY <1>0 DEF New, Has, Once, Proper, Announcement, NewChannel
  <2>10. VisitorOf(w)'
    <3>1. \A t \in Session : Notified(t, w)' => t = s
      BY <2>3, <2>5 DEF Notified
    <3>2. host'[w] = s /\ data'[w] = "none" /\ Known(w)'
      BY <1>0, <2>3, <2>5 DEF Known
    <3> QED BY <2>3, <2>4, <2>5, <2>7, <2>8, <2>9, <3>1, <3>2 DEF VisitorOf, Claiming
  <2>11. ASSUME NEW v \in Visitors, v # w
         PROVE  /\ NoNews(v) /\ visitor'[v] = visitor[v] /\ data'[v] = data[v]
                /\ host'[v] = host[v] /\ from'[v] = from[v]
    <3>1. \A t \in Session : Notified(t, v)' => Notified(t, v)
      BY <2>3, <2>11 DEF Notified
    <3> QED BY <1>0, <2>2, <2>8, <2>11, <3>1, VisitorTypes DEF NoNews
  <2>12. \A t \in Session : Proper(down[t])'
    BY <1>0 DEF VisitorInv, Proper, Announcement, NewChannel
  <2> QED BY <2>10, <2>11, <2>12, OthersStay
<1> QED BY <1>2, <1>3

\* new_channel's write: the visitor is announced to the client of its host.
LEMMA NotifyMovesOn ==
    ASSUME TypeInv, VisitorInv, NEW s \in Session, NotifyClient(s)
    PROVE  VisitorInv'
<1> USE DEF registryVars, monitorVars
<1>0. PICK w \in Visitors : w = notifying[s]
  BY VisitorTypes DEF NotifyClient
<1>1. /\ phase[s] = "notify" /\ notifying[s] = w
      /\ notifying' = [notifying EXCEPT ![s] = NoVisitor]
      /\ UNCHANGED <<reports, visitor, host, data, from>>
  BY <1>0 DEF NotifyClient
<1>2. CASE srv[s] # "open"
  <2>1. phase' = [phase EXCEPT ![s] = "cleanup"] /\ down' = down
    BY <1>2 DEF NotifyClient, Goes
  <2>2. PlainlyDown(s) /\ PlainlyReports(s) /\ TellsNobody(s) /\ \A v \in Visitors : Fate(v)
    BY <1>1, <2>1, VisitorTypes DEF PlainlyDown, PlainlyReports, TellsNobody, Fate, Phase
  <2> QED BY <1>1, <2>2, PlainStep
<1>3. CASE srv[s] = "open"
  <2>1. /\ phase' = [phase EXCEPT ![s] = "serve"]
        /\ down' = [down EXCEPT ![s] = Append(down[s], Announcement(w))]
    BY <1>0, <1>3 DEF NotifyClient, Goes, Sent, Announcement
  <2>2. /\ down[s] \in Seq(ServerMessage) /\ Announcement(w) \in ServerMessage
        /\ down'[s] = Append(down[s], Announcement(w))
        /\ \A t \in Session : t # s => down'[t] = down[t]
    BY <2>1, VisitorTypes, Namings
  <2>3. \A t \in Session, v \in Visitors : Notified(t, v)' <=> t # s /\ Notified(t, v)
    BY <1>1, <2>1, VisitorTypes DEF Notified
  <2>4. /\ VisitorOf(w) /\ Notified(s, w)
        /\ Known(w) /\ host[w] = s /\ data[w] = "none"
        /\ \A t \in Session : ~Has(down[t], Announcement(w)) /\ (Notified(t, w) => t = s)
        /\ \A t \in Session : ~Has(reports[t], New(w))
    <3>1. VisitorOf(w) /\ Notified(s, w)
      BY <1>1 DEF VisitorInv, Notified
    <3> QED BY <3>1 DEF VisitorOf, Known
  <2>5. ASSUME NEW t \in Session, NEW v \in Visitors
        PROVE  /\ Has(reports[t], New(v))' <=> Has(reports[t], New(v))
               /\ Once(reports[t], New(v))' <=> Once(reports[t], New(v))
               /\ Has(down[t], Announcement(v))' <=> Has(down'[t], Announcement(v))
               /\ Once(down[t], Announcement(v))' <=> Once(down'[t], Announcement(v))
    BY <1>1 DEF New, Has, Once, Announcement, NewChannel
  <2>6. ASSUME NEW v \in Visitors
        PROVE  /\ Has(Append(down[s], Announcement(w)), Announcement(v)) <=>
                    (Has(down[s], Announcement(v)) \/ v = w)
               /\ Once(down[s], Announcement(v)) =>
                    Once(Append(down[s], Announcement(w)), Announcement(v))
    <3>1. Announcement(w) = Announcement(v) <=> v = w
      BY Namings
    <3> QED BY <2>2, <2>4, <3>1, Written
  <2>7. VisitorOf(w)'
    <3>1. Known(w)' /\ host'[w] = s /\ data'[w] = "none"
      BY <1>1, <2>4 DEF Known
    <3>2. ASSUME NEW t \in Session
          PROVE  /\ Has(down'[t], Announcement(w)) => t = s
                 /\ Once(down'[t], Announcement(w))
      BY <2>2, <2>4, <2>6 DEF VisitorOf
    <3> QED BY <2>3, <2>4, <2>5, <3>1, <3>2 DEF VisitorOf, Claiming
  <2>8. ASSUME NEW v \in Visitors, v # w
        PROVE  /\ NoNews(v) /\ visitor'[v] = visitor[v] /\ data'[v] = data[v]
               /\ host'[v] = host[v] /\ from'[v] = from[v]
    <3>1. ASSUME NEW t \in Session
          PROVE  /\ Has(down'[t], Announcement(v)) => Has(down[t], Announcement(v))
                 /\ Once(down[t], Announcement(v)) => Once(down'[t], Announcement(v))
      BY <2>2, <2>6, <2>8
    <3> QED BY <1>1, <2>3, <3>1 DEF NoNews
  <2>9. \A t \in Session : Proper(down[t])'
    <3>1. Proper(Append(down[s], Announcement(w)))
      <4>1. Proper(down[s]) /\ Announcement(w).number = w
        BY Namings DEF VisitorInv
      <4> QED BY <2>2, <4>1, Written
    <3>2. \A t \in Session : Proper(down'[t])
      BY <2>2, <3>1 DEF VisitorInv
    <3> QED BY <3>2 DEF Proper, Announcement, NewChannel
  <2> QED BY <2>7, <2>8, <2>9, OthersStay
<1> QED BY <1>2, <1>3

\* recv_msg: the channel that is started names the session its announcement
\* came over, which is the visitor's host.
LEMMA ClaimMovesOn ==
    ASSUME TypeInv, HandshakeInv, VisitorInv, NEW c \in Clients, RecvNewChannel(c),
           UNCHANGED serverVars
    PROVE  VisitorInv'
<1> DEFINE s == conn[c]
           msg == Head(down[s])
<1>0. /\ s \in Session /\ id[c] = s /\ down[s] # <<>> /\ down' = Taken(down, s)
      /\ UNCHANGED <<phase, notifying, reports, visitor, host>>
      /\ down \in [Session -> Seq(ServerMessage)] /\ msg \in ServerMessage
  <2>1. s \in Session /\ cphase[c] = "run" /\ down[s] # <<>> /\ down' = Taken(down, s)
    BY VisitorTypes DEF RecvNewChannel, ClientHears
  <2>2. id[c] = s
    BY <2>1 DEF HandshakeInv, Stage
  <2> QED BY <2>1, <2>2, VisitorTypes, Read DEF serverVars
<1>1. CASE ~(msg.type = "new_channel" /\ msg.port \in links[c])
  <2>1. data' = data /\ from' = from
    BY <1>1 DEF RecvNewChannel
  <2>2. PlainlyDown(s) /\ PlainlyReports(s) /\ TellsNobody(s) /\ \A v \in Visitors : Fate(v)
    BY <1>0, <2>1 DEF PlainlyDown, PlainlyReports, TellsNobody, Fate
  <2> QED BY <1>0, <2>1, <2>2, PlainStep
<1>2. CASE msg.type = "new_channel" /\ msg.port \in links[c]
  <2>0. PICK w \in Visitors : w = msg.number
    BY <1>0, <1>2, ServerMessages
  <2>1. /\ data' = [data EXCEPT ![w] = "dialing"] /\ from' = [from EXCEPT ![w] = s]
    BY <1>0, <1>2, <2>0 DEF RecvNewChannel
  <2>2. msg = Announcement(w)
    BY <1>0, <1>2, <2>0, Read DEF VisitorInv
  <2>3. /\ down'[s] = Tail(down[s]) /\ \A t \in Session : t # s => down'[t] = down[t]
    BY <1>0 DEF Taken
  <2>4. /\ VisitorOf(w) /\ Has(down[s], Announcement(w)) /\ Once(down[s], Announcement(w))
    BY <1>0, <2>2, Read DEF VisitorInv, VisitorOf
  <2>5. /\ Known(w) /\ host[w] = s /\ data[w] = "none"
        /\ \A t \in Session : /\ ~Notified(t, w) /\ ~Has(reports[t], New(w))
                              /\ t # s => ~Has(down[t], Announcement(w))
    BY <1>0, <2>4 DEF VisitorOf, Known
  <2>6. ~Has(Tail(down[s]), Announcement(w))
    BY <1>0, <2>2, <2>4, Read
  <2>7. \A t \in Session : ~Has(down'[t], Announcement(w))
    BY <2>3, <2>5, <2>6
  <2>8. ASSUME NEW t \in Session, NEW v \in Visitors
        PROVE  /\ Has(down'[t], Announcement(v)) => Has(down[t], Announcement(v))
               /\ Once(down[t], Announcement(v)) => Once(down'[t], Announcement(v))
    <3>1. /\ Has(Tail(down[s]), Announcement(v)) => Has(down[s], Announcement(v))
          /\ Once(down[s], Announcement(v)) => Once(Tail(down[s]), Announcement(v))
      BY <1>0, Read
    <3> QED BY <2>3, <3>1
  <2>9. ASSUME NEW t \in Session, NEW v \in Visitors
        PROVE  /\ Has(reports[t], New(v))' <=> Has(reports[t], New(v))
               /\ Once(reports[t], New(v))' <=> Once(reports[t], New(v))
               /\ Has(down[t], Announcement(v))' <=> Has(down'[t], Announcement(v))
               /\ Once(down[t], Announcement(v))' <=> Once(down'[t], Announcement(v))
               /\ Notified(t, v)' <=> Notified(t, v)
    BY <1>0 DEF New, Has, Once, Announcement, NewChannel, Notified
  <2>10. VisitorOf(w)'
    <3>1. Known(w)' /\ host'[w] = s /\ data'[w] = "dialing" /\ from'[w] = s
      BY <1>0, <2>1, <2>5, VisitorTypes DEF Known
    <3> QED BY <2>4, <2>5, <2>7, <2>8, <2>9, <3>1 DEF VisitorOf, Claiming, Known
  <2>11. ASSUME NEW v \in Visitors, v # w
         PROVE  /\ NoNews(v) /\ visitor'[v] = visitor[v] /\ data'[v] = data[v]
                /\ host'[v] = host[v] /\ from'[v] = from[v]
    BY <1>0, <2>1, <2>8, <2>9, <2>11, VisitorTypes DEF NoNews
  <2>12. \A t \in Session : Proper(down[t])'
    <3>1. Proper(Tail(down[s]))
      BY <1>0, Read DEF VisitorInv
    <3>2. \A t \in Session : Proper(down'[t])
      BY <2>3, <3>1 DEF VisitorInv
    <3> QED BY <3>2 DEF Proper, Announcement, NewChannel
  <2> QED BY <2>10, <2>11, <2>12, OthersStay
<1> QED BY <1>1, <1>2

-----------------------------------------------------------------------------
(* All steps.                                                              *)

\* The invariant speaks of these variables only.
LEMMA PlacesUntouched ==
    ASSUME VisitorInv,
           UNCHANGED <<phase, reports, notifying, visitor, host, down, data, from>>
    PROVE  VisitorInv'
BY DEF VisitorInv, VisitorOf, Proper, Has, Once, Notified, Known, New, Announcement, NewChannel

\* Every step keeps the invariant.
LEMMA NextKeepsPlaces ==
    ASSUME TypeInv, HandshakeInv, VisitorInv, [Next]_vars
    PROVE  VisitorInv'
<1>1. CASE WireNext /\ UNCHANGED <<serverVars, clientVars>>
  BY <1>1, NetworkKeepsPlaces DEF WireNext
<1>2. CASE ServerNext /\ UNCHANGED clientVars
  <2>1. ASSUME AcceptLoopFails PROVE VisitorInv'
    BY <2>1, PlacesUntouched DEF AcceptLoopFails, serverVars
  <2> QED
    BY <1>2, <2>1, ControllersKeepPlaces, TakeMovesOn, NotifyMovesOn, CleanupKeepsPlaces,
       MonitorsKeepPlaces, RelaysKeepPlaces, AcceptsMovesOn DEF ServerNext
<1>3. CASE ClientNext /\ UNCHANGED serverVars
  BY <1>3, ClientsKeepPlaces, ClaimMovesOn, RelaysKeepPlaces DEF ClientNext
<1>4. CASE UNCHANGED vars
  BY <1>4, PlacesUntouched DEF vars, wireVars, serverVars
<1> QED BY <1>1, <1>2, <1>3, <1>4 DEF Next

\* A visitor is in one place at a time, with the controller that accepted it.
LEMMA VisitorInvariance == Spec => []VisitorInv
<1>1. Spec => [](TypeInv /\ HandshakeInv /\ VisitorInv)
  <2>1. TypeInv /\ HandshakeInv /\ VisitorInv /\ [Next]_vars => VisitorInv'
    BY NextKeepsPlaces
  <2> QED BY <2>1, InitVisitors, TypeInvariance, HandshakeInvariance, PTL DEF Spec
<1> QED BY <1>1, PTL

\* Nobody can claim a visitor that is not in its controller's pending sockets
\* yet, or claim it from another controller.
THEOREM ClaimedVisitorsArePending == Spec => []ClaimedIsPending
<1>1. VisitorInv => ClaimedIsPending
  BY DEF VisitorInv, VisitorOf, Has, Announcement, Announced, Known, Claiming, ClaimedIsPending
<1> QED BY <1>1, VisitorInvariance, PTL
=============================================================================
