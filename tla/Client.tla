------------------------------- MODULE Client -------------------------------
(***************************************************************************)
(* The client: one task per configured client runs Client::exec            *)
(* (client.rs:210-323), over one control connection at a time, and one     *)
(* task per announced visitor runs a channel (client.rs:325-571).          *)
(***************************************************************************)
EXTENDS Wire

CONSTANTS
    Clients,            \* the configured clients
    Links,              \* the remote ports of each client's links
    AcceptConflict,     \* the clients with accept_conflict = true
    Heartbeating,       \* the clients with a heartbeat_interval
    RetryTimes,         \* retry_times of each client
    Stopping            \* the clients whose process may be stopped

ASSUME ClientAssumption ==
    /\ Links \in [Clients -> SUBSET Ports]
    /\ AcceptConflict \subseteq Clients
    /\ Heartbeating \subseteq Clients
    /\ RetryTimes \in [Clients -> Nat]
    /\ Stopping \subseteq Clients

VARIABLES
    cphase,         \* where each client's task stands
    conn,           \* its control connection (Client.socket)
    id,             \* Client.id
    links,          \* the keys of config.links
    tries,          \* reconnect_to_server's local retry_times
    owner           \* the client that opened each control connection

clientVars == <<cphase, conn, id, links, tries, owner>>

NoClient == "no client"

\* "connect": Client::connect; "hello" and "id": new_client; "push" and "config":
\* push_config; "run": exec_with_heartbeat or exec_without_heartbeat; "retry":
\* reconnect_to_server; "down": the task has ended.
ClientPhase == {"connect", "hello", "id", "push", "config", "run", "retry", "down"}

ClientInit ==
    /\ cphase = [c \in Clients |-> "connect"]
    /\ conn = [c \in Clients |-> NoOne]
    /\ id = [c \in Clients |-> NoOne]
    /\ links = Links
    /\ tries = [c \in Clients |-> 0]
    /\ owner = [s \in Session |-> NoClient]

Steps(c, next) == cphase' = [cphase EXCEPT ![c] = next]

\* Dropping the client drops its control connection.
Dropped(c) == IF conn[c] = NoOne THEN cli ELSE [cli EXCEPT ![conn[c]] = "closed"]

\* reconnect_to_server's check that retrying is enabled.
RetriesAlways(c) == TRUE                                \* mutant
Retries(c) == RetryTimes[c] > 0

\* The body of exec's loop has returned, with whatever result: the client
\* reconnects, or exec returns when retrying is disabled.
SessionEnds(c) ==
    IF Retries(c)
      THEN /\ Steps(c, "retry")
           /\ tries' = [tries EXCEPT ![c] = RetryTimes[c]]
           /\ UNCHANGED cli
      ELSE /\ Steps(c, "down")
           /\ cli' = Dropped(c)
           /\ UNCHANGED tries

-----------------------------------------------------------------------------
(* Client::connect and reconnect_to_server.                                *)

\* A new connection; the socket it replaces is dropped.
Dial(c) ==
    /\ accepting
    /\ opened < MaxSessions
    /\ opened' = opened + 1
    /\ cli' = [Dropped(c) EXCEPT ![opened + 1] = "open"]
    /\ srv' = [srv EXCEPT ![opened + 1] = "open"]
    /\ conn' = [conn EXCEPT ![c] = opened + 1]
    /\ owner' = [owner EXCEPT ![opened + 1] = c]
    /\ tries' = [tries EXCEPT ![c] = 0]
    /\ Steps(c, "hello")
    /\ UNCHANGED <<accepting, up, down, data, from, id, links>>

Connect(c) == cphase[c] = "connect" /\ Dial(c)
Reconnect(c) == cphase[c] = "retry" /\ Dial(c)

\* The first connection is not retried.
ConnectFails(c) ==
    /\ cphase[c] = "connect"
    /\ "dial" \in Faults \/ ~accepting
    /\ Steps(c, "down")
    /\ UNCHANGED <<wireVars, conn, id, links, tries, owner>>

ReconnectFails(c) ==
    /\ cphase[c] = "retry"
    /\ "dial" \in Faults \/ ~accepting
    /\ tries' = [tries EXCEPT ![c] = @ - 1]
    /\ IF tries[c] = 1
         THEN Steps(c, "down") /\ cli' = Dropped(c)
         ELSE UNCHANGED <<cphase, cli>>
    /\ UNCHANGED <<opened, accepting, srv, up, down, data, from, conn, id, links, owner>>

-----------------------------------------------------------------------------
(* new_client and push_config.                                             *)

\* A write on the control connection; on an error the session is over.
Writes(c, msg, next) ==
    /\ IF cli[conn[c]] = "open"
         THEN /\ up' = Sent(up, conn[c], msg)
              /\ Steps(c, next)
              /\ UNCHANGED <<cli, tries>>
         ELSE SessionEnds(c) /\ UNCHANGED up
    /\ UNCHANGED <<opened, accepting, srv, down, data, from, conn, id, links, owner>>

SendNewClient(c) == cphase[c] = "hello" /\ Writes(c, NewClient, "id")
SendPushConfig(c) ==
    cphase[c] = "push" /\ Writes(c, PushConfig(links[c], c \in Heartbeating), "config")

\* The id channels name is that of the latest session.
FirstId(c, msg) == IF id[c] = NoOne THEN msg.id ELSE id[c]      \* mutant
NewId(c, msg) == msg.id

RecvAcceptClient(c) ==
    /\ cphase[c] = "id"
    /\ ClientHears(conn[c])
    /\ down' = Taken(down, conn[c])
    /\ LET msg == Head(down[conn[c]])
       IN IF msg.type = "accept_client"
            THEN /\ id' = [id EXCEPT ![c] = NewId(c, msg)]
                 /\ Steps(c, "push")
                 /\ UNCHANGED <<cli, tries>>
            ELSE SessionEnds(c) /\ UNCHANGED id
    /\ UNCHANGED <<opened, accepting, srv, up, data, from, conn, links, owner>>

\* The links a reply leaves the client with; a reply it rejects ends the session.
Tolerates(c, msg) ==
    /\ msg.type = "accept_config"
    /\ \/ msg.accepted = "all"
       \/ c \in AcceptConflict /\ (msg.ports # {} \/ links[c] = {})
AllKept(c, msg) == links[c]                             \* mutant
Kept(c, msg) == IF msg.accepted = "all" THEN links[c] ELSE links[c] \cap msg.ports

RecvAcceptConfig(c) ==
    /\ cphase[c] = "config"
    /\ ClientHears(conn[c])
    /\ down' = Taken(down, conn[c])
    /\ LET msg == Head(down[conn[c]])
       IN IF Tolerates(c, msg)
            THEN /\ links' = [links EXCEPT ![c] = Kept(c, msg)]
                 /\ Steps(c, "run")
                 /\ UNCHANGED <<cli, tries>>
            ELSE SessionEnds(c) /\ UNCHANGED links
    /\ UNCHANGED <<opened, accepting, srv, up, data, from, conn, id, owner>>

-----------------------------------------------------------------------------
(* exec_with_heartbeat and exec_without_heartbeat.                         *)

\* Every read of the control connection reports an error the same way.  A
\* closed server is no error: the read starts over.
SessionReadFails(c) ==
    /\ cphase[c] \in {"id", "config", "run"}
    /\ cli[conn[c]] = "broken"
    /\ SessionEnds(c)
    /\ UNCHANGED <<opened, accepting, srv, up, down, data, from, conn, id, links, owner>>

\* Bound: the next heartbeat waits until the last one was read.
SendHeartbeat(c) ==
    /\ cphase[c] = "run"
    /\ c \in Heartbeating
    /\ up[conn[c]] = <<>>
    /\ Writes(c, Heartbeat, "run")

\* recv_msg: a NewChannel for a port the client has a link for starts a
\* channel task; any other message is a todo!(), which ends the client's task.
RecvNewChannel(c) ==
    /\ cphase[c] = "run"
    /\ ClientHears(conn[c])
    /\ down' = Taken(down, conn[c])
    /\ LET msg == Head(down[conn[c]])
       IN IF msg.type = "new_channel"
            THEN /\ IF msg.port \in links[c]
                      THEN /\ data' = [data EXCEPT ![msg.number] = "dialing"]
                           /\ from' = [from EXCEPT ![msg.number] = id[c]]
                      ELSE UNCHANGED <<data, from>>
                 /\ UNCHANGED <<cphase, cli>>
            ELSE /\ Steps(c, "down")
                 /\ cli' = Dropped(c)
                 /\ UNCHANGED <<data, from>>
    /\ UNCHANGED <<opened, accepting, srv, up, conn, id, links, tries, owner>>

\* The process is stopped (Ctrl-C, kill): its channel tasks go with it.
Stop(c) ==
    /\ c \in Stopping
    /\ cphase[c] # "down"
    /\ Steps(c, "down")
    /\ cli' = Dropped(c)
    /\ data' = [v \in Visitors |->
                  IF data[v] = "dialing" /\ owner[from[v]] = c THEN "gone" ELSE data[v]]
    /\ UNCHANGED <<opened, accepting, srv, up, down, from, conn, id, links, tries, owner>>

-----------------------------------------------------------------------------
(* Channel: the local service is dialled first, then the server; the data  *)
(* connection announces itself with AcceptChannel.                         *)

StartChannel(v) ==
    /\ data[v] = "dialing"
    /\ accepting
    /\ data' = [data EXCEPT ![v] = "offered"]
    /\ UNCHANGED <<opened, accepting, cli, srv, up, down, from, clientVars>>

\* Nobody is told when a channel cannot be set up.
ChannelFails(v) ==
    /\ data[v] = "dialing"
    /\ "channel" \in Faults \/ ~accepting
    /\ data' = [data EXCEPT ![v] = "gone"]
    /\ UNCHANGED <<opened, accepting, cli, srv, up, down, from, clientVars>>

-----------------------------------------------------------------------------
ClientTypeOK ==
    /\ cphase \in [Clients -> ClientPhase]
    /\ conn \in [Clients -> Session \cup {NoOne}]
    /\ id \in [Clients -> Session \cup {NoOne}]
    /\ links \in [Clients -> SUBSET Ports]
    /\ tries \in [Clients -> Nat]
    /\ owner \in [Session -> Clients \cup {NoClient}]
=============================================================================
