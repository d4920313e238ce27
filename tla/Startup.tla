------------------------------- MODULE Startup -------------------------------
(***************************************************************************)
(* From the configuration file to running servers and clients: main.rs and *)
(* config/.  A value of the file is a record with one field that names its *)
(* kind: a string, an integer that fits its field ("int"), a boolean, a    *)
(* table (a function on keys) or an array.                                 *)
(***************************************************************************)
EXTENDS Naturals, Sequences, TLC

CONSTANTS
  Starts,       \* command lines and parsed files: records of mode and file
  Tables,       \* the tables in these files, however deep
  Depth,        \* how deep tables are nested in each of them
  MaxClients,   \* bound: clients of a file
  Faults        \* whether names, certificates and connections may be no good

Has(table, key, kind) == key \in DOMAIN table /\ kind \in DOMAIN table[key]
IsTable(value) == "table" \in DOMAIN value
Keys(table) == DOMAIN table \ {"redirect"}

(* Arrays of links are sequences.                                          *)
ListsLinks(value) ==
  (IsTable(value) /\ Has(value.table, "link", "array")) =>
    LET array == value.table.link.array
    IN  Len(array) \in Nat /\ DOMAIN array = 1 .. Len(array)

StartupAssumption ==
  /\ \A s \in Starts :
       /\ \A key \in DOMAIN s.file : IsTable(s.file[key]) => s.file[key].table \in Tables
       /\ Has(s.file, "client", "array") =>
            \A i \in DOMAIN s.file.client.array : ListsLinks(s.file.client.array[i])
  /\ Depth \in [Tables -> Nat]
  /\ \A t \in Tables : \A key \in DOMAIN t :
       IsTable(t[key]) => t[key].table \in Tables /\ Depth[t[key].table] < Depth[t]
  /\ MaxClients \in Nat /\ Faults \in BOOLEAN
ASSUME StartupAssumption

VARIABLES
  mode,         \* "server" or "client", from the command line
  file,         \* the file
  main,         \* "reading", "starting", "waiting" for Ctrl-C, "failed", "stopped"
  config,       \* the file once its redirects are resolved
  server,       \* the server's task: "none", "running" or "ended"
  task,         \* each client's: "resolve", "factory", "links",
                \* "connect", "running" or "exited"
  next,         \* the link its loop has come to
  skipped,      \* the links it has passed over
  links         \* the map it builds for Client

vars == <<mode, file, main, config, server, task, next, skipped, links>>

----------------------------------------------------------------------------
(* config/mod.rs: a table with a redirect takes from the config it names   *)
(* what it does not have itself.  Tables are resolved inside out, and only *)
(* in tables: an array, [[client]] is one, is left as it is.               *)

CanLink(table, configs) ==
  LET can[t \in Tables] ==
        /\ \A key \in DOMAIN t : IsTable(t[key]) => can[t[key].table]
        /\ "redirect" \in DOMAIN t =>
             /\ Has(t, "redirect", "string")
             /\ Has(configs, t.redirect.string, "table")
  IN  can[table]

Brought(table, configs) ==
  IF "redirect" \in DOMAIN table THEN configs[table.redirect.string].table ELSE <<>>

ConfigWins(own, config_) == config_ @@ own                 \* mutant
Overridden(own, config_) ==
  [key \in DOMAIN own \cup DOMAIN config_ |->
     IF key \in DOMAIN own THEN own[key] ELSE config_[key]]

Linked(table, configs) ==
  LET linked[t \in Tables] ==
        Overridden([key \in Keys(t) |-> IF IsTable(t[key])
                                         THEN [table |-> linked[t[key].table]]
                                         ELSE t[key]],
                   Brought(t, configs))
  IN  linked[table]

Configs == IF "config" \in DOMAIN file THEN file.config ELSE [table |-> <<>>]
Sections == DOMAIN file \ {"config"}

Mergeable ==
  /\ IsTable(Configs)
  /\ \A s \in Sections : IsTable(file[s]) => CanLink(file[s].table, Configs.table)
Merged ==
  [s \in Sections |-> IF IsTable(file[s])
                        THEN [table |-> Linked(file[s].table, Configs.table)]
                        ELSE file[s]]

----------------------------------------------------------------------------
(* What the fields of the structs ask of a table.                          *)
Fits(table, required, optional) ==
  /\ \A key \in DOMAIN required : Has(table, key, required[key])
  /\ \A key \in DOMAIN optional \cap DOMAIN table : Has(table, key, optional[key])

Inside(table, key, required, optional) ==
  key \in DOMAIN table => Fits(table[key].table, required, optional)

Transports == [tcp_config |-> "table", quic_config |-> "table",
               tls_config |-> "table", kcp_config |-> "table"]
Nodelay == [nodelay |-> "bool"]
LinkFields == [local_addr |-> "string", local_port |-> "int",
               remote_port |-> "int", protocol |-> "string"]
ClientFields == [server_addr |-> "string", server_port |-> "int",
                 retry_times |-> "int", link |-> "array", protocol |-> "string"]
Authority == [ca |-> "string"]
Identity == [cert |-> "string", key |-> "string"]
ClientAuth == [enable_client_auth |-> "bool"]

FitsLink(value) == IsTable(value) /\ Fits(value.table, LinkFields, <<>>)

FitsClient(table) ==
  /\ Fits(table, ClientFields,
          Transports @@ [accept_conflict |-> "bool", heartbeat_interval |-> "int"])
  /\ \A i \in DOMAIN table.link.array : FitsLink(table.link.array[i])
  /\ Inside(table, "tcp_config", Nodelay, <<>>)
  /\ \A key \in {"quic_config", "tls_config"} :
       Inside(table, key, Authority,
              Identity @@ ClientAuth @@ [server_name |-> "string"])

FitsServer(table) ==
  /\ Fits(table, [port |-> "int", protocol |-> "string"],
          Transports @@ [addr |-> "string"])
  /\ Inside(table, "tcp_config", Nodelay, <<>>)
  /\ \A key \in {"quic_config", "tls_config"} :
       Inside(table, key, Identity, Authority @@ ClientAuth)

FitsFile(table) ==
  IF mode = "server"
    THEN Has(table, "server", "table") /\ FitsServer(table.server.table)
    ELSE /\ Has(table, "client", "array")
         /\ \A i \in DOMAIN table.client.array :
              /\ IsTable(table.client.array[i])
              /\ FitsClient(table.client.array[i].table)

----------------------------------------------------------------------------
Init ==
  /\ \E s \in Starts : mode = s.mode /\ file = s.file
  /\ main = "reading" /\ config = <<>> /\ server = "none"
  /\ task = <<>> /\ next = <<>> /\ skipped = <<>> /\ links = <<>>

Clients == config.client.array
ClientOf(i) == Clients[i].table
LinkOf(i) == ClientOf(i).link.array[next[i]].table

(* make_server_config, make_client_config.                                 *)
ReadConfig ==
  /\ main = "reading"
  /\ IF Mergeable /\ FitsFile(Merged)
       THEN main' = "starting" /\ config' = Merged
       ELSE main' = "failed" /\ UNCHANGED config
  /\ UNCHANGED <<mode, file, server, task, next, skipped, links>>

KnownTransports == {"tcp", "quic", "tls", "kcp"}
NeededConfig(protocol) ==
  CASE protocol = "quic" -> {"quic_config"}
    [] protocol = "tls" -> {"tls_config"}
    [] OTHER -> {}

(* run_server.  A protocol it does not know is logged, and main waits with *)
(* no server.                                                              *)
RunServer ==
  /\ main = "starting" /\ mode = "server"
  /\ LET table == config.server.table
         protocol == table.protocol.string IN
     /\ NeededConfig(protocol) \subseteq DOMAIN table
     /\ server' = IF protocol \in KnownTransports THEN "running" ELSE "none"
  /\ main' = "waiting"
  /\ UNCHANGED <<mode, file, config, task, next, skipped, links>>

(* A table is missing, or an address or a certificate is no good.          *)
RunServerFails ==
  /\ main = "starting" /\ mode = "server"
  /\ \/ Faults
     \/ ~(NeededConfig(config.server.table.protocol.string) \subseteq
            DOMAIN config.server.table)
  /\ main' = "failed"
  /\ UNCHANGED <<mode, file, config, server, task, next, skipped, links>>

(* The server's task cannot bind, and nobody hears of it.                  *)
BindFails ==
  /\ Faults /\ main = "waiting" /\ server = "running"
  /\ server' = "ended"
  /\ UNCHANGED <<mode, file, main, config, task, next, skipped, links>>

(* run_client spawns a task for each client.                               *)
RunClient ==
  /\ main = "starting" /\ mode = "client"
  /\ main' = "waiting"
  /\ task' = [i \in DOMAIN Clients |-> "resolve"]
  /\ next' = [i \in DOMAIN Clients |-> 1]
  /\ skipped' = [i \in DOMAIN Clients |-> {}]
  /\ links' = [i \in DOMAIN Clients |-> <<>>]
  /\ UNCHANGED <<mode, file, config, server>>

CtrlC ==
  /\ main = "waiting"
  /\ main' = "stopped"
  /\ UNCHANGED <<mode, file, config, server, task, next, skipped, links>>

----------------------------------------------------------------------------
(* The task of one client.                                                 *)

Goes(i, from, to) ==
  /\ main = "waiting" /\ i \in DOMAIN task /\ task[i] = from
  /\ task' = [task EXCEPT ![i] = to]
  /\ UNCHANGED <<mode, file, main, config, server, next, skipped, links>>

(* The server's name has no address, a certificate cannot be loaded, or    *)
(* the server is not there.                                                *)
ClientFails(i) == Faults /\ \E at \in {"resolve", "factory", "connect"} : Goes(i, at, "exited")

ResolveServer(i) == Goes(i, "resolve", "factory")

FactoryMade(table) ==
  /\ table.protocol.string \in KnownTransports
  /\ \A key \in NeededConfig(table.protocol.string) :
       /\ key \in DOMAIN table
       /\ LET auth == table[key].table IN
          ("enable_client_auth" \in DOMAIN auth /\ auth.enable_client_auth.bool) =>
            {"cert", "key"} \subseteq DOMAIN auth

MakeFactory(i) ==
  /\ i \in DOMAIN task
  /\ Goes(i, "factory", IF FactoryMade(ClientOf(i)) THEN "links" ELSE "exited")

(* A service by its protocol, and the protocol of its port.                *)
Basic(protocol) == IF protocol \in {"udp", "quic", "kcp"} THEN "udp" ELSE "tcp"
Transfer(link) ==
  CASE link.protocol.string \in {"tcp", "ssh", "tls"} -> "RawTcp"
    [] link.protocol.string = "http" -> "Http"
    [] link.protocol.string \in {"udp", "quic", "kcp"} -> "RawUdp"
    [] OTHER -> "unknown"
PortOf(link) == [port |-> link.remote_port.int, protocol |-> Basic(link.protocol.string)]
Service(link) == [transfer |-> Transfer(link), addr |-> link.local_addr.string]

(* auto_override is a boolean, and override a table of strings.            *)
GoodExtras(link) ==
  Transfer(link) = "Http" =>
    /\ "auto_override" \in DOMAIN link => Has(link, "auto_override", "bool")
    /\ "override" \in DOMAIN link =>
         /\ Has(link, "override", "table")
         /\ \A key \in DOMAIN link.override.table :
              Has(link.override.table, key, "string")

FirstWins(map, port, service) == map @@ (port :> service)  \* mutant
Inserted(map, port, service) == Overridden([p \in {port} |-> service], map)

AtLink(i) ==
  /\ main = "waiting" /\ i \in DOMAIN task /\ task[i] = "links"
  /\ next[i] \in DOMAIN ClientOf(i).link.array

AddLink(i) ==
  /\ AtLink(i) /\ Transfer(LinkOf(i)) # "unknown" /\ GoodExtras(LinkOf(i))
  /\ links' = [links EXCEPT ![i] = Inserted(@, PortOf(LinkOf(i)), Service(LinkOf(i)))]
  /\ next' = [next EXCEPT ![i] = @ + 1]
  /\ UNCHANGED <<mode, file, main, config, server, task, skipped>>

(* Its address has no meaning, or its protocol none.                       *)
SkipForGood(i) ==                                          \* mutant
  /\ AtLink(i) /\ (Faults \/ Transfer(LinkOf(i)) = "unknown")
  /\ skipped' = [skipped EXCEPT ![i] = @ \cup {next[i]}]
  /\ UNCHANGED <<mode, file, main, config, server, task, next, links>>
SkipLink(i) ==
  /\ AtLink(i) /\ (Faults \/ Transfer(LinkOf(i)) = "unknown")
  /\ skipped' = [skipped EXCEPT ![i] = @ \cup {next[i]}]
  /\ next' = [next EXCEPT ![i] = @ + 1]
  /\ UNCHANGED <<mode, file, main, config, server, task, links>>

BadExtras(i) == AtLink(i) /\ ~GoodExtras(LinkOf(i)) /\ Goes(i, "links", "exited")

LinksDone(i) ==
  /\ i \in DOMAIN task /\ next[i] = Len(ClientOf(i).link.array) + 1
  /\ Goes(i, "links", "connect")

(* From here on it is a client of module Client.                           *)
ConnectClient(i) == Goes(i, "connect", "running")

ClientStep(i) ==
  \/ ResolveServer(i) \/ MakeFactory(i)
  \/ AddLink(i) \/ SkipLink(i) \/ BadExtras(i) \/ LinksDone(i) \/ ConnectClient(i)

Next ==
  \/ ReadConfig \/ RunServer \/ RunServerFails \/ BindFails \/ RunClient \/ CtrlC
  \/ \E i \in 1 .. MaxClients : ClientStep(i) \/ ClientFails(i)

Spec == Init /\ [][Next]_vars

(* Tasks are polled; nobody need press Ctrl-C, and nothing need fail.      *)
FairSpec ==
  /\ Spec
  /\ WF_vars(ReadConfig) /\ WF_vars(RunServer \/ RunServerFails) /\ WF_vars(RunClient)
  /\ \A i \in 1 .. MaxClients : WF_vars(ClientStep(i))

----------------------------------------------------------------------------
(* Properties.                                                             *)

(* A table of the file and the one in its place once redirects are         *)
(* resolved are a pair; so are those in them under the same key, and those *)
(* that are nested n deep.                                                 *)
Inner(q) == {<<q[1][key].table, q[2][key].table>> :
               key \in {key \in Keys(q[1]) : IsTable(q[1][key])}}
Nested(own, merged, n) ==
  LET pairs[k \in 0 .. n] ==
        IF k = 0 THEN {<<own, merged>>} ELSE UNION {Inner(q) : q \in pairs[k - 1]}
  IN  pairs[n]

(* Whatever a redirect names, a table keeps its own values, has nothing    *)
(* that neither it nor the config has, and has a redirect left only where  *)
(* the config brought one of its own: chains are not followed, at whatever *)
(* depth (config/mod.rs:7-55).                                             *)
Keeps(own, merged, configs) ==
  LET brought == Brought(own, configs)
  IN  /\ DOMAIN merged = Keys(own) \cup DOMAIN brought
      /\ \A key \in Keys(own) :
           IF IsTable(own[key]) THEN IsTable(merged[key]) ELSE merged[key] = own[key]
      /\ \A key \in DOMAIN brought \ Keys(own) : merged[key] = brought[key]

RedirectsKeepOwn ==
  config # <<>> =>
    \A s \in DOMAIN config :
      IF IsTable(file[s])
        THEN /\ IsTable(config[s])
             /\ \A n \in 0 .. Depth[file[s].table] :
                  \A q \in Nested(file[s].table, config[s].table, n) :
                    Keeps(q[1], q[2], Configs.table)
        ELSE config[s] = file[s]

(* A map serves the ports of the used links, each with the last of them    *)
(* that has this port, and with a relay of its protocol.                   *)
Serves(map, array, used) ==
  LET port(j) == PortOf(array[j].table) IN
  /\ DOMAIN map = {port(j) : j \in used}
  /\ \A j \in used : (\A k \in used : k > j => port(k) # port(j))
                      => map[port(j)] = Service(array[j].table)
  /\ \A p \in DOMAIN map : (p.protocol = "udp") <=> (map[p].transfer = "RawUdp")

(* A client asks for each port of the links it could use, and serves it    *)
(* with the last of them that has this port: tcp and udp services of one   *)
(* number are two ports, an ssh and an http service are one.  No port is   *)
(* served by a relay of the other protocol (main.rs:313-361).              *)
LinksAsConfigured ==
  \A i \in DOMAIN task : task[i] = "running" =>
    LET array == ClientOf(i).link.array
    IN  Serves(links[i], array, DOMAIN array \ skipped[i])

(* Every client of the file runs or has exited in the end, whatever        *)
(* becomes of the others, unless the program is stopped (main.rs:195-304). *)
EachClientDecided ==
  \A i \in 1 .. MaxClients :
    i \in DOMAIN task ~>
      ((i \in DOMAIN task /\ task[i] \in {"running", "exited"}) \/ main = "stopped")
=============================================================================
