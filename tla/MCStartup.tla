------------------------------ MODULE MCStartup ------------------------------
(***************************************************************************)
(* Files for Startup: all small ones of a few shapes.                      *)
(***************************************************************************)
EXTENDS Startup

Str(s) == [string |-> s]
Num(n) == [int |-> n]
Bool(b) == [bool |-> b]
Table(t) == [table |-> t]
Array(a) == [array |-> a]

(* Some of the functions are partial: a key may be there or not.           *)
Partial(keys, values) == UNION {[k -> values] : k \in SUBSET keys}

ALink(port, protocol) ==
  [local_addr |-> Str("local"), local_port |-> Num(22),
   remote_port |-> Num(port), protocol |-> Str(protocol)]
AClient(protocol, array) ==
  [server_addr |-> Str("server"), server_port |-> Num(33445),
   protocol |-> Str(protocol), link |-> Array(array)]
Retrying == [retry_times |-> Num(0)]

(* Servers whose tables redirect to each other, to nothing, or to a string. *)
Redirects == {Str("c1"), Str("c2"), Str("none"), Bool(TRUE)}
SubTables ==
  {a @@ b : a \in Partial({"cert", "key"}, {Str("own")}),
            b \in Partial({"redirect"}, {Str("c1"), Str("none")})}
ServerTables ==
  {a @@ b @@ c :
     a \in Partial({"port"}, {Num(1), Str("1")}),
     b \in Partial({"protocol"}, {Str("tls"), Str("tcp"), Str("odd")}),
     c \in Partial({"tls_config"}, {Table(t) : t \in SubTables})}
ConfigTables ==
  {[c1 |-> Table([cert |-> Str("c1"), key |-> Str("c1"), port |-> Num(2), redirect |-> Str("c2")]),
    c2 |-> Table([protocol |-> Str("tls"), port |-> Num(3),
                  tls_config |-> Table([cert |-> Str("c2"), redirect |-> Str("c1")])])],
   [c1 |-> Table([cert |-> Str("c1"), key |-> Str("c1")]), c2 |-> Str("c2")]}
ServerSections ==
  {t @@ r : t \in ServerTables, r \in Partial({"redirect"}, Redirects)}
ServerFiles ==
  {[server |-> Table(t)] @@ c :
     t \in ServerSections,
     c \in Partial({"config"}, {Table(t) : t \in ConfigTables} \cup {Bool(TRUE)})}

(* Clients with up to two links of any protocol; the last has, as those of *)
(* README.md, no retry_times.                                              *)
Links ==
  {Table(ALink(port, protocol)) :
     port \in {1}, protocol \in {"ssh", "udp", "quic", "odd"}} \cup
  {Table(ALink(1, "http") @@ extra @@ [local_addr |-> Str("web")]) : extra \in
     Partial({"auto_override"}, {Bool(TRUE), Str("yes")})} \cup
  {Table([ALink(2, "http") EXCEPT !.local_addr = Str("web")] @@
     [override |-> Table([host |-> v])]) : v \in {Str("host"), Bool(TRUE)}}
Auths == {[ca |-> Str("ca"), enable_client_auth |-> Bool(b)] @@ k :
            b \in BOOLEAN, k \in Partial({"cert", "key"}, {Str("own")})}
PlainClients ==
  {AClient("tcp", array) @@ Retrying : array \in UNION {[1 .. n -> Links] : n \in 0 .. 2}}
TlsClients ==
  {AClient(protocol, <<Table(ALink(1, "udp"))>>) @@ Retrying @@ [tls_config |-> Table(auth)] :
     protocol \in {"tls", "quic"}, auth \in Auths}
ClientFiles ==
  {[client |-> Array(<<Table(c), Table(AClient("kcp", <<Table(ALink(1, "ssh"))>>) @@ Retrying)>>)] :
     c \in PlainClients \cup TlsClients \cup {AClient("tcp", <<>>)}}

AllStarts ==
  [mode : {"server"}, file : ServerFiles] \cup [mode : {"client"}, file : ClientFiles]

(* The tables of these files: sections, those in them, and those in these. *)
(* Clients are in an array, and not among them.                            *)
Within(tables) ==
  UNION {{t[key].table : key \in {key \in DOMAIN t : IsTable(t[key])}} : t \in tables}
Leaves == SubTables \cup {t \in Within(ConfigTables) : Within({t}) = {}}
            \cup Within(Within(ConfigTables))
AllTables == ServerSections \cup ConfigTables \cup Within(ConfigTables) \cup Leaves
DepthOf ==
  [t \in AllTables |-> IF t \in Leaves THEN 0 ELSE IF t \in ConfigTables THEN 2 ELSE 1]
=============================================================================
