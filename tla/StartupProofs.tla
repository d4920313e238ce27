---------------------------- MODULE StartupProofs ----------------------------
(***************************************************************************)
(* Of Startup, for every file: what redirects make of its tables, at any   *)
(* depth, and which ports a client serves with which links.                *)
(***************************************************************************)
EXTENDS Startup, SequenceLemmas

(* Tables are resolved inside out.                                         *)
Below(n) == {t \in Tables : Depth[t] < n}

\* What a table comes to, when linked has what those in it come to.
Resolved(linked, t, configs) ==
  Overridden([key \in Keys(t) |-> IF IsTable(t[key])
                                   THEN [table |-> linked[t[key].table]]
                                   ELSE t[key]],
             Brought(t, configs))
LinkedIn(linked, S, configs) == linked = [t \in S |-> Resolved(linked, t, configs)]

(* A table in a table is less deep than it: tables nest to a finite depth  *)
(* (StartupAssumption).                                                    *)
LEMMA DepthsFall ==
  ASSUME NEW t \in Tables, NEW key \in DOMAIN t, IsTable(t[key])
  PROVE  t[key].table \in Tables /\ Depth[t[key].table] \in Nat /\ Depth[t] \in Nat
         /\ Depth[t[key].table] < Depth[t]
  BY StartupAssumption DEF StartupAssumption

(* What a table comes to depends on those in it only.                      *)
LEMMA ResolvedAlike ==
  ASSUME NEW t, NEW f, NEW g, NEW configs,
         \A key \in Keys(t) : IsTable(t[key]) => f[t[key].table] = g[t[key].table]
  PROVE  Resolved(f, t, configs) = Resolved(g, t, configs)
<1> DEFINE a == [key \in Keys(t) |-> IF IsTable(t[key])
                                   THEN [table |-> f[t[key].table]] ELSE t[key]]
           b == [key \in Keys(t) |-> IF IsTable(t[key])
                                   THEN [table |-> g[t[key].table]] ELSE t[key]]
<1>1. a = b
  OBVIOUS
<1> QED
  BY <1>1 DEF Resolved

(* The tables up to any depth can be linked: induction on the depth, the   *)
(* next layer built from the one below.                                    *)
LEMMA UpToAnyDepth ==
  ASSUME NEW configs, NEW n \in Nat
  PROVE  \E f : LinkedIn(f, Below(n), configs)
<1> DEFINE T == {m \in Nat : \E f : LinkedIn(f, Below(m), configs)}
<1>1. 0 \in T
  <2>1. Below(0) = {}
    BY StartupAssumption DEF StartupAssumption, Below
  <2>2. LinkedIn([t \in {} |-> 0], {}, configs)
    BY DEF LinkedIn
  <2> QED
    BY <2>1, <2>2
<1>2. ASSUME NEW m \in Nat, m \in T PROVE m + 1 \in T
  <2>1. PICK f : LinkedIn(f, Below(m), configs)
    BY <1>2
  <2> DEFINE g == [t \in Below(m + 1) |-> Resolved(f, t, configs)]
  <2>2. ASSUME NEW t \in Below(m + 1) PROVE Resolved(f, t, configs) = Resolved(g, t, configs)
    <3>1. ASSUME NEW key \in Keys(t), IsTable(t[key])
          PROVE  f[t[key].table] = g[t[key].table]
      <4> DEFINE s == t[key].table
      <4>1. s \in Below(m) /\ s \in Below(m + 1)
        BY <3>1, DepthsFall DEF Below, Keys
      <4>2. f[s] = Resolved(f, s, configs)
        BY <2>1, <4>1 DEF LinkedIn
      <4> QED
        BY <4>1, <4>2
    <3> HIDE DEF g
    <3> QED
      BY <3>1, ResolvedAlike
  <2>3. g = [t \in Below(m + 1) |-> Resolved(g, t, configs)]
    BY <2>2
  <2>4. LinkedIn(g, Below(m + 1), configs)
    BY <2>3 DEF LinkedIn
  <2> QED
    BY <2>4
<1> HIDE DEF T
<1>3. Nat \subseteq T
  BY <1>1, <1>2, SetInduction
<1> QED
  BY <1>3 DEF T

(* Two linkings of tables up to some depths agree where both speak.        *)
LEMMA DepthsAgree ==
  ASSUME NEW configs, NEW m \in Nat, NEW n \in Nat, NEW f, NEW g,
         LinkedIn(f, Below(m), configs), LinkedIn(g, Below(n), configs),
         NEW t \in Below(m) \cap Below(n)
  PROVE  f[t] = g[t]
<1> DEFINE Both == Below(m) \cap Below(n)
           T == {k \in Nat : \A s \in Both : s \in Below(k) => f[s] = g[s]}
<1>1. 0 \in T
  BY StartupAssumption DEF StartupAssumption, Below
<1>2. ASSUME NEW k \in Nat, k \in T PROVE k + 1 \in T
  <2> SUFFICES ASSUME NEW s \in Both, s \in Below(k + 1) PROVE f[s] = g[s]
    OBVIOUS
  <2>1. f[s] = Resolved(f, s, configs) /\ g[s] = Resolved(g, s, configs)
    BY DEF LinkedIn
  <2>2. ASSUME NEW key \in Keys(s), IsTable(s[key])
        PROVE  f[s[key].table] = g[s[key].table]
    <3>1. s[key].table \in Both /\ s[key].table \in Below(k)
      BY <2>2, DepthsFall DEF Below, Keys
    <3> QED
      BY <1>2, <3>1
  <2> QED
    BY <2>1, <2>2, ResolvedAlike
<1> HIDE DEF T
<1>3. Nat \subseteq T
  BY <1>1, <1>2, SetInduction
<1>4. Depth[t] + 1 \in Nat /\ t \in Below(Depth[t] + 1)
  BY StartupAssumption DEF StartupAssumption, Below
<1> QED
  BY <1>3, <1>4 DEF T

(* The recursive function Linked obeys its own equation: what the merge of *)
(* the configuration brings to a table is the table with its links         *)
(* resolved.                                                               *)
LEMMA LinkedIs ==
  ASSUME NEW configs, NEW t \in Tables
  PROVE  Linked(t, configs) =
           Overridden([key \in Keys(t) |-> IF IsTable(t[key])
                                            THEN [table |-> Linked(t[key].table, configs)]
                                            ELSE t[key]],
                      Brought(t, configs))
<1> DEFINE F(n) == CHOOSE f : LinkedIn(f, Below(n), configs)
           g == [s \in Tables |-> F(Depth[s] + 1)[s]]
           l == CHOOSE linked : LinkedIn(linked, Tables, configs)
<1>1. \A n \in Nat : LinkedIn(F(n), Below(n), configs)
  BY UpToAnyDepth
<1> HIDE DEF F
<1>2. ASSUME NEW s \in Tables PROVE g[s] = Resolved(g, s, configs)
  <2>1. Depth[s] \in Nat /\ Depth[s] + 1 \in Nat /\ s \in Below(Depth[s] + 1)
    BY StartupAssumption DEF StartupAssumption, Below
  <2>2. g[s] = Resolved(F(Depth[s] + 1), s, configs)
    BY <1>1, <2>1 DEF LinkedIn
  <2>3. ASSUME NEW key \in Keys(s), IsTable(s[key])
        PROVE  F(Depth[s] + 1)[s[key].table] = g[s[key].table]
    <3> DEFINE u == s[key].table
    <3>1. /\ u \in Tables /\ Depth[u] \in Nat /\ Depth[u] + 1 \in Nat
          /\ u \in Below(Depth[u] + 1) /\ u \in Below(Depth[s] + 1)
      BY <2>1, <2>3, DepthsFall DEF Below, Keys
    <3> HIDE DEF u
    <3>2. F(Depth[s] + 1)[u] = F(Depth[u] + 1)[u]
      BY <1>1, <2>1, <3>1, DepthsAgree
    <3> QED
      BY <3>1, <3>2 DEF u
  <2> HIDE DEF g
  <2> QED
    BY <2>2, <2>3, ResolvedAlike
<1>3. LinkedIn(g, Tables, configs)
  <2> HIDE DEF g
  <2>1. g = [s \in Tables |-> Resolved(g, s, configs)]
    BY <1>2 DEF g
  <2> QED
    BY <2>1 DEF LinkedIn, Resolved
<1>4. LinkedIn(l, Tables, configs)
  BY <1>3
<1>5. \A s : Linked(s, configs) = l[s]
  BY DEF Linked, LinkedIn, Resolved
<1> HIDE DEF l
<1>6. l[t] = Resolved(l, t, configs)
  BY <1>4 DEF LinkedIn, Resolved
<1> QED
  BY <1>5, <1>6 DEF Resolved

-----------------------------------------------------------------------------
(* A table keeps its own.                                                  *)
LEMMA TablesKeepOwn ==
  ASSUME NEW configs, NEW t \in Tables
  PROVE  /\ Keeps(t, Linked(t, configs), configs)
         /\ \A key \in Keys(t) : IsTable(t[key]) =>
              /\ t[key].table \in Tables
              /\ Linked(t, configs)[key] = [table |-> Linked(t[key].table, configs)]
<1> DEFINE own == [key \in Keys(t) |-> IF IsTable(t[key])
                                         THEN [table |-> Linked(t[key].table, configs)]
                                         ELSE t[key]]
           brought == Brought(t, configs)
           merged == Linked(t, configs)
<1>1. merged = Overridden(own, brought)
  BY LinkedIs
<1>2. DOMAIN own = Keys(t)
  OBVIOUS
<1>3. \A key \in Keys(t) : own[key] = IF IsTable(t[key])
                                         THEN [table |-> Linked(t[key].table, configs)]
                                         ELSE t[key]
  OBVIOUS
<1> HIDE DEF own, brought, merged
<1>4. /\ DOMAIN merged = Keys(t) \cup DOMAIN brought
      /\ \A key \in Keys(t) : merged[key] = own[key]
      /\ \A key \in DOMAIN brought \ Keys(t) : merged[key] = brought[key]
  BY <1>1, <1>2 DEF Overridden
<1>5. \A key \in Keys(t) : IsTable(t[key]) =>
        /\ t[key].table \in Tables
        /\ merged[key] = [table |-> Linked(t[key].table, configs)]
  BY <1>3, <1>4, DepthsFall DEF Keys
<1>6. \A key \in Keys(t) : IF IsTable(t[key]) THEN IsTable(merged[key])
                                                ELSE merged[key] = t[key]
  <2> SUFFICES ASSUME NEW key \in Keys(t)
               PROVE  IF IsTable(t[key]) THEN IsTable(merged[key])
                                         ELSE merged[key] = t[key]
    OBVIOUS
  <2>1. CASE IsTable(t[key])
    <3>1. merged[key] = [table |-> Linked(t[key].table, configs)]
      BY <1>5, <2>1
    <3>2. IsTable(merged[key])
      BY <3>1 DEF IsTable
    <3> QED
      BY <2>1, <3>2
  <2>2. CASE ~IsTable(t[key])
    BY <1>3, <1>4, <2>2
  <2> QED
    BY <2>1, <2>2
<1> QED
  BY <1>4, <1>5, <1>6 DEF Keeps, merged, brought

(* A table and what it comes to, and the levels of pairs below such a one. *)
Pairs(configs) == {<<t, Linked(t, configs)>> : t \in Tables}
NestedBy(pairs, own, merged, n) ==
  pairs = [k \in 0 .. n |-> IF k = 0 THEN {<<own, merged>>}
                                     ELSE UNION {Inner(q) : q \in pairs[k - 1]}]

(* The pairs one level below a table and what it comes to are again a      *)
(* table and what it comes to.                                             *)
LEMMA InnerPairs ==
  ASSUME NEW configs, NEW q \in Pairs(configs)
  PROVE  Inner(q) \subseteq Pairs(configs)
<1>1. PICK t \in Tables : q = <<t, Linked(t, configs)>>
  BY DEF Pairs
<1>2. q[1] = t /\ q[2] = Linked(t, configs)
  BY <1>1
<1> SUFFICES ASSUME NEW key \in Keys(t), IsTable(t[key])
             PROVE  <<t[key].table, Linked(t, configs)[key].table>> \in Pairs(configs)
  BY <1>2 DEF Inner
<1>3. /\ t[key].table \in Tables
      /\ Linked(t, configs)[key] = [table |-> Linked(t[key].table, configs)]
  BY TablesKeepOwn
<1>4. Linked(t, configs)[key].table = Linked(t[key].table, configs)
  BY <1>3
<1> QED
  BY <1>3, <1>4 DEF Pairs

(* So are those at any level below: induction on the level.                *)
LEMMA NestedPairs ==
  ASSUME NEW configs, NEW t \in Tables, NEW n \in Nat
  PROVE  Nested(t, Linked(t, configs), n) \subseteq Pairs(configs)
<1> DEFINE D == SUBSET Pairs(configs)
           c == {<<t, Linked(t, configs)>>}
           step(S) == UNION {Inner(q) : q \in S}
           h == [x \in (1 .. n) \X D |-> step(x[2])]
           p == CHOOSE pairs : NestedBy(pairs, t, Linked(t, configs), n)
<1>1. c \in D
  BY DEF Pairs
<1>2. \A S \in D : step(S) \in D
  BY InnerPairs
<1> HIDE DEF D, step, c
<1>3. IsStep(h, n, D)
  BY <1>2 DEF IsStep
<1>4. \A i \in 1 .. n : \A S \in D : h[<<i, S>>] = step(S)
  OBVIOUS
<1> HIDE DEF h
<1>5. PICK f \in [0 .. n -> D] : Recurs(f, n, c, h)
  BY <1>1, <1>3, RecursionExists
<1>6. f = [k \in 0 .. n |-> IF k = 0 THEN c ELSE step(f[k - 1])]
  <2>1. \A k \in 0 .. n : f[k] = IF k = 0 THEN c ELSE step(f[k - 1])
    <3> SUFFICES ASSUME NEW k \in 0 .. n
                 PROVE  f[k] = IF k = 0 THEN c ELSE step(f[k - 1])
      OBVIOUS
    <3>1. CASE k = 0
      BY <1>5, <3>1 DEF Recurs
    <3>2. CASE k # 0
      <4>1. k \in 1 .. n /\ k - 1 \in 0 .. n /\ f[k - 1] \in D
        BY <3>2
      <4>2. f[k] = h[<<k, f[k - 1]>>]
        BY <1>5, <4>1 DEF Recurs
      <4> QED
        BY <1>4, <3>2, <4>1, <4>2
    <3> QED
      BY <3>1, <3>2
  <2> QED
    BY <2>1
<1>7. NestedBy(p, t, Linked(t, configs), n)
  BY <1>6 DEF NestedBy, c, step
<1>8. Nested(t, Linked(t, configs), n) = p[n]
  BY DEF Nested, NestedBy
<1> HIDE DEF p
<1>9. \A k \in 0 .. n : p[k] = IF k = 0 THEN c ELSE step(p[k - 1])
  BY <1>7 DEF NestedBy, c, step
<1> DEFINE T == {k \in Nat : k <= n => p[k] \in D}
<1>10. 0 \in T
  BY <1>1, <1>9
<1>11. ASSUME NEW k \in Nat, k \in T PROVE k + 1 \in T
  BY <1>2, <1>9, <1>11
<1> HIDE DEF T
<1>12. Nat \subseteq T
  BY <1>10, <1>11, SetInduction
<1> QED
  BY <1>8, <1>12 DEF T, D

-----------------------------------------------------------------------------
(* Files keep their tables: the configuration is the file, resolved.       *)
FileInv ==
  /\ \E s \in Starts : mode = s.mode /\ file = s.file
  /\ config = <<>> \/ config = Merged

(* The file and the mode are one of the starts before anything runs.       *)
LEMMA FileInvInitial == Init => FileInv
  BY DEF Init, FileInv

(* No step changes the file, and the configuration is either absent or     *)
(* what the merge made of the file.                                        *)
LEMMA FileInvStep == FileInv /\ [Next]_vars => FileInv'
<1> SUFFICES ASSUME FileInv, [Next]_vars PROVE FileInv'
  OBVIOUS
<1>1. /\ mode' = mode /\ file' = file
      /\ config' = config \/ config' = Merged
  BY DEF Next, vars, ReadConfig, RunServer, RunServerFails, BindFails, RunClient, CtrlC,
         ClientStep, ClientFails, Goes, ResolveServer, MakeFactory, AddLink, SkipLink,
         BadExtras, LinksDone, ConnectClient
<1>2. Merged' = Merged
  BY <1>1 DEF Merged, Sections, Configs
<1> QED
  BY <1>1, <1>2 DEF FileInv

(* What the merge made of the file keeps what the file itself says.        *)
LEMMA FileInvKeepsOwn == FileInv => RedirectsKeepOwn
<1> SUFFICES ASSUME FileInv, config # <<>>, NEW s \in DOMAIN config
             PROVE  IF IsTable(file[s])
                      THEN /\ IsTable(config[s])
                           /\ \A n \in 0 .. Depth[file[s].table] :
                                \A q \in Nested(file[s].table, config[s].table, n) :
                                  Keeps(q[1], q[2], Configs.table)
                      ELSE config[s] = file[s]
  BY DEF RedirectsKeepOwn
<1>1. s \in DOMAIN file
      /\ config[s] = IF IsTable(file[s])
                       THEN [table |-> Linked(file[s].table, Configs.table)]
                       ELSE file[s]
  BY DEF FileInv, Merged, Sections
<1>2. CASE ~IsTable(file[s])
  BY <1>1, <1>2
<1>3. CASE IsTable(file[s])
  <2> DEFINE t == file[s].table
             configs == Configs.table
  <2>1. t \in Tables
    BY <1>1, <1>3, StartupAssumption DEF FileInv, StartupAssumption
  <2>2. IsTable(config[s]) /\ config[s].table = Linked(t, configs)
    BY <1>1, <1>3 DEF IsTable
  <2> HIDE DEF t, configs
  <2>3. ASSUME NEW n \in 0 .. Depth[t], NEW q \in Nested(t, config[s].table, n)
        PROVE  Keeps(q[1], q[2], configs)
    <3>1. q \in Pairs(configs)
      BY <2>1, <2>2, <2>3, NestedPairs
    <3>2. PICK u \in Tables : q = <<u, Linked(u, configs)>>
      BY <3>1 DEF Pairs
    <3> QED
      BY <3>2, TablesKeepOwn
  <2> QED
    BY <1>3, <2>2, <2>3 DEF t, configs
<1> QED
  BY <1>2, <1>3

(* A key a table writes itself is never taken from the tables its link     *)
(* names: at every depth of the file, for every file, RedirectsKeepOwn     *)
(* holds (config/mod.rs, the merge of links).                              *)
THEOREM OwnIsKept == Spec => []RedirectsKeepOwn
<1>1. Spec => []FileInv
  BY FileInvInitial, FileInvStep, PTL DEF Spec
<1> QED
  BY <1>1, FileInvKeepsOwn, PTL

-----------------------------------------------------------------------------
(* The links of a client.                                                  *)
Array(i) == ClientOf(i).link.array
Used(i) == (1 .. next[i] - 1) \ skipped[i]

Stages == {"resolve", "factory", "links", "connect", "running", "exited"}

(* Clients are those of a file that was accepted.                          *)
AcceptedInv ==
  /\ main \in {"starting", "waiting", "stopped"} => FitsFile(config) /\ config = Merged
  /\ DOMAIN task # {} => mode = "client" /\ main \in {"waiting", "stopped"}
  /\ DOMAIN task \subseteq DOMAIN Clients

TasksTyped ==
  /\ task \in [DOMAIN task -> Stages]
  /\ next \in [DOMAIN task -> Nat \ {0}]
  /\ skipped \in [DOMAIN task -> SUBSET Nat]
  /\ links = [i \in DOMAIN task |-> links[i]]

(* A loop has added or passed over the links before the one it is at.      *)
LoopOf(i) ==
  /\ task[i] # "exited" => Serves(links[i], Array(i), Used(i))
  /\ skipped[i] \subseteq 1 .. next[i] - 1
  /\ task[i] \in {"connect", "running"} => next[i] = Len(Array(i)) + 1

LinksInv ==
  /\ FileInv /\ AcceptedInv /\ TasksTyped
  /\ \A i \in DOMAIN task : LoopOf(i)

(* The array of an accepted client is a sequence of links.                 *)
LEMMA ArraysAreLists ==
  ASSUME FileInv, AcceptedInv, NEW i \in DOMAIN task
  PROVE  Len(Array(i)) \in Nat /\ DOMAIN Array(i) = 1 .. Len(Array(i))
<1>1. mode = "client" /\ FitsFile(config) /\ config = Merged /\ i \in DOMAIN Clients
  BY DEF AcceptedInv
<1>2. /\ Has(config, "client", "array") /\ IsTable(Clients[i])
      /\ FitsClient(ClientOf(i))
  BY <1>1 DEF FitsFile, Clients, ClientOf
<1>3. Has(ClientOf(i), "link", "array")
  <2>1. Fits(ClientOf(i), ClientFields,
             Transports @@ [accept_conflict |-> "bool", heartbeat_interval |-> "int"])
    BY <1>2 DEF FitsClient
  <2>2. "link" \in DOMAIN ClientFields /\ ClientFields["link"] = "array"
    BY DEF ClientFields
  <2>3. \A key \in DOMAIN ClientFields : Has(ClientOf(i), key, ClientFields[key])
    BY <2>1, Zenon DEF Fits
  <2> QED
    BY <2>2, <2>3
<1>4. "client" \in DOMAIN file /\ config.client = file.client
  <2>1. "client" \in Sections
    BY <1>1, <1>2 DEF Has, Merged
  <2>2. config["client"] = IF IsTable(file["client"])
                             THEN [table |-> Linked(file["client"].table, Configs.table)]
                             ELSE file["client"]
    BY <1>1, <2>1 DEF Merged
  <2>3. "array" \in DOMAIN config["client"]
    BY <1>2 DEF Has
  <2>4. ~IsTable(file["client"])
    BY <2>2, <2>3
  <2> QED
    BY <2>1, <2>2, <2>4 DEF Sections
<1>5. Has(file, "client", "array") /\ Clients = file.client.array
  BY <1>2, <1>4 DEF Has, Clients
<1>6. ListsLinks(Clients[i])
  BY <1>1, <1>5, StartupAssumption DEF FileInv, StartupAssumption
<1> QED
  BY <1>2, <1>3, <1>6 DEF ListsLinks, ClientOf, Array

(* A link that is added is the last of its port.                           *)
LEMMA InsertedServes ==
  ASSUME NEW map, NEW array, NEW n \in Nat, NEW used \in SUBSET (1 .. n - 1),
         Serves(map, array, used), Transfer(array[n].table) # "unknown"
  PROVE  Serves(Inserted(map, PortOf(array[n].table), Service(array[n].table)),
                array, used \cup {n})
<1> DEFINE port(j) == PortOf(array[j].table)
           service(j) == Service(array[j].table)
           more == Inserted(map, port(n), service(n))
<1>1. /\ DOMAIN more = DOMAIN map \cup {port(n)}
      /\ more[port(n)] = service(n)
      /\ \A p \in DOMAIN map \ {port(n)} : more[p] = map[p]
  BY DEF Inserted, Overridden
<1>2. (port(n).protocol = "udp") <=> (service(n).transfer = "RawUdp")
  BY DEF PortOf, Service, Transfer, Basic
<1>3. /\ DOMAIN map = {port(j) : j \in used}
      /\ \A j \in used : (\A k \in used : k > j => port(k) # port(j)) => map[port(j)] = service(j)
      /\ \A p \in DOMAIN map : (p.protocol = "udp") <=> (map[p].transfer = "RawUdp")
  BY DEF Serves
<1> HIDE DEF port, service, more
<1>4. DOMAIN more = {port(j) : j \in used \cup {n}}
  BY <1>1, <1>3
<1>5. ASSUME NEW j \in used \cup {n}, \A k \in used \cup {n} : k > j => port(k) # port(j)
      PROVE  more[port(j)] = service(j)
  <2>1. CASE j = n
    BY <1>1, <2>1
  <2>2. CASE j \in used
    <3>1. n > j
      BY <2>2
    <3>2. port(n) # port(j) /\ port(j) \in DOMAIN map
      BY <1>3, <1>5, <2>2, <3>1
    <3> QED
      BY <1>1, <1>3, <1>5, <2>2, <3>2
  <2> QED
    BY <2>1, <2>2
<1>6. \A p \in DOMAIN more : (p.protocol = "udp") <=> (more[p].transfer = "RawUdp")
  BY <1>1, <1>2, <1>3
<1> QED
  BY <1>4, <1>5, <1>6 DEF Serves, port, service, more

(* Nothing but RunClient and the loops changes what a client has.          *)
LEMMA SameFile ==
  ASSUME UNCHANGED <<mode, file, config>>
  PROVE  /\ Merged' = Merged /\ FitsFile(config)' = FitsFile(config)
         /\ Clients' = Clients /\ \A i : Array(i)' = Array(i)
  BY DEF Merged, Sections, Configs, FitsFile, Clients, ClientOf, Array

(* The invariant holds before any task has started.                        *)
LEMMA LinksInvInitial == Init => LinksInv
<1> SUFFICES ASSUME Init PROVE LinksInv
  OBVIOUS
<1>1. DOMAIN task = {} /\ DOMAIN next = {} /\ DOMAIN skipped = {} /\ DOMAIN links = {}
  BY DEF Init
<1>2. TasksTyped
  BY <1>1 DEF Init, TasksTyped
<1>3. AcceptedInv
  BY <1>1 DEF Init, AcceptedInv
<1> QED
  BY <1>1, <1>2, <1>3, FileInvInitial DEF LinksInv

(* A step of main that leaves the tasks alone keeps the invariant.         *)
LEMMA MainStep ==
  ASSUME LinksInv, UNCHANGED <<mode, file, config, task, next, skipped, links>>, FileInv',
         main' \in {"starting", "waiting", "stopped"} => main \in {"starting", "waiting", "stopped"},
         DOMAIN task # {} => main' \in {"waiting", "stopped"}
  PROVE  LinksInv'
<1>1. AcceptedInv'
  BY SameFile DEF LinksInv, AcceptedInv
<1>2. TasksTyped'
  BY DEF LinksInv, TasksTyped
<1>3. \A i \in DOMAIN task : LoopOf(i)'
  BY SameFile DEF LinksInv, LoopOf, Used
<1> QED
  BY <1>1, <1>2, <1>3 DEF LinksInv

(* A task goes on: only to connect and from there to running when its      *)
(* loop is through.                                                        *)
LEMMA TaskStep ==
  ASSUME LinksInv, FileInv', NEW i, NEW from, NEW to \in Stages, Goes(i, from, to),
         to = "exited" \/ from # "exited",
         to = "connect" => next[i] = Len(Array(i)) + 1,
         to = "running" => from = "connect"
  PROVE  LinksInv'
<1>1. UNCHANGED <<mode, file, main, config, next, skipped, links>>
      /\ i \in DOMAIN task /\ task[i] = from /\ task' = [task EXCEPT ![i] = to]
  BY DEF Goes
<1>2. TasksTyped /\ AcceptedInv /\ \A j \in DOMAIN task : LoopOf(j)
  BY DEF LinksInv
<1>3. DOMAIN task' = DOMAIN task /\ TasksTyped'
      /\ \A j \in DOMAIN task : task'[j] = IF j = i THEN to ELSE task[j]
  BY <1>1, <1>2 DEF TasksTyped
<1>4. AcceptedInv'
  BY <1>1, <1>2, <1>3, SameFile DEF AcceptedInv
<1>5. ASSUME NEW j \in DOMAIN task PROVE LoopOf(j)'
  <2>1. Array(j)' = Array(j) /\ Used(j)' = Used(j)
    BY <1>1, SameFile DEF Used
  <2>2. LoopOf(j)
    BY <1>2
  <2>3. task'[j] # "exited" => task[j] # "exited"
    BY <1>1, <1>3
  <2>4. task'[j] \in {"connect", "running"} => next[j] = Len(Array(j)) + 1
    BY <1>1, <1>3, <2>2 DEF LoopOf
  <2> QED
    BY <1>1, <2>1, <2>2, <2>3, <2>4 DEF LoopOf
<1> QED
  BY <1>3, <1>4, <1>5 DEF LinksInv

(* The loop of one client comes to its next link.                          *)
LEMMA LoopStep ==
  ASSUME LinksInv, FileInv', NEW i, AtLink(i),
         UNCHANGED <<mode, file, main, config, task>>,
         next' = [next EXCEPT ![i] = @ + 1],
         TasksTyped',
         \A j \in DOMAIN task : j # i => links'[j] = links[j] /\ skipped'[j] = skipped[j],
         skipped'[i] \subseteq 1 .. next[i],
         Serves(links'[i], Array(i), (1 .. next[i]) \ skipped'[i])
  PROVE  LinksInv'
<1>1. TasksTyped /\ AcceptedInv /\ \A j \in DOMAIN task : LoopOf(j)
  BY DEF LinksInv
<1>2. i \in DOMAIN task /\ task[i] = "links" /\ next[i] \in Nat
      /\ next'[i] = next[i] + 1
      /\ \A j \in DOMAIN task : j # i => next'[j] = next[j]
  BY <1>1 DEF AtLink, TasksTyped
<1>3. AcceptedInv'
  BY <1>1, SameFile DEF AcceptedInv
<1>4. ASSUME NEW j \in DOMAIN task PROVE LoopOf(j)'
  <2>0. Array(j)' = Array(j)
    BY SameFile
  <2>1. CASE j = i
    <3>1. next'[i] - 1 = next[i]
      BY <1>2
    <3>2. Used(i)' = (1 .. next[i]) \ skipped'[i]
      BY <3>1 DEF Used
    <3> QED
      BY <1>2, <2>0, <2>1, <3>1, <3>2 DEF LoopOf
  <2>2. CASE j # i
    <3>1. next'[j] = next[j] /\ links'[j] = links[j] /\ skipped'[j] = skipped[j]
      BY <1>2, <2>2
    <3>2. Used(j)' = Used(j)
      BY <3>1 DEF Used
    <3> QED
      BY <1>1, <2>0, <3>1, <3>2 DEF LoopOf
  <2> QED
    BY <2>1, <2>2
<1> QED
  BY <1>3, <1>4 DEF LinksInv

(* Each step of start-up keeps the invariant: one step per action of Next. *)
LEMMA LinksInvStep == LinksInv /\ [Next]_vars => LinksInv'
<1> SUFFICES ASSUME LinksInv, [Next]_vars PROVE LinksInv'
  OBVIOUS
<1>0. /\ FileInv' /\ FileInv /\ AcceptedInv /\ TasksTyped
      /\ \A i \in DOMAIN task : LoopOf(i)
  BY FileInvStep DEF LinksInv
<1>1. CASE ReadConfig
  <2>1. DOMAIN task = {}
    BY <1>0, <1>1 DEF ReadConfig, AcceptedInv
  <2>2. /\ UNCHANGED <<mode, file, task, next, skipped, links>>
        /\ main' = "starting" => FitsFile(Merged) /\ config' = Merged
        /\ main' \in {"starting", "failed"}
    BY <1>1 DEF ReadConfig
  <2>3. Merged' = Merged /\ \A table : FitsFile(table)' <=> FitsFile(table)
    BY <2>2 DEF Merged, Sections, Configs, FitsFile
  <2> QED
    BY <1>0, <2>1, <2>2, <2>3 DEF LinksInv, AcceptedInv, TasksTyped
<1>2. CASE RunServer \/ RunServerFails
  <2>1. DOMAIN task = {} /\ main = "starting"
    BY <1>0, <1>2 DEF RunServer, RunServerFails, AcceptedInv
  <2> QED
    BY <1>0, <1>2, <2>1, MainStep DEF RunServer, RunServerFails
<1>3. CASE BindFails \/ CtrlC
  <2>1. main = "waiting"
    BY <1>3 DEF BindFails, CtrlC
  <2> QED
    BY <1>0, <1>3, <2>1, MainStep DEF BindFails, CtrlC
<1>4. CASE RunClient
  <2>1. /\ UNCHANGED <<mode, file, config>> /\ mode = "client"
        /\ main = "starting" /\ main' = "waiting"
        /\ task' = [i \in DOMAIN Clients |-> "resolve"]
        /\ next' = [i \in DOMAIN Clients |-> 1]
        /\ skipped' = [i \in DOMAIN Clients |-> {}]
        /\ links' = [i \in DOMAIN Clients |-> <<>>]
    BY <1>4 DEF RunClient
  <2>2. TasksTyped'
    BY <2>1 DEF TasksTyped, Stages
  <2>3. AcceptedInv'
    BY <1>0, <2>1, SameFile DEF AcceptedInv
  <2>4. ASSUME NEW i \in DOMAIN Clients PROVE LoopOf(i)'
    <3>1. next'[i] = 1 /\ skipped'[i] = {} /\ links'[i] = <<>> /\ task'[i] = "resolve"
      BY <2>1
    <3>2. Used(i)' = {}
      BY <3>1 DEF Used
    <3>3. Serves(<<>>, Array(i), {})' 
      BY DEF Serves
    <3> QED
      BY <3>1, <3>2, <3>3 DEF LoopOf
  <2> QED
    BY <1>0, <2>1, <2>2, <2>3, <2>4 DEF LinksInv
<1>5. ASSUME NEW i, ClientFails(i) PROVE LinksInv'
  BY <1>0, <1>5, TaskStep DEF ClientFails, Stages
<1>6. ASSUME NEW i, ResolveServer(i) \/ MakeFactory(i) \/ BadExtras(i) PROVE LinksInv'
  BY <1>0, <1>6, TaskStep DEF ResolveServer, MakeFactory, BadExtras, Stages
<1>7. ASSUME NEW i, LinksDone(i) PROVE LinksInv'
  <2>1. Goes(i, "links", "connect") /\ next[i] = Len(Array(i)) + 1
    BY <1>7 DEF LinksDone, Array
  <2> QED
    BY <1>0, <2>1, TaskStep DEF Stages
<1>8. ASSUME NEW i, ConnectClient(i) PROVE LinksInv'
  BY <1>0, <1>8, TaskStep DEF ConnectClient, Stages
<1>9. ASSUME NEW i, AddLink(i) PROVE LinksInv'
  <2> DEFINE n == next[i]
             link == Array(i)[n].table
             map == Inserted(links[i], PortOf(link), Service(link))
  <2>1. /\ AtLink(i) /\ Transfer(link) # "unknown" /\ link = LinkOf(i)
        /\ UNCHANGED <<mode, file, main, config, task, skipped>>
        /\ next' = [next EXCEPT ![i] = @ + 1]
    BY <1>9 DEF AddLink, LinkOf, Array
  <2>2. i \in DOMAIN task /\ n \in Nat /\ n > 0 /\ task[i] = "links"
    BY <1>0, <2>1 DEF AtLink, TasksTyped
  <2>3. links' = [links EXCEPT ![i] = map]
    BY <1>9, <2>1 DEF AddLink
  <2> HIDE DEF map
  <2>4. /\ links'[i] = map
        /\ \A j \in DOMAIN task : j # i => links'[j] = links[j]
        /\ TasksTyped'
    BY <1>0, <2>1, <2>2, <2>3 DEF TasksTyped
  <2>5. /\ skipped[i] \subseteq 1 .. n - 1
        /\ Serves(links[i], Array(i), Used(i))
    BY <1>0, <2>2 DEF LoopOf
  <2>6. /\ Used(i) \in SUBSET (1 .. n - 1)
        /\ Used(i) \cup {n} = (1 .. n) \ skipped[i]
    BY <2>2, <2>5 DEF Used
  <2>7. Serves(map, Array(i), Used(i) \cup {n})
    BY <2>1, <2>2, <2>5, <2>6, InsertedServes DEF map
  <2>8. skipped' = skipped
    BY <2>1
  <2>9. skipped'[i] \subseteq 1 .. n
    BY <2>2, <2>5, <2>8
  <2>10. (1 .. n) \ skipped'[i] = Used(i) \cup {n}
    BY <2>6, <2>8
  <2>11. Serves(links'[i], Array(i), (1 .. n) \ skipped'[i])
    BY <2>4, <2>7, <2>10
  <2> HIDE DEF link
  <2> QED
    BY <1>0, <2>1, <2>4, <2>8, <2>9, <2>11, LoopStep
<1>10. ASSUME NEW i, SkipLink(i) PROVE LinksInv'
  <2> DEFINE n == next[i]
  <2>1. /\ AtLink(i)
        /\ UNCHANGED <<mode, file, main, config, task, links>>
        /\ next' = [next EXCEPT ![i] = @ + 1]
        /\ skipped' = [skipped EXCEPT ![i] = @ \cup {n}]
    BY <1>10 DEF SkipLink
  <2>2. i \in DOMAIN task /\ n \in Nat /\ n > 0 /\ task[i] = "links"
    BY <1>0, <2>1 DEF AtLink, TasksTyped
  <2>3. /\ skipped'[i] = skipped[i] \cup {n}
        /\ \A j \in DOMAIN task : j # i => skipped'[j] = skipped[j]
        /\ TasksTyped'
    BY <1>0, <2>1, <2>2 DEF TasksTyped
  <2>4. /\ skipped[i] \subseteq 1 .. n - 1
        /\ Serves(links[i], Array(i), Used(i))
    BY <1>0, <2>2 DEF LoopOf
  <2>5. /\ skipped'[i] \subseteq 1 .. n
        /\ (1 .. n) \ skipped'[i] = Used(i)
    BY <2>2, <2>3, <2>4 DEF Used
  <2> QED
    BY <1>0, <2>1, <2>2, <2>3, <2>4, <2>5, LoopStep
<1>11. CASE UNCHANGED vars
  BY <1>0, <1>11, MainStep DEF vars, AcceptedInv
<1> QED
  BY <1>1, <1>2, <1>3, <1>4, <1>5, <1>6, <1>7, <1>8, <1>9, <1>10, <1>11
     DEF Next, ClientStep

(* Where every loop served the links before its own, a client that runs    *)
(* serves all of its links, the last one of each port.                     *)
LEMMA LinksInvServes == LinksInv => LinksAsConfigured
<1> SUFFICES ASSUME LinksInv, NEW i \in DOMAIN task, task[i] = "running"
             PROVE  Serves(links[i], Array(i), DOMAIN Array(i) \ skipped[i])
  BY DEF LinksAsConfigured, Array
<1>1. /\ LoopOf(i) /\ Len(Array(i)) \in Nat /\ DOMAIN Array(i) = 1 .. Len(Array(i))
      /\ next[i] \in Nat
  BY ArraysAreLists DEF LinksInv, TasksTyped
<1>2. next[i] - 1 = Len(Array(i)) /\ Serves(links[i], Array(i), Used(i))
  BY <1>1 DEF LoopOf
<1> QED
  BY <1>1, <1>2 DEF Used

(* A client serves exactly the links its section configures, the last of   *)
(* each port, less those whose accept configuration is refused:            *)
(* LinksAsConfigured for every set of files and any number of clients      *)
(* (client.rs, the loop over links).                                       *)
THEOREM LinksServed == Spec => []LinksAsConfigured
<1>1. Spec => []LinksInv
  BY LinksInvInitial, LinksInvStep, PTL DEF Spec
<1> QED
  BY <1>1, LinksInvServes, PTL
=============================================================================
