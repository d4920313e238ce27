------------------------------ MODULE UdpTable ------------------------------
(***************************************************************************)
(* protocol/udp.rs: a task receives the datagrams of one udp port and      *)
(* sorts them by source address.  A new address makes a UdpClient, which   *)
(* the monitor accepts and hands on; dropping a UdpClient spawns a task    *)
(* that takes its address out of the table, some time later.               *)
(*                                                                         *)
(* UdpClients are numbered in the order they are made; a datagram is the   *)
(* number of its arrival.                                                  *)
(***************************************************************************)
EXTENDS Naturals, Sequences, FiniteSets

CONSTANTS
    Addrs,          \* source addresses
    MaxDatagrams    \* bound: datagrams received

ASSUME UdpAssumption == MaxDatagrams \in Nat \ {0}

Gen == 1..MaxDatagrams
NoGen == 0
NoAddr == "no address"

VARIABLES
    server,         \* the UdpServer: "open", or "dropped" by its monitor
    sorter,         \* the receiving task: "on", "off", or "panicked"
    arrived,        \* datagrams received so far
    made,           \* UdpClients made so far
    addrOf,         \* the address of each UdpClient
    client,         \* each UdpClient: "queued" for accept, "live", ...
    inbox,          \* the datagrams waiting in each UdpClient's channel
    table,          \* the UdpClient whose sender each address maps to
    dropTasks,      \* the UdpClients whose removal task has not run yet
    read            \* the datagrams each UdpClient has read

udpVars == <<server, sorter, arrived, made, addrOf, client, inbox, table, dropTasks, read>>

UdpInit ==
    /\ server = "open" /\ sorter = "on"
    /\ arrived = 0 /\ made = 0
    /\ addrOf = [g \in Gen |-> NoAddr]
    /\ client = [g \in Gen |-> "none"]
    /\ inbox = [g \in Gen |-> <<>>]
    /\ table = [a \in Addrs |-> NoGen]
    /\ dropTasks = {}
    /\ read = [g \in Gen |-> <<>>]

\* The receiving end of a UdpClient's channel exists.
Alive(g) == client[g] \in {"queued", "live"}

-----------------------------------------------------------------------------
\* A datagram's number, and its place in a channel.
Number == arrived + 1
InFront(q, d) == <<d>> \o q                             \* mutant
Behind(q, d) == Append(q, d)

\* A datagram goes to its address's UdpClient, if its channel still has a
\* receiver; otherwise to a new UdpClient.  With the UdpServer gone nobody can
\* take the new one: the task's unwrap panics, and drops it.
Receive(a) ==
    /\ sorter = "on"
    /\ arrived < MaxDatagrams
    /\ arrived' = arrived + 1
    /\ LET g == table[a]
           new == made + 1
       IN IF g # NoGen /\ Alive(g)
            THEN /\ inbox' = [inbox EXCEPT ![g] = Behind(@, Number)]
                 /\ UNCHANGED <<sorter, made, addrOf, client, table, dropTasks>>
            ELSE /\ made' = new
                 /\ addrOf' = [addrOf EXCEPT ![new] = a]
                 /\ inbox' = [inbox EXCEPT ![new] = <<Number>>]
                 /\ table' = [table EXCEPT ![a] = new]
                 /\ IF server = "open"
                      THEN /\ client' = [client EXCEPT ![new] = "queued"]
                           /\ UNCHANGED <<sorter, dropTasks>>
                      ELSE /\ client' = [client EXCEPT ![new] = "dropped"]
                           /\ sorter' = "panicked"
                           /\ dropTasks' = dropTasks \cup {new}
    /\ UNCHANGED <<server, read>>

ShutdownWhenIdle ==                                     \* mutant
    /\ sorter = "on" /\ server = "dropped"
    /\ \A a \in Addrs : table[a] = NoGen
    /\ sorter' = "off"
    /\ UNCHANGED <<server, arrived, made, addrOf, client, inbox, table, dropTasks, read>>

\* The task gets the message the dropped UdpServer left.
Shutdown ==
    /\ sorter = "on" /\ server = "dropped"
    /\ sorter' = "off"
    /\ UNCHANGED <<server, arrived, made, addrOf, client, inbox, table, dropTasks, read>>

\* An error of the socket ends the task, with nobody told.  UdpClients hold the
\* table and the socket as well, so those in use keep their senders.
ReceiveFails ==
    /\ sorter = "on"
    /\ sorter' = "off"
    /\ UNCHANGED <<server, arrived, made, addrOf, client, inbox, table, dropTasks, read>>

\* UdpServer::accept, in the order the UdpClients were made.
Accept(g) ==
    /\ server = "open"
    /\ client[g] = "queued"
    /\ \A h \in Gen : client[h] = "queued" => g <= h
    /\ client' = [client EXCEPT ![g] = "live"]
    /\ UNCHANGED <<server, sorter, arrived, made, addrOf, inbox, table, dropTasks, read>>

\* An empty queue without a sender: accept unwraps a None, and the panic ends
\* the monitor's task, which drops the UdpServer.
AcceptPanics ==
    /\ server = "open" /\ sorter # "on"
    /\ \A g \in Gen : client[g] # "queued"
    /\ server' = "dropped"
    /\ UNCHANGED <<sorter, arrived, made, addrOf, client, inbox, table, dropTasks, read>>

\* The monitor ends: the UdpServer is dropped with the UdpClients in its queue.
DropServer ==
    LET queued == {g \in Gen : client[g] = "queued"} IN
    /\ server = "open"
    /\ server' = "dropped"
    /\ client' = [g \in Gen |-> IF g \in queued THEN "dropped" ELSE client[g]]
    /\ dropTasks' = dropTasks \cup queued
    /\ UNCHANGED <<sorter, arrived, made, addrOf, inbox, table, read>>

-----------------------------------------------------------------------------
Read(g) ==
    /\ client[g] = "live" /\ inbox[g] # <<>>
    /\ read' = [read EXCEPT ![g] = Append(@, Head(inbox[g]))]
    /\ inbox' = [inbox EXCEPT ![g] = Tail(@)]
    /\ UNCHANGED <<server, sorter, arrived, made, addrOf, client, table, dropTasks>>

\* An empty channel without a sender: UdpClient::read unwraps a None, and the
\* panic ends the task that owns the UdpClient.
ReadPanics(g) ==
    /\ client[g] = "live" /\ inbox[g] = <<>>
    /\ table[addrOf[g]] # g
    /\ client' = [client EXCEPT ![g] = "panicked"]
    /\ dropTasks' = dropTasks \cup {g}
    /\ UNCHANGED <<server, sorter, arrived, made, addrOf, inbox, table, read>>

DropWithoutTask(g) ==                                   \* mutant
    /\ client[g] = "live"
    /\ client' = [client EXCEPT ![g] = "dropped"]
    /\ UNCHANGED <<server, sorter, arrived, made, addrOf, inbox, table, dropTasks, read>>

\* The owner is done with the UdpClient: its relay ended, or it was pending
\* for too long.
DropClient(g) ==
    /\ client[g] = "live"
    /\ client' = [client EXCEPT ![g] = "dropped"]
    /\ dropTasks' = dropTasks \cup {g}
    /\ UNCHANGED <<server, sorter, arrived, made, addrOf, inbox, table, read>>

Cleared(a) == [b \in Addrs |-> NoGen]                   \* mutant
Removed(a) == [table EXCEPT ![a] = NoGen]

\* The spawned task removes whatever the address maps to by now.
RunDropTask(g) ==
    /\ g \in dropTasks
    /\ dropTasks' = dropTasks \ {g}
    /\ table' = Removed(addrOf[g])
    /\ UNCHANGED <<server, sorter, arrived, made, addrOf, client, inbox, read>>

-----------------------------------------------------------------------------
UdpNext ==
    \/ \E a \in Addrs : Receive(a)
    \/ Shutdown \/ ReceiveFails \/ AcceptPanics \/ DropServer
    \/ \E g \in Gen : Accept(g) \/ Read(g) \/ ReadPanics(g) \/ DropClient(g) \/ RunDropTask(g)

UdpSpec == UdpInit /\ [][UdpNext]_udpVars

\* Spawned tasks run, and the receiving task's select gets to its shutdown.
UdpFairSpec ==
    /\ UdpSpec
    /\ WF_udpVars(Shutdown)
    /\ \A g \in Gen : WF_udpVars(RunDropTask(g))

-----------------------------------------------------------------------------
\* Every variable has its type.
UdpTypeOK ==
    /\ server \in {"open", "dropped"}
    /\ sorter \in {"on", "off", "panicked"}
    /\ arrived \in 0..MaxDatagrams /\ made \in 0..arrived
    /\ addrOf \in [Gen -> Addrs \cup {NoAddr}]
    /\ client \in [Gen -> {"none", "queued", "live", "dropped", "panicked"}]
    /\ inbox \in [Gen -> Seq(Gen)] /\ read \in [Gen -> Seq(Gen)]
    /\ table \in [Addrs -> Gen \cup {NoGen}]
    /\ dropTasks \subseteq Gen

\* What a UdpClient has been given, in order.
Given(g) == read[g] \o inbox[g]

\* Every datagram goes to one UdpClient, and each gets its own in the order
\* of arrival (udp.rs:54-61).
DatagramsOnceInOrder ==
    /\ \A g \in Gen : \A i, j \in DOMAIN Given(g) : i < j => Given(g)[i] < Given(g)[j]
    /\ \A d \in 1..arrived :
         Cardinality({g \in Gen : \E i \in DOMAIN Given(g) : Given(g)[i] = d}) = 1

\* A UdpClient loses its place in the table while it is in use only if an
\* earlier UdpClient of the same address is gone: a source address that is not
\* used again is safe from the late removals (udp.rs:28-37).
OrphanNeedsReuse ==
    \A g \in Gen :
        (Alive(g) /\ table[addrOf[g]] # g) =>
            \E h \in Gen : h < g /\ addrOf[h] = addrOf[g] /\ ~Alive(h)

\* The receiving task, which keeps the port bound, ends once the monitor has
\* dropped its UdpServer (udp.rs:22-26, 71-73).
SorterEnds == server = "dropped" ~> sorter # "on"

\* The entry of a dropped UdpClient does not stay in the table for good.
EntriesGo ==
    \A g \in Gen : client[g] = "dropped" ~> \A a \in Addrs : table[a] # g

\* UdpClient::read unwraps what its channel yields (udp.rs:92): a UdpClient in
\* use always has a sender in the table.
ReadNeverPanics == \A g \in Gen : client[g] # "panicked"
=============================================================================
