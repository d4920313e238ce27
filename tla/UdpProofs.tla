------------------------------ MODULE UdpProofs ------------------------------
(***************************************************************************)
(* For any number of addresses and datagrams: each datagram goes to one    *)
(* UdpClient, in order, and an address that is not used again keeps its    *)
(* place in the table.                                                     *)
(***************************************************************************)
EXTENDS UdpTable, SequenceTheorems, FiniteSetTheorems, TLAPS

\* UdpClients are made one after the other, each for one address.
MadeInOrder ==
    \A g \in Gen :
        /\ g <= made => addrOf[g] \in Addrs
        /\ g > made => client[g] = "none" /\ inbox[g] = <<>> /\ read[g] = <<>>

\* An entry of the table names the last UdpClient made for its address.
EntryIsLatest ==
    \A a \in Addrs : table[a] # NoGen =>
        /\ table[a] <= made
        /\ addrOf[table[a]] = a
        /\ \A h \in Gen : h <= made /\ addrOf[h] = a => h <= table[a]

\* Only what is gone has a removal task.
TasksOfTheGone == \A g \in dropTasks : g <= made /\ ~Alive(g)

UdpInv ==
    /\ UdpTypeOK
    /\ MadeInOrder /\ EntryIsLatest /\ TasksOfTheGone
    /\ OrphanNeedsReuse

-----------------------------------------------------------------------------
\* The numbers of UdpClients and datagrams.
LEMMA Gens ==
    /\ MaxDatagrams \in Nat
    /\ \A g \in Gen : g \in Nat /\ g # NoGen /\ g > 0
    /\ \A n \in 0..MaxDatagrams : n < MaxDatagrams => n + 1 \in Gen
    /\ \A n \in Nat : n <= MaxDatagrams => (n \in Gen <=> n > 0)
  BY UdpAssumption DEF UdpAssumption, Gen, NoGen

\* What a channel holds after a datagram has come in or has been read.
LEMMA Queues ==
    ASSUME NEW q \in Seq(Gen), NEW r \in Seq(Gen), NEW d \in Gen
    PROVE  /\ Append(q, d) \in Seq(Gen) /\ <<d>> \in Seq(Gen)
           /\ q # <<>> => Head(q) \in Gen /\ Tail(q) \in Seq(Gen)
  BY AppendProperties, HeadTailProperties, EmptySeq

LEMMA TypeInit == UdpInit => UdpInv
<1>. SUFFICES ASSUME UdpInit PROVE UdpInv
  OBVIOUS
<1>1. <<>> \in Seq(Gen)
  BY EmptySeq
<1>2. UdpTypeOK
  BY <1>1, Gens DEF UdpInit, UdpTypeOK, NoGen
<1>3. MadeInOrder /\ EntryIsLatest /\ TasksOfTheGone /\ OrphanNeedsReuse
  BY Gens DEF UdpInit, MadeInOrder, EntryIsLatest, TasksOfTheGone, OrphanNeedsReuse, Alive, NoGen
<1>. QED  BY <1>2, <1>3 DEF UdpInv

-----------------------------------------------------------------------------
\* A datagram of an address whose UdpClient is gone, or that has none, makes a
\* new one; the old ones of this address, if they are in use, were orphans.
LEMMA ReceiveStep ==
    ASSUME UdpInv, NEW a \in Addrs, Receive(a)
    PROVE  UdpInv'
<1>. USE DEF UdpInv
<1>. DEFINE new == made + 1
<1>1. /\ Number \in Gen /\ arrived \in Nat /\ arrived + 1 <= MaxDatagrams
      /\ arrived' = arrived + 1 /\ server' = server /\ read' = read
      /\ made \in Nat /\ made <= arrived /\ new \in Gen
  BY Gens DEF UdpTypeOK, Receive, Number, Gen
<1>2. CASE table[a] # NoGen /\ Alive(table[a])
  <2>1. /\ inbox' = [inbox EXCEPT ![table[a]] = Append(@, Number)]
        /\ UNCHANGED <<sorter, made, addrOf, client, table, dropTasks, server, read>>
    BY <1>2 DEF Receive, Behind
  <2>2. table[a] \in Gen /\ table[a] <= made
    BY <1>2 DEF UdpTypeOK, EntryIsLatest
  <2>3. Append(inbox[table[a]], Number) \in Seq(Gen)
    BY <1>1, <2>2, Queues DEF UdpTypeOK
  <2>4. UdpTypeOK'
    <3>1. inbox' \in [Gen -> Seq(Gen)]
      BY <2>1, <2>2, <2>3 DEF UdpTypeOK
    <3>2. arrived' \in 0..MaxDatagrams /\ made' \in 0..arrived'
      BY <1>1, <2>1, Gens
    <3>. QED  BY <1>1, <2>1, <3>1, <3>2 DEF UdpTypeOK
  <2>5. MadeInOrder'
    <3>1. \A g \in Gen : g > made => inbox'[g] = inbox[g]
      <4>1. \A g \in Gen : g > made => g # table[a]
        BY <1>1, <2>2, Gens
      <4>. QED  BY <2>1, <4>1 DEF UdpTypeOK
    <3>. QED  BY <1>1, <2>1, <3>1 DEF MadeInOrder
  <2>6. EntryIsLatest' /\ TasksOfTheGone' /\ OrphanNeedsReuse'
    BY <2>1 DEF EntryIsLatest, TasksOfTheGone, OrphanNeedsReuse, Alive
  <2>. QED  BY <2>4, <2>5, <2>6
<1>3. CASE ~(table[a] # NoGen /\ Alive(table[a]))
  <2>1. /\ made' = new
        /\ addrOf' = [addrOf EXCEPT ![new] = a]
        /\ inbox' = [inbox EXCEPT ![new] = <<Number>>]
        /\ table' = [table EXCEPT ![a] = new]
        /\ \/ /\ client' = [client EXCEPT ![new] = "queued"]
              /\ sorter' = sorter /\ dropTasks' = dropTasks
           \/ /\ client' = [client EXCEPT ![new] = "dropped"]
              /\ sorter' = "panicked" /\ dropTasks' = dropTasks \cup {new}
    BY <1>3 DEF Receive
  <2>2. \A g \in Gen : g # new =>
          /\ client'[g] = client[g] /\ addrOf'[g] = addrOf[g]
          /\ inbox'[g] = inbox[g]
    BY <2>1 DEF UdpTypeOK
  <2>3. /\ addrOf'[new] = a /\ client'[new] \in {"queued", "dropped"}
        /\ table'[a] = new
        /\ \A b \in Addrs : b # a => table'[b] = table[b]
    BY <1>1, <2>1 DEF UdpTypeOK
  <2>4. UdpTypeOK'
    <3>1. made' \in 0..arrived' /\ arrived' \in 0..MaxDatagrams
      BY <1>1, <2>1, Gens
    <3>2. addrOf' \in [Gen -> Addrs \cup {NoAddr}] /\ table' \in [Addrs -> Gen \cup {NoGen}]
      BY <1>1, <2>1 DEF UdpTypeOK
    <3>3. inbox' \in [Gen -> Seq(Gen)]
      BY <1>1, <2>1, Queues DEF UdpTypeOK
    <3>4. /\ client' \in [Gen -> {"none", "queued", "live", "dropped", "panicked"}]
          /\ dropTasks' \subseteq Gen /\ sorter' \in {"on", "off", "panicked"}
      BY <1>1, <2>1 DEF UdpTypeOK
    <3>. QED  BY <1>1, <3>1, <3>2, <3>3, <3>4 DEF UdpTypeOK
  <2>5. MadeInOrder'
    <3>. SUFFICES ASSUME NEW g \in Gen
                  PROVE  /\ g <= made' => addrOf'[g] \in Addrs
                         /\ g > made' => /\ client'[g] = "none"
                                         /\ inbox'[g] = <<>> /\ read'[g] = <<>>
      BY DEF MadeInOrder
    <3>1. CASE g = new
      BY <1>1, <2>1, <2>3, <3>1
    <3>2. CASE g # new
      BY <1>1, <2>1, <2>2, <3>2, Gens DEF MadeInOrder
    <3>. QED  BY <3>1, <3>2
  <2>6. EntryIsLatest'
    <3>. SUFFICES ASSUME NEW b \in Addrs, table'[b] # NoGen
                  PROVE  /\ table'[b] <= made'
                         /\ addrOf'[table'[b]] = b
                         /\ \A h \in Gen : h <= made' /\ addrOf'[h] = b => h <= table'[b]
      BY DEF EntryIsLatest
    <3>1. CASE b = a
      BY <1>1, <2>1, <2>3, <3>1, Gens
    <3>2. CASE b # a
      <4>1. /\ table'[b] = table[b] /\ table[b] \in Gen /\ table[b] <= made
            /\ table[b] # new
        BY <1>1, <2>3, <3>2, Gens DEF EntryIsLatest, UdpTypeOK
      <4>2. \A h \in Gen : h <= made' /\ addrOf'[h] = b => h <= made /\ addrOf[h] = b
        BY <1>1, <2>1, <2>2, <2>3, <3>2, Gens
      <4>. QED  BY <1>1, <2>1, <2>2, <3>2, <4>1, <4>2, Gens DEF EntryIsLatest
    <3>. QED  BY <3>1, <3>2
  <2>7. TasksOfTheGone'
    <3>. SUFFICES ASSUME NEW g \in dropTasks' PROVE g <= made' /\ ~Alive(g)'
      BY DEF TasksOfTheGone
    <3>1. CASE g \in dropTasks
      <4>1. g \in Gen /\ g <= made /\ ~Alive(g)
        BY <3>1 DEF TasksOfTheGone, UdpTypeOK
      <4>. QED  BY <1>1, <2>1, <2>2, <4>1, Gens DEF Alive
    <3>2. CASE g \notin dropTasks
      BY <1>1, <2>1, <3>2 DEF Alive, UdpTypeOK
    <3>. QED  BY <3>1, <3>2
  <2>8. OrphanNeedsReuse'
    <3>. SUFFICES ASSUME NEW g \in Gen, Alive(g)', table'[addrOf'[g]] # g
                  PROVE  \E h \in Gen : h < g /\ addrOf'[h] = addrOf'[g] /\ ~Alive(h)'
      BY DEF OrphanNeedsReuse
    <3>1. g # new
      BY <2>3
    <3>2. Alive(g) /\ addrOf'[g] = addrOf[g] /\ g <= made
      BY <1>1, <2>2, <3>1, Gens DEF Alive, MadeInOrder
    <3>3. table[addrOf[g]] # g
      BY <1>3, <2>3, <3>2, Gens DEF MadeInOrder
    <3>4. PICK h \in Gen : h < g /\ addrOf[h] = addrOf[g] /\ ~Alive(h)
      BY <3>2, <3>3 DEF OrphanNeedsReuse
    <3>5. h # new
      BY <1>1, <3>2, <3>4, Gens
    <3>. QED  BY <2>2, <3>2, <3>4, <3>5 DEF Alive
  <2>. QED  BY <2>4, <2>5, <2>6, <2>7, <2>8
<1>. QED  BY <1>2, <1>3

\* The end of the UdpServer, of its task, and of UdpClients: only what was in
\* use changes, and what is dropped gets a removal task.
LEMMA ClientsStep ==
    ASSUME UdpInv,
           UNCHANGED <<arrived, made, addrOf, inbox, table, read>>,
           server' \in {"open", "dropped"}, sorter' \in {"on", "off", "panicked"},
           client' \in [Gen -> {"none", "queued", "live", "dropped", "panicked"}],
           \A g \in Gen : client'[g] # client[g] => Alive(g),
           dropTasks' \subseteq dropTasks \cup {g \in Gen : Alive(g) /\ ~Alive(g)'}
    PROVE  UdpInv'
<1>. USE DEF UdpInv
<1>1. \A g \in Gen : ~Alive(g) => ~Alive(g)' /\ client'[g] = client[g]
  BY DEF Alive
<1>2. \A g \in Gen : Alive(g) => g <= made
  BY Gens DEF MadeInOrder, Alive, UdpTypeOK
<1>3. UdpTypeOK'
  BY DEF UdpTypeOK
<1>4. MadeInOrder'
  BY <1>1, <1>2, Gens DEF MadeInOrder, Alive
<1>5. EntryIsLatest'
  BY DEF EntryIsLatest
<1>6. TasksOfTheGone'
  BY <1>1, <1>2 DEF TasksOfTheGone, UdpTypeOK
<1>7. OrphanNeedsReuse'
  <2>. SUFFICES ASSUME NEW g \in Gen, Alive(g)', table[addrOf[g]] # g
                PROVE  \E h \in Gen : h < g /\ addrOf[h] = addrOf[g] /\ ~Alive(h)'
    BY DEF OrphanNeedsReuse
  <2>. QED  BY <1>1 DEF OrphanNeedsReuse
<1>. QED  BY <1>3, <1>4, <1>5, <1>6, <1>7

LEMMA ReadStep ==
    ASSUME UdpInv, NEW g \in Gen, Read(g)
    PROVE  UdpInv'
<1>. USE DEF UdpInv
<1>1. /\ read' = [read EXCEPT ![g] = Append(@, Head(inbox[g]))]
      /\ inbox' = [inbox EXCEPT ![g] = Tail(@)]
      /\ UNCHANGED <<server, sorter, arrived, made, addrOf, client, table, dropTasks>>
      /\ client[g] = "live" /\ inbox[g] # <<>>
  BY DEF Read
<1>2. /\ Head(inbox[g]) \in Gen /\ Tail(inbox[g]) \in Seq(Gen)
      /\ Append(read[g], Head(inbox[g])) \in Seq(Gen)
  BY <1>1, Queues DEF UdpTypeOK
<1>3. UdpTypeOK'
  BY <1>1, <1>2 DEF UdpTypeOK
<1>4. MadeInOrder'
  BY <1>1, Gens DEF MadeInOrder, UdpTypeOK
<1>5. EntryIsLatest' /\ TasksOfTheGone' /\ OrphanNeedsReuse'
  BY <1>1 DEF EntryIsLatest, TasksOfTheGone, OrphanNeedsReuse, Alive
<1>. QED  BY <1>3, <1>4, <1>5

\* A removal task may take the entry of another UdpClient away: then that one
\* was made later, for the same address.
LEMMA RunDropTaskStep ==
    ASSUME UdpInv, NEW g \in Gen, RunDropTask(g)
    PROVE  UdpInv'
<1>. USE DEF UdpInv
<1>1. /\ g \in dropTasks /\ dropTasks' = dropTasks \ {g}
      /\ table' = [table EXCEPT ![addrOf[g]] = NoGen]
      /\ UNCHANGED <<server, sorter, arrived, made, addrOf, client, inbox, read>>
  BY DEF RunDropTask, Removed
<1>2. g <= made /\ ~Alive(g) /\ addrOf[g] \in Addrs
  BY <1>1 DEF TasksOfTheGone, MadeInOrder
<1>3. /\ table'[addrOf[g]] = NoGen
      /\ \A b \in Addrs : b # addrOf[g] => table'[b] = table[b]
  BY <1>1, <1>2 DEF UdpTypeOK
<1>4. UdpTypeOK'
  BY <1>1 DEF UdpTypeOK
<1>5. MadeInOrder' /\ TasksOfTheGone'
  BY <1>1 DEF MadeInOrder, TasksOfTheGone, Alive
<1>6. EntryIsLatest'
  BY <1>1, <1>3 DEF EntryIsLatest
<1>7. OrphanNeedsReuse'
  <2>. SUFFICES ASSUME NEW o \in Gen, Alive(o), table'[addrOf[o]] # o
                PROVE  \E h \in Gen : h < o /\ addrOf[h] = addrOf[o] /\ ~Alive(h)
    BY <1>1 DEF OrphanNeedsReuse, Alive
  <2>1. CASE table[addrOf[o]] # o
    BY <2>1 DEF OrphanNeedsReuse
  <2>2. CASE table[addrOf[o]] = o
    <3>1. o <= made /\ addrOf[o] \in Addrs /\ o # NoGen
      BY Gens DEF MadeInOrder, Alive, UdpTypeOK
    <3>2. addrOf[o] = addrOf[g]
      BY <1>3, <2>2, <3>1
    <3>3. g <= o /\ g # o
      BY <1>2, <2>2, <3>1, <3>2 DEF EntryIsLatest
    <3>. QED  BY <1>2, <3>2, <3>3, Gens
  <2>. QED  BY <2>1, <2>2
<1>. QED  BY <1>4, <1>5, <1>6, <1>7

LEMMA InvStep == UdpInv /\ [UdpNext]_udpVars => UdpInv'
<1>. SUFFICES ASSUME UdpInv, [UdpNext]_udpVars PROVE UdpInv'
  OBVIOUS
<1>t. UdpTypeOK
  BY DEF UdpInv
<1>1. CASE \E a \in Addrs : Receive(a)
  BY <1>1, ReceiveStep
<1>2. CASE Shutdown \/ ReceiveFails \/ AcceptPanics
  BY <1>t, <1>2, ClientsStep DEF Shutdown, ReceiveFails, AcceptPanics, UdpTypeOK
<1>3. CASE DropServer
  BY <1>t, <1>3, ClientsStep DEF DropServer, UdpTypeOK, Alive
<1>4. ASSUME NEW g \in Gen, Accept(g) PROVE UdpInv'
  BY <1>t, <1>4, ClientsStep DEF Accept, UdpTypeOK, Alive
<1>5. ASSUME NEW g \in Gen, Read(g) PROVE UdpInv'
  BY <1>5, ReadStep
<1>6. ASSUME NEW g \in Gen, ReadPanics(g) PROVE UdpInv'
  BY <1>t, <1>6, ClientsStep DEF ReadPanics, UdpTypeOK, Alive
<1>7. ASSUME NEW g \in Gen, DropClient(g) PROVE UdpInv'
  BY <1>t, <1>7, ClientsStep DEF DropClient, UdpTypeOK, Alive
<1>8. ASSUME NEW g \in Gen, RunDropTask(g) PROVE UdpInv'
  BY <1>8, RunDropTaskStep
<1>9. CASE UNCHANGED udpVars
  BY <1>9 DEF udpVars, UdpInv, UdpTypeOK, MadeInOrder, EntryIsLatest, TasksOfTheGone, OrphanNeedsReuse, Alive
<1>. QED  BY <1>1, <1>2, <1>3, <1>4, <1>5, <1>6, <1>7, <1>8, <1>9 DEF UdpNext

LEMMA Invariance == UdpSpec => []UdpInv
  BY TypeInit, InvStep, PTL DEF UdpSpec

\* Every variable keeps its type.
THEOREM UdpTypes == UdpSpec => []UdpTypeOK
<1>1. UdpInv => UdpTypeOK
  BY DEF UdpInv
<1>. QED  BY <1>1, Invariance, PTL

\* A UdpClient in use that has lost its place in the table is not the first
\* of its address (udp.rs:28-37).
THEOREM OrphansReuseAddresses == UdpSpec => []OrphanNeedsReuse
<1>1. UdpInv => OrphanNeedsReuse
  BY DEF UdpInv
<1>. QED  BY <1>1, Invariance, PTL

-----------------------------------------------------------------------------
\* What each UdpClient has been given, and how the first n datagrams are
\* spread over such sequences.
History == [g \in Gen |-> Given(g)]

Spread(H, n) ==
    /\ \A g \in Gen : \A i \in 1..Len(H[g]) : H[g][i] \in 1..n
    /\ \A g \in Gen : \A i, j \in 1..Len(H[g]) : i < j => H[g][i] < H[g][j]
    /\ \A d \in 1..n : \E g \in Gen : \E i \in 1..Len(H[g]) : H[g][i] = d
    /\ \A g, h \in Gen : \A i \in 1..Len(H[g]), j \in 1..Len(H[h]) :
         H[g][i] = H[h][j] => g = h

LEMMA HistoryIsTyped == UdpTypeOK => History \in [Gen -> Seq(Gen)]
<1>. SUFFICES ASSUME UdpTypeOK, NEW g \in Gen PROVE Given(g) \in Seq(Gen)
  BY DEF History
<1>1. read[g] \in Seq(Gen) /\ inbox[g] \in Seq(Gen)
  BY DEF UdpTypeOK
<1>. QED  BY <1>1, ConcatProperties DEF Given

\* The next datagram goes to the end of one sequence.
LEMMA OneMore ==
    ASSUME NEW H \in [Gen -> Seq(Gen)], NEW K \in [Gen -> Seq(Gen)], NEW n \in Nat,
           Spread(H, n), n + 1 \in Gen,
           NEW g \in Gen, K[g] = Append(H[g], n + 1),
           \A h \in Gen : h # g => K[h] = H[h]
    PROVE  Spread(K, n + 1)
<1>. DEFINE l == Len(H[g])
<1>1. /\ l \in Nat /\ Len(K[g]) = l + 1
      /\ \A i \in 1..l : K[g][i] = H[g][i]
      /\ K[g][l + 1] = n + 1
  BY AppendProperties, LenProperties
<1>. HIDE DEF l
<1>2. \A h \in Gen : Len(H[h]) \in Nat /\ Len(K[h]) \in Nat
  BY LenProperties
\* Every entry of K is one of H, in the same place, or the new one.
<1>3. \A h \in Gen : \A i \in 1..Len(K[h]) :
        \/ i \in 1..Len(H[h]) /\ K[h][i] = H[h][i] /\ K[h][i] \in 1..n
        \/ h = g /\ i = l + 1 /\ K[h][i] = n + 1
  <2>. TAKE h \in Gen
  <2>. TAKE i \in 1..Len(K[h])
  <2>1. CASE h # g
    BY <2>1 DEF Spread
  <2>2. CASE h = g /\ i = l + 1
    BY <1>1, <2>2
  <2>3. CASE h = g /\ i # l + 1
    <3>1. i \in 1..l
      BY <1>1, <2>3
    <3>. QED  BY <1>1, <2>3, <3>1 DEF Spread, l
  <2>. QED  BY <2>1, <2>2, <2>3
<1>4. \A h \in Gen : \A i \in 1..Len(H[h]) :
        i \in 1..Len(K[h]) /\ K[h][i] = H[h][i]
  <2>. TAKE h \in Gen
  <2>. TAKE i \in 1..Len(H[h])
  <2>1. CASE h # g
    BY <2>1
  <2>2. CASE h = g
    <3>1. i \in 1..l
      BY <2>2 DEF l
    <3>2. i \in 1..Len(K[g])
      BY <1>1, <3>1
    <3>. QED  BY <1>1, <2>2, <3>1, <3>2
  <2>. QED  BY <2>1, <2>2
<1>5. \A h \in Gen : \A i \in 1..Len(K[h]) : K[h][i] \in 1..(n + 1)
  <2>1. 1..n \subseteq 1..(n + 1) /\ n + 1 \in 1..(n + 1)
    OBVIOUS
  <2>2. \A h \in Gen : \A i \in 1..Len(K[h]) : K[h][i] \in 1..n \/ K[h][i] = n + 1
    BY <1>3
  <2>. QED  BY <2>1, <2>2
<1>6. ASSUME NEW h \in Gen, NEW i \in 1..Len(K[h]), NEW j \in 1..Len(K[h]), i < j
      PROVE  K[h][i] < K[h][j]
  <2>1. i \in Nat /\ j \in Nat
    BY <1>2
  <2>2. CASE j \in 1..Len(H[h]) /\ K[h][j] = H[h][j]
    <3>1. i \in 1..Len(H[h])
      BY <1>2, <1>6, <2>1, <2>2
    <3>2. K[h][i] = H[h][i]
      BY <1>4, <3>1
    <3>3. H[h][i] < H[h][j]
      BY <1>6, <2>2, <3>1 DEF Spread
    <3>. QED  BY <2>2, <3>2, <3>3
  <2>3. CASE h = g /\ j = l + 1 /\ K[h][j] = n + 1
    <3>1. i \in 1..Len(H[h])
      BY <1>1, <1>6, <2>1, <2>3 DEF l
    <3>2. K[h][i] \in 1..n
      BY <1>4, <3>1 DEF Spread
    <3>. QED  BY <2>3, <3>2
  <2>. QED  BY <1>3, <2>2, <2>3
<1>7. ASSUME NEW d \in 1..(n + 1)
      PROVE  \E h \in Gen : \E i \in 1..Len(K[h]) : K[h][i] = d
  <2>1. CASE d = n + 1
    <3>1. l + 1 \in 1..Len(K[g])
      BY <1>1
    <3>. QED  BY <1>1, <2>1, <3>1
  <2>2. CASE d # n + 1
    <3>1. d \in 1..n
      BY <2>2
    <3>2. PICK h \in Gen : \E i \in 1..Len(H[h]) : H[h][i] = d
      BY <3>1 DEF Spread
    <3>. QED  BY <1>4, <3>2
  <2>. QED  BY <2>1, <2>2
<1>8. ASSUME NEW f \in Gen, NEW h \in Gen,
             NEW i \in 1..Len(K[f]), NEW j \in 1..Len(K[h]), K[f][i] = K[h][j]
      PROVE  f = h
  <2>1. n + 1 \notin 1..n
    OBVIOUS
  <2>2. CASE K[f][i] = n + 1
    BY <1>3, <1>8, <2>1, <2>2
  <2>3. CASE K[f][i] # n + 1
    <3>1. /\ i \in 1..Len(H[f]) /\ K[f][i] = H[f][i]
          /\ j \in 1..Len(H[h]) /\ K[h][j] = H[h][j]
      BY <1>3, <1>8, <2>3
    <3>2. H[f][i] = H[h][j]
      BY <1>8, <3>1
    <3>. QED  BY <3>1, <3>2 DEF Spread
  <2>. QED  BY <2>2, <2>3
<1>. QED  BY <1>5, <1>6, <1>7, <1>8 DEF Spread

\* Reading moves a datagram from the channel to what was read.
LEMMA ReadingMoves ==
    ASSUME NEW r \in Seq(Gen), NEW q \in Seq(Gen), q # <<>>
    PROVE  Append(r, Head(q)) \o Tail(q) = r \o q
<1>1. /\ Head(q) \in Gen /\ Tail(q) \in Seq(Gen) /\ <<Head(q)>> \in Seq(Gen)
      /\ Append(r, Head(q)) = r \o <<Head(q)>>
  BY HeadTailProperties, AppendIsConcat, Queues
<1>2. (r \o <<Head(q)>>) \o Tail(q) = r \o (<<Head(q)>> \o Tail(q))
  BY <1>1, ConcatAssociative
<1>3. <<Head(q)>> \o Tail(q) = q
  <2>. DEFINE c == <<Head(q)>> \o Tail(q)
  <2>1. /\ Len(q) \in Nat \ {0} /\ Len(Tail(q)) = Len(q) - 1 /\ Head(q) = q[1]
        /\ \A i \in 1..Len(Tail(q)) : Tail(q)[i] = q[i + 1]
    BY HeadTailProperties, EmptySeq
  <2>2. Len(<<Head(q)>>) = 1 /\ <<Head(q)>>[1] = q[1]
    BY <2>1
  <2>3. /\ c \in Seq(Gen) /\ Len(c) = Len(q)
        /\ \A i \in 1..Len(q) : c[i] = IF i <= 1 THEN <<Head(q)>>[i] ELSE Tail(q)[i - 1]
    <3>1. /\ c \in Seq(Gen) /\ Len(c) = 1 + Len(Tail(q))
          /\ \A i \in 1..1 + Len(Tail(q)) :
               c[i] = IF i <= 1 THEN <<Head(q)>>[i] ELSE Tail(q)[i - 1]
      BY <1>1, <2>2, ConcatProperties
    <3>2. 1 + Len(Tail(q)) = Len(q)
      BY <2>1
    <3>. QED  BY <3>1, <3>2
  <2>. HIDE DEF c
  <2>4. ASSUME NEW i \in 1..Len(c) PROVE c[i] = q[i]
    <3>1. CASE i = 1
      BY <2>1, <2>2, <2>3, <3>1
    <3>2. CASE i # 1
      <4>1. i - 1 \in 1..Len(Tail(q)) /\ ~(i <= 1) /\ (i - 1) + 1 = i
        BY <2>1, <2>3, <3>2
      <4>2. Tail(q)[i - 1] = q[i]
        BY <2>1, <4>1
      <4>. QED  BY <2>3, <4>1, <4>2
    <3>. QED  BY <3>1, <3>2
  <2>5. c = q
    BY <2>3, <2>4, SeqEqual
  <2>. QED  BY <2>5 DEF c
<1>. QED  BY <1>1, <1>2, <1>3

\* What was given and what comes in are one sequence.
LEMMA GivenGrows ==
    ASSUME NEW r \in Seq(Gen), NEW q \in Seq(Gen), NEW d \in Gen
    PROVE  r \o Append(q, d) = Append(r \o q, d)
<1>1. /\ <<d>> \in Seq(Gen) /\ r \o q \in Seq(Gen)
      /\ Append(q, d) = q \o <<d>>
  BY AppendIsConcat, ConcatProperties, Queues
<1>2. Append(r \o q, d) = (r \o q) \o <<d>>
  BY <1>1, AppendIsConcat
<1>. QED  BY <1>1, <1>2, ConcatAssociative

LEMMA SpreadInit == UdpInit => Spread(History, arrived)
<1>. SUFFICES ASSUME UdpInit PROVE Spread(History, arrived)
  OBVIOUS
<1>1. \A g \in Gen : History[g] = <<>>
  BY DEF UdpInit, History, Given
<1>2. Len(<<>>) = 0 /\ 1..0 = {} /\ arrived = 0
  BY DEF UdpInit
<1>. QED  BY <1>1, <1>2 DEF Spread

LEMMA SpreadStep ==
    UdpInv /\ UdpInv' /\ Spread(History, arrived) /\ [UdpNext]_udpVars
      => Spread(History, arrived)'
<1>. SUFFICES ASSUME UdpInv, UdpInv', Spread(History, arrived), [UdpNext]_udpVars
              PROVE  Spread(History', arrived')
  OBVIOUS
<1>t. /\ UdpTypeOK /\ UdpTypeOK'
      /\ History \in [Gen -> Seq(Gen)] /\ History' \in [Gen -> Seq(Gen)]
  <2>1. UdpTypeOK /\ UdpTypeOK'
    BY DEF UdpInv
  <2>2. ASSUME NEW g \in Gen PROVE Given(g)' \in Seq(Gen)
    <3>1. read'[g] \in Seq(Gen) /\ inbox'[g] \in Seq(Gen)
      BY <2>1 DEF UdpTypeOK
    <3>. QED  BY <3>1, ConcatProperties DEF Given
  <2>3. History' \in [Gen -> Seq(Gen)]
    BY <2>2 DEF History
  <2>. QED  BY <2>1, <2>3, HistoryIsTyped
<1>1. ASSUME NEW a \in Addrs, Receive(a) PROVE Spread(History', arrived')
  <2>1. /\ arrived \in Nat /\ arrived + 1 \in Gen /\ arrived' = arrived + 1
        /\ read' = read /\ made \in Nat /\ made + 1 \in Gen
    BY <1>1, <1>t, Gens DEF UdpTypeOK, Receive, Gen
  <2>2. PICK g \in Gen :
          /\ inbox'[g] = Append(inbox[g], arrived + 1)
          /\ \A h \in Gen : h # g => inbox'[h] = inbox[h]
    <3>1. CASE table[a] # NoGen /\ Alive(table[a])
      <4>1. inbox' = [inbox EXCEPT ![table[a]] = Append(@, arrived + 1)]
        BY <1>1, <3>1 DEF Receive, Behind, Number
      <4>2. table[a] \in Gen
        BY <1>t, <3>1 DEF UdpTypeOK
      <4>. QED  BY <1>t, <4>1, <4>2 DEF UdpTypeOK
    <3>2. CASE ~(table[a] # NoGen /\ Alive(table[a]))
      <4>1. inbox' = [inbox EXCEPT ![made + 1] = <<arrived + 1>>]
        BY <1>1, <3>2 DEF Receive, Number
      <4>2. inbox[made + 1] = <<>>
        BY <2>1 DEF UdpInv, MadeInOrder
      <4>3. Append(<<>>, arrived + 1) = <<arrived + 1>>
        OBVIOUS
      <4>. QED  BY <1>t, <2>1, <4>1, <4>2, <4>3 DEF UdpTypeOK
    <3>. QED  BY <3>1, <3>2
  <2>3. read[g] \in Seq(Gen) /\ inbox[g] \in Seq(Gen)
    BY <1>t DEF UdpTypeOK
  <2>4. History'[g] = Append(History[g], arrived + 1)
    BY <2>1, <2>2, <2>3, GivenGrows DEF History, Given
  <2>5. \A h \in Gen : h # g => History'[h] = History[h]
    BY <2>1, <2>2 DEF History, Given
  <2>. QED  BY <1>t, <2>1, <2>4, <2>5, OneMore
<1>2. ASSUME NEW g \in Gen, Read(g) PROVE Spread(History', arrived')
  <2>1. /\ read' = [read EXCEPT ![g] = Append(@, Head(inbox[g]))]
        /\ inbox' = [inbox EXCEPT ![g] = Tail(@)]
        /\ inbox[g] # <<>> /\ arrived' = arrived
    BY <1>2 DEF Read
  <2>2. read[g] \in Seq(Gen) /\ inbox[g] \in Seq(Gen)
    BY <1>t DEF UdpTypeOK
  <2>3. /\ read'[g] = Append(read[g], Head(inbox[g])) /\ inbox'[g] = Tail(inbox[g])
        /\ \A h \in Gen : h # g => read'[h] = read[h] /\ inbox'[h] = inbox[h]
    BY <1>t, <2>1 DEF UdpTypeOK
  <2>4. Given(g)' = Given(g)
    BY <2>1, <2>2, <2>3, ReadingMoves DEF Given
  <2>5. \A h \in Gen : Given(h)' = Given(h)
    BY <2>3, <2>4 DEF Given
  <2>6. History' = History
    BY <2>5 DEF History
  <2>. QED  BY <2>1, <2>6
<1>3. ASSUME UNCHANGED <<arrived, inbox, read>> PROVE Spread(History', arrived')
  BY <1>3 DEF History, Given
<1>4. CASE Shutdown \/ ReceiveFails \/ AcceptPanics \/ DropServer \/ UNCHANGED udpVars
  BY <1>3, <1>4 DEF Shutdown, ReceiveFails, AcceptPanics, DropServer, udpVars
<1>5. CASE \E g \in Gen : Accept(g) \/ ReadPanics(g) \/ DropClient(g) \/ RunDropTask(g)
  BY <1>3, <1>5 DEF Accept, ReadPanics, DropClient, RunDropTask
<1>. QED  BY <1>1, <1>2, <1>4, <1>5 DEF UdpNext

\* Such a spread is what the property says.
LEMMA SpreadIsOnce == UdpTypeOK /\ Spread(History, arrived) => DatagramsOnceInOrder
<1>. SUFFICES ASSUME UdpTypeOK, Spread(History, arrived) PROVE DatagramsOnceInOrder
  OBVIOUS
<1>1. \A g \in Gen : Given(g) = History[g] /\ DOMAIN Given(g) = 1..Len(History[g])
  <2>1. \A g \in Gen : Given(g) = History[g] /\ History[g] \in Seq(Gen)
    BY HistoryIsTyped DEF History
  <2>. QED  BY <2>1, LenProperties
<1>2. \A g \in Gen : \A i, j \in DOMAIN Given(g) : i < j => Given(g)[i] < Given(g)[j]
  BY <1>1 DEF Spread
<1>3. ASSUME NEW d \in 1..arrived
      PROVE  Cardinality({g \in Gen : \E i \in DOMAIN Given(g) : Given(g)[i] = d}) = 1
  <2>1. PICK g \in Gen : \E i \in 1..Len(History[g]) : History[g][i] = d
    BY DEF Spread
  <2>2. \A h \in Gen : (\E i \in 1..Len(History[h]) : History[h][i] = d) => h = g
    BY <2>1 DEF Spread
  <2>3. \A h \in Gen : (\E i \in DOMAIN Given(h) : Given(h)[i] = d) <=> h = g
    BY <1>1, <2>1, <2>2
  <2>4. {h \in Gen : \E i \in DOMAIN Given(h) : Given(h)[i] = d} = {g}
    BY <2>3
  <2>. QED  BY <2>4, FS_Singleton
<1>. QED  BY <1>2, <1>3 DEF DatagramsOnceInOrder

\* Each datagram goes to one UdpClient, and each gets its own in the order of
\* arrival, whatever is dropped and removed meanwhile (udp.rs:54-61).
THEOREM DatagramsOnce == UdpSpec => []DatagramsOnceInOrder
<1>1. UdpInit => Spread(History, arrived)
  BY SpreadInit
<1>2. UdpInv /\ UdpInv' /\ Spread(History, arrived) /\ [UdpNext]_udpVars
        => Spread(History, arrived)'
  BY SpreadStep
<1>3. UdpInv /\ Spread(History, arrived) => DatagramsOnceInOrder
  BY SpreadIsOnce DEF UdpInv
<1>. QED  BY <1>1, <1>2, <1>3, Invariance, PTL DEF UdpSpec
=============================================================================
