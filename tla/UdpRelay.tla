------------------------------- MODULE UdpRelay -------------------------------
(***************************************************************************)
(* The relay of one udp visitor: the server's copy (server/mod.rs:137-157) *)
(* between a UdpClient and the data connection, and the client's           *)
(* (client.rs:549-571) between the data connection and the service.  The   *)
(* data connection is a stream: datagrams go in whole and come out in the  *)
(* pieces read_buf makes of the stream.                                    *)
(*                                                                         *)
(* Both copies write with write_all inside a branch of their select!, so   *)
(* neither reads while it writes.  A byte is a pair: its datagram, and its *)
(* place there.                                                            *)
(***************************************************************************)
EXTENDS Naturals, Sequences, SequencesExt, FiniteSetsExt

CONSTANTS
  Lengths,      \* the lengths of datagrams
  Chunk,        \* what read_buf reads at most into an empty BytesMut
  Largest,      \* the capacity of the buffers for datagrams
  Room,         \* the bytes each direction of the connection holds
  MaxSent,      \* bound: datagrams of the visitor
  MaxAnswered,  \* bound: datagrams of the service
  Faults        \* whether the connection breaks and the sockets fail

ASSUME RelayAssumption ==
  /\ Lengths \subseteq Nat /\ Faults \in BOOLEAN
  /\ Chunk \in Nat \ {0} /\ Largest \in Nat \ {0} /\ Room \in Nat \ {0}
  /\ MaxSent \in Nat \ {0} /\ MaxAnswered \in Nat

VARIABLES
  sent,         \* the lengths of the visitor's datagrams
  answered,     \* the lengths of the service's
  inbox,        \* what the server's UdpClient has not read yet
  answers,      \* what the client's udp socket has not received yet
  server,       \* the server's copy: "select", "write", "quiet" when the
                \* timeout has ended it, or "ended"
  client,       \* the client's: "select", "write" or "ended"
  outgoing,     \* what write_all has not written yet, on the server
  reply,        \* and on the client
  up, down,     \* the bytes in the connection
  reset,        \* the connection is reset
  served,       \* what the service has received
  returned      \* what the visitor has received

vars == <<sent, answered, inbox, answers, server, client, outgoing, reply,
          up, down, reset, served, returned>>

(* The buffers hold Largest bytes; the rest of a datagram is cut off.      *)
Bytes(d, length) == [i \in 1 .. Min({length, Largest}) |-> <<d, i>>]

(* The UdpClient of a relay begins with the datagram it was made for.      *)
Init ==
  /\ sent \in {<<n>> : n \in Lengths} /\ inbox = <<Bytes(1, sent[1])>>
  /\ answered = <<>> /\ answers = <<>>
  /\ server = "select" /\ client = "select"
  /\ outgoing = <<>> /\ reply = <<>>
  /\ up = <<>> /\ down = <<>> /\ reset = FALSE
  /\ served = <<>> /\ returned = <<>>

----------------------------------------------------------------------------
(* The visitor, the service and the network.                               *)

Gone(copy) == copy \in {"quiet", "ended"}

Send(n) ==
  /\ Len(sent) < MaxSent /\ ~Gone(server)
  /\ sent' = Append(sent, n)
  /\ inbox' = Append(inbox, Bytes(Len(sent'), n))
  /\ UNCHANGED <<answered, answers, server, client, outgoing, reply, up, down,
                 reset, served, returned>>

(* The service knows the client's address from what it has received.       *)
Answer(n) ==
  /\ Len(answered) < MaxAnswered /\ served # <<>> /\ ~Gone(client)
  /\ answered' = Append(answered, n)
  /\ answers' = Append(answers, Bytes(Len(answered'), n))
  /\ UNCHANGED <<sent, inbox, server, client, outgoing, reply, up, down,
                 reset, served, returned>>

Break ==
  /\ Faults /\ ~reset
  /\ reset' = TRUE /\ up' = <<>> /\ down' = <<>>
  /\ UNCHANGED <<sent, answered, inbox, answers, server, client, outgoing,
                 reply, served, returned>>

(* A piece that read_buf may take from the stream.                         *)
Pieces(wire) == {SubSeq(wire, 1, n) : n \in 1 .. Min({Chunk, Len(wire)})}

AtEnd(wire, writer) == wire = <<>> /\ Gone(writer) /\ ~reset

(* write_all goes on with what a write has left over.                      *)
Dropped(bytes, n) == <<>>                                  \* mutant
Rest(bytes, n) == SubSeq(bytes, n + 1, Len(bytes))

Free(wire) == Room - Len(wire)

----------------------------------------------------------------------------
(* The server's copy.                                                      *)

(* A copy that ends drops its connection; if bytes are unread there, the   *)
(* kernel resets it, and the peer may lose what it has not read.           *)
ServerEnds(how) ==
  /\ server' = how /\ inbox' = <<>> /\ outgoing' = <<>> /\ down' = <<>>
  /\ IF down # <<>>
       THEN reset' = TRUE /\ up' \in {up, <<>>}
       ELSE UNCHANGED <<reset, up>>
  /\ UNCHANGED <<sent, answered, answers, client, reply, served, returned>>

(* stream.read_buf is ready; send_to the visitor may fail.                 *)
ServerReads ==
  /\ server = "select" /\ ~reset
  /\ \E piece \in Pieces(down) :
       /\ returned' = Append(returned, piece)
       /\ down' = Rest(down, Len(piece))
  /\ UNCHANGED <<sent, answered, inbox, answers, server, client, outgoing,
                 reply, up, reset, served>>

(* At the end of the stream read_buf returns 0, and an empty datagram goes *)
(* to the visitor; again and again, of which the model keeps the first.    *)
ServerReadsNothing ==
  /\ server = "select" /\ AtEnd(down, client)
  /\ <<>> \notin Range(returned)
  /\ returned' = Append(returned, <<>>)
  /\ UNCHANGED <<sent, answered, inbox, answers, server, client, outgoing,
                 reply, up, down, reset, served>>

ServerReadIgnored ==                                       \* mutant
  /\ server = "select" /\ reset
  /\ <<>> \notin Range(returned)
  /\ returned' = Append(returned, <<>>)
  /\ UNCHANGED <<sent, answered, inbox, answers, server, client, outgoing,
                 reply, up, down, reset, served>>
ServerReadFails == server = "select" /\ reset /\ ServerEnds("ended")

SendToFails ==
  /\ Faults /\ server = "select" /\ ~reset
  /\ down # <<>> \/ AtEnd(down, client)
  /\ ServerEnds("ended")

(* udp_recver.read is ready.  An empty datagram vanishes in write_all.     *)
ServerTakes ==
  /\ server = "select" /\ inbox # <<>>
  /\ inbox' = Tail(inbox)
  /\ outgoing' = Head(inbox)
  /\ server' = IF Head(inbox) = <<>> THEN "select" ELSE "write"
  /\ UNCHANGED <<sent, answered, answers, client, reply, up, down, reset,
                 served, returned>>

(* A write to a connection whose other end is gone is answered by a reset. *)
ServerWrites ==
  /\ server = "write" /\ ~reset
  /\ \E n \in 1 .. Len(outgoing) :
       /\ ~Gone(client) => n <= Free(up)
       /\ outgoing' = Rest(outgoing, n)
       /\ up' = IF Gone(client) THEN up ELSE up \o SubSeq(outgoing, 1, n)
  /\ reset' = Gone(client)
  /\ down' = IF reset' THEN <<>> ELSE down
  /\ server' = IF outgoing' = <<>> THEN "select" ELSE "write"
  /\ UNCHANGED <<sent, answered, inbox, answers, client, reply, served, returned>>

ServerWriteFails == server = "write" /\ reset /\ ServerEnds("ended")

(* The timeout of ten minutes begins anew in each round: it fires when     *)
(* nothing else has been ready for so long.                                *)
Silent == server = "select" /\ inbox = <<>> /\ down = <<>> /\ ~Gone(client) /\ ~reset
OnTheWay == up # <<>> \/ answers # <<>> \/ reply # <<>>

TimeoutGoesOn == Silent /\ ~OnTheWay /\ UNCHANGED vars     \* mutant
Timeout == Silent /\ ~OnTheWay /\ ServerEnds("quiet")

(* A client that stands still for as long is as good as one that failed.   *)
TimeoutOnStall == Faults /\ Silent /\ OnTheWay /\ ServerEnds("ended")

----------------------------------------------------------------------------
(* The client's copy.                                                      *)

ClientEnds ==
  /\ client' = "ended" /\ answers' = <<>> /\ reply' = <<>> /\ up' = <<>>
  /\ IF up # <<>>
       THEN reset' = TRUE /\ down' \in {down, <<>>}
       ELSE UNCHANGED <<reset, down>>
  /\ UNCHANGED <<sent, answered, inbox, server, outgoing, served, returned>>

ClientReads ==
  /\ client = "select" /\ ~reset
  /\ \E piece \in Pieces(up) :
       /\ served' = Append(served, piece)
       /\ up' = Rest(up, Len(piece))
  /\ UNCHANGED <<sent, answered, inbox, answers, server, client, outgoing,
                 reply, down, reset, returned>>

(* The result of read_buf is not looked at: the end of the stream and an   *)
(* error both send an empty datagram to the service, again and again.      *)
ClientReadsNothing ==
  /\ client = "select" /\ (AtEnd(up, server) \/ reset)
  /\ <<>> \notin Range(served)
  /\ served' = Append(served, <<>>)
  /\ UNCHANGED <<sent, answered, inbox, answers, server, client, outgoing,
                 reply, up, down, reset, returned>>

(* The service's port is closed: send or recv_buf reports it.              *)
ServiceRefuses == Faults /\ client = "select" /\ ClientEnds

ClientTakes ==
  /\ client = "select" /\ answers # <<>>
  /\ answers' = Tail(answers)
  /\ reply' = Head(answers)
  /\ client' = IF Head(answers) = <<>> THEN "select" ELSE "write"
  /\ UNCHANGED <<sent, answered, inbox, server, outgoing, up, down, reset,
                 served, returned>>

ClientWrites ==
  /\ client = "write" /\ ~reset
  /\ \E n \in 1 .. Len(reply) :
       /\ ~Gone(server) => n <= Free(down)
       /\ reply' = Rest(reply, n)
       /\ down' = IF Gone(server) THEN down ELSE down \o SubSeq(reply, 1, n)
  /\ reset' = Gone(server)
  /\ up' = IF reset' THEN <<>> ELSE up
  /\ client' = IF reply' = <<>> THEN "select" ELSE "write"
  /\ UNCHANGED <<sent, answered, inbox, answers, server, outgoing, served, returned>>

ClientWriteFails == client = "write" /\ reset /\ ClientEnds

----------------------------------------------------------------------------
ServerStep ==
  \/ ServerReads \/ ServerReadsNothing \/ ServerReadFails \/ SendToFails
  \/ ServerTakes \/ ServerWrites \/ ServerWriteFails
  \/ Timeout \/ TimeoutOnStall
ClientStep ==
  \/ ClientReads \/ ClientReadsNothing \/ ServiceRefuses
  \/ ClientTakes \/ ClientWrites \/ ClientWriteFails
Next ==
  \/ \E n \in Lengths : Send(n) \/ Answer(n)
  \/ Break \/ ServerStep \/ ClientStep

Spec == Init /\ [][Next]_vars

(* A ready branch of a select! is taken in the end, a write that can go on *)
(* does, and a timer that nothing restarts fires.                          *)
FairSpec ==
  /\ Spec
  /\ WF_vars(ServerReads) /\ WF_vars(ServerReadFails) /\ WF_vars(ServerTakes)
  /\ WF_vars(ServerWrites) /\ WF_vars(ServerWriteFails) /\ WF_vars(Timeout)
  /\ WF_vars(ClientReads) /\ WF_vars(ClientReadsNothing)
  /\ WF_vars(ClientTakes) /\ WF_vars(ClientWrites) /\ WF_vars(ClientWriteFails)

----------------------------------------------------------------------------
(* Properties.                                                             *)

Datagrams(lengths) == [d \in DOMAIN lengths |-> Bytes(d, lengths[d])]

(* Wherever the stream is cut, and however little a write takes, what has  *)
(* arrived is a beginning of what was sent; while both copies run and the  *)
(* connection works, the rest is in one place on the way                   *)
(* (server/mod.rs:146-153, client.rs:559-568).                             *)
BytesAccounted ==
  LET working == ~Gone(server) /\ ~Gone(client) /\ ~reset
      there == FlattenSeq(served)
      back == FlattenSeq(returned)
      allThere == FlattenSeq(Datagrams(sent))
      allBack == FlattenSeq(Datagrams(answered)) IN
  /\ IsPrefix(there, allThere) /\ IsPrefix(back, allBack)
  /\ working =>
       /\ there \o up \o outgoing \o FlattenSeq(inbox) = allThere
       /\ back \o down \o reply \o FlattenSeq(answers) = allBack

(* Both copies are in write_all and neither reads: the connection is full  *)
(* in both directions, and stays so.                                       *)
Stuck ==
  /\ server = "write" /\ client = "write" /\ ~reset
  /\ Free(up) = 0 /\ Free(down) = 0

Over == server = "ended" \/ client = "ended" \/ Stuck

Arrived(d, lengths, pieces) ==
  d \in DOMAIN lengths =>
    Range(Bytes(d, lengths[d])) \subseteq Range(FlattenSeq(pieces))

(* What was sent arrives, unless a copy fails or both block each other:    *)
(* that is the only way for the relay to be stuck (server/mod.rs:149,153,  *)
(* client.rs:566).  An answer to a relay that was quiet for too long is    *)
(* lost.                                                                   *)
TrafficArrives ==
  /\ \A d \in 1 .. MaxSent :
       Len(sent) >= d ~> (Arrived(d, sent, served) \/ Over)
  /\ \A d \in 1 .. MaxAnswered :
       (Len(answered) >= d /\ server # "quiet") ~>
         (Arrived(d, answered, returned) \/ Over)

(* The server's copy notices that the client's has ended once the visitor  *)
(* sends something that is not empty (server/mod.rs:146-153).              *)
EndedRelayNoticed ==
  (client = "ended" /\ \E d \in Range(inbox) : d # <<>>) ~> Gone(server)

(* A visitor's datagrams are bounded here, so there is a last one; ten     *)
(* minutes later the relay is over, or in one of the two states in which   *)
(* the timer does not run (server/mod.rs:151).                             *)
QuietRelayEnds == <>(Gone(server) \/ client = "ended" \/ Stuck)
=============================================================================
