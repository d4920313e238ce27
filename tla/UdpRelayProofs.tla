--------------------------- MODULE UdpRelayProofs ---------------------------
(***************************************************************************)
(* Proofs about the relay of a udp visitor, for datagrams of any lengths,  *)
(* buffers, pieces and connections of any size, and any faults: no byte is *)
(* lost, repeated or moved while both copies work, and what has arrived is *)
(* always a beginning of what was sent.                                    *)
(*                                                                         *)
(* Both directions are the same flow: what the sender has handed in waits, *)
(* is written, is in the connection, and is taken in pieces by the         *)
(* receiver.  The lemmas say what each kind of step does to a flow.        *)
(***************************************************************************)
EXTENDS UdpRelay, SequenceLemmas

ByteSet == Nat \X Nat

-----------------------------------------------------------------------------
(* A flow.                                                                 *)

FlowType(all, waiting, writing, wire, taken) ==
  /\ all \in Seq(Seq(ByteSet)) /\ waiting \in Seq(Seq(ByteSet))
  /\ writing \in Seq(ByteSet) /\ wire \in Seq(ByteSet)
  /\ taken \in Seq(Seq(ByteSet))

(* What was taken and what is in the connection is a beginning of all.     *)
Begun(all, wire, taken) ==
  \E rest \in Seq(ByteSet) : (FlattenSeq(taken) \o wire) \o rest = FlattenSeq(all)

(* Together with what is on its way, it is all.                            *)
Whole(all, waiting, writing, wire, taken) ==
  ((FlattenSeq(taken) \o wire) \o writing) \o FlattenSeq(waiting) = FlattenSeq(all)

LEMMA RegroupBytes == \A s, t, u \in Seq(ByteSet) : (s \o t) \o u = s \o (t \o u)
<1>1. Associative(ByteSet)
  BY Associates, Zenon
<1> QED
  BY <1>1, Zenon DEF Associative

LEMMA FlattenBytes ==
  /\ \A ds \in Seq(Seq(ByteSet)) : FlattenSeq(ds) \in Seq(ByteSet)
  /\ \A ds \in Seq(Seq(ByteSet)), d \in Seq(ByteSet) :
       /\ Append(ds, d) \in Seq(Seq(ByteSet))
       /\ FlattenSeq(Append(ds, d)) = FlattenSeq(ds) \o d
<1>1. \A ds \in Seq(Seq(ByteSet)) : FlattenSeq(ds) \in Seq(ByteSet)
  BY FlattenType
<1>2. \A ds \in Seq(Seq(ByteSet)), d \in Seq(ByteSet) : Append(ds, d) \in Seq(Seq(ByteSet))
  OBVIOUS
<1>3. \A ds \in Seq(Seq(ByteSet)), d \in Seq(ByteSet) :
        FlattenSeq(Append(ds, d)) = FlattenSeq(ds) \o d
  BY FlattenAppend
<1> QED
  BY <1>1, <1>2, <1>3

LEMMA BytesJoin ==
  \A s, t \in Seq(ByteSet) : s \o t \in Seq(ByteSet) /\ s \o <<>> = s /\ <<>> \o s = s
  OBVIOUS

LEMMA WholeIsBegun ==
  ASSUME NEW all, NEW waiting, NEW writing, NEW wire, NEW taken,
         FlowType(all, waiting, writing, wire, taken),
         Whole(all, waiting, writing, wire, taken)
  PROVE  Begun(all, wire, taken)
<1> DEFINE a == FlattenSeq(taken) \o wire
           b == FlattenSeq(waiting)
<1>1. a \in Seq(ByteSet) /\ b \in Seq(ByteSet) /\ writing \in Seq(ByteSet)
  <2>1. FlattenSeq(taken) \in Seq(ByteSet) /\ b \in Seq(ByteSet)
    BY FlattenBytes DEF FlowType
  <2> QED
    BY <2>1, BytesJoin DEF FlowType
<1>2. (a \o writing) \o b = FlattenSeq(all)
  BY DEF Whole
<1> HIDE DEF a, b
<1>3. (a \o writing) \o b = a \o (writing \o b)
  BY <1>1, RegroupBytes, Zenon
<1>4. writing \o b \in Seq(ByteSet)
  BY <1>1, BytesJoin, Zenon
<1> QED
  BY <1>2, <1>3, <1>4, Zenon DEF Begun, a

(* Something is handed in.                                                 *)
LEMMA MoreComes ==
  ASSUME NEW all, NEW waiting, NEW writing, NEW wire, NEW taken, NEW d,
         FlowType(all, waiting, writing, wire, taken), d \in Seq(ByteSet)
  PROVE  /\ FlowType(Append(all, d), Append(waiting, d), writing, wire, taken)
         /\ FlowType(Append(all, d), waiting, writing, wire, taken)
         /\ Begun(all, wire, taken) => Begun(Append(all, d), wire, taken)
         /\ Whole(all, waiting, writing, wire, taken) =>
              Whole(Append(all, d), Append(waiting, d), writing, wire, taken)
<1> DEFINE a == FlattenSeq(taken) \o wire
           b == FlattenSeq(waiting)
           c == FlattenSeq(all)
<1>1. /\ a \in Seq(ByteSet) /\ b \in Seq(ByteSet) /\ c \in Seq(ByteSet)
      /\ writing \in Seq(ByteSet) /\ a \o writing \in Seq(ByteSet)
  <2>1. FlattenSeq(taken) \in Seq(ByteSet) /\ b \in Seq(ByteSet) /\ c \in Seq(ByteSet)
    BY FlattenBytes DEF FlowType
  <2> QED
    BY <2>1, BytesJoin DEF FlowType
<1>2. /\ FlattenSeq(Append(all, d)) = c \o d /\ FlattenSeq(Append(waiting, d)) = b \o d
      /\ Append(all, d) \in Seq(Seq(ByteSet)) /\ Append(waiting, d) \in Seq(Seq(ByteSet))
  BY FlattenBytes DEF FlowType
<1>3. ASSUME Begun(all, wire, taken) PROVE Begun(Append(all, d), wire, taken)
  <2>1. PICK rest : rest \in Seq(ByteSet) /\ a \o rest = c
    BY <1>3 DEF Begun
  <2> HIDE DEF a, b, c
  <2>2. a \o (rest \o d) = c \o d
    <3>1. (a \o rest) \o d = a \o (rest \o d)
      <4>1. a \in Seq(ByteSet) /\ rest \in Seq(ByteSet) /\ d \in Seq(ByteSet)
        BY <1>1, <2>1
      <4> QED
        BY ONLY <4>1, RegroupBytes, Zenon
    <3> QED
      BY <2>1, <3>1
  <2>3. rest \o d \in Seq(ByteSet)
    BY <2>1, BytesJoin, Zenon
  <2> QED
    BY <1>2, <2>2, <2>3, Zenon DEF Begun, a, c
<1>4. ASSUME Whole(all, waiting, writing, wire, taken)
      PROVE  Whole(Append(all, d), Append(waiting, d), writing, wire, taken)
  <2>1. (a \o writing) \o b = c
    BY <1>4 DEF Whole
  <2> HIDE DEF a, b, c
  <2>2. (a \o writing) \o (b \o d) = c \o d
    <3>1. ((a \o writing) \o b) \o d = (a \o writing) \o (b \o d)
      BY <1>1, RegroupBytes, Zenon
    <3> QED
      BY <2>1, <3>1
  <2> QED
    BY <1>2, <2>2 DEF Whole, a
<1>5. /\ FlowType(Append(all, d), Append(waiting, d), writing, wire, taken)
      /\ FlowType(Append(all, d), waiting, writing, wire, taken)
  BY <1>2 DEF FlowType
<1> QED
  BY <1>3, <1>4, <1>5

(* The writer takes the first of what waits.                               *)
LEMMA FirstIsTaken ==
  ASSUME NEW all, NEW waiting, NEW wire, NEW taken, waiting # <<>>,
         FlowType(all, waiting, <<>>, wire, taken)
  PROVE  /\ FlowType(all, Tail(waiting), Head(waiting), wire, taken)
         /\ Whole(all, waiting, <<>>, wire, taken) =>
              Whole(all, Tail(waiting), Head(waiting), wire, taken)
<1> DEFINE a == FlattenSeq(taken) \o wire
           h == Head(waiting)
           t == FlattenSeq(Tail(waiting))
<1>1. waiting \in Seq(Seq(ByteSet)) /\ taken \in Seq(Seq(ByteSet)) /\ wire \in Seq(ByteSet)
  BY DEF FlowType
<1>2. h \in Seq(ByteSet) /\ Tail(waiting) \in Seq(Seq(ByteSet))
  BY <1>1
<1>3. a \in Seq(ByteSet) /\ t \in Seq(ByteSet)
  BY <1>1, <1>2, FlattenBytes, BytesJoin
<1>4. FlattenSeq(waiting) = h \o t
  BY <1>1, FlattenHead
<1>5. FlowType(all, Tail(waiting), h, wire, taken)
  BY <1>2 DEF FlowType
<1>6. ASSUME Whole(all, waiting, <<>>, wire, taken)
      PROVE  Whole(all, Tail(waiting), h, wire, taken)
  <2>1. (a \o <<>>) \o (h \o t) = FlattenSeq(all)
    BY <1>4, <1>6 DEF Whole
  <2> HIDE DEF a, h, t
  <2>2. (a \o h) \o t = FlattenSeq(all)
    <3>1. a \o <<>> = a
      BY <1>3, BytesJoin
    <3>2. (a \o h) \o t = a \o (h \o t)
      BY <1>2, <1>3, RegroupBytes, Zenon
    <3> QED
      BY <2>1, <3>1, <3>2
  <2> QED
    BY <2>2 DEF Whole, a, t
<1> QED
  BY <1>5, <1>6

LEMMA BytesMove == \A b, c \in Seq(ByteSet) : \A n \in 0 .. Len(c) : Moves(b, c, n, ByteSet)
  BY PieceMoves

IsCut(bytes, piece, rest) ==
  \E n \in 0 .. Len(bytes) :
    piece = SubSeq(bytes, 1, n) /\ rest = SubSeq(bytes, n + 1, Len(bytes))

(* A write takes some bytes.                                               *)
LEMMA SomeAreWritten ==
  ASSUME NEW all, NEW waiting, NEW writing, NEW wire, NEW taken, NEW piece, NEW more, NEW rest,
         FlowType(all, waiting, writing, wire, taken), IsCut(writing, piece, rest),
         more = wire \o piece
  PROVE  /\ FlowType(all, waiting, rest, more, taken)
         /\ Whole(all, waiting, writing, wire, taken) =>
              Whole(all, waiting, rest, more, taken)
<1> DEFINE a == FlattenSeq(taken)
<1>1. a \in Seq(ByteSet) /\ wire \in Seq(ByteSet) /\ writing \in Seq(ByteSet)
  BY FlattenBytes DEF FlowType
<1>0. PICK n \in 0 .. Len(writing) :
        piece = SubSeq(writing, 1, n) /\ rest = SubSeq(writing, n + 1, Len(writing))
  BY DEF IsCut
<1>2. Moves(wire, writing, n, ByteSet)
  BY <1>1, BytesMove, Zenon
<1>3. more \in Seq(ByteSet) /\ rest \in Seq(ByteSet) /\ more \o rest = wire \o writing
  BY <1>0, <1>2 DEF Moves
<1> HIDE DEF a
<1>4. (a \o more) \o rest = (a \o wire) \o writing
  <2>1. (a \o more) \o rest = a \o (more \o rest)
    BY <1>1, <1>3, RegroupBytes, Zenon
  <2>2. (a \o wire) \o writing = a \o (wire \o writing)
    BY <1>1, RegroupBytes, Zenon
  <2> QED
    BY <1>3, <2>1, <2>2
<1>5. FlowType(all, waiting, rest, more, taken)
  BY <1>3 DEF FlowType
<1> QED
  BY <1>4, <1>5 DEF Whole, a

Same(taken, wire, takenAfter, wireAfter) ==
  FlattenSeq(takenAfter) \o wireAfter = FlattenSeq(taken) \o wire

(* The receiver takes a piece, maybe an empty one.                         *)
LEMMA PieceIsTaken ==
  ASSUME NEW all, NEW waiting, NEW writing, NEW wire, NEW taken, NEW piece, NEW rest,
         FlowType(all, waiting, writing, wire, taken), IsCut(wire, piece, rest)
  PROVE  /\ FlowType(all, waiting, writing, rest, Append(taken, piece))
         /\ Same(taken, wire, Append(taken, piece), rest)
<1> DEFINE a == FlattenSeq(taken)
<1>1. a \in Seq(ByteSet) /\ wire \in Seq(ByteSet) /\ taken \in Seq(Seq(ByteSet))
  BY FlattenBytes DEF FlowType
<1>0. PICK n \in 0 .. Len(wire) :
        piece = SubSeq(wire, 1, n) /\ rest = SubSeq(wire, n + 1, Len(wire))
  BY DEF IsCut
<1>2. piece \in Seq(ByteSet) /\ rest \in Seq(ByteSet) /\ piece \o rest = wire
  BY <1>0, <1>1, CutAndJoined
<1>3. /\ FlattenSeq(Append(taken, piece)) = a \o piece
      /\ Append(taken, piece) \in Seq(Seq(ByteSet))
  BY <1>1, <1>2, FlattenBytes
<1> HIDE DEF a
<1>4. (a \o piece) \o rest = a \o wire
  <2>1. (a \o piece) \o rest = a \o (piece \o rest)
    BY <1>1, <1>2, RegroupBytes, Zenon
  <2> QED
    BY <1>2, <2>1
<1>5. FlowType(all, waiting, writing, rest, Append(taken, piece))
  BY <1>2, <1>3 DEF FlowType
<1> QED
  BY <1>3, <1>4, <1>5 DEF a, Same

(* The connection loses what is in it.                                     *)
LEMMA WireIsLost ==
  ASSUME NEW all, NEW waiting, NEW writing, NEW wire, NEW taken,
         FlowType(all, waiting, writing, wire, taken)
  PROVE  /\ FlowType(all, waiting, writing, <<>>, taken)
         /\ Begun(all, wire, taken) => Begun(all, <<>>, taken)
<1> DEFINE a == FlattenSeq(taken)
           c == FlattenSeq(all)
<1>1. a \in Seq(ByteSet) /\ wire \in Seq(ByteSet)
  BY FlattenBytes DEF FlowType
<1>2. FlowType(all, waiting, writing, <<>>, taken)
  BY DEF FlowType
<1>3. ASSUME Begun(all, wire, taken) PROVE Begun(all, <<>>, taken)
  <2>1. PICK rest : rest \in Seq(ByteSet) /\ (a \o wire) \o rest = c
    BY <1>3 DEF Begun
  <2> HIDE DEF a, c
  <2>2. a \o (wire \o rest) = c
    <3>1. (a \o wire) \o rest = a \o (wire \o rest)
      BY <1>1, <2>1, RegroupBytes, Zenon
    <3> QED
      BY <2>1, <3>1
  <2>3. wire \o rest \in Seq(ByteSet)
    BY <1>1, <2>1, BytesJoin, Zenon
  <2>4. a \o <<>> = a
    BY <1>1, BytesJoin
  <2> QED
    BY <2>2, <2>3, <2>4, Zenon DEF Begun, a, c
<1> QED
  BY <1>2, <1>3

LEMMA BegunIsPrefix ==
  ASSUME NEW all, NEW waiting, NEW writing, NEW wire, NEW taken,
         FlowType(all, waiting, writing, wire, taken), Begun(all, wire, taken)
  PROVE  IsPrefix(FlattenSeq(taken), FlattenSeq(all))
<1> DEFINE a == FlattenSeq(taken)
           c == FlattenSeq(all)
<1>1. a \in Seq(ByteSet) /\ wire \in Seq(ByteSet)
  BY FlattenBytes DEF FlowType
<1>2. PICK rest : rest \in Seq(ByteSet) /\ (a \o wire) \o rest = c
  BY DEF Begun
<1> HIDE DEF a, c
<1>3. PICK s : s \in Seq(ByteSet) /\ a \o s = c
  <2>1. a \o (wire \o rest) = c
    <3>1. (a \o wire) \o rest = a \o (wire \o rest)
      BY <1>1, <1>2, RegroupBytes, Zenon
    <3> QED
      BY <1>2, <3>1
  <2>2. wire \o rest \in Seq(ByteSet)
    BY <1>1, <1>2, BytesJoin, Zenon
  <2> QED
    BY <2>1, <2>2
<1>4. Len(a) <= Len(a \o s) /\ SubSeq(a, 1, Len(a)) = a /\ SubSeq(a \o s, 1, Len(a)) = a
  BY <1>1, <1>3
<1> QED
  BY <1>3, <1>4 DEF IsPrefix, a, c

-----------------------------------------------------------------------------
(* The datagrams.                                                          *)

LEMMA Sizes ==
  /\ Lengths \subseteq Nat /\ Chunk \in Nat \ {0} /\ Largest \in Nat
  /\ Faults \in BOOLEAN
  BY RelayAssumption

LEMMA SmallerOfTwo ==
  ASSUME NEW m \in Nat, NEW n \in Nat
  PROVE  Min({m, n}) \in Nat /\ Min({m, n}) <= m /\ Min({m, n}) <= n
<1>1. \E x \in {m, n} : \A y \in {m, n} : x =< y
  OBVIOUS
<1>2. PICK x : x = Min({m, n}) /\ x \in {m, n} /\ \A y \in {m, n} : x =< y
  BY <1>1 DEF Min
<1> QED
  BY <1>2

LEMMA BytesType ==
  ASSUME NEW d \in Nat, NEW length \in Nat PROVE Bytes(d, length) \in Seq(ByteSet)
<1>1. PICK n : n \in Nat /\ n = Min({length, Largest})
  BY Sizes, SmallerOfTwo
<1>2. [i \in 1 .. n |-> <<d, i>>] \in Seq(ByteSet)
  <2> DEFINE f == [i \in 1 .. n |-> <<d, i>>]
  <2>1. \A i \in 1 .. n : <<d, i>> \in ByteSet
    BY <1>1 DEF ByteSet
  <2>2. f \in [1 .. n -> ByteSet] /\ n \in Nat
    BY <1>1, <2>1
  <2> HIDE DEF f
  <2>3. f \in Seq(ByteSet)
    BY ONLY <2>2, SeqDef
  <2> QED
    BY <2>3 DEF f
<1> QED
  BY <1>1, <1>2 DEF Bytes

LEMMA DatagramsType ==
  ASSUME NEW lengths \in Seq(Nat) PROVE Datagrams(lengths) \in Seq(Seq(ByteSet))
<1>1. \A d \in DOMAIN lengths : Bytes(d, lengths[d]) \in Seq(ByteSet)
  <2>1. \A d \in DOMAIN lengths : d \in Nat /\ lengths[d] \in Nat
    OBVIOUS
  <2> QED
    BY <2>1, BytesType
<1> QED
  BY <1>1 DEF Datagrams

LEMMA DatagramsAppend ==
  ASSUME NEW lengths \in Seq(Nat), NEW n \in Nat
  PROVE  /\ Datagrams(Append(lengths, n))
              = Append(Datagrams(lengths), Bytes(Len(lengths) + 1, n))
         /\ Bytes(Len(lengths) + 1, n) \in Seq(ByteSet)
         /\ Append(lengths, n) \in Seq(Nat) /\ Len(Append(lengths, n)) = Len(lengths) + 1
<1>1. Bytes(Len(lengths) + 1, n) \in Seq(ByteSet)
  BY BytesType
<1>2. Append(lengths, n) \in Seq(Nat) /\ Len(Append(lengths, n)) = Len(lengths) + 1
  OBVIOUS
<1>3. Datagrams(Append(lengths, n))
        = Append(Datagrams(lengths), Bytes(Len(lengths) + 1, n))
  BY DEF Datagrams
<1> QED
  BY <1>1, <1>2, <1>3

-----------------------------------------------------------------------------
(* The invariant.                                                          *)

RelayTypes ==
  /\ server \in {"select", "write", "quiet", "ended"}
  /\ client \in {"select", "write", "ended"}
  /\ reset \in BOOLEAN
  /\ sent \in Seq(Nat) /\ answered \in Seq(Nat)

Working == ~Gone(server) /\ ~Gone(client) /\ ~reset

(* A copy that does not write has nothing left over to write.              *)
Forward ==
  /\ FlowType(Datagrams(sent), inbox, outgoing, up, served)
  /\ Begun(Datagrams(sent), up, served)
  /\ Working => Whole(Datagrams(sent), inbox, outgoing, up, served)
  /\ server # "write" => outgoing = <<>>

Backward ==
  /\ FlowType(Datagrams(answered), answers, reply, down, returned)
  /\ Begun(Datagrams(answered), down, returned)
  /\ Working => Whole(Datagrams(answered), answers, reply, down, returned)
  /\ client # "write" => reply = <<>>

(* The inductive invariant.                                                *)
RelayInv == RelayTypes /\ Forward /\ Backward

LEMMA FlowBegins ==
  ASSUME NEW ds \in Seq(Seq(ByteSet))
  PROVE  FlowType(ds, ds, <<>>, <<>>, <<>>) /\ Whole(ds, ds, <<>>, <<>>, <<>>)
<1>1. FlowType(ds, ds, <<>>, <<>>, <<>>)
  BY DEF FlowType
<1>2. FlattenSeq(ds) \in Seq(ByteSet)
  BY FlattenBytes
<1>3. ((<<>> \o <<>>) \o <<>>) \o FlattenSeq(ds) = FlattenSeq(ds)
  BY <1>2
<1> QED
  BY <1>1, <1>3, FlattenEmpty DEF Whole

LEMMA InitRelay == Init => RelayInv
<1> SUFFICES ASSUME Init PROVE RelayInv
  OBVIOUS
<1>1. RelayTypes
  <2>1. PICK n \in Nat : sent = <<n>>
    BY Sizes DEF Init
  <2>2. sent \in Seq(Nat) /\ answered \in Seq(Nat)
    BY <2>1 DEF Init
  <2> QED
    BY <2>2 DEF Init, RelayTypes
<1>2. Datagrams(sent) = inbox
  <2>1. PICK n \in Lengths : sent = <<n>>
    BY DEF Init
  <2> QED
    BY <2>1 DEF Init, Datagrams
<1>3. Datagrams(answered) = answers
  BY DEF Init, Datagrams
<1>4. inbox \in Seq(Seq(ByteSet)) /\ answers \in Seq(Seq(ByteSet))
  BY <1>1, <1>2, <1>3, DatagramsType DEF RelayTypes
<1>5. Forward
  <2>1. /\ FlowType(Datagrams(sent), inbox, outgoing, up, served)
        /\ Whole(Datagrams(sent), inbox, outgoing, up, served)
    BY <1>2, <1>4, FlowBegins DEF Init
  <2> QED
    BY <2>1, WholeIsBegun DEF Forward, Init
<1>6. Backward
  <2>1. /\ FlowType(Datagrams(answered), answers, reply, down, returned)
        /\ Whole(Datagrams(answered), answers, reply, down, returned)
    BY <1>3, <1>4, FlowBegins DEF Init
  <2> QED
    BY <2>1, WholeIsBegun DEF Backward, Init
<1> QED
  BY <1>1, <1>5, <1>6 DEF RelayInv

(* Steps that leave a flow alone, or lose of it what is on its way.        *)
LEMMA ForwardUntouched ==
  ASSUME Forward, UNCHANGED <<sent, inbox, outgoing, up, served>>,
         Working' => Working, server' # "write" => outgoing = <<>>
  PROVE  Forward'
BY DEF Forward

LEMMA BackwardUntouched ==
  ASSUME Backward, UNCHANGED <<answered, answers, reply, down, returned>>,
         Working' => Working, client' # "write" => reply = <<>>
  PROVE  Backward'
BY DEF Backward

LEMMA ForwardLost ==
  ASSUME Forward, ~Working', UNCHANGED <<sent, served>>, up' \in {up, <<>>},
         \/ UNCHANGED <<inbox, outgoing, server>>
         \/ inbox' = <<>> /\ outgoing' = <<>>
  PROVE  Forward'
<1>1. FlowType(Datagrams(sent), inbox, outgoing, up', served)
      /\ Begun(Datagrams(sent), up', served)
  <2>1. CASE up' = up
    BY <2>1 DEF Forward
  <2>2. CASE up' = <<>>
    BY <2>2, WireIsLost DEF Forward
  <2> QED
    BY <2>1, <2>2
<1>2. FlowType(Datagrams(sent), <<>>, <<>>, up', served)
  BY <1>1 DEF FlowType
<1> QED
  BY <1>1, <1>2 DEF Forward

LEMMA BackwardLost ==
  ASSUME Backward, ~Working', UNCHANGED <<answered, returned>>, down' \in {down, <<>>},
         \/ UNCHANGED <<answers, reply, client>>
         \/ answers' = <<>> /\ reply' = <<>>
  PROVE  Backward'
<1>1. FlowType(Datagrams(answered), answers, reply, down', returned)
      /\ Begun(Datagrams(answered), down', returned)
  <2>1. CASE down' = down
    BY <2>1 DEF Backward
  <2>2. CASE down' = <<>>
    BY <2>2, WireIsLost DEF Backward
  <2> QED
    BY <2>1, <2>2
<1>2. FlowType(Datagrams(answered), <<>>, <<>>, down', returned)
  BY <1>1 DEF FlowType
<1> QED
  BY <1>1, <1>2 DEF Backward

-----------------------------------------------------------------------------
(* The visitor, the service and the network.                               *)

LEMMA SendStep == ASSUME RelayInv, NEW n \in Lengths, Send(n) PROVE RelayInv'
<1>1. /\ sent' = Append(sent, n) /\ inbox' = Append(inbox, Bytes(Len(sent'), n))
      /\ UNCHANGED <<answered, answers, server, client, outgoing, reply, up, down,
                     reset, served, returned>>
  BY DEF Send
<1>2. PICK d : /\ d = Bytes(Len(sent'), n) /\ d \in Seq(ByteSet)
               /\ Datagrams(sent') = Append(Datagrams(sent), d) /\ sent' \in Seq(Nat)
  BY <1>1, Sizes, DatagramsAppend DEF RelayInv, RelayTypes
<1>3. Forward'
  <2>1. /\ FlowType(Datagrams(sent), inbox, outgoing, up, served)
        /\ Begun(Datagrams(sent), up, served)
        /\ Working => Whole(Datagrams(sent), inbox, outgoing, up, served)
    BY DEF RelayInv, Forward
  <2>2. /\ FlowType(Datagrams(sent'), inbox', outgoing, up, served)
        /\ Begun(Datagrams(sent'), up, served)
        /\ Working => Whole(Datagrams(sent'), inbox', outgoing, up, served)
    BY <1>1, <1>2, <2>1, MoreComes
  <2>3. Working' => Working
    BY <1>1 DEF Working, Gone
  <2> QED
    BY <1>1, <2>2, <2>3 DEF RelayInv, Forward
<1>4. Backward'
  BY <1>1, BackwardUntouched DEF RelayInv, Backward, Working, Gone
<1> QED
  BY <1>1, <1>2, <1>3, <1>4 DEF RelayInv, RelayTypes

LEMMA AnswerStep == ASSUME RelayInv, NEW n \in Lengths, Answer(n) PROVE RelayInv'
<1>1. /\ answered' = Append(answered, n)
      /\ answers' = Append(answers, Bytes(Len(answered'), n))
      /\ UNCHANGED <<sent, inbox, server, client, outgoing, reply, up, down,
                     reset, served, returned>>
  BY DEF Answer
<1>2. PICK d : /\ d = Bytes(Len(answered'), n) /\ d \in Seq(ByteSet)
               /\ Datagrams(answered') = Append(Datagrams(answered), d)
               /\ answered' \in Seq(Nat)
  BY <1>1, Sizes, DatagramsAppend DEF RelayInv, RelayTypes
<1>3. Backward'
  <2>1. /\ FlowType(Datagrams(answered), answers, reply, down, returned)
        /\ Begun(Datagrams(answered), down, returned)
        /\ Working => Whole(Datagrams(answered), answers, reply, down, returned)
    BY DEF RelayInv, Backward
  <2>2. /\ FlowType(Datagrams(answered'), answers', reply, down, returned)
        /\ Begun(Datagrams(answered'), down, returned)
        /\ Working => Whole(Datagrams(answered'), answers', reply, down, returned)
    BY <1>1, <1>2, <2>1, MoreComes
  <2>3. Working' => Working
    BY <1>1 DEF Working, Gone
  <2> QED
    BY <1>1, <2>2, <2>3 DEF RelayInv, Backward
<1>4. Forward'
  BY <1>1, ForwardUntouched DEF RelayInv, Forward, Working, Gone
<1> QED
  BY <1>1, <1>2, <1>3, <1>4 DEF RelayInv, RelayTypes

LEMMA BreakStep == ASSUME RelayInv, Break PROVE RelayInv'
<1>1. /\ reset' = TRUE /\ up' = <<>> /\ down' = <<>>
      /\ UNCHANGED <<sent, answered, inbox, answers, server, client, outgoing,
                     reply, served, returned>>
  BY DEF Break
<1>2. ~Working'
  BY <1>1 DEF Working
<1>3. Forward'
  BY <1>1, <1>2, ForwardLost DEF RelayInv
<1>4. Backward'
  BY <1>1, <1>2, BackwardLost DEF RelayInv
<1> QED
  BY <1>1, <1>3, <1>4 DEF RelayInv, RelayTypes

-----------------------------------------------------------------------------
(* The ends of the copies.                                                 *)

LEMMA ServerEndsStep ==
  ASSUME RelayInv, NEW how \in {"quiet", "ended"}, ServerEnds(how) PROVE RelayInv'
<1>1. /\ server' = how /\ inbox' = <<>> /\ outgoing' = <<>> /\ down' = <<>>
      /\ reset' \in BOOLEAN /\ up' \in {up, <<>>}
      /\ UNCHANGED <<sent, answered, answers, client, reply, served, returned>>
  BY DEF ServerEnds, RelayInv, RelayTypes
<1>2. ~Working'
  BY <1>1 DEF Working, Gone
<1>3. Forward'
  BY <1>1, <1>2, ForwardLost DEF RelayInv
<1>4. Backward'
  BY <1>1, <1>2, BackwardLost DEF RelayInv
<1> QED
  BY <1>1, <1>3, <1>4 DEF RelayInv, RelayTypes

LEMMA ClientEndsStep == ASSUME RelayInv, ClientEnds PROVE RelayInv'
<1>1. /\ client' = "ended" /\ answers' = <<>> /\ reply' = <<>> /\ up' = <<>>
      /\ reset' \in BOOLEAN /\ down' \in {down, <<>>}
      /\ UNCHANGED <<sent, answered, inbox, server, outgoing, served, returned>>
  BY DEF ClientEnds, RelayInv, RelayTypes
<1>2. ~Working'
  BY <1>1 DEF Working, Gone
<1>3. Forward'
  BY <1>1, <1>2, ForwardLost DEF RelayInv
<1>4. Backward'
  BY <1>1, <1>2, BackwardLost DEF RelayInv
<1> QED
  BY <1>1, <1>3, <1>4 DEF RelayInv, RelayTypes

-----------------------------------------------------------------------------
(* The steps of the server's copy.                                         *)

LEMMA ServerReadsStep ==
  ASSUME RelayInv, ServerReads \/ ServerReadsNothing PROVE RelayInv'
<1>1. UNCHANGED <<sent, answered, inbox, answers, server, client, outgoing,
                  reply, up, reset, served>>
  BY DEF ServerReads, ServerReadsNothing
<1>2. FlowType(Datagrams(answered), answers, reply, down, returned)
  BY DEF RelayInv, Backward
<1>3. PICK piece : IsCut(down, piece, down') /\ returned' = Append(returned, piece)
  <2>0. down \in Seq(ByteSet)
    BY <1>2 DEF FlowType
  <2>1. CASE ServerReads
    <3>1. PICK n \in 1 .. Min({Chunk, Len(down)}) :
            /\ returned' = Append(returned, SubSeq(down, 1, n))
            /\ down' = Rest(down, Len(SubSeq(down, 1, n)))
      BY <2>1 DEF ServerReads, Pieces
    <3>2. n \in 0 .. Len(down)
      BY <2>0, Sizes, SmallerOfTwo
    <3>3. Len(SubSeq(down, 1, n)) = n
      BY <2>0, <3>2, CutAndJoined
    <3> QED
      BY <3>1, <3>2, <3>3 DEF Rest, IsCut
  <2>2. CASE ServerReadsNothing
    <3>1. returned' = Append(returned, <<>>) /\ down' = down /\ down = <<>>
      BY <2>2 DEF ServerReadsNothing, AtEnd
    <3>2. SubSeq(down, 1, 0) = <<>> /\ SubSeq(down, 0 + 1, Len(down)) = down /\ 0 \in 0 .. Len(down)
      BY <3>1
    <3> QED
      BY <3>1, <3>2 DEF IsCut
  <2> QED
    BY <2>1, <2>2
<1>4. /\ FlowType(Datagrams(answered), answers, reply, down', returned')
      /\ Same(returned, down, returned', down')
  BY <1>2, <1>3, PieceIsTaken
<1>5. Working' => Working
  BY <1>1 DEF Working, Gone
<1>6. Backward'
  BY <1>1, <1>4, <1>5 DEF RelayInv, Backward, Begun, Whole, Same
<1>7. Forward'
  BY <1>1, <1>5, ForwardUntouched DEF RelayInv, Forward
<1> QED
  BY <1>1, <1>6, <1>7 DEF RelayInv, RelayTypes

LEMMA ServerTakesStep == ASSUME RelayInv, ServerTakes PROVE RelayInv'
<1>1. /\ server = "select" /\ inbox # <<>> /\ inbox' = Tail(inbox)
      /\ outgoing' = Head(inbox) /\ server' \in {"select", "write"}
      /\ server' # "write" => outgoing' = <<>>
      /\ UNCHANGED <<sent, answered, answers, client, reply, up, down, reset,
                     served, returned>>
  BY DEF ServerTakes
<1>2. /\ outgoing = <<>> /\ Begun(Datagrams(sent), up, served)
      /\ FlowType(Datagrams(sent), inbox, <<>>, up, served)
      /\ Working => Whole(Datagrams(sent), inbox, <<>>, up, served)
  BY <1>1 DEF RelayInv, Forward
<1>3. /\ FlowType(Datagrams(sent), inbox', outgoing', up, served)
      /\ Working => Whole(Datagrams(sent), inbox', outgoing', up, served)
  BY <1>1, <1>2, FirstIsTaken
<1>4. Working' => Working
  BY <1>1 DEF Working, Gone
<1>5. Forward'
  BY <1>1, <1>2, <1>3, <1>4 DEF Forward
<1>6. Backward'
  BY <1>1, <1>4, BackwardUntouched DEF RelayInv, Backward
<1> QED
  BY <1>1, <1>5, <1>6 DEF RelayInv, RelayTypes

LEMMA ServerWritesStep == ASSUME RelayInv, ServerWrites PROVE RelayInv'
<1>1. /\ server = "write" /\ ~reset /\ reset' = Gone(client)
      /\ down' = IF reset' THEN <<>> ELSE down
      /\ server' \in {"select", "write"} /\ (server' # "write" => outgoing' = <<>>)
      /\ UNCHANGED <<sent, answered, inbox, answers, client, reply, served, returned>>
  BY DEF ServerWrites
<1>2. PICK n \in 1 .. Len(outgoing) :
        /\ outgoing' = SubSeq(outgoing, n + 1, Len(outgoing))
        /\ up' = IF Gone(client) THEN up ELSE up \o SubSeq(outgoing, 1, n)
  BY DEF ServerWrites, Rest
<1>3. /\ FlowType(Datagrams(sent), inbox, outgoing, up, served)
      /\ Begun(Datagrams(sent), up, served)
      /\ Working => Whole(Datagrams(sent), inbox, outgoing, up, served)
      /\ n \in 0 .. Len(outgoing)
  BY DEF RelayInv, Forward
<1>4. CASE Gone(client)
  <2>1. ~Working' /\ up' = up /\ reset' = TRUE /\ down' = <<>>
    BY <1>1, <1>2, <1>4 DEF Working, Gone
  <2>2. FlowType(Datagrams(sent), inbox, outgoing', up, served)
    <3>1. outgoing \in Seq(ByteSet)
      BY <1>3 DEF FlowType
    <3>2. outgoing' \in Seq(ByteSet)
      BY <1>2, <1>3, <3>1, CutAndJoined
    <3> QED
      BY <1>3, <3>2 DEF FlowType
  <2>3. Forward'
    BY <1>1, <1>3, <2>1, <2>2 DEF Forward
  <2>4. Backward'
    BY <1>1, <2>1, BackwardLost DEF RelayInv
  <2> QED
    BY <1>1, <2>1, <2>3, <2>4 DEF RelayInv, RelayTypes
<1>5. CASE ~Gone(client)
  <2>1. /\ Working /\ ~reset' /\ reset' \in BOOLEAN /\ down' = down
        /\ up' = up \o SubSeq(outgoing, 1, n)
    <3>1. ~Gone(server) /\ ~reset
      BY <1>1 DEF Gone
    <3>2. Working
      BY <1>5, <3>1 DEF Working
    <3>3. ~reset' /\ reset' \in BOOLEAN
      <4>1. Gone(client) = FALSE
        BY <1>5
      <4>2. reset' = Gone(client)
        BY <1>1
      <4>3. reset' = FALSE
        BY <4>1, <4>2, Zenon
      <4> QED
        BY <4>3
    <3> QED
      BY <1>1, <1>2, <1>5, <3>2, <3>3
  <2>2. /\ FlowType(Datagrams(sent), inbox, outgoing', up', served)
        /\ Whole(Datagrams(sent), inbox, outgoing', up', served)
    <3>1. PICK piece : IsCut(outgoing, piece, outgoing') /\ up' = up \o piece
      BY <1>2, <1>3, <2>1 DEF IsCut
    <3> QED
      BY <1>3, <2>1, <3>1, SomeAreWritten
  <2>3. Begun(Datagrams(sent), up', served)
    BY <2>2, WholeIsBegun
  <2>4. Forward'
    BY <1>1, <2>2, <2>3 DEF Forward
  <2>5. Backward'
    BY <1>1, <2>1, BackwardUntouched DEF RelayInv, Backward
  <2> QED
    BY <1>1, <2>1, <2>4, <2>5 DEF RelayInv, RelayTypes
<1> QED
  BY <1>4, <1>5

-----------------------------------------------------------------------------
(* The steps of the client's copy.                                         *)

LEMMA ClientReadsStep ==
  ASSUME RelayInv, ClientReads \/ ClientReadsNothing PROVE RelayInv'
<1>1. UNCHANGED <<sent, answered, inbox, answers, server, client, outgoing,
                  reply, down, reset, returned>>
  BY DEF ClientReads, ClientReadsNothing
<1>2. FlowType(Datagrams(sent), inbox, outgoing, up, served)
  BY DEF RelayInv, Forward
<1>3. PICK piece : IsCut(up, piece, up') /\ served' = Append(served, piece)
  <2>0. up \in Seq(ByteSet)
    BY <1>2 DEF FlowType
  <2>1. CASE ClientReads
    <3>1. PICK n \in 1 .. Min({Chunk, Len(up)}) :
            /\ served' = Append(served, SubSeq(up, 1, n))
            /\ up' = Rest(up, Len(SubSeq(up, 1, n)))
      BY <2>1 DEF ClientReads, Pieces
    <3>2. n \in 0 .. Len(up)
      BY <2>0, Sizes, SmallerOfTwo
    <3>3. Len(SubSeq(up, 1, n)) = n
      BY <2>0, <3>2, CutAndJoined
    <3> QED
      BY <3>1, <3>2, <3>3 DEF Rest, IsCut
  <2>2. CASE ClientReadsNothing
    <3>1. served' = Append(served, <<>>) /\ up' = up
      BY <2>2 DEF ClientReadsNothing
    <3>2. SubSeq(up, 1, 0) = <<>> /\ SubSeq(up, 0 + 1, Len(up)) = up /\ 0 \in 0 .. Len(up)
      BY <2>0
    <3> QED
      BY <3>1, <3>2 DEF IsCut
  <2> QED
    BY <2>1, <2>2
<1>4. /\ FlowType(Datagrams(sent), inbox, outgoing, up', served')
      /\ Same(served, up, served', up')
  BY <1>2, <1>3, PieceIsTaken
<1>5. Working' => Working
  BY <1>1 DEF Working, Gone
<1>6. Forward'
  BY <1>1, <1>4, <1>5 DEF RelayInv, Forward, Begun, Whole, Same
<1>7. Backward'
  BY <1>1, <1>5, BackwardUntouched DEF RelayInv, Backward
<1> QED
  BY <1>1, <1>6, <1>7 DEF RelayInv, RelayTypes

LEMMA ClientTakesStep == ASSUME RelayInv, ClientTakes PROVE RelayInv'
<1>1. /\ client = "select" /\ answers # <<>> /\ answers' = Tail(answers)
      /\ reply' = Head(answers) /\ client' \in {"select", "write"}
      /\ client' # "write" => reply' = <<>>
      /\ UNCHANGED <<sent, answered, inbox, server, outgoing, up, down, reset,
                     served, returned>>
  BY DEF ClientTakes
<1>2. /\ reply = <<>> /\ Begun(Datagrams(answered), down, returned)
      /\ FlowType(Datagrams(answered), answers, <<>>, down, returned)
      /\ Working => Whole(Datagrams(answered), answers, <<>>, down, returned)
  BY <1>1 DEF RelayInv, Backward
<1>3. /\ FlowType(Datagrams(answered), answers', reply', down, returned)
      /\ Working => Whole(Datagrams(answered), answers', reply', down, returned)
  BY <1>1, <1>2, FirstIsTaken
<1>4. Working' => Working
  BY <1>1 DEF Working, Gone
<1>5. Backward'
  BY <1>1, <1>2, <1>3, <1>4 DEF Backward
<1>6. Forward'
  BY <1>1, <1>4, ForwardUntouched DEF RelayInv, Forward
<1> QED
  BY <1>1, <1>5, <1>6 DEF RelayInv, RelayTypes

LEMMA ClientWritesStep == ASSUME RelayInv, ClientWrites PROVE RelayInv'
<1>1. /\ client = "write" /\ ~reset /\ reset' = Gone(server)
      /\ up' = IF reset' THEN <<>> ELSE up
      /\ client' \in {"select", "write"} /\ (client' # "write" => reply' = <<>>)
      /\ UNCHANGED <<sent, answered, inbox, answers, server, outgoing, served, returned>>
  BY DEF ClientWrites
<1>2. PICK n \in 1 .. Len(reply) :
        /\ reply' = SubSeq(reply, n + 1, Len(reply))
        /\ down' = IF Gone(server) THEN down ELSE down \o SubSeq(reply, 1, n)
  BY DEF ClientWrites, Rest
<1>3. /\ FlowType(Datagrams(answered), answers, reply, down, returned)
      /\ Begun(Datagrams(answered), down, returned)
      /\ Working => Whole(Datagrams(answered), answers, reply, down, returned)
      /\ n \in 0 .. Len(reply)
  BY DEF RelayInv, Backward
<1>4. CASE Gone(server)
  <2>1. ~Working' /\ down' = down /\ reset' = TRUE /\ up' = <<>>
    BY <1>1, <1>2, <1>4 DEF Working, Gone
  <2>2. FlowType(Datagrams(answered), answers, reply', down, returned)
    <3>1. reply \in Seq(ByteSet)
      BY <1>3 DEF FlowType
    <3>2. reply' \in Seq(ByteSet)
      BY <1>2, <1>3, <3>1, CutAndJoined
    <3> QED
      BY <1>3, <3>2 DEF FlowType
  <2>3. Backward'
    BY <1>1, <1>3, <2>1, <2>2 DEF Backward
  <2>4. Forward'
    BY <1>1, <2>1, ForwardLost DEF RelayInv
  <2> QED
    BY <1>1, <2>1, <2>3, <2>4 DEF RelayInv, RelayTypes
<1>5. CASE ~Gone(server)
  <2>1. /\ Working /\ ~reset' /\ reset' \in BOOLEAN /\ up' = up
        /\ down' = down \o SubSeq(reply, 1, n)
    <3>1. ~Gone(client) /\ ~reset
      BY <1>1 DEF Gone
    <3>2. Working
      BY <1>5, <3>1 DEF Working
    <3>3. ~reset' /\ reset' \in BOOLEAN
      <4>1. Gone(server) = FALSE
        BY <1>5
      <4>2. reset' = Gone(server)
        BY <1>1
      <4>3. reset' = FALSE
        BY <4>1, <4>2, Zenon
      <4> QED
        BY <4>3
    <3> QED
      BY <1>1, <1>2, <1>5, <3>2, <3>3
  <2>2. /\ FlowType(Datagrams(answered), answers, reply', down', returned)
        /\ Whole(Datagrams(answered), answers, reply', down', returned)
    <3>1. PICK piece : IsCut(reply, piece, reply') /\ down' = down \o piece
      BY <1>2, <1>3, <2>1 DEF IsCut
    <3> QED
      BY <1>3, <2>1, <3>1, SomeAreWritten
  <2>3. Begun(Datagrams(answered), down', returned)
    BY <2>2, WholeIsBegun
  <2>4. Backward'
    BY <1>1, <2>2, <2>3 DEF Backward
  <2>5. Forward'
    BY <1>1, <2>1, ForwardUntouched DEF RelayInv, Forward
  <2> QED
    BY <1>1, <2>1, <2>4, <2>5 DEF RelayInv, RelayTypes
<1> QED
  BY <1>4, <1>5

-----------------------------------------------------------------------------
(* The result.                                                             *)

LEMMA RelayStep == ASSUME RelayInv, [Next]_vars PROVE RelayInv'
<1>1. CASE UNCHANGED vars
  BY <1>1 DEF vars, RelayInv, RelayTypes, Forward, Backward, Working, Gone
<1>2. ASSUME NEW n \in Lengths, Send(n) \/ Answer(n) PROVE RelayInv'
  BY <1>2, SendStep, AnswerStep
<1>3. CASE ServerStep
  <2>1. ASSUME ServerReadFails \/ SendToFails \/ ServerWriteFails \/ TimeoutOnStall
        PROVE  RelayInv'
    <3>1. ServerEnds("ended")
      BY <2>1 DEF ServerReadFails, SendToFails, ServerWriteFails, TimeoutOnStall
    <3> QED
      BY <3>1, ServerEndsStep
  <2>2. ASSUME Timeout PROVE RelayInv'
    <3>1. ServerEnds("quiet")
      BY <2>2 DEF Timeout
    <3> QED
      BY <3>1, ServerEndsStep
  <2> QED
    BY <1>3, <2>1, <2>2, ServerReadsStep, ServerTakesStep, ServerWritesStep DEF ServerStep
<1>4. CASE ClientStep
  <2>1. ASSUME ServiceRefuses \/ ClientWriteFails PROVE RelayInv'
    BY <2>1, ClientEndsStep DEF ServiceRefuses, ClientWriteFails
  <2> QED
    BY <1>4, <2>1, ClientReadsStep, ClientTakesStep, ClientWritesStep DEF ClientStep
<1> QED
  BY <1>1, <1>2, <1>3, <1>4, BreakStep DEF Next

(* In every reachable state, both directions of the relay are flows: what  *)
(* was handed in waits, is written, is in the connection or was taken.     *)
THEOREM RelayInvariance == Spec => []RelayInv
<1>1. RelayInv /\ [Next]_vars => RelayInv'
  BY RelayStep
<1> QED
  BY <1>1, InitRelay, PTL DEF Spec

(* While the connection works, a relay neither loses nor repeats nor moves *)
(* a byte in either direction; whatever fails, what has arrived is a       *)
(* beginning of what was sent (server/mod.rs:137-157, client.rs:549-571).  *)
THEOREM NoByteIsLost == Spec => []BytesAccounted
<1>1. RelayInv => BytesAccounted
  <2> SUFFICES ASSUME RelayInv PROVE BytesAccounted
    OBVIOUS
  <2>1. IsPrefix(FlattenSeq(served), FlattenSeq(Datagrams(sent)))
    BY BegunIsPrefix DEF RelayInv, Forward
  <2>2. IsPrefix(FlattenSeq(returned), FlattenSeq(Datagrams(answered)))
    BY BegunIsPrefix DEF RelayInv, Backward
  <2>3. ~Gone(server) /\ ~Gone(client) /\ ~reset =>
          /\ FlattenSeq(served) \o up \o outgoing \o FlattenSeq(inbox)
               = FlattenSeq(Datagrams(sent))
          /\ FlattenSeq(returned) \o down \o reply \o FlattenSeq(answers)
               = FlattenSeq(Datagrams(answered))
    BY DEF RelayInv, Forward, Backward, Working, Whole
  <2> QED
    BY <2>1, <2>2, <2>3 DEF BytesAccounted
<1> QED
  BY <1>1, RelayInvariance, PTL
=============================================================================
