------------------------------ MODULE Framing ------------------------------
(***************************************************************************)
(* One direction of an AntiStickyStream (protocol/mod.rs:220-306): the     *)
(* writer puts the length of a message and its bytes into a stream that    *)
(* delivers bytes in pieces of any size, and the reader cuts the stream    *)
(* back into messages.  The reader's future may be dropped wherever it     *)
(* waits for bytes: the controller and the client read in a select         *)
(* (controller.rs:105, client.rs:179) and read again in the next round.    *)
(*                                                                         *)
(* The first message of a data connection is AcceptChannel; what follows   *)
(* is copied as raw bytes, past the buffers of the framing on both sides.  *)
(***************************************************************************)
EXTENDS Naturals, Sequences

CONSTANTS
    Base,           \* the values of a byte
    Width,          \* the bytes of a length: 8 in the code
    Messages,       \* the messages the writer may send
    MaxSent,        \* bound: messages sent
    MaxRaw          \* bound: raw bytes sent on a data connection

Byte == 0..(Base - 1)

\* What a digit at each place counts.
Weight[i \in 0..Width] == IF i = 0 THEN 1 ELSE Base * Weight[i - 1]

ASSUME FramingAssumption ==
    /\ Base \in Nat /\ Base >= 2
    /\ Width \in Nat \ {0}
    /\ MaxSent \in Nat /\ MaxRaw \in Nat
    /\ \A m \in Messages : m \in Seq(Byte) /\ Len(m) < Weight[Width]

VARIABLES
    kind,           \* a "control" or a "data" connection
    wBuf,           \* AntiStickyStream.w_buf of the writer
    pipe,           \* bytes in the transport
    rBuf,           \* AntiStickyStream.r_buf of the reader
    size,           \* AntiStickyStream.size: <<n>> for Some(n), <<>> for None
    reader,         \* where the reader stands
    sent,           \* messages given to write
    received,       \* messages returned by read
    rawSent,        \* raw bytes written after the first message
    rawReceived     \* raw bytes read by the copy

framingVars == <<kind, wBuf, pipe, rBuf, size, reader, sent, received, rawSent, rawReceived>>

\* Little-endian digits, and back.
Encode(n) == [i \in 1..Width |-> (n \div Weight[i - 1]) % Base]
Decode(bytes) ==
    LET upTo[i \in 0..Width] ==
          IF i = 0 THEN 0 ELSE upTo[i - 1] + bytes[i] * Weight[i - 1]
    IN upTo[Width]

Prefix(q, n) == SubSeq(q, 1, n)
Rest(q, n) == SubSeq(q, n + 1, Len(q))

FramingInit ==
    /\ kind \in {"control", "data"}
    /\ wBuf = <<>> /\ pipe = <<>> /\ rBuf = <<>> /\ size = <<>>
    /\ reader = "idle"
    /\ sent = <<>> /\ received = <<>> /\ rawSent = <<>> /\ rawReceived = <<>>

-----------------------------------------------------------------------------
\* write_one: length and data go to w_buf ...
WriteOne(m) ==
    /\ wBuf = <<>>
    /\ Len(sent) < IF kind = "data" THEN 1 ELSE MaxSent
    /\ wBuf' = Encode(Len(m)) \o m
    /\ sent' = Append(sent, m)
    /\ UNCHANGED <<kind, pipe, rBuf, size, reader, received, rawSent, rawReceived>>

\* ... which write_buf empties piece by piece.
WriteBuf(n) ==
    /\ n \in 1..Len(wBuf)
    /\ pipe' = pipe \o Prefix(wBuf, n)
    /\ wBuf' = Rest(wBuf, n)
    /\ UNCHANGED <<kind, rBuf, size, reader, sent, received, rawSent, rawReceived>>

-----------------------------------------------------------------------------
\* read_one asks for a length first, unless an earlier call got it already.
\* A data connection is read once.
StartRead ==
    /\ reader = "idle"
    /\ kind = "data" => received = <<>>
    /\ reader' = IF size = <<>> THEN "size" ELSE "body"
    /\ UNCHANGED <<kind, wBuf, pipe, rBuf, size, sent, received, rawSent, rawReceived>>

Needed == IF reader = "size" THEN Width ELSE size[1]
Waits == reader \in {"size", "body"} /\ Len(rBuf) < Needed

\* One read_buf: some of the bytes that have arrived, maybe more than needed.
ReadBuf(n) ==
    /\ Waits
    /\ n \in 1..Len(pipe)
    /\ rBuf' = rBuf \o Prefix(pipe, n)
    /\ pipe' = Rest(pipe, n)
    /\ UNCHANGED <<kind, wBuf, size, reader, sent, received, rawSent, rawReceived>>

\* read_size returns.
ReadSize ==
    /\ reader = "size" /\ ~Waits
    /\ size' = <<Decode(Prefix(rBuf, Width))>>
    /\ rBuf' = Rest(rBuf, Width)
    /\ reader' = "body"
    /\ UNCHANGED <<kind, wBuf, pipe, sent, received, rawSent, rawReceived>>

\* read_one returns a message; what was read beyond it stays.
Nothing == <<>>                                         \* mutant
Leftover == Rest(rBuf, size[1])

ReadOne ==
    /\ reader = "body" /\ ~Waits
    /\ received' = Append(received, Prefix(rBuf, size[1]))
    /\ rBuf' = Leftover
    /\ size' = <<>>
    /\ reader' = "idle"
    /\ UNCHANGED <<kind, wBuf, pipe, sent, rawSent, rawReceived>>

CancelForgetsSize ==                                    \* mutant
    /\ Waits
    /\ reader' = "idle" /\ size' = <<>>
    /\ UNCHANGED <<kind, wBuf, pipe, rBuf, sent, received, rawSent, rawReceived>>

CancelForgetsBytes ==                                   \* mutant
    /\ Waits
    /\ reader' = "idle" /\ rBuf' = <<>>
    /\ UNCHANGED <<kind, wBuf, pipe, size, sent, received, rawSent, rawReceived>>

\* The future is dropped while it waits for bytes.
CancelRead ==
    /\ Waits
    /\ reader' = "idle"
    /\ UNCHANGED <<kind, wBuf, pipe, rBuf, size, sent, received, rawSent, rawReceived>>

-----------------------------------------------------------------------------
\* copy_bidirectional on a data connection writes through AsyncWrite, straight
\* to the transport, once AcceptChannel is out.
RawWrite(b) ==
    /\ kind = "data" /\ Len(sent) = 1 /\ wBuf = <<>>
    /\ Len(rawSent) < MaxRaw
    /\ rawSent' = Append(rawSent, b)
    /\ pipe' = Append(pipe, b)
    /\ UNCHANGED <<kind, wBuf, rBuf, size, reader, sent, received, rawReceived>>

\* The server hands a data connection to the copy after its first message.
SwitchToRaw ==
    /\ kind = "data"
    /\ reader = "idle" /\ Len(received) = 1
    /\ reader' = "raw"
    /\ UNCHANGED <<kind, wBuf, pipe, rBuf, size, sent, received, rawSent, rawReceived>>

\* The copy reads through AsyncRead, straight from the transport.
RawRead(n) ==
    /\ reader = "raw"
    /\ n \in 1..Len(pipe)
    /\ rawReceived' = rawReceived \o Prefix(pipe, n)
    /\ pipe' = Rest(pipe, n)
    /\ UNCHANGED <<kind, wBuf, rBuf, size, reader, sent, received, rawSent>>

-----------------------------------------------------------------------------
FramingNext ==
    \/ \E m \in Messages : WriteOne(m)
    \/ \E n \in 1..Len(wBuf) : WriteBuf(n)
    \/ StartRead \/ ReadSize \/ ReadOne \/ CancelRead
    \/ \E n \in 1..Len(pipe) : ReadBuf(n)
    \/ \E b \in Byte : RawWrite(b)
    \/ SwitchToRaw
    \/ \E n \in 1..Len(pipe) : RawRead(n)

FramingSpec == FramingInit /\ [][FramingNext]_framingVars

\* A select picks among ready branches at random: a read that is asked for
\* again and again gets to the bytes that wait for it.
FramingFairSpec ==
    /\ FramingSpec
    /\ WF_framingVars(\E n \in 1..Len(wBuf) : WriteBuf(n))
    /\ WF_framingVars(StartRead)
    /\ SF_framingVars(\E n \in 1..Len(pipe) : ReadBuf(n))
    /\ WF_framingVars(ReadSize \/ ReadOne)

-----------------------------------------------------------------------------
IsPrefixOf(q, r) == Len(q) <= Len(r) /\ q = Prefix(r, Len(q))

\* However the stream is cut into pieces and wherever a read is dropped, the
\* reader gets the messages that were sent, whole and in order: r_buf and
\* size live in the stream, not in the future (protocol/mod.rs:224-227).
WholeMessagesInOrder == IsPrefixOf(received, sent)

\* Every message written is received in the end, however often the reader is
\* interrupted.
AllReceived ==
    \A k \in 1..MaxSent : Len(sent) >= k ~> Len(received) >= k

\* Once the copy has taken over, the raw bytes are accounted for: those read
\* ahead into r_buf with AcceptChannel, those copied, those on their way.
RawAccountedFor == reader = "raw" => rawSent = rBuf \o rawReceived \o pipe

\* "ssh # or tcp is ok" (README.md:58): a service that speaks first is
\* forwarded like any other, so the copy starts with its first byte.
RawFromTheStart == IsPrefixOf(rawReceived, rawSent)
=============================================================================
