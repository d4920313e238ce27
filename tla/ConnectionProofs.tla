-------------------------- MODULE ConnectionProofs --------------------------
(***************************************************************************)
(* Proofs about the control connection: the messages on it, and the time   *)
(* between them.                                                           *)
(*                                                                         *)
(* Framing, for bytes and lengths of any width and messages of any         *)
(* content: however the stream is cut and wherever reads are dropped, the  *)
(* reader gets the messages that were sent.  First that a length that is   *)
(* written is read as the same number; then the invariant: what is in the  *)
(* buffers and on its way is made of the messages that have not been read. *)
(*                                                                         *)
(* Heartbeats, for every interval, and every client and network that are   *)
(* not too slow for it: a live client is never given up, and the silence   *)
(* of a dead one is bounded.                                               *)
(***************************************************************************)
EXTENDS Framing, Heartbeat, SequenceLemmas

-----------------------------------------------------------------------------
(* Division.                                                               *)

(* Quotient and remainder.                                                 *)
LEMMA DivMod ==
  ASSUME NEW n \in Nat, NEW p \in Nat \ {0}
  PROVE  n \div p \in Nat /\ n % p \in 0 .. p - 1 /\ n = p * (n \div p) + (n % p)
<1>1. n \div p \in Nat
  OBVIOUS
<1>2. n % p \in 0 .. p - 1
  OBVIOUS
<1>3. n = p * (n \div p) + (n % p)
  OBVIOUS
<1> QED
  BY <1>1, <1>2, <1>3

(* A larger quotient is larger by a multiple of the divisor.               *)
LEMMA LargerByMultiple ==
  ASSUME NEW p \in Nat \ {0}, NEW q \in Nat, NEW t \in Nat, q < t
  PROVE  p * q + p <= p * t
<1>1. PICK d \in Nat : t = (q + 1) + d
  <2>1. t - q - 1 \in Nat
    OBVIOUS
  <2> QED
    BY <2>1
<1>2. p * t = p * q + p + p * d /\ p * d \in Nat /\ p * q \in Nat
  BY <1>1
<1> QED
  BY <1>2

(* Quotient and remainder are determined.                                  *)
LEMMA DivisionIsUnique ==
  ASSUME NEW p \in Nat \ {0}, NEW q \in Nat, NEW r \in 0 .. p - 1,
         NEW t \in Nat, NEW s \in 0 .. p - 1, p * q + r = p * t + s
  PROVE  q = t /\ r = s
<1>0. p * q \in Nat /\ p * t \in Nat
  OBVIOUS
<1>1. ~(q < t)
  BY <1>0, LargerByMultiple
<1>2. ~(t < q)
  BY <1>0, LargerByMultiple
<1> QED
  BY <1>0, <1>1, <1>2

(* The remainder by a product is one digit more than that by a factor.     *)
LEMMA ModuloOfProduct ==
  ASSUME NEW n \in Nat, NEW b \in Nat \ {0}, NEW p \in Nat \ {0}
  PROVE  n % (b * p) = (n % p) + ((n \div p) % b) * p
<1> DEFINE q == n \div p
           r == n % p
           d == q % b
           c == q \div b
<1>1. q \in Nat /\ r \in 0 .. p - 1 /\ n = p * q + r
  BY DivMod
<1>2. c \in Nat /\ d \in 0 .. b - 1 /\ q = b * c + d
  BY <1>1, DivMod
<1>3. b * p \in Nat \ {0}
  OBVIOUS
<1>4. n % (b * p) \in 0 .. b * p - 1 /\ n \div (b * p) \in Nat
      /\ n = (b * p) * (n \div (b * p)) + (n % (b * p))
  BY <1>3, DivMod
<1> HIDE DEF q, r, d, c
<1>5. n = (b * p) * c + (r + d * p)
  <2>1. p * (b * c + d) = (b * p) * c + d * p
    BY <1>2
  <2> QED
    BY <1>1, <1>2, <2>1
<1>6. r + d * p \in 0 .. b * p - 1
  <2>1. p * d + p <= p * b
    BY <1>2, LargerByMultiple
  <2>2. d * p = p * d /\ b * p = p * b /\ d * p \in Nat
    BY <1>2
  <2> QED
    BY <1>1, <2>1, <2>2
<1>7. PICK m \in Nat \ {0} : m = b * p
  BY <1>3
<1>8. n % m = r + d * p
  <2>1. PICK z \in 0 .. m - 1 : z = r + d * p
    BY <1>6, <1>7
  <2>2. n = m * c + z
    BY <1>5, <1>7, <2>1
  <2>3. n \div m \in Nat /\ n % m \in 0 .. m - 1 /\ n = m * (n \div m) + (n % m)
    BY DivMod
  <2>4. PICK x \in Nat, y \in 0 .. m - 1 : x = n \div m /\ y = n % m
    BY <2>3
  <2>5. m * x + y = m * c + z
    BY ONLY <2>2, <2>3, <2>4
  <2>6. y = z
    BY ONLY <1>2, <2>5, DivisionIsUnique
  <2> QED
    BY <2>1, <2>4, <2>6
<1> QED
  BY <1>7, <1>8 DEF q, r, d

-----------------------------------------------------------------------------
(* Lengths.                                                                *)

(* What is assumed of the constants.                                       *)
LEMMA Sizes == /\ Base \in Nat \ {0} /\ Base >= 2 /\ Width \in Nat \ {0}
               /\ \A m \in Messages : m \in Seq(Byte) /\ Len(m) \in Nat
                                      /\ Len(m) < Weight[Width]
<1>1. \A m \in Messages : m \in Seq(Byte) /\ Len(m) < Weight[Width]
  BY FramingAssumption
<1>2. \A m \in Messages : Len(m) \in Nat
  BY <1>1, LenProperties
<1> QED
  BY <1>1, <1>2, FramingAssumption

WeighsBy(f) == f = [i \in 0 .. Width |-> IF i = 0 THEN 1 ELSE Base * f[i - 1]]

(* Weight is the function of this recursion.                               *)
LEMMA WeighsStep ==
  ASSUME NEW f, WeighsBy(f), NEW i \in 0 .. Width
  PROVE  f[i] = IF i = 0 THEN 1 ELSE Base * f[i - 1]
  BY DEF WeighsBy

(* What the digits of a length count.                                      *)
LEMMA Weights ==
  /\ Weight \in [0 .. Width -> Nat \ {0}]
  /\ Weight[0] = 1
  /\ \A i \in 1 .. Width : Weight[i] = Base * Weight[i - 1]
<1> DEFINE step == [x \in (1 .. Width) \X (Nat \ {0}) |-> Base * x[2]]
<1>0. Width \in Nat /\ 1 \in Nat \ {0} /\ 0 \in 0 .. Width
      /\ \A i \in 1 .. Width : i \in 0 .. Width /\ i # 0 /\ i - 1 \in 0 .. Width
  BY Sizes
<1>1. step \in [(1 .. Width) \X (Nat \ {0}) -> Nat \ {0}]
  <2>1. \A x \in (1 .. Width) \X (Nat \ {0}) : Base * x[2] \in Nat \ {0}
    BY Sizes
  <2> QED
    BY <2>1
<1>2. PICK f \in [0 .. Width -> Nat \ {0}] : Recurs(f, Width, 1, step)
  <2>1. IsStep(step, Width, Nat \ {0})
    BY <1>1 DEF IsStep
  <2> HIDE DEF step
  <2> QED
    BY <1>0, <2>1, RecursionExists
<1>3. \A i \in 1 .. Width : f[i] = Base * f[i - 1]
  <2> SUFFICES ASSUME NEW i \in 1 .. Width PROVE f[i] = Base * f[i - 1]
    OBVIOUS
  <2>1. i - 1 \in 0 .. Width /\ f[i - 1] \in Nat \ {0}
    BY Sizes
  <2> QED
    BY <1>2, <2>1 DEF Recurs
<1>4. WeighsBy(f)
  <2> DEFINE g == [i \in 0 .. Width |-> IF i = 0 THEN 1 ELSE Base * f[i - 1]]
  <2>1. \A i \in 0 .. Width : f[i] = g[i]
    <3>1. g[0] = 1
      BY <1>0
    <3>2. \A i \in 1 .. Width : g[i] = Base * f[i - 1]
      BY <1>0
    <3>3. \A i \in 0 .. Width : i = 0 \/ i \in 1 .. Width
      BY <1>0
    <3> HIDE DEF g
    <3> QED
      BY <1>2, <1>3, <3>1, <3>2, <3>3 DEF Recurs
  <2>2. f = [i \in 0 .. Width |-> f[i]] /\ g = [i \in 0 .. Width |-> g[i]]
    OBVIOUS
  <2>3. f = g
    <3> HIDE DEF g
    <3> QED
      BY <2>1, <2>2
  <2> QED
    BY <2>3 DEF WeighsBy
<1>5. Weight = CHOOSE g : WeighsBy(g)
  BY DEF Weight, WeighsBy
<1>6. WeighsBy(Weight)
  BY <1>4, <1>5
<1>7. Weight[0] = 1 /\ \A i \in 1 .. Width : Weight[i] = Base * Weight[i - 1]
  <2>1. \A i \in 0 .. Width : Weight[i] = IF i = 0 THEN 1 ELSE Base * Weight[i - 1]
    BY <1>6, WeighsStep
  <2> QED
    BY <1>0, <2>1
<1> DEFINE T == {k \in Nat : k <= Width => Weight[k] \in Nat \ {0}}
<1>8. 0 \in T
  BY <1>7
<1>9. ASSUME NEW k \in Nat, k \in T PROVE k + 1 \in T
  <2> SUFFICES ASSUME k + 1 <= Width PROVE Weight[k + 1] \in Nat \ {0}
    OBVIOUS
  <2>1. k + 1 \in 1 .. Width /\ (k + 1) - 1 = k /\ Weight[k] \in Nat \ {0}
    BY <1>0, <1>9
  <2>2. Weight[k + 1] = Base * Weight[k]
    BY <1>7, <2>1
  <2> QED
    BY <2>1, <2>2, Sizes
<1>10. Nat \subseteq T
  <2> HIDE DEF T
  <2> QED
    BY <1>8, <1>9, SetInduction
<1>11. \A k \in 0 .. Width : Weight[k] \in Nat \ {0}
  BY <1>10
<1>12. Weight = [i \in 0 .. Width |-> Weight[i]]
  BY <1>6 DEF WeighsBy
<1> QED
  BY <1>7, <1>11, <1>12

SumsBy(f, bytes) ==
  f = [i \in 0 .. Width |-> IF i = 0 THEN 0 ELSE f[i - 1] + bytes[i] * Weight[i - 1]]

(* So is what Decode adds up.                                              *)
LEMMA SumsStep ==
  ASSUME NEW f, NEW bytes, SumsBy(f, bytes), NEW i \in 0 .. Width
  PROVE  f[i] = IF i = 0 THEN 0 ELSE f[i - 1] + bytes[i] * Weight[i - 1]
  BY DEF SumsBy

LEMMA DecodeIsLast ==
  ASSUME NEW bytes PROVE Decode(bytes) = (CHOOSE f : SumsBy(f, bytes))[Width]
  BY DEF Decode, SumsBy

(* A length is written in as many bytes as its type has.                   *)
LEMMA EncodeType ==
  ASSUME NEW n \in Nat
  PROVE  /\ Encode(n) \in Seq(Byte) /\ Len(Encode(n)) = Width
         /\ \A i \in 1 .. Width : Encode(n)[i] = (n \div Weight[i - 1]) % Base
<1>1. ASSUME NEW i \in 1 .. Width PROVE (n \div Weight[i - 1]) % Base \in Byte
  <2>1. PICK p \in Nat \ {0} : p = Weight[i - 1]
    BY Weights, Sizes
  <2>2. n \div p \in Nat
    BY DivMod
  <2>3. (n \div p) % Base \in 0 .. Base - 1
    BY <2>2, DivMod, Sizes
  <2> QED
    BY <2>1, <2>3 DEF Byte
<1> QED
  BY <1>1, Sizes DEF Encode

(* A length that is written is read as the same number.                    *)
LEMMA LengthsSurvive ==
  ASSUME NEW n \in Nat, n < Weight[Width] PROVE Decode(Encode(n)) = n
<1> DEFINE bytes == Encode(n)
           f == CHOOSE g : SumsBy(g, bytes)
           r == [i \in 0 .. Width |-> n % Weight[i]]
<1>0. Width \in Nat /\ Width \in 0 .. Width /\ 0 \in 0 .. Width
      /\ \A i \in 1 .. Width : i \in 0 .. Width /\ i # 0 /\ i - 1 \in 0 .. Width
  BY Sizes
<1>1. ASSUME NEW i \in 1 .. Width
      PROVE  n % Weight[i] = (n % Weight[i - 1]) + bytes[i] * Weight[i - 1]
  <2>1. PICK p \in Nat \ {0} : p = Weight[i - 1]
    BY <1>0, Weights
  <2>2. n % (Base * p) = (n % p) + ((n \div p) % Base) * p
    BY ModuloOfProduct, Sizes
  <2>3. bytes[i] = (n \div p) % Base /\ Weight[i] = Base * p
    BY <2>1, EncodeType, Weights
  <2> QED
    BY <2>1, <2>2, <2>3
<1>2. r[0] = 0 /\ \A i \in 1 .. Width : r[i] = r[i - 1] + bytes[i] * Weight[i - 1]
  <2>1. n % 1 = 0
    OBVIOUS
  <2>2. \A i \in 0 .. Width : r[i] = n % Weight[i]
    OBVIOUS
  <2> HIDE DEF r, bytes
  <2> QED
    BY <1>0, <1>1, <2>1, <2>2, Weights
<1>3. SumsBy(r, bytes)
  <2> DEFINE g == [i \in 0 .. Width |-> IF i = 0 THEN 0 ELSE r[i - 1] + bytes[i] * Weight[i - 1]]
  <2>1. g[0] = 0
    BY <1>0
  <2>2. \A i \in 1 .. Width : g[i] = r[i - 1] + bytes[i] * Weight[i - 1]
    <3> HIDE DEF r, bytes
    <3> QED
      BY <1>0
  <2>3. r = [i \in 0 .. Width |-> r[i]] /\ g = [i \in 0 .. Width |-> g[i]]
    <3>1. r = [i \in 0 .. Width |-> r[i]]
      OBVIOUS
    <3> HIDE DEF r
    <3> QED
      BY <3>1
  <2>4. \A i \in 0 .. Width : i = 0 \/ i \in 1 .. Width
    BY <1>0
  <2>5. \A i \in 0 .. Width : r[i] = g[i]
    <3> HIDE DEF r, g, bytes
    <3> QED
      BY <1>2, <2>1, <2>2, <2>4
  <2>6. r = g
    <3> HIDE DEF r, g
    <3> QED
      BY <2>3, <2>5
  <2> HIDE DEF r, bytes
  <2> QED
    BY <2>6 DEF SumsBy
<1> HIDE DEF r, bytes
<1>4. SumsBy(f, bytes)
  BY <1>3
<1>5. f[0] = 0 /\ \A i \in 1 .. Width : f[i] = f[i - 1] + bytes[i] * Weight[i - 1]
  <2> HIDE DEF f
  <2>1. \A i \in 0 .. Width : f[i] = IF i = 0 THEN 0 ELSE f[i - 1] + bytes[i] * Weight[i - 1]
    BY <1>4, SumsStep
  <2> QED
    BY <1>0, <2>1
<1> HIDE DEF f
<1> DEFINE T == {k \in Nat : k <= Width => f[k] = r[k]}
<1>6. 0 \in T
  BY <1>2, <1>5
<1>7. ASSUME NEW k \in Nat, k \in T PROVE k + 1 \in T
  <2> SUFFICES ASSUME k + 1 <= Width PROVE f[k + 1] = r[k + 1]
    OBVIOUS
  <2>1. k + 1 \in 1 .. Width /\ (k + 1) - 1 = k /\ f[k] = r[k]
    BY <1>0, <1>7
  <2> QED
    BY <1>2, <1>5, <2>1
<1>8. Nat \subseteq T
  <2> HIDE DEF T
  <2> QED
    BY <1>6, <1>7, SetInduction
<1>9. f[Width] = r[Width]
  BY <1>0, <1>8
<1>10. r[Width] = n
  <2>1. PICK w \in Nat \ {0} : w = Weight[Width]
    BY <1>0, Weights
  <2>2. n % w = n
    BY <2>1
  <2> QED
    BY <1>0, <2>1, <2>2 DEF r
<1>11. Decode(bytes) = f[Width]
  BY DecodeIsLast DEF f
<1> QED
  BY <1>9, <1>10, <1>11 DEF bytes

-----------------------------------------------------------------------------
(* The stream.                                                             *)

Frame(m) == Encode(Len(m)) \o m
Frames(ms) == [i \in DOMAIN ms |-> Frame(ms[i])]
Stream(ms) == FlattenSeq(Frames(ms))

(* What is left of the stream when the length of its first frame has been  *)
(* read, or not.                                                           *)
Pending(ms, length) ==
  IF length = <<>> THEN Stream(ms) ELSE Head(ms) \o Stream(Tail(ms))

LEMMA RegroupBytes == \A s, t, u \in Seq(Byte) : (s \o t) \o u = s \o (t \o u)
<1>1. Associative(Byte)
  BY Associates, Zenon
<1> QED
  BY <1>1, Zenon DEF Associative

LEMMA BytesMove == \A b, c \in Seq(Byte) : \A n \in 0 .. Len(c) : Moves(b, c, n, Byte)
  BY PieceMoves

(* The bytes of a frame, and of a stream of them.                          *)
LEMMA FrameType ==
  ASSUME NEW m \in Messages PROVE m \in Seq(Byte) /\ Frame(m) \in Seq(Byte)
  BY Sizes, EncodeType DEF Frame

LEMMA FramesType ==
  ASSUME NEW ms \in Seq(Messages)
  PROVE  Frames(ms) \in Seq(Seq(Byte)) /\ Stream(ms) \in Seq(Byte)
<1>1. \A i \in DOMAIN ms : Frame(ms[i]) \in Seq(Byte)
  BY FrameType
<1>2. Frames(ms) \in Seq(Seq(Byte))
  BY <1>1 DEF Frames
<1> QED
  BY <1>2, FlattenType DEF Stream

(* The stream of no messages, of one more at its end, and of the first.    *)
LEMMA StreamEmpty == Stream(<<>>) = <<>>
<1>1. Frames(<<>>) = <<>>
  BY DEF Frames
<1> QED
  BY <1>1, FlattenEmpty DEF Stream

LEMMA StreamAppend ==
  ASSUME NEW ms \in Seq(Messages), NEW m \in Messages
  PROVE  Stream(Append(ms, m)) = Stream(ms) \o Frame(m)
<1>1. Frames(Append(ms, m)) = Append(Frames(ms), Frame(m))
  BY DEF Frames
<1>2. Frames(ms) \in Seq(Seq(Byte)) /\ Frame(m) \in Seq(Byte)
  BY FramesType, FrameType
<1> QED
  BY <1>1, <1>2, FlattenAppend DEF Stream

LEMMA StreamHead ==
  ASSUME NEW ms \in Seq(Messages), ms # <<>>
  PROVE  /\ Head(ms) \in Messages /\ Tail(ms) \in Seq(Messages)
         /\ Stream(ms) = Frame(Head(ms)) \o Stream(Tail(ms))
<1>1. Head(ms) \in Messages /\ Tail(ms) \in Seq(Messages)
  OBVIOUS
<1>2. Frames(ms) \in Seq(Seq(Byte)) /\ Frames(ms) # <<>>
  BY FramesType DEF Frames
<1>3. Head(Frames(ms)) = Frame(Head(ms)) /\ Tail(Frames(ms)) = Frames(Tail(ms))
  BY DEF Frames
<1> QED
  BY <1>1, <1>2, <1>3, FlattenHead DEF Stream

(* What is left of a stream is bytes, and grows at its end.                *)
LEMMA PendingType ==
  ASSUME NEW ms \in Seq(Messages), NEW length, length # <<>> => ms # <<>>
  PROVE  Pending(ms, length) \in Seq(Byte)
<1>1. CASE length = <<>>
  BY <1>1, FramesType DEF Pending
<1>2. CASE length # <<>>
  <2>1. Head(ms) \in Messages /\ Tail(ms) \in Seq(Messages)
    BY <1>2, StreamHead
  <2>2. Head(ms) \in Seq(Byte) /\ Stream(Tail(ms)) \in Seq(Byte)
    BY <2>1, FrameType, FramesType
  <2> QED
    BY <1>2, <2>2 DEF Pending
<1> QED
  BY <1>1, <1>2

LEMMA PendingAppend ==
  ASSUME NEW ms \in Seq(Messages), NEW length, length # <<>> => ms # <<>>,
         NEW m \in Messages
  PROVE  Pending(Append(ms, m), length) = Pending(ms, length) \o Frame(m)
<1>1. CASE length = <<>>
  BY <1>1, StreamAppend DEF Pending
<1>2. CASE length # <<>>
  <2>1. PICK h \in Messages, t \in Seq(Messages) : h = Head(ms) /\ t = Tail(ms)
    BY <1>2, StreamHead
  <2>2. Head(Append(ms, m)) = h /\ Tail(Append(ms, m)) = Append(t, m)
    BY <1>2, <2>1
  <2>3. Stream(Append(t, m)) = Stream(t) \o Frame(m)
    BY StreamAppend
  <2>4. (h \o Stream(t)) \o Frame(m) = h \o (Stream(t) \o Frame(m))
    <3>1. h \in Seq(Byte) /\ Stream(t) \in Seq(Byte) /\ Frame(m) \in Seq(Byte)
      BY FrameType, FramesType
    <3> QED
      BY <3>1, RegroupBytes, Zenon
  <2> QED
    BY <1>2, <2>1, <2>2, <2>3, <2>4 DEF Pending
<1> QED
  BY <1>1, <1>2

-----------------------------------------------------------------------------
(* The invariant.                                                          *)

FramingTypeOK ==
  /\ kind \in {"control", "data"}
  /\ reader \in {"idle", "size", "body", "raw"}
  /\ wBuf \in Seq(Byte) /\ pipe \in Seq(Byte) /\ rBuf \in Seq(Byte)
  /\ rawSent \in Seq(Byte) /\ rawReceived \in Seq(Byte)
  /\ sent \in Seq(Messages) /\ received \in Seq(Messages)

(* What has been read and what has not make up what was sent, and what is  *)
(* in the buffers and on the way is the stream of the unread messages from *)
(* where the reader stands, and the raw bytes behind it.                   *)
Accounted(unread) ==
  /\ unread \in Seq(Messages) /\ sent = received \o unread
  /\ size # <<>> => unread # <<>> /\ size = <<Len(Head(unread))>>
  /\ reader = "raw" => unread = <<>>
  /\ reader # "raw" => (rBuf \o pipe) \o wBuf = Pending(unread, size) \o rawSent

(* What the reader asks for, and when raw bytes are written and read.      *)
Phases ==
  /\ reader = "size" => size = <<>>
  /\ reader = "body" => size # <<>>
  /\ kind = "data" => Len(sent) <= 1
  /\ kind = "data" /\ reader \in {"size", "body"} => received = <<>>
  /\ rawSent # <<>> => kind = "data" /\ Len(sent) = 1 /\ wBuf = <<>>
  /\ reader # "raw" => rawReceived = <<>>
  /\ reader = "raw" =>
       /\ kind = "data" /\ Len(received) = 1 /\ wBuf = <<>>
       /\ rawSent = rBuf \o rawReceived \o pipe

(* The inductive invariant.                                                *)
FramingInv == FramingTypeOK /\ Phases /\ \E unread : Accounted(unread)

LEMMA InitFraming == FramingInit => FramingInv
<1> SUFFICES ASSUME FramingInit PROVE FramingInv
  OBVIOUS
<1>1. FramingTypeOK /\ Phases
  BY DEF FramingInit, FramingTypeOK, Phases
<1>2. Accounted(<<>>)
  <2>1. Pending(<<>>, size) = <<>>
    BY StreamEmpty DEF FramingInit, Pending
  <2> QED
    BY <2>1 DEF FramingInit, Accounted
<1> QED
  BY <1>1, <1>2 DEF FramingInv

LEMMA MessageBehind ==
  \A a, b \in Seq(Messages) : \A m \in Messages : Append(a \o b, m) = a \o Append(b, m)
  BY SMT

-----------------------------------------------------------------------------
(* The steps.                                                              *)

LEMMA WriteOneStep ==
  ASSUME FramingInv, NEW m \in Messages, WriteOne(m) PROVE FramingInv'
<1>1. PICK unread : Accounted(unread)
  BY DEF FramingInv
<1>2. Frame(m) \in Seq(Byte) /\ wBuf' = Frame(m)
  BY FrameType DEF WriteOne, Frame
<1>0. wBuf = <<>> /\ (kind = "data" => Len(sent) < 1)
  BY DEF WriteOne
<1>3. Append(sent, m) \in Seq(Messages) /\ Len(Append(sent, m)) = Len(sent) + 1
      /\ Len(sent) \in Nat
  BY DEF FramingInv, FramingTypeOK
<1>4. FramingTypeOK'
  BY <1>2, <1>3 DEF FramingInv, FramingTypeOK, WriteOne
<1>5. reader # "raw" /\ rawSent = <<>>
  <2>1. reader # "raw"
    <3> SUFFICES ASSUME reader = "raw" PROVE FALSE
      OBVIOUS
    <3>1. kind = "data" /\ Len(received) = 1 /\ unread = <<>> /\ sent = received \o unread
      BY <1>1 DEF FramingInv, Phases, Accounted
    <3>2. Len(sent) = 1
      BY <3>1 DEF FramingInv, FramingTypeOK
    <3> QED
      BY <1>0, <3>1, <3>2
  <2>2. rawSent = <<>>
    BY <1>0 DEF FramingInv, Phases
  <2> QED
    BY <2>1, <2>2
<1>6. Phases'
  BY <1>3, <1>5 DEF FramingInv, Phases, WriteOne
<1>7. Accounted(Append(unread, m))'
  <2>1. unread \in Seq(Messages) /\ (size # <<>> => unread # <<>>)
    BY <1>1 DEF Accounted
  <2>2. Append(unread, m) \in Seq(Messages)
    BY <2>1
  <2>3. sent' = received' \o Append(unread, m)
    <3>1. PICK r, u : /\ r \in Seq(Messages) /\ u \in Seq(Messages)
                      /\ r = received /\ u = unread /\ sent = r \o u
      BY <1>1 DEF Accounted, FramingInv, FramingTypeOK
    <3>2. Append(r \o u, m) = r \o Append(u, m)
      BY <3>1, MessageBehind, Zenon
    <3> QED
      BY <3>1, <3>2 DEF WriteOne
  <2>4. size # <<>> => Head(Append(unread, m)) = Head(unread) /\ Append(unread, m) # <<>>
    BY <2>1
  <2>5. (rBuf \o pipe) \o Frame(m) = Pending(Append(unread, m), size) \o <<>>
    <3>0. rBuf \o pipe \in Seq(Byte)
      BY DEF FramingInv, FramingTypeOK
    <3>1. PICK a \in Seq(Byte) : a = rBuf \o pipe
      BY <3>0
    <3>2. a \o <<>> = Pending(unread, size) \o <<>>
      BY <1>0, <1>1, <1>5, <3>1 DEF Accounted
    <3>3. Pending(unread, size) \in Seq(Byte)
      BY <2>1, PendingType
    <3>4. a = Pending(unread, size)
      BY <3>2, <3>3
    <3>5. Pending(Append(unread, m), size) = a \o Frame(m)
      BY <2>1, <3>4, PendingAppend
    <3>6. (a \o Frame(m)) \o <<>> = a \o Frame(m)
      BY <1>2
    <3> QED
      BY <3>1, <3>5, <3>6
  <2> QED
    BY <1>1, <1>2, <1>5, <2>2, <2>3, <2>4, <2>5 DEF Accounted, WriteOne
<1> QED
  BY <1>4, <1>6, <1>7 DEF FramingInv

LEMMA WriteBufStep ==
  ASSUME FramingInv, NEW n \in 1 .. Len(wBuf), WriteBuf(n) PROVE FramingInv'
<1>1. PICK unread : Accounted(unread)
  BY DEF FramingInv
<1>2. /\ pipe' \in Seq(Byte) /\ wBuf' \in Seq(Byte)
      /\ (rBuf \o pipe') \o wBuf' = (rBuf \o pipe) \o wBuf
  <2>1. rBuf \in Seq(Byte) /\ pipe \in Seq(Byte) /\ wBuf \in Seq(Byte) /\ n \in 0 .. Len(wBuf)
    BY DEF FramingInv, FramingTypeOK
  <2>2. pipe' = pipe \o SubSeq(wBuf, 1, n) /\ wBuf' = SubSeq(wBuf, n + 1, Len(wBuf))
    BY DEF WriteBuf, Prefix, Rest
  <2>3. pipe' \in Seq(Byte) /\ wBuf' \in Seq(Byte) /\ pipe' \o wBuf' = pipe \o wBuf
    <3>1. Moves(pipe, wBuf, n, Byte)
      BY <2>1, BytesMove, Zenon
    <3> QED
      BY <2>2, <3>1 DEF Moves
  <2>4. (rBuf \o pipe') \o wBuf' = (rBuf \o pipe) \o wBuf
    <3>1. (rBuf \o pipe') \o wBuf' = rBuf \o (pipe' \o wBuf')
      BY <2>1, <2>3, RegroupBytes, Zenon
    <3>2. (rBuf \o pipe) \o wBuf = rBuf \o (pipe \o wBuf)
      BY <2>1, RegroupBytes, Zenon
    <3> QED
      BY <2>3, <3>1, <3>2
  <2> QED
    BY <2>3, <2>4
<1>3. wBuf # <<>>
  OBVIOUS
<1>4. FramingTypeOK'
  BY <1>2 DEF FramingInv, FramingTypeOK, WriteBuf
<1>5. Phases'
  BY <1>3 DEF FramingInv, Phases, WriteBuf
<1>6. Accounted(unread)'
  BY <1>1, <1>2 DEF Accounted, WriteBuf
<1> QED
  BY <1>4, <1>5, <1>6 DEF FramingInv

LEMMA ReadBufStep ==
  ASSUME FramingInv, NEW n \in 1 .. Len(pipe), ReadBuf(n) PROVE FramingInv'
<1>1. PICK unread : Accounted(unread)
  BY DEF FramingInv
<1>2. /\ pipe' \in Seq(Byte) /\ rBuf' \in Seq(Byte)
      /\ rBuf' \o pipe' = rBuf \o pipe
  <2>1. rBuf \in Seq(Byte) /\ pipe \in Seq(Byte) /\ n \in 0 .. Len(pipe)
    BY DEF FramingInv, FramingTypeOK
  <2>2. /\ rBuf \o SubSeq(pipe, 1, n) \in Seq(Byte) /\ SubSeq(pipe, n + 1, Len(pipe)) \in Seq(Byte)
        /\ (rBuf \o SubSeq(pipe, 1, n)) \o SubSeq(pipe, n + 1, Len(pipe)) = rBuf \o pipe
    <3>1. Moves(rBuf, pipe, n, Byte)
      BY <2>1, BytesMove, Zenon
    <3> QED
      BY <3>1 DEF Moves
  <2> QED
    BY <2>2 DEF ReadBuf, Prefix, Rest
<1>3. reader \in {"size", "body"}
  BY DEF ReadBuf, Waits
<1>4. FramingTypeOK'
  BY <1>2 DEF FramingInv, FramingTypeOK, ReadBuf
<1>5. Phases'
  BY <1>3 DEF FramingInv, Phases, ReadBuf
<1>6. Accounted(unread)'
  BY <1>1, <1>2 DEF Accounted, ReadBuf
<1> QED
  BY <1>4, <1>5, <1>6 DEF FramingInv

LEMMA StartOrCancelStep ==
  ASSUME FramingInv, StartRead \/ CancelRead PROVE FramingInv'
<1>1. PICK unread : Accounted(unread)
  BY DEF FramingInv
<1>2. reader # "raw" /\ reader' \in {"idle", "size", "body"}
      /\ UNCHANGED <<kind, wBuf, pipe, rBuf, size, sent, received, rawSent, rawReceived>>
  BY DEF StartRead, CancelRead, Waits
<1>3. FramingTypeOK'
  BY <1>2 DEF FramingInv, FramingTypeOK
<1>4. Phases'
  <2>1. CASE StartRead
    BY <2>1, <1>2 DEF FramingInv, Phases, StartRead
  <2>2. CASE CancelRead
    BY <2>2, <1>2 DEF FramingInv, Phases, CancelRead
  <2> QED
    BY <2>1, <2>2
<1>5. Accounted(unread)'
  BY <1>1, <1>2 DEF Accounted
<1> QED
  BY <1>3, <1>4, <1>5 DEF FramingInv

(* A reader whose bytes are there has a message to read.                   *)
LEMMA SomethingUnread ==
  ASSUME FramingInv, NEW unread, Accounted(unread), reader = "size",
         Len(rBuf) >= Width
  PROVE  unread # <<>>
<1> SUFFICES ASSUME unread = <<>> PROVE FALSE
  OBVIOUS
<1>1. size = <<>> /\ sent = received \o <<>>
  BY DEF Accounted, FramingInv, Phases
<1>2. (rBuf \o pipe) \o wBuf = <<>> \o rawSent
  BY <1>1, StreamEmpty DEF Accounted, Pending
<1>3. rawSent = <<>>
  <2>1. rawSent # <<>> => Len(sent) = 1 /\ received = <<>>
    BY DEF FramingInv, Phases
  <2>2. received = <<>> => Len(sent) = 0
    BY <1>1
  <2> QED
    BY <2>1, <2>2
<1>4. Len(rBuf) = 0
  <2>1. rBuf \in Seq(Byte) /\ pipe \in Seq(Byte) /\ wBuf \in Seq(Byte)
    BY DEF FramingInv, FramingTypeOK
  <2>2. Len((rBuf \o pipe) \o wBuf) = Len(rBuf) + Len(pipe) + Len(wBuf)
    BY <2>1
  <2>3. Len((rBuf \o pipe) \o wBuf) = 0
    BY <1>2, <1>3
  <2> QED
    BY <2>1, <2>2, <2>3
<1> QED
  BY <1>4, Sizes

LEMMA ReadSizeStep == ASSUME FramingInv, ReadSize PROVE FramingInv'
<1>1. PICK unread : Accounted(unread)
  BY DEF FramingInv
<1>2. reader = "size" /\ size = <<>> /\ Len(rBuf) >= Width /\ Width \in 0 .. Len(rBuf)
  <2>1. Len(rBuf) \in Nat /\ Width \in Nat
    BY Sizes DEF FramingInv, FramingTypeOK
  <2> QED
    BY <2>1 DEF ReadSize, Waits, Needed, FramingInv, Phases
<1>3. unread # <<>> /\ unread \in Seq(Messages)
  BY <1>1, <1>2, SomethingUnread DEF Accounted
<1>4. PICK h \in Messages, t \in Seq(Messages) :
        h = Head(unread) /\ t = Tail(unread) /\ Stream(unread) = Frame(h) \o Stream(t)
  BY <1>3, StreamHead
<1>5. PICK code \in Seq(Byte), rest \in Seq(Byte) :
        code = Encode(Len(h)) /\ rest = (h \o Stream(t)) \o rawSent /\ Len(code) = Width
        /\ (rBuf \o pipe) \o wBuf = code \o rest
  <2>1. PICK code \in Seq(Byte) : code = Encode(Len(h)) /\ Len(code) = Width
    BY Sizes, EncodeType
  <2>2. h \in Seq(Byte) /\ Stream(t) \in Seq(Byte) /\ rawSent \in Seq(Byte)
    BY FrameType, FramesType DEF FramingInv, FramingTypeOK
  <2>3. h \o Stream(t) \in Seq(Byte) /\ (h \o Stream(t)) \o rawSent \in Seq(Byte)
    BY <2>2
  <2>4. (code \o h) \o Stream(t) = code \o (h \o Stream(t))
    BY <2>2, code \in Seq(Byte), RegroupBytes, Zenon
  <2>5. (code \o (h \o Stream(t))) \o rawSent = code \o ((h \o Stream(t)) \o rawSent)
    <3>1. PICK e : e = h \o Stream(t) /\ e \in Seq(Byte)
      BY <2>3
    <3>2. e \in Seq(Byte) /\ rawSent \in Seq(Byte)
      BY <2>2, <3>1
    <3>3. (code \o e) \o rawSent = code \o (e \o rawSent)
      BY <3>2, code \in Seq(Byte), RegroupBytes, Zenon
    <3> QED
      BY <3>1, <3>3
  <2>6. (rBuf \o pipe) \o wBuf = Stream(unread) \o rawSent
    BY <1>1, <1>2 DEF Accounted, Pending
  <2>7. Stream(unread) = (code \o h) \o Stream(t)
    BY <1>4, <2>1 DEF Frame
  <2> QED
    BY <2>1, <2>3, <2>4, <2>5, <2>6, <2>7
<1>6. Prefix(rBuf, Width) = code /\ (rBuf' \o pipe) \o wBuf = rest /\ rBuf' \in Seq(Byte)
  <2>1. rBuf \in Seq(Byte) /\ pipe \in Seq(Byte) /\ wBuf \in Seq(Byte)
    BY DEF FramingInv, FramingTypeOK
  <2>2. PICK behind : behind = pipe \o wBuf /\ behind \in Seq(Byte)
    <3>1. pipe \o wBuf \in Seq(Byte)
      BY <2>1
    <3> QED
      BY <3>1
  <2>3. (rBuf \o pipe) \o wBuf = rBuf \o behind
    <3>1. (rBuf \o pipe) \o wBuf = rBuf \o (pipe \o wBuf)
      BY <2>1, RegroupBytes, Zenon
    <3> QED
      BY <2>2, <3>1
  <2>4. /\ SubSeq(rBuf, 1, Len(code)) = code
        /\ SubSeq(rBuf, Len(code) + 1, Len(rBuf)) \o behind = rest
    <3>1. PICK a, b, c, d : /\ a \in Seq(Byte) /\ b \in Seq(Byte)
                            /\ c \in Seq(Byte) /\ d \in Seq(Byte)
                            /\ a = rBuf /\ b = behind /\ c = code /\ d = rest
      BY <1>2, <1>5, <2>1, <2>2
    <3>2. a \o b = c \o d /\ Len(c) <= Len(a)
      BY <1>2, <1>5, <2>3, <3>1
    <3>3. SubSeq(a, 1, Len(c)) = c /\ SubSeq(a, Len(c) + 1, Len(a)) \o b = d
      BY ONLY <3>1, <3>2, BeginningIsThere
    <3> QED
      BY <3>1, <3>3
  <2>5. rBuf' \in Seq(Byte) /\ rBuf' = SubSeq(rBuf, Width + 1, Len(rBuf))
    BY <1>2, <2>1, CutAndJoined DEF ReadSize, Rest
  <2>6. (rBuf' \o pipe) \o wBuf = rBuf' \o behind
    <3>1. rBuf' \in Seq(Byte)
      BY <2>5
    <3>2. (rBuf' \o pipe) \o wBuf = rBuf' \o (pipe \o wBuf)
      BY <2>1, <3>1, RegroupBytes, Zenon
    <3> QED
      BY <2>2, <3>2
  <2> QED
    BY <1>5, <2>4, <2>5, <2>6 DEF Prefix
<1>7. size' = <<Len(h)>>
  <2>1. Len(h) \in Nat /\ Len(h) < Weight[Width]
    BY Sizes
  <2>2. Decode(code) = Len(h)
    BY <1>5, <2>1, LengthsSurvive
  <2> QED
    BY <1>6, <2>2 DEF ReadSize
<1>8. FramingTypeOK'
  BY <1>6 DEF FramingInv, FramingTypeOK, ReadSize
<1>9. Phases'
  BY <1>2, <1>7 DEF FramingInv, Phases, ReadSize
<1>10. Accounted(unread)'
  <2>1. Pending(unread, size') = h \o Stream(t)
    BY <1>4, <1>7 DEF Pending
  <2> QED
    BY <1>1, <1>3, <1>4, <1>5, <1>6, <1>7, <2>1 DEF Accounted, ReadSize
<1> QED
  BY <1>8, <1>9, <1>10 DEF FramingInv

LEMMA ReadOneStep == ASSUME FramingInv, ReadOne PROVE FramingInv'
<1>1. PICK unread : Accounted(unread)
  BY DEF FramingInv
<1>2. reader = "body" /\ size # <<>>
  BY DEF ReadOne, FramingInv, Phases
<1>3. unread # <<>> /\ unread \in Seq(Messages) /\ size = <<Len(Head(unread))>>
  BY <1>1, <1>2 DEF Accounted
<1>4. PICK h \in Messages, t \in Seq(Messages) : h = Head(unread) /\ t = Tail(unread)
  BY <1>3, StreamHead
<1>5. h \in Seq(Byte) /\ Stream(t) \in Seq(Byte) /\ rawSent \in Seq(Byte)
      /\ Stream(t) \o rawSent \in Seq(Byte)
  <2>1. h \in Seq(Byte) /\ Stream(t) \in Seq(Byte) /\ rawSent \in Seq(Byte)
    BY FrameType, FramesType DEF FramingInv, FramingTypeOK
  <2> QED
    BY <2>1
<1>6. size[1] = Len(h) /\ Len(h) \in Nat /\ Len(h) <= Len(rBuf) /\ Len(h) \in 0 .. Len(rBuf)
  <2>1. size[1] = Len(h) /\ Len(h) \in Nat
    BY <1>3, <1>4, <1>5
  <2>2. Len(rBuf) \in Nat
    BY DEF FramingInv, FramingTypeOK
  <2> QED
    BY <2>1, <2>2 DEF ReadOne, Waits, Needed
<1>7. (rBuf \o pipe) \o wBuf = h \o (Stream(t) \o rawSent)
  <2>1. (h \o Stream(t)) \o rawSent = h \o (Stream(t) \o rawSent)
    BY <1>5, RegroupBytes, Zenon
  <2> QED
    BY <1>1, <1>2, <1>4, <2>1 DEF Accounted, Pending
<1>8. /\ Prefix(rBuf, size[1]) = h /\ rBuf' \in Seq(Byte)
      /\ (rBuf' \o pipe) \o wBuf = Stream(t) \o rawSent
  <2>1. rBuf \in Seq(Byte) /\ pipe \in Seq(Byte) /\ wBuf \in Seq(Byte)
    BY DEF FramingInv, FramingTypeOK
  <2>2. PICK behind : behind = pipe \o wBuf /\ behind \in Seq(Byte)
    <3>1. pipe \o wBuf \in Seq(Byte)
      BY <2>1
    <3> QED
      BY <3>1
  <2>3. (rBuf \o pipe) \o wBuf = rBuf \o behind
    <3>1. (rBuf \o pipe) \o wBuf = rBuf \o (pipe \o wBuf)
      BY <2>1, RegroupBytes, Zenon
    <3> QED
      BY <2>2, <3>1
  <2>4. /\ SubSeq(rBuf, 1, Len(h)) = h
        /\ SubSeq(rBuf, Len(h) + 1, Len(rBuf)) \o behind = Stream(t) \o rawSent
    <3>1. PICK a, b, c, d : /\ a \in Seq(Byte) /\ b \in Seq(Byte)
                            /\ c \in Seq(Byte) /\ d \in Seq(Byte)
                            /\ a = rBuf /\ b = behind /\ c = h /\ d = Stream(t) \o rawSent
      BY <1>5, <1>6, <1>7, <2>1, <2>2
    <3>2. a \o b = c \o d /\ Len(c) <= Len(a)
      BY <1>5, <1>6, <1>7, <2>3, <3>1
    <3>3. SubSeq(a, 1, Len(c)) = c /\ SubSeq(a, Len(c) + 1, Len(a)) \o b = d
      BY ONLY <3>1, <3>2, BeginningIsThere
    <3> QED
      BY <3>1, <3>3
  <2>5. rBuf' \in Seq(Byte) /\ rBuf' = SubSeq(rBuf, Len(h) + 1, Len(rBuf))
    BY <1>6, <2>1, CutAndJoined DEF ReadOne, Leftover, Rest
  <2>6. (rBuf' \o pipe) \o wBuf = rBuf' \o behind
    <3>1. rBuf' \in Seq(Byte)
      BY <2>5
    <3>2. (rBuf' \o pipe) \o wBuf = rBuf' \o (pipe \o wBuf)
      BY <2>1, <3>1, RegroupBytes, Zenon
    <3> QED
      BY <2>2, <3>2
  <2> QED
    BY <1>6, <2>4, <2>5, <2>6 DEF Prefix
<1>9. received' = Append(received, h) /\ received' \in Seq(Messages)
  BY <1>8 DEF ReadOne, FramingInv, FramingTypeOK
<1>10. FramingTypeOK'
  BY <1>8, <1>9 DEF FramingInv, FramingTypeOK, ReadOne
<1>11. Phases'
  BY <1>2 DEF FramingInv, Phases, ReadOne
<1>12. Accounted(t)'
  <2>1. sent = Append(received, h) \o t
    <3>1. sent = received \o unread /\ received \in Seq(Messages)
      BY <1>1 DEF Accounted, FramingInv, FramingTypeOK
    <3>2. unread = <<h>> \o t /\ <<h>> \in Seq(Messages)
      BY <1>3, <1>4
    <3>0. Associative(Messages)
      BY Associates
    <3>3. (received \o <<h>>) \o t = received \o (<<h>> \o t)
      BY <3>0, <3>1, <3>2, Zenon DEF Associative
    <3>4. received \o <<h>> = Append(received, h)
      BY <3>1
    <3> QED
      BY <3>1, <3>2, <3>3, <3>4
  <2>2. Pending(t, <<>>) = Stream(t)
    BY DEF Pending
  <2> QED
    BY <1>2, <1>8, <1>9, <2>1, <2>2 DEF Accounted, ReadOne
<1> QED
  BY <1>10, <1>11, <1>12 DEF FramingInv

LEMMA ByteBehind ==
  \A a, b \in Seq(Byte) : \A x \in Byte : Append(a \o b, x) = a \o Append(b, x)
  BY SMT

LEMMA RawWriteStep ==
  ASSUME FramingInv, NEW b \in Byte, RawWrite(b) PROVE FramingInv'
<1>1. PICK unread : Accounted(unread)
  BY DEF FramingInv
<1>2. /\ kind = "data" /\ Len(sent) = 1 /\ wBuf = <<>>
      /\ rawSent' = Append(rawSent, b) /\ pipe' = Append(pipe, b)
      /\ UNCHANGED <<kind, wBuf, rBuf, size, reader, sent, received, rawReceived>>
  BY DEF RawWrite
<1>3. /\ rBuf \in Seq(Byte) /\ pipe \in Seq(Byte) /\ rawSent \in Seq(Byte)
      /\ rawReceived \in Seq(Byte) /\ rBuf \o pipe \in Seq(Byte)
      /\ rBuf \o rawReceived \in Seq(Byte)
      /\ Append(pipe, b) \in Seq(Byte) /\ Append(rawSent, b) \in Seq(Byte)
  BY DEF FramingInv, FramingTypeOK
<1>4. FramingTypeOK'
  BY <1>2, <1>3 DEF FramingInv, FramingTypeOK
<1>5. Phases'
  <2>1. reader = "raw" => Append(rawSent, b) = (rBuf \o rawReceived) \o Append(pipe, b)
    <3> SUFFICES ASSUME reader = "raw"
                 PROVE  Append(rawSent, b) = (rBuf \o rawReceived) \o Append(pipe, b)
      OBVIOUS
    <3>1. rawSent = (rBuf \o rawReceived) \o pipe
      BY DEF FramingInv, Phases
    <3>2. Append((rBuf \o rawReceived) \o pipe, b) = (rBuf \o rawReceived) \o Append(pipe, b)
      BY <1>3, ByteBehind, Zenon
    <3> QED
      BY <3>1, <3>2
  <2> QED
    BY <1>2, <2>1 DEF FramingInv, Phases
<1>6. Accounted(unread)'
  <2>1. reader # "raw" =>
          (rBuf \o Append(pipe, b)) \o wBuf = Pending(unread, size) \o Append(rawSent, b)
    <3> SUFFICES ASSUME reader # "raw"
                 PROVE  (rBuf \o Append(pipe, b)) \o wBuf
                          = Pending(unread, size) \o Append(rawSent, b)
      OBVIOUS
    <3>1. Pending(unread, size) \in Seq(Byte)
      BY <1>1, PendingType DEF Accounted
    <3>2. rBuf \o pipe = Pending(unread, size) \o rawSent
      <4>1. (rBuf \o pipe) \o wBuf = Pending(unread, size) \o rawSent
        BY <1>1 DEF Accounted
      <4>2. (rBuf \o pipe) \o <<>> = rBuf \o pipe
        BY <1>3
      <4> QED
        BY <1>2, <4>1, <4>2
    <3>3. Append(rBuf \o pipe, b) = rBuf \o Append(pipe, b)
      BY <1>3, ByteBehind, Zenon
    <3>4. Append(Pending(unread, size) \o rawSent, b)
            = Pending(unread, size) \o Append(rawSent, b)
      BY <1>3, <3>1, ByteBehind, Zenon
    <3>5. (rBuf \o Append(pipe, b)) \o <<>> = rBuf \o Append(pipe, b)
      BY <1>3
    <3> QED
      BY <1>2, <3>2, <3>3, <3>4, <3>5
  <2> QED
    BY <1>1, <1>2, <2>1 DEF Accounted
<1> QED
  BY <1>4, <1>5, <1>6 DEF FramingInv

LEMMA SwitchToRawStep == ASSUME FramingInv, SwitchToRaw PROVE FramingInv'
<1>1. PICK unread : Accounted(unread)
  BY DEF FramingInv
<1>2. /\ kind = "data" /\ reader = "idle" /\ Len(received) = 1 /\ reader' = "raw"
      /\ UNCHANGED <<kind, wBuf, pipe, rBuf, size, sent, received, rawSent, rawReceived>>
  BY DEF SwitchToRaw
<1>3. /\ rBuf \in Seq(Byte) /\ pipe \in Seq(Byte) /\ wBuf \in Seq(Byte)
      /\ rawSent \in Seq(Byte) /\ received \in Seq(Messages)
  BY DEF FramingInv, FramingTypeOK
<1>4. unread = <<>> /\ size = <<>>
  <2>1. unread \in Seq(Messages) /\ sent = received \o unread /\ Len(sent) <= 1
    BY <1>1, <1>2 DEF Accounted, FramingInv, Phases
  <2>2. Len(unread) = 0
    BY <1>2, <1>3, <2>1
  <2>3. unread = <<>>
    BY <2>1, <2>2
  <2> QED
    BY <1>1, <2>3 DEF Accounted
<1>5. (rBuf \o pipe) \o wBuf = rawSent
  <2>1. Pending(unread, size) = <<>>
    BY <1>4, StreamEmpty DEF Pending
  <2>2. (rBuf \o pipe) \o wBuf = <<>> \o rawSent
    BY <1>1, <1>2, <2>1 DEF Accounted
  <2> QED
    BY <1>3, <2>2
<1>6. wBuf = <<>>
  <2>1. CASE rawSent # <<>>
    BY <2>1 DEF FramingInv, Phases
  <2>2. CASE rawSent = <<>>
    <3>1. Len((rBuf \o pipe) \o wBuf) = Len(rBuf) + Len(pipe) + Len(wBuf)
      BY <1>3
    <3>2. Len((rBuf \o pipe) \o wBuf) = 0
      BY <1>5, <2>2
    <3>3. Len(wBuf) = 0
      BY <1>3, <3>1, <3>2
    <3> QED
      BY <1>3, <3>3
  <2> QED
    BY <2>1, <2>2
<1>7. rawReceived = <<>> /\ rawSent = (rBuf \o rawReceived) \o pipe
  <2>1. rawReceived = <<>>
    BY <1>2 DEF FramingInv, Phases
  <2>2. rBuf \o <<>> = rBuf /\ (rBuf \o pipe) \o <<>> = rBuf \o pipe
    BY <1>3
  <2> QED
    BY <1>5, <1>6, <2>1, <2>2
<1>8. FramingTypeOK'
  BY <1>2 DEF FramingInv, FramingTypeOK
<1>9. Phases'
  BY <1>2, <1>6, <1>7 DEF FramingInv, Phases
<1>10. Accounted(unread)'
  BY <1>1, <1>2, <1>4 DEF Accounted
<1> QED
  BY <1>8, <1>9, <1>10 DEF FramingInv

LEMMA RawReadStep ==
  ASSUME FramingInv, NEW n \in 1 .. Len(pipe), RawRead(n) PROVE FramingInv'
<1>1. PICK unread : Accounted(unread)
  BY DEF FramingInv
<1>2. /\ reader = "raw" /\ rawReceived' = rawReceived \o SubSeq(pipe, 1, n)
      /\ pipe' = SubSeq(pipe, n + 1, Len(pipe))
      /\ UNCHANGED <<kind, wBuf, rBuf, size, reader, sent, received, rawSent>>
  BY DEF RawRead, Prefix, Rest
<1>3. /\ rBuf \in Seq(Byte) /\ pipe \in Seq(Byte) /\ rawReceived \in Seq(Byte)
      /\ n \in 0 .. Len(pipe)
  BY DEF FramingInv, FramingTypeOK
<1>4. /\ pipe' \in Seq(Byte) /\ rawReceived' \in Seq(Byte)
      /\ rawReceived' \o pipe' = rawReceived \o pipe
  <2>1. /\ rawReceived \o SubSeq(pipe, 1, n) \in Seq(Byte)
        /\ SubSeq(pipe, n + 1, Len(pipe)) \in Seq(Byte)
        /\ (rawReceived \o SubSeq(pipe, 1, n)) \o SubSeq(pipe, n + 1, Len(pipe))
             = rawReceived \o pipe
    <3>1. Moves(rawReceived, pipe, n, Byte)
      BY <1>3, BytesMove, Zenon
    <3> QED
      BY <3>1 DEF Moves
  <2> QED
    BY <1>2, <2>1
<1>5. (rBuf \o rawReceived') \o pipe' = (rBuf \o rawReceived) \o pipe
  <2>1. (rBuf \o rawReceived') \o pipe' = rBuf \o (rawReceived' \o pipe')
    BY <1>3, <1>4, RegroupBytes, Zenon
  <2>2. (rBuf \o rawReceived) \o pipe = rBuf \o (rawReceived \o pipe)
    BY <1>3, RegroupBytes, Zenon
  <2> QED
    BY <1>4, <2>1, <2>2
<1>6. FramingTypeOK'
  BY <1>2, <1>4 DEF FramingInv, FramingTypeOK
<1>7. Phases'
  BY <1>2, <1>5 DEF FramingInv, Phases
<1>8. Accounted(unread)'
  BY <1>1, <1>2 DEF Accounted
<1> QED
  BY <1>6, <1>7, <1>8 DEF FramingInv

-----------------------------------------------------------------------------
(* The results.                                                            *)

LEMMA FramingStep == ASSUME FramingInv, [FramingNext]_framingVars PROVE FramingInv'
<1>1. CASE UNCHANGED framingVars
  BY <1>1 DEF framingVars, FramingInv, FramingTypeOK, Phases, Accounted
<1>2. ASSUME NEW m \in Messages, WriteOne(m) PROVE FramingInv'
  BY <1>2, WriteOneStep
<1>3. ASSUME NEW n \in 1 .. Len(wBuf), WriteBuf(n) PROVE FramingInv'
  BY <1>3, WriteBufStep
<1>4. ASSUME NEW n \in 1 .. Len(pipe), ReadBuf(n) PROVE FramingInv'
  BY <1>4, ReadBufStep
<1>5. ASSUME NEW b \in Byte, RawWrite(b) PROVE FramingInv'
  BY <1>5, RawWriteStep
<1>6. ASSUME NEW n \in 1 .. Len(pipe), RawRead(n) PROVE FramingInv'
  BY <1>6, RawReadStep
<1>7. CASE StartRead \/ CancelRead
  BY <1>7, StartOrCancelStep
<1> QED
  BY <1>1, <1>2, <1>3, <1>4, <1>5, <1>6, <1>7, ReadSizeStep, ReadOneStep, SwitchToRawStep
     DEF FramingNext

(* In every reachable state, the buffers of both sides and the bytes       *)
(* between them hold the messages that have not been read, from where the  *)
(* reader stands, and the raw bytes behind them.                           *)
THEOREM FramingInvariance == FramingSpec => []FramingInv
<1>1. FramingInv /\ [FramingNext]_framingVars => FramingInv'
  BY FramingStep
<1> QED
  BY <1>1, InitFraming, PTL DEF FramingSpec

(* The reader gets the messages that were sent, whole and in order,        *)
(* however the stream is cut and wherever reads are dropped                *)
(* (protocol/mod.rs:220-262).                                              *)
THEOREM MessagesAreWhole == FramingSpec => []WholeMessagesInOrder
<1>1. FramingInv => WholeMessagesInOrder
  <2> SUFFICES ASSUME FramingInv PROVE WholeMessagesInOrder
    OBVIOUS
  <2>1. PICK unread : Accounted(unread)
    BY DEF FramingInv
  <2>2. received \in Seq(Messages) /\ unread \in Seq(Messages) /\ sent = received \o unread
    BY <2>1 DEF FramingInv, FramingTypeOK, Accounted
  <2>3. Len(received) <= Len(sent)
    BY <2>2
  <2>4. SubSeq(received \o unread, 1, Len(received)) = received
    BY <2>2
  <2> QED
    BY <2>2, <2>3, <2>4 DEF WholeMessagesInOrder, IsPrefixOf, Prefix
<1> QED
  BY <1>1, FramingInvariance, PTL

(* When the copy has taken over, every raw byte is in the reader's buffer, *)
(* copied or on its way, in order (protocol/mod.rs:279-306).               *)
THEOREM RawBytesAreKept == FramingSpec => []RawAccountedFor
<1>1. FramingInv => RawAccountedFor
  BY DEF FramingInv, Phases, RawAccountedFor
<1> QED
  BY <1>1, FramingInvariance, PTL

-----------------------------------------------------------------------------
(* Heartbeats.                                                             *)

(* How long a round has waited, by where the next heartbeat is.  While one *)
(* is on its way it is the age of that heartbeat, and of what preceded it; *)
(* a heartbeat that has arrived is read before any time passes.            *)
NotJoined ==
  client = "joining" =>
    /\ flight = <<>> /\ arrived = 0
    /\ timer <= due /\ due <= MaxDelay
ClientOnTime == client = "up" => due <= Interval + MaxLate
Awaiting ==
  (client = "up" /\ controller = "select" /\ arrived = 0 /\ flight = <<>>) =>
    timer <= due + MaxDelay
OnItsWay ==
  (client = "up" /\ controller = "select" /\ arrived = 0 /\ flight # <<>>) =>
    timer <= flight[1] + Interval + MaxLate + MaxDelay
WritesStopTheClock == controller = "writing" => timer = 0

OnTime ==
  /\ HeartbeatTypeOK
  /\ NotJoined /\ ClientOnTime /\ Awaiting /\ OnItsWay /\ WritesStopTheClock
  /\ LiveClientKept

(* Each round accounts for a timeout of silence at most.                   *)
SilenceAccounted ==
  /\ HeartbeatTypeOK
  /\ controller = "writing" => timer = 0
  /\ silent <= rounds * Timeout + timer + blocked

----------------------------------------------------------------------------
(* The timeout is a number, whatever the width.                            *)
LEMMA TimeoutIsNat == Timeout \in Nat
  BY HeartbeatAssumption DEF Timeout, HeartbeatAssumption

LEMMA OneMoreRound ==
  ASSUME NEW r \in Nat, NEW t \in Nat
  PROVE  /\ r * t \in Nat
         /\ (r + 1) * t = r * t + t
  OBVIOUS

(* The ages of the heartbeats on their way, after one has been sent, has   *)
(* arrived, or has grown older.                                            *)
LEMMA Flights ==
  ASSUME NEW f \in Seq(0 .. MaxDelay)
  PROVE  /\ Append(f, 0) \in Seq(0 .. MaxDelay) /\ Append(f, 0) # <<>>
         /\ Append(f, 0)[1] = IF f = <<>> THEN 0 ELSE f[1]
         /\ f # <<>> => Tail(f) \in Seq(0 .. MaxDelay) /\ f[1] \in 0 .. MaxDelay
         /\ (\A i \in 1 .. Len(f) : f[i] < MaxDelay) =>
              [i \in 1 .. Len(f) |-> f[i] + 1] \in Seq(0 .. MaxDelay)
         /\ f # <<>> => /\ [i \in 1 .. Len(f) |-> f[i] + 1] # <<>>
                        /\ [i \in 1 .. Len(f) |-> f[i] + 1][1] = f[1] + 1
         /\ f = <<>> => [i \in 1 .. Len(f) |-> f[i] + 1] = <<>>
<1>. MaxDelay \in Nat
  BY HeartbeatAssumption DEF HeartbeatAssumption
<1>. DEFINE g == [i \in 1 .. Len(f) |-> f[i] + 1]
<1>e. f = <<>> <=> Len(f) = 0
  BY EmptySeq
<1>1. /\ Append(f, 0) \in Seq(0 .. MaxDelay) /\ Append(f, 0) # <<>>
      /\ Append(f, 0)[1] = IF f = <<>> THEN 0 ELSE f[1]
  <2>1. 0 \in 0 .. MaxDelay /\ Len(f) \in Nat
    OBVIOUS
  <2>2. /\ Append(f, 0) \in Seq(0 .. MaxDelay)
        /\ Len(Append(f, 0)) = Len(f) + 1
        /\ \A i \in 1 .. Len(f) : Append(f, 0)[i] = f[i]
        /\ Append(f, 0)[Len(f) + 1] = 0
    BY <2>1, AppendProperties
  <2>3. Append(f, 0) # <<>>
    BY <2>1, <2>2, EmptySeq
  <2>4. CASE Len(f) = 0
    BY <1>e, <2>2, <2>3, <2>4
  <2>5. CASE Len(f) # 0
    <3>1. 1 \in 1 .. Len(f)
      BY <2>1, <2>5
    <3>. QED  BY <1>e, <2>2, <2>3, <2>5, <3>1
  <2>. QED  BY <2>4, <2>5
<1>2. f # <<>> => Tail(f) \in Seq(0 .. MaxDelay) /\ f[1] \in 0 .. MaxDelay
  OBVIOUS
<1>3. (\A i \in 1 .. Len(f) : f[i] < MaxDelay) => g \in Seq(0 .. MaxDelay)
  <2>. SUFFICES ASSUME \A i \in 1 .. Len(f) : f[i] < MaxDelay
                PROVE  g \in Seq(0 .. MaxDelay)
    OBVIOUS
  <2>1. \A i \in 1 .. Len(f) : f[i] + 1 \in 0 .. MaxDelay
    OBVIOUS
  <2>2. g \in [1 .. Len(f) -> 0 .. MaxDelay]
    BY <2>1
  <2>. QED  BY <2>2
<1>4. f # <<>> => g # <<>> /\ g[1] = f[1] + 1
  <2>. SUFFICES ASSUME f # <<>>
                PROVE  g # <<>> /\ g[1] = f[1] + 1
    OBVIOUS
  <2>1. 1 \in 1 .. Len(f)
    OBVIOUS
  <2>2. g[1] = f[1] + 1
    BY <2>1
  <2>3. DOMAIN g = 1 .. Len(f) /\ DOMAIN <<>> = {}
    OBVIOUS
  <2>. QED  BY <2>1, <2>2, <2>3
<1>5. f = <<>> => g = <<>>
  OBVIOUS
<1>. QED  BY <1>1, <1>2, <1>3, <1>4, <1>5

(* What the rest takes from the types.                                     *)
LEMMA Typed ==
  ASSUME HeartbeatTypeOK
  PROVE  /\ due \in Nat /\ arrived \in Nat /\ silent \in Nat
         /\ timer \in Nat /\ timer <= Timeout /\ Timeout \in Nat
         /\ rounds \in Nat /\ blocked \in Nat
         /\ flight \in Seq(0 .. MaxDelay)
         /\ flight # <<>> => flight[1] \in Nat /\ flight[1] <= MaxDelay
         /\ client \in {"joining", "up", "gone"}
<1>1. /\ due \in Nat /\ arrived \in Nat /\ silent \in Nat
      /\ client \in {"joining", "up", "gone"}
  BY DEF HeartbeatTypeOK
<1>2. /\ timer \in 0 .. Timeout /\ flight \in Seq(0 .. MaxDelay)
      /\ rounds \in 0 .. MaxRounds /\ blocked \in 0 .. MaxBlocked
  BY DEF HeartbeatTypeOK
<1>3. timer \in Nat /\ timer <= Timeout /\ rounds \in Nat /\ blocked \in Nat
  BY <1>2, TimeoutIsNat
<1>4. flight # <<>> => flight[1] \in 0 .. MaxDelay
  BY <1>2, Flights
<1>5. flight # <<>> => flight[1] \in Nat /\ flight[1] <= MaxDelay
  BY <1>4, HeartbeatAssumption DEF HeartbeatAssumption
<1>. QED  BY <1>1, <1>2, <1>3, <1>5, TimeoutIsNat

(* The types hold by the guards of the actions.                            *)
LEMMA TypeInit == Init => HeartbeatTypeOK
  BY HeartbeatAssumption, TimeoutIsNat
  DEF HeartbeatAssumption, Init, HeartbeatTypeOK

LEMMA TypeStep == HeartbeatTypeOK /\ [Next]_vars => HeartbeatTypeOK'
<1>. SUFFICES ASSUME HeartbeatTypeOK, [Next]_vars
              PROVE  HeartbeatTypeOK'
  OBVIOUS
<1>. USE HeartbeatAssumption, TimeoutIsNat DEF HeartbeatAssumption, HeartbeatTypeOK
<1>. <<>> \in Seq(0 .. MaxDelay)
  BY EmptySeq
<1>1. CASE Join
  BY <1>1 DEF Join
<1>2. CASE SendHeartbeat
  BY <1>2, Flights DEF SendHeartbeat
<1>3. CASE Vanish
  BY <1>3 DEF Vanish
<1>4. CASE Arrive
  <2>1. flight' \in Seq(0 .. MaxDelay)
    BY <1>4, Flights DEF Arrive
  <2>2. arrived' \in Nat
    <3>1. arrived \in Nat /\ arrived' = arrived + 1
      BY <1>4 DEF Arrive
    <3>. HIDE DEF HeartbeatTypeOK
    <3>. QED  BY <3>1
  <2>. QED  BY <1>4, <2>1, <2>2 DEF Arrive
<1>5. CASE ReadHeartbeat
  BY <1>5 DEF ReadHeartbeat
<1>6. CASE HeartbeatTimeout
  BY <1>6 DEF HeartbeatTimeout
<1>7. CASE OtherRound
  BY <1>7 DEF OtherRound
<1>8. CASE NewChannel
  BY <1>8 DEF NewChannel
<1>9. CASE Written
  BY <1>9 DEF Written
<1>10. CASE Tick
  <2>1. flight' \in Seq(0 .. MaxDelay)
    BY <1>10, Flights DEF Tick
  <2>2. timer' \in 0 .. Timeout /\ blocked' \in 0 .. MaxBlocked
    <3>1. timer \in 0 .. Timeout /\ blocked \in 0 .. MaxBlocked
      OBVIOUS
    <3>2. \/ timer' = timer + 1 /\ ~(timer >= Timeout) /\ blocked' = blocked
          \/ timer' = timer /\ blocked' = blocked + 1 /\ blocked < MaxBlocked
      BY <1>10 DEF Tick, Expired
    <3>. HIDE DEF HeartbeatTypeOK
    <3>. QED  BY <3>1, <3>2
  <2>3. due' \in Nat /\ silent' \in Nat
    <3>1. due \in Nat /\ silent \in Nat
      OBVIOUS
    <3>2. due' \in {due, due + 1} /\ silent' = silent + 1
      BY <1>10 DEF Tick
    <3>. HIDE DEF HeartbeatTypeOK
    <3>. QED  BY <3>1, <3>2
  <2>4. UNCHANGED <<client, arrived, controller, rounds>>
    BY <1>10 DEF Tick
  <2>. QED  BY <2>1, <2>2, <2>3, <2>4
<1>11. CASE UNCHANGED vars
  BY <1>11 DEF vars
<1>. QED
  BY <1>1, <1>2, <1>3, <1>4, <1>5, <1>6, <1>7, <1>8, <1>9, <1>10, <1>11 DEF Next

(* The ages of heartbeats and all the counts stay within their bounds, and *)
(* a round never waits longer than its timeout (controller.rs:109-110).    *)
THEOREM HeartbeatTypes == Spec => []HeartbeatTypeOK
  BY TypeInit, TypeStep, PTL DEF Spec

----------------------------------------------------------------------------
(* A controller whose round has run out has no live client.                *)
LEMMA NobodyLiveExpires == OnTime /\ HeartbeatTimeout => client = "gone"
<1>. SUFFICES ASSUME OnTime, HeartbeatTimeout, client # "gone"
              PROVE  FALSE
  OBVIOUS
<1>. USE HeartbeatAssumption, PunctualAssumption, TimeoutIsNat
     DEF HeartbeatAssumption, PunctualAssumption
<1>t. HeartbeatTypeOK
  BY DEF OnTime
<1>1. /\ controller = "select" /\ arrived = 0 /\ timer >= Timeout
      /\ timer \in Nat /\ due \in Nat
      /\ client \in {"joining", "up"}
  BY <1>t, Typed DEF HeartbeatTimeout, Expired
<1>2. CASE client = "joining"
  BY <1>1, <1>2 DEF OnTime, NotJoined
<1>3. CASE client = "up" /\ flight = <<>>
  BY <1>1, <1>3 DEF OnTime, Awaiting, ClientOnTime
<1>4. CASE client = "up" /\ flight # <<>>
  <2>1. flight[1] \in Nat /\ flight[1] <= MaxDelay
    BY <1>t, <1>4, Typed
  <2>. QED  BY <1>1, <1>4, <2>1 DEF OnTime, OnItsWay
<1>. QED  BY <1>1, <1>2, <1>3, <1>4

LEMMA OnTimeStep == OnTime /\ [Next]_vars => OnTime'
<1>. SUFFICES ASSUME OnTime, [Next]_vars
              PROVE  OnTime'
  OBVIOUS
<1>c. Interval \in Nat /\ MaxLate \in Nat /\ MaxDelay \in Nat
  BY HeartbeatAssumption DEF HeartbeatAssumption
<1>z. Interval + MaxLate \in Nat /\ 0 <= Interval + MaxLate
  BY <1>c
<1>t. HeartbeatTypeOK /\ HeartbeatTypeOK'
  BY TypeStep DEF OnTime
<1>y. /\ due \in Nat /\ timer \in Nat /\ arrived \in Nat
      /\ flight # <<>> => flight[1] \in Nat
  BY <1>t, Typed
<1>. DEFINE Parts == /\ NotJoined /\ ClientOnTime /\ Awaiting /\ OnItsWay
                     /\ WritesStopTheClock /\ LiveClientKept
<1>. SUFFICES Parts'
  BY <1>t DEF OnTime
<1>. USE DEF OnTime, NotJoined, ClientOnTime, Awaiting, OnItsWay,
             WritesStopTheClock, LiveClientKept
<1>1. CASE Join
  <2>1. NotJoined'
    BY <1>1, <1>c, <1>y DEF Join
  <2>2. ClientOnTime'
    BY <1>1, <1>z DEF Join
  <2>3. Awaiting'
    BY <1>1, <1>c, <1>y DEF Join
  <2>4. OnItsWay'
    BY <1>1, <1>c, <1>y DEF Join
  <2>5. WritesStopTheClock'
    BY <1>1, <1>c, <1>y DEF Join
  <2>6. LiveClientKept'
    BY <1>1, <1>c, <1>y DEF Join
  <2>. QED  BY <2>1, <2>2, <2>3, <2>4, <2>5, <2>6
<1>2. CASE SendHeartbeat
  <2>1. /\ flight' # <<>>
        /\ flight'[1] = IF flight = <<>> THEN 0 ELSE flight[1]
    BY <1>2, <1>t, Typed, Flights DEF SendHeartbeat
  <2>2. NotJoined'
    BY <1>2, <1>c, <1>y, <2>1 DEF SendHeartbeat
  <2>3. ClientOnTime'
    BY <1>2, <1>z DEF SendHeartbeat
  <2>4. Awaiting'
    BY <1>2, <1>c, <1>y, <2>1 DEF SendHeartbeat
  <2>5. OnItsWay'
    BY <1>2, <1>c, <1>y, <2>1 DEF SendHeartbeat
  <2>6. WritesStopTheClock'
    BY <1>2, <1>c, <1>y, <2>1 DEF SendHeartbeat
  <2>7. LiveClientKept'
    BY <1>2, <1>c, <1>y, <2>1 DEF SendHeartbeat
  <2>. QED  BY <2>2, <2>3, <2>4, <2>5, <2>6, <2>7
<1>3. CASE Vanish
  BY <1>3 DEF Vanish
<1>4. CASE Arrive
  <2>1. NotJoined'
    BY <1>4, <1>c, <1>y DEF Arrive
  <2>2. ClientOnTime'
    BY <1>4, <1>c, <1>y DEF Arrive
  <2>3. Awaiting'
    BY <1>4, <1>c, <1>y DEF Arrive
  <2>4. OnItsWay'
    BY <1>4, <1>c, <1>y DEF Arrive
  <2>5. WritesStopTheClock'
    BY <1>4, <1>c, <1>y DEF Arrive
  <2>6. LiveClientKept'
    BY <1>4, <1>c, <1>y DEF Arrive
  <2>. QED  BY <2>1, <2>2, <2>3, <2>4, <2>5, <2>6
<1>5. CASE ReadHeartbeat
  BY <1>5, <1>c, <1>y DEF ReadHeartbeat
<1>6. CASE HeartbeatTimeout
  BY <1>6, NobodyLiveExpires DEF HeartbeatTimeout
<1>7. CASE OtherRound
  BY <1>7, <1>c, <1>y DEF OtherRound
<1>8. CASE NewChannel
  BY <1>8, <1>c, <1>y DEF NewChannel
<1>9. CASE Written
  <2>1. NotJoined'
    BY <1>9, <1>c, <1>y DEF Written
  <2>2. ClientOnTime'
    BY <1>9, <1>c, <1>y DEF Written
  <2>3. Awaiting'
    BY <1>9, <1>c, <1>y DEF Written
  <2>4. OnItsWay'
    BY <1>9, <1>c, <1>y DEF Written
  <2>5. WritesStopTheClock'
    BY <1>9, <1>c, <1>y DEF Written
  <2>6. LiveClientKept'
    BY <1>9, <1>c, <1>y DEF Written
  <2>. QED  BY <2>1, <2>2, <2>3, <2>4, <2>5, <2>6
<1>10. CASE Tick
  <2>1. /\ flight = <<>> <=> flight' = <<>>
        /\ flight # <<>> => flight'[1] = flight[1] + 1
    BY <1>10, <1>t, Typed, Flights DEF Tick
  <2>2. /\ client' = client /\ controller' = controller /\ arrived' = arrived
        /\ client # "gone" => due' = due + 1
        /\ controller = "select" => timer' = timer + 1
        /\ controller = "writing" => timer' = timer
        /\ controller \in {"select", "writing"}
    BY <1>10 DEF Tick
  <2>3. NotJoined'
    <3>. SUFFICES ASSUME client = "joining"
                  PROVE  /\ flight' = <<>> /\ arrived' = 0
                         /\ timer' <= due' /\ due' <= MaxDelay
      BY <2>2
    <3>1. due < MaxDelay /\ timer <= due /\ flight = <<>> /\ arrived = 0
      BY <1>10 DEF Tick
    <3>2. due' = due + 1 /\ timer' \in {timer, timer + 1}
      BY <2>2
    <3>3. timer' <= due' /\ due' <= MaxDelay
      <4>. HIDE DEF OnTime
      <4>1. timer' <= timer + 1 /\ timer + 1 <= due + 1
        BY <1>y, <3>1, <3>2
      <4>2. due + 1 <= MaxDelay
        BY <1>c, <1>y, <3>1
      <4>. QED  BY <1>y, <3>1, <3>2, <4>1, <4>2
    <3>. QED  BY <2>1, <2>2, <3>1, <3>3
  <2>4. ClientOnTime'
    <3>. SUFFICES ASSUME client = "up"
                  PROVE  due' <= Interval + MaxLate
      BY <2>2
    <3>1. due < Interval + MaxLate /\ due' = due + 1
      BY <1>10, <2>2 DEF Tick
    <3>. HIDE DEF OnTime
    <3>. QED  BY <1>y, <1>z, <3>1
  <2>5. Awaiting'
    BY <1>c, <1>y, <2>1, <2>2
  <2>6. OnItsWay'
    BY <1>c, <1>y, <2>1, <2>2
  <2>. QED  BY <2>2, <2>3, <2>4, <2>5, <2>6
<1>11. CASE UNCHANGED vars
  BY <1>11 DEF vars
<1>. QED
  BY <1>1, <1>2, <1>3, <1>4, <1>5, <1>6, <1>7, <1>8, <1>9, <1>10, <1>11 DEF Next

(* A client that is there, and no slower than PunctualAssumption allows,   *)
(* is never taken for dead, whatever else ends the controller's rounds     *)
(* (controller.rs:109-110).                                                *)
THEOREM LiveClientsAreKept == Spec => []LiveClientKept
<1>1. Init => OnTime
  BY TypeInit, HeartbeatAssumption
  DEF HeartbeatAssumption, Init, OnTime, NotJoined, ClientOnTime, Awaiting,
      OnItsWay, WritesStopTheClock, LiveClientKept
<1>2. OnTime => LiveClientKept
  BY DEF OnTime
<1>. QED  BY <1>1, <1>2, OnTimeStep, PTL DEF Spec

----------------------------------------------------------------------------
LEMMA SilenceStep == SilenceAccounted /\ [Next]_vars => SilenceAccounted'
<1>. SUFFICES ASSUME SilenceAccounted, [Next]_vars
              PROVE  SilenceAccounted'
  OBVIOUS
<1>t. HeartbeatTypeOK /\ HeartbeatTypeOK'
  BY TypeStep DEF SilenceAccounted
<1>y. /\ silent \in Nat /\ timer \in Nat /\ timer <= Timeout /\ Timeout \in Nat
      /\ rounds \in Nat /\ blocked \in Nat
  BY <1>t, Typed
<1>. DEFINE spent == rounds * Timeout
<1>p. /\ spent \in Nat
      /\ (rounds + 1) * Timeout = spent + Timeout
      /\ 0 * Timeout = 0
  BY <1>y, OneMoreRound
<1>. HIDE DEF spent
<1>a. /\ controller = "writing" => timer = 0
      /\ silent <= spent + timer + blocked
  BY DEF SilenceAccounted, spent
<1>q. (/\ controller' = "writing" => timer' = 0
       /\ silent' <= rounds' * Timeout + timer' + blocked') => SilenceAccounted'
  BY <1>t DEF SilenceAccounted
<1>s. rounds' = rounds => rounds' * Timeout = spent
  BY DEF spent
<1>1. CASE Join \/ SendHeartbeat \/ Vanish \/ Arrive
  BY <1>1, <1>a, <1>q, <1>s DEF Join, SendHeartbeat, Vanish, Arrive
<1>2. CASE ReadHeartbeat
  BY <1>2, <1>p, <1>q, <1>y DEF ReadHeartbeat
<1>3. CASE HeartbeatTimeout
  BY <1>3, <1>a, <1>q, <1>s DEF HeartbeatTimeout
<1>4. CASE OtherRound \/ NewChannel
  <2>1. /\ rounds' = rounds + 1 /\ timer' = 0
        /\ silent' = silent /\ blocked' = blocked
    BY <1>4 DEF OtherRound, NewChannel
  <2>2. rounds' * Timeout = spent + Timeout
    BY <1>p, <2>1
  <2>3. silent' <= rounds' * Timeout + timer' + blocked'
    BY <1>a, <1>p, <1>y, <2>1, <2>2
  <2>. QED  BY <1>q, <2>1, <2>3
<1>5. CASE Written
  BY <1>5, <1>a, <1>q, <1>s DEF Written
<1>6. CASE Tick
  <2>1. /\ rounds' = rounds /\ silent' = silent + 1 /\ controller' = controller
        /\ \/ timer' = timer + 1 /\ blocked' = blocked /\ controller = "select"
           \/ timer' = timer /\ blocked' = blocked + 1
    BY <1>6 DEF Tick
  <2>. QED  BY <1>a, <1>p, <1>q, <1>s, <1>y, <2>1
<1>7. CASE UNCHANGED vars
  BY <1>7, <1>a, <1>q, <1>s DEF vars
<1>. QED
  BY <1>1, <1>2, <1>3, <1>4, <1>5, <1>6, <1>7 DEF Next

(* A controller hears nothing for ten intervals at most, and for ten more  *)
(* for each round that something else ended, and for what writes block     *)
(* (controller.rs:105-136).                                                *)
THEOREM SilenceIsBounded == Spec => []SilenceBounded
<1>1. Init => SilenceAccounted
  BY TypeInit, TimeoutIsNat, OneMoreRound DEF Init, SilenceAccounted
<1>2. SilenceAccounted => SilenceBounded
  <2>. SUFFICES ASSUME SilenceAccounted PROVE SilenceBounded
    OBVIOUS
  <2>1. /\ silent \in Nat /\ timer \in Nat /\ timer <= Timeout /\ Timeout \in Nat
        /\ rounds \in Nat /\ blocked \in Nat
    BY Typed DEF SilenceAccounted
  <2>2. (rounds + 1) * Timeout = rounds * Timeout + Timeout /\ rounds * Timeout \in Nat
    BY <2>1, OneMoreRound
  <2>. QED  BY <2>1, <2>2 DEF SilenceAccounted, SilenceBounded
<1>. QED  BY <1>1, <1>2, SilenceStep, PTL DEF Spec
=============================================================================
