--------------------------- MODULE SequenceLemmas ---------------------------
(***************************************************************************)
(* Lemmas about the sequences that the models are built from, none about   *)
(* this program: induction over the numbers as a fact about sets, the      *)
(* existence of functions that are defined by recursion, FlattenSeq, and   *)
(* sequences that are cut and joined.                                      *)
(***************************************************************************)
EXTENDS SequencesExt, SequenceTheorems, WellFoundedInduction, TLAPS

-----------------------------------------------------------------------------
(* Induction.                                                              *)

Smaller == {ss \in Nat \X Nat : ss[1] < ss[2]}
(* The numbers have no endless descent.                                    *)
LEMMA NoEndlessDescent == IsWellFoundedOn(Smaller, Nat)
  BY NatLessThanWellFounded DEF OpToRel, Smaller

(* A set with 0, and with n + 1 if it has n, has every number.  (A set:    *)
(* the library's induction over a predicate cannot be cited.)              *)
LEMMA SetInduction ==
  ASSUME NEW T, 0 \in T, \A n \in Nat : n \in T => n + 1 \in T
  PROVE  Nat \subseteq T
<1> SUFFICES ASSUME Nat \ T # {} PROVE FALSE
  OBVIOUS
<1>1. PICK x \in Nat \ T : \A y \in Nat \ T : <<y, x>> \notin Smaller
  BY NoEndlessDescent, WFMin, Nat \ T \subseteq Nat
<1>2. x # 0 /\ x - 1 \in Nat
  OBVIOUS
<1>3. <<x - 1, x>> \in Smaller
  BY <1>2 DEF Smaller
<1>4. x - 1 \in T
  BY <1>1, <1>2, <1>3
<1> QED
  BY <1>2, <1>4

(* A function that is defined by its value at 0 and by a step exists.      *)
IsStep(h, n, D) == h \in [(1 .. n) \X D -> D]
Recurs(f, n, c, h) == f[0] = c /\ \A i \in 1 .. n : f[i] = h[<<i, f[i - 1]>>]

(* One value after the other, by induction over how many there are.        *)
LEMMA RecursionExists ==
  ASSUME NEW D, NEW n \in Nat, NEW c \in D, NEW h, IsStep(h, n, D)
  PROVE  \E f \in [0 .. n -> D] : Recurs(f, n, c, h)
<1> DEFINE T == {k \in Nat : k <= n => \E f \in [0 .. k -> D] : Recurs(f, k, c, h)}
<1>0. h \in [(1 .. n) \X D -> D]
  BY DEF IsStep
<1>1. 0 \in T
  <2>1. [i \in 0 .. 0 |-> c] \in [0 .. 0 -> D] /\ Recurs([i \in 0 .. 0 |-> c], 0, c, h)
    BY DEF Recurs
  <2> QED
    BY <2>1
<1>2. ASSUME NEW k \in Nat, k \in T PROVE k + 1 \in T
  <2> SUFFICES ASSUME k + 1 <= n
               PROVE  \E g \in [0 .. k + 1 -> D] : Recurs(g, k + 1, c, h)
    OBVIOUS
  <2>1. PICK f \in [0 .. k -> D] : Recurs(f, k, c, h)
    BY <1>2
  <2>2. PICK v \in D : v = h[<<k + 1, f[k]>>]
    <3>1. <<k + 1, f[k]>> \in (1 .. n) \X D
      OBVIOUS
    <3> QED
      BY <1>0, <3>1
  <2> DEFINE g == [i \in 0 .. k + 1 |-> IF i = k + 1 THEN v ELSE f[i]]
  <2>3. /\ g \in [0 .. k + 1 -> D] /\ g[k + 1] = v
        /\ \A i \in 0 .. k : g[i] = f[i]
    OBVIOUS
  <2> HIDE DEF g
  <2>4. g[0] = c
    BY <2>1, <2>3 DEF Recurs
  <2>5. ASSUME NEW i \in 1 .. k + 1 PROVE g[i] = h[<<i, g[i - 1]>>]
    <3>1. g[i - 1] = f[i - 1]
      BY <2>3
    <3>2. CASE i = k + 1
      BY <2>2, <2>3, <3>1, <3>2
    <3>3. CASE i # k + 1
      BY <2>1, <2>3, <3>1, <3>3 DEF Recurs
    <3> QED
      BY <3>2, <3>3
  <2> QED
    BY <2>3, <2>4, <2>5 DEF Recurs
<1>3. Nat \subseteq T
  <2> HIDE DEF T
  <2> QED
    BY <1>1, <1>2, SetInduction
<1> QED
  BY <1>3

(* Joining sequences is associative.                                       *)
Associative(S) == \A s, t, u \in Seq(S) : (s \o t) \o u = s \o (t \o u)
LEMMA Associates == \A S : Associative(S)
  BY ConcatAssociative DEF Associative

-----------------------------------------------------------------------------
(* FlattenSeq puts the elements of a sequence behind each other.           *)

\* f holds what the first elements of `seqs` come to.
Flattens(f, seqs, n) ==
  f = [i \in 1 .. n |-> IF i = 1 THEN seqs[i] ELSE f[i - 1] \o seqs[i]]

(* What a flattening is at an index.                                       *)
LEMMA FlatteningStep ==
  ASSUME NEW f, NEW seqs, NEW n \in Nat, Flattens(f, seqs, n), NEW i \in 1 .. n
  PROVE  f[i] = IF i = 1 THEN seqs[i] ELSE f[i - 1] \o seqs[i]
  BY DEF Flattens

(* A sequence of sequences has a flattening.                               *)
LEMMA FlatteningsExist ==
  ASSUME NEW S, NEW seqs \in Seq(Seq(S)), NEW n \in 0 .. Len(seqs)
  PROVE  \E f \in [1 .. n -> Seq(S)] : Flattens(f, seqs, n)
<1> DEFINE T == {k \in Nat : k <= Len(seqs) =>
                     \E f \in [1 .. k -> Seq(S)] : Flattens(f, seqs, k)}
<1>1. Len(seqs) \in Nat /\ \A i \in 1 .. Len(seqs) : seqs[i] \in Seq(S)
  OBVIOUS
<1>2. 0 \in T
  <2>1. [i \in 1 .. 0 |-> <<>>] \in [1 .. 0 -> Seq(S)]
    OBVIOUS
  <2>2. Flattens([i \in 1 .. 0 |-> <<>>], seqs, 0)
    BY DEF Flattens
  <2> QED
    BY <2>1, <2>2
<1>3. ASSUME NEW k \in Nat, k \in T PROVE k + 1 \in T
  <2> SUFFICES ASSUME k + 1 <= Len(seqs)
               PROVE  \E g \in [1 .. k + 1 -> Seq(S)] : Flattens(g, seqs, k + 1)
    OBVIOUS
  <2>1. PICK f \in [1 .. k -> Seq(S)] : Flattens(f, seqs, k)
    BY <1>1, <1>3
  <2> DEFINE last == IF k = 0 THEN seqs[1] ELSE f[k] \o seqs[k + 1]
             g == [i \in 1 .. k + 1 |-> IF i = k + 1 THEN last ELSE f[i]]
  <2>2. last \in Seq(S)
    <3>1. k # 0 => f[k] \in Seq(S)
      OBVIOUS
    <3>2. seqs[1] \in Seq(S) /\ seqs[k + 1] \in Seq(S)
      BY <1>1
    <3> QED
      BY <3>1, <3>2
  <2>3. g \in [1 .. k + 1 -> Seq(S)]
    <3>1. \A i \in 1 .. k + 1 : i # k + 1 => f[i] \in Seq(S)
      OBVIOUS
    <3> HIDE DEF last
    <3> QED
      BY <2>2, <3>1
  <2>4. \A i \in 1 .. k : f[i] = IF i = 1 THEN seqs[i] ELSE f[i - 1] \o seqs[i]
    BY <2>1 DEF Flattens
  <2>5. \A i \in 1 .. k + 1 : g[i] = IF i = 1 THEN seqs[i] ELSE g[i - 1] \o seqs[i]
    <3> SUFFICES ASSUME NEW i \in 1 .. k + 1
                 PROVE  g[i] = IF i = 1 THEN seqs[i] ELSE g[i - 1] \o seqs[i]
      OBVIOUS
    <3>1. CASE i = k + 1 /\ k = 0
      BY <3>1
    <3>2. CASE i = k + 1 /\ k # 0
      <4>1. i - 1 = k /\ i # 1 /\ k \in 1 .. k + 1 /\ k # k + 1
        BY <3>2
      <4>2. g[i - 1] = f[k] /\ g[i] = last
        BY <3>2, <4>1
      <4>3. last = f[k] \o seqs[k + 1]
        BY <3>2
      <4> HIDE DEF g, last
      <4> QED
        BY <3>2, <4>1, <4>2, <4>3
    <3>3. CASE i # k + 1
      <4>1. i \in 1 .. k /\ g[i] = f[i]
        BY <3>3
      <4>2. i # 1 => g[i - 1] = f[i - 1]
        BY <3>3
      <4> HIDE DEF g
      <4> QED
        BY <2>4, <4>1, <4>2
    <3> QED
      BY <3>1, <3>2, <3>3
  <2>6. Flattens(g, seqs, k + 1)
    <3> HIDE DEF last
    <3>1. g = [i \in 1 .. k + 1 |-> g[i]]
      OBVIOUS
    <3> HIDE DEF g
    <3> QED
      BY <2>5, <3>1 DEF Flattens
  <2> QED
    BY <2>3, <2>6
<1>4. Nat \subseteq T
  <2> HIDE DEF T
  <2> QED
    BY <1>2, <1>3, SetInduction
<1> QED
  BY <1>1, <1>4

(* They agree where the sequences do.                                      *)
Agree(a, b, m) == \A i \in 1 .. m : a[i] = b[i]

LEMMA FlatteningsAgree ==
  ASSUME NEW a, NEW b, NEW m \in Nat, NEW n \in Nat, m <= n, Agree(a, b, m),
         NEW f, NEW g, Flattens(f, a, m), Flattens(g, b, n)
  PROVE  Agree(f, g, m)
<1> DEFINE T == {k \in Nat : k \in 1 .. m => f[k] = g[k]}
<1>1. \A i \in 1 .. m : f[i] = IF i = 1 THEN a[i] ELSE f[i - 1] \o a[i]
  BY FlatteningStep
<1>2. \A i \in 1 .. m : g[i] = IF i = 1 THEN b[i] ELSE g[i - 1] \o b[i]
  <2>1. \A i \in 1 .. n : g[i] = IF i = 1 THEN b[i] ELSE g[i - 1] \o b[i]
    BY FlatteningStep
  <2> QED
    BY <2>1
<1>3. 0 \in T
  OBVIOUS
<1>4. ASSUME NEW k \in Nat, k \in T PROVE k + 1 \in T
  <2> SUFFICES ASSUME k + 1 \in 1 .. m PROVE f[k + 1] = g[k + 1]
    OBVIOUS
  <2>1. CASE k = 0
    BY <1>1, <1>2, <2>1 DEF Agree
  <2>2. CASE k # 0
    <3>1. f[k] = g[k] /\ k + 1 # 1 /\ (k + 1) - 1 = k /\ a[k + 1] = b[k + 1]
      BY <1>4, <2>2 DEF Agree
    <3>2. f[k + 1] = f[k] \o a[k + 1] /\ g[k + 1] = g[k] \o b[k + 1]
      BY <1>1, <1>2, <3>1
    <3> QED
      BY <3>1, <3>2
  <2> QED
    BY <2>1, <2>2
<1>5. Nat \subseteq T
  <2> HIDE DEF T
  <2> QED
    BY <1>3, <1>4, SetInduction
<1> QED
  BY <1>5 DEF Agree

(* So FlattenSeq is the last of them.                                      *)
LEMMA FlattenIsLast ==
  ASSUME NEW S, NEW seqs \in Seq(Seq(S)), Len(seqs) # 0
  PROVE  \E f \in [1 .. Len(seqs) -> Seq(S)] :
           Flattens(f, seqs, Len(seqs)) /\ FlattenSeq(seqs) = f[Len(seqs)]
<1> DEFINE n == Len(seqs)
           c == CHOOSE f : Flattens(f, seqs, n)
<1>1. PICK f \in [1 .. n -> Seq(S)] : Flattens(f, seqs, n)
  BY FlatteningsExist
<1>2. Flattens(c, seqs, n)
  BY <1>1
<1>3. c = f
  <2>1. \A i \in 1 .. n : c[i] = f[i]
    <3>1. Agree(seqs, seqs, n) /\ n \in Nat /\ n <= n
      BY LenProperties DEF Agree
    <3>2. Agree(c, f, n)
      BY <1>1, <1>2, <3>1, FlatteningsAgree
    <3> QED
      BY <3>2 DEF Agree
  <2>2. c = [i \in 1 .. n |-> c[i]]
    BY <1>2 DEF Flattens
  <2> HIDE DEF c
  <2> QED
    BY <1>1, <2>1, <2>2
<1>4. FlattenSeq(seqs) = c[n]
  BY DEF FlattenSeq, Flattens
<1> QED
  BY <1>1, <1>3, <1>4

(* Nothing flattens to nothing, and sequences over S to one over S.        *)
LEMMA FlattenEmpty == FlattenSeq(<<>>) = <<>>
  BY DEF FlattenSeq

LEMMA FlattenType ==
  ASSUME NEW S, NEW seqs \in Seq(Seq(S)) PROVE FlattenSeq(seqs) \in Seq(S)
<1>1. CASE Len(seqs) = 0
  BY <1>1, FlattenEmpty, EmptySeq
<1>2. CASE Len(seqs) # 0
  <2>1. PICK f \in [1 .. Len(seqs) -> Seq(S)] : FlattenSeq(seqs) = f[Len(seqs)]
    BY <1>2, FlattenIsLast
  <2>2. Len(seqs) \in 1 .. Len(seqs)
    BY <1>2
  <2> QED
    BY <2>1, <2>2
<1> QED
  BY <1>1, <1>2

(* An element appended is joined to the end.                               *)
LEMMA FlattenAppend ==
  ASSUME NEW S, NEW seqs \in Seq(Seq(S)), NEW s \in Seq(S)
  PROVE  FlattenSeq(Append(seqs, s)) = FlattenSeq(seqs) \o s
<1>1. PICK n \in Nat : n = Len(seqs)
  OBVIOUS
<1>2. PICK more \in Seq(Seq(S)) :
        /\ more = Append(seqs, s) /\ Len(more) = n + 1 /\ more[n + 1] = s
        /\ \A i \in 1 .. n : seqs[i] = more[i]
  <2> DEFINE m == Append(seqs, s)
  <2>1. /\ m \in Seq(Seq(S)) /\ Len(m) = n + 1 /\ m[n + 1] = s
        /\ \A i \in 1 .. n : m[i] = seqs[i]
    BY <1>1, AppendProperties
  <2> QED
    BY <2>1
<1>3. PICK g :
        Flattens(g, more, Len(more)) /\ FlattenSeq(more) = g[Len(more)]
  <2>1. Len(more) # 0
    BY <1>2
  <2> QED
    BY <2>1, FlattenIsLast
<1>4. g[n + 1] = IF n + 1 = 1 THEN more[n + 1] ELSE g[(n + 1) - 1] \o more[n + 1]
  <2>1. Flattens(g, more, n + 1) /\ n + 1 \in Nat /\ n + 1 \in 1 .. n + 1
    BY <1>2, <1>3
  <2> QED
    BY <2>1, FlatteningStep
<1>5. CASE n = 0
  <2>1. seqs = <<>>
    BY <1>1, <1>5, EmptySeq
  <2>2. <<>> \o s = s
    OBVIOUS
  <2> QED
    BY <1>2, <1>3, <1>4, <1>5, <2>1, <2>2, FlattenEmpty
<1>6. CASE n # 0
  <2>1. PICK f : Flattens(f, seqs, n) /\ FlattenSeq(seqs) = f[n]
    BY <1>1, <1>6, FlattenIsLast
  <2>2. \A i \in 1 .. n : f[i] = g[i]
    <3>1. n + 1 \in Nat /\ n <= n + 1 /\ Flattens(g, more, n + 1)
      BY <1>2, <1>3
    <3>2. Agree(seqs, more, n)
      BY <1>2 DEF Agree
    <3>3. Agree(f, g, n)
      BY <2>1, <3>1, <3>2, FlatteningsAgree
    <3> QED
      BY <3>3 DEF Agree
  <2>3. g[(n + 1) - 1] = f[n] /\ n + 1 # 1
    <3>1. (n + 1) - 1 = n /\ n \in 1 .. n /\ n + 1 # 1
      BY <1>6
    <3> QED
      BY <2>2, <3>1, Zenon
  <2> QED
    BY <1>2, <1>3, <1>4, <2>1, <2>3
<1> QED
  BY <1>5, <1>6

(* Induction over the length of the second sequence.                       *)
LEMMA FlattenConcat ==
  ASSUME NEW S, NEW a \in Seq(Seq(S)), NEW b \in Seq(Seq(S))
  PROVE  FlattenSeq(a \o b) = FlattenSeq(a) \o FlattenSeq(b)
<1> DEFINE Holds(t) == FlattenSeq(a \o t) = FlattenSeq(a) \o FlattenSeq(t)
           T == {n \in Nat : \A t \in Seq(Seq(S)) : Len(t) = n => Holds(t)}
<1>1. 0 \in T
  <2> SUFFICES ASSUME NEW t \in Seq(Seq(S)), Len(t) = 0 PROVE Holds(t)
    OBVIOUS
  <2>1. t = <<>> /\ FlattenSeq(t) = <<>>
    BY FlattenEmpty
  <2>2. a \o <<>> = a
    OBVIOUS
  <2>3. FlattenSeq(a) \o <<>> = FlattenSeq(a)
    BY FlattenType
  <2> QED
    BY <2>1, <2>2, <2>3
<1>2. ASSUME NEW n \in Nat, n \in T PROVE n + 1 \in T
  <2> SUFFICES ASSUME NEW t \in Seq(Seq(S)), Len(t) = n + 1 PROVE Holds(t)
    OBVIOUS
  <2>1. PICK u \in Seq(Seq(S)), s \in Seq(S) : t = Append(u, s) /\ Len(u) = n
    <3>1. /\ SubSeq(t, 1, n) \in Seq(Seq(S)) /\ Len(SubSeq(t, 1, n)) = n
          /\ t[n + 1] \in Seq(S)
      OBVIOUS
    <3>2. t = Append(SubSeq(t, 1, n), t[n + 1])
      OBVIOUS
    <3> QED
      BY <3>1, <3>2
  <2>2. a \o t = Append(a \o u, s) /\ a \o u \in Seq(Seq(S))
    BY <2>1
  <2>3. FlattenSeq(a \o t) = FlattenSeq(a \o u) \o s
    BY <2>2, FlattenAppend
  <2>4. FlattenSeq(t) = FlattenSeq(u) \o s
    BY <2>1, FlattenAppend
  <2>5. FlattenSeq(a \o u) = FlattenSeq(a) \o FlattenSeq(u)
    BY <1>2, <2>1
  <2>6. (FlattenSeq(a) \o FlattenSeq(u)) \o s = FlattenSeq(a) \o (FlattenSeq(u) \o s)
    <3>1. FlattenSeq(a) \in Seq(S) /\ FlattenSeq(u) \in Seq(S)
      BY FlattenType
    <3>2. Associative(S)
      BY Associates
    <3> QED
      BY <3>1, <3>2, Zenon DEF Associative
  <2> QED
    BY <2>3, <2>4, <2>5, <2>6
<1>3. Nat \subseteq T
  <2> HIDE DEF T
  <2> QED
    BY <1>1, <1>2, SetInduction
<1>4. Len(b) \in T
  BY <1>3
<1> QED
  BY <1>4

(* The first element comes first.                                          *)
LEMMA FlattenHead ==
  ASSUME NEW S, NEW seqs \in Seq(Seq(S)), seqs # <<>>
  PROVE  FlattenSeq(seqs) = Head(seqs) \o FlattenSeq(Tail(seqs))
<1>1. /\ <<Head(seqs)>> \in Seq(Seq(S)) /\ Tail(seqs) \in Seq(Seq(S))
      /\ Head(seqs) \in Seq(S) /\ seqs = <<Head(seqs)>> \o Tail(seqs)
  OBVIOUS
<1>2. FlattenSeq(<<Head(seqs)>>) = Head(seqs)
  <2>1. <<Head(seqs)>> = Append(<<>>, Head(seqs)) /\ <<>> \in Seq(Seq(S))
    OBVIOUS
  <2>2. FlattenSeq(<<Head(seqs)>>) = FlattenSeq(<<>>) \o Head(seqs)
    BY <1>1, <2>1, FlattenAppend
  <2>3. <<>> \o Head(seqs) = Head(seqs)
    BY <1>1
  <2> QED
    BY <2>2, <2>3, FlattenEmpty
<1> QED
  BY <1>1, <1>2, FlattenConcat

-----------------------------------------------------------------------------
(* Pieces of sequences.                                                    *)

(* The two parts of a sequence that is cut, and that they make it up.      *)
LEMMA CutAndJoined ==
  ASSUME NEW S, NEW s \in Seq(S), NEW n \in 0 .. Len(s)
  PROVE  /\ SubSeq(s, 1, n) \in Seq(S) /\ SubSeq(s, n + 1, Len(s)) \in Seq(S)
         /\ SubSeq(s, 1, n) \o SubSeq(s, n + 1, Len(s)) = s
         /\ Len(SubSeq(s, 1, n)) = n /\ Len(SubSeq(s, n + 1, Len(s))) = Len(s) - n
<1>1. Len(s) \in Nat /\ \A i \in 1 .. Len(s) : s[i] \in S
  OBVIOUS
<1>2. SubSeq(s, 1, n) \in Seq(S) /\ Len(SubSeq(s, 1, n)) = n
  BY <1>1, SubSeqProperties
<1>3. SubSeq(s, n + 1, Len(s)) \in Seq(S) /\ Len(SubSeq(s, n + 1, Len(s))) = Len(s) - n
  BY <1>1, SubSeqProperties
<1>4. SubSeq(s, 1, n) \o SubSeq(s, n + 1, Len(s)) = s
  <2>1. PICK m \in Nat : m = Len(s)
    BY <1>1
  <2>2. 1 \in 1 .. Len(s) + 1 /\ n \in 1 - 1 .. Len(s) /\ m \in n .. Len(s)
    BY <2>1
  <2>3. SubSeq(s, 1, n) \o SubSeq(s, n + 1, m) = SubSeq(s, 1, m)
    BY ONLY <2>2, s \in Seq(S), ConcatAdjacentSubSeq
  <2>4. SubSeq(s, 1, m) = s
    BY <2>1, SubSeqFull
  <2> QED
    BY <2>1, <2>3, <2>4
<1> QED
  BY <1>2, <1>3, <1>4

(* What begins with c, and of which a is there, loses c from a.            *)
LEMMA BeginningIsThere ==
  ASSUME NEW S, NEW a \in Seq(S), NEW b \in Seq(S), NEW c \in Seq(S), NEW d \in Seq(S),
         a \o b = c \o d, Len(c) <= Len(a)
  PROVE  /\ SubSeq(a, 1, Len(c)) = c
         /\ SubSeq(a, Len(c) + 1, Len(a)) \o b = d
<1> DEFINE x == SubSeq(a, 1, Len(c))
           y == SubSeq(a, Len(c) + 1, Len(a))
<1>1. Len(c) \in 0 .. Len(a)
  OBVIOUS
<1>2. x \in Seq(S) /\ y \in Seq(S) /\ x \o y = a /\ Len(x) = Len(c)
  BY <1>1, CutAndJoined
<1> HIDE DEF x, y
<1>3. x \o (y \o b) = c \o d /\ y \o b \in Seq(S)
  <2>0. x \in Seq(S) /\ y \in Seq(S)
    BY <1>2
  <2>1. (x \o y) \o b = x \o (y \o b)
    <3>1. Associative(S)
      BY Associates
    <3> QED
      BY <2>0, <3>1, Zenon DEF Associative
  <2>2. y \o b \in Seq(S)
    BY <1>2, ConcatProperties
  <2> QED
    BY <1>2, <2>1, <2>2
<1>4. x = c
  <2>1. \A i \in 1 .. Len(c) : x[i] = c[i]
    <3> SUFFICES ASSUME NEW i \in 1 .. Len(c) PROVE x[i] = c[i]
      OBVIOUS
    <3>1. (x \o (y \o b))[i] = x[i] /\ (c \o d)[i] = c[i]
      BY <1>2, <1>3, ConcatProperties
    <3> QED
      BY <1>3, <3>1
  <2> QED
    BY <1>2, <2>1, SeqEqual
<1>5. y \o b = d
  BY <1>3, <1>4, ConcatSimplifications
<1> QED
  BY <1>4, <1>5 DEF x, y

(* A piece that moves on from c to b.                                      *)
Moves(b, c, n, S) ==
  /\ b \o SubSeq(c, 1, n) \in Seq(S) /\ SubSeq(c, n + 1, Len(c)) \in Seq(S)
  /\ (b \o SubSeq(c, 1, n)) \o SubSeq(c, n + 1, Len(c)) = b \o c

(* However much of c moves.                                                *)
LEMMA PieceMoves ==
  ASSUME NEW S, NEW b \in Seq(S), NEW c \in Seq(S), NEW n \in 0 .. Len(c)
  PROVE  Moves(b, c, n, S)
<1> DEFINE x == SubSeq(c, 1, n)
           y == SubSeq(c, n + 1, Len(c))
<1>1. x \in Seq(S) /\ y \in Seq(S) /\ x \o y = c
  BY CutAndJoined
<1> HIDE DEF x, y
<1>2. b \o x \in Seq(S)
  BY <1>1, ConcatProperties
<1>3. (b \o x) \o y = b \o (x \o y)
  <2>1. x \in Seq(S) /\ y \in Seq(S)
    BY <1>1
  <2>2. Associative(S)
    BY Associates
  <2> QED
    BY <2>1, <2>2, Zenon DEF Associative
<1> QED
  BY <1>1, <1>2, <1>3 DEF x, y, Moves
=============================================================================
