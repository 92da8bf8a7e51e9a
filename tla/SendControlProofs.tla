--------------------------- MODULE SendControlProofs ---------------------------
(***************************************************************************)
(* Theorems about SendControl, for every set of calls of put_data, message *)
(* size and iovec count, with or without a send thread.                    *)
(*                                                                         *)
(* What is on the wire is compared with what was accepted through the      *)
(* units of all queued messages, FlattenSeq of the queues, so the module   *)
(* first shows what FlattenSeq yields: that a function computes it, by     *)
(* induction on the number of nodes (NatInSet), and how it behaves under   *)
(* Append and \o (SeqInSet).  Then come the parts of the inductive         *)
(* invariant IInv, each with what a step of put_data, of the send thread   *)
(* and of the others does to it, and the theorems at the end.              *)
(***************************************************************************)
EXTENDS SendControl, SequenceTheorems, WellFoundedInduction, TLAPS

-----------------------------------------------------------------------------
(* Induction over the natural numbers and over sequences, stated with a    *)
(* set in the place of a predicate.                                        *)
LEMMA NatInSet ==
    ASSUME NEW T, 0 \in T, \A n \in Nat : n \in T => n + 1 \in T
    PROVE  \A n \in Nat : n \in T
<1> DEFINE R == OpToRel(<, Nat)
           U == Nat \ T
<1>1. SUFFICES ASSUME U # {} PROVE FALSE
  OBVIOUS
<1>2. IsWellFoundedOn(R, Nat)
  BY NatLessThanWellFounded
<1>3. U \subseteq Nat
  OBVIOUS
<1> HIDE DEF U, R
<1>4. PICK x \in U : \A y \in U : ~(<<y, x>> \in R)
  BY <1>1, <1>2, <1>3, WFMin, Zenon
<1> USE DEF U, R
<1>5. x # 0 /\ x \in Nat
  OBVIOUS
<1>6. x - 1 \in Nat /\ x - 1 < x /\ (x - 1) + 1 = x
  BY <1>5
<1>7. <<x - 1, x>> \in R
  BY <1>5, <1>6 DEF OpToRel
<1>8. x - 1 \in T
  BY <1>4, <1>6, <1>7
<1> QED
  BY <1>5, <1>6, <1>8

LEMMA SeqInSet ==
    ASSUME NEW S, NEW T, << >> \in T,
           \A s \in Seq(S), e \in S : s \in T => Append(s, e) \in T
    PROVE  \A s \in Seq(S) : s \in T
<1> DEFINE L == {n \in Nat : \A s \in Seq(S) : Len(s) = n => s \in T}
<1>1. 0 \in L
  BY EmptySeq
<1>2. ASSUME NEW n \in Nat, n \in L
      PROVE  n + 1 \in L
  <2>1. SUFFICES ASSUME NEW s \in Seq(S), Len(s) = n + 1
                 PROVE  s \in T
    OBVIOUS
  <2>2. PICK t \in Seq(S), e \in S : s = Append(t, e)
    BY <2>1, SequenceEmptyOrAppend, EmptySeq
  <2>3. Len(t) = n
    BY <2>1, <2>2, AppendProperties, LenProperties
  <2> QED
    BY <1>2, <2>2, <2>3
<1> HIDE DEF L
<1>3. \A n \in Nat : n \in L
  BY <1>1, <1>2, NatInSet
<1> QED
  BY <1>3, LenProperties DEF L

-----------------------------------------------------------------------------
(* FlattenSeq, which is recursive over the sequence of sequences.          *)
Flattening(f, s, n) == f = [i \in 1 .. n |-> IF i = 1 THEN s[i] ELSE f[i - 1] \o s[i]]

LEMMA FlatteningExists ==
    ASSUME NEW s PROVE \A n \in Nat : \E f : Flattening(f, s, n)
<1> DEFINE T == {n \in Nat : \E f : Flattening(f, s, n)}
<1>1. 0 \in T
  <2>1. Flattening([i \in 1 .. 0 |-> << >>], s, 0)
    BY DEF Flattening
  <2> QED
    BY <2>1
<1>2. ASSUME NEW n \in Nat, n \in T
      PROVE  n + 1 \in T
  <2>1. PICK f : Flattening(f, s, n)
    BY <1>2
  <2> DEFINE g == [i \in 1 .. n + 1 |->
                      IF i = n + 1 THEN IF i = 1 THEN s[i] ELSE f[n] \o s[i] ELSE f[i]]
  <2>2. ASSUME NEW i \in 1 .. n + 1
        PROVE  g[i] = IF i = 1 THEN s[i] ELSE g[i - 1] \o s[i]
    <3>1. CASE i = n + 1
      BY <3>1
    <3>2. CASE i # n + 1
      <4>1. i \in 1 .. n /\ g[i] = f[i]
        BY <3>2
      <4>2. f[i] = IF i = 1 THEN s[i] ELSE f[i - 1] \o s[i]
        BY <2>1, <4>1, Zenon DEF Flattening
      <4>3. i # 1 => i - 1 \in 1 .. n + 1 /\ i - 1 # n + 1
        BY <4>1
      <4> QED
        BY <4>1, <4>2, <4>3
    <3> QED
      BY <3>1, <3>2
  <2>3. Flattening(g, s, n + 1)
    BY <2>2 DEF Flattening
  <2> QED
    BY <2>3
<1> HIDE DEF T
<1>3. \A n \in Nat : n \in T
  BY <1>1, <1>2, NatInSet
<1> QED
  BY <1>3 DEF T

AgreeUpTo(s, t, m) == \A i \in 1 .. m : s[i] = t[i]

(* A flattening of a longer sequence agrees with that of a shorter one.    *)
LEMMA FlatteningAgrees ==
    ASSUME NEW s, NEW t, NEW f, NEW g, NEW m \in Nat, NEW n \in Nat,
           Flattening(f, s, m), Flattening(g, t, n),
           m <= n, AgreeUpTo(s, t, m)
    PROVE  AgreeUpTo(f, g, m)
<1> DEFINE T == {i \in Nat : i \in 1 .. m => f[i] = g[i]}
<1>1. 0 \in T
  OBVIOUS
<1>2. ASSUME NEW i \in Nat, i \in T
      PROVE  i + 1 \in T
  <2>1. SUFFICES ASSUME i + 1 \in 1 .. m
                 PROVE  f[i + 1] = g[i + 1]
    OBVIOUS
  <2> DEFINE j == i + 1
  <2>2. j \in 1 .. m /\ j \in 1 .. n /\ j - 1 = i /\ s[j] = t[j]
    BY <2>1 DEF AgreeUpTo
  <2>3. f[j] = IF j = 1 THEN s[j] ELSE f[j - 1] \o s[j]
    BY <2>2, Zenon DEF Flattening
  <2>4. g[j] = IF j = 1 THEN t[j] ELSE g[j - 1] \o t[j]
    BY <2>2, Zenon DEF Flattening
  <2>5. j # 1 => f[i] = g[i]
    BY <1>2, <2>2
  <2> QED
    BY <2>2, <2>3, <2>4, <2>5
<1> HIDE DEF T
<1>3. \A i \in Nat : i \in T
  BY <1>1, <1>2, NatInSet
<1> QED
  BY <1>3 DEF T, AgreeUpTo

LEMMA FlattenIs ==
    ASSUME NEW s, Len(s) \in Nat, Len(s) # 0
    PROVE  \E f : Flattening(f, s, Len(s)) /\ FlattenSeq(s) = f[Len(s)]
<1> DEFINE f == CHOOSE f : Flattening(f, s, Len(s))
<1>1. Flattening(f, s, Len(s))
  BY FlatteningExists, Zenon
<1>2. FlattenSeq(s) = f[Len(s)]
  BY Zenon DEF FlattenSeq, Flattening
<1> QED
  BY <1>1, <1>2

LEMMA FlattenEmpty == FlattenSeq(<< >>) = << >>
BY EmptySeq DEF FlattenSeq

LEMMA FlattenAppends ==
    ASSUME NEW S, NEW s \in Seq(Seq(S)), NEW e \in Seq(S), FlattenSeq(s) \in Seq(S)
    PROVE  FlattenSeq(Append(s, e)) = FlattenSeq(s) \o e
<1> DEFINE t == Append(s, e)
           m == Len(s)
<1>1. /\ m \in Nat /\ Len(t) = m + 1
      /\ \A i \in 1 .. m : t[i] = s[i]
      /\ t[m + 1] = e
  BY AppendProperties, LenProperties
<1>2. \E g : Flattening(g, t, m + 1) /\ FlattenSeq(t) = g[m + 1]
  <2> HIDE DEF t, m
  <2>1. Len(t) \in Nat /\ Len(t) # 0
    BY <1>1
  <2>2. \E g : Flattening(g, t, Len(t)) /\ FlattenSeq(t) = g[Len(t)]
    BY <2>1, FlattenIs, Zenon
  <2> QED
    BY <1>1, <2>2, Zenon
<1> HIDE DEF t, m
<1>3. PICK g : Flattening(g, t, m + 1) /\ FlattenSeq(t) = g[m + 1]
  BY <1>2
<1>6. g[m + 1] = IF m + 1 = 1 THEN t[m + 1] ELSE g[(m + 1) - 1] \o t[m + 1]
  <2>1. m + 1 \in 1 .. m + 1
    BY <1>1
  <2> QED
    BY <1>3, <2>1, Zenon DEF Flattening
<1>4. CASE m = 0
  <2>1. s = << >>
    BY <1>4, EmptySeq DEF m
  <2>2. FlattenSeq(t) = e
    BY <1>1, <1>3, <1>4, <1>6
  <2> QED
    BY <2>1, <2>2, FlattenEmpty, ConcatEmptySeq DEF t
<1>5. CASE m # 0
  <2>1. PICK f : Flattening(f, s, m) /\ FlattenSeq(s) = f[m]
    BY <1>1, <1>5, FlattenIs, Zenon DEF m
  <2>2. \A i \in 1 .. m : f[i] = g[i]
    <3>1. m \in Nat /\ m + 1 \in Nat /\ m <= m + 1 /\ AgreeUpTo(s, t, m)
      BY <1>1 DEF AgreeUpTo
    <3>2. AgreeUpTo(f, g, m)
      BY <1>3, <2>1, <3>1, FlatteningAgrees, Zenon
    <3> QED
      BY <3>2, Zenon DEF AgreeUpTo
  <2>3. m \in 1 .. m /\ (m + 1) - 1 = m /\ m + 1 # 1
    BY <1>1, <1>5
  <2> QED
    BY <1>1, <1>3, <1>6, <2>1, <2>2, <2>3 DEF t
<1> QED
  BY <1>1, <1>4, <1>5

LEMMA FlattenType ==
    ASSUME NEW S, NEW s \in Seq(Seq(S)) PROVE FlattenSeq(s) \in Seq(S)
<1> DEFINE T == {q \in Seq(Seq(S)) : FlattenSeq(q) \in Seq(S)}
<1>1. << >> \in T
  BY FlattenEmpty, EmptySeq
<1>2. ASSUME NEW q \in Seq(Seq(S)), NEW e \in Seq(S), q \in T
      PROVE  Append(q, e) \in T
  BY <1>2, FlattenAppends, ConcatProperties, AppendProperties
<1> HIDE DEF T
<1>3. \A q \in Seq(Seq(S)) : q \in T
  BY <1>1, <1>2, SeqInSet
<1> QED
  BY <1>3 DEF T

LEMMA FlattenAppend ==
    ASSUME NEW S, NEW s \in Seq(Seq(S)), NEW e \in Seq(S)
    PROVE  FlattenSeq(Append(s, e)) = FlattenSeq(s) \o e
BY FlattenAppends, FlattenType

LEMMA FlattenConcat ==
    ASSUME NEW S, NEW s \in Seq(Seq(S)), NEW t \in Seq(Seq(S))
    PROVE  FlattenSeq(s \o t) = FlattenSeq(s) \o FlattenSeq(t)
<1> DEFINE T == {q \in Seq(Seq(S)) : FlattenSeq(s \o q) = FlattenSeq(s) \o FlattenSeq(q)}
<1>1. << >> \in T
  BY FlattenEmpty, FlattenType, EmptySeq, ConcatEmptySeq
<1>2. ASSUME NEW q \in Seq(Seq(S)), NEW e \in Seq(S), q \in T
      PROVE  Append(q, e) \in T
  <2>1. Append(q, e) \in Seq(Seq(S)) /\ s \o q \in Seq(Seq(S))
    BY AppendProperties, ConcatProperties
  <2>2. s \o Append(q, e) = Append(s \o q, e)
    <3>1. Append(q, e) = q \o <<e>> /\ Append(s \o q, e) = (s \o q) \o <<e>>
      BY <2>1, AppendIsConcat
    <3>2. <<e>> \in Seq(Seq(S))
      OBVIOUS
    <3> QED
      BY <3>1, <3>2, ConcatAssociative
  <2>3. FlattenSeq(Append(s \o q, e)) = FlattenSeq(s \o q) \o e
    BY <2>1, FlattenAppend
  <2>4. FlattenSeq(Append(q, e)) = FlattenSeq(q) \o e
    BY FlattenAppend
  <2>5. (FlattenSeq(s) \o FlattenSeq(q)) \o e = FlattenSeq(s) \o (FlattenSeq(q) \o e)
    <3>1. FlattenSeq(s) \in Seq(S) /\ FlattenSeq(q) \in Seq(S)
      BY FlattenType
    <3> QED
      BY <3>1, ConcatAssociative, SMTT(60)
  <2> QED
    BY <1>2, <2>1, <2>2, <2>3, <2>4, <2>5
<1> HIDE DEF T
<1>3. \A q \in Seq(Seq(S)) : q \in T
  BY <1>1, <1>2, SeqInSet
<1> QED
  BY <1>3 DEF T

LEMMA FlattenOne ==
    ASSUME NEW S, NEW e \in Seq(S) PROVE FlattenSeq(<<e>>) = e
<1>1. Append(<< >>, e) = <<e>> /\ << >> \in Seq(Seq(S))
  BY EmptySeq
<1>2. FlattenSeq(<<e>>) = << >> \o e
  BY <1>1, FlattenAppend, FlattenEmpty
<1> QED
  BY <1>2, ConcatEmptySeq

-----------------------------------------------------------------------------
(* A sequence without its first n elements.                                *)
Rest(n, s) == SubSeq(s, n + 1, Len(s))

LEMMA SubSeqType ==
    ASSUME NEW S, NEW s \in Seq(S), NEW m \in Nat \ {0}, NEW n \in Nat, n <= Len(s)
    PROVE  /\ SubSeq(s, m, n) \in Seq(S)
           /\ Len(SubSeq(s, m, n)) = IF m <= n THEN n - m + 1 ELSE 0
           /\ \A i \in 1 .. n - m + 1 : SubSeq(s, m, n)[i] = s[m + i - 1]
<1>1. \A i \in m .. n : s[i] \in S
  BY ElementOfSeq, LenProperties
<1> QED
  BY <1>1, SubSeqProperties

LEMMA RestProperties ==
    ASSUME NEW S, NEW s \in Seq(S), NEW n \in Nat, n <= Len(s)
    PROVE  /\ Rest(n, s) \in Seq(S)
           /\ Len(Rest(n, s)) = Len(s) - n
           /\ \A i \in 1 .. Len(s) - n : Rest(n, s)[i] = s[n + i]
<1>1. Len(s) \in Nat
  BY LenProperties
<1>2. n + 1 \in Nat \ {0} /\ Len(s) - (n + 1) + 1 = Len(s) - n
  BY <1>1
<1>3. /\ Rest(n, s) \in Seq(S)
      /\ Len(Rest(n, s)) = IF n + 1 <= Len(s) THEN Len(s) - (n + 1) + 1 ELSE 0
      /\ \A i \in 1 .. Len(s) - (n + 1) + 1 : Rest(n, s)[i] = s[(n + 1) + i - 1]
  BY <1>1, <1>2, SubSeqType DEF Rest
<1>4. ASSUME NEW i \in 1 .. Len(s) - n
      PROVE  Rest(n, s)[i] = s[n + i]
  <2>1. (n + 1) + i - 1 = n + i /\ i \in 1 .. Len(s) - (n + 1) + 1
    BY <1>1
  <2> QED
    BY <1>3, <2>1
<1>5. Len(Rest(n, s)) = Len(s) - n
  BY <1>1, <1>3
<1> QED
  BY <1>3, <1>4, <1>5

LEMMA TakeRest ==
    ASSUME NEW S, NEW s \in Seq(S), NEW n \in Nat, n <= Len(s)
    PROVE  SubSeq(s, 1, n) \o Rest(n, s) = s
<1>1. Len(s) \in Nat
  BY LenProperties
<1>2. 1 \in 1 .. Len(s) + 1 /\ n \in 1 - 1 .. Len(s) /\ Len(s) \in n .. Len(s)
  BY <1>1
<1>3. SubSeq(s, 1, n) \o Rest(n, s) = SubSeq(s, 1, Len(s))
  BY <1>2, ConcatAdjacentSubSeq DEF Rest
<1> QED
  BY <1>3, SubSeqFull

LEMMA RestNone ==
    ASSUME NEW S, NEW s \in Seq(S) PROVE Rest(0, s) = s
BY SubSeqFull DEF Rest

LEMMA RestOfConcat ==
    ASSUME NEW S, NEW s \in Seq(S), NEW t \in Seq(S), NEW n \in Nat, n <= Len(s)
    PROVE  Rest(n, s \o t) = Rest(n, s) \o t
<1>1. Len(s) \in Nat /\ Len(t) \in Nat
  BY LenProperties
<1>2. /\ s \o t \in Seq(S) /\ Len(s \o t) = Len(s) + Len(t)
      /\ \A i \in 1 .. Len(s) + Len(t) :
            (s \o t)[i] = IF i <= Len(s) THEN s[i] ELSE t[i - Len(s)]
  BY ConcatProperties
<1>3. /\ Rest(n, s) \in Seq(S) /\ Len(Rest(n, s)) = Len(s) - n
      /\ \A i \in 1 .. Len(s) - n : Rest(n, s)[i] = s[n + i]
  BY RestProperties
<1>4. /\ Rest(n, s \o t) \in Seq(S) /\ Len(Rest(n, s \o t)) = Len(s) + Len(t) - n
      /\ \A i \in 1 .. Len(s) + Len(t) - n : Rest(n, s \o t)[i] = (s \o t)[n + i]
  <2> DEFINE st == s \o t
  <2>1. st \in Seq(S) /\ n <= Len(st) /\ Len(st) = Len(s) + Len(t)
    BY <1>1, <1>2
  <2> HIDE DEF st
  <2>2. /\ Rest(n, st) \in Seq(S)
        /\ Len(Rest(n, st)) = Len(st) - n
        /\ \A i \in 1 .. Len(st) - n : Rest(n, st)[i] = st[n + i]
    BY <2>1, RestProperties
  <2> QED
    BY <2>1, <2>2 DEF st
<1>5. /\ Rest(n, s) \o t \in Seq(S) /\ Len(Rest(n, s) \o t) = Len(s) - n + Len(t)
      /\ \A i \in 1 .. Len(s) - n + Len(t) :
            (Rest(n, s) \o t)[i] = IF i <= Len(s) - n THEN Rest(n, s)[i] ELSE t[i - (Len(s) - n)]
  <2> DEFINE r == Rest(n, s)
  <2>1. r \in Seq(S) /\ Len(r) = Len(s) - n
    BY <1>3
  <2> HIDE DEF r
  <2>2. /\ r \o t \in Seq(S)
        /\ Len(r \o t) = Len(r) + Len(t)
        /\ \A i \in 1 .. Len(r) + Len(t) : (r \o t)[i] = IF i <= Len(r) THEN r[i] ELSE t[i - Len(r)]
    BY <2>1, ConcatProperties
  <2> QED
    BY <2>1, <2>2 DEF r
<1>6. ASSUME NEW i \in 1 .. Len(s) + Len(t) - n
      PROVE  Rest(n, s \o t)[i] = (Rest(n, s) \o t)[i]
  <2>1. i \in 1 .. Len(s) - n + Len(t) /\ n + i \in 1 .. Len(s) + Len(t)
    BY <1>1
  <2>2. Rest(n, s \o t)[i] = IF n + i <= Len(s) THEN s[n + i] ELSE t[n + i - Len(s)]
    BY <1>2, <1>4, <2>1
  <2>3. (Rest(n, s) \o t)[i] = IF i <= Len(s) - n THEN Rest(n, s)[i] ELSE t[i - (Len(s) - n)]
    BY <1>5, <2>1
  <2>4. CASE n + i <= Len(s)
    <3>1. i \in 1 .. Len(s) - n /\ i <= Len(s) - n
      BY <1>1, <2>4
    <3> QED
      BY <1>3, <2>2, <2>3, <2>4, <3>1
  <2>5. CASE ~(n + i <= Len(s))
    <3>1. ~(i <= Len(s) - n) /\ n + i - Len(s) = i - (Len(s) - n)
      BY <1>1, <2>5
    <3> QED
      BY <2>2, <2>3, <2>5, <3>1
  <2> QED
    BY <2>4, <2>5
<1>7. Len(s) + Len(t) - n = Len(s) - n + Len(t)
  BY <1>1
<1> QED
  BY <1>4, <1>5, <1>6, <1>7, SeqEqual

-----------------------------------------------------------------------------
(* Messages, and the nodes of the queues.                                  *)
Unit == Calls \X (1 .. Size)

LEMMA SizeIsPositive == Size \in Nat /\ Size >= 1 /\ IovCount \in Nat /\ IovCount >= 1
BY SizesAssumption

LEMMA MessageIs ==
    ASSUME NEW c \in Calls
    PROVE  /\ Message(c) \in Seq(Unit) /\ Len(Message(c)) = Size
           /\ \A i \in 1 .. Size : Message(c)[i] = <<c, i>>
<1>1. Message(c) \in [1 .. Size -> Unit]
  BY DEF Message, Unit
<1>2. Message(c) \in Seq(Unit) /\ Len(Message(c)) = Size
  BY <1>1, SizeIsPositive
<1> QED
  BY <1>2 DEF Message

LEMMA NodeHas ==
    ASSUME NEW d \in Calls, NEW j \in 1 .. Size PROVE SubSeq(Message(d), j, Size) \in Node
<1>1. j + 0 = j /\ j + 0 \in 1 .. Size
  OBVIOUS
<1>2. SubSeq(Message(d), j + 0, Size) \in Node
  BY <1>1, SizeIsPositive DEF Node
<1> QED
  BY <1>1, <1>2

LEMMA NodeIs ==
    ASSUME NEW x \in Node
    PROVE  x \in Seq(Unit) /\ Len(x) \in Nat /\ Len(x) >= 1
<1>1. PICK c \in Calls, i \in 1 .. Size : x = SubSeq(Message(c), i, Size)
  BY DEF Node
<1>2. i \in Nat \ {0} /\ i <= Size /\ Size \in Nat /\ Size - i + 1 >= 1 /\ Size - i + 1 \in Nat
  BY SizeIsPositive
<1> QED
  BY <1>1, <1>2, MessageIs, SubSeqType

LEMMA NodesAreSeqs == Node \subseteq Seq(Unit) /\ Seq(Node) \subseteq Seq(Seq(Unit))
<1>1. Node \subseteq Seq(Unit)
  BY NodeIs
<1> QED
  BY <1>1, SeqMonotonic

(* A whole message, and what is left of a node.                            *)
LEMMA MessageIsNode == \A c \in Calls : Message(c) \in Node
<1>1. SUFFICES ASSUME NEW c \in Calls PROVE Message(c) \in Node
  OBVIOUS
<1>2. Message(c) = SubSeq(Message(c), 1, Size)
  BY MessageIs, SubSeqFull
<1> QED
  BY <1>2, SizeIsPositive DEF Node

LEMMA RestIsNode ==
    ASSUME NEW x \in Node, NEW n \in Nat, n < Len(x)
    PROVE  Rest(n, x) \in Node
<1>1. PICK c \in Calls, i \in 1 .. Size : x = SubSeq(Message(c), i, Size)
  BY DEF Node
<1> DEFINE m == Message(c)
<1>2. m \in Seq(Unit) /\ Len(m) = Size /\ Size \in Nat
  BY MessageIs, SizeIsPositive
<1> HIDE DEF m
<1>3. Len(x) = Size - i + 1
  <2>1. i \in Nat \ {0} /\ i <= Size
    BY <1>2
  <2>2. Len(SubSeq(m, i, Size)) = IF i <= Size THEN Size - i + 1 ELSE 0
    BY <1>2, <2>1, SubSeqType
  <2> QED
    BY <1>1, <2>1, <2>2 DEF m
<1>4. n + 1 \in 1 .. Size - i + 1 /\ Size - i + 1 \in 1 .. Size - i + 1
  BY <1>2, <1>3
<1>5. SubSeq(SubSeq(m, i, Size), n + 1, Size - i + 1)
         = SubSeq(m, i + (n + 1) - 1, i + (Size - i + 1) - 1)
  <2>1. i \in 1 .. Len(m) /\ Size \in 1 .. Len(m)
    BY <1>2
  <2> QED
    BY <1>2, <1>4, <2>1, SubSeqOfSubSeq
<1>6. i + (n + 1) - 1 = i + n /\ i + (Size - i + 1) - 1 = Size /\ i + n \in 1 .. Size
  BY <1>2, <1>4
<1>7. Rest(n, x) = SubSeq(m, i + n, Size)
  BY <1>1, <1>3, <1>5, <1>6 DEF Rest, m
<1> QED
  BY <1>6, <1>7, NodeHas DEF m

-----------------------------------------------------------------------------
(* The operators of sendv on queue_active_.                                *)
Active == queue_active_ \in Seq(Node)

LEMMA FirstNodesType ==
    ASSUME Active, NEW k \in 0 .. Len(queue_active_)
    PROVE  FirstNodes(k) \in Seq(Unit) /\ Len(FirstNodes(k)) \in Nat
<1>1. k \in Nat /\ k <= Len(queue_active_) /\ 1 \in Nat \ {0}
  BY LenProperties DEF Active
<1>2. SubSeq(queue_active_, 1, k) \in Seq(Node)
  BY <1>1, SubSeqType DEF Active
<1> QED
  BY <1>2, NodesAreSeqs, FlattenType, LenProperties DEF FirstNodes

LEMMA FirstNodesNone == ASSUME Active PROVE FirstNodes(0) = << >>
<1>1. SubSeq(queue_active_, 1, 0) = << >>
  BY SubSeqEmpty
<1> QED
  BY <1>1, FlattenEmpty DEF FirstNodes

LEMMA FirstNodesNext ==
    ASSUME Active, NEW k \in 1 .. Len(queue_active_)
    PROVE  /\ FirstNodes(k) = FirstNodes(k - 1) \o queue_active_[k]
           /\ Len(FirstNodes(k)) = Len(FirstNodes(k - 1)) + Len(queue_active_[k])
<1> DEFINE q == queue_active_
           t == SubSeq(q, 1, k - 1)
<1>1. q \in Seq(Node) /\ Len(q) \in Nat /\ q[k] \in Node
  BY LenProperties, ElementOfSeq DEF Active
<1>2. t \in Seq(Node)
  <2>1. 1 \in Nat \ {0} /\ k - 1 \in Nat /\ k - 1 <= Len(q)
    BY <1>1
  <2> QED
    BY <1>1, <2>1, SubSeqType
<1>3. SubSeq(q, 1, k) = t \o <<q[k]>>
  <2>1. 1 \in 1 .. Len(q) /\ k \in 1 .. Len(q)
    BY <1>1
  <2> QED
    BY <1>1, <2>1, SubSeqRecursiveSecond
<1> HIDE DEF q, t
<1>4. t \o <<q[k]>> = Append(t, q[k])
  BY <1>1, <1>2, AppendIsConcat
<1>5. FlattenSeq(Append(t, q[k])) = FlattenSeq(t) \o q[k]
  BY <1>1, <1>2, NodesAreSeqs, FlattenAppend
<1>6. FirstNodes(k) = FirstNodes(k - 1) \o queue_active_[k]
  BY <1>3, <1>4, <1>5 DEF FirstNodes, q, t
<1>7. FlattenSeq(t) \in Seq(Unit) /\ q[k] \in Seq(Unit)
  BY <1>1, <1>2, NodesAreSeqs, FlattenType
<1>8. Len(FlattenSeq(t) \o q[k]) = Len(FlattenSeq(t)) + Len(q[k])
  BY <1>7, ConcatProperties
<1> QED
  BY <1>6, <1>8 DEF FirstNodes, q, t

LEMMA FirstNodesAll == ASSUME Active PROVE FirstNodes(Len(queue_active_)) = FlattenSeq(queue_active_)
BY SubSeqFull DEF FirstNodes, Active

(* The queue is its first nodes and the others.                            *)
LEMMA FirstNodesSplit ==
    ASSUME Active, NEW k \in 0 .. Len(queue_active_)
    PROVE  /\ Rest(k, queue_active_) \in Seq(Node)
           /\ FlattenSeq(queue_active_) = FirstNodes(k) \o FlattenSeq(Rest(k, queue_active_))
<1> DEFINE q == queue_active_
           t == SubSeq(q, 1, k)
           r == Rest(k, q)
<1>1. q \in Seq(Node) /\ k \in Nat /\ k <= Len(q) /\ 1 \in Nat \ {0}
  BY LenProperties DEF Active
<1>2. t \in Seq(Node) /\ r \in Seq(Node) /\ t \o r = q
  BY <1>1, SubSeqType, RestProperties, TakeRest
<1>3. FirstNodes(k) = FlattenSeq(t)
  BY DEF FirstNodes
<1> HIDE DEF t, r
<1>4. FlattenSeq(t \o r) = FlattenSeq(t) \o FlattenSeq(r)
  BY <1>2, NodesAreSeqs, FlattenConcat
<1> QED
  BY <1>2, <1>3, <1>4 DEF r

LEMMA EndNodeExists ==
    ASSUME Active, NEW n \in 1 .. Len(FlattenSeq(queue_active_))
    PROVE  /\ EndNode(n) \in 1 .. Len(queue_active_)
           /\ Len(FirstNodes(EndNode(n) - 1)) < n
           /\ n <= Len(FirstNodes(EndNode(n)))
<1> DEFINE E(k) == Len(FirstNodes(k - 1)) < n /\ n <= Len(FirstNodes(k))
           L == Len(queue_active_)
           T == {k \in Nat : k \in 0 .. L /\ n <= Len(FirstNodes(k)) => \E j \in 1 .. L : E(j)}
<1>1. L \in Nat /\ n \in Nat /\ n >= 1
  <2>1. Len(FlattenSeq(queue_active_)) \in Nat
    BY NodesAreSeqs, FlattenType, LenProperties DEF Active
  <2> QED
    BY <2>1, LenProperties DEF Active
<1>2. 0 \in T
  <2>1. Len(FirstNodes(0)) = 0
    BY FirstNodesNone, EmptySeq
  <2> QED
    BY <1>1, <2>1
<1>3. ASSUME NEW k \in Nat, k \in T
      PROVE  k + 1 \in T
  <2>1. SUFFICES ASSUME k + 1 \in 0 .. L, n <= Len(FirstNodes(k + 1))
                 PROVE  \E j \in 1 .. L : E(j)
    OBVIOUS
  <2>2. k \in 0 .. L /\ k + 1 \in 1 .. L /\ (k + 1) - 1 = k
    BY <1>1, <2>1
  <2>3. Len(FirstNodes(k)) \in Nat
    BY <2>2, FirstNodesType
  <2>4. CASE n <= Len(FirstNodes(k))
    BY <1>3, <2>2, <2>4
  <2>5. CASE ~(n <= Len(FirstNodes(k)))
    <3>1. E(k + 1)
      BY <1>1, <2>1, <2>2, <2>3, <2>5
    <3> QED
      BY <2>2, <3>1
  <2> QED
    BY <2>4, <2>5
<1> HIDE DEF T
<1>4. L \in T
  BY <1>1, <1>2, <1>3, NatInSet
<1>5. \E j \in 1 .. L : E(j)
  BY <1>1, <1>4, FirstNodesAll DEF T
<1> QED
  BY <1>5, Zenon DEF EndNode

(* What CutQueue leaves of the queue: nodes, and together the units after  *)
(* the first n.                                                            *)
LEMMA WithoutIs ==
    ASSUME Active, NEW n \in 1 .. Len(FlattenSeq(queue_active_))
    PROVE  /\ Without(n) \in Seq(Node)
           /\ FlattenSeq(Without(n)) = Rest(n, FlattenSeq(queue_active_))
<1> DEFINE q == queue_active_
           k == EndNode(n)
           first == FirstNodes(k)
           rest == Rest(n, first)
           others == Rest(k, q)
           p == Len(FirstNodes(k - 1))
<1>1. k \in 1 .. Len(q) /\ p < n /\ n <= Len(first)
  BY EndNodeExists
<1>2. /\ Len(q) \in Nat /\ q[k] \in Node /\ k - 1 \in 0 .. Len(q) /\ k \in 0 .. Len(q)
  <2>1. Len(q) \in Nat
    BY LenProperties DEF Active
  <2> QED
    BY <1>1, <2>1, ElementOfSeq DEF Active
<1>3. FirstNodes(k - 1) \in Seq(Unit) /\ p \in Nat /\ first \in Seq(Unit) /\ Len(first) \in Nat
  BY <1>2, FirstNodesType
<1>4. first = FirstNodes(k - 1) \o q[k] /\ Len(first) = p + Len(q[k])
  BY <1>1, FirstNodesNext
<1>5. others \in Seq(Node) /\ FlattenSeq(q) = first \o FlattenSeq(others)
  BY <1>2, FirstNodesSplit
<1>6. n \in Nat /\ n <= Len(first)
  BY <1>1, <1>3
<1>7. Without(n) = IF rest = << >> THEN others ELSE <<rest>> \o others
  BY DEF Without, Rest
<1> HIDE DEF q, k, first, others, p
<1>8. rest \in Seq(Unit) /\ Len(rest) = Len(first) - n
  BY <1>3, <1>6, RestProperties
<1>9. rest # << >> => rest \in Node
  <2>1. SUFFICES ASSUME rest # << >> PROVE rest \in Node
    OBVIOUS
  <2>2. Len(rest) # 0
    BY <1>8, <2>1, EmptySeq
  <2>3. n - p \in Nat /\ n - p < Len(q[k]) /\ n - p <= Len(q[k])
    <3>1. p \in Nat /\ Len(q[k]) \in Nat /\ Len(first) = p + Len(q[k]) /\ Len(first) - n # 0
      BY <1>2, <1>3, <1>4, <1>8, <2>2, NodeIs
    <3>2. n \in Nat /\ p < n /\ n <= Len(first)
      BY <1>1, <1>6
    <3> QED
      BY <3>1, <3>2
  <2>4. Rest(n - p, q[k]) \in Node
    BY <1>2, <2>3, RestIsNode
  <2>5. rest = Rest(n - p, q[k])
    <3>1. q[k] \in Seq(Unit) /\ Len(q[k]) \in Nat
      BY <1>2, NodeIs
    <3>2. Rest(n - p, q[k]) \in Seq(Unit) /\ Len(Rest(n - p, q[k])) = Len(q[k]) - (n - p)
          /\ \A i \in 1 .. Len(q[k]) - (n - p) : Rest(n - p, q[k])[i] = q[k][(n - p) + i]
      BY <2>3, <3>1, RestProperties
    <3>3. \A i \in 1 .. Len(first) - n : rest[i] = first[n + i]
      BY <1>3, <1>6, RestProperties
    <3>4. \A i \in 1 .. p + Len(q[k]) :
             first[i] = IF i <= p THEN FirstNodes(k - 1)[i] ELSE q[k][i - p]
      BY <1>3, <1>4, <3>1, ConcatProperties DEF p
    <3>5. Len(first) - n = Len(q[k]) - (n - p)
      <4>1. p \in Nat /\ Len(first) = p + Len(q[k]) /\ n \in Nat
        BY <1>3, <1>4, <1>6
      <4> QED
        BY <3>1, <4>1
    <3>6. ASSUME NEW i \in 1 .. Len(first) - n
          PROVE  rest[i] = Rest(n - p, q[k])[i]
      <4>1. n + i \in 1 .. p + Len(q[k]) /\ ~(n + i <= p) /\ (n + i) - p = (n - p) + i
        <5>1. p \in Nat /\ Len(first) = p + Len(q[k]) /\ n \in Nat /\ p < n
          BY <1>1, <1>3, <1>4, <1>6
        <5> QED
          BY <3>1, <5>1
      <4> QED
        BY <3>2, <3>3, <3>4, <3>5, <4>1
    <3> QED
      BY <1>8, <3>2, <3>5, <3>6, SeqEqual
  <2> QED
    BY <2>4, <2>5
<1>10. Without(n) \in Seq(Node) /\ FlattenSeq(Without(n)) = rest \o FlattenSeq(others)
  <2>1. others \in Seq(Seq(Unit)) /\ FlattenSeq(others) \in Seq(Unit)
    BY <1>5, NodesAreSeqs, FlattenType
  <2>2. CASE rest = << >>
    BY <1>5, <1>7, <2>1, <2>2, ConcatEmptySeq
  <2>3. CASE rest # << >>
    <3> HIDE DEF rest
    <3>1. <<rest>> \in Seq(Node) /\ <<rest>> \in Seq(Seq(Unit))
      BY <1>8, <1>9, <2>3
    <3>2. FlattenSeq(<<rest>> \o others) = FlattenSeq(<<rest>>) \o FlattenSeq(others)
      BY <2>1, <3>1, FlattenConcat
    <3>3. FlattenSeq(<<rest>>) = rest
      BY <1>8, FlattenOne
    <3> QED
      BY <1>5, <1>7, <2>3, <3>1, <3>2, <3>3, ConcatProperties
  <2> QED
    BY <2>2, <2>3
<1>11. Rest(n, FlattenSeq(q)) = rest \o FlattenSeq(others)
  <2>1. FlattenSeq(others) \in Seq(Unit)
    BY <1>5, NodesAreSeqs, FlattenType
  <2> QED
    BY <1>3, <1>5, <1>6, <2>1, RestOfConcat
<1> QED
  BY <1>10, <1>11 DEF q

-----------------------------------------------------------------------------
(* Who is where: the threads, the statuses and the mutex.                  *)
Control ==
    /\ DOMAIN pc = Calls \cup Threads
    /\ {current_status_, next_status_} \subseteq {"OPEN", "CLOSE_WAIT", "CLOSE_SEND", "CLOSE"}
    /\ threaded \in BOOLEAN /\ event_mask_ \in BOOLEAN /\ socket_open \in BOOLEAN
    /\ freed \in BOOLEAN /\ failing \in BOOLEAN /\ tick \in BOOLEAN
    /\ ahead \in BOOLEAN /\ success \in BOOLEAN
    /\ mutex_ \in Calls \cup {"closer", "free"}
    /\ \A c \in Calls : (mutex_ = c) <=> (pc[c] \in {"send", "push", "wake"})
    /\ (mutex_ = "closer") <=> (pc["closer"] = "set")
    /\ pc["sender"] \in {"clear", "free", "done"} => ~socket_open

LEMMA Names ==
    /\ {"sender", "runner", "closer"} \subseteq Calls \cup Threads
    /\ Calls \subseteq Calls \cup Threads
    /\ \A c \in Calls : c \notin {"sender", "runner", "closer", "free"}
BY CallsAssumption DEF Threads

LEMMA ControlInit == Init => Control
<1> SUFFICES ASSUME Init PROVE Control
  OBVIOUS
<1>1. threaded \in BOOLEAN
  BY SizesAssumption DEF Init, Opened
<1>2. \A t \in Calls \cup Threads :
         pc[t] = CASE t = "sender" -> IF threaded THEN "scan" ELSE "idle"
                   [] t = "runner" -> "add"
                   [] OTHER -> "start"
  BY DEF Init, Opened
<1>3. pc["sender"] \in {"scan", "idle"} /\ pc["closer"] = "start"
  BY <1>2, Names
<1>4. \A c \in Calls : pc[c] = "start"
  BY <1>2, Names
<1>5. DOMAIN pc = Calls \cup Threads
  BY DEF Init, Opened
<1>6. /\ current_status_ = "OPEN" /\ next_status_ = "OPEN" /\ mutex_ = "free"
      /\ event_mask_ = FALSE /\ socket_open = TRUE /\ freed = FALSE /\ failing = FALSE
      /\ tick = FALSE /\ ahead = FALSE /\ success = FALSE
  BY DEF Init
<1> QED
  BY <1>1, <1>3, <1>4, <1>5, <1>6, Names DEF Control

LEMMA ControlTime ==
    ASSUME Control, GrowOlder \/ SendDelayOver \/ Tick \/ UNCHANGED vars
    PROVE  Control'
<1> USE DEF Control, statusVars, queueVars, clockVars, callVars, sendVars, closeVars, listVars, lifeVars
<1>1. CASE GrowOlder
  BY <1>1 DEF GrowOlder
<1>2. CASE SendDelayOver
  BY <1>2 DEF SendDelayOver
<1>3. CASE Tick
  BY <1>3 DEF Tick
<1>4. CASE UNCHANGED vars
  BY <1>4 DEF vars
<1> QED
  BY <1>1, <1>2, <1>3, <1>4

LEMMA ControlPut ==
    ASSUME Control, NEW c \in Calls, PutStep(c) PROVE Control'
<1> USE Names DEF Goto, Control, statusVars, queueVars, clockVars, callVars, sendVars, closeVars,
                  listVars, lifeVars
<1>1. CASE PutTest(c)
  BY <1>1 DEF PutTest
<1>2. CASE PutLock(c)
  BY <1>2 DEF PutLock
<1>3. CASE \E n \in 1 .. Size : PutSend(c, n)
  BY <1>3 DEF PutSend, Return, Refresh
<1>4. CASE PutAgain(c)
  BY <1>4 DEF PutAgain
<1>5. CASE PutFail(c)
  BY <1>5 DEF PutFail, Return
<1>6. CASE PutPush(c)
  BY <1>6 DEF PutPush
<1>7. CASE PutWake(c)
  BY <1>7 DEF PutWake, Signalled
<1> QED
  BY <1>1, <1>2, <1>3, <1>4, <1>5, <1>6, <1>7 DEF PutStep

LEMMA ControlClose ==
    ASSUME Control, NEW t \in {"runner", "sender"}, CloseStep(t) PROVE Control'
<1> USE Names DEF Goto, After, Control, statusVars, queueVars, clockVars, callVars, sendVars,
                  closeVars, listVars, lifeVars
<1>1. CASE DelHandle(t)
  BY <1>1, ZenonT(60) DEF DelHandle
<1>2. CASE HandleClose(t)
  BY <1>2 DEF HandleClose
<1>3. CASE TakeNextStatus(t)
  BY <1>3 DEF TakeNextStatus
<1> QED
  BY <1>1, <1>2, <1>3 DEF CloseStep

LEMMA ControlRunner ==
    ASSUME Control, CloseWaitTest \/ CloseWaitSet \/ RunnerStep PROVE Control'
<1> USE Names DEF Goto, Control, statusVars, queueVars, clockVars, callVars, sendVars,
                  closeVars, listVars, lifeVars
<1>1. CASE CloseWaitTest
  BY <1>1 DEF CloseWaitTest
<1>2. CASE CloseWaitSet
  BY <1>2 DEF CloseWaitSet
<1>3. CASE AddHandler
  BY <1>3 DEF AddHandler
<1>4. CASE AddSignal
  BY <1>4 DEF AddSignal, Signalled
<1>5. CASE AddHandle
  BY <1>5 DEF AddHandle
<1>6. CASE ReadEvent
  BY <1>6 DEF ReadEvent
<1>7. CASE HandleMessage
  BY <1>7 DEF HandleMessage, Refresh
<1>8. CASE HandleReadFails
  BY <1>8 DEF HandleReadFails
<1>9. CASE CloseStep("runner")
  BY <1>9, ControlClose
<1> QED
  BY <1>1, <1>2, <1>3, <1>4, <1>5, <1>6, <1>7, <1>8, <1>9 DEF RunnerStep

LEMMA ControlSender ==
    ASSUME Control, SenderStep PROVE Control'
<1> USE Names DEF Goto, Control, statusVars, queueVars, clockVars, callVars, sendVars,
                  closeVars, listVars, lifeVars
<1>1. CASE Scan
  BY <1>1, ZenonT(60) DEF Scan, Case
<1>2. CASE WriteData
  BY <1>2 DEF WriteData
<1>3. CASE SwapQueues
  BY <1>3 DEF SwapQueues
<1>4. CASE Sent
  BY <1>4 DEF Sent, SendV
<1>5. CASE SendVAgain
  BY <1>5 DEF SendVAgain
<1>6. CASE SendVFail
  BY <1>6 DEF SendVFail
<1>7. CASE CutQueue
  BY <1>7 DEF CutQueue
<1>8. CASE TestAge
  BY <1>8 DEF TestAge
<1>9. CASE NextStatusClose
  BY <1>9 DEF NextStatusClose
<1>10. CASE CloseStep("sender")
  BY <1>10, ControlClose
<1>11. CASE CurrentStatusClose
  BY <1>11 DEF CurrentStatusClose
<1>12. CASE EventLoop
  BY <1>12 DEF EventLoop
<1>13. CASE RaiseFlag
  BY <1>13 DEF RaiseFlag
<1>14. CASE Block
  BY <1>14 DEF Block
<1>15. CASE WaitOver
  BY <1>15 DEF WaitOver
<1>16. CASE LowerFlag
  BY <1>16 DEF LowerFlag
<1>17. CASE CloseSocket
  BY <1>17 DEF CloseSocket
<1>18. CASE ClearControl
  BY <1>18 DEF ClearControl, Refresh
<1>19. CASE FreeHandler
  BY <1>19 DEF FreeHandler
<1> QED
  BY <1>1, <1>2, <1>3, <1>4, <1>5, <1>6, <1>7, <1>8, <1>9, <1>10, <1>11, <1>12, <1>13, <1>14,
     <1>15, <1>16, <1>17, <1>18, <1>19 DEF SenderStep

LEMMA ControlNext ==
    ASSUME Control, [Next]_vars PROVE Control'
BY ControlTime, ControlPut, ControlRunner, ControlSender DEF Next, Terminated

-----------------------------------------------------------------------------
(* The queues hold nodes; the send thread has taken some of their units;   *)
(* who sends directly found them empty.                                    *)
Queues ==
    /\ queue_active_ \in Seq(Node) /\ queue_standby_ \in Seq(Node)
    /\ pc["sender"] = "cut" => taken \in 1 .. Len(FlattenSeq(queue_active_))
    /\ pc["sender"] # "cut" => taken = 0
    /\ pc["sender"] = "swap" => queue_active_ = << >>
    /\ \A c \in Calls : pc[c] = "send" => queue_active_ = << >> /\ queue_standby_ = << >>

(* What sendv hands to the socket is the beginning of the queue.           *)
LEMMA SendVTakesFirst ==
    ASSUME Active, NEW n \in Nat \ {0}, n <= Len(FirstNodes(node_count))
    PROVE  /\ n \in 1 .. Len(FlattenSeq(queue_active_))
           /\ SubSeq(FirstNodes(node_count), 1, n) = SubSeq(FlattenSeq(queue_active_), 1, n)
<1> DEFINE k == node_count
           first == FirstNodes(k)
           others == FlattenSeq(Rest(k, queue_active_))
<1>1. k \in 0 .. Len(queue_active_)
  BY SizeIsPositive, LenProperties DEF Active, node_count
<1>2. first \in Seq(Unit) /\ Len(first) \in Nat
  BY <1>1, FirstNodesType
<1>3. FlattenSeq(queue_active_) = first \o others /\ others \in Seq(Unit)
  BY <1>1, FirstNodesSplit, NodesAreSeqs, FlattenType
<1>4. n <= Len(first)
  OBVIOUS
<1> HIDE DEF k, first, others
<1>5. 1 \in 1 .. Len(first) /\ n \in 1 .. Len(first) /\ Len(others) \in Nat
  BY <1>2, <1>3, <1>4, LenProperties
<1>6. SubSeq(first \o others, 1, n) = SubSeq(first, 1, n)
  BY <1>2, <1>3, <1>5, SubSeqOfConcat1
<1>7. Len(first \o others) = Len(first) + Len(others)
  BY <1>2, <1>3, ConcatProperties
<1>8. n \in 1 .. Len(first \o others)
  BY <1>2, <1>5, <1>7
<1> QED
  BY <1>3, <1>6, <1>8 DEF first, k

LEMMA QueuesInit == Init => Queues
<1> SUFFICES ASSUME Init PROVE Queues
  OBVIOUS
<1>1. DOMAIN pc = Calls \cup Threads /\ pc["sender"] \in {"scan", "idle"}
      /\ \A c \in Calls : pc[c] = "start"
  <2>1. \A t \in Calls \cup Threads :
           pc[t] = CASE t = "sender" -> IF threaded THEN "scan" ELSE "idle"
                     [] t = "runner" -> "add"
                     [] OTHER -> "start"
    BY DEF Init, Opened
  <2> QED
    BY <2>1, Names DEF Init, Opened
<1> QED
  BY <1>1, EmptySeq DEF Init, Queues

LEMMA QueuesTime ==
    ASSUME Queues, GrowOlder \/ SendDelayOver \/ Tick \/ UNCHANGED vars
    PROVE  Queues'
<1> USE DEF Queues, statusVars, queueVars, clockVars, callVars, sendVars, closeVars, listVars, lifeVars
<1>1. CASE GrowOlder
  BY <1>1 DEF GrowOlder
<1>2. CASE SendDelayOver
  BY <1>2 DEF SendDelayOver
<1>3. CASE Tick
  BY <1>3 DEF Tick
<1>4. CASE UNCHANGED vars
  BY <1>4 DEF vars
<1> QED
  BY <1>1, <1>2, <1>3, <1>4

LEMMA QueuesPut ==
    ASSUME Control, Queues, NEW c \in Calls, PutStep(c) PROVE Queues'
<1> USE Names DEF Goto, Control, Queues, statusVars, queueVars, clockVars, callVars, sendVars,
                  closeVars, listVars, lifeVars
<1>1. CASE PutTest(c)
  BY <1>1 DEF PutTest
<1>2. CASE PutLock(c)
  BY <1>2 DEF PutLock, MaySend
<1>3. ASSUME NEW n \in 1 .. Size, PutSend(c, n) PROVE Queues'
  <2>1. SubSeq(Message(c), n + 1, Size) \in Node \/ n = Size
    <3>1. n = Size \/ n + 1 \in 1 .. Size
      BY SizeIsPositive
    <3> QED
      BY <3>1, NodeHas
  <2>2. queue_standby_' \in Seq(Node)
    <3> DEFINE x == SubSeq(Message(c), n + 1, Size)
    <3>1. CASE n = Size
      BY <1>3, <3>1 DEF PutSend
    <3>2. CASE n # Size
      <4>1. x \in Node /\ queue_standby_' = Append(queue_standby_, x)
        BY <1>3, <2>1, <3>2 DEF PutSend
      <4> HIDE DEF x
      <4> QED
        BY <4>1, AppendProperties
    <3> QED
      BY <3>1, <3>2
  <2>3. \A d \in Calls : pc'[d] # "send"
    BY <1>3 DEF PutSend, Return
  <2> QED
    BY <1>3, <2>2, <2>3 DEF PutSend, Return
<1>4. CASE PutAgain(c)
  BY <1>4 DEF PutAgain
<1>5. CASE PutFail(c)
  BY <1>5 DEF PutFail, Return
<1>6. CASE PutPush(c)
  <2>1. queue_standby_' \in Seq(Node)
    BY <1>6, MessageIsNode, AppendProperties DEF PutPush
  <2>2. \A d \in Calls : pc'[d] # "send"
    BY <1>6 DEF PutPush
  <2> QED
    BY <1>6, <2>1, <2>2 DEF PutPush
<1>7. CASE PutWake(c)
  BY <1>7 DEF PutWake, Signalled
<1> QED
  BY <1>1, <1>2, <1>3, <1>4, <1>5, <1>6, <1>7 DEF PutStep

LEMMA QueuesClose ==
    ASSUME Control, Queues, NEW t \in {"runner", "sender"}, CloseStep(t) PROVE Queues'
<1> USE Names DEF Goto, After, Control, Queues, statusVars, queueVars, clockVars, callVars, sendVars,
                  closeVars, listVars, lifeVars
<1>1. CASE DelHandle(t)
  BY <1>1 DEF DelHandle
<1>2. CASE HandleClose(t)
  BY <1>2 DEF HandleClose
<1>3. CASE TakeNextStatus(t)
  BY <1>3 DEF TakeNextStatus
<1> QED
  BY <1>1, <1>2, <1>3 DEF CloseStep

LEMMA QueuesRunner ==
    ASSUME Control, Queues, CloseWaitTest \/ CloseWaitSet \/ RunnerStep PROVE Queues'
<1> USE Names DEF Goto, Control, Queues, statusVars, queueVars, clockVars, callVars, sendVars,
                  closeVars, listVars, lifeVars
<1>1. CASE CloseWaitTest
  BY <1>1 DEF CloseWaitTest
<1>2. CASE CloseWaitSet
  BY <1>2 DEF CloseWaitSet
<1>3. CASE AddHandler
  BY <1>3 DEF AddHandler
<1>4. CASE AddSignal
  BY <1>4 DEF AddSignal, Signalled
<1>5. CASE AddHandle
  BY <1>5 DEF AddHandle
<1>6. CASE ReadEvent
  BY <1>6 DEF ReadEvent
<1>7. CASE HandleMessage
  BY <1>7 DEF HandleMessage, Refresh
<1>8. CASE HandleReadFails
  BY <1>8 DEF HandleReadFails
<1>9. CASE CloseStep("runner")
  BY <1>9, QueuesClose
<1> QED
  BY <1>1, <1>2, <1>3, <1>4, <1>5, <1>6, <1>7, <1>8, <1>9 DEF RunnerStep

LEMMA QueuesSender ==
    ASSUME Control, Queues, SenderStep PROVE Queues'
<1> USE Names DEF Goto, Control, Queues, statusVars, queueVars, clockVars, callVars, sendVars,
                  closeVars, listVars, lifeVars
<1>1. CASE Scan
  BY <1>1 DEF Scan, Case
<1>2. CASE WriteData
  BY <1>2 DEF WriteData
<1>3. CASE SwapQueues
  BY <1>3 DEF SwapQueues
<1>4. ASSUME NEW n \in 1 .. Size * IovCount, SendV(n) PROVE Queues'
  <2>1. n \in Nat \ {0}
    BY SizeIsPositive
  <2>2. n \in 1 .. Len(FlattenSeq(queue_active_))
    BY <1>4, <2>1, SendVTakesFirst DEF SendV, Active
  <2> QED
    BY <1>4, <2>2 DEF SendV
<1>5. CASE SendVAgain
  BY <1>5 DEF SendVAgain
<1>6. CASE SendVFail
  BY <1>6 DEF SendVFail
<1>7. CASE CutQueue
  <2>1. queue_active_' \in Seq(Node)
    BY <1>7, WithoutIs DEF CutQueue, Active
  <2>2. \A c \in Calls : pc[c] # "send"
    BY <1>7, FlattenEmpty, EmptySeq DEF CutQueue
  <2>3. taken' = 0 /\ pc'["sender"] = "age" /\ \A c \in Calls : pc'[c] = pc[c]
    BY <1>7 DEF CutQueue
  <2> QED
    BY <1>7, <2>1, <2>2, <2>3 DEF CutQueue
<1>8. CASE TestAge
  BY <1>8 DEF TestAge
<1>9. CASE NextStatusClose
  BY <1>9 DEF NextStatusClose
<1>10. CASE CloseStep("sender")
  BY <1>10, QueuesClose
<1>11. CASE CurrentStatusClose
  BY <1>11 DEF CurrentStatusClose
<1>12. CASE EventLoop
  BY <1>12 DEF EventLoop
<1>13. CASE RaiseFlag
  BY <1>13 DEF RaiseFlag
<1>14. CASE Block
  BY <1>14 DEF Block
<1>15. CASE WaitOver
  BY <1>15 DEF WaitOver
<1>16. CASE LowerFlag
  BY <1>16 DEF LowerFlag
<1>17. CASE CloseSocket
  BY <1>17 DEF CloseSocket
<1>18. CASE ClearControl
  BY <1>18, EmptySeq DEF ClearControl, Refresh
<1>19. CASE FreeHandler
  BY <1>19 DEF FreeHandler
<1> QED
  BY <1>1, <1>2, <1>3, <1>4, <1>5, <1>6, <1>7, <1>8, <1>9, <1>10, <1>11, <1>12, <1>13, <1>14,
     <1>15, <1>16, <1>17, <1>18, <1>19 DEF SenderStep, Sent

LEMMA QueuesNext ==
    ASSUME Control, Queues, [Next]_vars PROVE Queues'
BY QueuesTime, QueuesPut, QueuesRunner, QueuesSender DEF Next, Terminated

-----------------------------------------------------------------------------
(* The histories: a call is in order once its message was accepted.        *)
UnitOf(calls) == ToSet(calls) \X (1 .. Size)

Accepts ==
    /\ order \in Seq(Calls)
    /\ \A c \in Calls : pc[c] \in {"start", "lock", "send", "push"} => c \notin ToSet(order)
    /\ DOMAIN result = Calls
    /\ \A c \in Calls : pc[c] # "done" => result[c] = "none"
    /\ \A c \in Calls : result[c] = "fail" => c \notin ToSet(order)

LEMMA ToSetAppend ==
    ASSUME NEW S, NEW s \in Seq(S), NEW e \in S
    PROVE  ToSet(Append(s, e)) = ToSet(s) \cup {e}
<1> DEFINE t == Append(s, e)
<1>1. /\ Len(s) \in Nat /\ DOMAIN s = 1 .. Len(s) /\ DOMAIN t = 1 .. Len(s) + 1
      /\ \A i \in 1 .. Len(s) : t[i] = s[i]
      /\ t[Len(s) + 1] = e
  BY AppendProperties, LenProperties
<1> HIDE DEF t
<1>2. ASSUME NEW x \in ToSet(t) PROVE x \in ToSet(s) \cup {e}
  <2>1. PICK i \in 1 .. Len(s) + 1 : x = t[i]
    BY <1>1 DEF ToSet
  <2> QED
    BY <1>1, <2>1 DEF ToSet
<1>3. ASSUME NEW x \in ToSet(s) PROVE x \in ToSet(t)
  <2>1. PICK i \in 1 .. Len(s) : x = s[i]
    BY <1>1 DEF ToSet
  <2>2. i \in DOMAIN t /\ x = t[i]
    BY <1>1, <2>1
  <2> QED
    BY <2>2 DEF ToSet
<1>4. e \in ToSet(t)
  <2>1. Len(s) + 1 \in DOMAIN t
    BY <1>1
  <2> QED
    BY <1>1, <2>1 DEF ToSet
<1> QED
  BY <1>2, <1>3, <1>4 DEF t

LEMMA ToSetType == ASSUME NEW S, NEW s \in Seq(S) PROVE ToSet(s) \subseteq S
BY LenProperties, ElementOfSeq DEF ToSet

LEMMA AcceptsInit == Init => Accepts
<1> SUFFICES ASSUME Init PROVE Accepts
  OBVIOUS
<1>1. ToSet(<< >>) = {}
  BY DEF ToSet
<1> QED
  BY <1>1, EmptySeq DEF Init, Accepts

(* The steps that accept no message and return from no call.               *)
LEMMA AcceptsOther ==
    ASSUME Control, Accepts, UNCHANGED callVars, \A c \in Calls : pc'[c] = pc[c]
    PROVE  Accepts'
BY DEF Accepts, callVars

LEMMA AcceptsPut ==
    ASSUME Control, Accepts, NEW c \in Calls, PutStep(c) PROVE Accepts'
<1> USE Names DEF Goto, Control, Accepts, callVars
<1>1. CASE PutTest(c)
  BY <1>1 DEF PutTest
<1>2. CASE PutLock(c)
  BY <1>2 DEF PutLock
<1>3. CASE PutAgain(c)
  BY <1>3 DEF PutAgain
<1>4. CASE PutFail(c)
  BY <1>4 DEF PutFail, Return
<1>5. CASE PutWake(c)
  BY <1>5 DEF PutWake, Signalled
<1>6. CASE order' = Append(order, c) /\ ((\E n \in 1 .. Size : PutSend(c, n)) \/ PutPush(c))
  <2>1. order' \in Seq(Calls)
    BY <1>6, AppendProperties
  <2>2. ToSet(order') = ToSet(order) \cup {c}
    BY <1>6, ToSetAppend
  <2>3. /\ DOMAIN result' = Calls
        /\ pc'[c] \in {"wake", "done"} /\ result'[c] # "fail"
        /\ pc'[c] # "done" => result'[c] = "none"
        /\ \A d \in Calls \ {c} : pc'[d] = pc[d] /\ result'[d] = result[d]
    <3>1. pc[c] # "done" /\ result[c] = "none"
      BY <1>6 DEF PutSend, PutPush
    <3>2. CASE PutPush(c)
      BY <3>1, <3>2 DEF PutPush
    <3>3. CASE \E n \in 1 .. Size : PutSend(c, n)
      <4>1. PICK n \in 1 .. Size : PutSend(c, n)
        BY <3>3
      <4>2. CASE n = Size
        BY <3>1, <4>1, <4>2 DEF PutSend, Return
      <4>3. CASE n # Size
        BY <3>1, <4>1, <4>3 DEF PutSend
      <4> QED
        BY <4>2, <4>3
    <3> QED
      BY <1>6, <3>2, <3>3
  <2> QED
    BY <2>1, <2>2, <2>3
<1> QED
  BY <1>1, <1>2, <1>3, <1>4, <1>5, <1>6 DEF PutStep, PutSend, PutPush

(* What the steps of the other threads leave alone.                        *)
OtherStep ==
    \/ GrowOlder \/ SendDelayOver \/ Tick \/ UNCHANGED vars
    \/ CloseWaitTest \/ CloseWaitSet \/ RunnerStep \/ SenderStep

CallsKept == UNCHANGED callVars /\ \A c \in Calls : pc'[c] = pc[c]

StreamIdle ==
    /\ UNCHANGED <<queueVars, taken, wire, order>>
    /\ (pc'["sender"] \in {"free", "done"}) <=> (pc["sender"] \in {"free", "done"})

LEMMA NextSplit ==
    ASSUME [Next]_vars PROVE OtherStep \/ \E c \in Calls : PutStep(c)
BY DEF Next, OtherStep, Terminated

LEMMA TimeKeeps ==
    ASSUME GrowOlder \/ SendDelayOver \/ Tick \/ UNCHANGED vars
    PROVE  CallsKept /\ StreamIdle
<1> USE DEF CallsKept, StreamIdle, vars, callVars, sendVars, queueVars
<1>1. CASE GrowOlder
  BY <1>1 DEF GrowOlder
<1>2. CASE SendDelayOver
  BY <1>2 DEF SendDelayOver
<1>3. CASE Tick
  BY <1>3 DEF Tick
<1>4. CASE UNCHANGED vars
  BY <1>4
<1> QED
  BY <1>1, <1>2, <1>3, <1>4

LEMMA CloseKeeps ==
    ASSUME Control, NEW t \in {"runner", "sender"}, CloseStep(t)
    PROVE  CallsKept /\ StreamIdle
<1> USE Names DEF Goto, After, Control, CallsKept, StreamIdle, callVars, sendVars, queueVars
<1>1. CASE DelHandle(t)
  BY <1>1 DEF DelHandle
<1>2. CASE HandleClose(t)
  BY <1>2 DEF HandleClose
<1>3. CASE TakeNextStatus(t)
  BY <1>3 DEF TakeNextStatus
<1> QED
  BY <1>1, <1>2, <1>3 DEF CloseStep

LEMMA RunnerKeeps ==
    ASSUME Control, CloseWaitTest \/ CloseWaitSet \/ RunnerStep
    PROVE  CallsKept /\ StreamIdle
<1> USE Names DEF Goto, Control, CallsKept, StreamIdle, callVars, sendVars, queueVars
<1>1. CASE CloseWaitTest
  BY <1>1 DEF CloseWaitTest
<1>2. CASE CloseWaitSet
  BY <1>2 DEF CloseWaitSet
<1>3. CASE AddHandler
  BY <1>3 DEF AddHandler
<1>4. CASE AddSignal
  BY <1>4 DEF AddSignal, Signalled
<1>5. CASE AddHandle
  BY <1>5 DEF AddHandle
<1>6. CASE ReadEvent
  BY <1>6 DEF ReadEvent
<1>7. CASE HandleMessage
  BY <1>7 DEF HandleMessage
<1>8. CASE HandleReadFails
  BY <1>8 DEF HandleReadFails
<1>9. CASE CloseStep("runner")
  BY <1>9, CloseKeeps
<1> QED
  BY <1>1, <1>2, <1>3, <1>4, <1>5, <1>6, <1>7, <1>8, <1>9 DEF RunnerStep

LEMMA SenderKeeps ==
    ASSUME Control, SenderStep
    PROVE  CallsKept /\ (SwapQueues \/ Sent \/ CutQueue \/ ClearControl \/ StreamIdle)
<1> USE Names DEF Goto, Control, CallsKept, callVars, sendVars, queueVars
<1>1. CASE Scan
  BY <1>1 DEF Scan, Case, StreamIdle
<1>2. CASE WriteData
  BY <1>2 DEF WriteData, StreamIdle
<1>3. CASE SwapQueues
  BY <1>3 DEF SwapQueues
<1>4. CASE Sent
  BY <1>4 DEF Sent, SendV
<1>5. CASE SendVAgain
  BY <1>5 DEF SendVAgain, StreamIdle
<1>6. CASE SendVFail
  BY <1>6 DEF SendVFail, StreamIdle
<1>7. CASE CutQueue
  BY <1>7 DEF CutQueue
<1>8. CASE TestAge
  BY <1>8 DEF TestAge, StreamIdle
<1>9. CASE NextStatusClose
  BY <1>9 DEF NextStatusClose, StreamIdle
<1>10. CASE CloseStep("sender")
  BY <1>10, CloseKeeps
<1>11. CASE CurrentStatusClose
  BY <1>11 DEF CurrentStatusClose, StreamIdle
<1>12. CASE EventLoop
  BY <1>12 DEF EventLoop, StreamIdle
<1>13. CASE RaiseFlag
  BY <1>13 DEF RaiseFlag, StreamIdle
<1>14. CASE Block
  BY <1>14 DEF Block, StreamIdle
<1>15. CASE WaitOver
  BY <1>15 DEF WaitOver, StreamIdle
<1>16. CASE LowerFlag
  BY <1>16 DEF LowerFlag, StreamIdle
<1>17. CASE CloseSocket
  BY <1>17 DEF CloseSocket, StreamIdle
<1>18. CASE ClearControl
  BY <1>18 DEF ClearControl
<1>19. CASE FreeHandler
  BY <1>19 DEF FreeHandler, StreamIdle
<1> QED
  BY <1>1, <1>2, <1>3, <1>4, <1>5, <1>6, <1>7, <1>8, <1>9, <1>10, <1>11, <1>12, <1>13, <1>14,
     <1>15, <1>16, <1>17, <1>18, <1>19 DEF SenderStep

LEMMA OtherKeeps ==
    ASSUME Control, OtherStep
    PROVE  CallsKept /\ (SwapQueues \/ Sent \/ CutQueue \/ ClearControl \/ StreamIdle)
BY TimeKeeps, RunnerKeeps, SenderKeeps DEF OtherStep

LEMMA AcceptsNext ==
    ASSUME Control, Accepts, [Next]_vars PROVE Accepts'
<1>1. CASE OtherStep
  BY <1>1, OtherKeeps, AcceptsOther DEF CallsKept
<1> QED
  BY <1>1, NextSplit, AcceptsPut

-----------------------------------------------------------------------------
(* The stream: what is on the wire and what is pending.                    *)
LEMMA MessagesType ==
    ASSUME NEW calls \in Seq(Calls)
    PROVE  /\ [i \in DOMAIN calls |-> Message(calls[i])] \in Seq(Seq(UnitOf(calls)))
           /\ Messages(calls) \in Seq(UnitOf(calls))
           /\ Messages(calls) \in Seq(Unit)
<1> DEFINE ms == [i \in DOMAIN calls |-> Message(calls[i])]
<1>1. Len(calls) \in Nat /\ DOMAIN calls = 1 .. Len(calls)
  BY LenProperties
<1>2. ASSUME NEW i \in DOMAIN calls
      PROVE  Message(calls[i]) \in Seq(UnitOf(calls))
  <2>1. calls[i] \in Calls /\ calls[i] \in ToSet(calls)
    BY <1>1, ElementOfSeq DEF ToSet
  <2>2. Message(calls[i]) \in [1 .. Size -> UnitOf(calls)]
    BY <2>1 DEF Message, UnitOf
  <2> QED
    BY <2>2, SizeIsPositive
<1>3. ms \in [1 .. Len(calls) -> Seq(UnitOf(calls))]
  BY <1>1, <1>2
<1>4. ms \in Seq(Seq(UnitOf(calls)))
  BY <1>1, <1>3
<1>5. Messages(calls) \in Seq(UnitOf(calls))
  BY <1>4, FlattenType DEF Messages
<1>6. UnitOf(calls) \subseteq Unit
  BY ToSetType DEF UnitOf, Unit
<1> QED
  BY <1>4, <1>5, <1>6, SeqMonotonic

LEMMA MessagesAppend ==
    ASSUME NEW calls \in Seq(Calls), NEW c \in Calls
    PROVE  Messages(Append(calls, c)) = Messages(calls) \o Message(c)
<1> DEFINE t == Append(calls, c)
           ms == [i \in DOMAIN calls |-> Message(calls[i])]
           mt == [i \in DOMAIN t |-> Message(t[i])]
           m == Message(c)
<1>1. t \in Seq(Calls)
  BY AppendProperties
<1>2. /\ Len(calls) \in Nat /\ DOMAIN calls = 1 .. Len(calls)
      /\ DOMAIN t = 1 .. Len(calls) + 1
      /\ \A i \in 1 .. Len(calls) : t[i] = calls[i]
      /\ t[Len(calls) + 1] = c
  BY AppendProperties, LenProperties
<1>3. m \in Seq(Unit)
  BY MessageIs
<1>4. /\ \A i \in 1 .. Len(calls) : mt[i] = ms[i]
      /\ mt[Len(calls) + 1] = m
  BY <1>2
<1>5. ms \in Seq(Seq(Unit)) /\ mt \in Seq(Seq(Unit))
  <2>1. \A q \in Seq(Calls) : Seq(UnitOf(q)) \subseteq Seq(Unit)
    BY ToSetType, SeqMonotonic DEF UnitOf, Unit
  <2>2. ms \in Seq(Seq(UnitOf(calls))) /\ mt \in Seq(Seq(UnitOf(t)))
    BY <1>1, MessagesType
  <2> HIDE DEF ms, mt, t
  <2> QED
    BY <1>1, <2>1, <2>2, SeqMonotonic
<1>6. Len(ms) = Len(calls) /\ Len(mt) = Len(calls) + 1
  <2>1. DOMAIN ms = 1 .. Len(calls) /\ DOMAIN mt = 1 .. Len(calls) + 1
    BY <1>2
  <2> HIDE DEF ms, mt
  <2> QED
    BY <1>2, <1>5, <2>1, LenProperties
<1> HIDE DEF ms, mt, m, t
<1>7. mt = Append(ms, m)
  <2> DEFINE ma == Append(ms, m)
  <2>1. ma \in Seq(Seq(Unit)) /\ Len(ma) = Len(ms) + 1
        /\ (\A i \in 1 .. Len(ms) : ma[i] = ms[i]) /\ ma[Len(ms) + 1] = m
    BY <1>3, <1>5, AppendProperties
  <2> HIDE DEF ma
  <2>2. ASSUME NEW i \in 1 .. Len(mt) PROVE mt[i] = ma[i]
    <3>1. i \in 1 .. Len(calls) \/ i = Len(calls) + 1
      BY <1>2, <1>6
    <3> QED
      BY <1>4, <1>6, <2>1, <3>1
  <2>3. mt = ma
    BY <1>5, <1>6, <2>1, <2>2, SeqEqual
  <2> QED
    BY <2>3 DEF ma
<1>8. FlattenSeq(mt) = FlattenSeq(ms) \o m
  BY <1>3, <1>5, <1>7, FlattenAppend
<1> QED
  BY <1>8 DEF Messages, ms, mt, m, t

LEMMA PrefixOfConcat ==
    ASSUME NEW S, NEW s \in Seq(S), NEW t \in Seq(S), NEW u \in Seq(S), IsPrefix(s, t)
    PROVE  IsPrefix(s, t \o u)
<1>1. Len(s) \in Nat /\ Len(t) \in Nat /\ Len(u) \in Nat /\ Len(s) <= Len(t)
  BY LenProperties DEF IsPrefix
<1>2. Len(t \o u) = Len(t) + Len(u)
  BY ConcatProperties
<1>3. SubSeq(t \o u, 1, Len(s)) = SubSeq(t, 1, Len(s))
  <2>1. CASE Len(s) = 0
    BY <2>1, SubSeqEmpty
  <2>2. CASE Len(s) # 0
    <3>1. 1 \in 1 .. Len(t) /\ Len(s) \in 1 .. Len(t)
      BY <1>1, <2>2
    <3> QED
      BY <3>1, SubSeqOfConcat1
  <2> QED
    BY <2>1, <2>2
<1>4. Len(s) <= Len(t \o u)
  BY <1>1, <1>2
<1> QED
  BY <1>3, <1>4 DEF IsPrefix

LEMMA PrefixOfSelf ==
    ASSUME NEW S, NEW s \in Seq(S) PROVE IsPrefix(s, s)
BY LenProperties DEF IsPrefix

(* Pending, of any two queues.                                             *)
PendingOf(n, a, b) == LET nodes == FlattenSeq(a \o b) IN SubSeq(nodes, n + 1, Len(nodes))

LEMMA PendingSplit ==
    ASSUME NEW a \in Seq(Node), NEW b \in Seq(Node), NEW n \in Nat, n <= Len(FlattenSeq(a))
    PROVE  /\ PendingOf(n, a, b) = Rest(n, FlattenSeq(a)) \o FlattenSeq(b)
           /\ Rest(n, FlattenSeq(a)) \in Seq(Unit)
           /\ FlattenSeq(a) \in Seq(Unit) /\ FlattenSeq(b) \in Seq(Unit)
           /\ PendingOf(n, a, b) \in Seq(Unit)
<1> DEFINE fa == FlattenSeq(a)
           fb == FlattenSeq(b)
<1>1. fa \in Seq(Unit) /\ fb \in Seq(Unit) /\ FlattenSeq(a \o b) = fa \o fb
  BY NodesAreSeqs, FlattenType, FlattenConcat
<1>2. PendingOf(n, a, b) = Rest(n, fa \o fb)
  BY <1>1 DEF PendingOf, Rest
<1>3. n <= Len(fa)
  OBVIOUS
<1> HIDE DEF fa, fb
<1>4. Rest(n, fa \o fb) = Rest(n, fa) \o fb /\ Rest(n, fa) \in Seq(Unit)
  BY <1>1, <1>3, RestOfConcat, RestProperties
<1>5. Rest(n, fa) \o fb \in Seq(Unit)
  BY <1>1, <1>4, ConcatProperties
<1> QED
  BY <1>1, <1>2, <1>4, <1>5 DEF fa, fb

Stream == wire \in Seq(Unit) /\ StreamKept

LEMMA StreamInit == Init => Stream
<1> SUFFICES ASSUME Init PROVE Stream
  OBVIOUS
<1>1. wire = << >> /\ order = << >> /\ queue_active_ = << >> /\ queue_standby_ = << >> /\ taken = 0
  BY DEF Init
<1>2. pc["sender"] \notin {"free", "done"}
  <2>1. pc["sender"] = IF threaded THEN "scan" ELSE "idle"
    BY Names DEF Init, Opened
  <2> QED
    BY <2>1
<1>3. Messages(<< >>) = << >>
  <2>1. [i \in DOMAIN << >> |-> Message(<< >>[i])] = << >>
    OBVIOUS
  <2> QED
    BY <2>1, FlattenEmpty DEF Messages
<1>4. << >> \in Seq(Node) /\ Len(FlattenSeq(<< >>)) = 0 /\ 0 \in Nat /\ << >> \in Seq(Unit)
  BY FlattenEmpty, EmptySeq
<1>5. PendingOf(0, << >>, << >>) = Rest(0, << >>) \o << >>
  <2>1. << >> \in Seq(Node) /\ 0 \in Nat /\ 0 <= Len(FlattenSeq(<< >>))
    BY <1>4
  <2>2. PendingOf(0, << >>, << >>) = Rest(0, FlattenSeq(<< >>)) \o FlattenSeq(<< >>)
    BY <2>1, PendingSplit
  <2> QED
    BY <2>2, FlattenEmpty
<1>6. Pending = << >>
  BY <1>1, <1>4, <1>5, RestNone, ConcatEmptySeq DEF Pending, PendingOf
<1> QED
  BY <1>1, <1>2, <1>3, <1>4, <1>6, ConcatEmptySeq DEF Stream, StreamKept

LEMMA TakenBound ==
    ASSUME Queues
    PROVE  taken \in Nat /\ taken <= Len(FlattenSeq(queue_active_)) /\ FlattenSeq(queue_active_) \in Seq(Unit)
<1>1. FlattenSeq(queue_active_) \in Seq(Unit) /\ Len(FlattenSeq(queue_active_)) \in Nat
  BY NodesAreSeqs, FlattenType, LenProperties DEF Queues
<1> QED
  BY <1>1 DEF Queues

LEMMA UnitsAssociate ==
    \A s, t, u \in Seq(Unit) : (s \o t) \o u = s \o (t \o u)
BY ConcatAssociative

LEMMA UnitsRegroup ==
    \A w, f, r, b \in Seq(Unit) : (w \o f) \o (r \o b) = w \o ((f \o r) \o b)
<1> TAKE w, f, r, b \in Seq(Unit)
<1>1. r \o b \in Seq(Unit)
  BY ConcatProperties
<1>2. (w \o f) \o (r \o b) = w \o (f \o (r \o b))
  <2>1. \A y, z \in Seq(Unit) : (w \o y) \o z = w \o (y \o z)
    BY UnitsAssociate, Zenon
  <2>2. \A z \in Seq(Unit) : (w \o f) \o z = w \o (f \o z)
    BY <2>1, Zenon
  <2> QED
    BY <1>1, <2>2, Zenon
<1>3. (f \o r) \o b = f \o (r \o b)
  <2>1. \A y, z \in Seq(Unit) : (f \o y) \o z = f \o (y \o z)
    BY UnitsAssociate, Zenon
  <2>2. \A z \in Seq(Unit) : (f \o r) \o z = f \o (r \o z)
    BY <2>1, Zenon
  <2> QED
    BY <2>2, Zenon
<1> QED
  BY <1>2, <1>3, Zenon

(* A message that put_data accepts, in part sent directly or queued whole. *)
LEMMA StreamAccept ==
    ASSUME Control, Queues, Queues', Accepts, Stream, NEW c \in Calls, NEW n \in 0 .. Size,
           order' = Append(order, c),
           wire' = wire \o SubSeq(Message(c), 1, n),
           n = 0 \/ (queue_active_ = << >> /\ queue_standby_ = << >>),
           n # 0 => socket_open,
           queue_active_' = queue_active_, taken' = taken,
           FlattenSeq(queue_standby_') = FlattenSeq(queue_standby_) \o Rest(n, Message(c)),
           pc'["sender"] = pc["sender"]
    PROVE  Stream'
<1> DEFINE m == Message(c)
           fa == FlattenSeq(queue_active_)
           fb == FlattenSeq(queue_standby_)
           ra == Rest(taken, fa)
           first == SubSeq(m, 1, n)
           rest == Rest(n, m)
           ms == Messages(order)
<1>1. m \in Seq(Unit) /\ Len(m) = Size /\ n \in Nat /\ n <= Len(m)
  BY MessageIs, SizeIsPositive
<1>2. /\ wire \in Seq(Unit) /\ ms \in Seq(Unit)
      /\ ra \in Seq(Unit) /\ fa \in Seq(Unit) /\ fb \in Seq(Unit)
      /\ PendingOf(taken, queue_active_, queue_standby_) = ra \o fb
  BY TakenBound, PendingSplit, MessagesType DEF Queues, Accepts, Stream
<1>3. first \in Seq(Unit) /\ rest \in Seq(Unit) /\ first \o rest = m
  <2>1. 1 \in Nat \ {0}
    OBVIOUS
  <2> QED
    BY <1>1, <2>1, SubSeqType, RestProperties, TakeRest
<1>4. Messages(order') = ms \o m
  BY MessagesAppend DEF Accepts
<1>5. PendingOf(taken', queue_active_', queue_standby_') = ra \o (fb \o rest)
  <2>1. queue_active_' \in Seq(Node) /\ queue_standby_' \in Seq(Node)
    BY DEF Queues
  <2> QED
    BY <2>1, TakenBound, PendingSplit
<1> HIDE DEF m, fa, fb, ra, first, rest, ms
<1>6. wire' = wire \o first /\ wire' \in Seq(Unit)
  BY <1>2, <1>3, ConcatProperties DEF m, first
<1>7. CASE pc["sender"] \in {"free", "done"}
  <2>1. n = 0
    BY <1>7 DEF Control
  <2>2. wire' = wire
    <3>1. first = << >>
      BY <2>1, SubSeqEmpty DEF first
    <3> QED
      BY <1>2, <1>6, <3>1, ConcatEmptySeq
  <2>3. IsPrefix(wire, ms)
    BY <1>7 DEF Stream, StreamKept, ms
  <2>4. IsPrefix(wire, ms \o m)
    BY <1>1, <1>2, <2>3, PrefixOfConcat
  <2> QED
    BY <1>4, <1>6, <1>7, <2>2, <2>4 DEF Stream, StreamKept
<1>8. CASE pc["sender"] \notin {"free", "done"}
  <2>1. wire \o (ra \o fb) = ms
    BY <1>2, <1>8 DEF Stream, StreamKept, Pending, PendingOf, ms
  <2>2. (wire \o first) \o (ra \o (fb \o rest)) = ms \o m
    <3>1. CASE n = 0
      <4>1. first = << >>
        BY <3>1, SubSeqEmpty DEF first
      <4>2. wire \o first = wire
        BY <1>2, <4>1, ConcatEmptySeq
      <4>3. rest = m
        BY <1>3, <4>1, ConcatEmptySeq
      <4>4. ra \o (fb \o m) = (ra \o fb) \o m /\ ra \o fb \in Seq(Unit)
        <5>1. ra \in Seq(Unit) /\ fb \in Seq(Unit) /\ m \in Seq(Unit)
          BY <1>1, <1>2
        <5>2. ra \o fb \in Seq(Unit)
          BY <5>1, ConcatProperties
        <5>3. (ra \o fb) \o m = ra \o (fb \o m)
          BY <5>1, UnitsAssociate, Zenon
        <5> QED
          BY <5>2, <5>3
      <4>5. wire \o ((ra \o fb) \o m) = (wire \o (ra \o fb)) \o m
        <5> DEFINE p == ra \o fb
        <5>1. wire \in Seq(Unit) /\ p \in Seq(Unit) /\ m \in Seq(Unit)
          BY <1>1, <1>2, <4>4
        <5> HIDE DEF p
        <5>2. wire \o (p \o m) = (wire \o p) \o m
          BY <5>1, UnitsAssociate, Zenon
        <5> QED
          BY <5>2 DEF p
      <4> QED
        BY <2>1, <4>2, <4>3, <4>4, <4>5
    <3>2. CASE n # 0
      <4>1. queue_active_ = << >> /\ queue_standby_ = << >>
        BY <3>2
      <4>2. fa = << >> /\ fb = << >>
        BY <4>1, FlattenEmpty DEF fa, fb
      <4>3. Len(fa) = 0 /\ taken <= Len(fa) /\ taken \in Nat
        BY <4>2, TakenBound, EmptySeq DEF fa
      <4>4. taken = 0
        BY <4>3
      <4>5. ra = << >>
        BY <1>2, <4>2, <4>4, RestNone DEF ra
      <4>6. ra \o (fb \o rest) = rest /\ ra \o fb = << >>
        BY <1>2, <1>3, <4>2, <4>5, ConcatEmptySeq
      <4>7. wire = ms
        BY <1>2, <2>1, <4>6, ConcatEmptySeq
      <4>8. (wire \o first) \o rest = wire \o (first \o rest)
        <5>1. wire \in Seq(Unit) /\ first \in Seq(Unit) /\ rest \in Seq(Unit)
          BY <1>2, <1>3
        <5> QED
          BY <5>1, UnitsAssociate, Zenon
      <4> QED
        BY <1>3, <4>6, <4>7, <4>8
    <3> QED
      BY <3>1, <3>2
  <2>3. wire' \o PendingOf(taken', queue_active_', queue_standby_') = Messages(order')
    BY <1>4, <1>5, <1>6, <2>2
  <2> QED
    BY <1>6, <1>8, <2>3 DEF Stream, StreamKept, Pending, PendingOf
<1> QED
  BY <1>7, <1>8

LEMMA StreamStays == ASSUME Stream, StreamIdle PROVE Stream'
BY DEF Stream, StreamIdle, StreamKept, Pending, Messages, queueVars

LEMMA StreamPut ==
    ASSUME Control, Queues, Queues', Accepts, Stream, NEW c \in Calls, PutStep(c) PROVE Stream'
<1>1. CASE PutTest(c) \/ PutLock(c) \/ PutAgain(c) \/ PutFail(c) \/ PutWake(c)
  <2> USE Names DEF Goto, Control, StreamIdle, sendVars, queueVars, callVars
  <2>1. CASE PutTest(c)
    BY <2>1, StreamStays DEF PutTest
  <2>2. CASE PutLock(c)
    BY <2>2, StreamStays DEF PutLock
  <2>3. CASE PutAgain(c)
    BY <2>3, StreamStays DEF PutAgain
  <2>4. CASE PutFail(c)
    BY <2>4, StreamStays DEF PutFail, Return
  <2>5. CASE PutWake(c)
    BY <2>5, StreamStays DEF PutWake, Signalled
  <2> QED
    BY <1>1, <2>1, <2>2, <2>3, <2>4, <2>5
<1>2. CASE PutPush(c)
  <2>1. /\ wire' = wire /\ order' = Append(order, c) /\ taken' = taken
        /\ queue_active_' = queue_active_ /\ queue_standby_' = Append(queue_standby_, Message(c))
        /\ pc'["sender"] = pc["sender"]
    BY <1>2, Names DEF PutPush, Goto, Control, sendVars
  <2>2. 0 \in 0 .. Size
    BY SizeIsPositive
  <2>3. wire' = wire \o SubSeq(Message(c), 1, 0)
    <3>1. SubSeq(Message(c), 1, 0) = << >>
      BY SubSeqEmpty
    <3> QED
      BY <2>1, <3>1, ConcatEmptySeq DEF Stream
  <2>4. FlattenSeq(queue_standby_') = FlattenSeq(queue_standby_) \o Rest(0, Message(c))
    <3>1. Rest(0, Message(c)) = Message(c) /\ Message(c) \in Seq(Unit)
      BY MessageIs, RestNone
    <3> QED
      BY <2>1, <3>1, NodesAreSeqs, FlattenAppend DEF Queues
  <2> QED
    BY <2>1, <2>2, <2>3, <2>4, StreamAccept
<1>3. ASSUME NEW n \in 1 .. Size, PutSend(c, n) PROVE Stream'
  <2>1. /\ wire' = wire \o SubSeq(Message(c), 1, n) /\ order' = Append(order, c) /\ taken' = taken
        /\ queue_active_' = queue_active_
        /\ queue_standby_' = IF n = Size THEN queue_standby_
                             ELSE Append(queue_standby_, SubSeq(Message(c), n + 1, Size))
        /\ pc'["sender"] = pc["sender"] /\ socket_open
    BY <1>3, Names DEF PutSend, Return, Goto, Control, sendVars
  <2>2. n \in 0 .. Size /\ queue_active_ = << >> /\ queue_standby_ = << >>
    BY <1>3, SizeIsPositive DEF PutSend, Queues
  <2>3. FlattenSeq(queue_standby_') = FlattenSeq(queue_standby_) \o Rest(n, Message(c))
    <3> DEFINE x == Rest(n, Message(c))
    <3>1. /\ x \in Seq(Unit) /\ x = SubSeq(Message(c), n + 1, Size) /\ Len(x) = Size - n
          /\ FlattenSeq(queue_standby_) = << >>
      <4>1. Message(c) \in Seq(Unit) /\ Len(Message(c)) = Size /\ n \in Nat /\ n <= Size
        BY MessageIs, SizeIsPositive
      <4>2. x \in Seq(Unit) /\ Len(x) = Size - n
        BY <4>1, RestProperties
      <4> QED
        BY <2>2, <4>1, <4>2, FlattenEmpty DEF Rest
    <3> HIDE DEF x
    <3>2. CASE n = Size
      <4>1. x = << >>
        BY <3>1, <3>2, SizeIsPositive, EmptySeq
      <4> QED
        BY <2>1, <3>1, <3>2, <4>1, ConcatEmptySeq DEF x
    <3>3. CASE n # Size
      <4>1. queue_standby_' = <<x>>
        BY <2>1, <2>2, <3>1, <3>3
      <4>2. FlattenSeq(<<x>>) = x /\ << >> \o x = x
        BY <3>1, FlattenOne, ConcatEmptySeq
      <4> QED
        BY <3>1, <4>1, <4>2 DEF x
    <3> QED
      BY <3>2, <3>3
  <2> QED
    BY <2>1, <2>2, <2>3, StreamAccept
<1> QED
  BY <1>1, <1>2, <1>3 DEF PutStep

LEMMA StreamSender ==
    ASSUME Control, Queues, Queues', Accepts, Stream, order' = order,
           SwapQueues \/ Sent \/ CutQueue \/ ClearControl
    PROVE  Stream'
<1> DEFINE a == queue_active_
           b == queue_standby_
           fa == FlattenSeq(a)
           fb == FlattenSeq(b)
           ra == Rest(taken, fa)
           ms == Messages(order)
<1> USE Names DEF Goto, Control
<1>1. /\ wire \in Seq(Unit) /\ ms \in Seq(Unit) /\ a \in Seq(Node) /\ b \in Seq(Node)
      /\ ra \in Seq(Unit) /\ fa \in Seq(Unit) /\ fb \in Seq(Unit)
      /\ PendingOf(taken, a, b) = ra \o fb
      /\ taken \in Nat /\ taken <= Len(fa)
      /\ Messages(order') = ms
  BY TakenBound, PendingSplit, MessagesType DEF Queues, Accepts, Stream
<1>2. pc["sender"] \notin {"free", "done"} => wire \o (ra \o fb) = ms
  BY <1>1 DEF Stream, StreamKept, Pending, PendingOf
<1>3. CASE SwapQueues
  <2>1. a = << >> /\ fa = << >> /\ taken = 0 /\ pc["sender"] = "swap"
    BY <1>3, FlattenEmpty DEF SwapQueues, Queues
  <2>2. /\ queue_active_' = b /\ queue_standby_' = << >> /\ taken' = 0 /\ wire' = wire
        /\ pc'["sender"] = "sendv"
    BY <1>3, <2>1 DEF SwapQueues, sendVars
  <2> HIDE DEF a, b, fa, fb, ra, ms
  <2>3. ra \o fb = fb
    <3>1. ra = << >>
      BY <2>1, RestNone, <1>1 DEF ra
    <3> QED
      BY <1>1, <3>1, ConcatEmptySeq
  <2>4. PendingOf(0, b, << >>) = fb
    <3>1. << >> \in Seq(Node) /\ 0 \in Nat /\ 0 <= Len(fb)
      BY <1>1, EmptySeq, LenProperties
    <3>2. PendingOf(0, b, << >>) = Rest(0, FlattenSeq(b)) \o FlattenSeq(<< >>)
      BY <1>1, <3>1, PendingSplit DEF fb
    <3> QED
      BY <1>1, <3>2, RestNone, FlattenEmpty, ConcatEmptySeq DEF fb
  <2> QED
    BY <1>1, <1>2, <2>1, <2>2, <2>3, <2>4 DEF Stream, StreamKept, Pending, PendingOf
<1>4. CASE Sent
  <2>1. PICK n \in 1 .. Size * IovCount : SendV(n)
    BY <1>4 DEF Sent
  <2>2. n \in Nat \ {0} /\ taken = 0 /\ pc["sender"] = "sendv"
    BY <2>1, SizeIsPositive DEF SendV, Queues
  <2>3. n \in 1 .. Len(fa) /\ wire' = wire \o SubSeq(fa, 1, n)
    BY <2>1, <2>2, SendVTakesFirst DEF SendV, Active, Queues
  <2>4. queue_active_' = a /\ queue_standby_' = b /\ taken' = n /\ pc'["sender"] = "cut"
    BY <2>1 DEF SendV, queueVars
  <2> HIDE DEF a, b, fa, fb, ra, ms
  <2>5. n \in Nat /\ n <= Len(fa)
    BY <1>1, <2>2, <2>3, LenProperties
  <2>6. PendingOf(n, a, b) = Rest(n, fa) \o fb
    BY <1>1, <2>5, PendingSplit DEF fa, fb
  <2> DEFINE first == SubSeq(fa, 1, n)
             rest == Rest(n, fa)
  <2>7. first \in Seq(Unit) /\ rest \in Seq(Unit) /\ first \o rest = fa
    <3>1. 1 \in Nat \ {0}
      OBVIOUS
    <3> QED
      BY <1>1, <2>5, <3>1, SubSeqType, RestProperties, TakeRest
  <2>8. ra = fa
    BY <1>1, <2>2, RestNone DEF ra
  <2> HIDE DEF first, rest
  <2>9. (wire \o first) \o (rest \o fb) = wire \o (fa \o fb)
    <3>1. wire \in Seq(Unit) /\ first \in Seq(Unit) /\ rest \in Seq(Unit) /\ fb \in Seq(Unit)
      BY <1>1, <2>7
    <3>2. (wire \o first) \o (rest \o fb) = wire \o ((first \o rest) \o fb)
      <4>1. wire \in Seq(Unit)
        BY <3>1
      <4>2. first \in Seq(Unit)
        BY <3>1
      <4>3. rest \in Seq(Unit)
        BY <3>1
      <4>4. fb \in Seq(Unit)
        BY <3>1
      <4>5. \A x, y, z \in Seq(Unit) : (wire \o x) \o (y \o z) = wire \o ((x \o y) \o z)
        BY <4>1, UnitsRegroup, Zenon
      <4>6. \A y, z \in Seq(Unit) :
               (wire \o first) \o (y \o z) = wire \o ((first \o y) \o z)
        BY <4>2, <4>5, Zenon
      <4>7. \A z \in Seq(Unit) :
               (wire \o first) \o (rest \o z) = wire \o ((first \o rest) \o z)
        BY <4>3, <4>6, Zenon
      <4> QED
        BY <4>4, <4>7, Zenon
    <3> QED
      BY <2>7, <3>2, Zenon
  <2>10. wire' \in Seq(Unit)
    BY <1>1, <2>3, <2>7, ConcatProperties DEF first
  <2> QED
    BY <1>1, <1>2, <2>2, <2>3, <2>4, <2>6, <2>8, <2>9, <2>10
    DEF Stream, StreamKept, Pending, PendingOf, first, rest
<1>5. CASE CutQueue
  <2>1. pc["sender"] = "cut" /\ taken \in 1 .. Len(fa)
    BY <1>5 DEF CutQueue, Queues
  <2>2. /\ queue_active_' = Without(taken) /\ queue_standby_' = b /\ taken' = 0 /\ wire' = wire
        /\ pc'["sender"] = "age"
    BY <1>5 DEF CutQueue
  <2>3. Without(taken) \in Seq(Node) /\ FlattenSeq(Without(taken)) = ra
    BY <1>1, <2>1, WithoutIs DEF Active
  <2> DEFINE w == Without(taken)
  <2> HIDE DEF a, b, fa, fb, ra, ms, w
  <2>4. PendingOf(0, w, b) = ra \o fb
    <3>1. 0 \in Nat /\ 0 <= Len(FlattenSeq(w)) /\ w \in Seq(Node) /\ FlattenSeq(w) = ra
      BY <1>1, <2>3, LenProperties DEF w
    <3>2. PendingOf(0, w, b) = Rest(0, FlattenSeq(w)) \o FlattenSeq(b)
      BY <1>1, <3>1, PendingSplit
    <3> QED
      BY <1>1, <3>1, <3>2, RestNone DEF fb
  <2> QED
    BY <1>1, <1>2, <2>1, <2>2, <2>4 DEF Stream, StreamKept, Pending, PendingOf, w
<1>6. CASE ClearControl
  <2>1. pc["sender"] = "clear" /\ pc'["sender"] = "free" /\ wire' = wire
    BY <1>6 DEF ClearControl
  <2> HIDE DEF a, b, fa, fb, ra, ms
  <2>2. wire \o (ra \o fb) = ms /\ ra \o fb \in Seq(Unit)
    BY <1>1, <1>2, <2>1, ConcatProperties
  <2>3. IsPrefix(wire, ms)
    <3> DEFINE p == ra \o fb
    <3>1. wire \in Seq(Unit) /\ p \in Seq(Unit) /\ wire \o p = ms
      BY <1>1, <2>2
    <3> HIDE DEF p
    <3>2. IsPrefix(wire, wire)
      BY <3>1, PrefixOfSelf
    <3>3. IsPrefix(wire, wire \o p)
      BY <3>1, <3>2, PrefixOfConcat
    <3> QED
      BY <3>1, <3>3
  <2> QED
    BY <1>1, <2>1, <2>3 DEF Stream, StreamKept, ms
<1> QED
  BY <1>3, <1>4, <1>5, <1>6

LEMMA StreamNext ==
    ASSUME Control, Queues, Queues', Accepts, Stream, [Next]_vars PROVE Stream'
<1>1. CASE OtherStep
  BY <1>1, OtherKeeps, StreamStays, StreamSender DEF CallsKept, callVars
<1> QED
  BY <1>1, NextSplit, StreamPut

-----------------------------------------------------------------------------
(* The results.  Once the queues were cleared, the wire and the queues     *)
(* hold units of accepted messages only; before, the stream says so.       *)
Cleared ==
    pc["sender"] \in {"free", "done"} =>
       /\ queue_active_ = << >> /\ taken = 0
       /\ queue_standby_ \in Seq(Seq(UnitOf(order)))
       /\ wire \in Seq(UnitOf(order))

SentIsOnWire == \A c \in Calls : result[c] = "sent" => ToSet(Message(c)) \subseteq ToSet(wire)

LEMMA ToSetConcat ==
    ASSUME NEW S, NEW s \in Seq(S), NEW t \in Seq(S)
    PROVE  ToSet(s) \subseteq ToSet(s \o t) /\ ToSet(t) \subseteq ToSet(s \o t)
<1> DEFINE u == s \o t
<1>1. /\ Len(s) \in Nat /\ Len(t) \in Nat /\ DOMAIN s = 1 .. Len(s) /\ DOMAIN t = 1 .. Len(t)
      /\ DOMAIN u = 1 .. Len(s) + Len(t)
      /\ \A i \in 1 .. Len(s) + Len(t) : u[i] = IF i <= Len(s) THEN s[i] ELSE t[i - Len(s)]
  BY ConcatProperties, LenProperties
<1> HIDE DEF u
<1>2. ASSUME NEW i \in 1 .. Len(s) PROVE s[i] \in ToSet(u)
  <2>1. i \in DOMAIN u /\ u[i] = s[i]
    BY <1>1
  <2> QED
    BY <2>1 DEF ToSet
<1>3. ASSUME NEW i \in 1 .. Len(t) PROVE t[i] \in ToSet(u)
  <2>1. i + Len(s) \in DOMAIN u /\ u[i + Len(s)] = t[i]
    BY <1>1, SMTT(60)
  <2> QED
    BY <2>1 DEF ToSet
<1> QED
  BY <1>1, <1>2, <1>3 DEF ToSet, u

(* A sequence whose continuation is over a set is over it.                 *)
LEMMA FirstPartType ==
    ASSUME NEW S, NEW s \in Seq(S), NEW t \in Seq(S), NEW U, s \o t \in Seq(U)
    PROVE  s \in Seq(U)
<1>1. /\ Len(s) \in Nat /\ Len(t) \in Nat /\ s \in [1 .. Len(s) -> S] /\ Len(s \o t) = Len(s) + Len(t)
      /\ \A i \in 1 .. Len(s) + Len(t) : (s \o t)[i] = IF i <= Len(s) THEN s[i] ELSE t[i - Len(s)]
  BY ConcatProperties, LenProperties
<1>2. ASSUME NEW i \in 1 .. Len(s) PROVE s[i] \in U
  <2>1. i \in 1 .. Len(s \o t) /\ i \in 1 .. Len(s) + Len(t) /\ i <= Len(s)
    BY <1>1
  <2>2. (s \o t)[i] \in U
    BY <2>1, ElementOfSeq
  <2> QED
    BY <1>1, <2>1, <2>2
<1>3. s \in [1 .. Len(s) -> U]
  BY <1>1, <1>2
<1> QED
  BY <1>1, <1>3

LEMMA UnitOfGrows ==
    ASSUME NEW calls \in Seq(Calls), NEW c \in Calls
    PROVE  /\ UnitOf(calls) \subseteq UnitOf(Append(calls, c))
           /\ Message(c) \in Seq(UnitOf(Append(calls, c)))
           /\ Seq(UnitOf(calls)) \subseteq Seq(UnitOf(Append(calls, c)))
           /\ Seq(Seq(UnitOf(calls))) \subseteq Seq(Seq(UnitOf(Append(calls, c))))
<1> DEFINE old == UnitOf(calls)
           new == UnitOf(Append(calls, c))
<1>1. ToSet(Append(calls, c)) = ToSet(calls) \cup {c}
  BY ToSetAppend
<1>2. old \subseteq new
  BY <1>1 DEF UnitOf
<1>3. Message(c) \in Seq(new)
  <2>1. Message(c) \in [1 .. Size -> new]
    BY <1>1 DEF Message, UnitOf
  <2> QED
    BY <2>1, SizeIsPositive
<1> HIDE DEF old, new
<1>4. Seq(old) \subseteq Seq(new)
  BY <1>2, SeqMonotonic
<1>5. Seq(Seq(old)) \subseteq Seq(Seq(new))
  BY <1>4, SeqMonotonic
<1> QED
  BY <1>2, <1>3, <1>4, <1>5 DEF old, new

LEMMA ClearedPut ==
    ASSUME Control, Accepts, Cleared, NEW c \in Calls, PutStep(c) PROVE Cleared'
<1> USE Names DEF Goto, Control, queueVars, sendVars, callVars
<1>1. CASE PutTest(c)
  BY <1>1 DEF PutTest, Cleared
<1>2. CASE PutLock(c)
  BY <1>2 DEF PutLock, Cleared
<1>3. CASE \E n \in 1 .. Size : PutSend(c, n)
  BY <1>3 DEF PutSend, Return, Cleared
<1>4. CASE PutAgain(c)
  BY <1>4 DEF PutAgain, Cleared
<1>5. CASE PutFail(c)
  BY <1>5 DEF PutFail, Return, Cleared
<1>6. CASE PutPush(c)
  <2>1. SUFFICES ASSUME pc'["sender"] \in {"free", "done"} PROVE Cleared'
    BY DEF Cleared
  <2>2. /\ pc["sender"] \in {"free", "done"} /\ order' = Append(order, c)
        /\ queue_standby_' = Append(queue_standby_, Message(c))
        /\ queue_active_' = queue_active_ /\ taken' = taken /\ wire' = wire
    BY <1>6, <2>1 DEF PutPush
  <2>3. queue_standby_ \in Seq(Seq(UnitOf(order'))) /\ wire \in Seq(UnitOf(order'))
        /\ Message(c) \in Seq(UnitOf(order'))
    BY <2>2, UnitOfGrows DEF Cleared, Accepts
  <2>4. queue_standby_' \in Seq(Seq(UnitOf(order')))
    BY <2>2, <2>3, AppendProperties
  <2> QED
    BY <2>2, <2>3, <2>4 DEF Cleared
<1>7. CASE PutWake(c)
  BY <1>7 DEF PutWake, Signalled, Cleared
<1> QED
  BY <1>1, <1>2, <1>3, <1>4, <1>5, <1>6, <1>7 DEF PutStep

(* wire is over the units of accepted messages, and so is what is pending. *)
LEMMA UnitsAccepted ==
    ASSUME Queues, Accepts, Stream, Cleared
    PROVE  wire \in Seq(UnitOf(order)) /\ wire \o Pending \in Seq(UnitOf(order))
<1>1. /\ Messages(order) \in Seq(UnitOf(order)) /\ wire \in Seq(Unit) /\ Pending \in Seq(Unit)
      /\ Pending = Rest(taken, FlattenSeq(queue_active_)) \o FlattenSeq(queue_standby_)
  BY MessagesType, TakenBound, PendingSplit DEF Accepts, Stream, Queues, Pending, PendingOf
<1>2. CASE pc["sender"] \in {"free", "done"}
  <2>1. queue_active_ = << >> /\ taken = 0 /\ wire \in Seq(UnitOf(order))
        /\ FlattenSeq(queue_standby_) \in Seq(UnitOf(order))
    BY <1>2, FlattenType DEF Cleared
  <2>2. Rest(0, << >>) = << >>
    BY RestNone, EmptySeq
  <2>3. Pending = FlattenSeq(queue_standby_)
    BY <1>1, <2>1, <2>2, FlattenEmpty, ConcatEmptySeq
  <2> QED
    BY <2>1, <2>3, ConcatProperties
<1>3. CASE pc["sender"] \notin {"free", "done"}
  <2>1. wire \o Pending = Messages(order)
    BY <1>3 DEF Stream, StreamKept
  <2> QED
    <3>1. wire \o Pending \in Seq(UnitOf(order))
      BY <1>1, <2>1
    <3>2. wire \in Seq(Unit) /\ Pending \in Seq(Unit)
      BY <1>1
    <3> QED
      BY <3>1, <3>2, FirstPartType
<1> QED
  BY <1>2, <1>3

LEMMA ClearedOther ==
    ASSUME Control, Queues, Queues', Accepts, Stream, Cleared, OtherStep PROVE Cleared'
<1>1. CallsKept /\ (SwapQueues \/ Sent \/ CutQueue \/ ClearControl \/ StreamIdle)
  BY OtherKeeps
<1> USE Names DEF Goto, Control, CallsKept, callVars
<1>2. CASE SwapQueues
  BY <1>1, <1>2 DEF SwapQueues, Cleared
<1>3. CASE Sent
  BY <1>1, <1>3 DEF Sent, SendV, Cleared
<1>4. CASE CutQueue
  BY <1>1, <1>4 DEF CutQueue, Cleared
<1>5. CASE ClearControl
  <2>1. /\ pc'["sender"] = "free" /\ queue_active_' = << >> /\ queue_standby_' = << >>
        /\ wire' = wire /\ order' = order
    BY <1>1, <1>5 DEF ClearControl
  <2>2. taken' = 0
    BY <2>1 DEF Queues
  <2> QED
    BY <2>1, <2>2, UnitsAccepted, EmptySeq DEF Cleared
<1>6. CASE StreamIdle
  BY <1>1, <1>6 DEF StreamIdle, queueVars, Cleared
<1> QED
  BY <1>1, <1>2, <1>3, <1>4, <1>5, <1>6

LEMMA ClearedNext ==
    ASSUME Control, Queues, Queues', Accepts, Stream, Cleared, [Next]_vars PROVE Cleared'
BY NextSplit, ClearedPut, ClearedOther

LEMMA SentOther ==
    ASSUME Control, Queues, Stream, SentIsOnWire, OtherStep PROVE SentIsOnWire'
<1>1. CallsKept /\ (SwapQueues \/ Sent \/ CutQueue \/ ClearControl \/ StreamIdle)
  BY OtherKeeps
<1>2. ToSet(wire) \subseteq ToSet(wire')
  <2>1. CASE Sent
    <3>1. PICK n \in 1 .. Size * IovCount : SendV(n)
      BY <2>1 DEF Sent
    <3>2. n \in Nat \ {0} /\ n \in Nat /\ 1 \in Nat \ {0}
      BY SizeIsPositive
    <3>3. n \in 1 .. Len(FlattenSeq(queue_active_))
          /\ wire' = wire \o SubSeq(FlattenSeq(queue_active_), 1, n)
      BY <3>1, <3>2, SendVTakesFirst DEF SendV, Active, Queues
    <3> DEFINE fa == FlattenSeq(queue_active_)
               x == SubSeq(fa, 1, n)
    <3>4. fa \in Seq(Unit) /\ n <= Len(fa)
      BY <3>3, TakenBound, LenProperties
    <3>5. x \in Seq(Unit)
      BY <3>2, <3>4, SubSeqType
    <3> HIDE DEF fa, x
    <3>6. wire \in Seq(Unit) /\ wire' = wire \o x
      BY <3>3 DEF Stream, x, fa
    <3> QED
      BY <3>5, <3>6, ToSetConcat
  <2>2. CASE SwapQueues \/ CutQueue \/ ClearControl \/ StreamIdle
    BY <2>2 DEF SwapQueues, CutQueue, ClearControl, StreamIdle
  <2> QED
    BY <1>1, <2>1, <2>2
<1>3. result' = result
  BY <1>1 DEF CallsKept, callVars
<1> QED
  BY <1>2, <1>3 DEF SentIsOnWire, Message

LEMMA SentPut ==
    ASSUME Accepts, Stream, SentIsOnWire, NEW c \in Calls, PutStep(c) PROVE SentIsOnWire'
<1> USE DEF Goto, Accepts, callVars
<1>1. CASE ~(\E n \in 1 .. Size : PutSend(c, n))
  <2>1. wire' = wire
    BY <1>1 DEF PutStep, PutTest, PutLock, PutAgain, PutFail, PutPush, PutWake
  <2>2. \A d \in Calls : result'[d] = "sent" => result[d] = "sent"
    <3>1. CASE PutTest(c)
      BY <3>1 DEF PutTest
    <3>2. CASE PutFail(c)
      BY <3>2 DEF PutFail, Return
    <3>3. CASE PutWake(c)
      BY <3>3 DEF PutWake
    <3>4. CASE PutLock(c) \/ PutAgain(c) \/ PutPush(c)
      BY <3>4 DEF PutLock, PutAgain, PutPush
    <3> QED
      BY <1>1, <3>1, <3>2, <3>3, <3>4 DEF PutStep
  <2> QED
    BY <2>1, <2>2 DEF SentIsOnWire, Message
<1>2. ASSUME NEW n \in 1 .. Size, PutSend(c, n) PROVE SentIsOnWire'
  <2> DEFINE x == SubSeq(Message(c), 1, n)
  <2>1. wire \in Seq(Unit) /\ wire' = wire \o x /\ x \in Seq(Unit)
    <3>1. Message(c) \in Seq(Unit) /\ n \in Nat /\ n <= Len(Message(c)) /\ 1 \in Nat \ {0}
      BY MessageIs, SizeIsPositive
    <3>2. SubSeq(Message(c), 1, n) \in Seq(Unit)
      BY <3>1, SubSeqType
    <3> QED
      BY <1>2, <3>2 DEF PutSend, Stream
  <2>2. n = Size => x = Message(c)
    <3>1. Message(c) \in Seq(Unit) /\ Len(Message(c)) = Size
      BY MessageIs
    <3> QED
      BY <3>1, SubSeqFull
  <2> HIDE DEF x
  <2>3. ToSet(wire) \subseteq ToSet(wire') /\ ToSet(x) \subseteq ToSet(wire')
    BY <2>1, ToSetConcat
  <2>4. CASE n = Size
    <3>1. result' = [result EXCEPT ![c] = "sent"]
      BY <1>2, <2>4 DEF PutSend, Return
    <3>2. ASSUME NEW d \in Calls, result'[d] = "sent" PROVE ToSet(Message(d)) \subseteq ToSet(wire')
      <4>1. d = c \/ result[d] = "sent"
        BY <3>1, <3>2
      <4>2. result[d] = "sent" => ToSet(Message(d)) \subseteq ToSet(wire)
        BY DEF SentIsOnWire
      <4> QED
        BY <2>2, <2>3, <2>4, <4>1, <4>2
    <3> QED
      BY <3>2 DEF SentIsOnWire, Message
  <2>5. CASE n # Size
    <3>1. result' = result
      BY <1>2, <2>5 DEF PutSend
    <3> QED
      BY <2>3, <3>1 DEF SentIsOnWire, Message
  <2> QED
    BY <2>4, <2>5
<1> QED
  BY <1>1, <1>2

LEMMA SentNext ==
    ASSUME Control, Queues, Accepts, Stream, SentIsOnWire, [Next]_vars PROVE SentIsOnWire'
BY NextSplit, SentPut, SentOther

LEMMA ResultsHold ==
    ASSUME Queues, Accepts, Stream, Cleared, SentIsOnWire PROVE ResultHolds
<1>1. SUFFICES ASSUME NEW c \in Calls, result[c] = "fail"
               PROVE  ToSet(Message(c)) \cap ToSet(wire \o Pending) = {}
  BY DEF ResultHolds, SentIsOnWire
<1>2. c \notin ToSet(order)
  BY <1>1 DEF Accepts
<1>3. ToSet(wire \o Pending) \subseteq UnitOf(order)
  BY UnitsAccepted, ToSetType
<1>4. ToSet(Message(c)) \subseteq {c} \X (1 .. Size)
  <2>1. Message(c) \in [1 .. Size -> {c} \X (1 .. Size)]
    BY DEF Message
  <2> QED
    BY <2>1 DEF ToSet
<1>5. ASSUME NEW u \in ToSet(Message(c)), u \in ToSet(wire \o Pending) PROVE FALSE
  <2>1. u \in {c} \X (1 .. Size) /\ u \in ToSet(order) \X (1 .. Size)
    BY <1>3, <1>4, <1>5 DEF UnitOf
  <2>2. u[1] = c /\ u[1] \in ToSet(order)
    BY <2>1
  <2> QED
    BY <1>2, <2>2
<1> QED
  BY <1>5

-----------------------------------------------------------------------------
(* do_close: the registration that add_handle makes once is handed from    *)
(* one place to the next, and no two of them have it.                      *)
One(b) == IF b THEN 1 ELSE 0

Registrations ==
    One(pc["runner"] \in {"add", "signal", "register"}) + One(event_mask_)
      + One(pc["runner"] = "handle_close") + One(pc["sender"] = "handle_close") + closes

Closing == closes \in Nat /\ Registrations <= 1

LEMMA ClosingInit == Init => Closing
<1> SUFFICES ASSUME Init PROVE Closing
  OBVIOUS
<1>1. pc["runner"] = "add" /\ pc["sender"] # "handle_close" /\ event_mask_ = FALSE /\ closes = 0
  BY Names DEF Init, Opened
<1> QED
  BY <1>1 DEF Closing, Registrations, One

(* The steps that neither move a registration nor use it.                  *)
RegistrationsKept ==
    /\ closes' = closes /\ event_mask_' = event_mask_
    /\ (pc'["runner"] \in {"add", "signal", "register"}) <=> (pc["runner"] \in {"add", "signal", "register"})
    /\ (pc'["runner"] = "handle_close") <=> (pc["runner"] = "handle_close")
    /\ (pc'["sender"] = "handle_close") <=> (pc["sender"] = "handle_close")

LEMMA ClosingStays == ASSUME Closing, RegistrationsKept PROVE Closing'
BY DEF Closing, Registrations, RegistrationsKept, One

LEMMA ClosingPut ==
    ASSUME Control, Closing, NEW c \in Calls, PutStep(c) PROVE Closing'
<1> USE Names DEF Goto, Control, RegistrationsKept, closeVars
<1>1. CASE PutTest(c)
  BY <1>1, ClosingStays DEF PutTest
<1>2. CASE PutLock(c)
  BY <1>2, ClosingStays DEF PutLock
<1>3. CASE \E n \in 1 .. Size : PutSend(c, n)
  BY <1>3, ClosingStays DEF PutSend, Return
<1>4. CASE PutAgain(c)
  BY <1>4, ClosingStays DEF PutAgain
<1>5. CASE PutFail(c)
  BY <1>5, ClosingStays DEF PutFail, Return
<1>6. CASE PutPush(c)
  BY <1>6, ClosingStays DEF PutPush
<1>7. CASE PutWake(c)
  BY <1>7, ClosingStays DEF PutWake, Signalled
<1> QED
  BY <1>1, <1>2, <1>3, <1>4, <1>5, <1>6, <1>7 DEF PutStep

LEMMA ClosingClose ==
    ASSUME Control, Closing, NEW t \in {"runner", "sender"}, CloseStep(t) PROVE Closing'
<1> USE Names DEF Goto, After, Control, closeVars
<1>1. CASE DelHandle(t)
  <2>1. CASE event_mask_
    BY <1>1, <2>1 DEF DelHandle, Closing, Registrations, One
  <2>2. CASE ~event_mask_
    BY <1>1, <2>2 DEF DelHandle, Closing, Registrations, One
  <2> QED
    BY <2>1, <2>2
<1>2. CASE HandleClose(t)
  <2>1. CASE current_status_ # "CLOSE"
    BY <1>2, <2>1 DEF HandleClose, Closing, Registrations, One
  <2>2. CASE current_status_ = "CLOSE"
    BY <1>2, <2>2 DEF HandleClose, Closing, Registrations, One
  <2> QED
    BY <2>1, <2>2
<1>3. CASE TakeNextStatus(t)
  BY <1>3, ClosingStays DEF TakeNextStatus, RegistrationsKept
<1> QED
  BY <1>1, <1>2, <1>3 DEF CloseStep

LEMMA ClosingRunner ==
    ASSUME Control, Closing, CloseWaitTest \/ CloseWaitSet \/ RunnerStep PROVE Closing'
<1> USE Names DEF Goto, Control, RegistrationsKept, closeVars
<1>1. CASE CloseWaitTest
  BY <1>1, ClosingStays DEF CloseWaitTest
<1>2. CASE CloseWaitSet
  BY <1>2, ClosingStays DEF CloseWaitSet
<1>3. CASE AddHandler
  BY <1>3, ClosingStays DEF AddHandler
<1>4. CASE AddSignal
  BY <1>4, ClosingStays DEF AddSignal, Signalled
<1>5. CASE AddHandle
  BY <1>5 DEF AddHandle, Closing, Registrations, One
<1>6. CASE ReadEvent
  BY <1>6, ClosingStays DEF ReadEvent
<1>7. CASE HandleMessage
  BY <1>7, ClosingStays DEF HandleMessage
<1>8. CASE HandleReadFails
  BY <1>8, ClosingStays DEF HandleReadFails
<1>9. CASE CloseStep("runner")
  BY <1>9, ClosingClose
<1> QED
  BY <1>1, <1>2, <1>3, <1>4, <1>5, <1>6, <1>7, <1>8, <1>9 DEF RunnerStep

LEMMA ClosingSender ==
    ASSUME Control, Closing, SenderStep PROVE Closing'
<1> USE Names DEF Goto, Control, RegistrationsKept, closeVars
<1>1. CASE Scan
  BY <1>1, ClosingStays DEF Scan, Case
<1>2. CASE WriteData
  BY <1>2, ClosingStays DEF WriteData
<1>3. CASE SwapQueues
  BY <1>3, ClosingStays DEF SwapQueues
<1>4. CASE Sent
  BY <1>4, ClosingStays DEF Sent, SendV
<1>5. CASE SendVAgain
  BY <1>5, ClosingStays DEF SendVAgain
<1>6. CASE SendVFail
  BY <1>6, ClosingStays DEF SendVFail
<1>7. CASE CutQueue
  BY <1>7, ClosingStays DEF CutQueue
<1>8. CASE TestAge
  BY <1>8, ClosingStays DEF TestAge
<1>9. CASE NextStatusClose
  BY <1>9, ClosingStays DEF NextStatusClose
<1>10. CASE CloseStep("sender")
  BY <1>10, ClosingClose
<1>11. CASE CurrentStatusClose
  BY <1>11, ClosingStays DEF CurrentStatusClose
<1>12. CASE EventLoop
  BY <1>12, ClosingStays DEF EventLoop
<1>13. CASE RaiseFlag
  BY <1>13, ClosingStays DEF RaiseFlag
<1>14. CASE Block
  BY <1>14, ClosingStays DEF Block
<1>15. CASE WaitOver
  BY <1>15, ClosingStays DEF WaitOver
<1>16. CASE LowerFlag
  BY <1>16, ClosingStays DEF LowerFlag
<1>17. CASE CloseSocket
  BY <1>17 DEF CloseSocket, Closing, Registrations, One
<1>18. CASE ClearControl
  BY <1>18, ClosingStays DEF ClearControl
<1>19. CASE FreeHandler
  BY <1>19, ClosingStays DEF FreeHandler
<1> QED
  BY <1>1, <1>2, <1>3, <1>4, <1>5, <1>6, <1>7, <1>8, <1>9, <1>10, <1>11, <1>12, <1>13, <1>14,
     <1>15, <1>16, <1>17, <1>18, <1>19 DEF SenderStep

LEMMA ClosingTime ==
    ASSUME Closing, GrowOlder \/ SendDelayOver \/ Tick \/ UNCHANGED vars PROVE Closing'
<1> USE DEF RegistrationsKept, closeVars
<1>1. CASE GrowOlder
  BY <1>1, ClosingStays DEF GrowOlder
<1>2. CASE SendDelayOver
  BY <1>2, ClosingStays DEF SendDelayOver
<1>3. CASE Tick
  BY <1>3, ClosingStays DEF Tick
<1>4. CASE UNCHANGED vars
  BY <1>4, ClosingStays DEF vars
<1> QED
  BY <1>1, <1>2, <1>3, <1>4

LEMMA ClosingNext ==
    ASSUME Control, Closing, [Next]_vars PROVE Closing'
BY NextSplit, ClosingTime, ClosingRunner, ClosingSender, ClosingPut DEF OtherStep

-----------------------------------------------------------------------------
IInv == Control /\ Queues /\ Accepts /\ Stream /\ Cleared /\ SentIsOnWire /\ Closing

LEMMA IInvInit == Init => IInv
<1> SUFFICES ASSUME Init PROVE IInv
  OBVIOUS
<1>1. \A c \in Calls : result[c] = "none"
  BY DEF Init
<1>2. pc["sender"] \notin {"free", "done"}
  <2>1. pc["sender"] = IF threaded THEN "scan" ELSE "idle"
    BY Names DEF Init, Opened
  <2> QED
    BY <2>1
<1> QED
  BY <1>1, <1>2, ControlInit, QueuesInit, AcceptsInit, StreamInit, ClosingInit
  DEF IInv, Cleared, SentIsOnWire

LEMMA IInvNext == IInv /\ [Next]_vars => IInv'
<1> SUFFICES ASSUME IInv, [Next]_vars PROVE IInv'
  OBVIOUS
<1>1. Control' /\ Queues'
  BY ControlNext, QueuesNext DEF IInv
<1>2. Accepts' /\ Closing' /\ SentIsOnWire'
  BY AcceptsNext, ClosingNext, SentNext DEF IInv
<1>3. Stream' /\ Cleared'
  BY <1>1, StreamNext, ClearedNext DEF IInv
<1> QED
  BY <1>1, <1>2, <1>3 DEF IInv

LEMMA Inductive == Spec => []IInv
BY IInvInit, IInvNext, PTL DEF Spec

(* TypeOK.                                                                 *)
LEMMA IInvTypes == IInv => TypeOK
<1> SUFFICES ASSUME IInv PROVE TypeOK
  OBVIOUS
<1>1. ToSet(queue_active_) \subseteq Node /\ ToSet(queue_standby_) \subseteq Node
  BY ToSetType DEF IInv, Queues
<1> QED
  BY <1>1 DEF IInv, Control, TypeOK

(* The statuses are known ones, the queues hold parts of messages, and the *)
(* mutex is held by the thread that is between its lock and its unlock.    *)
THEOREM TypesHold == Spec => []TypeOK
BY Inductive, IInvTypes, PTL

(* What put_data has accepted goes onto the wire unit by unit and in order,*)
(* sent directly, in parts or from the queues, whatever the socket takes.  *)
THEOREM StreamIsKept == Spec => []StreamKept
<1>1. IInv => StreamKept
  BY DEF IInv, Stream
<1> QED
  BY <1>1, Inductive, PTL

(* What put_data returned is true of the wire.                             *)
THEOREM ResultsAreTrue == Spec => []ResultHolds
<1>1. IInv => ResultHolds
  BY ResultsHold DEF IInv
<1> QED
  BY <1>1, Inductive, PTL

(* do_close is called at most once, by the runner or by the send thread.   *)
THEOREM ClosesOnce == Spec => []ClosedOnce
<1>1. IInv => ClosedOnce
  BY DEF IInv, Closing, Registrations, One, ClosedOnce
<1> QED
  BY <1>1, Inductive, PTL

-----------------------------------------------------------------------------
(* With a send thread that is the first one, or none, nobody else moves    *)
(* the clock, and a connection that was given up for its age stays so: the *)
(* send thread goes on to close it, and TestAge is not reached again.      *)
Clock ==
    /\ age \in {0, 1, 2}
    /\ FirstThread => ~tick /\ ~ahead

Doomed ==
    last_errno_ = "ERROR_KEEPALIVE_TIMEOUT" =>
       \/ pc["sender"] = "next"
       \/ /\ next_status_ = "CLOSE"
          /\ \/ pc["sender"] \in {"del", "handle_close", "next_status", "status"}
             \/ /\ current_status_ = "CLOSE"
                /\ pc["sender"] \notin {"write", "swap", "sendv", "cut", "age"}

LEMMA DoomedTime ==
    ASSUME Clock, Doomed, GrowOlder \/ SendDelayOver \/ Tick \/ UNCHANGED vars
    PROVE  Clock' /\ Doomed'
<1> USE DEF Clock, Doomed, statusVars, clockVars
<1>1. CASE GrowOlder
  BY <1>1 DEF GrowOlder
<1>2. CASE SendDelayOver
  BY <1>2 DEF SendDelayOver
<1>3. CASE Tick
  BY <1>3 DEF Tick
<1>4. CASE UNCHANGED vars
  BY <1>4 DEF vars
<1> QED
  BY <1>1, <1>2, <1>3, <1>4

LEMMA DoomedPut ==
    ASSUME Control, Clock, Doomed, NEW c \in Calls, PutStep(c) PROVE Clock' /\ Doomed'
<1> USE Names DEF Goto, Control, Clock, Doomed, statusVars, clockVars
<1>1. CASE PutTest(c)
  BY <1>1 DEF PutTest
<1>2. CASE PutLock(c)
  BY <1>2 DEF PutLock
<1>3. CASE \E n \in 1 .. Size : PutSend(c, n)
  BY <1>3 DEF PutSend, Return, Refresh
<1>4. CASE PutAgain(c)
  BY <1>4 DEF PutAgain
<1>5. CASE PutFail(c)
  BY <1>5 DEF PutFail, Return
<1>6. CASE PutPush(c)
  BY <1>6 DEF PutPush
<1>7. CASE PutWake(c)
  BY <1>7 DEF PutWake, Signalled
<1> QED
  BY <1>1, <1>2, <1>3, <1>4, <1>5, <1>6, <1>7 DEF PutStep

LEMMA DoomedClose ==
    ASSUME Control, Clock, Doomed, NEW t \in {"runner", "sender"}, CloseStep(t)
    PROVE  Clock' /\ Doomed'
<1> USE Names DEF Goto, After, Control, Clock, Doomed, statusVars, clockVars
<1>1. CASE DelHandle(t)
  BY <1>1 DEF DelHandle
<1>2. CASE HandleClose(t)
  BY <1>2 DEF HandleClose
<1>3. CASE TakeNextStatus(t)
  BY <1>3 DEF TakeNextStatus
<1> QED
  BY <1>1, <1>2, <1>3 DEF CloseStep

LEMMA DoomedRunner ==
    ASSUME Control, Clock, Doomed, CloseWaitTest \/ CloseWaitSet \/ RunnerStep
    PROVE  Clock' /\ Doomed'
<1> USE Names DEF Goto, Control, Clock, Doomed, statusVars, clockVars
<1>1. CASE CloseWaitTest
  BY <1>1 DEF CloseWaitTest
<1>2. CASE CloseWaitSet
  BY <1>2 DEF CloseWaitSet
<1>3. CASE AddHandler
  BY <1>3 DEF AddHandler
<1>4. CASE AddSignal
  BY <1>4 DEF AddSignal, Signalled
<1>5. CASE AddHandle
  BY <1>5 DEF AddHandle
<1>6. CASE ReadEvent
  BY <1>6 DEF ReadEvent
<1>7. CASE HandleMessage
  BY <1>7 DEF HandleMessage, Refresh
<1>8. CASE HandleReadFails
  BY <1>8 DEF HandleReadFails
<1>9. CASE CloseStep("runner")
  BY <1>9, DoomedClose
<1> QED
  BY <1>1, <1>2, <1>3, <1>4, <1>5, <1>6, <1>7, <1>8, <1>9 DEF RunnerStep

LEMMA DoomedSender ==
    ASSUME Control, Clock, Doomed, SenderStep PROVE Clock' /\ Doomed'
<1> USE Names DEF Goto, Control, Clock, Doomed, statusVars, clockVars
<1>1. CASE Scan
  BY <1>1 DEF Scan, Case
<1>2. CASE WriteData
  BY <1>2 DEF WriteData
<1>3. CASE SwapQueues
  BY <1>3 DEF SwapQueues
<1>4. CASE Sent
  BY <1>4 DEF Sent, SendV
<1>5. CASE SendVAgain
  BY <1>5 DEF SendVAgain
<1>6. CASE SendVFail
  BY <1>6 DEF SendVFail
<1>7. CASE CutQueue
  BY <1>7 DEF CutQueue
<1>8. CASE TestAge
  BY <1>8 DEF TestAge
<1>9. CASE NextStatusClose
  BY <1>9 DEF NextStatusClose
<1>10. CASE CloseStep("sender")
  BY <1>10, DoomedClose
<1>11. CASE CurrentStatusClose
  BY <1>11 DEF CurrentStatusClose
<1>12. CASE EventLoop
  BY <1>12 DEF EventLoop
<1>13. CASE RaiseFlag
  BY <1>13 DEF RaiseFlag
<1>14. CASE Block
  BY <1>14 DEF Block
<1>15. CASE WaitOver
  BY <1>15 DEF WaitOver
<1>16. CASE LowerFlag
  BY <1>16 DEF LowerFlag
<1>17. CASE CloseSocket
  BY <1>17 DEF CloseSocket
<1>18. CASE ClearControl
  BY <1>18 DEF ClearControl, Refresh
<1>19. CASE FreeHandler
  BY <1>19 DEF FreeHandler
<1> QED
  BY <1>1, <1>2, <1>3, <1>4, <1>5, <1>6, <1>7, <1>8, <1>9, <1>10, <1>11, <1>12, <1>13, <1>14,
     <1>15, <1>16, <1>17, <1>18, <1>19 DEF SenderStep

LEMMA DoomedNext ==
    ASSUME Control, Clock, Doomed, [Next]_vars PROVE Clock' /\ Doomed'
BY DoomedTime, DoomedPut, DoomedRunner, DoomedSender DEF Next, Terminated

(* With one send thread a connection is closed for its age only when       *)
(* nothing was received or sent on it for the keepalive time: what fails   *)
(* with several comes from the first thread's clock and nothing else.      *)
THEOREM OneThreadClosesTheDead == ASSUME FirstThread PROVE Spec => OnlyDeadClosed
<1>1. Init => Clock /\ Doomed
  BY DEF Init, Clock, Doomed
<1>2. IInv /\ Clock /\ Doomed /\ [Next]_vars => Clock' /\ Doomed'
  BY DoomedNext DEF IInv
<1>3. IInv /\ Clock /\ Doomed /\ [Next]_vars
         => [(TestAge /\ last_errno_' = "ERROR_KEEPALIVE_TIMEOUT") => age = 2]_vars
  <2> SUFFICES ASSUME Clock, Doomed, TestAge, last_errno_' = "ERROR_KEEPALIVE_TIMEOUT"
               PROVE  age = 2
    OBVIOUS
  <2>1. pc["sender"] = "age"
    BY DEF TestAge
  <2>2. last_errno_ # "ERROR_KEEPALIVE_TIMEOUT"
    BY <2>1 DEF Doomed
  <2>3. TooOld /\ serving = "OPEN"
    BY <2>2 DEF TestAge
  <2> QED
    BY <2>3 DEF TooOld, Older, Clock
<1> QED
  BY <1>1, <1>2, <1>3, Inductive, PTL DEF Spec, OnlyDeadClosed
=============================================================================
