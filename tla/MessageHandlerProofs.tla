------------------------ MODULE MessageHandlerProofs ------------------------
(***************************************************************************)
(* Theorems about MessageHandler, for every set of streams, length field,  *)
(* message buffer and receive buffer, and however the stream arrives.      *)
(***************************************************************************)
EXTENDS MessageHandler, SequenceTheorems, WellFoundedInduction, TLAPS

(* The assumptions on the constants that the theorems name.                *)

(* The length field can hold the size of every message.                    *)
FieldHolds == \A s \in Streams : \A i \in 1 .. Len(s) - 1 : s[i + 1] - s[i] < 2^LenBits

(* A signed length field can hold every size the message buffer allows.    *)
SignFits == SignedLen => MsgBufferSize < 2^(LenBits - 1)

(* The message buffer has room for a length field.                         *)
RoomForLength == LenBytes <= MsgBufferSize

-----------------------------------------------------------------------------
(* Induction over the natural numbers, with a set in the place of a        *)
(* predicate.                                                              *)
LEMMA NatInSet ==
    ASSUME NEW T, 0 \in T, \A n \in Nat : n \in T => n + 1 \in T
    PROVE  \A n \in Nat : n \in T
<1> DEFINE R == OpToRel(<, Nat)
           U == Nat \ T
<1>1. SUFFICES ASSUME U # {} PROVE FALSE
  OBVIOUS
<1>2. IsWellFoundedOn(R, Nat)
  BY NatLessThanWellFounded
<1>3. U \subseteq Nat
  OBVIOUS
<1> HIDE DEF U, R
<1>4. PICK x \in U : \A y \in U : ~(<<y, x>> \in R)
  BY <1>1, <1>2, <1>3, WFMin, Zenon
<1> USE DEF U, R
<1>5. x # 0 /\ x \in Nat
  OBVIOUS
<1>6. x - 1 \in Nat /\ x - 1 < x /\ (x - 1) + 1 = x
  BY <1>5
<1>7. <<x - 1, x>> \in R
  BY <1>5, <1>6 DEF OpToRel
<1>8. x - 1 \in T
  BY <1>4, <1>6, <1>7
<1> QED
  BY <1>5, <1>6, <1>8

(* The boundaries of a stream grow, so a boundary is that of one message.  *)
LEMMA StreamIs ==
    ASSUME NEW s \in Streams
    PROVE  /\ Len(s) \in Nat /\ Len(s) >= 1 /\ s[1] = 0
           /\ \A i \in 1 .. Len(s) : s[i] \in Nat
           /\ \A i \in 1 .. Len(s) - 1 : s[i + 1] - s[i] >= LenBytes /\ s[i] < s[i + 1]
<1>1. s \in Seq(Nat) /\ Len(s) >= 1 /\ s[1] = 0
  BY StreamAssumption
<1>2. Len(s) \in Nat /\ \A i \in 1 .. Len(s) : s[i] \in Nat
  BY <1>1, LenProperties, ElementOfSeq
<1>3. ASSUME NEW i \in 1 .. Len(s) - 1 PROVE s[i + 1] - s[i] >= LenBytes /\ s[i] < s[i + 1]
  <2>1. s[i] \in Nat /\ s[i + 1] \in Nat /\ s[i + 1] - s[i] >= LenBytes
    BY <1>2, StreamAssumption
  <2> QED
    BY <2>1, SizeAssumption
<1> QED
  BY <1>1, <1>2, <1>3

LEMMA StreamGrows ==
    ASSUME NEW s \in Streams
    PROVE  \A i, j \in 1 .. Len(s) : i < j => s[i] < s[j]
<1> DEFINE T == {n \in Nat : \A i, j \in 1 .. Len(s) : i < j /\ j <= n => s[i] < s[j]}
<1>1. 0 \in T
  OBVIOUS
<1>2. ASSUME NEW n \in Nat, n \in T PROVE n + 1 \in T
  <2>1. SUFFICES ASSUME NEW i \in 1 .. Len(s), NEW j \in 1 .. Len(s), i < j, j <= n + 1
                 PROVE  s[i] < s[j]
    OBVIOUS
  <2>2. CASE j <= n
    BY <1>2, <2>1, <2>2
  <2>3. CASE j = n + 1
    <3>1. n \in 1 .. Len(s) - 1 /\ i <= n /\ Len(s) \in Nat
      BY <2>1, <2>3, StreamIs
    <3>2. s[n] < s[n + 1] /\ s[i] \in Nat /\ s[n] \in Nat /\ s[n + 1] \in Nat
      BY <3>1, StreamIs
    <3>3. i = n \/ s[i] < s[n]
      BY <1>2, <3>1
    <3> QED
      BY <2>3, <3>2, <3>3
  <2> QED
    BY <2>1, <2>2, <2>3
<1> HIDE DEF T
<1>3. \A n \in Nat : n \in T
  BY <1>1, <1>2, NatInSet
<1>4. Len(s) \in T
  BY <1>3, StreamIs
<1> QED
  BY <1>4, StreamIs DEF T

-----------------------------------------------------------------------------
(* The bytes of the stream from a up to b.                                 *)
Part(a, b) == [i \in 1 .. b - a |-> a + i - 1]

LEMMA PartIs ==
    ASSUME NEW a \in Nat, NEW b \in Nat, a <= b
    PROVE  /\ Part(a, b) \in Seq(Nat) /\ Len(Part(a, b)) = b - a
           /\ \A i \in 1 .. b - a : Part(a, b)[i] = a + i - 1
<1>1. b - a \in Nat
  OBVIOUS
<1>2. \A i \in 1 .. b - a : a + i - 1 \in Nat
  OBVIOUS
<1>3. Part(a, b) \in [1 .. b - a -> Nat]
  BY <1>1, <1>2 DEF Part
<1>4. Part(a, b) \in Seq(Nat) /\ Len(Part(a, b)) = b - a
  BY <1>1, <1>3
<1> QED
  BY <1>4 DEF Part

LEMMA PartFrom ==
    ASSUME NEW p \in Nat, NEW n \in Nat PROVE Part(p, p + n) = [i \in 1 .. n |-> p + i - 1]
<1>1. \A b : b - p = n => Part(p, b) = [i \in 1 .. n |-> p + i - 1]
  BY DEF Part
<1>2. (p + n) - p = n
  OBVIOUS
<1> QED
  BY <1>1, <1>2

LEMMA PartsJoin ==
    ASSUME NEW a \in Nat, NEW b \in Nat, NEW c \in Nat, a <= b, b <= c
    PROVE  Part(a, b) \o Part(b, c) = Part(a, c)
<1> DEFINE s == Part(a, b)
           t == Part(b, c)
           u == Part(a, c)
<1>1. s \in Seq(Nat) /\ Len(s) = b - a /\ \A i \in 1 .. b - a : s[i] = a + i - 1
  BY PartIs
<1>2. t \in Seq(Nat) /\ Len(t) = c - b /\ \A i \in 1 .. c - b : t[i] = b + i - 1
  BY PartIs
<1>3. u \in Seq(Nat) /\ Len(u) = c - a /\ \A i \in 1 .. c - a : u[i] = a + i - 1
  <2>1. a <= c
    OBVIOUS
  <2> QED
    BY <2>1, PartIs
<1> HIDE DEF s, t, u
<1>4. /\ s \o t \in Seq(Nat) /\ Len(s \o t) = Len(s) + Len(t)
      /\ \A i \in 1 .. Len(s) + Len(t) : (s \o t)[i] = IF i <= Len(s) THEN s[i] ELSE t[i - Len(s)]
  BY <1>1, <1>2, ConcatProperties
<1>5. Len(s) + Len(t) = c - a
  BY <1>1, <1>2
<1>6. ASSUME NEW i \in 1 .. c - a PROVE (s \o t)[i] = u[i]
  <2>1. i \in Int /\ u[i] = a + i - 1
    BY <1>3
  <2>2. (s \o t)[i] = IF i <= b - a THEN s[i] ELSE t[i - (b - a)]
    BY <1>1, <1>4, <1>5
  <2>3. CASE i <= b - a
    <3>1. s[i] = a + i - 1
      BY <1>1, <2>3
    <3> QED
      BY <2>1, <2>2, <2>3, <3>1
  <2>4. CASE ~(i <= b - a)
    <3>1. i - (b - a) \in 1 .. c - b
      BY <2>4
    <3>2. t[i - (b - a)] = a + i - 1
      BY <1>2, <3>1
    <3> QED
      BY <2>1, <2>2, <2>4, <3>2
  <2> QED
    BY <2>3, <2>4
<1>7. s \o t = u
  <2>1. Len(s \o t) = Len(u) /\ \A i \in 1 .. Len(s \o t) : (s \o t)[i] = u[i]
    BY <1>3, <1>4, <1>5, <1>6
  <2> QED
    BY <1>3, <1>4, <2>1, SeqEqual
<1> QED
  BY <1>7 DEF s, t, u

-----------------------------------------------------------------------------
(* A length field that holds the size tells it, or is negative.            *)
LEMMA FieldIs ==
    ASSUME NEW len \in Nat, len < 2^LenBits
    PROVE  \/ FieldValue(len) = len
           \/ /\ SignedLen /\ len >= 2^(LenBits - 1)
              /\ FieldValue(len) \in Int /\ FieldValue(len) < 0
<1>1. LenBits \in Nat /\ LenBits - 1 \in Nat
  BY SizeAssumption
<1>2. 2^LenBits \in Int /\ 2^(LenBits - 1) \in Int
  BY <1>1
<1>3. len % 2^LenBits = len
  BY <1>2
<1> QED
  BY <1>2, <1>3 DEF FieldValue

(* get_msglen_proc_ finds the message that starts there.                   *)
LEMMA MsglenIs ==
    ASSUME stream \in Streams, NEW k \in 1 .. Len(stream) - 1, NEW bytes, bytes[1] = stream[k]
    PROVE  Msglen(bytes) = FieldValue(stream[k + 1] - stream[k])
<1> DEFINE starts == {i \in 1 .. Len(stream) - 1 : stream[i] = bytes[1]}
<1>1. k \in starts
  OBVIOUS
<1>2. ASSUME NEW j \in starts PROVE j = k
  <2>1. /\ j \in 1 .. Len(stream) /\ k \in 1 .. Len(stream) /\ Len(stream) \in Nat
        /\ stream[j] = stream[k] /\ stream[k] \in Nat
    BY StreamIs
  <2>2. ~(j < k) /\ ~(k < j)
    BY <2>1, StreamGrows
  <2> QED
    BY <2>1, <2>2
<1>3. (CHOOSE j \in starts : TRUE) = k
  BY <1>1, <1>2
<1> QED
  BY <1>1, <1>3 DEF Msglen

-----------------------------------------------------------------------------
(* Where the handler is in the stream.                                     *)
current == Len(delivered) + 1
place == received - pos_size

Types ==
    /\ stream \in Streams
    /\ arrived \in Nat /\ received \in Nat /\ pos_size \in Nat
    /\ pos_size <= received /\ received <= arrived /\ arrived <= Total
    /\ pc \in {"wait", "recv", "parse", "closed"}
    /\ pc \in {"wait", "recv"} => pos_size = 0
    /\ pc = "parse" => pos_size > 0

Deliveries ==
    /\ delivered \in Seq(Seq(Nat))
    /\ Framed

(* What is kept of message k of stream s when its bytes up to p were taken.*)
Kept(s, k, p, buffer, need, left) ==
    /\ s[k] <= p
    /\ k < Len(s) => p < s[k + 1]
    /\ buffer = Part(s[k], p)
    /\ need \in Nat /\ left \in Nat
    /\ need = 0 => left = p - s[k] /\ left < LenBytes
    /\ need > 0 => /\ left = 0
                   /\ k < Len(s)
                   /\ need = s[k + 1] - p
                   /\ s[k + 1] - s[k] <= MsgBufferSize

Buffered ==
    pc # "closed" => Kept(stream, current, place, msg_buffer_, need_len_, last_left_)

IInv == Types /\ Deliveries /\ Buffered

LEMMA IInvInit == Init => IInv
<1> SUFFICES ASSUME Init PROVE IInv
  OBVIOUS
<1>1. stream \in Streams /\ Len(stream) \in Nat /\ Len(stream) >= 1 /\ stream[1] = 0
  BY StreamIs DEF Init
<1>2. Total \in Nat
  BY <1>1, StreamIs DEF Total
<1>3. Types
  BY <1>1, <1>2 DEF Init, Types
<1>4. Len(delivered) = 0 /\ delivered \in Seq(Seq(Nat))
  BY EmptySeq DEF Init
<1>5. Deliveries
  BY <1>1, <1>4 DEF Deliveries, Framed
<1>6. 1 < Len(stream) => 0 < stream[2]
  <2>1. SUFFICES ASSUME 1 < Len(stream) PROVE 0 < stream[2]
    OBVIOUS
  <2>2. 1 \in 1 .. Len(stream) - 1 /\ 1 + 1 = 2
    BY <1>1, <2>1
  <2> QED
    BY <1>1, <2>2, StreamIs
<1>7. Part(0, 0) = << >>
  BY DEF Part
<1>8. Kept(stream, 1, 0, << >>, 0, 0)
  BY <1>1, <1>6, <1>7, SizeAssumption DEF Kept
<1> QED
  BY <1>3, <1>4, <1>5, <1>8 DEF IInv, Buffered, current, place, Init

-----------------------------------------------------------------------------
(* While there are bytes to parse, they are in a message.                  *)
LEMMA InMessage ==
    ASSUME IInv, pc = "parse"
    PROVE  /\ current \in 1 .. Len(stream) - 1
           /\ stream[current] \in Nat /\ stream[current + 1] \in Nat /\ place \in Nat
           /\ stream[current + 1] - stream[current] >= LenBytes
           /\ stream[current] <= place /\ place < stream[current + 1]
           /\ place + pos_size = received /\ pos_size \in Nat \ {0} /\ received \in Nat
           /\ Kept(stream, current, place, msg_buffer_, need_len_, last_left_)
<1>1. /\ stream \in Streams /\ received \in Nat /\ pos_size \in Nat \ {0} /\ arrived \in Nat
      /\ pos_size <= received /\ received <= arrived /\ arrived <= Total
  BY DEF IInv, Types
<1>2. place \in Nat /\ place + pos_size = received /\ place < received
  BY <1>1 DEF place
<1>3. Kept(stream, current, place, msg_buffer_, need_len_, last_left_)
  BY DEF IInv, Buffered
<1>4. current \in Nat /\ 1 <= current /\ current <= Len(stream) /\ Len(stream) \in Nat
  BY <1>1, StreamIs, LenProperties DEF IInv, Deliveries, Framed, current
<1>5. stream[current] \in Nat /\ Total \in Nat
  BY <1>1, <1>4, StreamIs DEF Total
<1>6. stream[current] <= place
  BY <1>3 DEF Kept
<1>7. current # Len(stream)
  BY <1>1, <1>2, <1>5, <1>6 DEF Total
<1>8. current \in 1 .. Len(stream) - 1
  BY <1>4, <1>7
<1>9. stream[current + 1] \in Nat /\ stream[current + 1] - stream[current] >= LenBytes
  <2>1. current + 1 \in 1 .. Len(stream)
    BY <1>4, <1>8
  <2> QED
    BY <1>1, <1>8, <2>1, StreamIs
<1>10. place < stream[current + 1]
  BY <1>3, <1>4, <1>7 DEF Kept
<1> QED
  BY <1>1, <1>2, <1>3, <1>5, <1>6, <1>8, <1>9, <1>10

(* What is at pos continues the stream.                                    *)
LEMMA AtPosIs ==
    ASSUME IInv, pc = "parse", NEW n \in Nat
    PROVE  AtPos(n) = Part(place, place + n)
<1>1. place \in Nat /\ received - pos_size = place
  BY InMessage DEF place
<1>2. AtPos(n) = [i \in 1 .. n |-> place + i - 1]
  BY <1>1 DEF AtPos
<1> QED
  BY <1>1, <1>2, PartFrom

(* The length field read at the beginning of a message, whole in the       *)
(* buffer or behind what is kept of it.                                    *)
LEMMA BytesFrom ==
    ASSUME IInv, pc = "parse", NEW n \in Nat
    PROVE  msg_buffer_ \o AtPos(n) = Part(stream[current], place + n)
<1>1. /\ stream[current] \in Nat /\ place \in Nat /\ stream[current] <= place
      /\ place + n \in Nat /\ place <= place + n
  BY InMessage
<1>2. msg_buffer_ = Part(stream[current], place)
  BY InMessage DEF Kept
<1>3. AtPos(n) = Part(place, place + n)
  BY AtPosIs
<1> DEFINE a == stream[current]
           p == place
           b == place + n
<1>4. a \in Nat /\ p \in Nat /\ b \in Nat /\ a <= p /\ p <= b
  BY <1>1
<1> HIDE DEF a, p, b
<1>5. Part(a, p) \o Part(p, b) = Part(a, b)
  BY <1>4, PartsJoin
<1> QED
  BY <1>2, <1>3, <1>5 DEF a, p, b

LEMMA LengthIs ==
    ASSUME IInv, pc = "parse", NEW b \in Nat, stream[current] < b
    PROVE  Msglen(Part(stream[current], b)) = FieldValue(stream[current + 1] - stream[current])
<1>1. current \in 1 .. Len(stream) - 1 /\ stream[current] \in Nat /\ stream \in Streams
  BY InMessage DEF IInv, Types
<1>2. Part(stream[current], b)[1] = stream[current]
  <2>1. 1 \in 1 .. b - stream[current] /\ stream[current] + 1 - 1 = stream[current]
    BY <1>1
  <2> DEFINE a == stream[current]
  <2>2. a \in Nat /\ a <= b /\ 1 \in 1 .. b - a /\ a + 1 - 1 = a
    BY <1>1, <2>1
  <2> HIDE DEF a
  <2>3. Part(a, b)[1] = a + 1 - 1
    BY <2>2, PartIs
  <2> QED
    BY <2>2, <2>3 DEF a
<1> QED
  BY <1>1, <1>2, MsglenIs

(* A message that is not refused has the size that its length field tells. *)
LEMMA LengthTrue ==
    ASSUME FieldHolds, IInv, pc = "parse"
    PROVE  LET size == stream[current + 1] - stream[current] IN
           /\ size \in Nat
           /\ ~Invalid(FieldValue(size)) => FieldValue(size) = size /\ size <= MsgBufferSize
           /\ Invalid(FieldValue(size)) /\ SignFits => size > MsgBufferSize
<1> DEFINE size == stream[current + 1] - stream[current]
<1>1. /\ stream[current] \in Nat /\ stream[current + 1] \in Nat
      /\ size >= LenBytes /\ LenBytes \in Nat \ {0} /\ MsgBufferSize \in Nat
  BY InMessage, SizeAssumption
<1>2. size \in Nat /\ size > 0
  BY <1>1
<1>3. size < 2^LenBits
  BY InMessage DEF FieldHolds, IInv, Types
<1> HIDE DEF size
<1>4. CASE FieldValue(size) = size
  BY <1>1, <1>2, <1>4 DEF Invalid, size
<1>5. CASE /\ SignedLen /\ size >= 2^(LenBits - 1)
           /\ FieldValue(size) \in Int /\ FieldValue(size) < 0
  <2>1. 2^(LenBits - 1) \in Int
    BY SizeAssumption
  <2>2. Invalid(FieldValue(size))
    BY <1>5 DEF Invalid
  <2> QED
    BY <1>1, <1>2, <1>5, <2>1, <2>2 DEF SignFits, size
<1> QED
  BY <1>2, <1>3, <1>4, <1>5, FieldIs

-----------------------------------------------------------------------------
(* What the steps of handle_read have in common.                           *)

(* The buffer's bytes are all kept.                                        *)
LEMMA KeepStep ==
    ASSUME IInv, pc = "parse", KeepAll, received < stream[current + 1],
           need_len_' \in Nat, last_left_' \in Nat,
           need_len_' = 0 => /\ last_left_' = received - stream[current]
                             /\ last_left_' < LenBytes,
           need_len_' > 0 => /\ last_left_' = 0
                             /\ need_len_' = stream[current + 1] - received
                             /\ stream[current + 1] - stream[current] <= MsgBufferSize
    PROVE  IInv'
<1>1. /\ current \in 1 .. Len(stream) - 1 /\ stream[current] \in Nat /\ place \in Nat
      /\ stream[current] <= place /\ place + pos_size = received /\ pos_size \in Nat \ {0}
  BY InMessage
<1>2. /\ stream' = stream /\ arrived' = arrived /\ received' = received /\ delivered' = delivered
      /\ pos_size' = 0 /\ pc' \in {"wait", "recv"}
  BY <1>1 DEF KeepAll, Consume, socketVars
<1>3. msg_buffer_' = Part(stream[current], received)
  BY <1>1, BytesFrom DEF KeepAll
<1>4. current' = current /\ place' = received
  BY <1>1, <1>2 DEF current, place
<1>5. Types'
  BY <1>2 DEF IInv, Types, Total
<1>6. Deliveries'
  BY <1>2 DEF IInv, Deliveries, Framed, Message
<1>7. Kept(stream, current, received, msg_buffer_', need_len_', last_left_')
  BY <1>1, <1>3 DEF Kept
<1> QED
  BY <1>2, <1>4, <1>5, <1>6, <1>7 DEF IInv, Buffered

LEMMA MessageIs ==
    ASSUME IInv, pc = "parse"
    PROVE  Message(current) = Part(stream[current], stream[current + 1])
BY DEF Message, Part

(* The current message is handed over, and the next one begins.            *)
LEMMA DeliverStep ==
    ASSUME IInv, pc = "parse", NEW n \in Nat, n = stream[current + 1] - place, n <= pos_size,
           HandleMessage(Part(stream[current], stream[current + 1]), n),
           pc' # "closed" => msg_buffer_' = << >> /\ need_len_' = 0 /\ last_left_' = 0
    PROVE  IInv'
<1> DEFINE k == current
           a == stream[k]
           b == stream[k + 1]
<1>1. /\ k \in 1 .. Len(stream) - 1 /\ a \in Nat /\ b \in Nat /\ place \in Nat
      /\ a <= b /\ place < b /\ place + pos_size = received /\ pos_size \in Nat \ {0}
      /\ received \in Nat
  BY InMessage
<1>2. /\ stream' = stream /\ arrived' = arrived /\ received' = received
      /\ delivered' = Append(delivered, Part(a, b))
  BY DEF HandleMessage, Consume, Close, socketVars
<1>3. Part(a, b) \in Seq(Nat)
  BY <1>1, PartIs
<1>4. delivered \in Seq(Seq(Nat)) /\ Len(delivered) \in Nat /\ k = Len(delivered) + 1
  BY LenProperties DEF IInv, Deliveries, current
<1>5. /\ delivered' \in Seq(Seq(Nat)) /\ Len(delivered') = k
      /\ \A i \in 1 .. Len(delivered) : delivered'[i] = delivered[i]
      /\ delivered'[k] = Part(a, b)
  <2> DEFINE m == Part(a, b)
  <2>1. m \in Seq(Nat)
    BY <1>3
  <2> HIDE DEF m
  <2>2. /\ Append(delivered, m) \in Seq(Seq(Nat)) /\ Len(Append(delivered, m)) = Len(delivered) + 1
        /\ \A i \in 1 .. Len(delivered) : Append(delivered, m)[i] = delivered[i]
        /\ Append(delivered, m)[Len(delivered) + 1] = m
    BY <1>4, <2>1, AppendProperties
  <2> QED
    BY <1>2, <1>4, <2>2 DEF m
<1>6. Deliveries'
  <2>1. k < Len(stream)
    BY <1>1, <1>4, StreamIs DEF IInv, Types
  <2>2. ASSUME NEW i \in 1 .. k PROVE delivered'[i] = Message(i)
    <3>1. CASE i = k
      BY <1>5, <3>1, MessageIs
    <3>2. CASE i # k
      <4>1. i \in 1 .. Len(delivered)
        BY <1>4, <3>2
      <4> QED
        BY <1>5, <4>1 DEF IInv, Deliveries, Framed
    <3> QED
      BY <3>1, <3>2
  <2>3. \A i : Message(i)' = Message(i)
    BY <1>2 DEF Message
  <2> QED
    BY <1>2, <1>5, <2>1, <2>2, <2>3 DEF Deliveries, Framed
<1>7. CASE Consume(n)
  <2>1. pos_size' = pos_size - n /\ pos_size' \in Nat /\ pos_size' <= received
    BY <1>1, <1>7 DEF Consume
  <2>2. /\ pc' \in {"wait", "recv", "parse"}
        /\ pc' = "parse" => pos_size' > 0
        /\ pc' \in {"wait", "recv"} => pos_size' = 0
    BY <1>1, <1>7, <2>1 DEF Consume
  <2>3. Types'
    BY <1>2, <2>1, <2>2 DEF IInv, Types, Total
  <2>4. place' = b /\ current' = k + 1
    <3>1. n = b - place
      OBVIOUS
    <3>2. b \in Nat /\ place \in Nat /\ pos_size \in Nat /\ received = place + pos_size
      BY <1>1
    <3>3. received' = received /\ pos_size' = pos_size - n
      BY <1>2, <2>1
    <3> HIDE DEF a, b
    <3>4. received' - pos_size' = b
      BY <3>1, <3>2, <3>3
    <3> QED
      BY <1>5, <3>4 DEF place, current
  <2>5. k + 1 < Len(stream) => b < stream[k + 2]
    <3>1. SUFFICES ASSUME k + 1 < Len(stream) PROVE b < stream[k + 2]
      OBVIOUS
    <3>2. k + 1 \in 1 .. Len(stream) - 1 /\ (k + 1) + 1 = k + 2 /\ stream \in Streams
      BY <1>1, <3>1, StreamIs DEF IInv, Types
    <3> QED
      BY <3>2, StreamIs
  <2>6. Kept(stream, k + 1, b, << >>, 0, 0)
    <3>1. Part(b, b) = << >>
      BY <1>1 DEF Part
    <3>2. (k + 1) + 1 = k + 2
      BY <1>1
    <3> QED
      BY <1>1, <2>5, <3>1, <3>2, SizeAssumption DEF Kept
  <2> QED
    BY <1>2, <1>6, <2>2, <2>3, <2>4, <2>6 DEF IInv, Buffered
<1>8. CASE Close("ERROR_CLOSE_ACTIVE") /\ UNCHANGED <<socketVars, received, pos_size, full>>
  <2>1. Types'
    BY <1>2, <1>8 DEF IInv, Types, Total, Close
  <2> QED
    BY <1>6, <1>8, <2>1 DEF IInv, Buffered, Close
<1> QED
  BY <1>7, <1>8 DEF HandleMessage

(* The handler is closed.                                                  *)
LEMMA CloseStep ==
    ASSUME IInv, pc' = "closed", delivered' = delivered,
           UNCHANGED <<socketVars, received, pos_size>>
    PROVE  IInv'
BY DEF IInv, Types, Total, Deliveries, Framed, Message, Buffered, socketVars

-----------------------------------------------------------------------------
(* The actions.                                                            *)
LEMMA PeerKeeps == ASSUME IInv, Peer PROVE IInv'
<1>1. /\ stream' = stream /\ arrived' \in Nat /\ arrived <= arrived' /\ arrived' <= Total
      /\ UNCHANGED <<readVars, handlerVars>>
  <2>1. CASE \E n \in 1 .. Total : Arrive(n)
    <3>1. arrived \in Nat /\ Total \in Nat
      BY StreamIs DEF IInv, Types, Total
    <3> QED
      BY <2>1, <3>1 DEF Arrive
  <2>2. CASE PeerClose
    BY <2>2 DEF PeerClose, IInv, Types
  <2> QED
    BY <2>1, <2>2 DEF Peer
<1> QED
  BY <1>1 DEF IInv, Types, Total, Deliveries, Framed, Message, Buffered, current, place,
              readVars, handlerVars

LEMMA RecvKeeps == ASSUME IInv, EpollWait \/ Recv \/ RecvEof \/ RecvAgain PROVE IInv'
<1> USE DEF IInv, Types, Total, Deliveries, Framed, Message, Buffered, current, place,
            socketVars, readVars, handlerVars
<1>1. CASE EpollWait
  BY <1>1 DEF EpollWait
<1>2. CASE Recv
  <2>1. /\ received' \in Nat /\ pos_size' \in Nat /\ pos_size' > 0 /\ received' <= arrived
        /\ pos_size' <= received' /\ received' - pos_size' = received - pos_size
    BY <1>2, SizeAssumption DEF Recv
  <2> QED
    BY <1>2, <2>1 DEF Recv
<1>3. CASE RecvEof
  BY <1>3 DEF RecvEof, Close
<1>4. CASE RecvAgain
  BY <1>4 DEF RecvAgain
<1> QED
  BY <1>1, <1>2, <1>3, <1>4

(* A refused message changes nothing but the message buffer.               *)
LEMMA RefuseKeeps == ASSUME IInv, NEW m, Refuse(m) PROVE IInv'
BY CloseStep DEF Refuse, Close

(* The length field of a new message.                                      *)
LEMMA NewLength ==
    ASSUME IInv, NewMessage
    PROVE  Msglen(AtPos(LenBytes)) = FieldValue(stream[current + 1] - stream[current])
<1> DEFINE a == stream[current]
<1>1. pc = "parse" /\ need_len_ = 0 /\ last_left_ = 0 /\ LenBytes \in Nat \ {0}
  BY SizeAssumption DEF NewMessage
<1>2. a \in Nat /\ place \in Nat /\ Kept(stream, current, place, msg_buffer_, 0, 0)
  BY <1>1, InMessage
<1>3. place = a
  BY <1>2 DEF Kept
<1>4. AtPos(LenBytes) = Part(a, a + LenBytes)
  BY <1>1, <1>3, AtPosIs
<1>5. a + LenBytes \in Nat /\ a < a + LenBytes
  BY <1>1, <1>2
<1> QED
  BY <1>1, <1>4, <1>5, LengthIs

(* The length field of which a part was kept.                              *)
LEMMA RestLength ==
    ASSUME IInv, RestOfLength
    PROVE  LET bytes == msg_buffer_ \o AtPos(LenBytes - last_left_) IN
           /\ bytes = Part(stream[current], stream[current] + LenBytes)
           /\ Msglen(bytes) = FieldValue(stream[current + 1] - stream[current])
<1> DEFINE a == stream[current]
           first == LenBytes - last_left_
<1>1. pc = "parse" /\ need_len_ = 0 /\ LenBytes \in Nat \ {0}
  BY SizeAssumption DEF RestOfLength
<1>2. a \in Nat /\ place \in Nat /\ Kept(stream, current, place, msg_buffer_, 0, last_left_)
  BY <1>1, InMessage
<1>3. last_left_ = place - a /\ last_left_ \in Nat /\ last_left_ < LenBytes
  BY <1>2 DEF Kept
<1>4. first \in Nat /\ place + first = a + LenBytes /\ a + LenBytes \in Nat /\ a < a + LenBytes
  BY <1>1, <1>2, <1>3
<1>5. msg_buffer_ \o AtPos(first) = Part(a, a + LenBytes)
  BY <1>1, <1>4, BytesFrom
<1> QED
  BY <1>1, <1>4, <1>5, LengthIs

LEMMA NewMessageKeeps == ASSUME FieldHolds, IInv, NewMessage PROVE IInv'
<1> DEFINE a == stream[current]
           b == stream[current + 1]
           msglen == Msglen(AtPos(LenBytes))
<1>1. pc = "parse" /\ need_len_ = 0 /\ last_left_ = 0 /\ LenBytes \in Nat \ {0}
  BY SizeAssumption DEF NewMessage
<1>2. /\ a \in Nat /\ b \in Nat /\ place \in Nat /\ b - a >= LenBytes /\ received \in Nat
      /\ place + pos_size = received /\ pos_size \in Nat \ {0}
      /\ Kept(stream, current, place, msg_buffer_, 0, 0)
  BY <1>1, InMessage
<1>3. place = a /\ msg_buffer_ = << >>
  <2>1. place = a
    BY <1>2 DEF Kept
  <2> QED
    BY <1>2, <2>1 DEF Kept, Part
<1>4. msglen = FieldValue(b - a)
  BY NewLength
<1>5. ~Invalid(msglen) => msglen = b - a /\ b - a <= MsgBufferSize
  BY <1>1, <1>4, LengthTrue
<1> HIDE DEF a, b, msglen
<1>6. CASE Refuse(msglen)
  BY <1>6, RefuseKeeps
<1>7. CASE /\ ~Invalid(msglen) /\ pos_size >= msglen /\ HandleMessage(AtPos(msglen), msglen)
           /\ UNCHANGED <<msg_buffer_, need_len_, last_left_>>
  <2>1. msglen \in Nat /\ msglen = b - place /\ msglen <= pos_size /\ a + msglen = b
    BY <1>1, <1>2, <1>3, <1>5, <1>7
  <2>2. AtPos(msglen) = Part(a, b)
    BY <1>1, <1>3, <2>1, AtPosIs
  <2> QED
    BY <1>1, <1>3, <1>7, <2>1, <2>2, DeliverStep DEF a, b
<1>8. CASE /\ ~Invalid(msglen) /\ pos_size < msglen /\ need_len_' = msglen - pos_size
           /\ KeepAll /\ UNCHANGED last_left_
  <2>1. received < b /\ need_len_' = b - received /\ need_len_' \in Nat /\ need_len_' > 0
    BY <1>2, <1>3, <1>5, <1>8
  <2> QED
    BY <1>1, <1>5, <1>8, <2>1, KeepStep DEF a, b
<1> QED
  BY <1>6, <1>7, <1>8 DEF NewMessage, msglen

LEMMA PartOfLengthKeeps == ASSUME IInv, PartOfLength PROVE IInv'
<1> DEFINE a == stream[current]
           b == stream[current + 1]
<1>1. /\ pc = "parse" /\ need_len_ = 0 /\ last_left_ = 0 /\ LenBytes \in Nat
      /\ pos_size < LenBytes /\ last_left_' = pos_size /\ need_len_' = 0 /\ KeepAll
  BY SizeAssumption DEF PartOfLength
<1>2. /\ a \in Nat /\ b \in Nat /\ place \in Nat /\ b - a >= LenBytes /\ received \in Nat
      /\ place + pos_size = received /\ pos_size \in Nat
      /\ Kept(stream, current, place, msg_buffer_, 0, 0)
  BY <1>1, InMessage
<1>3. place = a
  BY <1>2 DEF Kept
<1> HIDE DEF a, b
<1>4. received < b /\ last_left_' = received - a /\ last_left_' \in Nat
  BY <1>1, <1>2, <1>3
<1> QED
  BY <1>1, <1>4, KeepStep DEF a, b

LEMMA MoreOfLengthKeeps == ASSUME IInv, MoreOfLength PROVE IInv'
<1> DEFINE a == stream[current]
           b == stream[current + 1]
<1>1. /\ pc = "parse" /\ need_len_ = 0 /\ LenBytes \in Nat
      /\ last_left_ + pos_size < LenBytes /\ last_left_' = last_left_ + pos_size
      /\ need_len_' = 0 /\ KeepAll
  BY SizeAssumption DEF MoreOfLength
<1>2. /\ a \in Nat /\ b \in Nat /\ place \in Nat /\ b - a >= LenBytes /\ received \in Nat
      /\ place + pos_size = received /\ pos_size \in Nat
      /\ Kept(stream, current, place, msg_buffer_, 0, last_left_)
  BY <1>1, InMessage
<1>3. last_left_ = place - a /\ last_left_ \in Nat
  BY <1>2 DEF Kept
<1> HIDE DEF a, b
<1>4. received < b /\ last_left_' = received - a /\ last_left_' \in Nat
  BY <1>1, <1>2, <1>3
<1> QED
  BY <1>1, <1>4, KeepStep DEF a, b

LEMMA RestOfLengthKeeps == ASSUME FieldHolds, IInv, RestOfLength PROVE IInv'
<1> DEFINE a == stream[current]
           b == stream[current + 1]
           first == LenBytes - last_left_
           msglen == Msglen(msg_buffer_ \o AtPos(first))
           whole == first + msglen - LenBytes
<1>1. pc = "parse" /\ need_len_ = 0 /\ first <= pos_size /\ LenBytes \in Nat \ {0}
  BY SizeAssumption DEF RestOfLength
<1>2. /\ a \in Nat /\ b \in Nat /\ place \in Nat /\ b - a >= LenBytes /\ received \in Nat
      /\ place + pos_size = received /\ pos_size \in Nat \ {0} /\ place < b
      /\ Kept(stream, current, place, msg_buffer_, 0, last_left_)
  BY <1>1, InMessage
<1>3. last_left_ = place - a /\ last_left_ \in Nat /\ last_left_ < LenBytes
  BY <1>2 DEF Kept
<1>4. msglen = FieldValue(b - a)
  BY RestLength
<1>5. ~Invalid(msglen) => msglen = b - a /\ b - a <= MsgBufferSize
  BY <1>1, <1>4, LengthTrue
<1>6. ~Invalid(msglen) => whole = b - place /\ whole \in Nat /\ place + whole = b
  BY <1>1, <1>2, <1>3, <1>5
<1> HIDE DEF a, b, msglen, whole, first
<1>7. CASE Refuse(msglen)
  BY <1>7, RefuseKeeps
<1>8. CASE /\ ~Invalid(msglen) /\ pos_size >= whole /\ last_left_' = 0
           /\ HandleMessage(msg_buffer_ \o AtPos(whole), whole)
           /\ msg_buffer_' = IF pc' = "closed" THEN msg_buffer_ \o AtPos(whole) ELSE << >>
           /\ UNCHANGED need_len_
  <2>1. msg_buffer_ \o AtPos(whole) = Part(a, b)
    BY <1>1, <1>6, <1>8, BytesFrom DEF a
  <2>2. whole \in Nat /\ whole = b - place /\ whole <= pos_size
    BY <1>2, <1>6, <1>8
  <2> QED
    BY <1>1, <1>8, <2>1, <2>2, DeliverStep DEF a, b
<1>9. CASE /\ ~Invalid(msglen) /\ pos_size < whole /\ last_left_' = 0
           /\ need_len_' = whole - pos_size /\ KeepAll
  <2>1. received < b /\ need_len_' = b - received /\ need_len_' \in Nat /\ need_len_' > 0
    BY <1>2, <1>6, <1>9
  <2> QED
    BY <1>1, <1>5, <1>9, <2>1, KeepStep DEF a, b
<1> QED
  BY <1>7, <1>8, <1>9 DEF RestOfLength, msglen, whole, first

LEMMA RestOfMessageKeeps == ASSUME IInv, RestOfMessage PROVE IInv'
<1> DEFINE a == stream[current]
           b == stream[current + 1]
<1>1. /\ pc = "parse" /\ need_len_ > 0 /\ pos_size >= need_len_ /\ last_left_' = last_left_
      /\ HandleMessage(msg_buffer_ \o AtPos(need_len_), need_len_)
      /\ pc' # "closed" => msg_buffer_' = << >> /\ need_len_' = 0
  BY DEF RestOfMessage
<1>2. /\ a \in Nat /\ b \in Nat /\ place \in Nat /\ place < b
      /\ need_len_ = b - place /\ last_left_ = 0
  BY <1>1, InMessage DEF Kept
<1> HIDE DEF a, b
<1>3. need_len_ \in Nat /\ place + need_len_ = b
  BY <1>2
<1>4. msg_buffer_ \o AtPos(need_len_) = Part(a, b)
  BY <1>1, <1>3, BytesFrom DEF a
<1> QED
  BY <1>1, <1>2, <1>3, <1>4, DeliverStep DEF a, b

LEMMA MoreOfMessageKeeps == ASSUME IInv, MoreOfMessage PROVE IInv'
<1> DEFINE a == stream[current]
           b == stream[current + 1]
<1>1. /\ pc = "parse" /\ need_len_ > 0 /\ pos_size < need_len_ /\ last_left_' = last_left_
      /\ need_len_' = need_len_ - pos_size /\ KeepAll
  BY DEF MoreOfMessage
<1>2. /\ a \in Nat /\ b \in Nat /\ place \in Nat /\ received \in Nat
      /\ place + pos_size = received /\ pos_size \in Nat
      /\ need_len_ = b - place /\ last_left_ = 0 /\ b - a <= MsgBufferSize
  BY <1>1, InMessage DEF Kept
<1> HIDE DEF a, b
<1>3. received < b /\ need_len_' = b - received /\ need_len_' \in Nat /\ need_len_' > 0
  BY <1>1, <1>2
<1> QED
  BY <1>1, <1>2, <1>3, KeepStep DEF a, b

LEMMA IInvNext == ASSUME FieldHolds, IInv, [Next]_vars PROVE IInv'
<1>1. CASE Peer
  BY <1>1, PeerKeeps
<1>2. CASE EpollWait \/ Recv \/ RecvEof \/ RecvAgain
  BY <1>2, RecvKeeps
<1>3. CASE NewMessage \/ PartOfLength \/ MoreOfLength
  BY <1>3, NewMessageKeeps, PartOfLengthKeeps, MoreOfLengthKeeps
<1>4. CASE RestOfLength \/ RestOfMessage \/ MoreOfMessage
  BY <1>4, RestOfLengthKeeps, RestOfMessageKeeps, MoreOfMessageKeeps
<1>5. CASE UNCHANGED vars
  BY <1>5 DEF vars, socketVars, readVars, handlerVars, IInv, Types, Total, Deliveries, Framed,
              Message, Buffered, current, place
<1> QED
  BY <1>1, <1>2, <1>3, <1>4, <1>5 DEF Next, HandleRead

(* The inductive invariant: what is kept between two calls of handle_read  *)
(* is the beginning of the message that is being received.                 *)
THEOREM HandlerInductive == ASSUME FieldHolds PROVE Spec => []IInv
<1>1. IInv /\ [Next]_vars => IInv'
  BY IInvNext
<1> QED
  BY <1>1, IInvInit, PTL DEF Spec

(* handle_message is called with exactly the messages of the stream, whole *)
(* and in order, however recv cuts the stream into pieces.                 *)
THEOREM MessagesFramed == ASSUME FieldHolds PROVE Spec => []Framed
<1>1. IInv => Framed
  BY DEF IInv, Deliveries
<1> QED
  BY <1>1, HandlerInductive, PTL

-----------------------------------------------------------------------------
(* The message buffer and the messages refused.                            *)
Limits ==
    /\ Len(msg_buffer_) <= MsgBufferSize
    /\ last_errno_ = "ERROR_CLOSE_RECV" =>
          pc = "closed" /\ stream[current + 1] - stream[current] > MsgBufferSize

(* What is kept between two messages has room.                             *)
LEMMA KeptFits ==
    ASSUME RoomForLength, NEW s \in Streams, NEW k \in 1 .. Len(s), NEW p \in Nat,
           NEW buffer, NEW need, NEW left, Kept(s, k, p, buffer, need, left)
    PROVE  Len(buffer) <= MsgBufferSize
<1>1. /\ s[k] \in Nat /\ s[k] <= p /\ buffer = Part(s[k], p)
      /\ LenBytes \in Nat /\ MsgBufferSize \in Nat
  BY StreamIs, SizeAssumption DEF Kept
<1>2. Len(buffer) = p - s[k]
  BY <1>1, PartIs
<1>3. CASE need = 0
  BY <1>1, <1>2, <1>3 DEF Kept, RoomForLength
<1>4. CASE need > 0
  <2>1. k < Len(s) /\ p < s[k + 1] /\ s[k + 1] - s[k] <= MsgBufferSize
    BY <1>4 DEF Kept
  <2>2. s[k + 1] \in Nat
    BY <2>1, StreamIs
  <2> QED
    BY <1>1, <1>2, <2>1, <2>2
<1>5. need \in Nat
  BY DEF Kept
<1> QED
  BY <1>3, <1>4, <1>5

LEMMA BufferFits == ASSUME RoomForLength, IInv, pc # "closed" PROVE Len(msg_buffer_) <= MsgBufferSize
<1>1. /\ stream \in Streams /\ received \in Nat /\ pos_size \in Nat /\ pos_size <= received
      /\ Kept(stream, current, place, msg_buffer_, need_len_, last_left_)
  BY DEF IInv, Types, Buffered
<1>2. place \in Nat
  BY <1>1 DEF place
<1>3. current \in 1 .. Len(stream)
  BY <1>1, StreamIs, LenProperties DEF IInv, Deliveries, Framed, current
<1> QED
  BY <1>1, <1>2, <1>3, KeptFits

(* A message handed over when it is complete has room.                     *)
LEMMA MessageFits ==
    ASSUME IInv, pc = "parse", stream[current + 1] - stream[current] <= MsgBufferSize
    PROVE  Len(Part(stream[current], stream[current + 1])) <= MsgBufferSize
<1> DEFINE a == stream[current]
           b == stream[current + 1]
<1>1. a \in Nat /\ b \in Nat /\ a <= b /\ b - a <= MsgBufferSize
  BY InMessage
<1> HIDE DEF a, b
<1>2. Len(Part(a, b)) = b - a
  BY <1>1, PartIs
<1> QED
  BY <1>1, <1>2 DEF a, b

(* The steps that close the handler.                                       *)
LEMMA ClosingLimits ==
    ASSUME FieldHolds, SignFits, RoomForLength, IInv, Limits, pc # "closed", Next, pc' = "closed"
    PROVE  Limits'
<1> DEFINE a == stream[current]
           b == stream[current + 1]
           Same == UNCHANGED <<stream, delivered>> /\ msg_buffer_' = msg_buffer_
<1>1. Len(msg_buffer_) <= MsgBufferSize
  BY BufferFits
<1>2. pc = "parse" => (Invalid(FieldValue(b - a)) => b - a > MsgBufferSize)
  BY LengthTrue
<1>3. pc = "parse" => (~Invalid(FieldValue(b - a)) => FieldValue(b - a) = b - a /\ b - a <= MsgBufferSize)
  BY LengthTrue
<1>4. stream' = stream
  BY DEF Next, Peer, Arrive, PeerClose, EpollWait, HandleRead, Recv, RecvEof, RecvAgain, NewMessage,
         PartOfLength, MoreOfLength, RestOfLength, RestOfMessage, MoreOfMessage, Refuse, HandleMessage,
         KeepAll, Consume, Close, socketVars
<1>5. CASE RecvEof
  BY <1>1, <1>5 DEF RecvEof, Close, Limits
<1>6. CASE NewMessage
  <2> DEFINE msglen == Msglen(AtPos(LenBytes))
  <2>1. pc = "parse" /\ msglen = FieldValue(b - a)
    BY <1>6, NewLength DEF NewMessage
  <2>2. msg_buffer_' = msg_buffer_
    <3>1. ~KeepAll
      BY <2>1 DEF KeepAll, Consume
    <3> QED
      BY <1>6, <3>1 DEF NewMessage
  <2>3. CASE Refuse(msglen)
    BY <1>1, <1>2, <1>4, <2>1, <2>2, <2>3 DEF Refuse, Close, Limits, current
  <2>4. CASE HandleMessage(AtPos(msglen), msglen)
    <3>1. last_errno_' = "ERROR_CLOSE_ACTIVE"
      BY <2>1, <2>4 DEF HandleMessage, Close, Consume
    <3> QED
      BY <1>1, <2>2, <3>1 DEF Limits
  <2> QED
    BY <1>6, <2>1, <2>3, <2>4 DEF NewMessage, KeepAll, Consume
<1>7. CASE RestOfLength
  <2> DEFINE bytes == msg_buffer_ \o AtPos(LenBytes - last_left_)
             msglen == Msglen(bytes)
             whole == LenBytes - last_left_ + msglen - LenBytes
  <2>1. /\ pc = "parse"
        /\ a \in Nat /\ LenBytes \in Nat /\ a + LenBytes \in Nat /\ a <= a + LenBytes
    <3>1. pc = "parse"
      BY <1>7 DEF RestOfLength
    <3>2. a \in Nat /\ LenBytes \in Nat
      BY <3>1, InMessage, SizeAssumption
    <3> HIDE DEF a
    <3> QED
      BY <3>1, <3>2
  <2>4. bytes = Part(a, a + LenBytes) /\ msglen = FieldValue(b - a)
    BY <1>7, RestLength
  <2>2. CASE Refuse(msglen) /\ msg_buffer_' = bytes
    <3>1. Len(bytes) = LenBytes
      <4>1. (a + LenBytes) - a = LenBytes
        BY <2>1
      <4>2. Len(Part(a, a + LenBytes)) = (a + LenBytes) - a
        <5> HIDE DEF a
        <5> QED
          BY <2>1, PartIs
      <4> QED
        BY <2>4, <4>1, <4>2
    <3> QED
      BY <1>2, <1>4, <2>1, <2>2, <2>4, <3>1 DEF Refuse, Close, Limits, current, RoomForLength
  <2>3. CASE /\ ~Invalid(msglen) /\ HandleMessage(msg_buffer_ \o AtPos(whole), whole)
             /\ msg_buffer_' = msg_buffer_ \o AtPos(whole)
    <3>1. last_errno_' = "ERROR_CLOSE_ACTIVE"
      BY <2>1, <2>3 DEF HandleMessage, Close, Consume
    <3>2. msglen = b - a /\ b - a <= MsgBufferSize
      BY <1>3, <2>1, <2>3, <2>4
    <3>3. msg_buffer_ \o AtPos(whole) = Part(a, b)
      <4>1. /\ b \in Nat /\ place \in Nat /\ place <= b
            /\ Kept(stream, current, place, msg_buffer_, need_len_, last_left_)
        BY <2>1, InMessage
      <4>2. need_len_ = 0
        BY <1>7 DEF RestOfLength
      <4>3. last_left_ = place - a /\ last_left_ \in Nat
        BY <4>1, <4>2 DEF Kept
      <4>4. whole \in Nat /\ place + whole = b
        <5>1. \A m \in Nat : m = b - a => LET w == LenBytes - last_left_ + m - LenBytes IN
                                         w \in Nat /\ place + w = b
          <6> HIDE DEF a, b
          <6> QED
            BY <2>1, <4>1, <4>3
        <5>2. msglen \in Nat
          BY <2>1, <3>2, <4>1, InMessage
        <5> HIDE DEF msglen
        <5> QED
          BY <3>2, <5>1, <5>2
      <4> QED
        BY <2>1, <4>4, BytesFrom
    <3>4. Len(Part(a, b)) <= MsgBufferSize
      BY <2>1, <3>2, MessageFits
    <3> QED
      BY <2>3, <3>1, <3>3, <3>4 DEF Limits
  <2> QED
    BY <1>7, <2>1, <2>2, <2>3 DEF RestOfLength, KeepAll, Consume
<1>8. CASE RestOfMessage
  <2>1. /\ pc = "parse" /\ need_len_ > 0 /\ HandleMessage(msg_buffer_ \o AtPos(need_len_), need_len_)
        /\ msg_buffer_' = msg_buffer_ \o AtPos(need_len_)
    BY <1>8 DEF RestOfMessage
  <2>2. last_errno_' = "ERROR_CLOSE_ACTIVE"
    BY <2>1 DEF HandleMessage, Close, Consume
  <2>3. /\ b \in Nat /\ place \in Nat /\ need_len_ = b - place /\ need_len_ \in Nat /\ b - a <= MsgBufferSize
    BY <2>1, InMessage DEF Kept
  <2>4. place + need_len_ = b
    BY <2>3
  <2>5. msg_buffer_ \o AtPos(need_len_) = Part(a, b)
    BY <2>1, <2>3, <2>4, BytesFrom
  <2>6. Len(Part(a, b)) <= MsgBufferSize
    BY <2>1, <2>3, MessageFits
  <2> QED
    BY <2>1, <2>2, <2>5, <2>6 DEF Limits
<1>9. ~(Peer \/ EpollWait \/ Recv \/ RecvAgain \/ PartOfLength \/ MoreOfLength \/ MoreOfMessage)
  BY DEF Peer, Arrive, PeerClose, EpollWait, Recv, RecvAgain, PartOfLength, MoreOfLength,
         MoreOfMessage, KeepAll, Consume, readVars
<1> QED
  BY <1>5, <1>6, <1>7, <1>8, <1>9 DEF Next, HandleRead

(* What a step leaves alone: a closed handler, and the error of an open    *)
(* one.                                                                    *)
LEMMA StepKeeps ==
    ASSUME IInv, [Next]_vars
    PROVE  /\ pc = "closed" => UNCHANGED <<stream, pc, handlerVars>>
           /\ pc' # "closed" => last_errno_' = last_errno_
<1>1. CASE UNCHANGED vars
  BY <1>1 DEF vars, socketVars, readVars, handlerVars
<1>2. CASE Peer
  BY <1>2 DEF Peer, Arrive, PeerClose, readVars, handlerVars
<1>3. CASE EpollWait \/ Recv \/ RecvEof \/ RecvAgain
  BY <1>3 DEF EpollWait, Recv, RecvEof, RecvAgain, Close, socketVars, handlerVars
<1>4. CASE NewMessage \/ PartOfLength \/ MoreOfLength
  BY <1>4 DEF NewMessage, PartOfLength, MoreOfLength, Refuse, HandleMessage, Close, KeepAll
<1>5. CASE RestOfLength \/ RestOfMessage \/ MoreOfMessage
  BY <1>5 DEF RestOfLength, RestOfMessage, MoreOfMessage, Refuse, HandleMessage, Close, KeepAll
<1> QED
  BY <1>1, <1>2, <1>3, <1>4, <1>5 DEF Next, HandleRead

LEMMA LimitsNext ==
    ASSUME FieldHolds, SignFits, RoomForLength, IInv, Limits, [Next]_vars
    PROVE  Limits'
<1>1. CASE pc = "closed"
  BY <1>1, StepKeeps DEF Limits, current, handlerVars
<1>2. CASE pc # "closed" /\ pc' = "closed"
  <2>1. Next
    BY <1>2 DEF vars, readVars
  <2> QED
    BY <1>2, <2>1, ClosingLimits
<1>3. CASE pc # "closed" /\ pc' # "closed"
  <2>1. IInv'
    BY IInvNext
  <2>2. /\ stream' \in Streams /\ received' \in Nat /\ pos_size' \in Nat /\ pos_size' <= received'
        /\ Kept(stream', current', place', msg_buffer_', need_len_', last_left_')
    BY <1>3, <2>1 DEF IInv, Types, Buffered
  <2>3. place' \in Nat
    <3>1. received' \in Nat /\ pos_size' \in Nat /\ pos_size' <= received'
      BY <2>2
    <3>2. received' - pos_size' \in Nat
      <4>1. \A m, n \in Nat : n <= m => m - n \in Nat
        OBVIOUS
      <4> QED
        BY <3>1, <4>1, ZenonT(30)
    <3>3. place' = received' - pos_size'
      BY DEF place
    <3> QED
      BY <3>2, <3>3
  <2>4. current' \in 1 .. Len(stream')
    <3>1. Len(stream') \in Nat
      BY <2>2 DEF IInv, StreamAssumption
    <3>2. Len(delivered') \in Nat /\ Len(delivered') < Len(stream')
      BY <2>1, LenProperties DEF IInv, Deliveries, Framed
    <3> QED
      BY <3>1, <3>2 DEF current
  <2>5. Len(msg_buffer_') <= MsgBufferSize
    BY <2>2, <2>3, <2>4, KeptFits
  <2>6. last_errno_' # "ERROR_CLOSE_RECV"
    BY <1>3, StepKeeps DEF Limits
  <2> QED
    BY <2>5, <2>6 DEF Limits
<1> QED
  BY <1>1, <1>2, <1>3

(* msg_buffer_ never grows past the size reserved for it, only a message   *)
(* that is too long for it is refused, and between two calls handle_read   *)
(* holds back no complete message.                                         *)
THEOREM BufferSuffices ==
    ASSUME FieldHolds, SignFits, RoomForLength PROVE Spec => []WithinBuffer
<1>1. Init => Limits
  <2>1. Init => Len(msg_buffer_) = 0 /\ last_errno_ = "none"
    BY DEF Init
  <2> QED
    BY <2>1, SizeAssumption DEF Limits
<1>2. IInv /\ Limits /\ [Next]_vars => Limits'
  BY LimitsNext
<1>3. IInv /\ Limits => WithinBuffer
  <2>1. IInv => NothingKept
    <3>1. SUFFICES ASSUME IInv, pc = "wait"
          PROVE  /\ Len(msg_buffer_) = received - stream[current]
                 /\ current < Len(stream) => received < stream[current + 1]
      BY DEF NothingKept, BetweenReads, current
    <3>2. /\ stream \in Streams /\ received \in Nat /\ pos_size = 0
          /\ Kept(stream, current, place, msg_buffer_, need_len_, last_left_)
      BY <3>1 DEF IInv, Types, Buffered
    <3>3. place = received
      BY <3>2 DEF place
    <3>4. current \in 1 .. Len(stream)
      BY <3>1, <3>2, StreamIs, LenProperties DEF IInv, Deliveries, Framed, current
    <3>5. stream[current] \in Nat
      BY <3>2, <3>4, StreamIs
    <3>6. Len(msg_buffer_) = received - stream[current]
      BY <3>2, <3>3, <3>5, PartIs DEF Kept
    <3> QED
      BY <3>2, <3>3, <3>6 DEF Kept
  <2>2. Limits => SizeLimits
    BY DEF Limits, SizeLimits, current
  <2> QED
    BY <2>1, <2>2 DEF WithinBuffer
<1> QED
  BY <1>1, <1>2, <1>3, HandlerInductive, PTL DEF Spec
=============================================================================
