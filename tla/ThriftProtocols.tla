-------------------------- MODULE ThriftProtocols --------------------------
(***************************************************************************)
(* The two Thrift protocols message bodies are written with: the compact   *)
(* one (include/SL_Rpc_Thrift_CompactProtocol.h, C below) and the binary   *)
(* one (include/SL_Rpc_Thrift_BinaryProtocol.h, B below).  Generated code  *)
(* calls the writer for one struct and everything in it, then, at the      *)
(* other end, the reader; the reader goes by the types it reads.           *)
(* Integers of 64 bits and doubles are their eight bytes, highest first.   *)
(***************************************************************************)
EXTENDS Naturals, Integers, Sequences, FiniteSets

CONSTANTS Protocols,     \* "compact", "binary"
          ScalarTypes,   \* the types without parts, from "bool" to "string"
          FieldIds,      \* field ids of the structs
          ElementTypes,  \* element types of the containers
          Sizes,         \* sizes of the containers
          BufferSizes,   \* by protocol: sizes the write buffer starts with
          FieldsUpTo,    \* bound: no field begins after that many calls
          MaxCut,        \* bound: bytes a short message lacks
          MaxDepth       \* bound: nesting of structs and containers

VARIABLES protocol,
          lastField_, lastFieldId_,  \* C.98: ids last written or read, per struct
          booleanField_,             \* C.76: id of a bool field whose head waits, or NoField
          boolValue_,                \* C.87: the type a bool field's head held, or NoValue
          buffer_size_, wire,        \* the write buffer: its size, and the bytes in it
          rest,                      \* read_buffer_: the bytes not read yet
          todo,                      \* what the generated code does next, first thing first
          pc,
          returned,                  \* history: bytes the write calls returned
          written, read,             \* history: the values passed in and handed out
          cut                        \* history: the message arrived short

thriftVars == <<protocol, lastField_, lastFieldId_, booleanField_, boolValue_, buffer_size_,
          wire, rest, todo, pc, returned, written, read, cut>>

NoField == 0
NoValue == 0

Shift(n, k) == n \div 2^k                 \* n >> k, arithmetic for negative n
Byte(n)     == n % 256
Signed(b)   == IF b >= 128 THEN b - 256 ELSE b
Most(S)     == CHOOSE x \in S : \A y \in S : y <= x
Least(S)    == CHOOSE x \in S : \A y \in S : x <= y

(* The values written: they lie around the sizes a varint changes at.      *)
Values(type) ==
    CASE type = "bool"   -> BOOLEAN
      [] type = "byte"   -> {-1}
      [] type = "i16"    -> {-64}
      [] type = "i32"    -> {64, -(2^27) - 1}
      [] type = "i64"    -> {<<0, 0, 0, 0, 0, 0, 0, 63>>, <<129, 2, 3, 4, 5, 6, 7, 8>>}
      [] type = "double" -> {<<63, 240, 0, 0, 0, 0, 0, 1>>}
      [] type = "string" -> {<< >>, <<65>>}

Value(type, depth) == [kind |-> "value", type |-> type, depth |-> depth]
Struct(depth)      == [kind |-> "struct", depth |-> depth]
Types(depth) == IF depth < MaxDepth THEN ScalarTypes \cup {"list", "map", "struct"}
                                    ELSE ScalarTypes

-----------------------------------------------------------------------------
(* Types on the wire.                                                      *)
TType == [bool |-> 2, byte |-> 3, double |-> 4, i16 |-> 6, i32 |-> 8, i64 |-> 10,
          string |-> 11, struct |-> 12, map |-> 13, list |-> 15]
TTypeToCType == [bool |-> 1, byte |-> 3, i16 |-> 4, i32 |-> 5, i64 |-> 6, double |-> 7,
                 string |-> 8, list |-> 9, map |-> 11, struct |-> 12]
TypeOf(table, code) == CHOOSE t \in DOMAIN table : table[t] = code
GetTType(code) == IF code = 2 THEN "bool" ELSE TypeOf(TTypeToCType, code)

(* Varints: the number's groups of seven bits, lowest first.               *)
Varint(group, size) == [i \in 1 .. size |-> group[i] + (IF i < size THEN 128 ELSE 0)]

Group32(n) == [i \in 1 .. 5 |-> Shift(n, 7 * (i - 1)) % 128]

(* Mutated form of WriteVarint32: the size changes one too late.           *)
WriteVarint32_Late(n) ==
    Varint(Group32(n), CASE n <= 2^7 -> 1 [] n <= 2^14 -> 2 [] n <= 2^21 -> 3
                         [] n <= 2^28 -> 4 [] OTHER -> 5)

WriteVarint32(n) ==
    Varint(Group32(n), CASE n < 2^7 -> 1 [] n < 2^14 -> 2 [] n < 2^21 -> 3
                         [] n < 2^28 -> 4 [] OTHER -> 5)

(* n is the eight bytes, highest first; bit 0 is the lowest.               *)
Bit(n, k) == IF k < 64 THEN Shift(n[8 - (k \div 8)], k % 8) % 2 ELSE 0
Group64(n) ==
    [i \in 1 .. 10 |-> LET b(j) == Bit(n, 7 * (i - 1) + j) * 2^j
                       IN  b(0) + b(1) + b(2) + b(3) + b(4) + b(5) + b(6)]
WriteVarint64(n) == Varint(Group64(n), Most({1} \cup {i \in 1 .. 10 : Group64(n)[i] > 0}))

(* A varint is looked for in the bytes borrowed, at most limit of them;    *)
(* with seven bytes left readVarint64 looks at an eighth as well (C.1064). *)
Borrowed(limit) ==
    IF limit = 10 /\ Len(rest) = 7 THEN {Append(rest, b) : b \in {0, 128}}
                                   ELSE {SubSeq(rest, 1, Least({limit, Len(rest)}))}
Ends(b) == {i \in 1 .. Len(b) : b[i] < 128}
VarintSize(b) == IF Ends(b) = {} THEN 0 ELSE Least(Ends(b))

ReadVarint32(b) ==
    LET size == VarintSize(b)
        g(i) == IF i <= size THEN (b[i] % 128) * 2^(7 * (i - 1)) ELSE 0
    IN  g(1) + g(2) + g(3) + g(4) + g(5)

ReadVarint64(b) ==
    LET size == VarintSize(b)
        bit(k) == IF k \div 7 < size THEN Shift(b[(k \div 7) + 1], k % 7) % 2 ELSE 0
        byte(i) == LET v(j) == bit(8 * (8 - i) + j) * 2^j
                   IN  v(0) + v(1) + v(2) + v(3) + v(4) + v(5) + v(6) + v(7)
    IN  [i \in 1 .. 8 |-> byte(i)]

I32ToZigzag(n) == IF n >= 0 THEN 2 * n ELSE -2 * n - 1
ZigzagToI32(n) == IF n % 2 = 0 THEN n \div 2 ELSE -((n + 1) \div 2)

Invert(n) == [i \in 1 .. 8 |-> 255 - n[i]]
I64ToZigzag(n) ==
    LET m == IF n[1] >= 128 THEN Invert(n) ELSE n
    IN  [i \in 1 .. 8 |-> Byte(2 * m[i]) + (IF i < 8 THEN Shift(m[i + 1], 7)
                                                     ELSE Shift(n[1], 7))]
ZigzagToI64(n) ==
    LET half == [i \in 1 .. 8 |-> Shift(n[i], 1) + (IF i > 1 THEN 128 * (n[i - 1] % 2) ELSE 0)]
    IN  IF n[8] % 2 = 1 THEN Invert(half) ELSE half

(* Fixed sizes, highest byte first.                                        *)
HtoNs(n) == <<Byte(Shift(n, 8)), Byte(n)>>
HtoNl(n) == <<Byte(Shift(n, 24)), Byte(Shift(n, 16)), Byte(Shift(n, 8)), Byte(n)>>
NtoHs(b) == Signed(b[1]) * 2^8 + b[2]
NtoHl(b) == Signed(b[1]) * 2^24 + b[2] * 2^16 + b[3] * 2^8 + b[4]
Reversed(b) == [i \in 1 .. Len(b) |-> b[Len(b) + 1 - i]]

-----------------------------------------------------------------------------
Init ==
    /\ protocol \in Protocols
    /\ lastField_ = << >> /\ lastFieldId_ = 0
    /\ booleanField_ = NoField /\ boolValue_ = NoValue
    /\ buffer_size_ \in BufferSizes[protocol]
    /\ wire = << >> /\ rest = << >>
    /\ todo = <<Value("struct", 0)>>
    /\ pc = "writing"
    /\ returned = 0 /\ written = << >> /\ read = << >>
    /\ cut = FALSE

Compact == protocol = "compact"

(* One call of the writer puts pieces into the buffer, one after another:  *)
(* a piece is [varint, bytes].  write() makes room and keeps what is there *)
(* (include/SL_ByteBuffer.h:428); a varint makes room with reserve, which  *)
(* empties the buffer (include/SL_ByteBuffer.h:389), and then goes past    *)
(* the buffer's end no more.                                               *)
Raw(b)    == [varint |-> 0, bytes |-> b]
V32(n)    == [varint |-> 5, bytes |-> WriteVarint32(n)]
V64(n)    == [varint |-> 10, bytes |-> WriteVarint64(n)]

PutPiece(buffer, piece) ==
    LET free == buffer.size - Len(buffer.data)
    IN  IF piece.varint > 0
        THEN IF free < piece.varint
             THEN [size |-> 2 * buffer.size + 2 * piece.varint, data |-> piece.bytes]
             ELSE [buffer EXCEPT !.data = @ \o piece.bytes]
        ELSE [size |-> IF free >= Len(piece.bytes) THEN buffer.size
                       ELSE 2 * buffer.size + Len(piece.bytes),
              data |-> buffer.data \o piece.bytes]

Put(pieces) ==
    LET start == [size |-> buffer_size_, data |-> wire]
        after == CASE Len(pieces) = 0 -> start
                   [] Len(pieces) = 1 -> PutPiece(start, pieces[1])
                   [] Len(pieces) = 2 -> PutPiece(PutPiece(start, pieces[1]), pieces[2])
        size(i) == IF i <= Len(pieces) THEN Len(pieces[i].bytes) ELSE 0
    IN  /\ buffer_size_' = after.size
        /\ wire' = after.data
        /\ returned' = returned + size(1) + size(2)

WriteVars == <<protocol, rest, read, cut, boolValue_>>

Writes(item, next) ==
    /\ written' = Append(written, item)
    /\ todo' = next
    /\ UNCHANGED <<pc, WriteVars>>

(* The field head: the id as a difference to the last one with the type in *)
(* one byte, or by itself after the type.                                  *)
FieldBegin_NoLimit(type, id) ==
    IF id > lastFieldId_
    THEN <<Raw(<<Byte((id - lastFieldId_) * 16 + type)>>)>>
    ELSE <<Raw(<<type>>), V32(I32ToZigzag(id))>>

FieldBeginInternal(type, id) ==
    IF id > lastFieldId_ /\ id - lastFieldId_ <= 15
    THEN <<Raw(<<(id - lastFieldId_) * 16 + type>>)>>
    ELSE <<Raw(<<type>>), V32(I32ToZigzag(id))>>

WriteStructBegin ==
    /\ pc = "writing" /\ todo # << >> /\ Head(todo).kind = "value" /\ Head(todo).type = "struct"
    /\ IF Compact THEN lastField_' = <<lastFieldId_>> \o lastField_ /\ lastFieldId_' = 0
                  ELSE UNCHANGED <<lastField_, lastFieldId_>>
    /\ Put(<< >>)
    /\ UNCHANGED booleanField_
    /\ Writes([call |-> "struct"], <<Struct(Head(todo).depth)>> \o Tail(todo))

(* A bool's head waits for its value in the compact protocol.              *)
WriteFieldBegin ==
    /\ pc = "writing" /\ todo # << >> /\ Head(todo).kind = "struct"
    /\ Len(written) <= FieldsUpTo
    /\ \E type \in Types(Head(todo).depth), id \in FieldIds :
          /\ IF ~Compact THEN
                /\ Put(<<Raw(<<TType[type]>>), Raw(HtoNs(id))>>)
                /\ UNCHANGED <<lastFieldId_, booleanField_>>
             ELSE IF type = "bool" THEN
                /\ booleanField_' = id
                /\ Put(<< >>) /\ UNCHANGED lastFieldId_
             ELSE
                /\ Put(FieldBeginInternal(TTypeToCType[type], id))
                /\ lastFieldId_' = id
                /\ UNCHANGED booleanField_
          /\ UNCHANGED lastField_
          /\ Writes([call |-> "field", type |-> type, id |-> id],
                    <<Value(type, Head(todo).depth + 1)>> \o todo)

(* writeFieldStop and writeStructEnd.                                      *)
WriteStop ==
    /\ pc = "writing" /\ todo # << >> /\ Head(todo).kind = "struct"
    /\ Put(<<Raw(<<0>>)>>)
    /\ IF Compact THEN lastFieldId_' = Head(lastField_) /\ lastField_' = Tail(lastField_)
                  ELSE UNCHANGED <<lastField_, lastFieldId_>>
    /\ UNCHANGED booleanField_
    /\ Writes([call |-> "stop"], Tail(todo))

(* Mutated form of WriteBool: the waiting head is not taken back.          *)
WriteBool_Keep ==
    /\ pc = "writing" /\ todo # << >> /\ Head(todo).kind = "value" /\ Head(todo).type = "bool"
    /\ \E value \in BOOLEAN :
          /\ LET code == IF value THEN 1 ELSE IF Compact THEN 2 ELSE 0
             IN  IF booleanField_ # NoField
                 THEN /\ Put(FieldBeginInternal(code, booleanField_))
                      /\ lastFieldId_' = booleanField_
                 ELSE Put(<<Raw(<<code>>)>>) /\ UNCHANGED lastFieldId_
          /\ UNCHANGED <<lastField_, booleanField_>>
          /\ Writes([call |-> "bool", value |-> value], Tail(todo))

WriteBool ==
    /\ pc = "writing" /\ todo # << >> /\ Head(todo).kind = "value" /\ Head(todo).type = "bool"
    /\ \E value \in BOOLEAN :
          /\ LET code == IF value THEN 1 ELSE IF Compact THEN 2 ELSE 0
             IN  IF booleanField_ # NoField
                 THEN /\ Put(FieldBeginInternal(code, booleanField_))
                      /\ lastFieldId_' = booleanField_
                      /\ booleanField_' = NoField
                 ELSE Put(<<Raw(<<code>>)>>) /\ UNCHANGED <<lastFieldId_, booleanField_>>
          /\ UNCHANGED lastField_
          /\ Writes([call |-> "bool", value |-> value], Tail(todo))

CompactBytes(type, value) ==
    CASE type = "byte"   -> <<Raw(<<Byte(value)>>)>>
      [] type \in {"i16", "i32"} -> <<V32(I32ToZigzag(value))>>
      [] type = "i64"    -> <<V64(I64ToZigzag(value))>>
      [] type = "double" -> <<Raw(Reversed(value))>>
      [] type = "string" -> <<V32(Len(value)), Raw(value)>>
BinaryBytes(type, value) ==
    CASE type = "byte"   -> <<Raw(<<Byte(value)>>)>>
      [] type = "i16"    -> <<Raw(HtoNs(value))>>
      [] type = "i32"    -> <<Raw(HtoNl(value))>>
      [] type \in {"i64", "double"} -> <<Raw(value)>>
      [] type = "string" -> <<Raw(HtoNl(Len(value))), Raw(value)>>

WriteValue ==
    /\ pc = "writing" /\ todo # << >> /\ Head(todo).kind = "value"
    /\ LET type == Head(todo).type
       IN  /\ type \in ScalarTypes \ {"bool"}
           /\ \E value \in Values(type) :
                 /\ Put(IF Compact THEN CompactBytes(type, value) ELSE BinaryBytes(type, value))
                 /\ Writes([call |-> type, value |-> value], Tail(todo))
    /\ UNCHANGED <<lastField_, lastFieldId_, booleanField_>>

(* Mutated form of ListHead: 15 goes into the head byte too.               *)
ListHead_Fifteen(elem, size) ==
    IF ~Compact THEN <<Raw(<<TType[elem]>>), Raw(HtoNl(size))>>
    ELSE IF size <= 15 THEN <<Raw(<<size * 16 + TTypeToCType[elem]>>)>>
    ELSE <<Raw(<<240 + TTypeToCType[elem]>>), V32(size)>>

(* writeListBegin, and writeSetBegin, which is the same.                   *)
ListHead(elem, size) ==
    IF ~Compact THEN <<Raw(<<TType[elem]>>), Raw(HtoNl(size))>>
    ELSE IF size <= 14 THEN <<Raw(<<size * 16 + TTypeToCType[elem]>>)>>
    ELSE <<Raw(<<240 + TTypeToCType[elem]>>), V32(size)>>

MapHead(key, elem, size) ==
    IF ~Compact THEN <<Raw(<<TType[key], TType[elem]>>), Raw(HtoNl(size))>>
    ELSE IF size = 0 THEN <<Raw(<<0>>)>>
    ELSE <<V32(size), Raw(<<TTypeToCType[key] * 16 + TTypeToCType[elem]>>)>>

WriteListBegin ==
    /\ pc = "writing" /\ todo # << >> /\ Head(todo).kind = "value" /\ Head(todo).type = "list"
    /\ \E elem \in ElementTypes, size \in Sizes :
          /\ size > 2 => elem = "byte"
          /\ Put(ListHead(elem, size))
          /\ Writes([call |-> "list", types |-> <<elem>>, size |-> size],
                    [i \in 1 .. size |-> Value(elem, Head(todo).depth + 1)] \o Tail(todo))
    /\ UNCHANGED <<lastField_, lastFieldId_, booleanField_>>

WriteMapBegin ==
    /\ pc = "writing" /\ todo # << >> /\ Head(todo).kind = "value" /\ Head(todo).type = "map"
    /\ \E key, elem \in ElementTypes, size \in Sizes :
          /\ size <= 1
          /\ Put(MapHead(key, elem, size))
          /\ Writes([call |-> "map", types |-> <<key, elem>>, size |-> size],
                    [i \in 1 .. 2 * size |->
                        Value(IF i % 2 = 1 THEN key ELSE elem, Head(todo).depth + 1)]
                    \o Tail(todo))
    /\ UNCHANGED <<lastField_, lastFieldId_, booleanField_>>

(* The message arrives, whole or short, and a new protocol object reads it *)
(* (include/SL_Rpc_Message.h:607).                                         *)
Arrive ==
    /\ pc = "writing" /\ todo = << >>
    /\ \E n \in Most({0, Len(wire) - MaxCut}) .. Len(wire) : rest' = SubSeq(wire, 1, n) /\ cut' = (n < Len(wire))
    /\ pc' = "reading"
    /\ todo' = <<Value("struct", 0)>>
    /\ lastField_' = << >> /\ lastFieldId_' = 0 /\ booleanField_' = NoField
    /\ UNCHANGED <<protocol, boolValue_, buffer_size_, wire, returned, written, read>>

-----------------------------------------------------------------------------
ReadVars == <<protocol, booleanField_, buffer_size_, wire, returned, written, cut>>

Throw == pc' = "thrown"
         /\ UNCHANGED <<ReadVars, lastField_, lastFieldId_, boolValue_, rest, todo, read>>

From(n) == SubSeq(rest, n + 1, Len(rest))

(* n bytes are taken by readBuffer or consumeBuffer.                       *)
Reads(item, next, n) ==
    /\ rest' = From(n)
    /\ read' = Append(read, item)
    /\ todo' = next
    /\ UNCHANGED <<pc, ReadVars>>

ReadStructBegin ==
    /\ pc = "reading" /\ todo # << >> /\ Head(todo).kind = "value" /\ Head(todo).type = "struct"
    /\ IF Compact THEN lastField_' = <<lastFieldId_>> \o lastField_ /\ lastFieldId_' = 0
                  ELSE UNCHANGED <<lastField_, lastFieldId_>>
    /\ UNCHANGED boolValue_
    /\ Reads([call |-> "struct"], <<Struct(Head(todo).depth)>> \o Tail(todo), 0)

(* The id that follows a head without a difference.                        *)
LongId == LET b == CHOOSE b \in {SubSeq(From(1), 1, Least({5, Len(rest) - 1}))} : TRUE
          IN  [size |-> VarintSize(b), id |-> ZigzagToI32(ReadVarint32(b))]

ReadFieldBegin ==
    /\ pc = "reading" /\ todo # << >> /\ Head(todo).kind = "struct"
    /\ \/ rest = << >> /\ Throw
       \/ /\ rest # << >> /\ rest[1] % 16 = 0
          /\ IF Compact THEN lastFieldId_' = Head(lastField_) /\ lastField_' = Tail(lastField_)
                        ELSE UNCHANGED <<lastField_, lastFieldId_>>
          /\ UNCHANGED boolValue_
          /\ Reads([call |-> "stop"], Tail(todo), 1)
       \/ /\ rest # << >> /\ rest[1] % 16 # 0 /\ ~Compact
          /\ IF Len(rest) < 3 THEN Throw
             ELSE LET type == TypeOf(TType, rest[1])
                  IN  /\ Reads([call |-> "field", type |-> type,
                                id |-> NtoHs(<<rest[2], rest[3]>>)],
                               <<Value(type, Head(todo).depth + 1)>> \o todo, 3)
                      /\ UNCHANGED <<lastField_, lastFieldId_, boolValue_>>
       \/ /\ rest # << >> /\ rest[1] % 16 # 0 /\ Compact
          /\ LET code  == rest[1] % 16
                 type  == GetTType(code)
                 delta == rest[1] \div 16
                 id    == IF delta = 0 THEN LongId.id ELSE lastFieldId_ + delta
             IN  IF delta = 0 /\ LongId.size = 0 THEN Throw
                 ELSE /\ lastFieldId_' = id
                      /\ boolValue_' = IF type = "bool" THEN code ELSE boolValue_
                      /\ UNCHANGED lastField_
                      /\ Reads([call |-> "field", type |-> type, id |-> id],
                               <<Value(type, Head(todo).depth + 1)>> \o todo,
                               1 + IF delta = 0 THEN LongId.size ELSE 0)

(* Mutated form of ReadBool: the value held in the head is not taken.      *)
ReadBool_Keep ==
    /\ pc = "reading" /\ todo # << >> /\ Head(todo).kind = "value" /\ Head(todo).type = "bool"
    /\ \/ /\ boolValue_ # NoValue
          /\ Reads([call |-> "bool", value |-> boolValue_ = 1], Tail(todo), 0)
          /\ UNCHANGED <<lastField_, lastFieldId_, boolValue_>>
       \/ /\ boolValue_ = NoValue
          /\ IF rest = << >> THEN Throw
             ELSE /\ Reads([call |-> "bool", value |-> rest[1] = 1], Tail(todo), 1)
                  /\ UNCHANGED <<lastField_, lastFieldId_, boolValue_>>

ReadBool ==
    /\ pc = "reading" /\ todo # << >> /\ Head(todo).kind = "value" /\ Head(todo).type = "bool"
    /\ \/ /\ boolValue_ # NoValue
          /\ boolValue_' = NoValue
          /\ Reads([call |-> "bool", value |-> boolValue_ = 1], Tail(todo), 0)
          /\ UNCHANGED <<lastField_, lastFieldId_>>
       \/ /\ boolValue_ = NoValue
          /\ IF rest = << >> THEN Throw
             ELSE /\ Reads([call |-> "bool", value |-> rest[1] = 1], Tail(todo), 1)
                  /\ UNCHANGED <<lastField_, lastFieldId_, boolValue_>>

(* What the bytes b hold for a value, and how many of them; 0 for a throw. *)
Fixed(b, n, value) == IF Len(b) < n THEN [size |-> 0] ELSE [size |-> n, value |-> value]
CompactValue(type, b) ==
    LET size == VarintSize(b)
    IN  CASE type = "byte" -> Fixed(rest, 1, Signed(rest[1]))
          [] type \in {"i16", "i32"} -> [size |-> size, value |-> ZigzagToI32(ReadVarint32(b))]
          [] type = "i64"    -> [size |-> size, value |-> ZigzagToI64(ReadVarint64(b))]
          [] type = "double" -> Fixed(rest, 8, Reversed(SubSeq(rest, 1, 8)))
          [] type = "string" ->
                LET n == ReadVarint32(b)
                IN  IF size = 0 \/ Len(rest) < size + n THEN [size |-> 0]
                    ELSE [size |-> size + n, value |-> SubSeq(rest, size + 1, size + n)]
BinaryValue(type) ==
    CASE type = "byte" -> Fixed(rest, 1, Signed(rest[1]))
      [] type = "i16"  -> Fixed(rest, 2, NtoHs(rest))
      [] type = "i32"  -> Fixed(rest, 4, NtoHl(rest))
      [] type \in {"i64", "double"} -> Fixed(rest, 8, SubSeq(rest, 1, 8))
      [] type = "string" ->
            IF Len(rest) < 4 THEN [size |-> 0]
            ELSE Fixed(rest, 4 + NtoHl(rest), SubSeq(rest, 5, 4 + NtoHl(rest)))

(* borrowBuffer refuses an empty buffer; consuming more than there is      *)
(* leaves a length below zero, which every later read refuses.             *)
ReadValue ==
    /\ pc = "reading" /\ todo # << >> /\ Head(todo).kind = "value"
    /\ LET type == Head(todo).type
       IN  /\ type \in ScalarTypes \ {"bool"}
           /\ \E b \in Borrowed(IF type = "i64" THEN 10 ELSE 5) :
                 LET v == IF rest = << >> THEN [size |-> 0]
                          ELSE IF Compact THEN CompactValue(type, b) ELSE BinaryValue(type)
                 IN  IF v.size = 0 THEN Throw
                     ELSE /\ Reads([call |-> type, value |-> v.value], Tail(todo), v.size)
                          /\ UNCHANGED <<lastField_, lastFieldId_, boolValue_>>

ReadListBegin ==
    /\ pc = "reading" /\ todo # << >> /\ Head(todo).kind = "value" /\ Head(todo).type = "list"
    /\ LET long == Compact /\ rest # << >> /\ rest[1] \div 16 = 15
           b    == SubSeq(rest, 2, Least({6, Len(rest)}))
           n    == IF ~Compact THEN 5 ELSE IF long THEN 1 + VarintSize(b) ELSE 1
       IN  IF \/ rest = << >> \/ Len(rest) < n \/ (long /\ VarintSize(b) = 0) THEN Throw
           ELSE LET elem == IF Compact THEN GetTType(rest[1] % 16) ELSE TypeOf(TType, rest[1])
                    size == IF ~Compact THEN NtoHl(From(1))
                            ELSE IF long THEN ReadVarint32(b) ELSE rest[1] \div 16
                IN  /\ Reads([call |-> "list", types |-> <<elem>>, size |-> size],
                             [i \in 1 .. size |-> Value(elem, Head(todo).depth + 1)]
                             \o Tail(todo), n)
                    /\ UNCHANGED <<lastField_, lastFieldId_, boolValue_>>

(* An empty map of the compact protocol names no types.                    *)
ReadMapBegin ==
    /\ pc = "reading" /\ todo # << >> /\ Head(todo).kind = "value" /\ Head(todo).type = "map"
    /\ LET b     == SubSeq(rest, 1, Least({5, Len(rest)}))
           vsize == VarintSize(b)
           size  == IF Compact THEN ReadVarint32(b) ELSE NtoHl(From(2))
           empty == Compact /\ size = 0
           n     == IF ~Compact THEN 6 ELSE IF empty THEN vsize ELSE vsize + 1
       IN  IF \/ rest = << >> \/ Len(rest) < n \/ (Compact /\ vsize = 0) THEN Throw
           ELSE LET kv(i) == IF ~Compact THEN TypeOf(TType, rest[i])
                             ELSE IF i = 1 THEN GetTType(rest[n] \div 16)
                             ELSE GetTType(rest[n] % 16)
                IN  /\ Reads([call |-> "map", size |-> size,
                              types |-> IF empty THEN <<"stop", "stop">> ELSE <<kv(1), kv(2)>>],
                             [i \in 1 .. 2 * size |->
                                 Value(kv(IF i % 2 = 1 THEN 1 ELSE 2), Head(todo).depth + 1)]
                             \o Tail(todo), n)
                    /\ UNCHANGED <<lastField_, lastFieldId_, boolValue_>>

Next ==
    \/ WriteStructBegin \/ WriteFieldBegin \/ WriteStop \/ WriteBool \/ WriteValue
    \/ WriteListBegin \/ WriteMapBegin \/ Arrive
    \/ ReadStructBegin \/ ReadFieldBegin \/ ReadBool \/ ReadValue \/ ReadListBegin
    \/ ReadMapBegin

Spec == Init /\ [][Next]_thriftVars

-----------------------------------------------------------------------------
Finished == pc = "reading" /\ todo = << >>

Same(w, r) == \/ r = w
              \/ w.call = "map" /\ w.size = 0 /\ r = [w EXCEPT !.types = r.types]

(* writeX and readX, C and B: what is read is what was written, call by    *)
(* call, of a message that arrives whole, and nothing of it is left; one   *)
(* that arrives short is refused, never taken for another message.         *)
RoundTrip ==
    Len(wire) = returned =>
       /\ (cut => ~Finished) /\ (~cut => pc # "thrown")
       /\ ~cut => \A i \in 1 .. Len(read) : i <= Len(written) /\ Same(written[i], read[i])
       /\ Finished => Len(read) = Len(written) /\ rest = << >> /\ lastField_ = << >>

(* C.310: "Write an i32 as a varint. Results in 1-5 bytes on the    *)
(* wire."  What the calls returned is on the wire.                         *)
AllOnTheWire == Len(wire) = returned
=============================================================================
