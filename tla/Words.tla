------------------------------- MODULE Words -------------------------------
(***************************************************************************)
(* The unsigned integers of the checksums, digests and ciphers: a word is  *)
(* the set of its bits that are one, bit 0 the lowest.  TLC's own integers *)
(* have 32 bits with a sign.                                               *)
(***************************************************************************)
EXTENDS Naturals, Sequences

(* x < 2^16 as a word, and a word of 32 bits from its halves.              *)
Bits(x)      == {i \in 0 .. 15 : (x \div 2^i) % 2 = 1}
Word(hi, lo) == Bits(lo) \cup {i + 16 : i \in Bits(hi)}

Xor(a, b)     == (a \ b) \cup (b \ a)
Shr(a, n)     == {i - n : i \in {k \in a : k >= n}}
Shl(a, n, w)  == {i + n : i \in {k \in a : k + n < w}}
Not(a)        == (0 .. 31) \ a
Rotl(a, n)    == {(i + n) % 32 : i \in a}
Low8(a)       == a \cap (0 .. 7)
ByteAt(a, n)  == Low8(Shr(a, n))

(* The value of a byte, and of a word of at most 16 bits.                  *)
ByteValue == [b \in SUBSET (0 .. 7) |->
                 LET upto[i \in 0 .. 8] ==
                         IF i = 0 THEN 0 ELSE upto[i - 1] + IF i - 1 \in b THEN 2^(i - 1) ELSE 0
                 IN  upto[8]]
Value(a)  == ByteValue[Low8(a)] + 256 * ByteValue[Shr(a, 8)]

(* a + b modulo 2^32: the halves are added, with a carry.                  *)
Plus(a, b) ==
    LET low  == Value(a \cap (0 .. 15)) + Value(b \cap (0 .. 15))
        high == Value(Shr(a, 16)) + Value(Shr(b, 16)) + low \div 65536
    IN  Word(high % 65536, low % 65536)

Minus(a, b) == Plus(a, Plus(Not(b), {0}))

(* FoldLeft as a recursive function, which TLC evaluates on less stack.    *)
Folded(Step(_, _), base, seq) ==
    LET upto[i \in 0 .. Len(seq)] == IF i = 0 THEN base ELSE Step(upto[i - 1], seq[i])
    IN  upto[Len(seq)]

(* A word from its bytes, the first one the highest or the lowest.         *)
BigEndian(b)    == Shl(b[1], 24, 32) \cup Shl(b[2], 16, 32) \cup Shl(b[3], 8, 32) \cup b[4]
LittleEndian(b) == BigEndian(<<b[4], b[3], b[2], b[1]>>)
=============================================================================
