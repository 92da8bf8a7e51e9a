------------------------------ MODULE Digests ------------------------------
(***************************************************************************)
(* The checksum classes of src/SL_Crypto_CRC16.cpp, CRC32.cpp, CRC32C.cpp, *)
(* CRC64.cpp and Adler32.cpp: update continues checksum_, final gives it   *)
(* out and sets it back.  CRC32 and CRC32C take four bytes at a time, with *)
(* four tables, once the data is aligned.  The tables are literals in the  *)
(* code; here they are computed from their polynomials.  A byte is the set *)
(* of its bits.                                                            *)
(*                                                                         *)
(* SL_Crypto_MD5 and SL_Crypto_SHA256 as they are built without OpenSSL    *)
(* (src/md5.cpp, src/sha256.cpp): update gathers the data to blocks of 64  *)
(* bytes, final fills the last one up and adds the length.  What is        *)
(* compressed is kept as the sequence of the blocks, and the rounds over   *)
(* them, in the code part of update and final, come afterwards.            *)
(***************************************************************************)
EXTENDS Words, Integers, FiniteSets
LOCAL INSTANCE SequencesExt

CONSTANTS Kinds,            \* the classes, a subset of AllKinds
          PieceLengths,     \* lengths of the data given to update
          MaxUpdates,       \* bound: calls of update between two of final
          ADLER32_NMAX      \* the Adler block, 5552 in the code

AllKinds == {"crc16", "crc32 little", "crc32 big", "crc32c", "crc64", "adler32"}

VARIABLES kind,
          checksum_,
          sum_fed,              \* history: the data of each update since init or final
          sum_before            \* history: checksum_ before the last update

checksumVars == <<kind, checksum_, sum_fed, sum_before>>

-----------------------------------------------------------------------------
Bytes256 == SUBSET (0 .. 7)

Eight(Step(_), c) == Folded(LAMBDA x, i : Step(x), c, [i \in 1 .. 8 |-> i])

(* What eight zero bits make of a byte that is shifted out to the right.   *)
ShiftedOut(poly) ==
    LET Step(c) == IF 0 \in c THEN Xor(Shr(c, 1), poly) ELSE Shr(c, 1)
    IN  [b \in Bytes256 |-> Eight(Step, b)]

(* Four tables, for a byte and with one, two and three bytes behind it.    *)
Slices(first) ==
    LET Further(c, i) == Xor(first[Low8(c)], Shr(c, 8))
        Behind(b, t)  == Folded(Further, first[b], [i \in 1 .. t |-> i])
    IN  [t \in 1 .. 4 |-> [b \in Bytes256 |-> Behind(b, t - 1)]]

CRC16_TABLE ==
    LET Step(c) == IF 15 \in c THEN Xor(Shl(c, 1, 16), {12, 5, 0}) ELSE Shl(c, 1, 16)
    IN  [b \in Bytes256 |-> Eight(Step, Shl(b, 8, 16))]

CRC32_POLY  == Word(60856, 33568)       \* 0xedb88320
CRC32C_POLY == Word(33526, 15224)       \* 0x82f63b78
CRC64_POLY  == Shl(Word(38316, 37673), 32, 64) \cup Word(44107, 51637)  \* 0x95ac9329ac4bc9b5

CRC32_FIRST  == ShiftedOut(CRC32_POLY)
CRC32C_FIRST == ShiftedOut(CRC32C_POLY)
CRC32_TABLE  == Slices(CRC32_FIRST)
CRC32C_TABLE == Slices(CRC32C_FIRST)
CRC64_TABLE  == ShiftedOut(CRC64_POLY)

SWAP32(q) == LittleEndian(<<ByteAt(q, 24), ByteAt(q, 16), ByteAt(q, 8), Low8(q)>>)

(* Tables 4 to 7 of CRC32_TABLE.                                           *)
CRC32_SWAPPED == [t \in 1 .. 4 |-> [b \in Bytes256 |-> SWAP32(CRC32_TABLE[t][b])]]

-----------------------------------------------------------------------------
(* Mutated form of Pieces: the bytes behind the last word are left out.    *)
Pieces_NoTail(data, align) ==
    LET head  == IF Len(data) < (4 - align) % 4 THEN Len(data) ELSE (4 - align) % 4
        fours == (Len(data) - head) \div 4
    IN  [i \in 1 .. head |-> <<data[i]>>]
          \o [i \in 1 .. fours |-> SubSeq(data, head + 4 * i - 3, head + 4 * i)]

(* The order of the bytes: one by one up to the alignment, then by fours,  *)
(* then one by one.                                                        *)
Pieces(data, align) ==
    LET head  == IF Len(data) < (4 - align) % 4 THEN Len(data) ELSE (4 - align) % 4
        fours == (Len(data) - head) \div 4
        tail  == head + 4 * fours
    IN  [i \in 1 .. head |-> <<data[i]>>]
          \o [i \in 1 .. fours |-> SubSeq(data, head + 4 * i - 3, head + 4 * i)]
          \o [i \in 1 .. Len(data) - tail |-> <<data[tail + i]>>]

Crc16(data, sum) ==
    Folded(LAMBDA c, b : Xor(Shl(c, 8, 16), CRC16_TABLE[Xor(Shr(c, 8), b)]), sum, data)

(* One byte, and four with a table each.                                   *)
OneByte(c, b, table) == Xor(table[1][Xor(Low8(c), b)], Shr(c, 8))

FourBytes(c, bytes, table) ==
    LET d == Xor(c, LittleEndian(bytes))
    IN  Xor(Xor(table[4][Low8(d)], table[3][ByteAt(d, 8)]),
            Xor(table[2][ByteAt(d, 16)], table[1][ByteAt(d, 24)]))

crc32_little(sum, data, align, table) ==
    Not(Folded(LAMBDA c, p : IF Len(p) = 1 THEN OneByte(c, p[1], table)
                               ELSE FourBytes(c, p, table),
                 Not(sum), Pieces(data, align)))

crc32_big(sum, data, align) ==
    LET One(c, b)  == Xor(CRC32_SWAPPED[1][Xor(ByteAt(c, 24), b)], Shl(c, 8, 32))
        Four(c, p) == LET d == Xor(c, BigEndian(p))
                      IN  Xor(Xor(CRC32_SWAPPED[1][Low8(d)], CRC32_SWAPPED[2][ByteAt(d, 8)]),
                              Xor(CRC32_SWAPPED[3][ByteAt(d, 16)],
                                  CRC32_SWAPPED[4][ByteAt(d, 24)]))
    IN  SWAP32(Not(Folded(LAMBDA c, p : IF Len(p) = 1 THEN One(c, p[1]) ELSE Four(c, p),
                            Not(SWAP32(sum)), Pieces(data, align))))

Crc32c(data, sum, align) == crc32_little(sum, data, align, CRC32C_TABLE)

Crc64(data, sum) ==
    Folded(LAMBDA c, b : Xor(CRC64_TABLE[Xor(Low8(c), b)], Shr(c, 8)), sum, data)

CRC32C_kMaskDelta == Word(41602, 60120)     \* 0xa282ead8

CRC32C_Mask(crc)   == Plus(Shr(crc, 15) \cup Shl(crc, 17, 32), CRC32C_kMaskDelta)
CRC32C_Unmask(masked_crc) ==
    LET rot == Minus(masked_crc, CRC32C_kMaskDelta) IN Shr(rot, 17) \cup Shl(rot, 15, 32)

-----------------------------------------------------------------------------
(* crc32_combine_: a matrix says what a word becomes when zeros follow it, *)
(* as the pairs of a bit and the bits it turns into.                       *)

gf2_matrix_times(mat, vec) == {b \in 0 .. 31 : Cardinality({i \in vec : <<i, b>> \in mat}) % 2 = 1}
gf2_matrix_square(mat) ==
    UNION {{<<n, b>> : b \in gf2_matrix_times(mat, {i \in 0 .. 31 : <<n, i>> \in mat})} :
              n \in 0 .. 31}

(* 2^n zero bytes: three squares make eight bits of one.                   *)
OneZero == {<<0, b>> : b \in CRC32_POLY} \cup {<<n, n - 1>> : n \in 1 .. 31}
Zeros(n) == Folded(LAMBDA m, i : gf2_matrix_square(m), OneZero, [i \in 1 .. n + 3 |-> i])

crc32_combine_(crc1, crc2, len2) ==
    IF len2 = 0 THEN crc1
    ELSE LET Follow(c, n) == IF n \in Bits(len2) THEN gf2_matrix_times(Zeros(n), c) ELSE c
         IN  Xor(Folded(Follow, crc1, [n \in 1 .. 7 |-> n - 1]), crc2)

-----------------------------------------------------------------------------
(* Adler32; the two halves of its sum are numbers.                         *)
ADLER32_BASE == 65521

Halves(adler) == <<Value(adler \cap (0 .. 15)), Value(Shr(adler, 16))>>
Joined(s)     == Word(s[2], s[1])

Chop(s) == IF s >= ADLER32_BASE THEN s - ADLER32_BASE ELSE s

(* sum += data[i], sum2 += sum, for each byte.                             *)
AdlerAdded(s, data) == Folded(LAMBDA a, b : <<a[1] + Value(b), a[2] + a[1] + Value(b)>>, s, data)

Adler32(data, sum) ==
    LET s == Halves(sum)
        runs == (Len(data) + ADLER32_NMAX - 1) \div ADLER32_NMAX
        Block(k) == SubSeq(data, (k - 1) * ADLER32_NMAX + 1,
                           IF k < runs THEN k * ADLER32_NMAX ELSE Len(data))
        after[k \in 0 .. runs] ==
            IF k = 0 THEN s
            ELSE LET sums == AdlerAdded(after[k - 1], Block(k))
                 IN  <<sums[1] % ADLER32_BASE, sums[2] % ADLER32_BASE>>
    IN  Joined(CASE Len(data) = 1 ->
                       LET first == Chop(s[1] + Value(data[1])) IN <<first, Chop(s[2] + first)>>
                 [] Len(data) \in 2 .. 15 ->
                       LET sums == AdlerAdded(s, data) IN <<Chop(sums[1]), sums[2] % ADLER32_BASE>>
                 [] OTHER -> after[runs])

adler32_combine_(adler1, adler2, len2) ==
    LET one  == Halves(adler1)
        two  == Halves(adler2)
        rem  == len2 % ADLER32_BASE
        sum1 == one[1] + two[1] + ADLER32_BASE - 1
        sum2 == ((rem * one[1]) % ADLER32_BASE) + one[2] + two[2] + ADLER32_BASE - rem
        less == IF sum2 >= 2 * ADLER32_BASE THEN sum2 - 2 * ADLER32_BASE ELSE sum2
    IN  Joined(<<Chop(Chop(sum1)), Chop(less)>>)

-----------------------------------------------------------------------------
(* checksum, whatever the class; the data may begin at any address.        *)
Checksum(k, data, align, sum) ==
    CASE k = "crc16"        -> Crc16(data, sum)
      [] k = "crc32 little" -> crc32_little(sum, data, align, CRC32_TABLE)
      [] k = "crc32 big"    -> crc32_big(sum, data, align)
      [] k = "crc32c"       -> Crc32c(data, sum, align)
      [] k = "crc64"        -> Crc64(data, sum)
      [] k = "adler32"      -> Adler32(data, sum)

SumInit == kind = "none" /\ checksum_ = {} /\ sum_fed = << >> /\ sum_before = {}

(* The constructor.                                                        *)
Open(k) ==
    /\ kind = "none"
    /\ kind' = k /\ checksum_' = {}
    /\ UNCHANGED <<sum_fed, sum_before>>

Piece(n) == [i \in 1 .. n |-> Bits((37 * i + 11 * n) % 256)]

SumUpdate(data, align) ==
    /\ kind # "none" /\ Len(sum_fed) < MaxUpdates
    /\ checksum_' = Checksum(kind, data, align, checksum_)
    /\ sum_fed' = Append(sum_fed, data)
    /\ sum_before' = checksum_
    /\ UNCHANGED kind

(* Mutated form of SumFinal: checksum_ is not set back.                    *)
SumFinal_KeepsSum ==
    /\ sum_fed # << >>
    /\ sum_fed' = << >> /\ sum_before' = {}
    /\ UNCHANGED <<kind, checksum_>>

SumFinal ==
    /\ sum_fed # << >>
    /\ checksum_' = {} /\ sum_fed' = << >> /\ sum_before' = {}
    /\ UNCHANGED kind

SumNext ==
    \/ \E k \in Kinds : Open(k)
    \/ \E n \in PieceLengths, align \in 0 .. 3 : SumUpdate(Piece(n), align)
    \/ SumFinal

SumSpec == SumInit /\ [][SumNext]_checksumVars

-----------------------------------------------------------------------------
(* A cyclic redundancy check is a remainder: of the bits, lowest first in  *)
(* a byte or highest first, with as many zeros behind them as the          *)
(* polynomial has degrees; the ones of a complement are in front.          *)

Poly(k) ==
    CASE k = "crc16" -> [degree |-> 16, terms |-> {12, 5, 0}, lowFirst |-> FALSE, not |-> FALSE]
      [] k = "crc64" -> [degree |-> 64, terms |-> {63 - i : i \in CRC64_POLY},
                         lowFirst |-> TRUE, not |-> FALSE]
      [] k = "crc32c" -> [degree |-> 32, terms |-> {31 - i : i \in CRC32C_POLY},
                          lowFirst |-> TRUE, not |-> TRUE]
      [] OTHER -> [degree |-> 32, terms |-> {31 - i : i \in CRC32_POLY},
                   lowFirst |-> TRUE, not |-> TRUE]

(* What the term of degree e leaves with eight zeros behind it: the pairs  *)
(* of e and a term of that.                                                *)
Behind8(p) ==
    LET left[e \in 0 .. p.degree + 7] ==
            IF e < p.degree THEN {e}
            ELSE LET r == {i + 1 : i \in left[e - 1]}
                 IN  IF p.degree \in r THEN Xor(r \ {p.degree}, p.terms) ELSE r
    IN  UNION {{<<e, t>> : t \in left[e + 8]} : e \in 0 .. p.degree - 1}

(* By bytes: what is left of those before, with eight zeros behind it, and *)
(* the terms of the byte.                                                  *)
Remainder(k, data) ==
    LET p == Poly(k)
        d == p.degree
        behind == Behind8(p)
        Terms(i) ==
            LET b == IF i <= Len(data) THEN data[i] ELSE {}
                c == IF p.not /\ i <= d \div 8 THEN (0 .. 7) \ b ELSE b
            IN  IF p.lowFirst THEN {7 - e : e \in c} ELSE c
        left[i \in 0 .. Len(data) + d \div 8] ==
            IF i = 0 THEN {}
            ELSE LET r == left[i - 1]
                 IN  Xor(Terms(i), {e \in 0 .. d - 1 :
                            Cardinality({t \in r : <<t, e>> \in behind}) % 2 = 1})
        rest   == left[Len(data) + d \div 8]
        turned == IF p.lowFirst THEN {d - 1 - e : e \in rest} ELSE rest
    IN  IF p.not THEN (0 .. d - 1) \ turned ELSE turned

Sums(data) ==
    LET n == Len(data)
        sum[i \in 0 .. n] == IF i = 0 THEN 0 ELSE sum[i - 1] + Value(data[i])
        sum2[i \in 0 .. n] == IF i = 0 THEN 0 ELSE sum2[i - 1] + sum[i]
    IN  Joined(<<sum[n] % ADLER32_BASE, sum2[n] % ADLER32_BASE>>)

(* update: however the bytes are cut and wherever they lie, checksum_ is   *)
(* the one of all bytes since final; crc32_combine_ and adler32_combine_   *)
(* (which takes sums that began with one) make it from the checksums of    *)
(* the parts; and CRC32C_Unmask undoes CRC32C_Mask.                        *)
SumOfAll ==
    LET data  == FlattenSeq(sum_fed)
        first == FlattenSeq(SubSeq(sum_fed, 1, Len(sum_fed) - 1))
        final == sum_fed[Len(sum_fed)]
        FromOne(d) == Adler32(d, {0})
    IN  kind # "none" =>
          IF sum_fed = << >> THEN checksum_ = {}
          ELSE /\ checksum_ = IF kind = "adler32" THEN Sums(data) ELSE Remainder(kind, data)
               /\ kind = "adler32" /\ first # << >> =>
                     adler32_combine_(FromOne(first), FromOne(final), Len(final)) = FromOne(data)
               /\ kind = "crc32 little" =>
                     crc32_combine_(sum_before, Checksum(kind, final, 0, {}), Len(final))
                        = checksum_
               /\ kind = "crc32c" => CRC32C_Unmask(CRC32C_Mask(checksum_)) = checksum_

-----------------------------------------------------------------------------
(* Message digests.                                                        *)
CONSTANTS Hashes,       \* a subset of {"md5", "sha256"}
          Texts,        \* the texts digested, sequences of bytes
          StepLengths   \* lengths of the data given to update

VARIABLES hash, text,
          fed,          \* history: bytes of text given to update
          total,        \* ctx->bytes, ctx->total
          buffer,       \* ctx->buffer
          blocks,       \* the blocks compressed
          done,         \* final has been called
          state, work,  \* ctx->state, ctx->a to d; A to H, a to d
          words,        \* the words of W so far, the block's words
          rounds        \* how many times four steps have been made

digestVars == <<hash, text, fed, total, buffer, blocks, done, state, work, words, rounds>>

-----------------------------------------------------------------------------
(* md5_body: the four functions, the additive constants, and for each step *)
(* of a round the word it takes and the distance it rotates.               *)

F(x, y, z) == Xor(z, x \cap Xor(y, z))
G(x, y, z) == Xor(y, z \cap Xor(x, y))
H(x, y, z) == Xor(x, Xor(y, z))
I(x, y, z) == Xor(y, x \cup Not(z))

MD5_T == <<
    Word(\hd76a, \ha478), Word(\he8c7, \hb756), Word(\h2420, \h70db), Word(\hc1bd, \hceee),
    Word(\hf57c, \h0faf), Word(\h4787, \hc62a), Word(\ha830, \h4613), Word(\hfd46, \h9501),
    Word(\h6980, \h98d8), Word(\h8b44, \hf7af), Word(\hffff, \h5bb1), Word(\h895c, \hd7be),
    Word(\h6b90, \h1122), Word(\hfd98, \h7193), Word(\ha679, \h438e), Word(\h49b4, \h0821),
    Word(\hf61e, \h2562), Word(\hc040, \hb340), Word(\h265e, \h5a51), Word(\he9b6, \hc7aa),
    Word(\hd62f, \h105d), Word(\h0244, \h1453), Word(\hd8a1, \he681), Word(\he7d3, \hfbc8),
    Word(\h21e1, \hcde6), Word(\hc337, \h07d6), Word(\hf4d5, \h0d87), Word(\h455a, \h14ed),
    Word(\ha9e3, \he905), Word(\hfcef, \ha3f8), Word(\h676f, \h02d9), Word(\h8d2a, \h4c8a),
    Word(\hfffa, \h3942), Word(\h8771, \hf681), Word(\h6d9d, \h6122), Word(\hfde5, \h380c),
    Word(\ha4be, \hea44), Word(\h4bde, \hcfa9), Word(\hf6bb, \h4b60), Word(\hbebf, \hbc70),
    Word(\h289b, \h7ec6), Word(\heaa1, \h27fa), Word(\hd4ef, \h3085), Word(\h0488, \h1d05),
    Word(\hd9d4, \hd039), Word(\he6db, \h99e5), Word(\h1fa2, \h7cf8), Word(\hc4ac, \h5665),
    Word(\hf429, \h2244), Word(\h432a, \hff97), Word(\hab94, \h23a7), Word(\hfc93, \ha039),
    Word(\h655b, \h59c3), Word(\h8f0c, \hcc92), Word(\hffef, \hf47d), Word(\h8584, \h5dd1),
    Word(\h6fa8, \h7e4f), Word(\hfe2c, \he6e0), Word(\ha301, \h4314), Word(\h4e08, \h11a1),
    Word(\hf753, \h7e82), Word(\hbd3a, \hf235), Word(\h2ad7, \hd2bb), Word(\heb86, \hd391)>>

(* The word a step takes, and how far it rotates what it adds.             *)
MD5_GET(round, i) ==
    CASE round = 0 -> i [] round = 1 -> (5 * i + 1) % 16
      [] round = 2 -> (3 * i + 5) % 16 [] round = 3 -> (7 * i) % 16

MD5_ROTATE == << <<7, 12, 17, 22>>, <<5, 9, 14, 20>>, <<4, 11, 16, 23>>, <<6, 10, 15, 21>> >>

Words32(block, lowest_first) ==
    LET Read(b) == IF lowest_first THEN LittleEndian(b) ELSE BigEndian(b)
    IN  [n \in 1 .. 16 |-> Read([b \in 1 .. 4 |-> Bits(block[4 * n - 4 + b])])]

Added(a, b) == [n \in DOMAIN a |-> Plus(a[n], b[n])]

(* STEP, four times from step k on.                                        *)
md5_steps(start, x, k) ==
    LET round == k \div 16
        Step(s, t) ==
            LET i   == t % 16
                f   == CASE round = 0 -> F(s[2], s[3], s[4]) [] round = 1 -> G(s[2], s[3], s[4])
                         [] round = 2 -> H(s[2], s[3], s[4]) [] round = 3 -> I(s[2], s[3], s[4])
                sum == Plus(Plus(s[1], f), Plus(x[MD5_GET(round, i) + 1], MD5_T[t + 1]))
            IN  <<s[4], Plus(Rotl(sum, MD5_ROTATE[round + 1][1 + (i % 4)]), s[2]), s[2], s[3]>>
    IN  Folded(Step, start, [t \in 1 .. 4 |-> k + t - 1])

MD5_INIT == <<Word(\h6745, \h2301), Word(\hefcd, \hab89), Word(\h98ba, \hdcfe), Word(\h1032, \h5476)>>

-----------------------------------------------------------------------------
(* sha256_process.                                                         *)

SHA_K == <<
    Word(\h428a, \h2f98), Word(\h7137, \h4491), Word(\hb5c0, \hfbcf), Word(\he9b5, \hdba5),
    Word(\h3956, \hc25b), Word(\h59f1, \h11f1), Word(\h923f, \h82a4), Word(\hab1c, \h5ed5),
    Word(\hd807, \haa98), Word(\h1283, \h5b01), Word(\h2431, \h85be), Word(\h550c, \h7dc3),
    Word(\h72be, \h5d74), Word(\h80de, \hb1fe), Word(\h9bdc, \h06a7), Word(\hc19b, \hf174),
    Word(\he49b, \h69c1), Word(\hefbe, \h4786), Word(\h0fc1, \h9dc6), Word(\h240c, \ha1cc),
    Word(\h2de9, \h2c6f), Word(\h4a74, \h84aa), Word(\h5cb0, \ha9dc), Word(\h76f9, \h88da),
    Word(\h983e, \h5152), Word(\ha831, \hc66d), Word(\hb003, \h27c8), Word(\hbf59, \h7fc7),
    Word(\hc6e0, \h0bf3), Word(\hd5a7, \h9147), Word(\h06ca, \h6351), Word(\h1429, \h2967),
    Word(\h27b7, \h0a85), Word(\h2e1b, \h2138), Word(\h4d2c, \h6dfc), Word(\h5338, \h0d13),
    Word(\h650a, \h7354), Word(\h766a, \h0abb), Word(\h81c2, \hc92e), Word(\h9272, \h2c85),
    Word(\ha2bf, \he8a1), Word(\ha81a, \h664b), Word(\hc24b, \h8b70), Word(\hc76c, \h51a3),
    Word(\hd192, \he819), Word(\hd699, \h0624), Word(\hf40e, \h3585), Word(\h106a, \ha070),
    Word(\h19a4, \hc116), Word(\h1e37, \h6c08), Word(\h2748, \h774c), Word(\h34b0, \hbcb5),
    Word(\h391c, \h0cb3), Word(\h4ed8, \haa4a), Word(\h5b9c, \hca4f), Word(\h682e, \h6ff3),
    Word(\h748f, \h82ee), Word(\h78a5, \h636f), Word(\h84c8, \h7814), Word(\h8cc7, \h0208),
    Word(\h90be, \hfffa), Word(\ha450, \h6ceb), Word(\hbef9, \ha3f7), Word(\hc671, \h78f2)>>

Rotr(x, n) == Rotl(x, 32 - n)
S0(x) == Xor(Xor(Rotr(x, 7), Rotr(x, 18)), Shr(x, 3))
S1(x) == Xor(Xor(Rotr(x, 17), Rotr(x, 19)), Shr(x, 10))
S2(x) == Xor(Xor(Rotr(x, 2), Rotr(x, 13)), Rotr(x, 22))
S3(x) == Xor(Xor(Rotr(x, 6), Rotr(x, 11)), Rotr(x, 25))
F0(x, y, z) == (x \cap y) \cup (z \cap (x \cup y))
F1(x, y, z) == Xor(z, x \cap Xor(y, z))

(* R, the next four words.                                                 *)
Scheduled(w) ==
    LET R(v, t) == Append(v, Plus(Plus(S1(v[t - 2]), v[t - 7]), Plus(S0(v[t - 15]), v[t - 16])))
    IN  Folded(R, w, [t \in 1 .. 4 |-> Len(w) + t])

(* P, four times from step k on.                                           *)
sha256_steps(start, w, k) ==
    LET P(s, t) ==
            LET temp1 == Plus(Plus(Plus(s[8], S3(s[5])), F1(s[5], s[6], s[7])),
                              Plus(SHA_K[t], w[t]))
                temp2 == Plus(S2(s[1]), F0(s[1], s[2], s[3]))
            IN  <<Plus(temp1, temp2), s[1], s[2], s[3], Plus(s[4], temp1), s[5], s[6], s[7]>>
    IN  Folded(P, start, [t \in 1 .. 4 |-> k + t])

SHA_INIT == <<
    Word(\h6a09, \he667), Word(\hbb67, \hae85), Word(\h3c6e, \hf372), Word(\ha54f, \hf53a),
    Word(\h510e, \h527f), Word(\h9b05, \h688c), Word(\h1f83, \hd9ab), Word(\h5be0, \hcd19)>>

-----------------------------------------------------------------------------
Put(b, at, data) == [i \in 1 .. 64 |-> IF i - at \in DOMAIN data THEN data[i - at] ELSE b[i]]
Nulls(n)         == [i \in 1 .. n |-> 0]
After(data, n)   == SubSeq(data, n + 1, Len(data))
Blocks(data)     == [k \in 1 .. Len(data) \div 64 |-> SubSeq(data, 64 * k - 63, 64 * k)]

Context == [total |-> total, buffer |-> buffer, blocks |-> blocks]

(* Mutated form of md5_update: data that just fills the buffer is kept     *)
(* there.                                                                  *)
md5_update_Full(c, data) ==
    LET used == c.total % 64
        free == 64 - used
        full == Put(c.buffer, used, SubSeq(data, 1, IF Len(data) < free THEN Len(data) ELSE free))
        rest == IF used = 0 THEN data ELSE After(data, free)
    IN  IF used > 0 /\ Len(data) <= free
        THEN [total |-> c.total + Len(data), buffer |-> full, blocks |-> c.blocks]
        ELSE [total  |-> c.total + Len(data),
              buffer |-> Put(c.buffer, 0, After(rest, Len(rest) - (Len(rest) % 64))),
              blocks |-> c.blocks \o (IF used > 0 THEN <<full>> ELSE << >>) \o Blocks(rest)]

md5_update(c, data) ==
    LET used == c.total % 64
        free == 64 - used
        full == Put(c.buffer, used, SubSeq(data, 1, IF Len(data) < free THEN Len(data) ELSE free))
        rest == IF used = 0 THEN data ELSE After(data, free)
    IN  IF used > 0 /\ Len(data) < free
        THEN [total |-> c.total + Len(data), buffer |-> full, blocks |-> c.blocks]
        ELSE [total  |-> c.total + Len(data),
              buffer |-> Put(IF used > 0 THEN full ELSE c.buffer, 0,
                             After(rest, Len(rest) - (Len(rest) % 64))),
              blocks |-> c.blocks \o (IF used > 0 THEN <<full>> ELSE << >>) \o Blocks(rest)]

(* The length in bits; three of its eight bytes are enough here.           *)
LengthLow(n) == [i \in 1 .. 8 |-> IF i > 3 THEN 0 ELSE ((8 * n) \div 256^(i - 1)) % 256]

md5_final(c) ==
    LET used  == c.total % 64
        ended == Put(c.buffer, used, <<128>> \o Nulls(63 - used))
    IN  c.blocks \o (IF 63 - used < 8 THEN <<ended, Put(Nulls(64), 56, LengthLow(c.total))>>
                     ELSE <<Put(ended, 56, LengthLow(c.total))>>)

sha256_update(c, data) ==
    LET left == c.total % 64
        fill == IF left > 0 /\ Len(data) >= 64 - left THEN 64 - left ELSE 0
        full == Put(c.buffer, left, SubSeq(data, 1, fill))
        rest == After(data, fill)
        tail == After(rest, Len(rest) - (Len(rest) % 64))
    IN  IF data = << >> THEN c
        ELSE [total  |-> c.total + Len(data),
              buffer |-> IF fill > 0 THEN Put(full, 0, tail) ELSE Put(c.buffer, left, tail),
              blocks |-> c.blocks \o (IF fill > 0 THEN <<full>> ELSE << >>) \o Blocks(rest)]

LengthHigh(n) == LET l == LengthLow(n) IN [i \in 1 .. 8 |-> l[9 - i]]

(* Mutated form of sha256_final: 56 bytes in the last block leave room for *)
(* no padding.                                                             *)
sha256_final_NoPadding(c) ==
    LET last == c.total % 64
        padn == IF last <= 56 THEN 56 - last ELSE 120 - last
        pad  == SubSeq(<<128>> \o Nulls(63), 1, padn)
    IN  sha256_update(sha256_update(c, pad), LengthHigh(c.total)).blocks

sha256_final(c) ==
    LET last == c.total % 64
        padn == IF last < 56 THEN 56 - last ELSE 120 - last
        pad  == SubSeq(<<128>> \o Nulls(63), 1, padn)
    IN  sha256_update(sha256_update(c, pad), LengthHigh(c.total)).blocks

-----------------------------------------------------------------------------
Stale == [i \in 1 .. 64 |-> 255]

Init ==
    /\ hash = "none" /\ text = << >> /\ fed = 0
    /\ total = 0 /\ buffer = << >> /\ blocks = << >> /\ done = FALSE
    /\ state = << >> /\ work = << >> /\ words = << >> /\ rounds = 0

(* The constructor; the bytes of the buffer are anything.                  *)
Begin(h, t) ==
    /\ hash = "none"
    /\ hash' = h /\ text' = t
    /\ buffer' = Stale
    /\ state' = IF h = "md5" THEN MD5_INIT ELSE SHA_INIT
    /\ UNCHANGED <<fed, total, blocks, done, work, words, rounds>>

Update(n) ==
    /\ hash # "none" /\ ~done /\ fed + n <= Len(text)
    /\ LET data == SubSeq(text, fed + 1, fed + n)
           next == IF hash = "md5" THEN md5_update(Context, data) ELSE sha256_update(Context, data)
       IN  total' = next.total /\ buffer' = next.buffer /\ blocks' = next.blocks
    /\ fed' = fed + n
    /\ UNCHANGED <<hash, text, done, state, work, words, rounds>>

(* final; the buffer is of no use after it.                                *)
Final ==
    /\ hash # "none" /\ ~done /\ done' = TRUE
    /\ blocks' = IF hash = "md5" THEN md5_final(Context) ELSE sha256_final(Context)
    /\ buffer' = << >>
    /\ UNCHANGED <<hash, text, fed, total, state, work, words, rounds>>

(* Four steps over a block; after the last ones the state is added.        *)
(* Bound: the rounds are made for whole texts only.                        *)
Steps ==
    /\ done /\ fed = Len(text) /\ rounds < 16 * Len(blocks)
    /\ LET k     == 4 * (rounds % 16)
           block == blocks[(rounds \div 16) + 1]
           start == IF k = 0 THEN state ELSE work
       IN  /\ IF hash = "md5"
              THEN /\ words' = IF k = 0 THEN Words32(block, TRUE) ELSE words
                   /\ work' = md5_steps(start, words', k)
              ELSE /\ words' = CASE k = 0 -> Words32(block, FALSE)
                                 [] k \in 4 .. 15 -> words [] OTHER -> Scheduled(words)
                   /\ work' = sha256_steps(start, words', k)
           /\ state' = IF k = 60 THEN Added(work', state) ELSE state
    /\ rounds' = rounds + 1
    /\ UNCHANGED <<hash, text, fed, total, buffer, blocks, done>>

Next ==
    \/ \E h \in Hashes, t \in Texts : Begin(h, t)
    \/ \E n \in StepLengths : Update(n)
    \/ Final \/ Steps

Spec == Init /\ [][Next]_digestVars

-----------------------------------------------------------------------------
(* "abc" and the longer text of the test in src/sha256.cpp:261, and their  *)
(* digests there and in RFC 1321.                                          *)
Abc  == <<97, 98, 99>>
Long == [i \in 1 .. 56 |-> 97 + ((i - 1) \div 4) + ((i - 1) % 4)]

Known ==
    CASE hash = "md5" /\ text = Abc -> <<
            Word(\h9850, \h0190), Word(\hb04f, \hd23c), Word(\h7d3f, \h96d6), Word(\h727f, \he128)>>
      [] hash = "sha256" /\ text = Abc -> <<
            Word(\hba78, \h16bf), Word(\h8f01, \hcfea), Word(\h4141, \h40de), Word(\h5dae, \h2223),
            Word(\hb003, \h61a3), Word(\h9617, \h7a9c), Word(\hb410, \hff61), Word(\hf200, \h15ad)>>
      [] hash = "sha256" /\ text = Long -> <<
            Word(\h248d, \h6a61), Word(\hd206, \h38b8), Word(\he5c0, \h2693), Word(\h0c3e, \h6039),
            Word(\ha33c, \he459), Word(\h64ff, \h2167), Word(\hf6ec, \hedd4), Word(\h19db, \h06c1)>>
      [] OTHER -> << >>

(* update and final: however the text is cut, what is compressed is the    *)
(* text, the bit behind it, zeros, and its length at the end of a block,   *)
(* in no more blocks than that needs; and the rounds make of it the known  *)
(* digest of the text.                                                     *)
PaddedText ==
    done => LET n      == (fed + 9 + 63) \div 64
                length == IF hash = "md5" THEN LengthLow(fed) ELSE LengthHigh(fed)
            IN  /\ FlattenSeq(blocks) = SubSeq(text, 1, fed) \o <<128>>
                                           \o Nulls(64 * n - fed - 9) \o length
                /\ fed = Len(text) /\ rounds = 16 * Len(blocks) /\ Known # << >> => state = Known
=============================================================================
