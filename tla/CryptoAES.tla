----------------------------- MODULE CryptoAES ------------------------------
(***************************************************************************)
(* SL_Crypto_AES in its two builds.                                        *)
(*                                                                         *)
(* With OpenSSL: a text is cut into blocks, the last one filled up with    *)
(* zeros, and the first byte of what is sent says with how many; the       *)
(* blocks are encrypted in one of six modes, whose ivec and counter both   *)
(* ends carry on from text to text.  The block cipher and the modes        *)
(* themselves are OpenSSL's; here a block has three bits.  Line numbers    *)
(* refer to src/SL_Crypto_AES.cpp.                                         *)
(*                                                                         *)
(* Without it: src/aes.cpp generates its tables by arithmetic in GF(2^8),  *)
(* expands a key to the round keys of both directions, and runs the rounds *)
(* over them.  A byte is a set of bits, as in Words.  One step is one      *)
(* round of one block.  Built with FIXED_TABLES the same numbers are       *)
(* literals in the source.  Line numbers refer to src/aes.cpp.             *)
(***************************************************************************)
EXTENDS Words, Integers

CONSTANTS ClearTexts,   \* what is encrypted, sequences of bytes
          MaxTexts      \* bound: how many texts one after the other

VARIABLES mode_,
          mode_call,    \* the calls with ivec, num and ecount_buf are used
          ivec,         \* per end, its ivec: two blocks, the second for IGE
          message,      \* what encrypt made of sent, NoMessage before and after
          sent,         \* history: the text encrypted last
          received,     \* what decrypt made of it
          texts         \* how many texts were encrypted

cipherVars == <<mode_, mode_call, ivec, message, sent, received, texts>>

Modes       == {"ecb", "cbc", "cfb", "ofb", "ctr", "ige"}
StreamModes == {"cfb", "ofb", "ctr"}
SslBlockSize   == 3
NoMessage   == [pad |-> 0, data |-> << >>]

-----------------------------------------------------------------------------
(* OpenSSL.  AES_encrypt and AES_decrypt are inverse if each has its own   *)
(* key schedule; AES_encrypt with the schedule of AES_decrypt is another   *)
(* function.                                                               *)
XorBytes(a, b) == [i \in 1 .. SslBlockSize |-> (a[i] + b[i]) % 2]

AES_encrypt(b, key) ==
    IF key = "encrypt" THEN <<1 - b[3], b[1], (b[2] + b[1] * b[3]) % 2>>
                       ELSE <<b[2], 1 - b[3], b[1]>>
AES_decrypt(b) == <<b[2], (b[3] + b[2] * (1 - b[1])) % 2, 1 - b[1]>>

Incremented(b) == <<(b[1] + b[2] * b[3]) % 2, (b[2] + b[3]) % 2, 1 - b[3]>>

(* One block: what comes out, and the ivec after it.                       *)
OneBlock(mode, encrypts, key, b, iv) ==
    LET out ==
            CASE mode = "ecb" -> IF encrypts THEN AES_encrypt(b, key) ELSE AES_decrypt(b)
              [] mode = "cbc" -> IF encrypts THEN AES_encrypt(XorBytes(b, iv[1]), key)
                                 ELSE XorBytes(AES_decrypt(b), iv[1])
              [] mode \in StreamModes -> XorBytes(b, AES_encrypt(iv[1], key))
              [] mode = "ige" ->
                    IF encrypts THEN XorBytes(AES_encrypt(XorBytes(b, iv[1]), key), iv[2])
                    ELSE XorBytes(AES_decrypt(XorBytes(b, iv[2])), iv[1])
        cipher == IF encrypts THEN out ELSE b
        clear  == IF encrypts THEN b ELSE out
    IN  [out |-> out,
         ivec |-> CASE mode = "ecb" -> iv
                    [] mode \in {"cbc", "cfb"} -> <<cipher, iv[2]>>
                    [] mode = "ofb" -> <<AES_encrypt(iv[1], key), iv[2]>>
                    [] mode = "ctr" -> <<Incremented(iv[1]), iv[2]>>
                    [] mode = "ige" -> <<cipher, clear>>]

(* AES_cbc_encrypt and so on, over so many bytes.                          *)
Blocks(mode, encrypts, key, data, iv) ==
    LET upto[k \in 0 .. Len(data) \div SslBlockSize] ==
            IF k = 0 THEN [out |-> << >>, ivec |-> iv]
            ELSE LET b == SubSeq(data, SslBlockSize * (k - 1) + 1, SslBlockSize * k)
                     one == OneBlock(mode, encrypts, key, b, upto[k - 1].ivec)
                 IN  [out |-> upto[k - 1].out \o one.out, ivec |-> one.ivec]
    IN  upto[Len(data) \div SslBlockSize]

-----------------------------------------------------------------------------
EndLen(text) == Len(text) % SslBlockSize

(* Mutated form of SslPadding: the bytes that are there.                   *)
SslPadding_EndLen(text) == EndLen(text)

(* out[0].                                                                 *)
SslPadding(text) == IF EndLen(text) > 0 THEN SslBlockSize - EndLen(text) ELSE 0

(* get_need_len and need_len.                                              *)
NeedLen(text) ==
    IF EndLen(text) > 0 THEN Len(text) - EndLen(text) + SslBlockSize + 1 ELSE Len(text) + 1

(* end_block: the bytes left, and zeros.                                   *)
SslFilled(text) ==
    text \o [i \in 1 .. IF EndLen(text) > 0 THEN SslBlockSize - EndLen(text) ELSE 0 |-> 0]

SslInit ==
    /\ mode_ = "ecb" /\ mode_call = FALSE
    /\ ivec = [end \in {"sender", "receiver"} |-> << <<0, 0, 0>>, <<1, 0, 1>> >>]
    /\ message = NoMessage
    /\ sent = << >> /\ received = << >> /\ texts = 0

(* init of both ends; the calls without a mode encrypt each block alone.   *)
Choose(mode, with) ==
    /\ texts = 0
    /\ mode_' = mode /\ mode_call' = with
    /\ UNCHANGED <<ivec, message, sent, received, texts>>

Mode == IF mode_call THEN mode_ ELSE "ecb"

(* encrypt refuses an out that has no room.                                *)
SslEncrypt(text, out_len) ==
    /\ message = NoMessage /\ texts < MaxTexts
    /\ texts' = texts + 1
    /\ sent' = IF out_len < NeedLen(text) THEN << >> ELSE text
    /\ received' = << >>
    /\ IF out_len < NeedLen(text) THEN UNCHANGED <<message, ivec>>
       ELSE LET done == Blocks(Mode, TRUE, "encrypt", SslFilled(text), ivec["sender"])
            IN  /\ message' = [pad |-> SslPadding(text), data |-> done.out]
                /\ ivec' = [ivec EXCEPT !["sender"] = done.ivec]
    /\ UNCHANGED <<mode_, mode_call>>

(* Mutated form of SslDecrypt: ivec is a copy.                             *)
SslDecrypt_CopiedIvec ==
    /\ message # NoMessage
    /\ LET done == Blocks(Mode, FALSE, "decrypt", message.data, ivec["receiver"])
       IN  received' = SubSeq(done.out, 1, Len(message.data) - message.pad)
    /\ message' = NoMessage
    /\ UNCHANGED <<mode_, mode_call, ivec, sent, texts>>

(* decrypt, with decrypt_key_ in every mode; it returns how many bytes of  *)
(* out are the text.                                                       *)
SslDecrypt ==
    /\ message # NoMessage
    /\ LET done == Blocks(Mode, FALSE, "decrypt", message.data, ivec["receiver"])
       IN  /\ received' = SubSeq(done.out, 1, Len(message.data) - message.pad)
           /\ ivec' = [ivec EXCEPT !["receiver"] = done.ivec]
    /\ message' = NoMessage
    /\ UNCHANGED <<mode_, mode_call, sent, texts>>

SslNext ==
    \/ \E mode \in Modes, with \in BOOLEAN : Choose(mode, with)
    \/ \E text \in ClearTexts, room \in {0, 1} : SslEncrypt(text, NeedLen(text) - room)
    \/ SslDecrypt

SslSpec == SslInit /\ [][SslNext]_cipherVars

-----------------------------------------------------------------------------
(* encrypt, decrypt: what was encrypted comes back, text after text, and   *)
(* need_len is what was needed.  Not in the modes in which a block is only *)
(* combined with a key stream: decrypt makes that stream with the key      *)
(* schedule of AES_decrypt.                                                *)
TextComesBack ==
    /\ message # NoMessage => Len(message.data) + 1 = NeedLen(sent)
    /\ Mode \notin StreamModes /\ message = NoMessage =>
          received = sent /\ ivec["receiver"] = ivec["sender"]

-----------------------------------------------------------------------------
(* Without OpenSSL.                                                        *)
CONSTANTS AesKeys,      \* keys, sequences of bytes
          AesTexts      \* texts, sequences of bytes

VARIABLES tables,       \* pow, FSb, RSb, FT0, RT0, KT0, as far as they are there
          nr, erk, drk, \* aes_ctx: the rounds, the round keys
          clear,        \* history: the text given to encrypt
          input,        \* what is being encrypted or decrypted
          output,       \* the blocks of the result so far
          columns,      \* X0 to X3 of the block in work, or NoBlock
          round,        \* the rounds made of it
          aes_pc        \* where the calls are

aesVars == <<tables, nr, erk, drk, clear, input, output, columns, round, aes_pc>>

NoBlock   == << >>
BlockSize == 16

-----------------------------------------------------------------------------
(* aes_gen_tables.                                                         *)
AllBytes == SUBSET (0 .. 7)

XTIME(x) == Xor(Shl(x, 1, 8), IF 7 \in x THEN Bits(\h1B) ELSE {})

Init ==
    /\ tables = [pow |-> <<{0}>>]
    /\ nr = 0 /\ erk = << >> /\ drk = << >>
    /\ clear = << >> /\ input = << >> /\ output = << >>
    /\ columns = NoBlock /\ round = 0 /\ aes_pc = "tables"

Generating == UNCHANGED <<nr, erk, drk, clear, input, output, columns, round>>

(* 15 turns of the loop that fills pow.                                    *)
GenPow ==
    /\ aes_pc = "tables" /\ Len(tables.pow) < 256
    /\ LET Turn(p, i) == LET x == p[Len(p)] IN Append(p, Xor(x, XTIME(x)))
       IN  tables' = [pow |-> Folded(Turn, tables.pow, [i \in 1 .. 15 |-> i])]
    /\ Generating /\ UNCHANGED aes_pc

(* The loop writes log[1] twice; the last value stays.                     *)
log(x) == CHOOSE i \in 1 .. 255 : tables.pow[i + 1] = x

MUL(x, y) == IF x = {} \/ y = {} THEN {} ELSE tables.pow[((log(x) + log(y)) % 255) + 1]

RCON(i) == LET Twice(x, k) == XTIME(x)
           IN  Shl(Folded(Twice, {0}, [k \in 1 .. i |-> k]), 24, 32)

Turned(x, n) == {(i + n) % 8 : i \in x}

(* FSb[b].                                                                 *)
Box(b) ==
    LET x == IF b = {} THEN {} ELSE tables.pow[256 - log(b)]
    IN  Xor(Xor(Xor(x, Turned(x, 1)), Xor(Turned(x, 2), Turned(x, 3))),
            Xor(Turned(x, 4), Bits(\h63)))

GenBoxes ==
    /\ aes_pc = "tables" /\ Len(tables.pow) = 256
    /\ tables' = [pow |-> tables.pow, FSb |-> [b \in AllBytes |-> Box(b)]]
    /\ aes_pc' = "reverse"
    /\ Generating

FromBytes(a, b, c, d) == BigEndian(<<a, b, c, d>>)

(* FT0[b] and RT0[b].                                                      *)
Forward(b) == LET x == tables.FSb[b] y == XTIME(x) IN FromBytes(y, x, x, Xor(x, y))
Reverse(y) == FromBytes(MUL(Bits(\h0E), y), MUL(Bits(\h09), y),
                        MUL(Bits(\h0D), y), MUL(Bits(\h0B), y))

(* RSb, the S-box backwards.                                               *)
ReverseBox(y) == CHOOSE b \in AllBytes : tables.FSb[b] = y

(* FT1 to FT3 and RT1 to RT3 are FT0 and RT0 turned by ROTR8: the model    *)
(* keeps the first ones and turns what it takes.  KT0[i] is RT0[FSb[i]].   *)
GenReverse ==
    /\ aes_pc = "reverse"
    /\ LET RSb == [y \in AllBytes |-> ReverseBox(y)]
       IN  tables' = [FSb |-> tables.FSb, RSb |-> RSb,
                      FT0 |-> [b \in AllBytes |-> Forward(b)],
                      RT0 |-> [b \in AllBytes |-> Reverse(RSb[b])],
                      KT0 |-> [b \in AllBytes |-> Reverse(b)]]
    /\ aes_pc' = "key"
    /\ Generating

(* Four bytes through tables 0 to 3.                                       *)
Looked(table, b) ==
    Xor(Xor(table[b[1]], Rotl(table[b[2]], 24)), Xor(Rotl(table[b[3]], 16), Rotl(table[b[4]], 8)))

-----------------------------------------------------------------------------
(* aes_set_key.                                                            *)
GET_UINT32(bytes, i) == BigEndian([k \in 1 .. 4 |-> Bits(bytes[i + k])])

NumberOfRounds(nbits) == CASE nbits = 128 -> 10 [] nbits = 192 -> 12 [] nbits = 256 -> 14

BytesOf(w)    == [n \in 1 .. 4 |-> ByteAt(w, 32 - 8 * n)]
Boxed(box, b) == FromBytes(box[b[1]], box[b[2]], box[b[3]], box[b[4]])

(* The S-box on each byte of a word.                                       *)
Substituted(w) == Boxed(tables.FSb, BytesOf(w))

(* Mutated form of NextKey: a key of 256 bits is expanded like the others. *)
NextKey_NoSecond(RK, n) ==
    LET i == Len(RK) last == RK[i] IN
    Xor(RK[i + 1 - n],
        IF i % n = 0 THEN Xor(RCON((i \div n) - 1), Substituted(Rotl(last, 8))) ELSE last)

(* The next round key, from the n before it: the three loops differ in n   *)
(* and in the second substitution of the longest keys.                     *)
NextKey(RK, n) ==
    LET i == Len(RK) last == RK[i] IN
    Xor(RK[i + 1 - n],
        CASE i % n = 0 -> Xor(RCON((i \div n) - 1), Substituted(Rotl(last, 8)))
          [] n = 8 /\ i % n = 4 -> Substituted(last)
          [] OTHER -> last)

(* One turn of the loop.                                                   *)
NextKeys(RK, n) ==
    LET Add(keys, i) == Append(keys, NextKey(keys, n))
    IN  Folded(Add, RK, [i \in 1 .. n |-> i])

(* The decryption round keys: those of the encryption from behind, through *)
(* KT but for the first and the last four.                                 *)
InverseKeys(rounds, keys) ==
    [i \in 1 .. 4 * (rounds + 1) |->
        LET r == (i - 1) \div 4
            w == keys[4 * (rounds - r) + ((i - 1) % 4) + 1]
        IN  IF r \in {0, rounds} THEN w
            ELSE Looked(tables.KT0, BytesOf(w))]

(* init: both contexts get the same keys; a length that is none of the     *)
(* three is refused, which init does not look at.                          *)
SetKey(key) ==
    /\ aes_pc = "key" /\ 8 * Len(key) \in {128, 192, 256}
    /\ nr' = NumberOfRounds(8 * Len(key))
    /\ erk' = [i \in 1 .. Len(key) \div 4 |-> GET_UINT32(key, 4 * i - 4)]
    /\ aes_pc' = "expand"
    /\ UNCHANGED <<tables, drk, clear, input, output, columns, round>>

KeyWords == nr - 6

ExpandKey ==
    /\ aes_pc = "expand" /\ Len(erk) < 4 * (nr + 1)
    /\ erk' = NextKeys(erk, KeyWords)
    /\ UNCHANGED <<tables, nr, drk, clear, input, output, columns, round, aes_pc>>

InvertKeys ==
    /\ aes_pc = "expand" /\ Len(erk) >= 4 * (nr + 1)
    /\ drk' = InverseKeys(nr, erk)
    /\ aes_pc' = "ready"
    /\ UNCHANGED <<tables, nr, erk, clear, input, output, columns, round>>

-----------------------------------------------------------------------------
(* The bytes for column j: from four columns, one after the other, forward *)
(* in AES_FROUND, backward in AES_RROUND.                                  *)
Picked(y, j, step) == [n \in 1 .. 4 |-> ByteAt(y[(j + step * (n - 1)) % 4], 32 - 8 * n)]

AES_FROUND(r, y) ==
    [j \in 0 .. 3 |-> Xor(erk[4 * r + j + 1], Looked(tables.FT0, Picked(y, j, 1)))]

LastFRound(y) ==
    [j \in 0 .. 3 |-> Xor(erk[4 * nr + j + 1], Boxed(tables.FSb, Picked(y, j, 1)))]

(* Mutated form of AES_RROUND: the columns in the order of the encryption. *)
AES_RROUND_Forward(r, y) ==
    [j \in 0 .. 3 |-> Xor(drk[4 * r + j + 1], Looked(tables.RT0, Picked(y, j, 1)))]

AES_RROUND(r, y) ==
    [j \in 0 .. 3 |-> Xor(drk[4 * r + j + 1], Looked(tables.RT0, Picked(y, j, 3)))]

LastRRound(y) ==
    [j \in 0 .. 3 |-> Xor(drk[4 * nr + j + 1], Boxed(tables.RSb, Picked(y, j, 3)))]

PUT_UINT32(w) == [n \in 1 .. 4 |-> ByteValue[ByteAt(w, 32 - 8 * n)]]
Output(x) == PUT_UINT32(x[0]) \o PUT_UINT32(x[1]) \o PUT_UINT32(x[2]) \o PUT_UINT32(x[3])

-----------------------------------------------------------------------------
(* Fills the text up to whole blocks.                                      *)
PadOf(text)  == (BlockSize - (Len(text) % BlockSize)) % BlockSize
Filled(text) == text \o [i \in 1 .. PadOf(text) |-> 0]

Encrypt(text) ==
    /\ aes_pc = "ready"
    /\ clear' = text /\ input' = Filled(text) /\ output' = <<PadOf(text)>>
    /\ aes_pc' = "encrypt"
    /\ UNCHANGED <<tables, nr, erk, drk, columns, round>>

Decrypt ==
    /\ aes_pc = "encrypted"
    /\ input' = output /\ output' = << >>
    /\ aes_pc' = "decrypt"
    /\ UNCHANGED <<tables, nr, erk, drk, clear, columns, round>>

Keys == IF aes_pc = "encrypt" THEN erk ELSE drk

(* Where the blocks begin: behind the first byte in decrypt's input and in *)
(* encrypt's output.                                                       *)
InBlocks  == IF aes_pc = "encrypt" THEN input ELSE Tail(input)
BlocksOut == IF aes_pc = "encrypt" THEN Len(output) - 1 ELSE Len(output)

(* The next block, and the first round key.                                *)
BeginBlock ==
    /\ aes_pc \in {"encrypt", "decrypt"} /\ columns = NoBlock
    /\ BlocksOut < Len(InBlocks)
    /\ columns' = [j \in 0 .. 3 |-> Xor(GET_UINT32(InBlocks, BlocksOut + 4 * j), Keys[j + 1])]
    /\ round' = 0
    /\ UNCHANGED <<tables, nr, erk, drk, clear, input, output, aes_pc>>

Round ==
    /\ columns # NoBlock /\ round < nr - 1
    /\ columns' = IF aes_pc = "encrypt" THEN AES_FROUND(round + 1, columns)
                                        ELSE AES_RROUND(round + 1, columns)
    /\ round' = round + 1
    /\ UNCHANGED <<tables, nr, erk, drk, clear, input, output, aes_pc>>

LastRound ==
    /\ columns # NoBlock /\ round = nr - 1
    /\ output' = output \o Output(IF aes_pc = "encrypt" THEN LastFRound(columns)
                                                        ELSE LastRRound(columns))
    /\ columns' = NoBlock /\ round' = 0
    /\ UNCHANGED <<tables, nr, erk, drk, clear, input, aes_pc>>

(* decrypt returns how many bytes of out are the text.                     *)
Finish ==
    /\ aes_pc \in {"encrypt", "decrypt"} /\ columns = NoBlock
    /\ BlocksOut = Len(InBlocks)
    /\ IF aes_pc = "encrypt" THEN aes_pc' = "encrypted" /\ UNCHANGED output
       ELSE aes_pc' = "decrypted" /\ output' = SubSeq(output, 1, Len(input) - input[1] - 1)
    /\ UNCHANGED <<tables, nr, erk, drk, clear, input, columns, round>>

Next ==
    \/ GenPow \/ GenBoxes \/ GenReverse
    \/ (\E key \in AesKeys : SetKey(key)) \/ ExpandKey \/ InvertKeys
    \/ \E text \in AesTexts : Encrypt(text)
    \/ Decrypt \/ BeginBlock \/ Round \/ LastRound \/ Finish

Spec == Init /\ [][Next]_aesVars

-----------------------------------------------------------------------------
(* The text and the results of FIPS-197, appendix C, under the keys of     *)
(* bytes 0, 1, 2 and so on.                                                *)
FipsText == [i \in 1 .. 16 |-> 17 * (i - 1)]
FipsAnswer(rounds) ==
    CASE rounds = 10 -> <<\h69, \hc4, \he0, \hd8, \h6a, \h7b, \h04, \h30,
                          \hd8, \hcd, \hb7, \h80, \h70, \hb4, \hc5, \h5a>>
      [] rounds = 12 -> <<\hdd, \ha9, \h7c, \ha4, \h86, \h4c, \hdf, \he0,
                          \h6e, \haf, \h70, \ha0, \hec, \h0d, \h71, \h91>>
      [] rounds = 14 -> <<\h8e, \ha2, \hb7, \hca, \h51, \h67, \h45, \hbf,
                          \hea, \hfc, \h49, \h90, \h4b, \h49, \h60, \h89>>

(* src/aes.cpp:2, "FIPS-197 compliant AES implementation": the standard's  *)
(* examples come out, and decryption gives back each text with the length  *)
(* it had, for all three lengths of keys.                                  *)
Fips197 ==
    /\ aes_pc = "encrypted" /\ clear = FipsText /\ erk[1] = FromBytes({}, {0}, {1}, {0, 1}) =>
          output = <<0>> \o FipsAnswer(nr)
    /\ aes_pc = "decrypted" => output = clear
    /\ Len(erk) <= 64 /\ Len(drk) <= 64
=============================================================================
