----------------------------- MODULE TextCodecs -----------------------------
(***************************************************************************)
(* Bytes as text and back: SL_Crypto_Hex, SL_Crypto_Base64 and             *)
(* SL_Crypto_UrlCode (src/SL_Crypto_*.cpp); and integers as text and back: *)
(* SL_Utility_DataConvert, in the two forms it has for Windows and for     *)
(* other systems.  A character is its code.  A job is a call of the        *)
(* encoder followed by one of the decoder.                                 *)
(***************************************************************************)
EXTENDS Naturals, Integers, Sequences

CONSTANTS Bytes,        \* the bytes of the inputs
          MaxBytes,     \* bound: bytes of an input
          Numbers       \* the integers converted

VARIABLES pc,           \* "idle", "encoded", "decoded"
          codec, input,
          text,         \* what the encoder wrote
          back, end     \* what the decoder returned, and where it stopped

codecVars == <<pc, codec, input, text, back, end>>

UrlTypes == {"uri", "args", "uri_component", "html", "refresh", "memcached", "mail_auth"}
Systems  == {"windows", "linux"}
Inputs   == UNION {[1 .. n -> Bytes] : n \in 1 .. MaxBytes}

Init ==
    /\ pc = "idle" /\ codec = "none" /\ input = << >> /\ text = << >>
    /\ back = << >> /\ end = 0

Place(c, table) == (CHOOSE i \in DOMAIN table : table[i] = c) - 1
InTable(c, table) == \E i \in DOMAIN table : table[i] = c

Digits   == [i \in 1 .. 10 |-> 47 + i]
Letters(first) == [i \in 1 .. 26 |-> first - 1 + i]

-----------------------------------------------------------------------------
(* Hexadecimal; decode takes letters of either case.                       *)
Hex(upper) == Digits \o SubSeq(Letters(IF upper THEN 65 ELSE 97), 1, 6)

HexDigit(c) == IF InTable(c, Hex(TRUE)) THEN Place(c, Hex(TRUE)) ELSE Place(c, Hex(FALSE))
IsHex(c)    == InTable(c, Hex(TRUE)) \/ InTable(c, Hex(FALSE))

HexEncode(in, upper) ==
    [i \in 1 .. 2 * Len(in) |->
        LET b == in[(i + 1) \div 2]
        IN  Hex(upper)[1 + IF i % 2 = 1 THEN b \div 16 ELSE b % 16]]

HexDecode(in) ==
    [i \in 1 .. Len(in) \div 2 |-> 16 * HexDigit(in[2 * i - 1]) + HexDigit(in[2 * i])]

-----------------------------------------------------------------------------
(* Base64: three bytes are four groups of six bits; a last one or two      *)
(* bytes are filled up with zero bits and '='.                             *)
Base64 == Letters(65) \o Letters(97) \o Digits \o <<43, 47>>
Padding == 61

Sextets(a, b, c) == <<a \div 4, ((a % 4) * 16) + (b \div 16), ((b % 16) * 4) + (c \div 64), c % 64>>

(* Mutated form of Base64Encode: one sign of padding too few after one     *)
(* byte.                                                                   *)
Base64Encode_ShortPadding(in) ==
    LET at(i) == IF i <= Len(in) THEN in[i] ELSE 0
        groups == (Len(in) + 2) \div 3
    IN  [i \in 1 .. 4 * groups |->
            LET g == (i - 1) \div 4
                k == ((i - 1) % 4) + 1
            IN  IF 3 * g + k - 1 > Len(in) + 1 THEN Padding
                ELSE Base64[1 + Sextets(at(3 * g + 1), at(3 * g + 2), at(3 * g + 3))[k]]]

Base64Encode(in) ==
    LET at(i) == IF i <= Len(in) THEN in[i] ELSE 0
        groups == (Len(in) + 2) \div 3
    IN  [i \in 1 .. 4 * groups |->
            LET g == (i - 1) \div 4
                k == ((i - 1) % 4) + 1
            IN  IF 3 * g + k - 1 > Len(in) THEN Padding
                ELSE Base64[1 + Sextets(at(3 * g + 1), at(3 * g + 2), at(3 * g + 3))[k]]]

(* decode counts the signs of padding, and writes as many bytes fewer.     *)
Base64Decode(in) ==
    LET n == Len(in)
        padding == IF in[n] # Padding THEN 0 ELSE IF in[n - 1] # Padding THEN 1 ELSE 2
        v(i) == IF InTable(in[i], Base64) THEN Place(in[i], Base64) ELSE 255
        byte(i) == LET g == 4 * ((i - 1) \div 3)
                   IN  CASE i % 3 = 1 -> ((v(g + 1) * 4) + (v(g + 2) \div 16)) % 256
                         [] i % 3 = 2 -> ((v(g + 2) % 16) * 16) + (v(g + 3) \div 4)
                         [] i % 3 = 0 -> ((v(g + 3) % 4) * 64) + v(g + 4)
    IN  [i \in 1 .. (3 * n) \div 4 - padding |-> byte(i)]

-----------------------------------------------------------------------------
(* The bits that are set in the escape tables.                             *)
Escaped(type) ==
    0 .. 31 \cup
    CASE type = "uri"           -> {32, 35, 37, 63} \cup 127 .. 255
      [] type = "args"          -> {32, 35, 37, 38, 43, 59, 63} \cup 127 .. 255
      [] type = "uri_component" -> 32 .. 44 \cup {47} \cup 58 .. 64 \cup 91 .. 94 \cup {96}
                                   \cup 123 .. 125 \cup 127 .. 255
      [] type = "html"          -> {32, 34, 35, 37, 39} \cup 127 .. 255
      [] type = "refresh"       -> {32, 34, 39} \cup 127 .. 255
      [] OTHER                  -> {32, 37}
Percent == 37

(* Each byte as itself or as '%' and two digits.                           *)
UrlEncode(in, type) ==
    LET out[i \in 0 .. Len(in)] ==
            IF i = 0 THEN << >>
            ELSE out[i - 1] \o (IF in[i] \in Escaped(type)
                                THEN <<Percent>> \o HexEncode(<<in[i]>>, TRUE)
                                ELSE <<in[i]>>)
    IN  out[Len(in)]

(* Mutated form of UrlDecode: the state is not reset after the second      *)
(* digit.                                                                  *)
UrlDecode_NoReset(in) ==
    LET after[i \in 0 .. Len(in)] ==
            IF i = 0 THEN [state |-> "usual", decoded |-> 0, out |-> << >>]
            ELSE LET b == after[i - 1]
                     c == in[i]
                 IN  CASE b.state = "usual" ->
                            IF c = Percent THEN [b EXCEPT !.state = "quoted"]
                                           ELSE [b EXCEPT !.out = Append(@, c)]
                       [] b.state = "quoted" ->
                            IF IsHex(c) THEN [b EXCEPT !.state = "second", !.decoded = HexDigit(c)]
                            ELSE [b EXCEPT !.state = "usual", !.out = Append(@, c)]
                       [] b.state = "second" ->
                            IF IsHex(c)
                            THEN [b EXCEPT !.out = Append(@, (b.decoded * 16 + HexDigit(c)) % 256)]
                            ELSE [b EXCEPT !.state = "usual"]
    IN  after[Len(in)].out

(* What is not a digit ends a quotation, and is kept in the first place.   *)
UrlDecode(in) ==
    LET after[i \in 0 .. Len(in)] ==
            IF i = 0 THEN [state |-> "usual", decoded |-> 0, out |-> << >>]
            ELSE LET b == after[i - 1]
                     c == in[i]
                 IN  CASE b.state = "usual" ->
                            IF c = Percent THEN [b EXCEPT !.state = "quoted"]
                                           ELSE [b EXCEPT !.out = Append(@, c)]
                       [] b.state = "quoted" ->
                            IF IsHex(c) THEN [b EXCEPT !.state = "second", !.decoded = HexDigit(c)]
                            ELSE [b EXCEPT !.state = "usual", !.out = Append(@, c)]
                       [] b.state = "second" ->
                            [b EXCEPT !.state = "usual",
                                      !.out = IF IsHex(c)
                                              THEN Append(@, (b.decoded * 16 + HexDigit(c)) % 256)
                                              ELSE @]
    IN  after[Len(in)].out

-----------------------------------------------------------------------------
(* digits10 compares with the powers of ten.                               *)
Digits10(n) == CHOOSE d \in 1 .. 10 : /\ d = 10 \/ n < 10^d
                                      /\ d = 1 \/ n >= 10^(d - 1)

(* uitoa writes two digits at a time, from the last; the one or two that   *)
(* are left come first.                                                    *)
Pairs(n) ==
    LET d == Digits10(n)
        left[i \in 0 .. 5] == IF i = 0 THEN n ELSE left[i - 1] \div 100
        pair(i) == left[i] % 100
        digit(j) == IF j % 2 = 0 THEN pair(j \div 2) % 10 ELSE pair(j \div 2) \div 10
    IN  [i \in 1 .. d |-> 48 + digit(d - i)]

(* The text ends before its NUL, which the form for Windows puts on the    *)
(* last of four digits (DataConvert.cpp:366).                              *)
Uitoa(n, system) ==
    IF system = "windows" /\ Digits10(n) = 4 THEN SubSeq(Pairs(n), 1, 3) ELSE Pairs(n)

Itoa(n, system) == IF n >= 0 THEN Uitoa(n, system) ELSE <<45>> \o Uitoa(-n, system)

(* SL_CHAR_CONVERT_INTEGER, for one character after the other: blanks      *)
(* before the number, one sign, digits; anything else ends it.             *)
Atoi(in) ==
    LET after[i \in 0 .. Len(in)] ==
            IF i = 0 THEN [found |-> FALSE, negative |-> FALSE, ret |-> 0, end |-> 0]
            ELSE LET b == after[i - 1]
                     c == in[i]
                     step == [b EXCEPT !.end = i]
                 IN  IF b.end < i - 1 THEN b
                     ELSE IF c \in 48 .. 57
                          THEN [step EXCEPT !.found = TRUE,
                                            !.ret = IF b.found THEN @ * 10 + (c - 48) ELSE c - 48]
                     ELSE IF b.found THEN b
                     ELSE CASE c = 45 -> [step EXCEPT !.found = TRUE, !.negative = TRUE]
                            [] c = 43 -> [step EXCEPT !.found = TRUE]
                            [] c = 32 -> step
                            [] OTHER -> b
        last == after[Len(in)]
    IN  [value |-> IF last.negative THEN -last.ret ELSE last.ret, end |-> last.end]

-----------------------------------------------------------------------------
Encode ==
    /\ pc = "idle" /\ pc' = "encoded"
    /\ \/ \E in \in Inputs, c \in UrlTypes \cup {"HEX", "hex", "base64"} :
             /\ codec' = c /\ input' = in
             /\ text' = CASE c = "base64" -> Base64Encode(in)
                          [] c \in UrlTypes -> UrlEncode(in, c)
                          [] OTHER -> HexEncode(in, c = "HEX")
       \/ \E n \in Numbers, s \in Systems :
             codec' = s /\ input' = <<n>> /\ text' = Itoa(n, s)
    /\ UNCHANGED <<back, end>>

(* A number's text comes with blanks before it and something after it.     *)
Decode ==
    /\ pc = "encoded" /\ pc' = "decoded"
    /\ IF codec \in Systems
       THEN \E blanks \in 0 .. 2, after \in {32, 43, 45, 65} :
              LET in == [i \in 1 .. blanks |-> 32] \o text \o <<after>>
              IN  back' = <<Atoi(in).value>> /\ end' = Atoi(in).end - blanks
       ELSE /\ back' = CASE codec = "base64" -> Base64Decode(text)
                         [] codec \in UrlTypes -> UrlDecode(text)
                         [] OTHER -> HexDecode(text)
            /\ UNCHANGED end
    /\ UNCHANGED <<codec, input, text>>

Next == Encode \/ Decode

Spec == Init /\ [][Next]_codecVars

-----------------------------------------------------------------------------
(* refresh lets '%' through (UrlCode.cpp:105), the Windows form cuts four  *)
(* digits short.                                                           *)
Lossy == \/ codec = "refresh" /\ \E i \in DOMAIN input : input[i] = Percent
         \/ codec = "windows" /\ input[1] \in 1000 .. 9999 \cup -9999 .. -1000

(* encode and decode, itoa and atoi: what was encoded comes back, and atoi *)
(* stops behind the digits.                                                *)
Decoded == pc = "decoded" /\ ~Lossy =>
              /\ back = input
              /\ codec \in Systems => end = Len(text)
=============================================================================
