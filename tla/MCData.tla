------------------------------- MODULE MCData -------------------------------
(***************************************************************************)
(* What messages are made of, in one run: the framing of a stream          *)
(* (MessageHandler), the message bodies (ThriftProtocols), the receivers   *)
(* in their heads (RpcMessage), the buffers they are in (ByteBuffer), the  *)
(* tables beside them (HashTreeMap, LruHashtable) and the functions on     *)
(* bytes (TextCodecs, UtilityFunctions, Digests, CryptoAES), and the calls *)
(* beneath them (SocketApi).                                               *)
(* They share no state, so a behaviour is one of one part: Init chooses it *)
(* and the others stay in an initial state.                                *)
(***************************************************************************)
EXTENDS MessageHandler, FiniteSets

CONSTANTS Parts,                                         \* the parts to check
          Sizes, MaxMessages,                            \* MessageHandler
          Protocols, FieldIds, ContainerSizes, FieldsUpTo, MaxCut, MaxDepth, \* ThriftProtocols
          CompactBuffer,
          HeadKinds, Ids, HeadSize, ItemSize, BodySizes, OffsetMod, MaxSends, \* RpcMessage
          Objects, Handles, Bytes, NULL,                 \* ByteBuffer
          Capacities, MaxSize, MaxBlocks, MaxShared, MaxBuffers,
          Threads, k1, k2, k3, d1, d2, Undefined, MaxCalls,   \* HashTreeMap, LruHashtable
          MaxSizes,
          CodecBytes, MaxBytes,                          \* TextCodecs
          TextLengths, CopyLengths, Distances,           \* UtilityFunctions
          Kinds, PieceLengths, MaxUpdates, ADLER32_NMAX, \* Digests
          Hashes, StepLengths,
          ClearTexts, MaxTexts, KeyLengths,              \* CryptoAES
          StreamBytes, Room, PeerStays, EarlyRefusal, WrapMs  \* SocketApi

VARIABLES part,
    protocol, lastField_, lastFieldId_, booleanField_, boolValue_, buffer_size_, bytes, rest,
    todo, thrift_pc, returned, written, read, cut,
    head_, destinations_, message, head_kind, inNetOrder, routed, parsed, rpc_pc, intended, first,
    sends,
    object, block, content,
    handle, buffer, next_buffer, shared_content, mixed,
    tree, alone, bucket_size, data_map, nodes, elements_num_, map_pc, key, iter, calls, erased, results,
    max_size_, lru_head, tail_, table, prev, next, real_data, recent, expected, limit, got,
    codec_pc, codec, input, text, back, end,
    s_memory, str_len, pattern, place, found, next_, s_i, s_j, kmp,
    op, length, distance, m_memory, before, n, m_todo, at,
    kind, checksum_, fed, sum_before,
    hash, digested, d_fed, total, d_buffer, blocks, done, state, work, words, rounds,
    mode_, mode_call, ivec, c_message, c_sent, c_received, texts,
    tables, nr, erk, drk, clear, a_input, output, columns, a_round, aes_pc,
    blocking, link, calling, asked, moved, outgoing, at_peer, incoming, given, user_buf,
    reported, taken, trusts,
    windows, time, time_before, request

thrift == <<protocol, lastField_, lastFieldId_, booleanField_, boolValue_, buffer_size_, bytes,
            rest, todo, thrift_pc, returned, written, read, cut>>
rpc    == <<head_, destinations_, message, head_kind, inNetOrder, routed, parsed, rpc_pc,
            intended, first, sends>>
buffers == <<object, block, content>>
shared == <<handle, buffer, next_buffer, shared_content, mixed>>
map    == <<tree, alone, bucket_size, data_map, nodes, elements_num_, map_pc, key, iter, calls,
            erased, results>>
lru    == <<max_size_, lru_head, tail_, table, prev, next, real_data, recent, expected, limit, got>>
text_  == <<codec_pc, codec, input, text, back, end>>
search == <<s_memory, str_len, pattern, place, found, next_, s_i, s_j, kmp>>
memory == <<op, length, distance, m_memory, before, n, m_todo, at>>
sums   == <<kind, checksum_, fed, sum_before>>
digest == <<hash, digested, d_fed, total, d_buffer, blocks, done, state, work, words, rounds>>
cipher == <<mode_, mode_call, ivec, c_message, c_sent, c_received, texts>>
aes    == <<tables, nr, erk, drk, clear, a_input, output, columns, a_round, aes_pc>>
clocks == <<windows, time, time_before, request>>
socket == <<blocking, link, calling, asked, moved, outgoing, at_peer, incoming, given, user_buf,
            reported, taken, trusts>>
functions == <<text_, search, memory, sums, digest, cipher, aes, clocks>>
data    == <<thrift, rpc, buffers, shared, map, lru, socket>>
allVars == <<part, vars, data, functions>>

(* Streams of up to MaxMessages messages of the given sizes; those before   *)
(* the last two are short ones.                                            *)
Boundaries(sizes) ==
    LET b[k \in 1 .. Len(sizes) + 1] == IF k = 1 THEN 0 ELSE b[k - 1] + sizes[k - 1] IN b

AllStreams ==
    {Boundaries(sizes) : sizes \in
        {z \in UNION {[1 .. m -> Sizes] : m \in 1 .. MaxMessages} :
            \A k \in 1 .. Len(z) - 2 : \A size \in Sizes : z[k] <= size}}

(* The binary protocol has to grow its buffer.                             *)
MCBufferSizes == [p \in Protocols |-> IF p = "compact" THEN {CompactBuffer} ELSE {2}]

Thrift == INSTANCE ThriftProtocols WITH
    ScalarTypes <- {"bool", "byte", "i16", "i32", "i64", "double", "string"},
    ElementTypes <- {"bool", "byte", "i64"},
    Sizes <- ContainerSizes, BufferSizes <- MCBufferSizes, wire <- bytes, pc <- thrift_pc
Rpc    == INSTANCE RpcMessage WITH wire <- message, kind <- head_kind, pc <- rpc_pc
Buffer == INSTANCE ByteBuffer
Map    == INSTANCE HashTreeMap WITH
    Keys <- {k1, k2}, Values <- {d1}, NoNode <- NULL, SizesAsked <- {3}, pc <- map_pc
Lru    == INSTANCE LruHashtable WITH
    Keys <- {k1, k2, k3}, Data <- {d1, d2}, head_ <- lru_head

(* Small and large numbers; numbers around powers of ten.                  *)
MCNumbers == {0, 9, 10, 99, 100, 999, 1000, 9999, 10000, 123456789, 2147483647,
              -1, -10, -100, -1234, -65536}
(* Three ones among zeros, and patterns with at most one.                  *)
MCMemories == {[k \in 1 .. 26 |-> IF k \in {x, y, z} THEN 1 ELSE 0] :
                  x, y, z \in {1, 3, 5, 7, 16, 18}}
MCPatterns == UNION {{[k \in 1 .. m |-> IF k = x THEN 1 ELSE 0] : x \in 1 .. m} :
                        m \in {1, 2, 3, 5}}

Codec  == INSTANCE TextCodecs WITH
    Bytes <- CodecBytes, Numbers <- MCNumbers, pc <- codec_pc
Utility == INSTANCE UtilityFunctions WITH
    Memories <- MCMemories, Patterns <- MCPatterns,
    text_memory <- s_memory, i <- s_i, j <- s_j, memory <- m_memory, todo <- m_todo
(* The texts with known digests, and one of more than two blocks.          *)
MCTexts == {[k \in 1 .. 3 |-> 96 + k], [k \in 1 .. 140 |-> k],
            [k \in 1 .. 56 |-> 97 + ((k - 1) \div 4) + ((k - 1) % 4)]}
Digest == INSTANCE Digests WITH
    Texts <- MCTexts, text <- digested, fed <- d_fed, buffer <- d_buffer, sum_fed <- fed
(* Whole blocks and parts of one; the calls without a mode do the same to  *)
(* each block.                                                             *)
MCClearTexts == {<<a>> : a \in {0, 1}} \cup {<<1, a, b, c>> : a, b, c \in {0, 1}}
                \cup {<<0, 1, 0, 1, 1, 0>>, <<1, 0, 1, 0, 1, 0, 1, 1>>}
Crypto == INSTANCE CryptoAES WITH
    message <- c_message, sent <- c_sent, received <- c_received,
    AesKeys  <- {[k \in 1 .. m |-> k - 1] : m \in KeyLengths},
    AesTexts <- {[k \in 1 .. 16 |-> 17 * (k - 1)], [k \in 1 .. 21 |-> 250 - k], <<7>>},
    input <- a_input, round <- a_round

MCDurations == [s |-> {1}, ms |-> {0, 1, 999, 1000, 1001}, us |-> {1, 999, 1000, 999999, 1000001},
                ns |-> {1, 999999999, 1000000001}]
Api    == INSTANCE SocketApi WITH
    Durations <- MCDurations, arrived <- at_peer, received <- user_buf, before <- time_before

ASSUME Api!ApiAssumption

MCInit ==
    /\ part \in Parts
    /\ part # "message" => stream = CHOOSE s \in Streams : TRUE
    /\ part # "thrift" => protocol = CHOOSE p \in Protocols : TRUE
    /\ part # "rpc" => head_kind = CHOOSE k \in HeadKinds : TRUE
    /\ part # "map" => tree = "map" /\ alone = FALSE
    /\ part # "clock" => windows = TRUE /\ time = <<0, 0>>
    /\ part # "lru" => max_size_ = CHOOSE m \in MaxSizes : TRUE
    /\ Rpc!Init
    /\ part # "rpc" => head_.source = CHOOSE i \in Ids : TRUE
    /\ Init /\ Thrift!Init /\ Buffer!Init /\ Buffer!SharedInit /\ Map!Init /\ Lru!Init
    /\ Codec!Init /\ Utility!SearchInit /\ Utility!MemoryInit
    /\ Digest!SumInit /\ Digest!Init /\ Crypto!SslInit /\ Crypto!Init /\ Api!Init

MCNext ==
    /\ UNCHANGED part
    /\ \/ part = "message" /\ Next
             /\ UNCHANGED <<data, functions>>
       \/ part = "thrift" /\ Thrift!Next
             /\ UNCHANGED <<vars, rpc, buffers, shared, map, lru, socket, functions>>
       \/ part = "rpc" /\ Rpc!Next
             /\ UNCHANGED <<vars, thrift, buffers, shared, map, lru, socket, functions>>
       \/ part = "buffer" /\ Buffer!Next
             /\ UNCHANGED <<vars, thrift, rpc, shared, map, lru, socket, functions>>
       \/ part = "shared" /\ Buffer!SharedNext
             /\ UNCHANGED <<vars, thrift, rpc, buffers, map, lru, socket, functions>>
       \/ part = "map" /\ Map!Next
             /\ UNCHANGED <<vars, thrift, rpc, buffers, shared, lru, socket, functions>>
       \/ part = "lru" /\ Lru!Next
             /\ UNCHANGED <<vars, thrift, rpc, buffers, shared, map, socket, functions>>
       \/ part = "text" /\ Codec!Next
             /\ UNCHANGED <<vars, data, search, memory, sums, digest, cipher, aes, clocks>>
       \/ part = "search" /\ Utility!SearchNext
             /\ UNCHANGED <<vars, data, text_, memory, sums, digest, cipher, aes, clocks>>
       \/ part = "memory" /\ Utility!MemoryNext
             /\ UNCHANGED <<vars, data, text_, search, sums, digest, cipher, aes, clocks>>
       \/ part = "sum" /\ Digest!SumNext
             /\ UNCHANGED <<vars, data, text_, search, memory, digest, cipher, aes, clocks>>
       \/ part = "digest" /\ Digest!Next
             /\ UNCHANGED <<vars, data, text_, search, memory, sums, cipher, aes, clocks>>
       \/ part = "cipher" /\ Crypto!SslNext
             /\ UNCHANGED <<vars, data, text_, search, memory, sums, digest, aes, clocks>>
       \/ part = "aes" /\ Crypto!Next
             /\ UNCHANGED <<vars, data, text_, search, memory, sums, digest, cipher, clocks>>
       \/ part = "stream" /\ Api!StreamNext
             /\ UNCHANGED <<vars, thrift, rpc, buffers, shared, map, lru, functions>>
       \/ part = "clock" /\ Api!ClockNext
             /\ UNCHANGED <<vars, data, text_, search, memory, sums, digest, cipher, aes>>

MCSpec == /\ MCInit /\ [][MCNext]_allVars
          /\ WF_vars(part = "message" /\ EpollWait) /\ WF_vars(part = "message" /\ HandleRead)
          /\ WF_socket(part = "stream" /\ Api!CallStep) /\ WF_socket(part = "stream" /\ Api!Answer)
          /\ WF_socket(part = "stream" /\ Api!PeerRead)
          /\ WF_socket(part = "stream" /\ Api!PeerWrite)

-----------------------------------------------------------------------------
(* The reader gets the values the writer put in, of bodies and of the      *)
(* receivers' list alike, through the routers on the way (ThriftProtocols, *)
(* RpcMessage), and the bytes the calls of both ends reported as moved     *)
(* (SocketApi).                                                            *)
SentIsRead == Thrift!RoundTrip /\ Rpc!ReceiversKept /\ Api!TransfersTrue

(* Everything the peer sent is handled in the end (MessageHandler), and a  *)
(* call that waits for a peer returns (SocketApi).                         *)
ReadInTheEnd == EventuallyRead /\ Api!TransfersReturn

(* Buffers are freed once by the last who holds them and keep what was     *)
(* written (ByteBuffer); tables count and order what is in them            *)
(* (HashTreeMap, LruHashtable).                                            *)
ContainersTrue == /\ Buffer!OneOwner /\ Buffer!CountedTrue
                  /\ Map!CountTrue /\ Map!FoundIsOfKey
                  /\ Lru!LruTrue

(* Text decodes to what was encoded (TextCodecs), the searchers find what  *)
(* is there, copies are whole and no longer (UtilityFunctions), checksums  *)
(* and digests are those of the whole text, however it is cut (Digests),   *)
(* and what is encrypted comes back, AES as its standard says (CryptoAES); *)
(* times of all units agree, and no sleep is too short (SocketApi).        *)
FunctionsTrue == /\ Codec!Decoded /\ Utility!SearchTrue /\ Utility!WholeLength
                 /\ Digest!SumOfAll /\ Digest!PaddedText
                 /\ Crypto!TextComesBack /\ Crypto!Fips197 /\ Api!TimesTrue

(* include/SL_Rpc_Thrift_CompactProtocol.h:310, on writeVarint32: "Write   *)
(* an i32 as a varint. Results in 1-5 bytes on the wire."                  *)
AllOnTheWire == Thrift!AllOnTheWire
=============================================================================
