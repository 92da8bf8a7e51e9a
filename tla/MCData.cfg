\* A four-byte length field, read by pieces of at most five bytes; 7 is too long.
\* Bodies of up to two fields or one container; three receivers; two or three
\* handles, threads and keys; inputs of three bytes; texts around a row of 16;
\* copies around a row of 256; transfers of three bytes, two in flight; sleeps
\* around a second, and a timeGetTime() that starts again after 2048 ms.
CONSTANTS
    Parts = {"message", "thrift", "rpc", "buffer", "shared", "map", "lru", "text",
             "search", "memory", "sum", "digest", "cipher", "aes", "stream", "clock"}
    Protocols = {"compact", "binary"}
    FieldIds = {15, 16}
    ContainerSizes = {0, 15}
    FieldsUpTo = 3
    MaxCut = 2
    MaxDepth = 1
    CompactBuffer = 64
    HeadKinds = {"head", "ex", "ex2", "ex3"}
    Ids = {1, 2, 3}
    HeadSize = 4
    ItemSize = 2
    BodySizes = {1, 3}
    OffsetMod = 64
    MaxSends = 3
    Objects = {o1, o2}
    Handles = {g1, g2, g3}
    Bytes = {b1}
    NULL = NULL
    Capacities = {2}
    MaxSize = 3
    MaxBlocks = 2
    MaxShared = 2
    MaxBuffers = 2
    Threads = {t1, t2}
    k1 = k1
    k2 = k2
    k3 = k3
    d1 = d1
    d2 = d2
    Undefined = Undefined
    MaxCalls = 2
    MaxSizes = {0, 2}
    CodecBytes = {0, 37, 52, 65, 97, 250}
    MaxBytes = 3
    TextLengths = {5, 16, 18}
    CopyLengths = {0, 1, 2, 3, 4, 5, 6, 7, 8, 15, 17, 256, 257, 263}
    Distances = {1, 9}
    Kinds = {"crc16", "crc32 little", "crc32 big", "crc32c", "crc64", "adler32"}
    PieceLengths = {1, 3, 6, 17}
    MaxUpdates = 2
    ADLER32_NMAX = 16
    Hashes = {"md5", "sha256"}
    StepLengths = {1, 3, 55, 64}
    ClearTexts <- MCClearTexts
    MaxTexts = 2
    KeyLengths = {16, 24, 32}
    StreamBytes = 3
    Room = 2
    PeerStays = TRUE
    EarlyRefusal = FALSE
    WrapMs = 2048
    Streams <- AllStreams
    Sizes = {4, 6, 7}
    MaxMessages = 3
    LenBytes = 4
    LenBits = 4
    SignedLen = TRUE
    MsgBufferSize = 6
    RecvBufferSize = 5
    EdgeTriggered = TRUE
SPECIFICATION MCSpec
CHECK_DEADLOCK FALSE
INVARIANTS Framed  SentIsRead  FunctionsTrue
PROPERTY ReadInTheEnd
