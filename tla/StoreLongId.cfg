SPECIFICATION Spec
CONSTANTS
    Bytes = {1, 2}
    MaxSize = 1
    Word = 8
    kHeaderSize = 1
    Checksums <- MCChecksums
    Digests <- MCDigests
    Blake3 <- MCBlake3
    Threads = {t1, t2}
    a = a
    longId = longId
    emptyId = emptyId
    ChunkIds = {a, longId, emptyId}
    IdLen <- MCIdLen
    Tokens = {k1, k2}
    Inodes = {i1, i2}
    PutRequests <- FaultPuts
    GetRequests = {}
    HeadIds = {a, longId}
    DeleteIds = {a}
    kBufferSize = 1
    Faults = {}
    MaxCrashes = 0
    NoFile = NoFile
    NoToken = NoToken
    NoContent = NoContent
SYMMETRY Symmetry
INVARIANT AbsentIsNotFound
