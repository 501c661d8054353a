SPECIFICATION Spec
CONSTANTS
    Bytes = {1}
    MaxSize = 1
    Word = 8
    kHeaderSize = 1
    Checksums <- MCChecksums
    Digests <- MCDigests
    Blake3 <- MCBlake3
    Threads = {t1, t2}
    a = a
    longId = longId
    emptyId = emptyId
    ChunkIds = {a}
    IdLen <- MCIdLen
    Tokens = {k1, k2}
    Inodes = {i1, i2}
    PutRequests <- LivePuts
    GetRequests = {}
    HeadIds = {}
    DeleteIds = {a}
    kBufferSize = 1
    Faults = {"dirsync"}
    MaxCrashes = 0
    NoFile = NoFile
    NoToken = NoToken
    NoContent = NoContent
SYMMETRY Symmetry
INVARIANT FailedWritesLeaveNoChunk
