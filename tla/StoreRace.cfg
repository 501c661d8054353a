SPECIFICATION Spec
CONSTANTS
    Bytes = {1, 2}
    MaxSize = 2
    Word = 8
    kHeaderSize = 1
    Checksums <- MCChecksums
    Digests <- MCDigests
    Blake3 <- MCBlake3
    Threads = {t1, t2}
    a = a
    longId = longId
    emptyId = emptyId
    ChunkIds = {a}
    IdLen <- MCIdLen
    Tokens = {k1, k2}
    Inodes = {i1, i2, i3}
    PutRequests <- RacePuts
    GetRequests <- RaceGets
    HeadIds = {}
    DeleteIds = {a}
    kBufferSize = 2
    Faults = {"write", "sync", "link", "dirsync"}
    MaxCrashes = 0
    NoFile = NoFile
    NoToken = NoToken
    NoContent = NoContent
SYMMETRY Symmetry
INVARIANT CommittedIntact
INVARIANT GetExact
INVARIANT RefusedPutLeavesNothing
INVARIANT NoOrphanTemps
PROPERTY Implements
