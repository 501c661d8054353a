SPECIFICATION Spec
CONSTANTS
    Bytes = {1, 2}
    MaxSize = 2
    Word = 8
    kHeaderSize = 1
    Checksums <- MCChecksums
    Digests <- MCDigests
    Blake3 <- MCBlake3
    Threads = {t1, t2}
    a = a
    longId = longId
    emptyId = emptyId
    ChunkIds = {a}
    IdLen <- MCIdLen
    Tokens = {k1, k2}
    Inodes = {i1, i2}
    PutRequests <- CrashPuts
    GetRequests = {}
    HeadIds = {}
    DeleteIds = {a}
    kBufferSize = 1
    Faults = {"dirsync"}
    MaxCrashes = 2
    NoFile = NoFile
    NoToken = NoToken
    NoContent = NoContent
SYMMETRY Symmetry
INVARIANT TypeOK
INVARIANT CommittedIntact
INVARIANT AckedSurvives
PROPERTY Implements
