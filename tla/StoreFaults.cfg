SPECIFICATION FairSpec
CONSTANTS
    Bytes = {1}
    MaxSize = 1
    Word = 8
    kHeaderSize = 1
    Checksums <- MCChecksums
    Digests <- MCDigests
    Blake3 <- MCBlake3
    Threads = {t1, t2}
    a = a
    longId = longId
    emptyId = emptyId
    ChunkIds = {a, longId, emptyId}
    IdLen <- MCIdLen
    Tokens = {k1}
    Inodes = {i1, i2}
    PutRequests <- FaultPuts
    GetRequests <- FaultGets
    HeadIds = {a, longId}
    DeleteIds = {a, longId, emptyId}
    kBufferSize = 1
    Faults = {"create", "write", "sync", "link", "unlink", "dirsync", "open", "read", "delete"}
    MaxCrashes = 0
    NoFile = NoFile
    NoToken = NoToken
    NoContent = NoContent
INVARIANT CommittedIntact
PROPERTY Implements
PROPERTY Terminates
