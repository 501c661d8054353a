SPECIFICATION FairSpec
CONSTANTS
    Bytes = {1, 2}
    MaxSize = 2
    Word = 8
    kHeaderSize = 1
    Checksums <- MCChecksums
    Digests <- MCDigests
    Blake3 <- MCBlake3
    Clients = {c1}
    Tokens = {t1, t2}
    Inodes = {i1, i2}
    a = a
    emptyId = emptyId
    hugeId = hugeId
    ChunkIds = {a, hugeId}
    IdLen <- MCIdLen
    Payloads <- MCPayloads
    kBufferSize = 1
    MaxDamage = 1
    MaxWire = 1
    NoContent = NoContent
    NoFile = NoFile
    NoToken = NoToken
    NoReply = NoReply
INVARIANT DestComplete
PROPERTY GetEnds
