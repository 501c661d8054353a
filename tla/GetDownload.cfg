SPECIFICATION Spec
CONSTANTS
    Bytes = {1, 2}
    MaxSize = 2
    Word = 8
    kHeaderSize = 1
    Checksums <- MCChecksums
    Digests <- MCDigests
    Blake3 <- MCBlake3
    Clients = {c1, c2}
    Tokens = {t1, t2}
    Inodes = {i1, i2, i3}
    a = a
    emptyId = emptyId
    hugeId = hugeId
    ChunkIds = {a, emptyId}
    IdLen <- MCIdLen
    Payloads <- MCPayloads
    kBufferSize = 1
    MaxDamage = 0
    MaxWire = 1
    NoContent = NoContent
    NoFile = NoFile
    NoToken = NoToken
    NoReply = NoReply
SYMMETRY Symmetry
INVARIANT TypeOK
INVARIANT DestComplete
INVARIANT NoStrayTemps
INVARIANT CorruptionMeansChange
INVARIANT GetStatusArrives
PROPERTY DestNotReplaced
