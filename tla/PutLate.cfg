SPECIFICATION Spec
CONSTANTS
    Bytes = {1, 2}
    MaxSize = 1
    Word = 8
    kHeaderSize = 1
    Checksums <- MCChecksums
    Digests <- MCDigests
    Blake3 <- MCBlake3
    Clients = {c1}
    Calls = {k1, k2}
    a = a
    emptyId = emptyId
    hugeId = hugeId
    ChunkIds = {a}
    IdLen <- MCIdLen
    Sources <- ShortSources
    kFrameSize = 1
    kBufferSize = 1
    MaxWire = 1
    RawFrames = {}
    MaxRaw = 0
    Breaks = {"DEADLINE_EXCEEDED"}
    MaxCrashes = 1
    NoContent = NoContent
    NoAsk = NoAsk
    NoCall = NoCall
    NoReply = NoReply
    NoBreak = NoBreak
SYMMETRY Symmetry
PROPERTY KeepsPromise
