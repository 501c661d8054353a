SPECIFICATION FairSpec
CONSTANTS
    Bytes = {1, 2}
    MaxSize = 2
    Word = 8
    kHeaderSize = 1
    Checksums <- MCChecksums
    Digests <- MCDigests
    Blake3 <- MCBlake3
    Clients = {c1}
    Calls = {k1}
    a = a
    emptyId = emptyId
    hugeId = hugeId
    ChunkIds = {a, emptyId, hugeId}
    IdLen <- MCIdLen
    Sources <- MCSources
    kFrameSize = 2
    kBufferSize = 1
    MaxWire = 1
    RawFrames <- MCRawFrames
    MaxRaw = 3
    Breaks = {"DEADLINE_EXCEEDED", "UNAVAILABLE"}
    MaxCrashes = 1
    NoContent = NoContent
    NoAsk = NoAsk
    NoCall = NoCall
    NoReply = NoReply
    NoBreak = NoBreak
INVARIANT TypeOK
INVARIANT StatusArrives
INVARIANT UnchangedSourceIsAccepted
PROPERTY KeepsPromise
PROPERTY OperationsEnd
