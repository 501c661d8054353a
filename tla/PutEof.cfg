SPECIFICATION Spec
CONSTANTS
    Bytes = {1, 2}
    MaxSize = 2
    Word = 8
    kHeaderSize = 1
    Checksums <- MCChecksums
    Digests <- MCDigests
    Blake3 <- MCBlake3
    Clients = {c1}
    Calls = {k1, k2}
    a = a
    emptyId = emptyId
    hugeId = hugeId
    ChunkIds = {a}
    IdLen <- MCIdLen
    Sources <- MCSources
    kFrameSize = 2
    kBufferSize = 1
    MaxWire = 1
    RawFrames = {}
    MaxRaw = 0
    Breaks = {"DEADLINE_EXCEEDED"}
    MaxCrashes = 0
    NoContent = NoContent
    NoAsk = NoAsk
    NoCall = NoCall
    NoReply = NoReply
    NoBreak = NoBreak
SYMMETRY Symmetry
INVARIANT EofMeansFinished
