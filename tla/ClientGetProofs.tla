--------------------------- MODULE ClientGetProofs ---------------------------
(***************************************************************************)
(* Proofs about ClientGet, for any number of clients, objects, temporary   *)
(* names, files, frames and damages.                                       *)
(***************************************************************************)
EXTENDS ClientGet, DataPlaneProofs

-----------------------------------------------------------------------------
(***************************************************************************)
(* The inductive invariant.  A destination is complete because the file    *)
(* linked to it matched a checksum that, in a header, is that of a stored  *)
(* payload or of nothing; and because nobody writes to a file that has     *)
(* been verified.  The bytes of a download are where they should be        *)
(* because the frames in transit continue the file.                        *)
(***************************************************************************)

(* Types of the variables. *)
ClientType == [pc : {"idle", "head", "temp", "recv", "sync", "verify", "link", "unlink", "done"},
               token : Tokens \cup {NoToken}, code : StatusCode,
               changed : BOOLEAN, head : Metadata]

CallType == [pc : {"none", "head", "open", "read"}, payload : Contents, sent : 0..MaxSize,
             wire : Seq(Contents),
             reply : [grpc : GrpcCodes, code : StatusCode] \cup {NoReply}]

WorkerTypes == /\ chunks \in [ChunkIds -> ChunkFile \cup {NoContent}]
               /\ configured \in BOOLEAN /\ damages \in 0..MaxDamage
               /\ ever \in [ChunkIds -> SUBSET Contents]

FileTypes == /\ temp \in [Tokens -> Inodes \cup {NoFile}]
             /\ dest \in Inodes \cup {NoFile}
             /\ data \in [Inodes -> Contents]
             /\ synced \in SUBSET Inodes

ClientTypes == /\ cl \in [Clients -> ClientType]
               /\ call \in [Clients -> CallType]
               /\ left \in SUBSET Tokens

Bounded(c) == call[c].sent \in 0..cl[c].head.size /\ Len(call[c].wire) <= MaxWire

(* Running clients have different temporary names, and no file has two. *)
TokensApart ==
    \A c, d \in Clients : c # d /\ cl[c].token = cl[d].token => cl[c].token = NoToken

TempsApart ==
    \A t, u \in Tokens : t # u /\ temp[t] = temp[u] => temp[t] = NoFile

(* A file without a name is empty. *)
FreeEmpty == \A i \in Inodes : FreeInode(i) => data[i] = << >>

(* The destination is on the client's disk, and complete. *)
DestSafe == (dest # NoFile => dest \in synced) /\ DestComplete

(* A checksum in a header is that of a stored payload, or of none at all. *)
SumKnown(s, id) == (\E d \in ever[id] : s = Blake3(d)) \/ (\A d \in Contents : s # Blake3(d))

ChunksKnown ==
    \A id \in ChunkIds : chunks[id] # NoContent =>
        /\ chunks[id].hdr # NoHeader => SumKnown(chunks[id].hdr.sum, id)
        /\ damages = 0 => Intact(chunks[id])

(* What a client has to do with its temporary file and its call. *)
Holding(c) ==
    /\ cl[c].pc \in {"idle", "head", "temp"} => cl[c].token = NoToken
    /\ Busy(c) => cl[c].token \in Tokens /\ FileOf(c) \in Inodes
    /\ cl[c].pc \in {"recv", "sync", "verify", "link"} => FileOf(c) # dest
    /\ cl[c].pc \in {"verify", "link", "unlink"} => FileOf(c) \in synced
    /\ cl[c].pc # "recv" => call[c] = NoCall
    /\ call[c].reply # NoReply => call[c].pc = "none"

(* Where the object's metadata came from, and what was verified. *)
Checked(c) ==
    /\ cl[c].pc \in {"temp", "recv", "sync", "verify"} => SumKnown(cl[c].head.sum, cl[c].head.id)
    /\ cl[c].pc = "link" => data[FileOf(c)] \in ever[cl[c].head.id]

(* Nobody has touched the object since the client's HeadChunk. *)
Fresh(c) == ~cl[c].changed /\ damages = 0

Object(c) == chunks[cl[c].head.id].data

(* The frames in transit continue the file: cut[k] is the length of the    *)
(* file when the k-th of them has been written.                            *)
Continues(c, cut) ==
    LET w == call[c].wire
    IN  /\ cut[0] = Len(data[FileOf(c)])
        /\ \A k \in 1..Len(w) : cut[k] = cut[k - 1] + Len(w[k])
        /\ call[c].pc # "none" => cut[Len(w)] = call[c].sent
        /\ Fresh(c) =>
             /\ \A k \in 1..Len(w) : \A j \in 1..Len(w[k]) : w[k][j] = Object(c)[cut[k - 1] + j]
             /\ call[c].reply # NoReply /\ call[c].reply.code = "Ok" =>
                    cut[Len(w)] = cl[c].head.size

Frames(c) == \E cut \in [0..Len(call[c].wire) -> 0..cl[c].head.size] : Continues(c, cut)

(* A download of an object nobody has touched. *)
Downloading(c) ==
    /\ cl[c].pc = "recv" => Frames(c)
    /\ Fresh(c) /\ cl[c].pc \in {"temp", "recv", "sync", "verify"} =>
        /\ chunks[cl[c].head.id] # NoContent
        /\ chunks[cl[c].head.id].hdr.size = cl[c].head.size
        /\ chunks[cl[c].head.id].hdr.sum = cl[c].head.sum
    /\ Fresh(c) /\ cl[c].pc \in {"recv", "sync", "verify"} =>
        \A j \in 1..Len(data[FileOf(c)]) : data[FileOf(c)][j] = Object(c)[j]
    /\ Fresh(c) /\ cl[c].pc = "recv" =>
        /\ call[c].pc = "read" => call[c].payload = Object(c)
        /\ call[c].reply # NoReply => call[c].reply.code # "Corruption"
    /\ Fresh(c) /\ cl[c].pc \in {"sync", "verify"} => Len(data[FileOf(c)]) = cl[c].head.size
    /\ cl[c].pc = "done" /\ cl[c].code = "Corruption" => ~Fresh(c)

ClientInv(c) == Bounded(c) /\ Holding(c) /\ Checked(c) /\ Downloading(c)

IInv == /\ WorkerTypes /\ FileTypes /\ ClientTypes
        /\ TokensApart /\ TempsApart /\ FreeEmpty /\ DestSafe /\ ChunksKnown
        /\ NoStrayTemps /\ GetStatusArrives
        /\ \A c \in Clients : ClientInv(c)

-----------------------------------------------------------------------------
(***************************************************************************)
(* Lemmas.                                                                 *)
(***************************************************************************)

(* A client, and a call, that has not begun. *)
LEMMA RestTypes == Idle \in ClientType /\ NoCall \in CallType
<1>1. 0 \in 0..MaxSize /\ Blake3(<< >>) \in Checksums
  BY SizeAssumption, DigestAssumption, EmptyContents
<1>2. (CHOOSE id \in ChunkIds : TRUE) \in ChunkIds
  BY GetAssumption
<1>3. << >> \in Seq(Contents)
  OBVIOUS
<1>4. Idle \in ClientType
  BY <1>1, <1>2 DEF Idle, ClientType, Metadata, StatusCode
<1>5. NoCall \in CallType
  BY <1>1, <1>3, EmptyContents DEF NoCall, CallType
<1> QED BY <1>4, <1>5

(* Clients that have temporary files have different ones. *)
LEMMA FilesApart ==
    ASSUME IInv, NEW c \in Clients, NEW d \in Clients, c # d, Busy(c), Busy(d)
    PROVE  /\ cl[c].token \in Tokens /\ cl[d].token \in Tokens
           /\ cl[c].token # cl[d].token
           /\ FileOf(c) \in Inodes /\ FileOf(d) \in Inodes /\ FileOf(c) # FileOf(d)
<1>1. /\ cl[c].token \in Tokens /\ cl[d].token \in Tokens
      /\ FileOf(c) \in Inodes /\ FileOf(d) \in Inodes
  BY DEF IInv, ClientInv, Holding
<1>2. cl[c].token # cl[d].token
  BY <1>1, GetAssumption DEF IInv, TokensApart
<1> QED BY <1>1, <1>2, GetAssumption DEF FileOf, IInv, TempsApart

(* A client that does not move, and whose file is left alone. *)
LEMMA OtherClient ==
    ASSUME NEW d \in Clients, ClientInv(d), cl'[d] = cl[d], call'[d] = call[d],
           UNCHANGED <<chunks, ever, damages>>,
           Busy(d) => /\ temp'[cl[d].token] = temp[cl[d].token]
                      /\ data'[FileOf(d)] = data[FileOf(d)]
                      /\ FileOf(d) \in synced => FileOf(d) \in synced',
           cl[d].pc \in {"recv", "sync", "verify", "link"} => FileOf(d) # dest'
    PROVE  ClientInv(d)'
<1>1. Bounded(d)'
  BY DEF ClientInv, Bounded
<1>2. Busy(d) => FileOf(d)' = FileOf(d) /\ data'[FileOf(d)'] = data[FileOf(d)]
  BY DEF FileOf
<1>3. Holding(d)'
  BY <1>2 DEF ClientInv, Holding, Busy
<1>4. Checked(d)'
  BY <1>2 DEF ClientInv, Checked, Busy, SumKnown
<1>5. (Fresh(d)' <=> Fresh(d)) /\ Object(d)' = Object(d)
  BY DEF Fresh, Object
<1>6. ASSUME cl[d].pc = "recv" PROVE Frames(d)'
  <2>1. PICK cut \in [0..Len(call[d].wire) -> 0..cl[d].head.size] : Continues(d, cut)
    BY <1>6 DEF ClientInv, Downloading, Frames
  <2>2. data'[FileOf(d)'] = data[FileOf(d)]
    BY <1>2, <1>6 DEF Busy
  <2>3. Continues(d, cut)'
    BY <1>5, <2>1, <2>2 DEF Continues
  <2> QED BY <2>1, <2>3 DEF Frames
<1>7. Downloading(d)'
  BY <1>2, <1>5, <1>6 DEF ClientInv, Downloading, Busy
<1> QED BY <1>1, <1>3, <1>4, <1>7 DEF ClientInv

(* A step of client c and its handler: what it must say about c, about the *)
(* files and about the others.                                             *)
LEMMA ClientMoves ==
    ASSUME IInv, NEW c \in Clients, UNCHANGED worker,
           FileTypes', ClientTypes',
           TempsApart', FreeEmpty', DestSafe', NoStrayTemps', ClientInv(c)',
           \A d \in Clients : d # c => cl'[d] = cl[d] /\ call'[d] = call[d],
           \A d \in Clients : d # c /\ cl'[c].token = cl[d].token => cl[d].token = NoToken,
           call'[c].reply # NoReply =>
                FromGrpcStatus(call'[c].reply.grpc) = call'[c].reply.code,
           \A d \in Clients : d # c /\ Busy(d) =>
                /\ temp'[cl[d].token] = temp[cl[d].token]
                /\ data'[FileOf(d)] = data[FileOf(d)]
                /\ FileOf(d) \in synced => FileOf(d) \in synced'
                /\ cl[d].pc # "unlink" => FileOf(d) # dest'
    PROVE  IInv'
<1>1. UNCHANGED <<chunks, configured, ever, damages>>
  BY DEF worker
<1>2. WorkerTypes' /\ ChunksKnown'
  BY <1>1 DEF IInv, WorkerTypes, ChunksKnown, SumKnown
<1>3. TokensApart' /\ GetStatusArrives'
  BY DEF IInv, TokensApart, GetStatusArrives
<1>4. \A d \in Clients : d # c => ClientInv(d)'
  BY <1>1, OtherClient DEF IInv, Busy
<1> QED BY <1>2, <1>3, <1>4 DEF IInv

(* The same for a step that leaves the files alone. *)
LEMMA QuietMoves ==
    ASSUME IInv, NEW c \in Clients, UNCHANGED <<worker, files>>,
           ClientTypes', ClientInv(c)', left \subseteq left',
           \A d \in Clients : d # c => cl'[d] = cl[d] /\ call'[d] = call[d],
           cl'[c].token \in {cl[c].token, NoToken},
           Busy(c) => \/ cl'[c].token = cl[c].token /\ cl'[c].pc # "done"
                      \/ cl[c].token \in left',
           call'[c].reply # NoReply =>
                FromGrpcStatus(call'[c].reply.grpc) = call'[c].reply.code
    PROVE  IInv'
<1>1. UNCHANGED <<temp, dest, data, synced, ever>>
  BY DEF files, worker
<1>2. FileTypes' /\ TempsApart' /\ FreeEmpty' /\ DestSafe'
  BY <1>1 DEF IInv, FileTypes, TempsApart, FreeEmpty, FreeInode, DestSafe, DestComplete
<1>3. \A d \in Clients : d # c /\ cl'[c].token = cl[d].token => cl[d].token = NoToken
  BY DEF IInv, TokensApart
<1>4. \A d \in Clients : Busy(d) /\ cl[d].pc # "unlink" => FileOf(d) # dest
  BY DEF IInv, ClientInv, Holding, Busy
<1>5. NoStrayTemps'
  <2> SUFFICES ASSUME NEW t \in Tokens, t \notin left', temp[t] # NoFile
               PROVE  \E d \in Clients : cl'[d].token = t /\ cl'[d].pc # "done"
    BY <1>1 DEF NoStrayTemps
  <2>1. PICK d \in Clients : cl[d].token = t /\ cl[d].pc # "done"
    BY DEF IInv, NoStrayTemps
  <2>2. Busy(d)
    BY <2>1, GetAssumption DEF IInv, ClientInv, Holding, Busy, ClientTypes, ClientType
  <2> QED BY <2>1, <2>2
<1> QED BY <1>1, <1>2, <1>3, <1>4, <1>5, ClientMoves

(* The initial state. *)
LEMMA InitInv == ASSUME Init PROVE IInv
<1> USE DEF Init
<1>1. WorkerTypes /\ FileTypes /\ ClientTypes
  <2>1. configured \in BOOLEAN /\ left \in SUBSET Tokens
    OBVIOUS
  <2>2. damages \in 0..MaxDamage
    BY GetAssumption
  <2>3. WorkerTypes
    BY <2>1, <2>2 DEF WorkerTypes
  <2>4. FileTypes
    BY EmptyContents DEF FileTypes
  <2>5. ClientTypes
    BY <2>1, RestTypes DEF ClientTypes
  <2> QED BY <2>3, <2>4, <2>5
<1>2. TokensApart /\ TempsApart /\ FreeEmpty /\ DestSafe
  BY DEF TokensApart, TempsApart, FreeEmpty, DestSafe, DestComplete, Idle
<1>3. ChunksKnown /\ NoStrayTemps /\ GetStatusArrives
  BY DEF ChunksKnown, NoStrayTemps, GetStatusArrives, NoCall
<1>4. ASSUME NEW c \in Clients PROVE ClientInv(c)
  <2>1. cl[c] = Idle /\ call[c] = NoCall /\ Idle.pc = "idle" /\ Idle.head.size = 0
    BY DEF Idle
  <2>2. Bounded(c)
    BY <2>1, GetAssumption DEF Bounded, NoCall
  <2>3. Holding(c) /\ Checked(c) /\ Downloading(c)
    BY <2>1 DEF Holding, Checked, Downloading, Busy, Idle, NoCall
  <2> QED BY <2>2, <2>3 DEF ClientInv
<1> QED BY <1>1, <1>2, <1>3, <1>4 DEF IInv

-----------------------------------------------------------------------------
(***************************************************************************)
(* The steps that leave the client's files alone.                          *)
(***************************************************************************)

(* A client that returns before it has a temporary file. *)
LEMMA ReturnsStep ==
    ASSUME IInv, NEW c \in Clients, cl[c].pc \in {"idle", "head", "temp"},
           NEW status \in StatusCode, status = "Corruption" => damages # 0,
           Returns(c, status), UNCHANGED <<files, left>>
    PROVE  IInv'
<1>1. /\ cl' = [cl EXCEPT ![c].pc = "done", ![c].code = status]
      /\ call' = [call EXCEPT ![c] = NoCall]
      /\ UNCHANGED <<worker, left>>
  BY DEF Returns
<1>2. cl[c] \in ClientType /\ call[c] \in CallType
  BY DEF IInv, ClientTypes
<1>3. /\ cl'[c] = [cl[c] EXCEPT !.pc = "done", !.code = status]
      /\ call'[c] = NoCall
      /\ \A d \in Clients : d # c => cl'[d] = cl[d] /\ call'[d] = call[d]
  BY <1>1 DEF IInv, ClientTypes
<1>4. /\ cl'[c] \in ClientType
      /\ cl'[c].pc = "done" /\ cl'[c].code = status /\ cl'[c].token = cl[c].token
      /\ cl'[c].head = cl[c].head
  BY <1>2, <1>3 DEF ClientType
<1>5. ClientTypes'
  BY <1>1, <1>3, <1>4, RestTypes DEF IInv, ClientTypes
<1>6. ClientInv(c)'
  <2>1. cl[c].head.size \in Nat /\ damages' = damages
    BY <1>1, <1>2 DEF ClientType, Metadata, worker
  <2>2. Bounded(c)'
    BY <1>3, <1>4, <2>1, GetAssumption DEF Bounded, NoCall
  <2>3. Holding(c)' /\ Checked(c)'
    BY <1>3, <1>4 DEF Holding, Checked, Busy, NoCall
  <2>4. Downloading(c)'
    BY <1>4, <2>1 DEF Downloading, Fresh
  <2> QED BY <2>2, <2>3, <2>4 DEF ClientInv
<1>7. ~Busy(c) /\ (left \subseteq left') /\ NoCall.reply = NoReply
  BY <1>1 DEF Busy, NoCall
<1> QED BY <1>1, <1>3, <1>4, <1>5, <1>6, <1>7, QuietMoves

(* Refusals, the failures of HeadChunk, and of the creation of the file. *)
LEMMA EarlyEnds ==
    ASSUME IInv, NEW c \in Clients,
           \/ \E id \in ChunkIds : GetRefused(c, id)
           \/ HeadFails(c) \/ GetCreateFails(c)
    PROVE  IInv'
<1>1. CASE \E id \in ChunkIds : GetRefused(c, id)
  BY <1>1, ReturnsStep DEF GetRefused, StatusCode
<1>2. CASE GetCreateFails(c)
  BY <1>2, ReturnsStep DEF GetCreateFails, StatusCode
<1>3. CASE HeadFails(c)
  <2>1. cl[c].pc = "head" /\ UNCHANGED <<files, left>>
    BY <1>3 DEF HeadFails
  <2>2. CASE \E s \in {CheckHead(cl[c].head.id), "IoError"} \ {"Ok"} :
               Returns(c, NormalizeError(FromRpcCode(ToRpcStatusCode[s])))
    <3>1. PICK s \in {CheckHead(cl[c].head.id), "IoError"} \ {"Ok"} :
               Returns(c, NormalizeError(FromRpcCode(ToRpcStatusCode[s])))
      BY <2>2
    <3>2. s \in StatusCode
      BY DEF CheckHead, ReadHeader, StatusCode
    <3>3. Returns(c, s)
      BY <3>1, <3>2, StatusRoundTrip DEF NormalizeError
    <3>4. s = "Corruption" => damages # 0
      <4>1. cl[c].head.id \in ChunkIds
        BY DEF IInv, ClientTypes, ClientType, Metadata
      <4> QED BY <4>1 DEF CheckHead, IInv, ChunksKnown, Intact, ValidateId
    <3> QED BY <2>1, <3>2, <3>3, <3>4, ReturnsStep
  <2>3. CASE \E b \in {"DEADLINE_EXCEEDED", "UNAVAILABLE", "FAILED_PRECONDITION"} :
               Returns(c, NormalizeError(FromGrpcStatus(b)))
    <3>1. PICK b \in {"DEADLINE_EXCEEDED", "UNAVAILABLE", "FAILED_PRECONDITION"} :
               Returns(c, NormalizeError(FromGrpcStatus(b)))
      BY <2>3
    <3>2. b \in BreakCodes \cup {"FAILED_PRECONDITION"}
      BY DEF BreakCodes
    <3>3. Returns(c, FromGrpcStatus(b)) /\ FromGrpcStatus(b) \in StatusCode
          /\ FromGrpcStatus(b) # "Corruption"
      BY <3>1, <3>2, BreakFacts DEF NormalizeError
    <3> QED BY <2>1, <3>3, ReturnsStep
  <2> QED BY <1>3, <2>2, <2>3 DEF HeadFails
<1> QED BY <1>1, <1>2, <1>3

(* A client that is done, or dies: its locals are gone. *)
LEMMA ForgetStep ==
    ASSUME IInv, NEW c \in Clients, Done(c) \/ Kill(c)
    PROVE  IInv'
<1>1. /\ cl' = [d \in Clients |-> IF d \in {c} THEN Idle ELSE cl[d]]
      /\ call' = [d \in Clients |-> IF d \in {c} THEN NoCall ELSE call[d]]
      /\ UNCHANGED <<worker, files>>
      /\ left \subseteq left' /\ (~Busy(c) \/ cl[c].token \in left')
  <2>1. CASE Done(c)
    BY <2>1 DEF Done, Forget, Busy
  <2>2. CASE Kill(c)
    BY <2>2 DEF Kill, Forget
  <2> QED BY <2>1, <2>2
<1>5. left' \in SUBSET Tokens
  BY DEF Done, Kill, IInv, ClientTypes, ClientInv, Holding
<1>2. /\ cl'[c] = Idle /\ call'[c] = NoCall
      /\ \A d \in Clients : d # c => cl'[d] = cl[d] /\ call'[d] = call[d]
  BY <1>1
<1>3. ClientTypes'
  BY <1>1, <1>5, RestTypes DEF IInv, ClientTypes
<1>4. ClientInv(c)'
  <2>1. Idle.pc = "idle" /\ Idle.head.size = 0 /\ Idle.token = NoToken
    BY DEF Idle
  <2>2. Bounded(c)'
    BY <1>2, <2>1, GetAssumption DEF Bounded, NoCall
  <2>3. Holding(c)' /\ Checked(c)' /\ Downloading(c)'
    BY <1>2, <2>1 DEF Holding, Checked, Downloading, Busy, NoCall
  <2> QED BY <2>2, <2>3 DEF ClientInv
<1> QED BY <1>1, <1>2, <1>3, <1>4, QuietMoves DEF NoCall, Idle

(* The start of a Get, and the metadata from HeadChunk: the checksum in    *)
(* the header is known.                                                    *)
LEMMA HeadSteps ==
    ASSUME IInv, NEW c \in Clients, (\E id \in ChunkIds : GetStart(c, id)) \/ HeadOk(c)
    PROVE  IInv'
<1>0. cl[c] \in ClientType /\ call[c] \in CallType /\ ClientInv(c)
  BY DEF IInv, ClientTypes
<1>1. CASE \E id \in ChunkIds : GetStart(c, id)
  <2>1. PICK id \in ChunkIds : GetStart(c, id)
    BY <1>1
  <2>2. /\ cl[c].pc = "idle" /\ cl'[c] = [cl[c] EXCEPT !.head.id = id, !.pc = "head"]
        /\ \A d \in Clients : d # c => cl'[d] = cl[d]
        /\ cl' \in [Clients -> ClientType]
        /\ UNCHANGED <<worker, files, call, left>>
    BY <1>0, <2>1 DEF GetStart, IInv, ClientTypes, ClientType, Metadata
  <2>3. cl'[c].pc = "head" /\ cl'[c].token = cl[c].token /\ cl'[c].head.size = cl[c].head.size
    BY <1>0, <2>2 DEF ClientType, Metadata
  <2>4. Bounded(c)' /\ Holding(c)' /\ Checked(c)' /\ Downloading(c)'
    BY <1>0, <2>2, <2>3 DEF ClientInv, Bounded, Holding, Checked, Downloading, Busy
  <2>5. ClientTypes'
    BY <2>2 DEF IInv, ClientTypes
  <2> QED BY <2>2, <2>3, <2>4, <2>5, QuietMoves DEF ClientInv, Busy, IInv, GetStatusArrives
<1>2. CASE HeadOk(c)
  <2>1. PICK id \in ChunkIds : id = cl[c].head.id
    BY <1>0 DEF ClientType, Metadata
  <2>2. /\ chunks[id] # NoContent /\ ReadHeader(chunks[id]) = "Ok"
        /\ chunks[id] \in ChunkFile
    BY <1>2, <2>1 DEF HeadOk, CheckHead, IInv, WorkerTypes, ValidateId
  <2>3. chunks[id].hdr # NoHeader /\ chunks[id].hdr.size \in 0..MaxSize
        /\ chunks[id].hdr.sum \in Checksums
    BY <2>2, HeaderSize, HeaderFields, DigestAssumption
  <2>4. PICK z \in 0..MaxSize, s \in Checksums :
          z = chunks[id].hdr.size /\ s = chunks[id].hdr.sum
    BY <2>3
  <2>5. /\ cl[c].pc = "head"
        /\ cl'[c] = [cl[c] EXCEPT !.head.size = z, !.head.sum = s, !.pc = "temp"]
        /\ \A d \in Clients : d # c => cl'[d] = cl[d]
        /\ cl' = [d \in Clients |-> cl'[d]]
        /\ UNCHANGED <<worker, files, call, left>>
    BY <1>2, <2>1, <2>4 DEF HeadOk, IInv, ClientTypes
  <2>6. /\ cl'[c].pc = "temp" /\ cl'[c].token = cl[c].token
        /\ cl'[c].head = [id |-> id, size |-> z, sum |-> s]
        /\ cl'[c] \in ClientType
    <3> DEFINE k1 == [cl[c] EXCEPT !.head.size = z]
               k2 == [k1 EXCEPT !.head.sum = s]
    <3>1. /\ k1 \in ClientType /\ k1.token = cl[c].token
          /\ k1.head.id = id /\ k1.head.size = z
      BY <1>0, <2>1 DEF ClientType, Metadata
    <3>2. /\ k2 \in ClientType /\ k2.token = cl[c].token
          /\ k2.head = [id |-> id, size |-> z, sum |-> s]
      <4> HIDE DEF k1
      <4> QED BY <3>1 DEF ClientType, Metadata
    <3>3. cl'[c] = [k2 EXCEPT !.pc = "temp"]
      BY <2>5
    <3> HIDE DEF k2
    <3> QED BY <3>2, <3>3 DEF ClientType
  <2>7. SumKnown(s, id)
    BY <2>2, <2>3, <2>4 DEF IInv, ChunksKnown
  <2>8. call[c] = NoCall /\ UNCHANGED <<chunks, ever>>
    BY <1>0, <2>5 DEF ClientInv, Holding, worker
  <2>9. Bounded(c)'
    <3>1. call'[c] = NoCall
      BY <2>5, <2>8
    <3>2. cl'[c].head.size = z /\ z \in Nat
      BY <2>6
    <3> QED BY <3>1, <3>2, GetAssumption DEF Bounded, NoCall
  <2>10. Holding(c)'
    BY <1>0, <2>5, <2>6, <2>8 DEF ClientInv, Holding, Busy
  <2>11. Checked(c)' /\ Downloading(c)'
    BY <2>2, <2>4, <2>6, <2>7, <2>8 DEF Checked, Downloading, SumKnown
  <2>12. ClientTypes'
    BY <2>5, <2>6 DEF IInv, ClientTypes
  <2> QED BY <2>5, <2>6, <2>9, <2>10, <2>11, <2>12, QuietMoves
          DEF ClientInv, Busy, IInv, GetStatusArrives
<1> QED BY <1>1, <1>2

(* The file matches the metadata: it is a payload that was stored. *)
LEMMA VerifyStep ==
    ASSUME IInv, NEW c \in Clients, Verify(c)
    PROVE  IInv'
<1>0. cl[c] \in ClientType /\ ClientInv(c)
  BY DEF IInv, ClientTypes
<1>1. /\ cl[c].pc = "verify" /\ Matches(c)
      /\ cl' = [cl EXCEPT ![c].pc = "link"]
      /\ UNCHANGED <<worker, files, call, left>>
  BY DEF Verify, Goes
<1>2. /\ cl'[c] = [cl[c] EXCEPT !.pc = "link"]
      /\ \A d \in Clients : d # c => cl'[d] = cl[d]
      /\ cl' \in [Clients -> ClientType]
  BY <1>0, <1>1 DEF IInv, ClientTypes, ClientType
<1>3. /\ cl'[c].pc = "link" /\ cl'[c].token = cl[c].token /\ cl'[c].head = cl[c].head
      /\ FileOf(c)' = FileOf(c)
      /\ UNCHANGED <<chunks, ever, temp, dest, data, synced>>
  BY <1>0, <1>1, <1>2 DEF ClientType, FileOf, worker, files
<1>4. FileOf(c) \in Inodes
  BY <1>0, <1>1 DEF ClientInv, Holding, Busy
<1>5. data[FileOf(c)] \in ever[cl[c].head.id]
  <2>1. PICK e \in Contents : e = data[FileOf(c)]
    BY <1>4 DEF IInv, FileTypes
  <2>2. PICK id \in ChunkIds : id = cl[c].head.id
    BY <1>0 DEF ClientType, Metadata
  <2>3. SumKnown(Blake3(e), id)
    BY <1>0, <1>1, <2>1, <2>2 DEF ClientInv, Checked, Matches
  <2>4. PICK d \in ever[id] : Blake3(e) = Blake3(d)
    BY <2>3 DEF SumKnown
  <2>5. d \in Contents
    BY DEF IInv, WorkerTypes
  <2> QED BY <2>1, <2>2, <2>4, <2>5, CollisionFree
<1>6. Bounded(c)' /\ Holding(c)'
  BY <1>0, <1>1, <1>3 DEF ClientInv, Bounded, Holding, Busy
<1>7. Checked(c)' /\ Downloading(c)'
  BY <1>3, <1>5 DEF Checked, Downloading
<1>8. ClientTypes'
  BY <1>1, <1>2 DEF IInv, ClientTypes
<1> QED BY <1>1, <1>2, <1>3, <1>6, <1>7, <1>8, QuietMoves DEF ClientInv, IInv, GetStatusArrives

(* The stream has ended well: all of the object has arrived, if nobody has *)
(* touched it.                                                             *)
LEMMA RecvOkStep ==
    ASSUME IInv, NEW c \in Clients, StreamEnded(c), call[c].reply.grpc = "OK",
           Goes(c, "recv", "sync"), call' = [call EXCEPT ![c] = NoCall],
           UNCHANGED <<worker, files, left>>
    PROVE  IInv'
<1>0. cl[c] \in ClientType /\ ClientInv(c)
  BY DEF IInv, ClientTypes
<1>1. /\ cl[c].pc = "recv" /\ cl' = [cl EXCEPT ![c].pc = "sync"]
      /\ call[c].wire = << >> /\ call[c].reply # NoReply
  BY DEF StreamEnded, Goes
<1>2. /\ cl'[c] = [cl[c] EXCEPT !.pc = "sync"] /\ call'[c] = NoCall
      /\ \A d \in Clients : d # c => cl'[d] = cl[d] /\ call'[d] = call[d]
      /\ cl' \in [Clients -> ClientType]
      /\ call' \in [Clients -> CallType]
  BY <1>0, <1>1, RestTypes DEF IInv, ClientTypes, ClientType
<1>3. /\ cl'[c].pc = "sync" /\ cl'[c].token = cl[c].token /\ cl'[c].head = cl[c].head
      /\ cl'[c].changed = cl[c].changed
      /\ FileOf(c)' = FileOf(c)
      /\ UNCHANGED <<chunks, ever, damages, temp, dest, data, synced>>
  BY <1>0, <1>2 DEF ClientType, FileOf, worker, files
<1>4. Fresh(c) => Len(data[FileOf(c)]) = cl[c].head.size
  <2>1. PICK cut \in [0..Len(call[c].wire) -> 0..cl[c].head.size] : Continues(c, cut)
    BY <1>0, <1>1 DEF ClientInv, Downloading, Frames
  <2>2. call[c].reply.code = "Ok"
    BY <1>1, GrpcOk DEF IInv, GetStatusArrives
  <2>3. Len(call[c].wire) = 0
    BY <1>1
  <2> QED BY <1>1, <2>1, <2>2, <2>3 DEF Continues
<1>5. Bounded(c)'
  <2>1. cl[c].head.size \in Nat
    BY <1>0 DEF ClientType, Metadata
  <2> QED BY <1>2, <1>3, <2>1, GetAssumption DEF Bounded, NoCall
<1>6. Holding(c)' /\ Checked(c)'
  BY <1>0, <1>1, <1>2, <1>3 DEF ClientInv, Holding, Checked, Busy, SumKnown, NoCall
<1>7. (Fresh(c)' <=> Fresh(c)) /\ Object(c)' = Object(c)
  BY <1>3 DEF Fresh, Object
<1>8. Downloading(c)'
  BY <1>0, <1>1, <1>3, <1>4, <1>7 DEF ClientInv, Downloading
<1>9. ClientTypes'
  BY <1>2 DEF IInv, ClientTypes
<1>10. NoCall.reply = NoReply /\ (left \subseteq left')
  BY DEF NoCall
<1> QED BY <1>2, <1>3, <1>5, <1>6, <1>8, <1>9, <1>10, QuietMoves DEF ClientInv

-----------------------------------------------------------------------------
(***************************************************************************)
(* The steps of the handler, and of the transport.                         *)
(***************************************************************************)

(* A call that goes on: the frames still continue the file. *)
LEMMA CallMoves ==
    ASSUME IInv, NEW c \in Clients, cl[c].pc = "recv", NEW k \in CallType,
           call' = [call EXCEPT ![c] = k], UNCHANGED <<worker, files, cl, left>>,
           k.sent \in 0..cl[c].head.size, Len(k.wire) <= MaxWire,
           NEW cut \in [0..Len(k.wire) -> 0..cl[c].head.size],
           Continues(c, cut)',
           Fresh(c) /\ k.pc = "read" => k.payload = Object(c),
           Fresh(c) /\ k.reply # NoReply => k.reply.code # "Corruption",
           k.reply # NoReply => FromGrpcStatus(k.reply.grpc) = k.reply.code,
           k.reply # NoReply => k.pc = "none"
    PROVE  IInv'
<1>0. cl[c] \in ClientType /\ ClientInv(c)
  BY DEF IInv, ClientTypes
<1>1. /\ call'[c] = k
      /\ \A d \in Clients : d # c => call'[d] = call[d]
      /\ call' \in [Clients -> CallType]
  BY DEF IInv, ClientTypes
<1>2. /\ FileOf(c)' = FileOf(c)
      /\ UNCHANGED <<chunks, ever, damages, temp, dest, data, synced>>
  BY DEF FileOf, worker, files
<1>3. (Fresh(c)' <=> Fresh(c)) /\ Object(c)' = Object(c)
  BY <1>2 DEF Fresh, Object
<1>4. Bounded(c)' /\ Holding(c)' /\ Checked(c)'
  BY <1>0, <1>1, <1>2 DEF ClientInv, Bounded, Holding, Checked, Busy, SumKnown
<1>5. Frames(c)'
  BY <1>1 DEF Frames
<1>6. Downloading(c)'
  BY <1>0, <1>1, <1>2, <1>3, <1>5 DEF ClientInv, Downloading
<1>7. ClientTypes'
  BY <1>1 DEF IInv, ClientTypes
<1>8. (left \subseteq left') /\ cl'[c].pc # "done" /\ cl'[c].token = cl[c].token
  OBVIOUS
<1> QED BY <1>1, <1>4, <1>6, <1>7, <1>8, QuietMoves DEF ClientInv

(* While the object is untouched, the store finds it, with its metadata. *)
LEMMA FreshObject ==
    ASSUME IInv, NEW c \in Clients, Fresh(c), cl[c].pc \in {"temp", "recv", "sync", "verify"}
    PROVE  /\ cl[c].head.id \in ChunkIds
           /\ chunks[cl[c].head.id] # NoContent
           /\ ReadHeader(chunks[cl[c].head.id]) = "Ok"
           /\ Object(c) \in Contents
           /\ Len(Object(c)) = cl[c].head.size
           /\ Blake3(Object(c)) = cl[c].head.sum
<1>1. PICK id \in ChunkIds : id = cl[c].head.id
  BY DEF IInv, ClientTypes, ClientType, Metadata
<1>2. /\ chunks[id] # NoContent /\ chunks[id].hdr.size = cl[c].head.size
      /\ chunks[id].hdr.sum = cl[c].head.sum
  BY <1>1 DEF IInv, ClientInv, Downloading
<1>3. Intact(chunks[id]) /\ chunks[id] \in ChunkFile
  BY <1>2 DEF IInv, ChunksKnown, Fresh, WorkerTypes
<1>4. PICK f \in ChunkFile : f = chunks[id]
  BY <1>3
<1>5. ReadHeader(f) = "Ok" /\ f.hdr.sum = Blake3(f.data) /\ f.data \in Contents
  BY <1>3, <1>4 DEF Intact, ChunkFile
<1>6. f.hdr.size = Len(f.data)
  BY <1>5, HeaderSize
<1> QED BY <1>1, <1>2, <1>4, <1>5, <1>6 DEF Object

(* The handler, or the transport, ends the call. *)
LEMMA AnswerStep ==
    ASSUME IInv, NEW c \in Clients, call[c].pc # "none",
           NEW status \in StatusCode, Answers(c, status),
           Fresh(c) => status # "Corruption",
           Fresh(c) /\ status = "Ok" => call[c].sent = cl[c].head.size
    PROVE  IInv'
<1>0. cl[c] \in ClientType /\ call[c] \in CallType /\ ClientInv(c)
  BY DEF IInv, ClientTypes
<1>1. cl[c].pc = "recv" /\ cl[c].head.size \in Nat
  BY <1>0 DEF ClientInv, Holding, NoCall, ClientType, Metadata
<1> DEFINE r == [grpc |-> ToGrpcStatus[status], code |-> status]
           k == [NoCall EXCEPT !.wire = call[c].wire, !.reply = r]
<1>2. call' = [call EXCEPT ![c] = k] /\ UNCHANGED <<worker, files, cl, left>>
  BY DEF Answers
<1>3. r \in [grpc : GrpcCodes, code : StatusCode] /\ FromGrpcStatus(r.grpc) = r.code
  BY StatusRoundTrip
<1>4. /\ k \in CallType /\ k.pc = "none" /\ k.sent = 0
      /\ k.wire = call[c].wire /\ k.reply = r
  BY <1>0, <1>3, RestTypes DEF CallType, NoCall
<1>5. PICK cut \in [0..Len(call[c].wire) -> 0..cl[c].head.size] : Continues(c, cut)
  BY <1>0, <1>1 DEF ClientInv, Downloading, Frames
<1>6. Continues(c, cut)'
  <2>1. call'[c] = k
    BY <1>2 DEF IInv, ClientTypes
  <2>2. /\ FileOf(c)' = FileOf(c) /\ data' = data
        /\ (Fresh(c)' <=> Fresh(c)) /\ Object(c)' = Object(c)
    BY <1>2 DEF FileOf, Fresh, Object, worker, files
  <2>3. /\ call'[c].wire = call[c].wire /\ call'[c].pc = "none"
        /\ call'[c].reply.code = status /\ cl' = cl
    <3>1. k.reply.code = status
      BY <1>4
    <3> HIDE DEF k
    <3> QED BY <1>2, <1>4, <2>1, <3>1
  <2>4. /\ cut[0] = Len(data[FileOf(c)])
        /\ \A i \in 1..Len(call[c].wire) : cut[i] = cut[i - 1] + Len(call[c].wire[i])
        /\ Fresh(c) => \A i \in 1..Len(call[c].wire) : \A j \in 1..Len(call[c].wire[i]) :
                          call[c].wire[i][j] = Object(c)[cut[i - 1] + j]
        /\ Fresh(c) /\ status = "Ok" => cut[Len(call[c].wire)] = cl[c].head.size
    BY <1>5 DEF Continues
  <2> HIDE DEF k
  <2> QED BY <2>2, <2>3, <2>4 DEF Continues
<1>7. Len(k.wire) <= MaxWire /\ k.sent \in 0..cl[c].head.size
  BY <1>0, <1>1, <1>4 DEF ClientInv, Bounded
<1> HIDE DEF k
<1> QED BY <1>1, <1>2, <1>3, <1>4, <1>5, <1>6, <1>7, CallMoves

(* The answers of the handler. *)
LEMMA AnswerSteps ==
    ASSUME IInv, NEW c \in Clients, HandlerRefuses(c) \/ HandlerEnds(c) \/ HandlerFails(c)
    PROVE  IInv'
<1>0. cl[c] \in ClientType /\ call[c] \in CallType /\ ClientInv(c)
  BY DEF IInv, ClientTypes
<1>1. CASE HandlerFails(c)
  BY <1>1, AnswerStep DEF HandlerFails, StatusCode
<1>2. CASE HandlerRefuses(c)
  <2>1. CASE call[c].pc = "head" /\ CheckGet(c) # "Ok" /\ Answers(c, CheckGet(c))
    <3>1. CheckGet(c) \in StatusCode
      BY DEF CheckGet, CheckHead, ReadHeader, ValidateByteRange, StatusCode
    <3>2. cl[c].pc = "recv"
      BY <1>0, <2>1 DEF ClientInv, Holding, NoCall
    <3>3. Fresh(c) => CheckGet(c) # "Corruption"
      BY <3>2, FreshObject DEF CheckGet, CheckHead, ValidateByteRange
    <3> QED BY <2>1, <3>1, <3>3, AnswerStep
  <2>2. CASE call[c].pc = "open" /\ Answers(c, "NotFound")
    BY <2>2, AnswerStep DEF StatusCode
  <2> QED BY <1>2, <2>1, <2>2 DEF HandlerRefuses
<1>3. CASE HandlerEnds(c)
  <2>1. call[c].pc = "read" /\ cl[c].pc = "recv"
    BY <1>0, <1>3 DEF HandlerEnds, ClientInv, Holding, NoCall
  <2>2. call[c].sent \in Nat /\ cl[c].head.size \in Nat
    BY <1>0 DEF CallType, ClientType, Metadata
  <2>3. CASE Remaining(c) = 0 /\ Answers(c, "Ok")
    <3>1. call[c].sent = cl[c].head.size
      BY <2>2, <2>3 DEF Remaining
    <3> QED BY <2>1, <2>3, <3>1, AnswerStep DEF StatusCode
  <2>4. CASE /\ Remaining(c) > 0 /\ call[c].sent >= Len(call[c].payload)
             /\ Answers(c, "Corruption")
    <3>1. ASSUME Fresh(c) PROVE FALSE
      <4>1. call[c].payload = Object(c)
        BY <1>0, <2>1, <3>1 DEF ClientInv, Downloading
      <4>2. Len(Object(c)) = cl[c].head.size
        BY <2>1, <3>1, FreshObject
      <4> QED BY <2>2, <2>4, <4>1, <4>2 DEF Remaining
    <3> QED BY <2>1, <2>4, <3>1, AnswerStep DEF StatusCode
  <2> QED BY <1>3, <2>3, <2>4 DEF HandlerEnds
<1> QED BY <1>1, <1>2, <1>3

(* The call breaks: what was not received is lost. *)
LEMMA BreakStep ==
    ASSUME IInv, NEW c \in Clients, NEW b \in BreakCodes, Break(c, b)
    PROVE  IInv'
<1>0. cl[c] \in ClientType /\ call[c] \in CallType /\ ClientInv(c)
  BY DEF IInv, ClientTypes
<1> DEFINE r == [grpc |-> b, code |-> FromGrpcStatus(b)]
           k == [NoCall EXCEPT !.reply = r]
<1>1. /\ cl[c].pc = "recv" /\ call' = [call EXCEPT ![c] = k]
      /\ UNCHANGED <<worker, files, cl, left>>
  BY DEF Break
<1>2. /\ r \in [grpc : GrpcCodes, code : StatusCode]
      /\ r.code \notin {"Ok", "Corruption"} /\ FromGrpcStatus(r.grpc) = r.code
  BY BreakFacts
<1>3. /\ k \in CallType /\ k.pc = "none" /\ k.sent = 0
      /\ k.wire = << >> /\ k.reply = r
  BY <1>2, RestTypes DEF CallType, NoCall
<1>4. PICK old \in [0..Len(call[c].wire) -> 0..cl[c].head.size] : Continues(c, old)
  BY <1>0, <1>1 DEF ClientInv, Downloading, Frames
<1>5. Len(call[c].wire) \in Nat
  BY <1>0 DEF CallType
<1> PICK cut : cut = [i \in 0..0 |-> Len(data[FileOf(c)])]
  OBVIOUS
<1>6. cut \in [0..Len(k.wire) -> 0..cl[c].head.size] /\ Len(k.wire) = 0
  <2>1. Len(k.wire) = 0
    BY <1>3
  <2>2. old[0] \in 0..cl[c].head.size /\ old[0] = Len(data[FileOf(c)])
    BY <1>4, <1>5 DEF Continues
  <2> QED BY <2>1, <2>2
<1>7. Continues(c, cut)'
  <2>1. call'[c] = k
    BY <1>1 DEF IInv, ClientTypes
  <2>2. FileOf(c)' = FileOf(c) /\ data' = data
    BY <1>1 DEF FileOf, worker, files
  <2> HIDE DEF k
  <2> QED BY <1>2, <1>3, <1>6, <2>1, <2>2 DEF Continues
<1>8. cl[c].head.size \in Nat
  BY <1>0 DEF ClientType, Metadata
<1>9. Len(k.wire) <= MaxWire /\ k.sent \in 0..cl[c].head.size
  BY <1>3, <1>6, <1>8, GetAssumption
<1>10. k.reply.code # "Corruption" /\ FromGrpcStatus(k.reply.grpc) = k.reply.code
  BY <1>2, <1>3
<1> HIDE DEF k, r
<1> QED BY <1>1, <1>3, <1>6, <1>7, <1>9, <1>10, CallMoves

(* The handler looks the object up, and opens it. *)
LEMMA HandlerBegins ==
    ASSUME IInv, NEW c \in Clients, HandlerHead(c) \/ HandlerOpen(c)
    PROVE  IInv'
<1>0. cl[c] \in ClientType /\ call[c] \in CallType /\ ClientInv(c)
  BY DEF IInv, ClientTypes
<1>1. call[c].pc \in {"head", "open"} /\ UNCHANGED <<worker, files, cl, left>>
  BY DEF HandlerHead, HandlerOpen
<1>2. cl[c].pc = "recv" /\ call[c].reply = NoReply
  BY <1>0, <1>1 DEF ClientInv, Holding, NoCall
<1>3. PICK k \in CallType :
        /\ call' = [call EXCEPT ![c] = k] /\ k.pc \in {"open", "read"}
        /\ k.sent = call[c].sent /\ k.wire = call[c].wire /\ k.reply = NoReply
        /\ k.pc = "read" => k.payload = Object(c)
  <2>1. CASE HandlerHead(c)
    <3> DEFINE k == [call[c] EXCEPT !.pc = "open"]
    <3>1. call' = [call EXCEPT ![c] = k]
      BY <2>1 DEF HandlerHead
    <3>2. /\ k \in CallType /\ k.pc = "open" /\ k.sent = call[c].sent
          /\ k.wire = call[c].wire /\ k.reply = NoReply
      BY <1>0, <1>2 DEF CallType
    <3> HIDE DEF k
    <3> QED BY <3>1, <3>2
  <2>2. CASE HandlerOpen(c)
    <3>1. PICK id \in ChunkIds : id = cl[c].head.id
      BY <1>0 DEF ClientType, Metadata
    <3>2. chunks[id] # NoContent /\ chunks[id] \in ChunkFile
      BY <2>2, <3>1 DEF HandlerOpen, IInv, WorkerTypes
    <3>3. PICK p \in Contents : p = Object(c)
      BY <3>1, <3>2 DEF ChunkFile, Object
    <3> DEFINE k1 == [call[c] EXCEPT !.payload = p]
               k == [k1 EXCEPT !.pc = "read"]
    <3>4. call' = [call EXCEPT ![c] = k]
      BY <2>2, <3>3 DEF HandlerOpen, Object
    <3>5. /\ k1 \in CallType /\ k1.payload = p /\ k1.sent = call[c].sent
          /\ k1.wire = call[c].wire /\ k1.reply = NoReply
      BY <1>0, <1>2 DEF CallType
    <3>6. /\ k \in CallType /\ k.pc = "read" /\ k.payload = p /\ k.sent = call[c].sent
          /\ k.wire = call[c].wire /\ k.reply = NoReply
      <4> HIDE DEF k1
      <4> QED BY <3>5 DEF CallType
    <3> HIDE DEF k
    <3> QED BY <3>3, <3>4, <3>6
  <2> QED BY <2>1, <2>2
<1>4. PICK cut \in [0..Len(call[c].wire) -> 0..cl[c].head.size] : Continues(c, cut)
  BY <1>0, <1>2 DEF ClientInv, Downloading, Frames
<1>5. Continues(c, cut)'
  <2>1. call'[c] = k
    BY <1>3 DEF IInv, ClientTypes
  <2>2. /\ FileOf(c)' = FileOf(c) /\ data' = data
        /\ (Fresh(c)' <=> Fresh(c)) /\ Object(c)' = Object(c)
    BY <1>1 DEF FileOf, Fresh, Object, worker, files
  <2>3. call'[c].wire = call[c].wire /\ call'[c].reply = NoReply /\ cl' = cl
        /\ call'[c].sent = call[c].sent /\ call[c].pc # "none"
    BY <1>1, <1>3, <2>1
  <2>4. /\ cut[0] = Len(data[FileOf(c)])
        /\ \A i \in 1..Len(call[c].wire) : cut[i] = cut[i - 1] + Len(call[c].wire[i])
        /\ cut[Len(call[c].wire)] = call[c].sent
        /\ Fresh(c) => \A i \in 1..Len(call[c].wire) : \A j \in 1..Len(call[c].wire[i]) :
                          call[c].wire[i][j] = Object(c)[cut[i - 1] + j]
    BY <1>4, <2>3 DEF Continues
  <2> QED BY <2>2, <2>3, <2>4 DEF Continues
<1>6. Len(k.wire) <= MaxWire /\ k.sent \in 0..cl[c].head.size
  BY <1>0, <1>3 DEF ClientInv, Bounded
<1> QED BY <1>1, <1>2, <1>3, <1>4, <1>5, <1>6, CallMoves

(* The handler sends a piece: it is the next piece of the object. *)
LEMMA SendStep ==
    ASSUME IInv, NEW c \in Clients, NEW n \in 1..MaxSize, HandlerSend(c, n)
    PROVE  IInv'
<1>0. cl[c] \in ClientType /\ call[c] \in CallType /\ ClientInv(c)
  BY DEF IInv, ClientTypes
<1>1. /\ call[c].pc = "read" /\ n <= cl[c].head.size - call[c].sent
      /\ n <= Len(call[c].payload) - call[c].sent
      /\ Len(call[c].wire) < MaxWire /\ UNCHANGED <<worker, files, cl, left>>
  BY DEF HandlerSend, Sends, Remaining
<1>2. cl[c].pc = "recv" /\ call[c].reply = NoReply
  BY <1>0, <1>1 DEF ClientInv, Holding, NoCall
<1>3. /\ cl[c].head.size \in 0..MaxSize /\ MaxSize \in Nat /\ n \in Nat /\ n <= MaxSize
  BY <1>0, SizeAssumption DEF ClientType, Metadata
<1>4. PICK o \in Nat : o = call[c].sent
  BY <1>0 DEF CallType
<1>5. PICK p \in Contents : p = call[c].payload
  BY <1>0 DEF CallType
<1>6. Len(p) \in Nat
  BY ContentsAreSeqs
<1>7. PICK w \in Seq(Contents), z \in Nat : w = call[c].wire /\ z = Len(w)
  BY <1>0 DEF CallType
<1>8. o + n <= Len(p) /\ o + n <= cl[c].head.size /\ z < MaxWire
  BY <1>1, <1>3, <1>4, <1>5, <1>6, <1>7
<1>9. PICK e \in Contents : /\ e = SubSeq(p, o + 1, o + n) /\ Len(e) = n
                            /\ \A j \in 1..n : e[j] = p[o + j]
  BY <1>3, <1>8, SliceContents
<1>10. PICK v \in Seq(Contents) :
         /\ v = Append(w, e) /\ Len(v) = z + 1 /\ v[z + 1] = e
         /\ \A i \in 1..z : v[i] = w[i]
  <2>1. /\ Append(w, e) \in Seq(Contents) /\ Len(Append(w, e)) = Len(w) + 1
        /\ \A i \in 1..Len(w) : Append(w, e)[i] = w[i]
        /\ Append(w, e)[Len(w) + 1] = e
    OBVIOUS
  <2> QED BY <1>7, <2>1
<1> DEFINE k1 == [call[c] EXCEPT !.wire = v]
           k == [k1 EXCEPT !.sent = o + n]
<1>11. call' = [call EXCEPT ![c] = k]
  BY <1>4, <1>5, <1>7, <1>9, <1>10 DEF HandlerSend, Sends, IInv, ClientTypes
<1>12. /\ k \in CallType /\ k.pc = "read" /\ k.payload = p /\ k.sent = o + n
       /\ k.wire = v /\ k.reply = NoReply
  <2>1. /\ k1 \in CallType /\ k1.pc = "read" /\ k1.payload = p
        /\ k1.wire = v /\ k1.reply = NoReply
    BY <1>0, <1>1, <1>2, <1>5 DEF CallType
  <2>2. o + n \in 0..MaxSize
    BY <1>3, <1>8
  <2> HIDE DEF k1
  <2> QED BY <2>1, <2>2 DEF CallType
<1> HIDE DEF k
<1>13. Fresh(c) => p = Object(c)
  BY <1>0, <1>1, <1>2, <1>5 DEF ClientInv, Downloading
<1>14. PICK old \in [0..z -> 0..cl[c].head.size] : Continues(c, old)
  BY <1>0, <1>2, <1>7 DEF ClientInv, Downloading, Frames
<1>15. /\ old[0] = Len(data[FileOf(c)])
       /\ \A i \in 1..z : old[i] = old[i - 1] + Len(w[i])
       /\ old[z] = o
       /\ Fresh(c) => \A i \in 1..z : \A j \in 1..Len(w[i]) : w[i][j] = Object(c)[old[i - 1] + j]
  BY <1>1, <1>4, <1>7, <1>14 DEF Continues
<1>16. PICK cut : cut = [i \in 0..(z + 1) |-> IF i <= z THEN old[i] ELSE o + n]
  OBVIOUS
<1>17. /\ cut \in [0..Len(k.wire) -> 0..cl[c].head.size]
       /\ cut[z + 1] = o + n /\ \A i \in 0..z : cut[i] = old[i]
  BY <1>3, <1>8, <1>10, <1>12, <1>14, <1>16
<1>18. Continues(c, cut)'
  <2>1. call'[c] = k
    BY <1>11 DEF IInv, ClientTypes
  <2>2. /\ FileOf(c)' = FileOf(c) /\ data' = data
        /\ (Fresh(c)' <=> Fresh(c)) /\ Object(c)' = Object(c)
    BY <1>1 DEF FileOf, Fresh, Object, worker, files
  <2>3. call'[c].wire = v /\ Len(v) = z + 1 /\ call'[c].reply = NoReply
        /\ call'[c].sent = o + n
    BY <1>10, <1>12, <2>1
  <2>4. \A i \in 1..z + 1 : i \in 1..z \/ (i = z + 1 /\ i - 1 = z)
    BY <1>7
  <2>5. ASSUME NEW i \in 1..z + 1 PROVE cut[i] = cut[i - 1] + Len(v[i])
    <3>1. CASE i \in 1..z
      <4>1. i \in 0..z /\ i - 1 \in 0..z
        BY <3>1
      <4> QED BY <1>10, <1>15, <1>17, <3>1, <4>1
    <3>2. CASE i = z + 1
      <4>1. i - 1 = z /\ z \in 0..z
        BY <3>2
      <4> QED BY <1>9, <1>10, <1>15, <1>17, <3>2, <4>1
    <3> QED BY <2>4, <3>1, <3>2
  <2>6. ASSUME Fresh(c), NEW i \in 1..z + 1, NEW j \in 1..Len(v[i])
        PROVE  v[i][j] = Object(c)[cut[i - 1] + j]
    <3>1. CASE i \in 1..z
      <4>1. i - 1 \in 0..z
        BY <3>1
      <4> QED BY <1>10, <1>15, <1>17, <2>6, <3>1, <4>1
    <3>2. CASE i = z + 1
      <4>1. i - 1 = z /\ z \in 0..z
        BY <3>2
      <4>2. cut[i - 1] = o /\ v[i] = e
        BY <1>10, <1>15, <1>17, <3>2, <4>1
      <4> QED BY <1>9, <1>13, <2>6, <4>2
    <3> QED BY <2>4, <3>1, <3>2
  <2>7. cut[0] = Len(data[FileOf(c)])
    <3>1. 0 \in 0..z
      OBVIOUS
    <3> QED BY <1>15, <1>17, <3>1
  <2> QED BY <1>17, <2>2, <2>3, <2>5, <2>6, <2>7 DEF Continues
<1>19. Len(k.wire) <= MaxWire /\ k.sent \in 0..cl[c].head.size
  BY <1>3, <1>8, <1>10, <1>12, GetAssumption
<1> QED BY <1>1, <1>2, <1>11, <1>12, <1>13, <1>17, <1>18, <1>19, CallMoves

-----------------------------------------------------------------------------
(***************************************************************************)
(* The steps of the client on its temporary file.                          *)
(***************************************************************************)

(* The temporary file is created, empty, and the call starts. *)
LEMMA CreateStep ==
    ASSUME IInv, NEW c \in Clients, NEW t \in Tokens, NEW i \in Inodes, GetCreate(c, t, i)
    PROVE  IInv'
<1>0. cl[c] \in ClientType /\ ClientInv(c)
  BY DEF IInv, ClientTypes
<1>1. /\ cl[c].pc = "temp" /\ FreshToken(t) /\ temp[t] = NoFile /\ FreeInode(i)
      /\ temp' = [temp EXCEPT ![t] = i]
      /\ cl' = [cl EXCEPT ![c].token = t, ![c].pc = "recv"]
      /\ call' = [call EXCEPT ![c].pc = "head"]
      /\ UNCHANGED <<dest, data, synced, worker, left>>
  BY DEF GetCreate
<1>2. call[c] = NoCall /\ cl[c].token = NoToken
  BY <1>0, <1>1 DEF ClientInv, Holding
<1> DEFINE k == [NoCall EXCEPT !.pc = "head"]
<1>3. /\ cl'[c] = [cl[c] EXCEPT !.token = t, !.pc = "recv"] /\ call'[c] = k
      /\ \A d \in Clients : d # c => cl'[d] = cl[d] /\ call'[d] = call[d]
      /\ cl' = [d \in Clients |-> cl'[d]] /\ call' = [d \in Clients |-> call'[d]]
  BY <1>1, <1>2 DEF IInv, ClientTypes
<1>4. /\ cl'[c] \in ClientType /\ cl'[c].token = t /\ cl'[c].pc = "recv"
      /\ cl'[c].head = cl[c].head /\ cl'[c].changed = cl[c].changed
  BY <1>0, <1>3 DEF ClientType
<1>5. /\ k \in CallType /\ k.pc = "head" /\ k.sent = 0 /\ k.wire = << >> /\ k.reply = NoReply
  BY RestTypes DEF CallType, NoCall
<1> HIDE DEF k
<1>6. ClientTypes'
  <2>1. left' \in SUBSET Tokens
    BY <1>1 DEF IInv, ClientTypes
  <2> QED BY <1>3, <1>4, <1>5, <2>1 DEF IInv, ClientTypes
<1>7. /\ temp'[t] = i /\ \A u \in Tokens : u # t => temp'[u] = temp[u]
      /\ FileOf(c)' = i /\ data'[i] = << >> /\ i # dest'
  BY <1>1, <1>4 DEF IInv, FileTypes, FileOf, FreeEmpty, FreeInode
<1>8. FileTypes' /\ TempsApart' /\ FreeEmpty'
  <2>1. FileTypes'
    BY <1>1 DEF IInv, FileTypes
  <2>2. \A u \in Tokens : temp[u] # i
    BY <1>1 DEF FreeInode
  <2>3. TempsApart'
    BY <1>7, <2>2 DEF IInv, TempsApart
  <2>4. ASSUME NEW j \in Inodes, FreeInode(j)' PROVE data'[j] = << >>
    <3>1. FreeInode(j)
      BY <1>1, <1>7, <2>4, GetAssumption DEF FreeInode
    <3> QED BY <1>1, <3>1 DEF IInv, FreeEmpty
  <2> QED BY <2>1, <2>3, <2>4 DEF FreeEmpty
<1>9. DestSafe' /\ UNCHANGED <<chunks, ever, damages>>
  BY <1>1 DEF IInv, DestSafe, DestComplete, worker
<1>10. NoStrayTemps'
  <2> SUFFICES ASSUME NEW u \in Tokens, u \notin left', temp'[u] # NoFile
               PROVE  \E d \in Clients : cl'[d].token = u /\ cl'[d].pc # "done"
    BY DEF NoStrayTemps
  <2>1. CASE u = t
    BY <1>4, <2>1
  <2>2. CASE u # t
    <3>1. u \notin left /\ temp[u] # NoFile
      BY <1>1, <1>7, <2>2
    <3>2. PICK d \in Clients : cl[d].token = u /\ cl[d].pc # "done"
      BY <3>1 DEF IInv, NoStrayTemps
    <3>3. d # c
      BY <1>2, <3>2, GetAssumption
    <3> QED BY <1>3, <3>2, <3>3
  <2> QED BY <2>1, <2>2
<1>11. cl[c].head.size \in Nat
  BY <1>0 DEF ClientType, Metadata
<1>12. Bounded(c)' /\ Holding(c)' /\ Checked(c)'
  <2>1. Bounded(c)'
    BY <1>3, <1>4, <1>5, <1>11, GetAssumption DEF Bounded
  <2>2. Holding(c)'
    BY <1>3, <1>4, <1>5, <1>7 DEF Holding, Busy
  <2>3. Checked(c)'
    BY <1>0, <1>1, <1>4, <1>9 DEF ClientInv, Checked, SumKnown
  <2> QED BY <2>1, <2>2, <2>3
<1>13. Downloading(c)'
  <2>1. PICK cut : cut = [j \in 0..0 |-> 0]
    OBVIOUS
  <2>2. cut \in [0..Len(k.wire) -> 0..cl[c].head.size] /\ Len(k.wire) = 0 /\ cut[0] = 0
    <3>1. Len(k.wire) = 0
      BY <1>5
    <3> QED BY <1>11, <2>1, <3>1
  <2>3. Continues(c, cut)'
    BY <1>3, <1>5, <1>7, <2>2 DEF Continues
  <2>4. Frames(c)'
    BY <1>3, <1>4, <2>2, <2>3 DEF Frames
  <2>5. Fresh(c)' => Fresh(c)
    BY <1>4, <1>9 DEF Fresh
  <2>6. Len(data'[FileOf(c)']) = 0
    BY <1>7
  <2>7. Fresh(c)' => /\ chunks'[cl'[c].head.id] # NoContent
                     /\ chunks'[cl'[c].head.id].hdr.size = cl'[c].head.size
                     /\ chunks'[cl'[c].head.id].hdr.sum = cl'[c].head.sum
    BY <1>0, <1>1, <1>4, <1>9, <2>5 DEF ClientInv, Downloading
  <2>8. \A j \in 1..Len(data'[FileOf(c)']) : FALSE
    BY <2>6
  <2>9. call'[c].pc # "read" /\ call'[c].reply = NoReply
    BY <1>3, <1>5
  <2> QED BY <1>4, <2>4, <2>7, <2>8, <2>9 DEF Downloading
<1>14. ASSUME NEW d \in Clients, d # c, Busy(d)
       PROVE  /\ temp'[cl[d].token] = temp[cl[d].token]
              /\ data'[FileOf(d)] = data[FileOf(d)]
              /\ FileOf(d) \in synced => FileOf(d) \in synced'
              /\ cl[d].pc # "unlink" => FileOf(d) # dest'
  BY <1>1, <1>7, <1>14 DEF IInv, ClientInv, Holding, FreshToken, Busy
<1>15. \A d \in Clients : d # c /\ cl'[c].token = cl[d].token => cl[d].token = NoToken
  BY <1>1, <1>4 DEF FreshToken
<1>16. ClientInv(c)' /\ call'[c].reply = NoReply
  BY <1>3, <1>5, <1>12, <1>13 DEF ClientInv
<1> QED BY <1>1, <1>3, <1>6, <1>8, <1>9, <1>10, <1>14, <1>15, <1>16, ClientMoves

(* A client that unlinks its temporary file, or fails to, and returns. *)
LEMMA FailsStep ==
    ASSUME IInv, NEW c \in Clients, Busy(c), NEW status \in StatusCode, Fails(c, status),
           status = "Corruption" => ~Fresh(c)
    PROVE  IInv'
<1>0. cl[c] \in ClientType /\ ClientInv(c)
  BY DEF IInv, ClientTypes
<1>1. /\ cl' = [cl EXCEPT ![c].pc = "done", ![c].code = status]
      /\ call' = [call EXCEPT ![c] = NoCall]
      /\ UNCHANGED worker
  BY DEF Fails, Returns
<1>2. PICK t \in Tokens, f \in Inodes : t = cl[c].token /\ f = temp[t] /\ f = FileOf(c)
  BY <1>0 DEF ClientInv, Holding, FileOf
<1>3. /\ cl'[c] = [cl[c] EXCEPT !.pc = "done", !.code = status]
      /\ call'[c] = NoCall
      /\ \A d \in Clients : d # c => cl'[d] = cl[d] /\ call'[d] = call[d]
      /\ cl' = [d \in Clients |-> cl'[d]] /\ call' = [d \in Clients |-> call'[d]]
  BY <1>1 DEF IInv, ClientTypes
<1>4. /\ cl'[c] \in ClientType
      /\ cl'[c].pc = "done" /\ cl'[c].code = status /\ cl'[c].token = cl[c].token
      /\ cl'[c].head = cl[c].head /\ cl'[c].changed = cl[c].changed
  BY <1>0, <1>3 DEF ClientType
<1>5. ClientTypes'
  <2>1. left' \in SUBSET Tokens
    BY <1>2 DEF Fails, IInv, ClientTypes
  <2> QED BY <1>3, <1>4, <2>1, RestTypes DEF IInv, ClientTypes
<1>6. UNCHANGED <<chunks, ever, damages>>
  BY <1>1 DEF worker
<1>7. ClientInv(c)'
  <2>1. cl[c].head.size \in Nat
    BY <1>0 DEF ClientType, Metadata
  <2>2. Bounded(c)'
    BY <1>3, <1>4, <2>1, GetAssumption DEF Bounded, NoCall
  <2>3. Holding(c)' /\ Checked(c)'
    BY <1>3, <1>4 DEF Holding, Checked, Busy, NoCall
  <2>4. Downloading(c)'
    BY <1>4, <1>6 DEF Downloading, Fresh
  <2> QED BY <2>2, <2>3, <2>4 DEF ClientInv
<1>8. call'[c].reply = NoReply
  BY <1>3 DEF NoCall
<1>9. CASE left' = left \cup {cl[c].token} /\ UNCHANGED files
  <2>1. left \subseteq left' /\ cl[c].token \in left'
    BY <1>9
  <2> QED BY <1>1, <1>3, <1>4, <1>5, <1>7, <1>8, <1>9, <2>1, QuietMoves
<1> SUFFICES ASSUME temp' = [temp EXCEPT ![cl[c].token] = NoFile],
                    Wipe({FileOf(c)} \ {dest}), UNCHANGED <<dest, left>>
             PROVE  IInv'
  BY <1>9 DEF Fails
<1>10. /\ temp'[t] = NoFile /\ \A u \in Tokens : u # t => temp'[u] = temp[u]
       /\ temp' \in [Tokens -> Inodes \cup {NoFile}]
  BY <1>1, <1>2 DEF IInv, FileTypes
<1>11. /\ data' = [i \in Inodes |-> IF i \in {f} \ {dest} THEN << >> ELSE data[i]]
       /\ synced' = synced \ ({f} \ {dest})
  BY <1>2 DEF Wipe
<1>12. /\ \A i \in Inodes : i # f => data'[i] = data[i] /\ (i \in synced => i \in synced')
       /\ f # dest => data'[f] = << >>
       /\ dest \in Inodes => data'[dest] = data[dest] /\ (dest \in synced => dest \in synced')
  BY <1>11
<1>13. FileTypes'
  <2>1. data' \in [Inodes -> Contents]
    BY <1>11, EmptyContents DEF IInv, FileTypes
  <2> QED BY <1>1, <1>10, <1>11, <2>1 DEF IInv, FileTypes
<1>14. TempsApart'
  BY <1>10 DEF IInv, TempsApart
<1>15. FreeEmpty'
  <2> SUFFICES ASSUME NEW i \in Inodes, FreeInode(i)' PROVE data'[i] = << >>
    BY DEF FreeEmpty
  <2>1. i # dest /\ \A u \in Tokens : temp'[u] # i
    BY <1>1 DEF FreeInode
  <2>2. CASE i = f
    BY <1>12, <2>1, <2>2
  <2>3. CASE i # f
    <3>1. FreeInode(i)
      BY <1>2, <1>10, <2>1, <2>3 DEF FreeInode
    <3> QED BY <1>12, <2>3, <3>1 DEF IInv, FreeEmpty
  <2> QED BY <2>2, <2>3
<1>16. DestSafe'
  BY <1>6, <1>12 DEF IInv, DestSafe, DestComplete, FileTypes
<1>17. NoStrayTemps'
  <2> SUFFICES ASSUME NEW u \in Tokens, u \notin left', temp'[u] # NoFile
               PROVE  \E d \in Clients : cl'[d].token = u /\ cl'[d].pc # "done"
    BY DEF NoStrayTemps
  <2>1. u # t /\ u \notin left /\ temp[u] # NoFile
    BY <1>1, <1>10
  <2>2. PICK d \in Clients : cl[d].token = u /\ cl[d].pc # "done"
    BY <2>1 DEF IInv, NoStrayTemps
  <2> QED BY <1>2, <1>3, <2>1, <2>2
<1>18. ASSUME NEW d \in Clients, d # c, Busy(d)
       PROVE  /\ temp'[cl[d].token] = temp[cl[d].token]
              /\ data'[FileOf(d)] = data[FileOf(d)]
              /\ FileOf(d) \in synced => FileOf(d) \in synced'
              /\ cl[d].pc # "unlink" => FileOf(d) # dest'
  <2>1. /\ cl[d].token \in Tokens /\ cl[d].token # t
        /\ FileOf(d) \in Inodes /\ FileOf(d) # f
    BY <1>2, <1>18, FilesApart
  <2>2. cl[d].pc # "unlink" => FileOf(d) # dest
    BY <1>18 DEF IInv, ClientInv, Holding, Busy
  <2> QED BY <1>1, <1>10, <1>12, <2>1, <2>2
<1>19. \A d \in Clients : d # c /\ cl'[c].token = cl[d].token => cl[d].token = NoToken
  BY <1>4 DEF IInv, TokensApart
<1> QED BY <1>1, <1>3, <1>5, <1>7, <1>8, <1>13, <1>14, <1>15, <1>16, <1>17, <1>18, <1>19,
           ClientMoves

(* The paths of Get that end with the unlinking of the temporary file. *)
LEMMA EndSteps ==
    ASSUME IInv, NEW c \in Clients,
           \/ RecvFails(c) \/ SyncFails(c) \/ VerifyFails(c) \/ LinkFails(c) \/ Unlink(c)
           \/ StreamEnded(c) /\ Fails(c, FromGrpcStatus(call[c].reply.grpc))
    PROVE  IInv'
<1>0. cl[c] \in ClientType /\ call[c] \in CallType /\ ClientInv(c)
  BY DEF IInv, ClientTypes
<1>1. CASE RecvFails(c)
  BY <1>1, FailsStep DEF RecvFails, Busy, StatusCode
<1>2. CASE SyncFails(c)
  BY <1>2, FailsStep DEF SyncFails, Busy, StatusCode
<1>3. CASE LinkFails(c)
  BY <1>3, FailsStep DEF LinkFails, Busy, StatusCode
<1>4. CASE Unlink(c)
  BY <1>4, FailsStep DEF Unlink, Busy, StatusCode
<1>5. CASE StreamEnded(c) /\ Fails(c, FromGrpcStatus(call[c].reply.grpc))
  <2>1. cl[c].pc = "recv" /\ call[c].reply # NoReply
    BY <1>5 DEF StreamEnded
  <2>2. PICK s \in StatusCode : s = FromGrpcStatus(call[c].reply.grpc)
    BY <1>0, <2>1, GrpcTypes DEF CallType
  <2>3. s = call[c].reply.code
    BY <2>1, <2>2 DEF IInv, GetStatusArrives
  <2>4. Fresh(c) => s # "Corruption"
    BY <1>0, <2>1, <2>3 DEF ClientInv, Downloading
  <2> QED BY <1>5, <2>1, <2>2, <2>4, FailsStep DEF Busy
<1>6. CASE VerifyFails(c)
  <2>1. cl[c].pc = "verify" /\ Busy(c)
    BY <1>6 DEF VerifyFails, Busy
  <2>2. CASE Fails(c, "IoError")
    BY <2>1, <2>2, FailsStep DEF StatusCode
  <2>3. CASE ~Matches(c) /\ Fails(c, "Corruption")
    <3>1. ASSUME Fresh(c) PROVE FALSE
      <4>1. PICK e \in Contents, p \in Contents : e = data[FileOf(c)] /\ p = Object(c)
        BY <1>0, <2>1, <3>1, FreshObject DEF IInv, FileTypes, ClientInv, Holding
      <4>2. /\ Len(e) = cl[c].head.size /\ Len(p) = Len(e) /\ Blake3(p) = cl[c].head.sum
            /\ \A j \in 1..Len(e) : e[j] = p[j]
        BY <1>0, <2>1, <3>1, <4>1, FreshObject DEF ClientInv, Downloading
      <4>3. e \in Seq(Bytes) /\ p \in Seq(Bytes)
        BY ContentsAreSeqs
      <4>4. e = p
        BY <4>2, <4>3
      <4> QED BY <2>3, <4>1, <4>2, <4>4 DEF Matches
    <3> QED BY <2>1, <2>3, <3>1, FailsStep DEF StatusCode
  <2> QED BY <1>6, <2>2, <2>3 DEF VerifyFails
<1> QED BY <1>1, <1>2, <1>3, <1>4, <1>5, <1>6

(* The file is on disk, and a verified file becomes the destination. *)
LEMMA SyncLinkSteps ==
    ASSUME IInv, NEW c \in Clients, Sync(c) \/ Link(c)
    PROVE  IInv'
<1>0. cl[c] \in ClientType /\ call[c] \in CallType /\ ClientInv(c)
  BY DEF IInv, ClientTypes
<1>1. PICK to \in {"verify", "link", "unlink"} :
        /\ cl' = [cl EXCEPT ![c].pc = to]
        /\ \/ Sync(c) /\ cl[c].pc = "sync" /\ to = "verify"
           \/ Link(c) /\ cl[c].pc = "link" /\ to = "unlink"
  BY DEF Sync, Link, Goes
<1>2. UNCHANGED <<temp, data, worker, call, left>>
  BY DEF Sync, Link
<1>3. /\ cl'[c] = [cl[c] EXCEPT !.pc = to]
      /\ \A d \in Clients : d # c => cl'[d] = cl[d] /\ call'[d] = call[d]
      /\ cl' = [d \in Clients |-> cl'[d]]
  BY <1>1, <1>2 DEF IInv, ClientTypes
<1>4. /\ cl'[c] \in ClientType /\ cl'[c].pc = to /\ cl'[c].token = cl[c].token
      /\ cl'[c].head = cl[c].head /\ cl'[c].changed = cl[c].changed
      /\ FileOf(c)' = FileOf(c)
  BY <1>0, <1>2, <1>3 DEF ClientType, FileOf
<1>5. ClientTypes'
  <2>1. left' \in SUBSET Tokens
    BY <1>2 DEF IInv, ClientTypes
  <2> QED BY <1>2, <1>3, <1>4, <2>1 DEF IInv, ClientTypes
<1>6. PICK f \in Inodes : f = FileOf(c) /\ cl[c].token \in Tokens /\ Busy(c)
  BY <1>0, <1>1 DEF ClientInv, Holding, Busy
<1>7. /\ UNCHANGED <<chunks, ever, damages>>
      /\ call'[c] = NoCall /\ f # dest
  BY <1>0, <1>1, <1>2, <1>6 DEF ClientInv, Holding, worker
<1>8. /\ \A i \in Inodes : i \in synced => i \in synced'
      /\ f \in synced' /\ synced' \in SUBSET Inodes
      /\ dest' \in {dest, f} /\ (dest' # dest => dest = NoFile /\ Link(c) /\ to = "unlink")
  BY <1>0, <1>1, <1>6 DEF Sync, Link, IInv, FileTypes, ClientInv, Holding
<1>9. FileTypes' /\ TempsApart'
  BY <1>2, <1>8 DEF IInv, FileTypes, TempsApart
<1>10. FreeEmpty'
  BY <1>2, <1>8, GetAssumption DEF IInv, FreeEmpty, FreeInode
<1>11. DestSafe'
  <2>1. CASE dest' = dest
    BY <1>2, <1>7, <1>8, <2>1 DEF IInv, DestSafe, DestComplete, FileTypes
  <2>2. CASE dest' # dest
    <3>1. dest' = f /\ cl[c].pc = "link"
      BY <1>1, <1>8, <2>2
    <3>2. data[f] \in ever[cl[c].head.id] /\ cl[c].head.id \in ChunkIds
      BY <1>0, <1>6, <3>1 DEF ClientInv, Checked, ClientType, Metadata
    <3> QED BY <1>2, <1>7, <1>8, <3>1, <3>2 DEF DestSafe, DestComplete
  <2> QED BY <2>1, <2>2
<1>12. NoStrayTemps'
  <2> SUFFICES ASSUME NEW u \in Tokens, u \notin left', temp'[u] # NoFile
               PROVE  \E d \in Clients : cl'[d].token = u /\ cl'[d].pc # "done"
    BY DEF NoStrayTemps
  <2>1. PICK d \in Clients : cl[d].token = u /\ cl[d].pc # "done"
    BY <1>2 DEF IInv, NoStrayTemps
  <2>2. CASE d = c
    BY <1>4, <2>1, <2>2
  <2>3. CASE d # c
    BY <1>3, <2>1, <2>3
  <2> QED BY <2>2, <2>3
<1>13. ClientInv(c)'
  <2>1. Bounded(c)'
    BY <1>0, <1>2, <1>4 DEF ClientInv, Bounded
  <2>2. Holding(c)'
    BY <1>1, <1>4, <1>6, <1>7, <1>8 DEF Holding, Busy, NoCall
  <2>3. Checked(c)'
    BY <1>0, <1>1, <1>4, <1>7 DEF ClientInv, Checked, SumKnown
  <2>4. (Fresh(c)' <=> Fresh(c)) /\ Object(c)' = Object(c)
    BY <1>4, <1>7 DEF Fresh, Object
  <2>5. Downloading(c)'
    <3>1. CASE to = "verify"
      BY <1>0, <1>1, <1>2, <1>4, <1>7, <2>4, <3>1 DEF ClientInv, Downloading
    <3>2. CASE to = "unlink"
      BY <1>4, <3>2 DEF Downloading
    <3> QED BY <1>1, <3>1, <3>2
  <2> QED BY <2>1, <2>2, <2>3, <2>5 DEF ClientInv
<1>14. ASSUME NEW d \in Clients, d # c, Busy(d)
       PROVE  /\ temp'[cl[d].token] = temp[cl[d].token]
              /\ data'[FileOf(d)] = data[FileOf(d)]
              /\ FileOf(d) \in synced => FileOf(d) \in synced'
              /\ cl[d].pc # "unlink" => FileOf(d) # dest'
  <2>1. FileOf(d) \in Inodes /\ FileOf(d) # f
    BY <1>6, <1>14, FilesApart
  <2>2. cl[d].pc # "unlink" => FileOf(d) # dest
    BY <1>14 DEF IInv, ClientInv, Holding, Busy
  <2> QED BY <1>2, <1>8, <2>1, <2>2
<1>15. \A d \in Clients : d # c /\ cl'[c].token = cl[d].token => cl[d].token = NoToken
  BY <1>4 DEF IInv, TokensApart
<1>16. call'[c].reply = NoReply
  BY <1>7 DEF NoCall
<1> QED BY <1>2, <1>3, <1>5, <1>9, <1>10, <1>11, <1>12, <1>13, <1>14, <1>15, <1>16, ClientMoves

(* A frame is written to the file: the frames behind it continue it. *)
LEMMA RecvStep ==
    ASSUME IInv, NEW c \in Clients, Recv(c)
    PROVE  IInv'
<1>0. cl[c] \in ClientType /\ call[c] \in CallType /\ ClientInv(c)
  BY DEF IInv, ClientTypes
<1>1. /\ cl[c].pc = "recv" /\ Busy(c) /\ call[c].wire # << >>
      /\ UNCHANGED <<temp, dest, synced, worker, cl, left>>
  BY DEF Recv, Busy
<1>2. PICK f \in Inodes : f = FileOf(c) /\ cl[c].token \in Tokens /\ f # dest /\ f = temp[cl[c].token]
  BY <1>0, <1>1 DEF ClientInv, Holding, FileOf
<1>3. PICK w \in Seq(Contents), v \in Seq(Contents), e \in Contents, z \in Nat :
        /\ w = call[c].wire /\ e = Head(w) /\ v = Tail(w)
        /\ Len(w) = z + 1 /\ Len(v) = z /\ w[1] = e
        /\ \A i \in 1..z : v[i] = w[i + 1]
  <2>1. PICK w \in Seq(Contents) : w = call[c].wire
    BY <1>0 DEF CallType
  <2>2. w # << >>
    BY <1>1, <2>1
  <2>3. /\ Head(w) \in Contents /\ Tail(w) \in Seq(Contents) /\ Len(Tail(w)) = Len(w) - 1
        /\ \A i \in 1..Len(Tail(w)) : Tail(w)[i] = w[i + 1]
    BY <2>2, HeadTailProperties
  <2>4. Len(w) \in Nat /\ Len(w) # 0 /\ Head(w) = w[1]
    BY <2>2
  <2>5. PICK z \in Nat : Len(w) = z + 1
    BY <2>4
  <2>6. Len(Tail(w)) = z
    BY <2>3, <2>5
  <2> QED BY <2>1, <2>3, <2>4, <2>5, <2>6
<1>4. PICK x \in Contents : x = data[f]
  BY DEF IInv, FileTypes
<1>5. cl[c].head.size \in 0..MaxSize /\ MaxSize \in Nat /\ Len(x) \in Nat /\ Len(e) \in Nat
  BY <1>0, SizeAssumption, ContentsAreSeqs DEF ClientType, Metadata
<1>6. PICK old \in [0..(z + 1) -> 0..cl[c].head.size] : Continues(c, old)
  BY <1>0, <1>1, <1>3 DEF ClientInv, Downloading, Frames
<1>7. /\ old[0] = Len(x)
      /\ \A i \in 1..z + 1 : old[i] = old[i - 1] + Len(w[i])
      /\ call[c].pc # "none" => old[z + 1] = call[c].sent
      /\ Fresh(c) =>
           /\ \A i \in 1..z + 1 : \A j \in 1..Len(w[i]) : w[i][j] = Object(c)[old[i - 1] + j]
           /\ call[c].reply # NoReply /\ call[c].reply.code = "Ok" => old[z + 1] = cl[c].head.size
  BY <1>2, <1>3, <1>4, <1>6 DEF Continues
<1>8. old[1] = Len(x) + Len(e) /\ old[1] \in 0..cl[c].head.size
  <2>1. 1 \in 1..z + 1 /\ 1 - 1 = 0 /\ 1 \in 0..(z + 1)
    OBVIOUS
  <2>2. old[1] = old[1 - 1] + Len(w[1])
    BY <1>7, <2>1
  <2>3. old[1] \in 0..cl[c].head.size
    BY <1>6, <2>1
  <2> QED BY <1>3, <1>7, <2>1, <2>2, <2>3
<1>9. PICK y \in Contents : y = x \o e /\ Len(y) = old[1]
  <2>1. Len(x) + Len(e) <= MaxSize
    BY <1>5, <1>8
  <2> QED BY <1>8, <2>1, ConcatContents
<1>10. /\ data' = [data EXCEPT ![f] = y]
       /\ data'[f] = y /\ \A i \in Inodes : i # f => data'[i] = data[i]
  BY <1>2, <1>3, <1>4, <1>9 DEF Recv, IInv, FileTypes
<1> DEFINE k == [call[c] EXCEPT !.wire = v]
<1>11. /\ call' = [call EXCEPT ![c] = k]
       /\ call'[c] = k /\ \A d \in Clients : d # c => cl'[d] = cl[d] /\ call'[d] = call[d]
  BY <1>1, <1>3 DEF Recv, IInv, ClientTypes
<1>12. /\ k \in CallType /\ k.pc = call[c].pc /\ k.payload = call[c].payload
       /\ k.sent = call[c].sent /\ k.wire = v /\ k.reply = call[c].reply
  BY <1>0 DEF CallType
<1> HIDE DEF k
<1>13. FileTypes' /\ ClientTypes' /\ TempsApart'
  BY <1>1, <1>10, <1>11, <1>12 DEF IInv, FileTypes, ClientTypes, TempsApart
<1>14. FreeEmpty'
  <2> SUFFICES ASSUME NEW i \in Inodes, FreeInode(i)' PROVE data'[i] = << >>
    BY DEF FreeEmpty
  <2>1. FreeInode(i) /\ i # f
    BY <1>1, <1>2 DEF FreeInode
  <2> QED BY <1>10, <2>1 DEF IInv, FreeEmpty
<1>15. UNCHANGED <<chunks, ever, damages>> /\ FileOf(c)' = f
  BY <1>1, <1>2 DEF worker, FileOf
<1>16. DestSafe' /\ NoStrayTemps'
  <2>1. DestSafe'
    BY <1>1, <1>2, <1>10, <1>15 DEF IInv, DestSafe, DestComplete, FileTypes
  <2>2. NoStrayTemps'
    BY <1>1 DEF IInv, NoStrayTemps
  <2> QED BY <2>1, <2>2
<1>17. (Fresh(c)' <=> Fresh(c)) /\ Object(c)' = Object(c)
  BY <1>1, <1>15 DEF Fresh, Object
<1>18. PICK cut : cut = [i \in 0..z |-> old[i + 1]]
  OBVIOUS
<1>19. cut \in [0..z -> 0..cl[c].head.size] /\ \A i \in 0..z : cut[i] = old[i + 1]
  BY <1>6, <1>18
<1>20. Continues(c, cut)'
  <2>1. /\ call'[c].wire = v /\ Len(v) = z /\ call'[c].pc = call[c].pc
        /\ call'[c].sent = call[c].sent /\ call'[c].reply = call[c].reply /\ cl' = cl
        /\ data'[FileOf(c)'] = y
    BY <1>1, <1>3, <1>10, <1>11, <1>12, <1>15
  <2>2. cut[0] = Len(y) /\ cut[z] = old[z + 1]
    BY <1>9, <1>19
  <2>3. ASSUME NEW i \in 1..z
        PROVE  /\ i + 1 \in 1..z + 1 /\ v[i] = w[i + 1]
               /\ cut[i] = old[i + 1] /\ cut[i - 1] = old[(i + 1) - 1]
    <3>1. i \in 0..z /\ i - 1 \in 0..z /\ (i - 1) + 1 = (i + 1) - 1 /\ i + 1 \in 1..z + 1
      OBVIOUS
    <3> QED BY <1>3, <1>19, <3>1
  <2>4. \A i \in 1..z : cut[i] = cut[i - 1] + Len(v[i])
    BY <1>7, <2>3
  <2>5. ASSUME Fresh(c), NEW i \in 1..z, NEW j \in 1..Len(v[i])
        PROVE  v[i][j] = Object(c)[cut[i - 1] + j]
    <3>1. PICK h \in 1..z + 1 : h = i + 1 /\ v[i] = w[h] /\ cut[i - 1] = old[h - 1]
      BY <2>3
    <3>2. w[h][j] = Object(c)[old[h - 1] + j]
      BY <1>7, <2>5, <3>1
    <3> QED BY <3>1, <3>2
  <2> QED BY <1>7, <1>17, <2>1, <2>2, <2>4, <2>5 DEF Continues
<1>21. Bounded(c)' /\ Holding(c)' /\ Checked(c)'
  <2>1. Len(call[c].wire) <= MaxWire /\ Len(call[c].wire) = z + 1 /\ Len(k.wire) = z
    BY <1>0, <1>3, <1>12 DEF ClientInv, Bounded
  <2>2. Len(k.wire) <= MaxWire
    BY <2>1, GetAssumption
  <2>3. Bounded(c)'
    BY <1>0, <1>1, <1>11, <1>12, <2>2 DEF ClientInv, Bounded
  <2>4. Holding(c)'
    BY <1>0, <1>1, <1>2, <1>11, <1>12, <1>15 DEF ClientInv, Holding, Busy
  <2>5. Checked(c)'
    BY <1>0, <1>1, <1>15 DEF ClientInv, Checked, SumKnown
  <2> QED BY <2>3, <2>4, <2>5
<1>22. Fresh(c) => \A j \in 1..Len(y) : y[j] = Object(c)[j]
  <2> SUFFICES ASSUME Fresh(c) PROVE \A j \in 1..Len(y) : y[j] = Object(c)[j]
    OBVIOUS
  <2>1. PICK p \in Contents : p = Object(c) /\ Len(p) = cl[c].head.size
    BY <1>1, FreshObject
  <2>2. \A j \in 1..Len(x) : x[j] = p[0 + j] /\ 0 + j <= Len(p)
    <3>1. \A j \in 1..Len(x) : x[j] = p[j]
      BY <1>0, <1>1, <1>2, <1>4, <2>1 DEF ClientInv, Downloading
    <3> QED BY <1>5, <1>8, <2>1, <3>1
  <2>3. \A j \in 1..Len(e) : e[j] = p[(0 + Len(x)) + j]
    <3>1. 1 \in 1..z + 1 /\ 1 - 1 = 0 /\ 0 + Len(x) = Len(x)
      BY <1>5
    <3>2. \A j \in 1..Len(w[1]) : w[1][j] = Object(c)[old[1 - 1] + j]
      BY <1>7, <3>1
    <3>3. old[1 - 1] = 0 + Len(x)
      BY <1>7, <3>1
    <3>4. \A j \in 1..Len(e) : e[j] = p[old[1 - 1] + j]
      BY <1>3, <2>1, <3>2
    <3> QED BY <3>3, <3>4
  <2>4. Len(p) \in Nat /\ (0 + Len(x)) + Len(e) <= Len(p)
    BY <1>5, <1>8, <2>1
  <2>5. \A j \in 1..Len(x \o e) : (x \o e)[j] = p[0 + j]
    BY <2>2, <2>3, <2>4, ExtendRange
  <2>6. ASSUME NEW j \in 1..Len(y) PROVE y[j] = p[j]
    <3>1. 0 + j = j
      BY <1>8, <1>9
    <3> QED BY <1>9, <2>5, <3>1
  <2> QED BY <2>1, <2>6
<1>23. Downloading(c)'
  <2>1. Frames(c)'
    BY <1>1, <1>3, <1>11, <1>12, <1>19, <1>20 DEF Frames
  <2>2. data'[FileOf(c)'] = y
    BY <1>10, <1>15
  <2>3. Fresh(c) => /\ chunks[cl[c].head.id] # NoContent
                    /\ chunks[cl[c].head.id].hdr.size = cl[c].head.size
                    /\ chunks[cl[c].head.id].hdr.sum = cl[c].head.sum
                    /\ call[c].pc = "read" => call[c].payload = Object(c)
                    /\ call[c].reply # NoReply => call[c].reply.code # "Corruption"
    BY <1>0, <1>1 DEF ClientInv, Downloading
  <2> QED BY <1>1, <1>11, <1>12, <1>15, <1>17, <1>22, <2>1, <2>2, <2>3 DEF Downloading
<1>24. ASSUME NEW d \in Clients, d # c, Busy(d)
       PROVE  /\ temp'[cl[d].token] = temp[cl[d].token]
              /\ data'[FileOf(d)] = data[FileOf(d)]
              /\ FileOf(d) \in synced => FileOf(d) \in synced'
              /\ cl[d].pc # "unlink" => FileOf(d) # dest'
  <2>1. FileOf(d) \in Inodes /\ FileOf(d) # f
    BY <1>1, <1>2, <1>24, FilesApart
  <2>2. cl[d].pc # "unlink" => FileOf(d) # dest
    BY <1>24 DEF IInv, ClientInv, Holding, Busy
  <2> QED BY <1>1, <1>10, <2>1, <2>2
<1>25. \A d \in Clients : d # c /\ cl'[c].token = cl[d].token => cl[d].token = NoToken
  BY <1>1 DEF IInv, TokensApart
<1>26. call'[c].reply # NoReply => FromGrpcStatus(call'[c].reply.grpc) = call'[c].reply.code
  BY <1>11, <1>12 DEF IInv, GetStatusArrives
<1>27. ClientInv(c)'
  BY <1>21, <1>23 DEF ClientInv
<1> QED BY <1>1, <1>11, <1>13, <1>14, <1>16, <1>24, <1>25, <1>26, <1>27, ClientMoves

-----------------------------------------------------------------------------
(***************************************************************************)
(* The steps of the rest of the system.                                    *)
(***************************************************************************)

(* A known checksum stays known. *)
LEMMA SumStaysKnown ==
    ASSUME NEW s, NEW id \in ChunkIds, ever[id] \subseteq ever'[id], SumKnown(s, id)
    PROVE  (\E d \in ever'[id] : s = Blake3(d)) \/ (\A d \in Contents : s # Blake3(d))
BY DEF SumKnown

(* A client and the rest of the system: what it knows about its object is  *)
(* lost with that object's freshness, and only then.                       *)
LEMMA Touched ==
    ASSUME NEW d \in Clients, cl[d] \in ClientType, ClientInv(d),
           UNCHANGED <<temp, dest, data, synced>>,
           cl'[d].pc = cl[d].pc, cl'[d].token = cl[d].token, cl'[d].head = cl[d].head,
           cl'[d].code = cl[d].code,
           call'[d].pc = call[d].pc, call'[d].sent = call[d].sent,
           call'[d].wire = call[d].wire, call'[d].reply = call[d].reply,
           cl[d].pc # "recv" => call'[d] = NoCall,
           \A id \in ChunkIds : ever[id] \subseteq ever'[id],
           Fresh(d)' => /\ Fresh(d) /\ chunks'[cl[d].head.id] = chunks[cl[d].head.id]
                        /\ call'[d].payload = call[d].payload
    PROVE  ClientInv(d)'
<1>1. FileOf(d)' = FileOf(d)
  BY DEF FileOf
<1>2. Bounded(d)'
  BY DEF ClientInv, Bounded
<1>3. Holding(d)'
  BY <1>1 DEF ClientInv, Holding, Busy
<1>4. Checked(d)'
  <2>1. PICK id \in ChunkIds : id = cl[d].head.id
    BY DEF ClientType, Metadata
  <2>2. cl[d].pc \in {"temp", "recv", "sync", "verify"} => SumKnown(cl[d].head.sum, id)'
    BY <2>1, SumStaysKnown DEF ClientInv, Checked, SumKnown
  <2>3. cl[d].pc = "link" => data[FileOf(d)] \in ever'[id]
    BY <2>1 DEF ClientInv, Checked
  <2> QED BY <1>1, <2>1, <2>2, <2>3 DEF Checked, SumKnown
<1>5. cl[d].pc = "recv" => Frames(d)'
  <2> SUFFICES ASSUME cl[d].pc = "recv" PROVE Frames(d)'
    OBVIOUS
  <2>1. PICK cut \in [0..Len(call[d].wire) -> 0..cl[d].head.size] : Continues(d, cut)
    BY DEF ClientInv, Downloading, Frames
  <2>2. Fresh(d)' => Fresh(d) /\ Object(d)' = Object(d)
    BY DEF Object
  <2>3. Continues(d, cut)'
    BY <1>1, <2>1, <2>2 DEF Continues
  <2> QED BY <2>1, <2>3 DEF Frames
<1>6. Downloading(d)'
  BY <1>1, <1>5 DEF ClientInv, Downloading, Object
<1> QED BY <1>2, <1>3, <1>4, <1>6 DEF ClientInv

(* What holds of the files when they are left alone. *)
LEMMA QuietFiles ==
    ASSUME IInv, UNCHANGED <<files, left>>,
           \A id \in ChunkIds : ever[id] \subseteq ever'[id],
           \A d \in Clients : cl'[d].token = cl[d].token /\ cl'[d].pc = cl[d].pc
    PROVE  /\ FileTypes' /\ TokensApart' /\ TempsApart' /\ FreeEmpty' /\ DestSafe'
           /\ NoStrayTemps'
<1>1. UNCHANGED <<temp, dest, data, synced, left>>
  BY DEF files
<1>2. FileTypes' /\ TempsApart' /\ FreeEmpty'
  BY <1>1 DEF IInv, FileTypes, TempsApart, FreeEmpty, FreeInode
<1>3. DestSafe'
  BY <1>1 DEF IInv, DestSafe, DestComplete
<1>4. TokensApart'
  BY DEF IInv, TokensApart
<1>5. NoStrayTemps'
  BY <1>1 DEF IInv, NoStrayTemps
<1> QED BY <1>2, <1>3, <1>4, <1>5

(* An object is stored or deleted. *)
LEMMA ChangeStep ==
    ASSUME IInv, NEW id \in ChunkIds, NEW f \in ChunkFile \cup {NoContent},
           ChangeChunk(id, f), ever' \in [ChunkIds -> SUBSET Contents],
           \A j \in ChunkIds : ever[j] \subseteq ever'[j],
           f # NoContent => Intact(f) /\ \E d \in ever'[id] : f.hdr.sum = Blake3(d)
    PROVE  IInv'
<1>1. /\ chunks' = [chunks EXCEPT ![id] = f]
      /\ cl' = [c \in Clients |-> [cl[c] EXCEPT
                  !.changed = @ \/ (cl[c].head.id = id /\ cl[c].pc \notin {"idle", "head", "done"})]]
      /\ UNCHANGED <<configured, damages, files, call, left>>
  BY DEF ChangeChunk
<1>2. ASSUME NEW c \in Clients
      PROVE  /\ cl'[c] \in ClientType
             /\ cl'[c].pc = cl[c].pc /\ cl'[c].token = cl[c].token /\ cl'[c].head = cl[c].head
             /\ cl'[c].code = cl[c].code
             /\ cl'[c].changed <=> (cl[c].changed \/ (cl[c].head.id = id /\ cl[c].pc \notin {"idle", "head", "done"}))
  <2>1. cl[c] \in ClientType
    BY DEF IInv, ClientTypes
  <2>2. PICK b \in BOOLEAN : b <=> (cl[c].changed \/ (cl[c].head.id = id /\ cl[c].pc \notin {"idle", "head", "done"}))
    OBVIOUS
  <2>3. cl'[c] = [cl[c] EXCEPT !.changed = (cl[c].changed \/ (cl[c].head.id = id /\ cl[c].pc \notin {"idle", "head", "done"}))]
    BY <1>1
  <2>4. cl'[c] = [cl[c] EXCEPT !.changed = b]
    <3>1. b = (cl[c].changed \/ (cl[c].head.id = id /\ cl[c].pc \notin {"idle", "head", "done"}))
      BY <2>2
    <3> QED BY <2>3, <3>1
  <2>5. /\ cl'[c] \in ClientType /\ cl'[c].changed = b
        /\ cl'[c].pc = cl[c].pc /\ cl'[c].token = cl[c].token /\ cl'[c].head = cl[c].head
        /\ cl'[c].code = cl[c].code
    BY <2>1, <2>4 DEF ClientType
  <2> QED BY <2>2, <2>5
<1>3. ClientTypes'
  <2>1. left' \in SUBSET Tokens
    BY <1>1 DEF IInv, ClientTypes
  <2>2. cl' = [c \in Clients |-> cl'[c]]
    BY <1>1
  <2> QED BY <1>1, <1>2, <2>1, <2>2 DEF IInv, ClientTypes
<1>4. WorkerTypes'
  <2>1. configured' \in BOOLEAN
    BY <1>1 DEF IInv, WorkerTypes
  <2> QED BY <1>1, <2>1 DEF IInv, WorkerTypes
<1>5. ChunksKnown'
  <2> SUFFICES ASSUME NEW j \in ChunkIds, chunks'[j] # NoContent
               PROVE  /\ chunks'[j].hdr # NoHeader =>
                           \/ \E d \in ever'[j] : chunks'[j].hdr.sum = Blake3(d)
                           \/ \A d \in Contents : chunks'[j].hdr.sum # Blake3(d)
                      /\ damages' = 0 => Intact(chunks[j])'
    BY DEF ChunksKnown, SumKnown
  <2>1. CASE j = id
    <3>1. chunks'[j] = f
      BY <1>1, <2>1 DEF IInv, WorkerTypes
    <3> QED BY <2>1, <3>1 DEF Intact
  <2>2. CASE j # id
    <3>1. chunks'[j] = chunks[j] /\ damages' = damages
      BY <1>1, <2>2 DEF IInv, WorkerTypes
    <3>2. chunks[j].hdr # NoHeader => SumKnown(chunks[j].hdr.sum, j)
      BY <3>1 DEF IInv, ChunksKnown
    <3>3. chunks[j].hdr # NoHeader =>
            \/ \E d \in ever'[j] : chunks[j].hdr.sum = Blake3(d)
            \/ \A d \in Contents : chunks[j].hdr.sum # Blake3(d)
      BY <3>2, SumStaysKnown
    <3>4. damages' = 0 => Intact(chunks[j])
      BY <3>1 DEF IInv, ChunksKnown
    <3> QED BY <3>1, <3>3, <3>4 DEF Intact
  <2> QED BY <2>1, <2>2
<1>6. ASSUME NEW c \in Clients PROVE ClientInv(c)'
  <2>0. cl[c] \in ClientType /\ ClientInv(c) /\ UNCHANGED <<temp, dest, data, synced>>
    BY <1>1 DEF IInv, ClientTypes, files
  <2>1. CASE cl[c].pc \in {"idle", "head", "done"}
    <3>1. Bounded(c)' /\ Holding(c)'
      BY <1>1, <1>2, <2>0, <2>1 DEF ClientInv, Bounded, Holding, Busy
    <3>2. Fresh(c)' <=> Fresh(c)
      BY <1>1, <1>2, <2>1 DEF Fresh
    <3>3. Checked(c)' /\ Downloading(c)'
      BY <1>2, <2>0, <2>1, <3>2 DEF ClientInv, Checked, Downloading
    <3> QED BY <3>1, <3>3 DEF ClientInv
  <2>2. CASE cl[c].pc \notin {"idle", "head", "done"}
    <3>1. Fresh(c)' => Fresh(c) /\ chunks'[cl[c].head.id] = chunks[cl[c].head.id]
      <4>1. cl[c].head.id \in ChunkIds
        BY <2>0 DEF ClientType, Metadata
      <4>2. Fresh(c)' => Fresh(c) /\ cl[c].head.id # id
        BY <1>1, <1>2, <2>2 DEF Fresh
      <4> QED BY <1>1, <4>1, <4>2 DEF IInv, WorkerTypes
    <3>2. call'[c] = call[c] /\ (cl[c].pc # "recv" => call'[c] = NoCall)
      BY <1>1, <2>0 DEF ClientInv, Holding
    <3> QED BY <1>2, <2>0, <3>1, <3>2, Touched
  <2> QED BY <2>1, <2>2
<1>7. GetStatusArrives'
  BY <1>1 DEF IInv, GetStatusArrives
<1>8. \A d \in Clients : cl'[d].token = cl[d].token /\ cl'[d].pc = cl[d].pc
  BY <1>2
<1> QED BY <1>1, <1>3, <1>4, <1>5, <1>6, <1>7, <1>8, QuietFiles DEF IInv

(* Store and Remove. *)
LEMMA StoreRemoveSteps ==
    ASSUME IInv, NEW id \in ChunkIds,
           Remove(id) \/ \E d \in Payloads : Store(id, d)
    PROVE  IInv'
<1>1. CASE Remove(id)
  BY <1>1, ChangeStep DEF Remove, IInv, WorkerTypes
<1>2. CASE \E d \in Payloads : Store(id, d)
  <2>1. PICK d \in Payloads : Store(id, d)
    BY <1>2
  <2>2. d \in Contents /\ Len(d) \in Nat /\ Len(d) <= MaxSize
    BY GetAssumption, ContentsAreSeqs
  <2> DEFINE f == [hdr |-> MakeHeader(Len(d), Blake3(d)), data |-> d]
  <2>3. Blake3(d) \in Digests /\ Blake3(d) \in Checksums /\ Len(d) \in UInt64
    BY <2>2, DigestAssumption, SizeAssumption DEF UInt64
  <2>4. f \in ChunkFile
    BY <2>2, <2>3 DEF ChunkFile, Headers, MakeHeader
  <2>5. Intact(f) /\ f.hdr.sum = Blake3(d)
    <3>1. f.hdr.magic /\ f.hdr.sum = Blake3(d) /\ f.hdr.size = Len(d) /\ f.data = d
      BY DEF MakeHeader
    <3> HIDE DEF f
    <3>2. f.hdr.size <= Minus(Word - 1, kHeaderSize) /\ FileLength(f) = Plus(f.hdr.size, kHeaderSize)
      BY <2>2, <3>1, SizeAssumption DEF Minus, Plus, FileLength
    <3>3. ReadHeader(f) = "Ok"
      BY <2>3, <3>1, <3>2 DEF ReadHeader, ValidateChecksum
    <3> QED BY <3>1, <3>3 DEF Intact
  <2>6. ever' = [ever EXCEPT ![id] = @ \cup {d}] /\ ChangeChunk(id, f)
    BY <2>1 DEF Store
  <2>7. /\ ever' \in [ChunkIds -> SUBSET Contents] /\ d \in ever'[id]
        /\ \A j \in ChunkIds : ever[j] \subseteq ever'[j]
    BY <2>2, <2>6 DEF IInv, WorkerTypes
  <2> HIDE DEF f
  <2> QED BY <2>4, <2>5, <2>6, <2>7, ChangeStep
<1> QED BY <1>1, <1>2

(* Damage: no object counts as untouched any more, and a checksum that is  *)
(* hit is that of nothing.                                                 *)
LEMMA DamageStep ==
    ASSUME IInv, Damage
    PROVE  IInv'
<1>1. /\ damages < MaxDamage /\ damages' = damages + 1
      /\ UNCHANGED <<configured, ever, files, cl, left>>
  BY DEF Damage
<1>2. damages \in Nat /\ damages' \in 0..MaxDamage /\ damages' # 0 /\ damages' > 0
  BY <1>1, GetAssumption DEF IInv, WorkerTypes
<1>3. \A c \in Clients : ~Fresh(c)'
  BY <1>2 DEF Fresh
<1>4. UNCHANGED <<temp, dest, data, synced>>
  BY <1>1 DEF files
<1>5. /\ FileTypes' /\ TokensApart' /\ TempsApart' /\ FreeEmpty' /\ DestSafe' /\ NoStrayTemps'
  BY <1>1, QuietFiles
<1>6. CASE /\ \E id \in ChunkIds : /\ chunks[id] # NoContent
                                   /\ \E f \in RottenFiles(chunks[id]) :
                                        chunks' = [chunks EXCEPT ![id] = f]
           /\ UNCHANGED call
  <2>1. PICK id \in ChunkIds : /\ chunks[id] # NoContent
                               /\ \E f \in RottenFiles(chunks[id]) :
                                    chunks' = [chunks EXCEPT ![id] = f]
    BY <1>6
  <2>2. PICK f \in RottenFiles(chunks[id]) : chunks' = [chunks EXCEPT ![id] = f]
    BY <2>1
  <2>3. PICK g \in ChunkFile : g = chunks[id]
    BY <2>1 DEF IInv, WorkerTypes
  <2>4. g.hdr # NoHeader => SumKnown(g.hdr.sum, id)
    BY <2>1, <2>3 DEF IInv, ChunksKnown
  <2>5. f \in ChunkFile /\ (f.hdr # NoHeader => SumKnown(f.hdr.sum, id))
    <3>1. CASE f = [g EXCEPT !.hdr = NoHeader]
      BY <3>1 DEF ChunkFile, Headers
    <3>2. CASE \E e \in Rotten(g.data) : f = [g EXCEPT !.data = e]
      BY <2>4, <3>2 DEF ChunkFile, Rotten
    <3>3. CASE \E s \in Checksums \ {Blake3(d) : d \in Contents} :
                 f = [g EXCEPT !.hdr = MakeHeader(Len(g.data), s)]
      <4>1. PICK s \in Checksums \ {Blake3(d) : d \in Contents} :
                 f = [g EXCEPT !.hdr = MakeHeader(Len(g.data), s)]
        BY <3>3
      <4>2. g.data \in Contents /\ Len(g.data) \in Nat /\ Len(g.data) <= MaxSize
        BY ContentsAreSeqs DEF ChunkFile
      <4>3. Len(g.data) \in UInt64
        BY <4>2, SizeAssumption DEF UInt64
      <4>4. f \in ChunkFile /\ f.hdr.sum = s
        BY <4>1, <4>2, <4>3 DEF ChunkFile, Headers, MakeHeader
      <4> QED BY <4>4 DEF SumKnown
    <3> QED BY <2>3, <3>1, <3>2, <3>3 DEF RottenFiles
  <2>6. WorkerTypes'
    <3>1. configured' \in BOOLEAN
      BY <1>1 DEF IInv, WorkerTypes
    <3> QED BY <1>1, <1>2, <2>2, <2>5, <3>1 DEF IInv, WorkerTypes
  <2>7. ChunksKnown'
    BY <1>1, <1>2, <2>2, <2>5 DEF IInv, WorkerTypes, ChunksKnown, SumKnown
  <2>8. ClientTypes' /\ GetStatusArrives'
    <3>1. left' \in SUBSET Tokens
      BY <1>1 DEF IInv, ClientTypes
    <3> QED BY <1>1, <1>6, <3>1 DEF IInv, ClientTypes, GetStatusArrives
  <2>9. ASSUME NEW c \in Clients PROVE ClientInv(c)'
    <3>1. cl[c] \in ClientType /\ ClientInv(c) /\ (cl[c].pc # "recv" => call[c] = NoCall)
      BY DEF IInv, ClientTypes, ClientInv, Holding
    <3> QED BY <1>1, <1>3, <1>4, <1>6, <3>1, Touched
  <2> QED BY <1>5, <2>6, <2>7, <2>8, <2>9 DEF IInv
<1>7. CASE /\ \E c \in Clients : \E e \in Rotten(call[c].payload) :
                call' = [call EXCEPT ![c].payload = e]
           /\ UNCHANGED chunks
  <2>1. PICK c \in Clients : \E e \in Rotten(call[c].payload) :
                call' = [call EXCEPT ![c].payload = e]
    BY <1>7
  <2>2. PICK e \in Rotten(call[c].payload) : call' = [call EXCEPT ![c].payload = e]
    BY <2>1
  <2>3. e \in Contents /\ e # call[c].payload /\ Len(e) = Len(call[c].payload)
    BY DEF Rotten
  <2>4. call[c] # NoCall
    <3>1. e \in Seq(Bytes)
      BY <2>3, ContentsAreSeqs
    <3> QED BY <2>3, <3>1, EmptyContents DEF NoCall
  <2>5. call[c] \in CallType
    BY DEF IInv, ClientTypes
  <2>6. /\ call'[c] = [call[c] EXCEPT !.payload = e]
        /\ \A d \in Clients : d # c => call'[d] = call[d]
        /\ call' = [d \in Clients |-> call'[d]]
    BY <2>2 DEF IInv, ClientTypes
  <2>7. /\ call'[c] \in CallType /\ call'[c].pc = call[c].pc /\ call'[c].sent = call[c].sent
        /\ call'[c].wire = call[c].wire /\ call'[c].reply = call[c].reply
    BY <2>3, <2>5, <2>6 DEF CallType
  <2>8. WorkerTypes' /\ ChunksKnown'
    <3>1. configured' \in BOOLEAN
      BY <1>1 DEF IInv, WorkerTypes
    <3>2. WorkerTypes'
      BY <1>1, <1>2, <1>7, <3>1 DEF IInv, WorkerTypes
    <3>3. ChunksKnown'
      BY <1>1, <1>2, <1>7 DEF IInv, ChunksKnown, SumKnown
    <3> QED BY <3>2, <3>3
  <2>9. ClientTypes' /\ GetStatusArrives'
    <3>1. left' \in SUBSET Tokens
      BY <1>1 DEF IInv, ClientTypes
    <3>2. ClientTypes'
      BY <1>1, <2>6, <2>7, <3>1 DEF IInv, ClientTypes
    <3>3. \A d \in Clients : call'[d].reply = call[d].reply
      BY <2>6, <2>7
    <3>4. GetStatusArrives'
      BY <3>3 DEF IInv, GetStatusArrives
    <3> QED BY <3>2, <3>4
  <2>10. ASSUME NEW d \in Clients PROVE ClientInv(d)'
    <3>1. cl[d] \in ClientType /\ ClientInv(d) /\ (cl[d].pc # "recv" => call[d] = NoCall)
      BY DEF IInv, ClientTypes, ClientInv, Holding
    <3>2. /\ call'[d].pc = call[d].pc /\ call'[d].sent = call[d].sent
          /\ call'[d].wire = call[d].wire /\ call'[d].reply = call[d].reply
          /\ cl[d].pc # "recv" => call'[d] = NoCall
      BY <2>4, <2>6, <2>7, <3>1
    <3> QED BY <1>1, <1>3, <1>4, <3>1, <3>2, Touched
  <2> QED BY <1>5, <2>8, <2>9, <2>10 DEF IInv
<1> QED BY <1>6, <1>7 DEF Damage

(* The user removes the destination: a file that still has a temporary     *)
(* name keeps its data.                                                    *)
LEMMA RemoveDestStep ==
    ASSUME IInv, RemoveDest
    PROVE  IInv'
<1>1. /\ dest' = NoFile /\ UNCHANGED <<temp, worker, cl, call, left>>
      /\ data' = [i \in Inodes |-> IF i \in {dest} \ {temp[t] : t \in Tokens}
                                   THEN << >> ELSE data[i]]
      /\ synced' = synced \ ({dest} \ {temp[t] : t \in Tokens})
  BY DEF RemoveDest, Wipe
<1>2. UNCHANGED <<chunks, configured, ever, damages>>
  BY <1>1 DEF worker
<1>3. WorkerTypes' /\ ChunksKnown' /\ TokensApart' /\ TempsApart' /\ GetStatusArrives'
  BY <1>1, <1>2 DEF IInv, WorkerTypes, ChunksKnown, SumKnown, TokensApart, TempsApart,
                    GetStatusArrives
<1>4. ClientTypes' /\ NoStrayTemps'
  BY <1>1 DEF IInv, ClientTypes, NoStrayTemps
<1>5. FileTypes'
  <2>1. data' \in [Inodes -> Contents]
    BY <1>1, EmptyContents DEF IInv, FileTypes
  <2> QED BY <1>1, <2>1 DEF IInv, FileTypes
<1>6. FreeEmpty'
  <2> SUFFICES ASSUME NEW i \in Inodes, FreeInode(i)' PROVE data'[i] = << >>
    BY DEF FreeEmpty
  <2>1. \A t \in Tokens : temp[t] # i
    BY <1>1 DEF FreeInode
  <2>2. CASE i = dest
    BY <1>1, <2>1, <2>2
  <2>3. CASE i # dest
    BY <1>1, <2>1, <2>3 DEF IInv, FreeEmpty, FreeInode
  <2> QED BY <2>2, <2>3
<1>7. DestSafe'
  BY <1>1 DEF DestSafe, DestComplete
<1>8. ASSUME NEW d \in Clients PROVE ClientInv(d)'
  <2>1. ClientInv(d)
    BY DEF IInv
  <2>2. Busy(d) => /\ cl[d].token \in Tokens /\ FileOf(d) \in Inodes
                   /\ FileOf(d) \in {temp[t] : t \in Tokens}
    BY <2>1 DEF ClientInv, Holding, FileOf
  <2>3. Busy(d) => /\ data'[FileOf(d)] = data[FileOf(d)]
                   /\ FileOf(d) \in synced => FileOf(d) \in synced'
                   /\ FileOf(d) # dest'
    BY <1>1, <2>2, GetAssumption
  <2> QED BY <1>1, <1>2, <2>1, <2>3, OtherClient DEF Busy
<1> QED BY <1>3, <1>4, <1>5, <1>6, <1>7, <1>8 DEF IInv

(* The client's machine loses power: the destination was synced. *)
LEMMA PowerLossStep ==
    ASSUME IInv, PowerLoss
    PROVE  IInv'
<1>1. PICK lost \in SUBSET Tokens :
        temp' = [t \in Tokens |-> IF t \in lost THEN NoFile ELSE temp[t]]
  BY DEF PowerLoss
<1> DEFINE kept == {dest'} \cup {temp'[t] : t \in Tokens}
<1>2. /\ left' = {t \in Tokens : temp'[t] # NoFile} /\ dest' \in {dest, NoFile} /\ UNCHANGED worker
      /\ cl' = [c \in Clients |-> Idle] /\ call' = [c \in Clients |-> NoCall]
      /\ synced' = synced \cap kept
  BY DEF PowerLoss, Forget
<1>3. /\ data' = [i \in Inodes |-> data'[i]]
      /\ \A i \in Inodes : IF i \notin kept THEN data'[i] = << >>
                           ELSE IF i \in synced THEN data'[i] = data[i]
                           ELSE data'[i] \in Prefixes(data[i])
  BY DEF PowerLoss
<1>4. UNCHANGED <<chunks, configured, ever, damages>>
  BY <1>2 DEF worker
<1>5. WorkerTypes' /\ ChunksKnown'
  BY <1>4 DEF IInv, WorkerTypes, ChunksKnown, SumKnown
<1>6. ClientTypes'
  BY <1>2, RestTypes DEF ClientTypes
<1>7. FileTypes'
  <2>1. ASSUME NEW i \in Inodes PROVE data'[i] \in Contents
    <3>1. PICK x \in Contents : x = data[i]
      BY DEF IInv, FileTypes
    <3>2. CASE data'[i] \in Prefixes(x)
      <4>1. PICK n \in 0..Len(x) : data'[i] = SubSeq(x, 1, n)
        BY <3>2 DEF Prefixes
      <4>2. Len(x) \in Nat
        BY ContentsAreSeqs
      <4>3. n \in Nat /\ 0 + n <= Len(x) /\ 0 + 1 = 1 /\ 0 + n = n
        BY <4>1, <4>2
      <4>4. SubSeq(x, 0 + 1, 0 + n) \in Contents
        BY <4>3, SliceContents
      <4> QED BY <4>1, <4>3, <4>4
    <3> QED BY <1>3, <3>1, <3>2, EmptyContents
  <2>2. data' \in [Inodes -> Contents]
    BY <1>3, <2>1
  <2>3. temp' \in [Tokens -> Inodes \cup {NoFile}]
    BY <1>1 DEF IInv, FileTypes
  <2> QED BY <1>2, <2>2, <2>3 DEF IInv, FileTypes
<1>8. TempsApart'
  BY <1>1 DEF IInv, TempsApart, FileTypes
<1>9. FreeEmpty'
  BY <1>3 DEF FreeEmpty, FreeInode
<1>10. DestSafe'
  <2>1. dest' # NoFile => /\ dest' = dest /\ dest \in Inodes /\ dest \in synced
                          /\ \E id \in ChunkIds : data[dest] \in ever[id]
    BY <1>2 DEF IInv, DestSafe, DestComplete, FileTypes
  <2>2. dest' # NoFile => dest \in kept /\ data'[dest] = data[dest] /\ dest \in synced'
    BY <1>2, <1>3, <2>1
  <2> QED BY <1>4, <2>1, <2>2 DEF DestSafe, DestComplete
<1>11. TokensApart' /\ NoStrayTemps' /\ GetStatusArrives'
  BY <1>2 DEF TokensApart, NoStrayTemps, GetStatusArrives, Idle, NoCall
<1>12. ASSUME NEW c \in Clients PROVE ClientInv(c)'
  <2>1. cl'[c] = Idle /\ call'[c] = NoCall /\ Idle.pc = "idle" /\ Idle.head.size = 0
        /\ Idle.token = NoToken
    BY <1>2 DEF Idle
  <2>2. Bounded(c)'
    BY <2>1, GetAssumption DEF Bounded, NoCall
  <2>3. Holding(c)' /\ Checked(c)' /\ Downloading(c)'
    BY <2>1 DEF Holding, Checked, Downloading, Busy, NoCall
  <2> QED BY <2>2, <2>3 DEF ClientInv
<1> QED BY <1>5, <1>6, <1>7, <1>8, <1>9, <1>10, <1>11, <1>12 DEF IInv

-----------------------------------------------------------------------------
(***************************************************************************)
(* Every step keeps the invariant.                                         *)
(***************************************************************************)

LEMMA NextInv == ASSUME IInv, [Next]_vars PROVE IInv'
<1>1. CASE UNCHANGED vars
  <2>1. UNCHANGED <<worker, files, cl, call, left, chunks, configured, ever, damages,
                    temp, dest, data, synced>>
    BY <1>1 DEF vars, worker, files
  <2>2. WorkerTypes' /\ FileTypes' /\ ClientTypes' /\ TokensApart' /\ TempsApart'
    BY <2>1 DEF IInv, WorkerTypes, FileTypes, ClientTypes, TokensApart, TempsApart
  <2>3. FreeEmpty' /\ DestSafe' /\ ChunksKnown' /\ NoStrayTemps' /\ GetStatusArrives'
    BY <2>1 DEF IInv, FreeEmpty, FreeInode, DestSafe, DestComplete, ChunksKnown, SumKnown,
                NoStrayTemps, GetStatusArrives
  <2>4. ASSUME NEW d \in Clients PROVE ClientInv(d)'
    <3>1. ClientInv(d) /\ (cl[d].pc \in {"recv", "sync", "verify", "link"} => FileOf(d) # dest')
      BY <2>1 DEF IInv, ClientInv, Holding
    <3> QED BY <2>1, <3>1, OtherClient
  <2> QED BY <2>2, <2>3, <2>4 DEF IInv
<1>2. CASE \E id \in ChunkIds : Remove(id) \/ \E d \in Payloads : Store(id, d)
  BY <1>2, StoreRemoveSteps
<1>3. CASE Damage \/ RemoveDest \/ PowerLoss
  BY <1>3, DamageStep, RemoveDestStep, PowerLossStep
<1>4. CASE \E c \in Clients, id \in ChunkIds : GetStart(c, id) \/ GetRefused(c, id)
  BY <1>4, HeadSteps, EarlyEnds
<1>5. ASSUME NEW c \in Clients, ClientStep(c) PROVE IInv'
  <2>1. CASE HeadOk(c)
    BY <2>1, HeadSteps
  <2>2. CASE HeadFails(c) \/ GetCreateFails(c)
    BY <2>2, EarlyEnds
  <2>3. CASE \E t \in Tokens, i \in Inodes : GetCreate(c, t, i)
    BY <2>3, CreateStep
  <2>4. CASE Recv(c)
    BY <2>4, RecvStep
  <2>5. CASE RecvEnds(c)
    BY <2>5, EndSteps, RecvOkStep DEF RecvEnds
  <2>6. CASE RecvFails(c) \/ SyncFails(c) \/ VerifyFails(c) \/ LinkFails(c) \/ Unlink(c)
    BY <2>6, EndSteps
  <2>7. CASE Sync(c) \/ Link(c)
    BY <2>7, SyncLinkSteps
  <2>8. CASE Verify(c)
    BY <2>8, VerifyStep
  <2>9. CASE Done(c)
    BY <2>9, ForgetStep
  <2> QED BY <1>5, <2>1, <2>2, <2>3, <2>4, <2>5, <2>6, <2>7, <2>8, <2>9 DEF ClientStep
<1>6. ASSUME NEW c \in Clients, Handler(c) PROVE IInv'
  BY <1>6, HandlerBegins, SendStep, AnswerSteps DEF Handler
<1>7. ASSUME NEW c \in Clients, Kill(c) PROVE IInv'
  BY <1>7, ForgetStep
<1>8. CASE \E c \in Clients, b \in BreakCodes \ {"CANCELLED"} : Break(c, b)
  BY <1>8, BreakStep
<1> QED BY <1>1, <1>2, <1>3, <1>4, <1>5, <1>6, <1>7, <1>8 DEF Next

(* The inductive invariant holds in every reachable state. *)
THEOREM Invariance == Spec => []IInv
<1>1. Init => IInv
  BY InitInv
<1>2. IInv /\ [Next]_vars => IInv'
  BY NextInv
<1> QED BY <1>1, <1>2, PTL DEF Spec

-----------------------------------------------------------------------------
(***************************************************************************)
(* The theorems.                                                           *)
(***************************************************************************)

(***************************************************************************)
(* The variables of StorageClient::Get, the call and the handler keep      *)
(* their types, and a download never grows beyond the size that HeadChunk  *)
(* reported.                                                               *)
(***************************************************************************)
THEOREM GetTypes == Spec => []TypeOK
<1>1. IInv => TypeOK
  <2> SUFFICES ASSUME IInv PROVE TypeOK
    OBVIOUS
  <2>1. ASSUME NEW c \in Clients
        PROVE  /\ call[c].pc \in {"none", "head", "open", "read"}
               /\ call[c].payload \in Contents
               /\ call[c].sent \in 0..cl[c].head.size /\ Len(call[c].wire) <= MaxWire
               /\ call[c].reply \in [grpc : GrpcCodes, code : StatusCode] \cup {NoReply}
               /\ cl[c].pc = "recv" => Len(data[FileOf(c)]) <= cl[c].head.size
    <3>1. cl[c] \in ClientType /\ call[c] \in CallType /\ ClientInv(c)
      BY DEF IInv, ClientTypes
    <3>2. ASSUME cl[c].pc = "recv" PROVE Len(data[FileOf(c)]) <= cl[c].head.size
      <4>1. PICK cut \in [0..Len(call[c].wire) -> 0..cl[c].head.size] : Continues(c, cut)
        BY <3>1, <3>2 DEF ClientInv, Downloading, Frames
      <4>2. Len(call[c].wire) \in Nat /\ cl[c].head.size \in Nat
        BY <3>1 DEF CallType, ClientType, Metadata
      <4>3. cut[0] \in 0..cl[c].head.size /\ cut[0] = Len(data[FileOf(c)])
        BY <4>1, <4>2 DEF Continues
      <4> QED BY <4>2, <4>3
    <3>3. call[c].sent \in 0..cl[c].head.size /\ Len(call[c].wire) <= MaxWire
      BY <3>1 DEF ClientInv, Bounded
    <3> QED BY <3>1, <3>2, <3>3 DEF CallType
  <2>2. configured \in BOOLEAN /\ left \in SUBSET Tokens
    BY DEF IInv, WorkerTypes, ClientTypes
  <2>3. DOMAIN call = Clients /\ cl \in [Clients -> ClientType]
    BY DEF IInv, ClientTypes
  <2> QED BY <2>1, <2>2, <2>3 DEF IInv, WorkerTypes, FileTypes, ClientType, TypeOK
<1> QED BY <1>1, Invariance, PTL

(***************************************************************************)
(* Whatever is killed, lost, damaged or replaced while StorageClient::Get  *)
(* runs, what it links to the destination name is a complete object that   *)
(* somebody stored.                                                        *)
(***************************************************************************)
THEOREM DestinationsAreComplete == Spec => []DestComplete
<1>1. IInv => DestComplete
  BY DEF IInv, DestSafe
<1> QED BY <1>1, Invariance, PTL

(***************************************************************************)
(* Each temporary file belongs to a Get that is still running, unless the  *)
(* client that created it died or its own unlink failed: every path of     *)
(* Get unlinks its temporary file, and no other.                           *)
(***************************************************************************)
THEOREM GetLeavesNoTemps == Spec => []NoStrayTemps
<1>1. IInv => NoStrayTemps
  BY DEF IInv
<1> QED BY <1>1, Invariance, PTL

(***************************************************************************)
(* Get reports Corruption only of an object that was changed after its     *)
(* HeadChunk, or damaged: the pieces that the store reads, the stream      *)
(* carries and the client appends make up the object.                      *)
(***************************************************************************)
THEOREM CorruptionIsReal == Spec => []CorruptionMeansChange
<1>1. IInv => CorruptionMeansChange
  <2> SUFFICES ASSUME IInv, NEW c \in Clients, cl[c].pc = "done", cl[c].code = "Corruption"
               PROVE  cl[c].changed \/ damages > 0
    BY DEF CorruptionMeansChange
  <2>1. ~Fresh(c)
    BY DEF IInv, ClientInv, Downloading
  <2>2. damages \in 0..MaxDamage
    BY DEF IInv, WorkerTypes
  <2> QED BY <2>1, <2>2, GetAssumption DEF Fresh
<1> QED BY <1>1, Invariance, PTL

(***************************************************************************)
(* The status with which the handler of GetChunk ends, or the transport    *)
(* ends the call, is the one that the client reads.                        *)
(***************************************************************************)
THEOREM GetStatusCrosses == Spec => []GetStatusArrives
<1>1. IInv => GetStatusArrives
  BY DEF IInv
<1> QED BY <1>1, Invariance, PTL

(* A step that leaves the destination, and the data under it, alone. *)
LEMMA DestKept ==
    ASSUME IInv, [Next]_vars, dest # NoFile, dest' # NoFile
    PROVE  dest' = dest /\ data'[dest] = data[dest]
<1>0. dest \in Inodes
  BY DEF IInv, FileTypes
<1>1. CASE UNCHANGED <<dest, data>>
  BY <1>1
<1>2. ASSUME NEW c \in Clients, NEW s, Fails(c, s) PROVE dest' = dest /\ data'[dest] = data[dest]
  <2>1. CASE UNCHANGED files
    BY <2>1 DEF files
  <2>2. CASE Wipe({FileOf(c)} \ {dest}) /\ UNCHANGED dest
    BY <1>0, <2>2 DEF Wipe
  <2> QED BY <1>2, <2>1, <2>2 DEF Fails
<1>3. ASSUME NEW c \in Clients, Recv(c) PROVE dest' = dest /\ data'[dest] = data[dest]
  <2>1. cl[c].pc = "recv" /\ dest' = dest
        /\ data' = [data EXCEPT ![FileOf(c)] = @ \o Head(call[c].wire)]
    BY <1>3 DEF Recv
  <2>2. FileOf(c) # dest
    BY <2>1 DEF IInv, ClientInv, Holding
  <2> QED BY <1>0, <2>1, <2>2 DEF IInv, FileTypes
<1>4. CASE PowerLoss
  <2>1. dest' = dest /\ dest \in synced
    BY <1>4 DEF PowerLoss, IInv, DestSafe
  <2>2. \A i \in Inodes : i \in {dest'} /\ i \in synced => data'[i] = data[i]
    BY <1>4 DEF PowerLoss
  <2> QED BY <1>0, <2>1, <2>2
<1>5. ASSUME NEW c \in Clients, ClientStep(c) PROVE dest' = dest /\ data'[dest] = data[dest]
  <2>1. CASE Recv(c)
    BY <1>3, <2>1
  <2>2. CASE RecvFails(c) \/ SyncFails(c) \/ VerifyFails(c) \/ LinkFails(c) \/ Unlink(c)
    BY <1>2, <2>2 DEF RecvFails, SyncFails, VerifyFails, LinkFails, Unlink
  <2>3. CASE RecvEnds(c)
    <3>1. CASE Fails(c, FromGrpcStatus(call[c].reply.grpc))
      BY <1>2, <3>1
    <3>2. CASE UNCHANGED files
      BY <1>1, <3>2 DEF files
    <3> QED BY <2>3, <3>1, <3>2 DEF RecvEnds
  <2>4. CASE Link(c)
    BY <2>4 DEF Link
  <2>5. CASE \/ HeadOk(c) \/ HeadFails(c) \/ GetCreateFails(c) \/ Verify(c) \/ Done(c)
    BY <1>1, <2>5 DEF HeadOk, HeadFails, GetCreateFails, Verify, Done, files
  <2>6. CASE Sync(c) \/ \E t \in Tokens, i \in Inodes : GetCreate(c, t, i)
    BY <1>1, <2>6 DEF Sync, GetCreate
  <2> QED BY <1>5, <2>1, <2>2, <2>3, <2>4, <2>5, <2>6 DEF ClientStep
<1>6. ASSUME NEW c \in Clients, Handler(c) \/ Kill(c) PROVE UNCHANGED <<dest, data>>
  BY <1>6 DEF Handler, HandlerHead, HandlerOpen, HandlerRefuses, HandlerSend, Sends,
              HandlerEnds, HandlerFails, Answers, Kill, files
<1>7. CASE RemoveDest
  BY <1>7 DEF RemoveDest
<1>8. CASE UNCHANGED vars
  BY <1>1, <1>8 DEF vars, files
<1>9. CASE \/ \E id \in ChunkIds : Remove(id) \/ \E d \in Payloads : Store(id, d)
           \/ Damage
           \/ \E c \in Clients, id \in ChunkIds : GetStart(c, id) \/ GetRefused(c, id)
           \/ \E c \in Clients, b \in BreakCodes \ {"CANCELLED"} : Break(c, b)
  BY <1>1, <1>9 DEF Remove, Store, ChangeChunk, Damage, GetStart, GetRefused, Break, files
<1> QED BY <1>1, <1>4, <1>5, <1>6, <1>7, <1>8, <1>9 DEF Next

(***************************************************************************)
(* No Get replaces a destination or writes to it, not even when the        *)
(* temporary name of an earlier client is still linked to that file.       *)
(***************************************************************************)
THEOREM DestinationsAreKept == Spec => DestNotReplaced
<1>1. IInv /\ [Next]_vars =>
        [dest # NoFile /\ dest' # NoFile => dest' = dest /\ data'[dest] = data[dest]]_vars
  BY DestKept
<1> QED BY <1>1, Invariance, PTL DEF Spec, DestNotReplaced

=============================================================================
