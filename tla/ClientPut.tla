------------------------------ MODULE ClientPut ------------------------------
(***************************************************************************)
(* Put and Delete from end to end: StorageClient and GrpcDataPlaneClient   *)
(* on the one side, the handlers of WorkerService on the other, and a gRPC *)
(* call between them that may break at any time.                           *)
(*                                                                         *)
(* A handler works on the map of ChunkStore, which FileChunkStore          *)
(* implements.  It does not notice that its client has given up, so it may *)
(* go on, and commit, after the client returned and started another call.  *)
(* The worker may be killed and restarted, and its machine lose power.     *)
(***************************************************************************)
EXTENDS RpcStatus, FiniteSets

CONSTANTS
    Clients,       \* client threads
    Calls,         \* gRPC calls in progress
    ChunkIds,      \* object ids; StorageClient uses them as chunk ids
    IdLen,         \* their lengths
    Sources,       \* what a source file may contain
    kFrameSize,    \* bytes a client sends per frame
    kBufferSize,   \* bytes the store reads at a time
    MaxWire,       \* frames the transport buffers before Write blocks
    RawFrames,     \* frames that another user of the stub may send
    MaxRaw,        \* how many of them per call
    Breaks,        \* how the transport may end a call
    MaxCrashes,    \* bound on the deaths of the worker
    NoContent, NoCall, NoReply, NoBreak, NoAsk

Metadata == [id : ChunkIds, size : 0..MaxSize, sum : Checksums]
Frames == [metadata : Metadata] \cup [data : Contents]
Answer == [grpc : GrpcCodes, rpc : {ToRpcStatusCode[s] : s \in StatusCode}, code : StatusCode]

ASSUME PutAssumption ==
    /\ IdLen \in [ChunkIds -> Nat] /\ ChunkIds # {}
    /\ Sources \subseteq Contents /\ Sources # {}
    /\ kFrameSize \in Nat \ {0} /\ kBufferSize \in Nat \ {0} /\ MaxWire \in Nat \ {0}
    /\ RawFrames \subseteq Frames /\ MaxRaw \in Nat /\ MaxCrashes \in Nat
    /\ Breaks \subseteq BreakCodes \ {"CANCELLED"}
    /\ NoContent \notin Contents /\ NoCall \notin Calls /\ NoBreak \notin BreakCodes
    /\ NoReply \notin Answer
    /\ NoAsk \notin [kind : {"put", "delete"}, id : ChunkIds, payload : Contents \cup {NoContent}]

VARIABLES
    chunks, stable,  \* the store, as in ChunkStore
    configured,      \* the service was built with a data plane
    crashes,         \* deaths of the worker so far
    cl,              \* the client threads
    call             \* the calls, with their handlers

Store == INSTANCE ChunkStore

store  == <<chunks, stable>>
worker == <<configured, crashes>>
vars   == <<store, worker, cl, call>>

NoWant == [id |-> CHOOSE id \in ChunkIds : TRUE, size |-> 0, sum |-> Blake3(<< >>)]

(***************************************************************************)
(* A client: where it is, its operation, its call and the status it        *)
(* returned; for a Put the source file, the request made of its hash and   *)
(* the bytes (of another user of the stub: the frames) sent so far.        *)
(* edited is history: the source was modified after it was hashed.         *)
(***************************************************************************)
Idle == [pc |-> "idle", op |-> "put", chan |-> NoCall, code |-> "Ok",
         source |-> << >>, want |-> NoWant, pos |-> 0, edited |-> FALSE]

(***************************************************************************)
(* A call: frames sent and not yet read, WritesDone, how the transport     *)
(* ended it, what the handler returned (its field code is history); where  *)
(* the handler is, the request it read, what is left of the current frame  *)
(* (RpcInputStream) and the bytes handed to the store.  asked is history:  *)
(* the operation in the terms of ObjectStore.                              *)
(***************************************************************************)
Fresh == [wire |-> << >>, closed |-> FALSE, broken |-> NoBreak, answer |-> NoReply,
          pc |-> "none", req |-> NoWant, rest |-> << >>, got |-> << >>, asked |-> NoAsk]

(***************************************************************************)
(* The types of the variables.  Two are bounds: the transport buffers at   *)
(* most MaxWire frames, and the store takes no more bytes than announced.  *)
(***************************************************************************)
TypeOK ==
    /\ Store!TypeOK
    /\ configured \in BOOLEAN /\ crashes \in 0..MaxCrashes
    /\ cl \in [Clients -> [pc : {"idle", "open", "metadata", "send", "raw", "finish", "done"},
                           op : {"put", "delete", "raw"}, chan : Calls \cup {NoCall},
                           code : StatusCode, source : Contents, want : Metadata,
                           pos : 0..(MaxSize + MaxRaw), edited : BOOLEAN]]
    /\ DOMAIN call = Calls
    /\ \A k \in Calls :
         /\ Len(call[k].wire) <= MaxWire /\ Len(call[k].got) <= call[k].req.size
         /\ \A i \in 1..Len(call[k].wire) : call[k].wire[i] \in Frames
         /\ call[k].closed \in BOOLEAN
         /\ call[k].broken \in BreakCodes \cup {NoBreak}
         /\ call[k].answer \in Answer \cup {NoReply}
         /\ call[k].pc \in {"none", "first", "read", "commit", "linked", "delete", "unlinked"}
         /\ call[k].req \in Metadata
         /\ call[k].rest \in Contents /\ call[k].got \in Contents

Init ==
    /\ Store!Init
    /\ configured \in BOOLEAN /\ crashes = 0
    /\ cl = [c \in Clients |-> Idle]
    /\ call = [k \in Calls |-> Fresh]

-----------------------------------------------------------------------------
(***************************************************************************)
(* The call (external: gRPC).  Once it is over, Write fails.               *)
(***************************************************************************)
Chan(c) == call[cl[c].chan]

Over(k) == call[k].broken # NoBreak \/ call[k].answer # NoReply

Attended(k) == \E c \in Clients : cl[c].chan = k

StartCall(k, handler) ==
    /\ call[k] = Fresh /\ ~Attended(k)
    /\ call' = [call EXCEPT ![k].pc = handler]

(***************************************************************************)
(* The deadline passes or the connection is lost while the client waits.   *)
(***************************************************************************)
Break(c, code) ==
    /\ cl[c].pc \in {"metadata", "send", "raw", "finish"}
    /\ ~Over(cl[c].chan)
    /\ call' = [call EXCEPT ![cl[c].chan].broken = code]
    /\ UNCHANGED <<store, worker, cl>>

(***************************************************************************)
(* What a request asks for: the payload that has its size and checksum.    *)
(***************************************************************************)
Asks(kind, m) ==
    LET P == {d \in Contents : Len(d) = m.size /\ Blake3(d) = m.sum}
    IN  [kind |-> kind, id |-> m.id,
         payload |-> IF P = {} THEN NoContent ELSE CHOOSE d \in P : TRUE]

-----------------------------------------------------------------------------
(***************************************************************************)
(* The client.                                                             *)
(***************************************************************************)
Returns(c, code) ==
    cl' = [cl EXCEPT ![c] = [Idle EXCEPT !.pc = "done", !.code = code, !.op = cl[c].op,
                                         !.chan = cl[c].chan, !.edited = cl[c].edited]]

(***************************************************************************)
(* Somebody else writes to the source file between the hash and the last   *)
(* read of it.                                                             *)
(***************************************************************************)
EditSource(c, d) ==
    /\ cl[c].pc \in {"open", "metadata", "send"}
    /\ d # cl[c].source
    /\ cl' = [cl EXCEPT ![c].source = d, ![c].edited = TRUE]
    /\ UNCHANGED <<store, worker, call>>

(***************************************************************************)
(* StorageClient::Put hashes the source.  An empty id ends every           *)
(* operation, a source that cannot be read a Put.                          *)
(***************************************************************************)
PutHash(c, id, d) ==
    /\ cl[c].pc = "idle"
    /\ IdLen[id] # 0
    /\ cl' = [cl EXCEPT ![c].pc = "open", ![c].source = d,
                        ![c].want = [id |-> id, size |-> Len(d), sum |-> Blake3(d)]]
    /\ UNCHANGED <<store, worker, call>>

Refused(c, id) ==
    /\ cl[c].pc = "idle"
    /\ Returns(c, IF IdLen[id] = 0 THEN "InvalidArgument" ELSE "IoError")
    /\ UNCHANGED <<store, worker, call>>

(***************************************************************************)
(* GrpcDataPlaneClient::PutChunk opens the source again and the call.      *)
(***************************************************************************)
PutOpen(c, k) ==
    /\ cl[c].pc = "open"
    /\ StartCall(k, "first")
    /\ cl' = [cl EXCEPT ![c].pc = "metadata", ![c].chan = k]
    /\ UNCHANGED <<store, worker>>

PutOpenFails(c) ==
    /\ cl[c].pc = "open"
    /\ Returns(c, "IoError")
    /\ UNCHANGED <<store, worker, call>>

PutMetadata(c) ==
    /\ cl[c].pc = "metadata"
    /\ ~Over(cl[c].chan)
    /\ call' = [call EXCEPT ![cl[c].chan].wire = Append(@, [metadata |-> cl[c].want]),
                            ![cl[c].chan].asked = Asks("put", cl[c].want)]
    /\ cl' = [cl EXCEPT ![c].pc = "send", ![c].want = NoWant]
    /\ UNCHANGED <<store, worker>>

(***************************************************************************)
(* One turn of the loop: read a piece of the source, as it is now, and     *)
(* write it as a frame; a Write that fails ends the loop.                  *)
(***************************************************************************)
PutSend(c, n) ==
    /\ cl[c].pc = "send"
    /\ n <= kFrameSize /\ n <= Len(cl[c].source) - cl[c].pos
    /\ ~Over(cl[c].chan) /\ Len(Chan(c).wire) < MaxWire
    /\ LET piece == SubSeq(cl[c].source, cl[c].pos + 1, cl[c].pos + n)
       IN  call' = [call EXCEPT ![cl[c].chan].wire = Append(@, [data |-> piece])]
    /\ cl' = [cl EXCEPT ![c].pos = @ + n]
    /\ UNCHANGED <<store, worker>>

(***************************************************************************)
(* WritesDone: the source is sent, or a Write has failed.                  *)
(***************************************************************************)
PutSendEnds(c) ==
    /\ \/ cl[c].pc = "metadata" /\ Over(cl[c].chan)
       \/ cl[c].pc = "send" /\ (cl[c].pos >= Len(cl[c].source) \/ Over(cl[c].chan))
    /\ call' = [call EXCEPT ![cl[c].chan].closed = TRUE]
    /\ cl' = [cl EXCEPT ![c].pc = "finish", ![c].source = << >>, ![c].pos = 0]
    /\ UNCHANGED <<store, worker>>

(***************************************************************************)
(* The source cannot be read any further: the call is cancelled.           *)
(***************************************************************************)
PutSourceFails(c) ==
    /\ cl[c].pc = "send"
    /\ call' = [call EXCEPT ![cl[c].chan].closed = TRUE,
                            ![cl[c].chan].broken = IF Over(cl[c].chan) THEN @ ELSE "CANCELLED"]
    /\ Returns(c, "IoError")
    /\ UNCHANGED <<store, worker>>

DeleteStart(c, k, id) ==
    /\ cl[c].pc = "idle"
    /\ IdLen[id] # 0
    /\ call[k] = Fresh /\ ~Attended(k)
    /\ LET m == [NoWant EXCEPT !.id = id]
       IN  call' = [call EXCEPT ![k].pc = "delete", ![k].req = m,
                                ![k].asked = Asks("delete", m)]
    /\ cl' = [cl EXCEPT ![c].pc = "finish", ![c].op = "delete", ![c].chan = k]
    /\ UNCHANGED <<store, worker>>

(***************************************************************************)
(* Another user of the stub (external) sends frames in any order.          *)
(***************************************************************************)
RawStart(c, k) ==
    /\ cl[c].pc = "idle" /\ MaxRaw > 0
    /\ StartCall(k, "first")
    /\ cl' = [cl EXCEPT ![c].pc = "raw", ![c].op = "raw", ![c].chan = k]
    /\ UNCHANGED <<store, worker>>

RawSend(c, f) ==
    /\ cl[c].pc = "raw" /\ cl[c].pos < MaxRaw
    /\ ~Over(cl[c].chan) /\ Len(Chan(c).wire) < MaxWire
    /\ call' = [call EXCEPT
                  ![cl[c].chan].wire = Append(@, f),
                  ![cl[c].chan].asked = IF cl[c].pos = 0 /\ "metadata" \in DOMAIN f
                                        THEN Asks("put", f.metadata) ELSE @]
    /\ cl' = [cl EXCEPT ![c].pos = @ + 1]
    /\ UNCHANGED <<store, worker>>

RawEnds(c) ==
    /\ cl[c].pc = "raw"
    /\ call' = [call EXCEPT ![cl[c].chan].closed = TRUE]
    /\ cl' = [cl EXCEPT ![c].pc = "finish"]
    /\ UNCHANGED <<store, worker>>

FinishCodeMutant(r) ==              \* the status in the response is not read
    FromGrpcStatus(IF r.answer = NoReply THEN r.broken ELSE r.answer.grpc)

(***************************************************************************)
(* Finish: the answer of the handler, or how the call was ended.  A client *)
(* that could not write the metadata looks at the gRPC status only; it is  *)
(* never OK then, because no handler answers OK without that frame.        *)
(***************************************************************************)
FinishCode(r) ==
    IF r.answer = NoReply THEN FromGrpcStatus(r.broken)
    ELSE IF r.answer.grpc # "OK" THEN FromGrpcStatus(r.answer.grpc)
    ELSE FromRpcCode(r.answer.rpc)

Finish(c) ==
    /\ cl[c].pc = "finish"
    /\ Over(cl[c].chan)
    /\ Returns(c, FinishCode(Chan(c)))
    /\ UNCHANGED <<store, worker, call>>

(***************************************************************************)
(* The client leaves its call.  A handler that still runs is on its own: a *)
(* call left unfinished is cancelled, and how a broken call was broken no  *)
(* longer matters.                                                         *)
(***************************************************************************)
LeaveCall(c) ==
    /\ cl' = [cl EXCEPT ![c] = Idle]
    /\ call' = [k \in Calls |->
                  IF k # cl[c].chan THEN call[k]
                  ELSE IF call[k].pc = "none" THEN Fresh
                  ELSE [call[k] EXCEPT !.broken = "CANCELLED"]]
    /\ UNCHANGED <<store, worker>>

ClientDone(c) == cl[c].pc = "done" /\ LeaveCall(c)

(***************************************************************************)
(* The client process dies in the middle of a call.                        *)
(***************************************************************************)
ClientKilled(c) == cl[c].pc \in {"metadata", "send", "raw", "finish"} /\ LeaveCall(c)

-----------------------------------------------------------------------------
(***************************************************************************)
(* The handlers.  A handler returns a gRPC status and, with OK, a response *)
(* that holds a Status.  If the call is broken, nobody receives them.      *)
(***************************************************************************)
Ended(k) ==
    IF ~Attended(k) THEN Fresh
    ELSE [Fresh EXCEPT !.closed = call[k].closed, !.broken = call[k].broken,
                       !.answer = call[k].answer, !.asked = call[k].asked]

Answers(k, grpc, code) ==
    call' = [call EXCEPT ![k] =
               IF ~Attended(k) \/ call[k].broken # NoBreak THEN Ended(k)
               ELSE [Ended(k) EXCEPT !.answer = [grpc |-> grpc, code |-> code,
                                                 rpc |-> ToRpcStatusCode[code]]]]

Refuses(k, grpc, code) == Answers(k, grpc, code) /\ UNCHANGED <<store, worker, cl>>

Unconfigured(k) ==
    /\ call[k].pc \in {"first", "delete"}
    /\ ~configured
    /\ Refuses(k, "FAILED_PRECONDITION", "Unavailable")

(***************************************************************************)
(* WorkerService::PutChunk reads the metadata; DataPlaneService and the    *)
(* store check it.                                                         *)
(***************************************************************************)
CheckPut(m) == IF ValidateId(IdLen[m.id]) = "Ok" THEN ValidateChecksum(m.sum)
               ELSE "InvalidArgument"

HasNext(k) == call[k].wire # << >>
NextFrame(k) == Head(call[k].wire)
ReadFails(k) == call[k].broken # NoBreak \/ (call[k].closed /\ ~HasNext(k))

HandlerFirst(k) ==
    /\ call[k].pc = "first" /\ configured
    /\ HasNext(k) /\ "metadata" \in DOMAIN NextFrame(k)
    /\ CheckPut(NextFrame(k).metadata) = "Ok"
    /\ call' = [call EXCEPT ![k].req = NextFrame(k).metadata, ![k].wire = Tail(@),
                            ![k].pc = "read"]
    /\ UNCHANGED <<store, worker, cl>>

HandlerRefuses(k) ==
    /\ call[k].pc = "first" /\ configured
    /\ \/ /\ ReadFails(k) \/ (HasNext(k) /\ "data" \in DOMAIN NextFrame(k))
          /\ Refuses(k, "INVALID_ARGUMENT", "InvalidArgument")
       \/ /\ HasNext(k) /\ "metadata" \in DOMAIN NextFrame(k)
          /\ CheckPut(NextFrame(k).metadata) # "Ok"
          /\ Refuses(k, "OK", CheckPut(NextFrame(k).metadata))

(***************************************************************************)
(* RpcInputStream::Read copies from the current frame, or from the next    *)
(* one when nothing is left, as much as the buffer of the store takes.     *)
(* The next frame must have data.                                          *)
(***************************************************************************)
GoodFrame(f) == "data" \in DOMAIN f /\ f.data # << >>

Readable(k) ==
    call[k].rest # << >> \/ (HasNext(k) /\ GoodFrame(NextFrame(k)))

Current(k) == IF call[k].rest = << >> THEN NextFrame(k).data ELSE call[k].rest

Count(k) == IF Len(Current(k)) < kBufferSize THEN Len(Current(k)) ELSE kBufferSize

Room(k) == call[k].req.size - Len(call[k].got)

HandlerReadMutant(k) ==             \* what does not fit in the buffer is dropped
    /\ call[k].pc = "read"
    /\ Readable(k)
    /\ Count(k) <= Room(k)
    /\ call' = [call EXCEPT ![k].got = @ \o SubSeq(Current(k), 1, Count(k)),
                            ![k].wire = Tail(@)]
    /\ UNCHANGED <<store, worker, cl>>

HandlerReadUnbounded(k) ==                    \* the announced size is not a limit
    /\ call[k].pc = "read"
    /\ Readable(k)
    /\ call' = [call EXCEPT
                  ![k].got  = @ \o SubSeq(Current(k), 1, Count(k)),
                  ![k].rest = SubSeq(Current(k), Count(k) + 1, Len(Current(k))),
                  ![k].wire = IF call[k].rest = << >> THEN Tail(@) ELSE @]
    /\ UNCHANGED <<store, worker, cl>>

HandlerRead(k) ==
    /\ call[k].pc = "read"
    /\ Readable(k)
    /\ Count(k) <= Room(k)
    /\ call' = [call EXCEPT
                  ![k].got  = @ \o SubSeq(Current(k), 1, Count(k)),
                  ![k].rest = SubSeq(Current(k), Count(k) + 1, Len(Current(k))),
                  ![k].wire = IF call[k].rest = << >> THEN Tail(@) ELSE @]
    /\ UNCHANGED <<store, worker, cl>>

(***************************************************************************)
(* More bytes than announced, or a frame out of place.                     *)
(***************************************************************************)
HandlerReadRefuses(k) ==
    /\ call[k].pc = "read"
    /\ \/ /\ Readable(k) /\ Count(k) > Room(k)
          /\ Refuses(k, "OK", "Corruption")
       \/ /\ ~Readable(k) /\ HasNext(k)
          /\ Refuses(k, "OK", "InvalidArgument")

HandlerEofMutant(k) ==              \* a broken call is not the end of the stream
    /\ call[k].pc = "read" /\ call[k].rest = << >>
    /\ call[k].closed /\ ~HasNext(k)
    /\ call' = [call EXCEPT ![k].pc = "commit"]
    /\ UNCHANGED <<store, worker, cl>>

(***************************************************************************)
(* A Read of the transport that fails is reported as the end of the        *)
(* stream, whether the client finished or the call broke.                  *)
(***************************************************************************)
HandlerEof(k) ==
    /\ call[k].pc = "read" /\ call[k].rest = << >>
    /\ ReadFails(k)
    /\ call' = [call EXCEPT ![k].pc = "commit"]
    /\ UNCHANGED <<store, worker, cl>>

MatchesMutant(r) == Len(r.got) = r.req.size   \* the checksum is not compared

Matches(r) == Len(r.got) = r.req.size /\ Blake3(r.got) = r.req.sum

(***************************************************************************)
(* What the store does at the end of the stream: verify, link without      *)
(* replacing, synchronize and answer.  Any of its system calls may fail,   *)
(* the last one when the chunk is already in place.                        *)
(***************************************************************************)
HandlerLink(k) ==
    /\ call[k].pc = "commit"
    /\ Matches(call[k])
    /\ Store!Commit(call[k].req.id, call[k].got)
    /\ call' = [call EXCEPT ![k].pc = "linked", ![k].req = NoWant, ![k].got = << >>]
    /\ UNCHANGED <<worker, cl>>

HandlerSyncMutant(k) ==             \* the directory is not synchronized
    /\ call[k].pc = "linked"
    /\ Refuses(k, "OK", "Ok")

HandlerSync(k) ==
    /\ call[k].pc = "linked"
    /\ \/ Store!Sync /\ Answers(k, "OK", "Ok")
       \/ UNCHANGED store /\ Answers(k, "OK", "IoError")
    /\ UNCHANGED <<worker, cl>>

HandlerRejects(k) ==
    /\ call[k].pc = "commit"
    /\ \/ ~Matches(call[k]) /\ Refuses(k, "OK", "Corruption")
       \/ /\ Matches(call[k]) /\ chunks[call[k].req.id] # NoContent
          /\ Refuses(k, "OK", "AlreadyExists")

(***************************************************************************)
(* A system call of the store fails; the name of its temporary file is     *)
(* taken.                                                                  *)
(***************************************************************************)
HandlerFails(k) ==
    \/ call[k].pc \in {"read", "commit"} /\ Refuses(k, "OK", "IoError")
    \/ call[k].pc = "read" /\ call[k].got = << >> /\ Refuses(k, "OK", "Unavailable")

(***************************************************************************)
(* WorkerService::DeleteChunk.                                             *)
(***************************************************************************)
HandlerUnlink(k) ==
    /\ call[k].pc = "delete" /\ configured
    /\ ValidateId(IdLen[call[k].req.id]) = "Ok"
    /\ Store!Remove(call[k].req.id)
    /\ call' = [call EXCEPT ![k].pc = "unlinked"]
    /\ UNCHANGED <<worker, cl>>

HandlerUnlinked(k) == call[k].pc = "unlinked" /\ Refuses(k, "OK", "Ok")

HandlerDeleteFails(k) ==
    /\ call[k].pc = "delete" /\ configured
    /\ IF ValidateId(IdLen[call[k].req.id]) # "Ok" THEN Refuses(k, "OK", "InvalidArgument")
       ELSE \/ chunks[call[k].req.id] = NoContent /\ Refuses(k, "OK", "NotFound")
            \/ Refuses(k, "OK", "IoError")

(***************************************************************************)
(* The worker is killed and started again, perhaps after a power loss: its *)
(* handlers are gone and their clients lose the connection.                *)
(***************************************************************************)
WorkerDies ==
    /\ crashes < MaxCrashes
    /\ crashes' = crashes + 1
    /\ call' = [k \in Calls |->
                  IF call[k].pc = "none" THEN call[k]
                  ELSE IF ~Attended(k) \/ call[k].broken # NoBreak THEN Ended(k)
                  ELSE [Ended(k) EXCEPT !.broken = "UNAVAILABLE"]]
    /\ UNCHANGED store \/ Store!PowerLoss
    /\ UNCHANGED <<configured, cl>>

-----------------------------------------------------------------------------
ClientProgress(c) ==
    \/ \E k \in Calls : PutOpen(c, k)
    \/ PutOpenFails(c) \/ PutMetadata(c)
    \/ \E n \in 1..MaxSize : PutSend(c, n)
    \/ PutSendEnds(c) \/ Finish(c) \/ ClientDone(c)

Client(c) ==
    \/ ClientProgress(c) \/ PutSourceFails(c) \/ ClientKilled(c)
    \/ \E id \in ChunkIds :
         \/ Refused(c, id)
         \/ \E d \in Sources : PutHash(c, id, d)
         \/ \E k \in Calls : DeleteStart(c, k, id)
    \/ \E k \in Calls : RawStart(c, k)
    \/ \E f \in RawFrames : RawSend(c, f)
    \/ RawEnds(c)
    \/ \E d \in Sources : EditSource(c, d)
    \/ \E code \in Breaks : Break(c, code)

HandlerProgress(k) ==
    \/ Unconfigured(k) \/ HandlerFirst(k) \/ HandlerRefuses(k)
    \/ HandlerRead(k) \/ HandlerReadRefuses(k) \/ HandlerEof(k)
    \/ HandlerLink(k) \/ HandlerSync(k) \/ HandlerRejects(k)
    \/ HandlerUnlink(k) \/ HandlerUnlinked(k) \/ HandlerDeleteFails(k)

Next ==
    \/ \E c \in Clients : Client(c)
    \/ \E k \in Calls : HandlerProgress(k) \/ HandlerFails(k)
    \/ WorkerDies

Spec == Init /\ [][Next]_vars

(***************************************************************************)
(* The scheduler runs clients and handlers, the deadline of a call ends    *)
(* it, and a source file does not grow faster than it is read: PutSend     *)
(* stays within the MaxSize bytes a source has.                            *)
(***************************************************************************)
FairSpec ==
    /\ Spec
    /\ \A c \in Clients : /\ WF_vars(ClientProgress(c))
                          /\ WF_vars(Break(c, "DEADLINE_EXCEEDED"))
    /\ \A k \in Calls : WF_vars(HandlerProgress(k))

-----------------------------------------------------------------------------
(***************************************************************************)
(* Properties.                                                             *)
(***************************************************************************)

(***************************************************************************)
(* Put and Delete keep the promise of ObjectStore, whatever breaks, dies   *)
(* or comes late: an upload takes effect at most once, whole, with the     *)
(* payload that was hashed, never with a half-received or edited one; Ok   *)
(* means that it did and that it is durable; a definite failure means that *)
(* it did not and never will, also not by a handler left behind.           *)
(***************************************************************************)
StateOf(r) ==
    IF r.asked = NoAsk THEN "none"
    ELSE IF r.answer # NoReply THEN r.answer.code
    ELSE IF r.pc = "none" THEN "lost"
    ELSE IF r.pc \in {"linked", "unlinked"} THEN "effected" ELSE "pending"

ToldOf(k) ==
    LET T == {c \in Clients : cl[c].chan = k /\ cl[c].pc = "done" /\ call[k].asked # NoAsk}
    IN  IF T = {} THEN NoReply ELSE cl[CHOOSE c \in T : TRUE].code

Object == INSTANCE ObjectStore WITH
    asked <- [k \in Calls |-> call[k].asked],
    state <- [k \in Calls |-> StateOf(call[k])],
    told  <- [k \in Calls |-> ToldOf(k)]

KeepsPromise == Object!Spec

(***************************************************************************)
(* A status that crosses the wire arrives as the one the worker returned,  *)
(* whichever of the two encodings carries it.                              *)
(***************************************************************************)
StatusArrives ==
    \A c \in Clients : cl[c].pc = "finish" /\ Chan(c).answer # NoReply =>
        FinishCode(Chan(c)) = Chan(c).answer.code

(***************************************************************************)
(* An upload whose source was not modified, on a call that did not break,  *)
(* is not refused as corrupt: the frames arrive complete and in order.     *)
(***************************************************************************)
UnchangedSourceIsAccepted ==
    \A c \in Clients :
        cl[c].pc = "done" /\ cl[c].op = "put" /\ cl[c].code = "Corruption" => cl[c].edited

(***************************************************************************)
(* Every operation of a client returns and every handler ends, also the    *)
(* handler whose client has given up.                                      *)
(***************************************************************************)
OperationsEnd ==
    /\ \A c \in Clients : cl[c].pc # "idle" /\ cl[c].op # "raw" ~> cl[c].pc = "idle"
    /\ \A k \in Calls : call[k].pc # "none" ~> call[k].pc = "none"

(***************************************************************************)
(* What the interface of ChunkInputStream says of Read: a failure is an    *)
(* error, and zero bytes mean the end of the stream.  The handler sees the *)
(* end only if the client has finished sending.                            *)
(***************************************************************************)
EofMeansFinished == \A k \in Calls : call[k].pc = "commit" => call[k].closed
=============================================================================
