------------------------------ MODULE ClientGet ------------------------------
(***************************************************************************)
(* Get from end to end: StorageClient asks the worker for the metadata of  *)
(* an object, downloads it in a second call into a temporary file, checks  *)
(* what it got against the metadata and links the file to the destination. *)
(*                                                                         *)
(* Clients share a destination.  Meanwhile other clients change the store, *)
(* the disk of the worker damages a chunk, calls break, client processes   *)
(* die and the client's machine loses power.                               *)
(***************************************************************************)
EXTENDS RpcStatus, FiniteSets

CONSTANTS
    Clients,       \* client threads
    Tokens,        \* "pid.counter" suffixes of temporary names
    Inodes,        \* files of the client's file system
    ChunkIds,      \* object ids; StorageClient uses them as chunk ids
    IdLen,         \* their lengths
    Payloads,      \* what the other clients store
    kBufferSize,   \* bytes the store reads, and sends, at a time
    MaxWire,       \* frames the transport buffers before Write blocks
    MaxDamage,     \* bound on the damages of the worker's disk
    NoContent, NoFile, NoToken, NoReply

ASSUME GetAssumption ==
    /\ IdLen \in [ChunkIds -> Nat] /\ ChunkIds # {}
    /\ Payloads \subseteq Contents
    /\ kBufferSize \in Nat \ {0} /\ MaxWire \in Nat \ {0} /\ MaxDamage \in Nat
    /\ NoContent \notin ChunkFile /\ NoFile \notin Inodes /\ NoToken \notin Tokens

Metadata == [id : ChunkIds, size : 0..MaxSize, sum : Checksums]

VARIABLES
    chunks,      \* the worker's store: the chunk file under each id
    configured,  \* the service was built with a data plane
    (***********************************************************************)
    (* The client's file system.                                           *)
    (***********************************************************************)
    temp,        \* the temporary names that exist, and their files
    dest,        \* the file under the destination name
    data,        \* contents of the files
    synced,      \* files whose data is on disk
    cl,          \* the client threads
    call,        \* the GetChunk call of each client, with its handler
    (***********************************************************************)
    (* History.                                                            *)
    (***********************************************************************)
    ever,        \* payloads ever stored under each id
    damages,     \* damages of the worker's disk so far
    left         \* temporary names that a death, or an unlink that failed, left behind

worker == <<chunks, configured, ever, damages>>
files  == <<temp, dest, data, synced>>
vars   == <<worker, files, cl, call, left>>

(***************************************************************************)
(* A client: where it is, what HeadChunk told it, the suffix of its        *)
(* temporary name and the status it returned.  changed is history: the     *)
(* object was changed since its HeadChunk.                                 *)
(***************************************************************************)
Idle == [pc |-> "idle", token |-> NoToken, code |-> "Ok", changed |-> FALSE,
         head |-> [id |-> CHOOSE id \in ChunkIds : TRUE, size |-> 0, sum |-> Blake3(<< >>)]]

(***************************************************************************)
(* A call: where the handler is, what the file it has open contains, the   *)
(* bytes it has sent, the frames not yet received, and how it ended (code  *)
(* is history).                                                            *)
(***************************************************************************)
NoCall == [pc |-> "none", payload |-> << >>, sent |-> 0, wire |-> << >>, reply |-> NoReply]

FileOf(c) == temp[cl[c].token]

(***************************************************************************)
(* The types of the variables.  A download never grows beyond the size     *)
(* the client asked for.                                                   *)
(***************************************************************************)
TypeOK ==
    /\ chunks \in [ChunkIds -> ChunkFile \cup {NoContent}]
    /\ configured \in BOOLEAN /\ left \in SUBSET Tokens /\ damages \in 0..MaxDamage
    /\ temp \in [Tokens -> Inodes \cup {NoFile}]
    /\ dest \in Inodes \cup {NoFile}
    /\ data \in [Inodes -> Contents]
    /\ synced \in SUBSET Inodes
    /\ cl \in [Clients -> [pc : {"idle", "head", "temp", "recv", "sync", "verify", "link",
                                 "unlink", "done"},
                           token : Tokens \cup {NoToken}, code : StatusCode,
                           changed : BOOLEAN, head : Metadata]]
    /\ DOMAIN call = Clients
    /\ \A c \in Clients :
         /\ call[c].pc \in {"none", "head", "open", "read"}
         /\ call[c].payload \in Contents
         /\ call[c].sent \in 0..cl[c].head.size /\ Len(call[c].wire) <= MaxWire
         /\ call[c].reply \in [grpc : GrpcCodes, code : StatusCode] \cup {NoReply}
         /\ cl[c].pc = "recv" => Len(data[FileOf(c)]) <= cl[c].head.size
    /\ ever \in [ChunkIds -> SUBSET Contents]

Init ==
    /\ chunks = [id \in ChunkIds |-> NoContent]
    /\ configured \in BOOLEAN /\ left = {} /\ damages = 0
    /\ temp = [t \in Tokens |-> NoFile]
    /\ dest = NoFile
    /\ data = [i \in Inodes |-> << >>]
    /\ synced = {}
    /\ cl = [c \in Clients |-> Idle]
    /\ call = [c \in Clients |-> NoCall]
    /\ ever = [id \in ChunkIds |-> {}]

-----------------------------------------------------------------------------
(***************************************************************************)
(* The rest of the system changes the store: a chunk is stored if there is *)
(* none, or deleted.  A worker that restarts may lose a chunk or have one  *)
(* back, which looks the same.                                             *)
(***************************************************************************)
ChangeChunk(id, f) ==
    /\ chunks' = [chunks EXCEPT ![id] = f]
    /\ cl' = [c \in Clients |-> [cl[c] EXCEPT
                !.changed = @ \/ (cl[c].head.id = id /\ cl[c].pc \notin {"idle", "head", "done"})]]
    /\ UNCHANGED <<configured, damages, files, call, left>>

Store(id, d) ==
    /\ ValidateId(IdLen[id]) = "Ok" /\ chunks[id] = NoContent
    /\ ever' = [ever EXCEPT ![id] = @ \cup {d}]
    /\ ChangeChunk(id, [hdr |-> MakeHeader(Len(d), Blake3(d)), data |-> d])

Remove(id) ==
    /\ chunks[id] # NoContent
    /\ UNCHANGED ever
    /\ ChangeChunk(id, NoContent)

(***************************************************************************)
(* The disk of the worker returns other bytes than were written, of the    *)
(* header, of the payload, or under an open descriptor.  A checksum that   *)
(* is hit no longer is that of any payload.                                *)
(***************************************************************************)
Rotten(d) == {e \in Contents : e # d /\ Len(e) = Len(d)}

RottenFiles(f) ==
    {[f EXCEPT !.hdr = NoHeader]} \cup {[f EXCEPT !.data = e] : e \in Rotten(f.data)}
    \cup {[f EXCEPT !.hdr = MakeHeader(Len(f.data), s)] :
             s \in Checksums \ {Blake3(d) : d \in Contents}}

Damage ==
    /\ damages < MaxDamage
    /\ damages' = damages + 1
    /\ \/ /\ \E id \in ChunkIds : /\ chunks[id] # NoContent
                                  /\ \E f \in RottenFiles(chunks[id]) :
                                       chunks' = [chunks EXCEPT ![id] = f]
          /\ UNCHANGED call
       \/ /\ \E c \in Clients : \E e \in Rotten(call[c].payload) :
               call' = [call EXCEPT ![c].payload = e]
          /\ UNCHANGED chunks
    /\ UNCHANGED <<configured, ever, files, cl, left>>

(***************************************************************************)
(* The user removes the downloaded file.                                   *)
(***************************************************************************)
Wipe(gone) ==
    /\ data' = [i \in Inodes |-> IF i \in gone THEN << >> ELSE data[i]]
    /\ synced' = synced \ gone

RemoveDest ==
    /\ dest # NoFile
    /\ dest' = NoFile
    /\ Wipe({dest} \ {temp[t] : t \in Tokens})
    /\ UNCHANGED <<temp, worker, cl, call, left>>

-----------------------------------------------------------------------------
(***************************************************************************)
(* The client returns; its call, if there still is one, is over.           *)
(***************************************************************************)
Returns(c, status) ==
    /\ cl' = [cl EXCEPT ![c].pc = "done", ![c].code = status]
    /\ call' = [call EXCEPT ![c] = NoCall]
    /\ UNCHANGED worker

FailsMutant(c, status) ==           \* nothing is unlinked
    Returns(c, status) /\ UNCHANGED <<files, left>>

(***************************************************************************)
(* Every return once the temporary file exists unlinks it.  The result of  *)
(* unlink is ignored: if it fails the file stays, and Get returns the same *)
(* status.                                                                 *)
(***************************************************************************)
Fails(c, status) ==
    /\ Returns(c, status)
    /\ \/ /\ temp' = [temp EXCEPT ![cl[c].token] = NoFile]
          /\ Wipe({FileOf(c)} \ {dest})
          /\ UNCHANGED <<dest, left>>
       \/ /\ left' = left \cup {cl[c].token}
          /\ UNCHANGED files

(***************************************************************************)
(* A step of the client that touches nothing but its own state.            *)
(***************************************************************************)
Goes(c, from, to) == cl[c].pc = from /\ cl' = [cl EXCEPT ![c].pc = to]

(***************************************************************************)
(* StorageClient::Get: an empty id and an existing destination are refused *)
(* before the worker is asked.                                             *)
(***************************************************************************)
GetStart(c, id) ==
    /\ cl[c].pc = "idle"
    /\ IdLen[id] # 0 /\ dest = NoFile
    /\ cl' = [cl EXCEPT ![c].head.id = id, ![c].pc = "head"]
    /\ UNCHANGED <<worker, files, call, left>>

GetRefused(c, id) ==
    /\ cl[c].pc = "idle"
    /\ \/ IdLen[id] = 0 /\ Returns(c, "InvalidArgument")
       \/ IdLen[id] # 0 /\ dest # NoFile /\ Returns(c, "AlreadyExists")
    /\ UNCHANGED <<files, left>>

(***************************************************************************)
(* The HeadChunk call: the store looks the chunk up; its status comes back *)
(* inside the response, or the call fails.  An error is put in a StatusOr. *)
(***************************************************************************)
CheckHead(id) == IF ValidateId(IdLen[id]) # "Ok" THEN "InvalidArgument"
                 ELSE IF chunks[id] = NoContent THEN "NotFound" ELSE ReadHeader(chunks[id])

HeadOk(c) ==
    /\ cl[c].pc = "head" /\ configured
    /\ CheckHead(cl[c].head.id) = "Ok"
    /\ LET h == chunks[cl[c].head.id].hdr
       IN  cl' = [cl EXCEPT ![c].head.size = h.size, ![c].head.sum = h.sum, ![c].pc = "temp"]
    /\ UNCHANGED <<worker, files, call, left>>

HeadFails(c) ==
    /\ cl[c].pc = "head"
    /\ \/ /\ configured
          /\ \E s \in {CheckHead(cl[c].head.id), "IoError"} \ {"Ok"} :
               Returns(c, NormalizeError(FromRpcCode(ToRpcStatusCode[s])))
       \/ \E b \in {"DEADLINE_EXCEEDED", "UNAVAILABLE"} \cup
                   (IF configured THEN {} ELSE {"FAILED_PRECONDITION"}) :
            Returns(c, NormalizeError(FromGrpcStatus(b)))
    /\ UNCHANGED <<files, left>>

(***************************************************************************)
(* The temporary name is chosen.  No two running clients have the same,    *)
(* but an earlier one may have left the file.  GetChunk creates the file   *)
(* and starts the call.                                                    *)
(***************************************************************************)
FreshToken(t) == \A c \in Clients : cl[c].token # t

FreeInode(i) == i # dest /\ \A t \in Tokens : temp[t] # i

GetCreateMutant(c, t, i) ==         \* an existing file is opened and truncated
    /\ cl[c].pc = "temp"
    /\ FreshToken(t) /\ FreeInode(i)
    /\ LET f == IF temp[t] = NoFile THEN i ELSE temp[t]
       IN  temp' = [temp EXCEPT ![t] = f] /\ Wipe({f})
    /\ cl' = [cl EXCEPT ![c].token = t, ![c].pc = "recv"]
    /\ call' = [call EXCEPT ![c].pc = "head"]
    /\ UNCHANGED <<dest, worker, left>>

GetCreate(c, t, i) ==
    /\ cl[c].pc = "temp"
    /\ FreshToken(t) /\ temp[t] = NoFile /\ FreeInode(i)
    /\ temp' = [temp EXCEPT ![t] = i]
    /\ cl' = [cl EXCEPT ![c].token = t, ![c].pc = "recv"]
    /\ call' = [call EXCEPT ![c].pc = "head"]
    /\ UNCHANGED <<dest, data, synced, worker, left>>

GetCreateFails(c) ==
    /\ cl[c].pc = "temp"
    /\ \/ /\ \E t \in Tokens : FreshToken(t) /\ temp[t] # NoFile
          /\ Returns(c, "AlreadyExists")
       \/ Returns(c, "IoError")
    /\ UNCHANGED <<files, left>>

-----------------------------------------------------------------------------
(***************************************************************************)
(* WorkerService::GetChunk, as FileChunkStore::Get does it: look the chunk *)
(* up and check the range, open it again, send it in pieces.  The open     *)
(* file keeps its payload whatever happens to the name.  A handler whose   *)
(* client has gone only finds its next Write failing; it ends with the     *)
(* call.                                                                   *)
(***************************************************************************)
Answers(c, status) ==
    /\ call' = [call EXCEPT ![c] = [NoCall EXCEPT !.wire = call[c].wire,
                  !.reply = [grpc |-> ToGrpcStatus[status], code |-> status]]]
    /\ UNCHANGED <<worker, files, cl, left>>

CheckGet(c) ==
    LET h == cl[c].head
    IN  IF CheckHead(h.id) # "Ok" THEN CheckHead(h.id)
        ELSE ValidateByteRange([offset |-> 0, size |-> h.size], chunks[h.id].hdr.size)

HandlerHead(c) ==
    /\ call[c].pc = "head"
    /\ CheckGet(c) = "Ok"
    /\ call' = [call EXCEPT ![c].pc = "open"]
    /\ UNCHANGED <<worker, files, cl, left>>

HandlerOpen(c) ==
    /\ call[c].pc = "open"
    /\ chunks[cl[c].head.id] # NoContent
    /\ call' = [call EXCEPT ![c].payload = chunks[cl[c].head.id].data, ![c].pc = "read"]
    /\ UNCHANGED <<worker, files, cl, left>>

HandlerRefuses(c) ==
    \/ call[c].pc = "head" /\ CheckGet(c) # "Ok" /\ Answers(c, CheckGet(c))
    \/ call[c].pc = "open" /\ chunks[cl[c].head.id] = NoContent /\ Answers(c, "NotFound")

Remaining(c) == cl[c].head.size - call[c].sent

Sends(c, from, n) ==
    /\ call[c].pc = "read"
    /\ n <= kBufferSize /\ n <= Len(call[c].payload) - from
    /\ Len(call[c].wire) < MaxWire
    /\ call' = [call EXCEPT ![c].wire = Append(@, SubSeq(call[c].payload, from + 1, from + n)),
                            ![c].sent = @ + n]
    /\ UNCHANGED <<worker, files, cl, left>>

HandlerSendMutant(c, n) ==          \* the offset does not advance
    n <= Remaining(c) /\ Sends(c, 0, n)

HandlerSendUnbounded(c, n) ==       \* the size of the range is not a limit
    Sends(c, call[c].sent, n)

HandlerSend(c, n) == n <= Remaining(c) /\ Sends(c, call[c].sent, n)

HandlerEnds(c) ==
    /\ call[c].pc = "read"
    /\ \/ Remaining(c) = 0 /\ Answers(c, "Ok")
       \/ /\ Remaining(c) > 0 /\ call[c].sent >= Len(call[c].payload)
          /\ Answers(c, "Corruption")

HandlerFails(c) == call[c].pc # "none" /\ Answers(c, "IoError")

(***************************************************************************)
(* The call breaks (external: gRPC), or the worker dies: frames not yet    *)
(* received are lost.                                                      *)
(***************************************************************************)
Break(c, b) ==
    /\ cl[c].pc = "recv" /\ call[c].reply = NoReply
    /\ call' = [call EXCEPT ![c] =
                  [NoCall EXCEPT !.reply = [grpc |-> b, code |-> FromGrpcStatus(b)]]]
    /\ UNCHANGED <<worker, files, cl, left>>

-----------------------------------------------------------------------------
(***************************************************************************)
(* GrpcDataPlaneClient::GetChunk writes the frames to the file.  When the  *)
(* stream ends the status of the call decides; then the file is synced.    *)
(***************************************************************************)
Recv(c) ==
    /\ cl[c].pc = "recv"
    /\ call[c].wire # << >>
    /\ data' = [data EXCEPT ![FileOf(c)] = @ \o Head(call[c].wire)]
    /\ call' = [call EXCEPT ![c].wire = Tail(@)]
    /\ UNCHANGED <<temp, dest, synced, worker, cl, left>>

RecvFails(c) == cl[c].pc = "recv" /\ call[c].wire # << >> /\ Fails(c, "IoError")

StreamEnded(c) == cl[c].pc = "recv" /\ call[c].wire = << >> /\ call[c].reply # NoReply

RecvEndsRetries(c) ==               \* an unavailable worker is asked again, forever
    /\ StreamEnded(c)
    /\ IF call[c].reply.grpc = "UNAVAILABLE"
       THEN /\ call' = [call EXCEPT ![c] = [NoCall EXCEPT !.pc = "head"]]
            /\ data' = [data EXCEPT ![FileOf(c)] = << >>]
            /\ UNCHANGED <<temp, dest, synced, worker, cl, left>>
       ELSE Fails(c, FromGrpcStatus(call[c].reply.grpc))

RecvEnds(c) ==
    /\ StreamEnded(c)
    /\ \/ /\ call[c].reply.grpc # "OK"
          /\ Fails(c, FromGrpcStatus(call[c].reply.grpc))
       \/ /\ call[c].reply.grpc = "OK"
          /\ Goes(c, "recv", "sync")
          /\ call' = [call EXCEPT ![c] = NoCall]
          /\ UNCHANGED <<worker, files, left>>

SyncMutant(c) ==                    \* fdatasync is not called
    Goes(c, "sync", "verify") /\ UNCHANGED <<files, worker, call, left>>

Sync(c) ==
    /\ Goes(c, "sync", "verify")
    /\ synced' = synced \cup {FileOf(c)}
    /\ UNCHANGED <<temp, dest, data, worker, call, left>>

SyncFails(c) == cl[c].pc = "sync" /\ Fails(c, "IoError")

(***************************************************************************)
(* StorageClient::Get hashes the file, compares it with the metadata, and  *)
(* links it to the destination, which must not exist.                      *)
(***************************************************************************)
MatchesMutant(c) == Len(data[FileOf(c)]) = cl[c].head.size   \* the size only

Matches(c) == /\ Len(data[FileOf(c)]) = cl[c].head.size
              /\ Blake3(data[FileOf(c)]) = cl[c].head.sum

Verify(c) ==
    /\ Goes(c, "verify", "link")
    /\ Matches(c)
    /\ UNCHANGED <<worker, files, call, left>>

VerifyFails(c) ==
    /\ cl[c].pc = "verify"
    /\ (~Matches(c) /\ Fails(c, "Corruption")) \/ Fails(c, "IoError")

Link(c) ==
    /\ Goes(c, "link", "unlink")
    /\ dest = NoFile
    /\ dest' = FileOf(c)
    /\ UNCHANGED <<temp, data, synced, worker, call, left>>

LinkFails(c) ==
    /\ cl[c].pc = "link"
    /\ (dest # NoFile /\ Fails(c, "AlreadyExists")) \/ Fails(c, "IoError")

Unlink(c) == cl[c].pc = "unlink" /\ Fails(c, "Ok")

(***************************************************************************)
(* The client is done, or is killed: what it leaves on disk stays.         *)
(***************************************************************************)
Forget(C) ==
    /\ cl' = [c \in Clients |-> IF c \in C THEN Idle ELSE cl[c]]
    /\ call' = [c \in Clients |-> IF c \in C THEN NoCall ELSE call[c]]
    /\ UNCHANGED worker

Done(c) == cl[c].pc = "done" /\ Forget({c}) /\ UNCHANGED <<files, left>>

Busy(c) == cl[c].pc \in {"recv", "sync", "verify", "link", "unlink"}

Kill(c) == Busy(c) /\ left' = left \cup {cl[c].token} /\ Forget({c}) /\ UNCHANGED files

(***************************************************************************)
(* The client's machine loses power.  A name may be lost, and the data of  *)
(* a file that was not synced may be cut short.                            *)
(***************************************************************************)
Prefixes(s) == {SubSeq(s, 1, n) : n \in 0..Len(s)}

PowerLoss ==
    /\ \E c \in Clients : Busy(c)
    /\ Forget(Clients)
    /\ dest' \in {dest, NoFile}
    /\ \E lost \in SUBSET Tokens :
         temp' = [t \in Tokens |-> IF t \in lost THEN NoFile ELSE temp[t]]
    /\ left' = {t \in Tokens : temp'[t] # NoFile}
    /\ LET kept == {dest'} \cup {temp'[t] : t \in Tokens}
       IN  /\ data' \in {d \in [Inodes -> UNION {Prefixes(data[i]) : i \in Inodes}] :
                           \A i \in Inodes :
                             IF i \notin kept THEN d[i] = << >>
                             ELSE IF i \in synced THEN d[i] = data[i]
                             ELSE d[i] \in Prefixes(data[i])}
           /\ synced' = synced \cap kept

-----------------------------------------------------------------------------
Handler(c) ==
    \/ HandlerHead(c) \/ HandlerOpen(c) \/ HandlerRefuses(c)
    \/ \E n \in 1..MaxSize : HandlerSend(c, n)
    \/ HandlerEnds(c) \/ HandlerFails(c)

ClientStep(c) ==
    \/ HeadOk(c) \/ HeadFails(c)
    \/ \E t \in Tokens, i \in Inodes : GetCreate(c, t, i)
    \/ GetCreateFails(c)
    \/ Recv(c) \/ RecvFails(c) \/ RecvEnds(c)
    \/ Sync(c) \/ SyncFails(c) \/ Verify(c) \/ VerifyFails(c)
    \/ Link(c) \/ LinkFails(c) \/ Unlink(c) \/ Done(c)

Next ==
    \/ \E id \in ChunkIds : Remove(id) \/ \E d \in Payloads : Store(id, d)
    \/ Damage \/ RemoveDest
    \/ \E c \in Clients, id \in ChunkIds : GetStart(c, id) \/ GetRefused(c, id)
    \/ \E c \in Clients : ClientStep(c) \/ Handler(c) \/ Kill(c)
    \/ \E c \in Clients, b \in BreakCodes \ {"CANCELLED"} : Break(c, b)
    \/ PowerLoss

Spec == Init /\ [][Next]_vars

(***************************************************************************)
(* What a client is bound to do: the calls that its state determines.  No  *)
(* system call is assumed to fail; HeadChunk answers or meets its          *)
(* deadline.                                                               *)
(***************************************************************************)
Progress(c) ==
    \/ HeadOk(c) \/ HeadFails(c)
    \/ \E t \in Tokens, i \in Inodes : GetCreate(c, t, i)
    \/ (\E t \in Tokens : FreshToken(t) /\ temp[t] # NoFile) /\ GetCreateFails(c)
    \/ Recv(c) \/ RecvEnds(c)
    \/ Sync(c) \/ Verify(c) \/ (cl[c].pc = "verify" /\ ~Matches(c) /\ VerifyFails(c))
    \/ Link(c) \/ (dest # NoFile /\ LinkFails(c)) \/ Unlink(c) \/ Done(c)

(***************************************************************************)
(* The scheduler runs the clients, and the deadline of a call ends it.     *)
(***************************************************************************)
FairSpec ==
    /\ Spec
    /\ \A c \in Clients : WF_vars(Progress(c)) /\ WF_vars(Break(c, "DEADLINE_EXCEEDED"))

-----------------------------------------------------------------------------
(***************************************************************************)
(* Properties.                                                             *)
(***************************************************************************)

(***************************************************************************)
(* The destination name never stands for anything but a complete object:   *)
(* whatever breaks or dies, if the object is replaced between the two      *)
(* calls, and if the worker's disk damages it at any moment, it holds a    *)
(* payload that was stored under an id.                                    *)
(***************************************************************************)
DestComplete == dest # NoFile => \E id \in ChunkIds : data[dest] \in ever[id]

(***************************************************************************)
(* A destination is neither replaced nor modified by any Get, not even by  *)
(* one whose temporary name was left linked to it by a client that died or *)
(* whose unlink failed.                                                    *)
(***************************************************************************)
DestNotReplaced ==
    [][dest # NoFile /\ dest' # NoFile => dest' = dest /\ data'[dest] = data[dest]]_vars

(***************************************************************************)
(* Every temporary file belongs to a Get in progress, or was left behind   *)
(* under its name by a client that died or whose unlink failed, which the  *)
(* code ignores: Get tries to unlink it on every path, success and failure *)
(* alike.                                                                  *)
(***************************************************************************)
NoStrayTemps ==
    \A t \in Tokens : temp[t] # NoFile =>
        t \in left \/ \E c \in Clients : cl[c].token = t /\ cl[c].pc # "done"

(***************************************************************************)
(* A download is refused as corrupt only if that object was deleted after  *)
(* its HeadChunk or the worker's disk has damaged something: the frames    *)
(* arrive complete and in order.                                           *)
(***************************************************************************)
CorruptionMeansChange ==
    \A c \in Clients : cl[c].pc = "done" /\ cl[c].code = "Corruption" =>
        cl[c].changed \/ damages > 0

(***************************************************************************)
(* The gRPC status of a GetChunk call reads back as the Status that the    *)
(* store returned.                                                         *)
(***************************************************************************)
GetStatusArrives ==
    \A c \in Clients : call[c].reply # NoReply =>
        FromGrpcStatus(call[c].reply.grpc) = call[c].reply.code

(***************************************************************************)
(* Every Get returns.                                                      *)
(***************************************************************************)
GetEnds == \A c \in Clients : cl[c].pc # "idle" ~> cl[c].pc = "idle"
=============================================================================
