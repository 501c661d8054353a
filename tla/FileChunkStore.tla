--------------------------- MODULE FileChunkStore ---------------------------
(***************************************************************************)
(* FileChunkStore: the worker's chunk store, called by the handler threads *)
(* of the gRPC server, on one directory of a POSIX file system.            *)
(*                                                                         *)
(* There is no lock in the code: the threads meet in the directory only,   *)
(* so one action is what a thread does around one system call that reads   *)
(* or changes the directory or a file.  The process may be killed between  *)
(* any two calls and the machine may lose power.                           *)
(*                                                                         *)
(* A file system call that fails for a reason the model does not describe  *)
(* (EIO, ENOSPC, EACCES...) is one of the kinds in Faults.                 *)
(***************************************************************************)
EXTENDS DataPlaneTypes, FiniteSets

CONSTANTS
    Threads,        \* handler threads of the gRPC server
    ChunkIds,       \* chunk ids
    IdLen,          \* length in bytes of each id
    Tokens,         \* "<pid>.<address of the input stream>" suffixes
    Inodes,         \* inodes of the file system
    PutRequests,    \* the Put requests that arrive
    GetRequests,    \* the Get requests that arrive
    HeadIds,        \* the ids of the Head requests that arrive
    DeleteIds,      \* the ids of the Delete requests that arrive
    kBufferSize,    \* bytes per buffer
    Faults,         \* kinds of system calls that may fail
    MaxCrashes,     \* bound on kills and power losses
    NoFile,         \* no directory entry, no open descriptor
    NoToken,        \* no temporary name chosen
    NoContent       \* nothing acknowledged

FaultKinds == {"create", "write", "sync", "link", "unlink", "dirsync",
               "open", "read", "delete"}

Request == [id : ChunkIds, offset : UInt64, size : UInt64, sum : Checksums]

ASSUME StoreAssumption ==
    /\ ChunkIds # {}
    /\ IdLen \in [ChunkIds -> Nat]
    /\ PutRequests \subseteq Request
    /\ GetRequests \subseteq Request
    /\ HeadIds \subseteq ChunkIds /\ DeleteIds \subseteq ChunkIds
    /\ kBufferSize \in Nat \ {0}
    /\ Faults \subseteq FaultKinds
    /\ MaxCrashes \in Nat
    /\ NoFile \notin Inodes
    /\ NoToken \notin Tokens
    /\ NoContent \notin Contents

-----------------------------------------------------------------------------
(***************************************************************************)
(* File names.  PathFor encodes the id in hexadecimal and appends          *)
(* ".chunk"; a temporary name appends ".tmp.<pid>.<address>" to that.  Hex *)
(* digits contain no dot, so no name is both final and temporary, and two  *)
(* ids never share a name.                                                 *)
(***************************************************************************)
FinalNames == [kind : {"final"}, id : ChunkIds]
TempNames  == [kind : {"temp"}, id : ChunkIds, token : Tokens]
Names      == FinalNames \cup TempNames

PathFor(id)      == [kind |-> "final", id |-> id]
TempPath(id, k)  == [kind |-> "temp", id |-> id, token |-> k]

kNameMax == 255                    \* NAME_MAX of the file system
kTempSuffixLength == 27            \* ".tmp." pid "." 15-digit address

FinalNameLength(id) == 2 * IdLen[id] + 6

FinalNameFits(id) == FinalNameLength(id) <= kNameMax
TempNameFits(id)  == FinalNameLength(id) + kTempSuffixLength <= kNameMax

-----------------------------------------------------------------------------
VARIABLES
    (***********************************************************************)
    (* The file system.                                                    *)
    (***********************************************************************)
    dir,      \* the directory: which inode a name refers to
    disk,     \* what each name may refer to after a power loss
    file,     \* contents of the inodes
    synced,   \* inodes whose contents are on stable storage
    (***********************************************************************)
    (* The handler threads.                                                *)
    (***********************************************************************)
    pc,       \* where the thread is
    req,      \* its request
    token,    \* suffix of the temporary name of its Put
    ino,      \* the inode its descriptor is open on
    hashed,   \* Put: the bytes received, written and hashed
    out,      \* Get: the bytes handed to the output stream
    res,      \* the operation and the status it returned
    (***********************************************************************)
    (* History and bound.                                                  *)
    (***********************************************************************)
    acked,    \* history: payload whose Put returned Ok, until deleted
    crashes   \* kills and power losses so far

fsVars     == <<dir, disk, file, synced>>
threadVars == <<pc, req, token, ino, hashed, out, res>>
vars       == <<dir, disk, file, synced, pc, req, token, ino, hashed, out, res,
                acked, crashes>>

Writing == {"putStream", "putSync", "putLink", "putCleanup"}
PutPC   == Writing \cup {"putDirSync"}
GetPC   == {"getOpen", "getRead"}
PCs     == PutPC \cup GetPC \cup {"idle", "done"}

NoRequest == [id |-> CHOOSE id \in ChunkIds : TRUE, offset |-> 0, size |-> 0,
              sum |-> CHOOSE s \in Checksums : TRUE]
NoResult  == [op |-> "none", code |-> "Ok"]

Results == [op : {"none", "put", "get", "head", "delete"}, code : StatusCode]

VariableTypes ==
    /\ dir \in [Names -> Inodes \cup {NoFile}]
    /\ disk \in [Names -> SUBSET (Inodes \cup {NoFile})]
    /\ file \in [Inodes -> ChunkFile]
    /\ synced \in SUBSET Inodes
    /\ pc \in [Threads -> PCs]
    /\ req \in [Threads -> Request]
    /\ token \in [Threads -> Tokens \cup {NoToken}]
    /\ ino \in [Threads -> Inodes \cup {NoFile}]
    /\ hashed \in [Threads -> Contents]
    /\ out \in [Threads -> Contents]
    /\ res \in [Threads -> Results]
    /\ acked \in [ChunkIds -> Contents \cup {NoContent}]
    /\ crashes \in 0..MaxCrashes

(***************************************************************************)
(* The types of the variables, and the size of an upload in progress: Put  *)
(* never writes more to its file than the request announced, whatever the  *)
(* stream brings.                                                          *)
(***************************************************************************)
TypeOK == VariableTypes /\ \A t \in Threads : pc[t] \in PutPC => Len(hashed[t]) <= req[t].size

(***************************************************************************)
(* A worker starts on a storage root without chunks; create_directories    *)
(* makes it on the first Put.                                              *)
(***************************************************************************)
Init ==
    /\ dir = [n \in Names |-> NoFile]
    /\ disk = [n \in Names |-> {NoFile}]
    /\ file = [i \in Inodes |-> Blank]
    /\ synced = {}
    /\ pc = [t \in Threads |-> "idle"]
    /\ req = [t \in Threads |-> NoRequest]
    /\ token = [t \in Threads |-> NoToken]
    /\ ino = [t \in Threads |-> NoFile]
    /\ hashed = [t \in Threads |-> << >>]
    /\ out = [t \in Threads |-> << >>]
    /\ res = [t \in Threads |-> NoResult]
    /\ acked = [id \in ChunkIds |-> NoContent]
    /\ crashes = 0

-----------------------------------------------------------------------------
(***************************************************************************)
(* File system calls (external).  A change of the directory reaches the    *)
(* disk at some time before the next fsync of the directory, one name      *)
(* independently of another; a change of a file does so before fdatasync.  *)
(* create_directories does not fsync the parent of the storage root: until *)
(* the root is fsynced a power loss may take it away with all its names,   *)
(* which disk allows for, as none has lost NoFile by then; as on ext4, the *)
(* fsync of the root makes its own entry durable too.                      *)
(***************************************************************************)
SetEntry(n, i) ==
    /\ dir' = [dir EXCEPT ![n] = i]
    /\ disk' = [disk EXCEPT ![n] = @ \cup {i}]

Unlink(n) == SetEntry(n, NoFile)

FsyncDirectory == disk' = [n \in Names |-> {dir[n]}]

Referenced(i) == \/ \E n \in Names : i \in disk[n]
                 \/ \E t \in Threads : ino[t] = i

(***************************************************************************)
(* Blocks of inodes that are no longer referenced are given back.          *)
(***************************************************************************)
Reclaim(f) ==
    /\ file' = [i \in Inodes |-> IF Referenced(i)' THEN f[i] ELSE Blank]
    /\ synced' = {i \in synced : Referenced(i)'}

-----------------------------------------------------------------------------
TempOf(t) == TempPath(req[t].id, token[t])

Reply(t, op, code) ==
    /\ pc' = [pc EXCEPT ![t] = "done"]
    /\ res' = [res EXCEPT ![t] = [op |-> op, code |-> code]]

(***************************************************************************)
(* The cleanup lambda of Put: the result of unlink is ignored.             *)
(***************************************************************************)
Cleanup(t) ==
    \/ Unlink(TempOf(t))
    \/ "unlink" \in Faults /\ UNCHANGED <<dir, disk>>

PutFails(t, code) ==
    /\ Cleanup(t)
    /\ Reply(t, "put", code)
    /\ UNCHANGED <<file, synced, req, token, ino, hashed, out, acked, crashes>>

-----------------------------------------------------------------------------
(***************************************************************************)
(* Put, up to the creation of the temporary file.                          *)
(***************************************************************************)
PutCheck(r) == IF ValidateId(IdLen[r.id]) = "Ok" THEN ValidateChecksum(r.sum)
               ELSE "InvalidArgument"

PutRefuse(t, r) ==
    /\ pc[t] = "idle"
    /\ \/ /\ PutCheck(r) # "Ok"
          /\ Reply(t, "put", PutCheck(r))
       \/ /\ PutCheck(r) = "Ok"
          /\ ~TempNameFits(r.id) \/ "create" \in Faults
          /\ Reply(t, "put", "IoError")
    /\ req' = [req EXCEPT ![t] = r]
    /\ UNCHANGED <<fsVars, token, ino, hashed, out, acked, crashes>>

(***************************************************************************)
(* The address of the input stream tells apart the Puts that run at the    *)
(* same time, and nothing else: a process may have the pid and a stream    *)
(* the address that an earlier one had.                                    *)
(***************************************************************************)
FreshToken(k) == \A t \in Threads : token[t] # k

PutCollides(t, r, k) ==
    /\ pc[t] = "idle"
    /\ PutCheck(r) = "Ok" /\ TempNameFits(r.id)
    /\ FreshToken(k)
    /\ dir[TempPath(r.id, k)] # NoFile
    /\ Reply(t, "put", "Unavailable")
    /\ req' = [req EXCEPT ![t] = r]
    /\ UNCHANGED <<fsVars, token, ino, hashed, out, acked, crashes>>

PutCreateMutant(t, r, k) ==         \* O_TRUNC in the place of O_EXCL
    /\ pc[t] = "idle"
    /\ PutCheck(r) = "Ok" /\ TempNameFits(r.id)
    /\ FreshToken(k)
    /\ \E i \in Inodes :
        /\ \/ i = dir[TempPath(r.id, k)]
           \/ dir[TempPath(r.id, k)] = NoFile /\ ~Referenced(i)
        /\ SetEntry(TempPath(r.id, k), i)
        /\ file' = [file EXCEPT ![i] = [hdr  |-> MakeHeader(r.size, r.sum),
                                        data |-> << >>]]
        /\ synced' = synced \ {i}
        /\ ino' = [ino EXCEPT ![t] = i]
    /\ pc' = [pc EXCEPT ![t] = "putStream"]
    /\ req' = [req EXCEPT ![t] = r]
    /\ token' = [token EXCEPT ![t] = k]
    /\ UNCHANGED <<hashed, out, res, acked, crashes>>

PutCreate(t, r, k) ==
    /\ pc[t] = "idle"
    /\ PutCheck(r) = "Ok" /\ TempNameFits(r.id)
    /\ FreshToken(k)
    /\ dir[TempPath(r.id, k)] = NoFile
    /\ \E i \in Inodes :
        /\ ~Referenced(i)
        /\ SetEntry(TempPath(r.id, k), i)
        /\ file' = [file EXCEPT ![i] = [hdr  |-> MakeHeader(r.size, r.sum),
                                        data |-> << >>]]
        /\ synced' = synced \ {i}
        /\ ino' = [ino EXCEPT ![t] = i]
    /\ pc' = [pc EXCEPT ![t] = "putStream"]
    /\ req' = [req EXCEPT ![t] = r]
    /\ token' = [token EXCEPT ![t] = k]
    /\ UNCHANGED <<hashed, out, res, acked, crashes>>

(***************************************************************************)
(* The streaming loop.  Read hands over any bytes it likes, or end of      *)
(* file, or an error: what a client sent, in the pieces the transport      *)
(* made of it, cut short wherever the connection broke.  MaxSize bounds    *)
(* what is received for a request that announces more.                     *)
(***************************************************************************)
PutReadMutant(t, bytes) ==          \* the announced size is not checked
    /\ pc[t] = "putStream"
    /\ Len(bytes) <= kBufferSize
    /\ Len(hashed[t]) + Len(bytes) <= MaxSize
    /\ hashed' = [hashed EXCEPT ![t] = @ \o bytes]
    /\ file' = [file EXCEPT ![ino[t]].data = @ \o bytes]
    /\ synced' = synced \ {ino[t]}
    /\ UNCHANGED <<dir, disk, pc, req, token, ino, out, res, acked, crashes>>

PutRead(t, bytes) ==
    /\ pc[t] = "putStream"
    /\ Len(bytes) <= kBufferSize
    /\ Len(bytes) <= req[t].size - Len(hashed[t])
    /\ Len(hashed[t]) + Len(bytes) <= MaxSize
    /\ hashed' = [hashed EXCEPT ![t] = @ \o bytes]
    /\ file' = [file EXCEPT ![ino[t]].data = @ \o bytes]
    /\ synced' = synced \ {ino[t]}
    /\ UNCHANGED <<dir, disk, pc, req, token, ino, out, res, acked, crashes>>

PutTooLong(t, bytes) ==
    /\ pc[t] = "putStream"
    /\ Len(bytes) <= kBufferSize
    /\ Len(bytes) > req[t].size - Len(hashed[t])
    /\ PutFails(t, "Corruption")

PutReadFails(t) == pc[t] = "putStream" /\ PutFails(t, "InvalidArgument")

PutWriteFails(t) ==
    /\ pc[t] = "putStream"
    /\ "write" \in Faults
    /\ PutFails(t, "IoError")

PutEofMutant(t) ==                  \* the checksum is not compared
    /\ pc[t] = "putStream"
    /\ Len(hashed[t]) = req[t].size
    /\ pc' = [pc EXCEPT ![t] = "putSync"]
    /\ UNCHANGED <<fsVars, req, token, ino, hashed, out, res, acked, crashes>>

PutEof(t) ==
    /\ pc[t] = "putStream"
    /\ Len(hashed[t]) = req[t].size
    /\ Blake3(hashed[t]) = req[t].sum
    /\ pc' = [pc EXCEPT ![t] = "putSync"]
    /\ UNCHANGED <<fsVars, req, token, ino, hashed, out, res, acked, crashes>>

PutMismatch(t) ==
    /\ pc[t] = "putStream"
    /\ ~(Len(hashed[t]) = req[t].size /\ Blake3(hashed[t]) = req[t].sum)
    /\ PutFails(t, "Corruption")

(***************************************************************************)
(* Put, from fdatasync to the reply.  The descriptor is closed after       *)
(* fdatasync; ino keeps naming the inode so that it can be spoken about.   *)
(***************************************************************************)
PutSyncMutant(t) ==                 \* no fdatasync before the link
    /\ pc[t] = "putSync"
    /\ pc' = [pc EXCEPT ![t] = "putLink"]
    /\ UNCHANGED <<fsVars, req, token, ino, hashed, out, res, acked, crashes>>

PutSync(t) ==
    /\ pc[t] = "putSync"
    /\ synced' = synced \cup {ino[t]}
    /\ pc' = [pc EXCEPT ![t] = "putLink"]
    /\ UNCHANGED <<dir, disk, file, req, token, ino, hashed, out, res, acked,
                   crashes>>

PutSyncFails(t) ==
    /\ pc[t] = "putSync"
    /\ "sync" \in Faults
    /\ PutFails(t, "IoError")

PutLinkMutant(t) ==                 \* rename, which replaces the target
    /\ pc[t] = "putLink"
    /\ dir[TempOf(t)] # NoFile
    /\ SetEntry(PathFor(req[t].id), dir[TempOf(t)])
    /\ pc' = [pc EXCEPT ![t] = "putCleanup"]
    /\ UNCHANGED <<file, synced, req, token, ino, hashed, out, res, acked,
                   crashes>>

PutLink(t) ==
    /\ pc[t] = "putLink"
    /\ dir[TempOf(t)] # NoFile
    /\ dir[PathFor(req[t].id)] = NoFile
    /\ SetEntry(PathFor(req[t].id), dir[TempOf(t)])
    /\ pc' = [pc EXCEPT ![t] = "putCleanup"]
    /\ UNCHANGED <<file, synced, req, token, ino, hashed, out, res, acked,
                   crashes>>

PutLinkExistsNoCleanup(t) ==        \* returns without cleanup
    /\ pc[t] = "putLink"
    /\ dir[PathFor(req[t].id)] # NoFile
    /\ Reply(t, "put", "AlreadyExists")
    /\ UNCHANGED <<fsVars, req, token, ino, hashed, out, acked, crashes>>

PutLinkExistsReplaces(t) ==         \* the link is forced, then the status set
    /\ pc[t] = "putLink"
    /\ dir[PathFor(req[t].id)] # NoFile
    /\ SetEntry(PathFor(req[t].id), ino[t])
    /\ Reply(t, "put", "AlreadyExists")
    /\ UNCHANGED <<file, synced, req, token, ino, hashed, out, acked, crashes>>

PutLinkExists(t) ==
    /\ pc[t] = "putLink"
    /\ dir[PathFor(req[t].id)] # NoFile
    /\ PutFails(t, "AlreadyExists")

PutLinkFails(t) ==
    /\ pc[t] = "putLink"
    /\ dir[TempOf(t)] = NoFile \/ "link" \in Faults
    /\ PutFails(t, "IoError")

PutCleanup(t) ==
    /\ pc[t] = "putCleanup"
    /\ Cleanup(t)
    /\ pc' = [pc EXCEPT ![t] = "putDirSync"]
    /\ UNCHANGED <<file, synced, req, token, ino, hashed, out, res, acked,
                   crashes>>

PutDirSyncMutant(t) ==              \* Ok without fsync of the directory
    /\ pc[t] = "putDirSync"
    /\ Reply(t, "put", "Ok")
    /\ acked' = IF dir[PathFor(req[t].id)] = ino[t]
                THEN [acked EXCEPT ![req[t].id] = hashed[t]]
                ELSE acked
    /\ UNCHANGED <<fsVars, req, token, ino, hashed, out, crashes>>

(***************************************************************************)
(* The chunk counts as acknowledged if it is still the one under its id: a *)
(* Delete may have come between the link and the reply.                    *)
(***************************************************************************)
PutDirSync(t) ==
    /\ pc[t] = "putDirSync"
    /\ FsyncDirectory
    /\ Reply(t, "put", "Ok")
    /\ acked' = IF dir[PathFor(req[t].id)] = ino[t]
                THEN [acked EXCEPT ![req[t].id] = hashed[t]]
                ELSE acked
    /\ UNCHANGED <<dir, file, synced, req, token, ino, hashed, out, crashes>>

PutDirSyncFails(t) ==
    /\ pc[t] = "putDirSync"
    /\ "dirsync" \in Faults
    /\ Reply(t, "put", "IoError")
    /\ UNCHANGED <<fsVars, req, token, ino, hashed, out, acked, crashes>>

-----------------------------------------------------------------------------
(***************************************************************************)
(* Head opens the final name, reads the header and closes the file again.  *)
(***************************************************************************)
HeadStatus(id) ==
    IF ValidateId(IdLen[id]) # "Ok" THEN "InvalidArgument"
    ELSE IF ~FinalNameFits(id) THEN "IoError"
    ELSE IF dir[PathFor(id)] = NoFile THEN "NotFound"
    ELSE ReadHeader(file[dir[PathFor(id)]])

Exists(id) == HeadStatus(id) = "Ok"

HeadChunk(t, id) ==
    /\ pc[t] = "idle"
    /\ \/ Reply(t, "head", HeadStatus(id))
       \/ /\ ValidateId(IdLen[id]) = "Ok" /\ Faults \cap {"open", "read"} # {}
          /\ Reply(t, "head", "IoError")
    /\ req' = [req EXCEPT ![t].id = id]
    /\ UNCHANGED <<fsVars, token, ino, hashed, out, acked, crashes>>

(***************************************************************************)
(* Get begins with a Head whose size it checks the range against, ...      *)
(***************************************************************************)
GetRefuse(t, r) ==
    /\ pc[t] = "idle"
    /\ \/ /\ HeadStatus(r.id) # "Ok"
          /\ Reply(t, "get", HeadStatus(r.id))
       \/ /\ HeadStatus(r.id) = "Ok"
          /\ ValidateByteRange(r, file[dir[PathFor(r.id)]].hdr.size) # "Ok"
          /\ Reply(t, "get", "InvalidArgument")
       \/ /\ ValidateId(IdLen[r.id]) = "Ok" /\ Faults \cap {"open", "read"} # {}
          /\ Reply(t, "get", "IoError")
    /\ req' = [req EXCEPT ![t] = r]
    /\ UNCHANGED <<fsVars, token, ino, hashed, out, acked, crashes>>

GetHead(t, r) ==
    /\ pc[t] = "idle"
    /\ HeadStatus(r.id) = "Ok"
    /\ ValidateByteRange(r, file[dir[PathFor(r.id)]].hdr.size) = "Ok"
    /\ req' = [req EXCEPT ![t] = r]
    /\ pc' = [pc EXCEPT ![t] = "getOpen"]
    /\ UNCHANGED <<fsVars, token, ino, hashed, out, res, acked, crashes>>

(***************************************************************************)
(* ... opens the name a second time, ...                                   *)
(***************************************************************************)
GetOpen(t) ==
    /\ pc[t] = "getOpen"
    /\ dir[PathFor(req[t].id)] # NoFile
    /\ ino' = [ino EXCEPT ![t] = dir[PathFor(req[t].id)]]
    /\ pc' = [pc EXCEPT ![t] = "getRead"]
    /\ UNCHANGED <<fsVars, req, token, hashed, out, res, acked, crashes>>

GetGone(t) ==
    /\ pc[t] = "getOpen"
    /\ dir[PathFor(req[t].id)] = NoFile
    /\ Reply(t, "get", "NotFound")
    /\ UNCHANGED <<fsVars, req, token, ino, hashed, out, acked, crashes>>

GetOpenFails(t) ==
    /\ pc[t] = "getOpen"
    /\ "open" \in Faults
    /\ Reply(t, "get", "IoError")
    /\ UNCHANGED <<fsVars, req, token, ino, hashed, out, acked, crashes>>

(***************************************************************************)
(* ... and copies what it reads to the output stream.  pread may return    *)
(* fewer bytes than asked for; zero bytes means the file ended early.  The *)
(* position in the file, of 64 bits, counts the header; that an off_t can  *)
(* hold it follows, as no file is longer.                                  *)
(***************************************************************************)
Position(t) == Plus(Plus(req[t].offset, kHeaderSize), Len(out[t]))
Remaining(t) == req[t].size - Len(out[t])

GetRead(t, n) ==
    /\ pc[t] = "getRead"
    /\ n <= Remaining(t) /\ n <= kBufferSize
    /\ n <= FileLength(file[ino[t]]) - Position(t)
    /\ out' = [out EXCEPT ![t] = @ \o Pread(file[ino[t]], Position(t), n)]
    /\ UNCHANGED <<fsVars, pc, req, token, ino, hashed, res, acked, crashes>>

GetShortMutant(t) ==                \* a count of zero is not an error
    /\ pc[t] = "getRead"
    /\ Remaining(t) > 0
    /\ Position(t) >= FileLength(file[ino[t]])
    /\ UNCHANGED vars

GetShort(t) ==
    /\ pc[t] = "getRead"
    /\ Remaining(t) > 0
    /\ Position(t) >= FileLength(file[ino[t]])
    /\ Reply(t, "get", "Corruption")
    /\ UNCHANGED <<fsVars, req, token, ino, hashed, out, acked, crashes>>

GetReadFails(t) ==
    /\ pc[t] = "getRead"
    /\ Remaining(t) > 0
    /\ "read" \in Faults
    /\ Reply(t, "get", "IoError")
    /\ UNCHANGED <<fsVars, req, token, ino, hashed, out, acked, crashes>>

(***************************************************************************)
(* The client closed the stream.                                           *)
(***************************************************************************)
GetWriteFails(t) ==
    /\ pc[t] = "getRead"
    /\ Remaining(t) > 0 /\ Position(t) < FileLength(file[ino[t]])
    /\ Reply(t, "get", "Unavailable")
    /\ UNCHANGED <<fsVars, req, token, ino, hashed, out, acked, crashes>>

GetEnd(t) ==
    /\ pc[t] = "getRead"
    /\ Remaining(t) = 0
    /\ Reply(t, "get", "Ok")
    /\ UNCHANGED <<fsVars, req, token, ino, hashed, out, acked, crashes>>

-----------------------------------------------------------------------------
DeleteChunk(t, id) ==
    /\ pc[t] = "idle"
    /\ ValidateId(IdLen[id]) = "Ok"
    /\ dir[PathFor(id)] # NoFile
    /\ Unlink(PathFor(id))
    /\ Reply(t, "delete", "Ok")
    /\ req' = [req EXCEPT ![t].id = id]
    /\ acked' = [acked EXCEPT ![id] = NoContent]
    /\ UNCHANGED <<file, synced, token, ino, hashed, out, crashes>>

DeleteFails(t, id) ==
    /\ pc[t] = "idle"
    /\ \/ /\ ValidateId(IdLen[id]) # "Ok"
          /\ Reply(t, "delete", "InvalidArgument")
       \/ /\ ValidateId(IdLen[id]) = "Ok"
          /\ FinalNameFits(id) /\ dir[PathFor(id)] = NoFile
          /\ Reply(t, "delete", "NotFound")
       \/ /\ ValidateId(IdLen[id]) = "Ok"
          /\ ~FinalNameFits(id) \/ "delete" \in Faults
          /\ Reply(t, "delete", "IoError")
    /\ req' = [req EXCEPT ![t].id = id]
    /\ UNCHANGED <<fsVars, token, ino, hashed, out, acked, crashes>>

-----------------------------------------------------------------------------
(***************************************************************************)
(* The handler returns: its descriptors are closed, its locals are gone.   *)
(***************************************************************************)
Return(t) ==
    /\ pc[t] = "done"
    /\ pc' = [pc EXCEPT ![t] = "idle"]
    /\ req' = [req EXCEPT ![t] = NoRequest]
    /\ token' = [token EXCEPT ![t] = NoToken]
    /\ ino' = [ino EXCEPT ![t] = NoFile]
    /\ hashed' = [hashed EXCEPT ![t] = << >>]
    /\ out' = [out EXCEPT ![t] = << >>]
    /\ res' = [res EXCEPT ![t] = NoResult]
    /\ UNCHANGED <<dir, disk, acked, crashes>>
    /\ Reclaim(file)

ProcessDies ==
    /\ crashes < MaxCrashes
    /\ crashes' = crashes + 1
    /\ pc' = [t \in Threads |-> "idle"]
    /\ req' = [t \in Threads |-> NoRequest]
    /\ token' = [t \in Threads |-> NoToken]
    /\ ino' = [t \in Threads |-> NoFile]
    /\ hashed' = [t \in Threads |-> << >>]
    /\ out' = [t \in Threads |-> << >>]
    /\ res' = [t \in Threads |-> NoResult]
    /\ UNCHANGED acked

(***************************************************************************)
(* The worker is killed and started again on the same storage root.        *)
(***************************************************************************)
Crash ==
    /\ ProcessDies
    /\ UNCHANGED <<dir, disk>>
    /\ Reclaim(file)

(***************************************************************************)
(* What a file that was not synchronized may look like after a power loss: *)
(* the header may be lost and the payload cut short.                       *)
(***************************************************************************)
Torn(f) == {[hdr |-> h, data |-> SubSeq(f.data, 1, n)] :
                h \in {f.hdr, NoHeader}, n \in 0..Len(f.data)}

Unsettled == {n \in Names : disk[n] # {dir[n]}}
Dirty     == {i \in Inodes \ synced : file[i] # Blank}

PowerLoss ==
    /\ ProcessDies
    /\ \E d \in [Unsettled -> UNION {disk[n] : n \in Unsettled}] :
        /\ \A n \in Unsettled : d[n] \in disk[n]
        /\ dir' = [n \in Names |-> IF n \in Unsettled THEN d[n] ELSE dir[n]]
        /\ disk' = [n \in Names |-> {dir'[n]}]
    /\ \E f \in [Dirty -> UNION {Torn(file[i]) : i \in Dirty}] :
        /\ \A i \in Dirty : f[i] \in Torn(file[i])
        /\ Reclaim([i \in Inodes |-> IF i \in Dirty THEN f[i] ELSE file[i]])

-----------------------------------------------------------------------------
Put(t) ==
    \/ \E r \in PutRequests :
        \/ PutRefuse(t, r)
        \/ \E k \in Tokens : PutCollides(t, r, k) \/ PutCreate(t, r, k)
    \/ \E b \in Contents \ {<< >>} :
        PutRead(t, b) \/ PutTooLong(t, b)
    \/ PutReadFails(t) \/ PutWriteFails(t) \/ PutEof(t) \/ PutMismatch(t)
    \/ PutSync(t) \/ PutSyncFails(t)
    \/ PutLink(t) \/ PutLinkExists(t) \/ PutLinkFails(t)
    \/ PutCleanup(t) \/ PutDirSync(t) \/ PutDirSyncFails(t)

Get(t) ==
    \/ \E r \in GetRequests : GetRefuse(t, r) \/ GetHead(t, r)
    \/ GetOpen(t) \/ GetGone(t) \/ GetOpenFails(t)
    \/ \E n \in 1..MaxSize : GetRead(t, n)
    \/ GetShort(t) \/ GetReadFails(t) \/ GetWriteFails(t) \/ GetEnd(t)

Next ==
    \/ \E t \in Threads :
        \/ Put(t) \/ Get(t) \/ Return(t)
        \/ \E id \in HeadIds : HeadChunk(t, id)
        \/ \E id \in DeleteIds : DeleteChunk(t, id) \/ DeleteFails(t, id)
    \/ Crash
    \/ PowerLoss

Spec == Init /\ [][Next]_vars

(***************************************************************************)
(* The scheduler runs a handler until it returns; its client keeps sending *)
(* or closes the stream, at the latest when the deadline of its call ends  *)
(* it.  No failure of a system call and no further request is assumed.     *)
(***************************************************************************)
Progress(t) ==
    \/ \E b \in Contents \ {<< >>} :
        PutRead(t, b) \/ PutTooLong(t, b)
    \/ PutEof(t) \/ PutMismatch(t) \/ PutSync(t)
    \/ PutLink(t) \/ PutLinkExists(t)
    \/ PutCleanup(t) \/ PutDirSync(t)
    \/ GetOpen(t) \/ GetGone(t)
    \/ \E n \in 1..MaxSize : GetRead(t, n)
    \/ GetShort(t) \/ GetEnd(t) \/ Return(t)

FairSpec == Spec /\ \A t \in Threads : WF_vars(Progress(t))

-----------------------------------------------------------------------------
(***************************************************************************)
(* Properties.                                                             *)
(***************************************************************************)

(***************************************************************************)
(* Whatever is under a chunk's final name, now or after a power loss, is a *)
(* complete chunk: its header parses and its size and checksum are those   *)
(* of its payload.  Concurrent Puts, leftover temporary files, kills and   *)
(* power losses must not break it: Put links a file only after the byte    *)
(* count, the checksum and fdatasync, and O_EXCL keeps every later Put     *)
(* from writing to a file that is linked.                                  *)
(***************************************************************************)
CommittedIntact ==
    \A id \in ChunkIds : \A i \in disk[PathFor(id)] \ {NoFile} :
        Intact(file[i]) /\ i \in synced

(***************************************************************************)
(* A chunk whose Put returned Ok is there with the payload of that Put,    *)
(* until a Delete removes it: no crash, power loss or other Put takes it   *)
(* away (Put synchronizes the directory before it returns Ok).             *)
(***************************************************************************)
AckedSurvives ==
    \A id \in ChunkIds : acked[id] # NoContent =>
        /\ Exists(id)
        /\ file[dir[PathFor(id)]].data = acked[id]

(***************************************************************************)
(* The bytes a Get has streamed are the first bytes of its range in one    *)
(* intact chunk, whatever other threads delete or put meanwhile; all of    *)
(* the range when it returned Ok.                                          *)
(***************************************************************************)
GetExact ==
    \A t \in Threads :
        pc[t] = "getRead" \/ (pc[t] = "done" /\ res[t].op = "get" /\ ino[t] # NoFile) =>
            /\ Intact(file[ino[t]])
            /\ \A i \in 1..Len(out[t]) :
                /\ req[t].offset + i <= Len(file[ino[t]].data)
                /\ out[t][i] = file[ino[t]].data[req[t].offset + i]
            /\ (pc[t] = "done" /\ res[t].code = "Ok") => Len(out[t]) = req[t].size

(***************************************************************************)
(* A Put that is refused leaves nothing that can be read: unless the       *)
(* status is Ok or IoError, no final name refers to the file it wrote.     *)
(***************************************************************************)
RefusedPutLeavesNothing ==
    \A t \in Threads :
        /\ pc[t] = "done" /\ res[t].op = "put" /\ ino[t] # NoFile
        /\ res[t].code \notin {"Ok", "IoError"}
        => \A n \in FinalNames : ino[t] \notin disk[n]

(***************************************************************************)
(* As long as the process lives and unlink works, a temporary file exists  *)
(* only while the Put that created it runs: every return after the open    *)
(* passes through cleanup.                                                 *)
(***************************************************************************)
NoOrphanTemps ==
    crashes = 0 /\ "unlink" \notin Faults =>
        \A n \in TempNames : dir[n] # NoFile =>
            \E t \in Threads : pc[t] \in Writing /\ TempOf(t) = n

(***************************************************************************)
(* The store implements the map of ChunkStore: under every interleaving,   *)
(* crash and power loss a chunk appears whole at one instant, by link, is  *)
(* never replaced, and goes only by a Delete or by a power loss before     *)
(* the directory was synchronized.                                         *)
(***************************************************************************)
PayloadOf(i) == IF i = NoFile THEN NoContent ELSE file[i].data

Abstract == INSTANCE ChunkStore WITH
    chunks <- [id \in ChunkIds |-> PayloadOf(dir[PathFor(id)])],
    stable <- [id \in ChunkIds |-> {PayloadOf(i) : i \in disk[PathFor(id)]}]

Implements == Abstract!Spec

(***************************************************************************)
(* Every call of the store returns: neither the streaming loop nor the     *)
(* loop around pread can go on for ever, even when the file turns out      *)
(* shorter than the Head before it said.                                   *)
(***************************************************************************)
Terminates == \A t \in Threads : pc[t] # "idle" ~> pc[t] = "idle"

-----------------------------------------------------------------------------
(***************************************************************************)
(* What the repository's tests and documents say of the store, and the     *)
(* code does not do.                                                       *)
(***************************************************************************)

(***************************************************************************)
(* "failed writes leave no chunk": a Put that fails, after it wrote a      *)
(* file, has not made it visible.  The fsync of the directory comes after  *)
(* the link, and its failure is returned with the chunk in place.          *)
(***************************************************************************)
FailedWritesLeaveNoChunk ==
    \A t \in Threads :
        pc[t] = "done" /\ res[t].op = "put" /\ ino[t] # NoFile /\ res[t].code # "Ok"
        => \A id \in ChunkIds : dir[PathFor(id)] # ino[t]

(***************************************************************************)
(* Corruption means that persisted content is damaged: a Get that reports  *)
(* it has met a damaged file.  Get takes the size from one open of the     *)
(* name and the bytes from another.                                        *)
(***************************************************************************)
CorruptionMeansDamage ==
    \A t \in Threads :
        pc[t] = "done" /\ res[t] = [op |-> "get", code |-> "Corruption"]
        => \E i \in Inodes : ino[t] = i /\ ~Intact(file[i])

(***************************************************************************)
(* Head of a chunk that does not exist returns NotFound when no system     *)
(* call fails.  An id may have 1024 bytes, its name in hexadecimal only    *)
(* 255.                                                                    *)
(***************************************************************************)
AbsentIsNotFound ==
    \A t \in Threads :
        pc[t] = "done" /\ res[t].op = "head" /\ Faults \cap {"open", "read"} = {}
        => (res[t].code = "IoError" => dir[PathFor(req[t].id)] # NoFile)

=============================================================================
