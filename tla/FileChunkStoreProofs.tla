------------------------ MODULE FileChunkStoreProofs ------------------------
(***************************************************************************)
(* Proofs about FileChunkStore, for any number of threads, ids, inodes,    *)
(* temporary names, payloads, faults, kills and power losses.              *)
(***************************************************************************)
EXTENDS FileChunkStore, DataPlaneProofs

-----------------------------------------------------------------------------
(***************************************************************************)
(* The inductive invariant.  CommittedIntact alone is not inductive: that  *)
(* no step damages a linked file rests on who may write to which inode.    *)
(***************************************************************************)

(* A power loss may always leave the directory as it is. *)
DirOnDisk == \A n \in Names : dir[n] \in disk[n]

(* Running Puts have different temporary names. *)
TokensApart ==
    \A t, u \in Threads : t # u /\ token[t] = token[u] => token[t] = NoToken

(* What the locals of a thread hold at each place. *)
Locals ==
    \A t \in Threads :
        /\ pc[t] = "idle" => /\ token[t] = NoToken /\ ino[t] = NoFile
                             /\ hashed[t] = << >> /\ out[t] = << >>
        /\ pc[t] = "getOpen" => out[t] = << >> /\ ino[t] = NoFile
        /\ pc[t] \in {"getOpen", "getRead"} => req[t].offset + req[t].size <= MaxSize
        /\ pc[t] \in PutPC => token[t] \in Tokens
        /\ pc[t] \in PutPC \cup {"getRead"} => ino[t] \in Inodes

(* Until its file is linked, a Put's temporary name refers to its inode. *)
OwnsTemp ==
    \A t \in Threads :
        pc[t] \in {"putStream", "putSync", "putLink"} => dir[TempOf(t)] = ino[t]

(* Nobody else uses an inode that is being written. *)
Exclusive ==
    \A t \in Threads : pc[t] = "putStream" =>
        /\ \A u \in Threads : u # t => ino[u] # ino[t]
        /\ \A id \in ChunkIds : ino[t] \notin disk[PathFor(id)]

(* A Put's file holds its header and the bytes received, never too many. *)
Written ==
    \A t \in Threads : pc[t] \in PutPC =>
        /\ PutCheck(req[t]) = "Ok"
        /\ TempNameFits(req[t].id)
        /\ file[ino[t]].hdr = MakeHeader(req[t].size, req[t].sum)
        /\ file[ino[t]].data = hashed[t]
        /\ Len(hashed[t]) <= req[t].size

(* After the loop, size and checksum match; after fdatasync, it is safe. *)
Verified ==
    \A t \in Threads :
        /\ pc[t] \in {"putSync", "putLink"} =>
            Len(hashed[t]) = req[t].size /\ Blake3(hashed[t]) = req[t].sum
        /\ pc[t] = "putLink" => ino[t] \in synced

(* An acknowledged chunk is on the disk. *)
AckedStable ==
    \A id \in ChunkIds : acked[id] # NoContent =>
        /\ dir[PathFor(id)] # NoFile
        /\ disk[PathFor(id)] = {dir[PathFor(id)]}
        /\ file[dir[PathFor(id)]].data = acked[id]
        /\ ValidateId(IdLen[id]) = "Ok" /\ FinalNameFits(id)

IInv == /\ VariableTypes /\ DirOnDisk /\ TokensApart /\ Locals /\ OwnsTemp
        /\ Exclusive /\ Written /\ Verified /\ CommittedIntact /\ AckedStable

-----------------------------------------------------------------------------
(***************************************************************************)
(* Lemmas about the operators.                                             *)
(***************************************************************************)

(* Names: final and temporary names of the store never coincide. *)
LEMMA NameFacts ==
    /\ \A id \in ChunkIds : PathFor(id) \in Names
    /\ \A id \in ChunkIds, k \in Tokens : TempPath(id, k) \in Names
    /\ \A id, jd \in ChunkIds, k \in Tokens : PathFor(id) # TempPath(jd, k)
    /\ \A id, jd \in ChunkIds : PathFor(id) = PathFor(jd) => id = jd
    /\ \A id, jd \in ChunkIds, k, l \in Tokens :
        TempPath(id, k) = TempPath(jd, l) => id = jd /\ k = l
BY DEF PathFor, TempPath, Names, FinalNames, TempNames

(* The request of a thread that has none. *)
LEMMA NoRequestType == NoRequest \in Request
<1>1. 0 \in UInt64
  BY SizeAssumption DEF UInt64
<1>2. Checksums # {} /\ ChunkIds # {}
  BY DigestAssumption, StoreAssumption, EmptyContents
<1> QED BY <1>1, <1>2 DEF NoRequest, Request

-----------------------------------------------------------------------------
(***************************************************************************)
(* The initial state.                                                      *)
(***************************************************************************)

(* An empty storage root satisfies the invariant. *)
LEMMA InitInv == ASSUME Init PROVE IInv
<1> USE DEF Init
<1>1. VariableTypes
  <2>1. Blank \in ChunkFile
    BY EmptyContents DEF Blank, ChunkFile, Headers
  <2>2. NoRequest \in Request
    BY NoRequestType
  <2> QED BY <2>1, <2>2, EmptyContents, StoreAssumption
          DEF VariableTypes, PCs, NoResult, Results, StatusCode
<1>2. DirOnDisk /\ TokensApart
  BY DEF DirOnDisk, TokensApart
<1>3. Locals /\ OwnsTemp /\ Exclusive /\ Written /\ Verified
  BY DEF Locals, OwnsTemp, Exclusive, Written, Verified, PutPC, Writing
<1>4. CommittedIntact /\ AckedStable
  BY NameFacts DEF CommittedIntact, AckedStable
<1> QED BY <1>1, <1>2, <1>3, <1>4 DEF IInv

-----------------------------------------------------------------------------
(***************************************************************************)
(* The steps.                                                              *)
(***************************************************************************)

(* A thread that returns a status without touching the file system. *)
LEMMA ReplyStep ==
    ASSUME IInv, NEW t \in Threads,
           pc' = [pc EXCEPT ![t] = "done"],
           res' \in [Threads -> Results],
           req' \in [Threads -> Request],
           \A u \in Threads : u # t => req'[u] = req[u],
           UNCHANGED <<fsVars, token, ino, hashed, out, acked, crashes>>
    PROVE  IInv'
<1> USE DEF IInv, fsVars
<1>1. VariableTypes'
  BY DEF VariableTypes, PCs
<1>2. DirOnDisk' /\ TokensApart'
  BY DEF DirOnDisk, TokensApart
<1>3. \A u \in Threads : pc'[u] # "done" => u # t /\ pc'[u] = pc[u] /\ req'[u] = req[u]
  BY DEF VariableTypes
<1>4. Locals'
  BY <1>3 DEF Locals, PutPC, Writing
<1>5. OwnsTemp'
  BY <1>3 DEF OwnsTemp, TempOf
<1>6. Exclusive'
  BY <1>3 DEF Exclusive
<1>7. Written'
  BY <1>3 DEF Written, PutPC, Writing
<1>8. Verified'
  BY <1>3 DEF Verified
<1>9. CommittedIntact' /\ AckedStable'
  BY DEF CommittedIntact, AckedStable
<1> QED BY <1>1, <1>2, <1>4, <1>5, <1>6, <1>7, <1>8, <1>9

(* The steps of a thread that only return a status. *)
LEMMA ReplySteps ==
    ASSUME IInv, NEW t \in Threads,
           \/ \E r \in PutRequests : PutRefuse(t, r)
           \/ \E r \in PutRequests, k \in Tokens : PutCollides(t, r, k)
           \/ PutDirSyncFails(t)
           \/ \E id \in HeadIds : HeadChunk(t, id)
           \/ \E r \in GetRequests : GetRefuse(t, r)
           \/ GetGone(t) \/ GetOpenFails(t) \/ GetShort(t) \/ GetReadFails(t)
           \/ GetWriteFails(t) \/ GetEnd(t)
           \/ \E id \in DeleteIds : DeleteFails(t, id)
    PROVE  IInv'
<1>1. VariableTypes
  BY DEF IInv
<1>2. \A op \in {"put", "get", "head", "delete"}, code \in StatusCode :
        Reply(t, op, code) => /\ pc' = [pc EXCEPT ![t] = "done"]
                              /\ res' \in [Threads -> Results]
  BY <1>1 DEF Reply, VariableTypes, Results
<1>3. \A r \in PutRequests : PutCheck(r) \in StatusCode
  BY DEF PutCheck, ValidateChecksum, StatusCode
<1>4. \A id \in ChunkIds : HeadStatus(id) \in StatusCode
  BY DEF HeadStatus, ReadHeader, StatusCode
<1>5. PutRequests \subseteq Request /\ GetRequests \subseteq Request
      /\ HeadIds \subseteq ChunkIds /\ DeleteIds \subseteq ChunkIds
  BY StoreAssumption
<1>6. /\ \A r \in Request : [req EXCEPT ![t] = r] \in [Threads -> Request]
      /\ \A id \in ChunkIds : [req EXCEPT ![t].id = id] \in [Threads -> Request]
      /\ req \in [Threads -> Request]
  BY <1>1 DEF VariableTypes, Request
<1>7. {"Ok", "InvalidArgument", "NotFound", "Unavailable", "IoError", "Corruption"}
        \subseteq StatusCode
  BY DEF StatusCode
<1>8. /\ pc' = [pc EXCEPT ![t] = "done"]
      /\ res' \in [Threads -> Results]
      /\ req' \in [Threads -> Request]
      /\ \A u \in Threads : u # t => req'[u] = req[u]
      /\ UNCHANGED <<fsVars, token, ino, hashed, out, acked, crashes>>
  <2>1. CASE \E r \in PutRequests : PutRefuse(t, r)
    BY <2>1, <1>1, <1>2, <1>3, <1>5, <1>6, <1>7 DEF PutRefuse, VariableTypes
  <2>2. CASE \E r \in PutRequests, k \in Tokens : PutCollides(t, r, k)
    BY <2>2, <1>1, <1>2, <1>5, <1>6, <1>7 DEF PutCollides, VariableTypes
  <2>3. CASE PutDirSyncFails(t)
    BY <2>3, <1>1, <1>2, <1>6, <1>7 DEF PutDirSyncFails
  <2>4. CASE \E id \in HeadIds : HeadChunk(t, id)
    BY <2>4, <1>1, <1>2, <1>4, <1>5, <1>6, <1>7 DEF HeadChunk, VariableTypes
  <2>5. CASE \E r \in GetRequests : GetRefuse(t, r)
    <3> PICK r \in GetRequests : GetRefuse(t, r)
      BY <2>5
    <3>1. r \in Request /\ r.id \in ChunkIds
      BY <1>5 DEF Request
    <3> QED BY <3>1, <1>1, <1>2, <1>4, <1>6, <1>7 DEF GetRefuse, VariableTypes
  <2>6. CASE GetGone(t) \/ GetOpenFails(t)
    BY <2>6, <1>1, <1>2, <1>6, <1>7 DEF GetGone, GetOpenFails
  <2>7. CASE GetShort(t) \/ GetReadFails(t)
    BY <2>7, <1>1, <1>2, <1>6, <1>7 DEF GetShort, GetReadFails
  <2>8. CASE GetWriteFails(t)
    BY <2>8, <1>1, <1>2, <1>6, <1>7 DEF GetWriteFails
  <2>9. CASE GetEnd(t)
    BY <2>9, <1>1, <1>2, <1>6, <1>7 DEF GetEnd
  <2>10. CASE \E id \in DeleteIds : DeleteFails(t, id)
    BY <2>10, <1>1, <1>2, <1>5, <1>6, <1>7 DEF DeleteFails, VariableTypes
  <2> QED BY <2>1, <2>2, <2>3, <2>4, <2>5, <2>6, <2>7, <2>8, <2>9, <2>10
<1> QED BY <1>8, ReplyStep

(* What changing one directory entry does. *)
LEMMA SetEntryFacts ==
    ASSUME VariableTypes, DirOnDisk, NEW n \in Names, NEW i \in Inodes \cup {NoFile},
           SetEntry(n, i)
    PROVE  /\ dir' \in [Names -> Inodes \cup {NoFile}]
           /\ disk' \in [Names -> SUBSET (Inodes \cup {NoFile})]
           /\ DirOnDisk'
           /\ dir'[n] = i /\ disk'[n] = disk[n] \cup {i}
           /\ \A m \in Names : m # n => dir'[m] = dir[m] /\ disk'[m] = disk[m]
BY DEF VariableTypes, DirOnDisk, SetEntry

(* Taking away a temporary name that belongs to thread t. *)
LEMMA CleanupFacts ==
    ASSUME IInv, NEW t \in Threads, pc[t] \in Writing, Cleanup(t)
    PROVE  /\ dir' \in [Names -> Inodes \cup {NoFile}]
           /\ disk' \in [Names -> SUBSET (Inodes \cup {NoFile})]
           /\ DirOnDisk'
           /\ \A id \in ChunkIds : /\ dir'[PathFor(id)] = dir[PathFor(id)]
                                   /\ disk'[PathFor(id)] = disk[PathFor(id)]
           /\ \A u \in Threads : u # t /\ token[u] \in Tokens =>
                dir'[TempOf(u)] = dir[TempOf(u)]
<1>1. VariableTypes /\ DirOnDisk /\ token[t] \in Tokens
  BY DEF IInv, Locals, PutPC
<1>2. \A u \in Threads : req[u].id \in ChunkIds
  BY <1>1 DEF VariableTypes, Request
<1>3. TempOf(t) \in Names
  BY <1>1, <1>2, NameFacts DEF TempOf
<1>4. CASE Unlink(TempOf(t))
  <2>1. \A id \in ChunkIds : PathFor(id) \in Names /\ PathFor(id) # TempOf(t)
    BY <1>1, <1>2, NameFacts DEF TempOf
  <2>2. \A u \in Threads : u # t /\ token[u] \in Tokens =>
          TempOf(u) \in Names /\ TempOf(u) # TempOf(t)
    BY <1>1, <1>2, NameFacts, StoreAssumption DEF TempOf, IInv, TokensApart
  <2> QED BY <1>1, <1>3, <1>4, <2>1, <2>2, SetEntryFacts DEF Unlink
<1>5. CASE UNCHANGED <<dir, disk>>
  BY <1>1, <1>2, <1>5 DEF VariableTypes, DirOnDisk
<1> QED BY <1>4, <1>5 DEF Cleanup

(* A Put that cleans up and returns an error. *)
LEMMA PutFailsStep ==
    ASSUME IInv, NEW t \in Threads, pc[t] \in Writing,
           NEW code \in StatusCode, PutFails(t, code)
    PROVE  IInv'
<1> USE DEF IInv
<1>1. /\ pc' = [pc EXCEPT ![t] = "done"] /\ res' \in [Threads -> Results]
      /\ UNCHANGED <<file, synced, req, token, ino, hashed, out, acked, crashes>>
  BY DEF PutFails, Reply, VariableTypes, Results
<1>2. /\ dir' \in [Names -> Inodes \cup {NoFile}]
      /\ disk' \in [Names -> SUBSET (Inodes \cup {NoFile})]
      /\ DirOnDisk'
      /\ \A id \in ChunkIds : /\ dir'[PathFor(id)] = dir[PathFor(id)]
                              /\ disk'[PathFor(id)] = disk[PathFor(id)]
      /\ \A u \in Threads : u # t /\ token[u] \in Tokens =>
                dir'[TempOf(u)] = dir[TempOf(u)]
  BY CleanupFacts DEF PutFails
<1>3. VariableTypes'
  BY <1>1, <1>2 DEF VariableTypes, PCs
<1>4. \A u \in Threads : pc'[u] # "done" => u # t /\ pc'[u] = pc[u]
  BY <1>1 DEF VariableTypes
<1>5. TokensApart'
  BY <1>1 DEF TokensApart
<1>6. Locals'
  BY <1>1, <1>4 DEF Locals, PutPC, Writing
<1>7. OwnsTemp'
  BY <1>1, <1>2, <1>4 DEF OwnsTemp, TempOf, Locals, PutPC, Writing
<1>8. Exclusive'
  BY <1>1, <1>2, <1>4 DEF Exclusive
<1>9. Written' /\ Verified'
  BY <1>1, <1>4 DEF Written, Verified, PutPC, Writing
<1>10. CommittedIntact' /\ AckedStable'
  BY <1>1, <1>2 DEF CommittedIntact, AckedStable
<1> QED BY <1>2, <1>3, <1>5, <1>6, <1>7, <1>8, <1>9, <1>10

(* The steps at which a Put gives up after it created its file. *)
LEMMA PutFailsSteps ==
    ASSUME IInv, NEW t \in Threads,
           \/ \E b \in Contents \ {<< >>} : PutTooLong(t, b)
           \/ PutReadFails(t) \/ PutWriteFails(t) \/ PutMismatch(t)
           \/ PutSyncFails(t) \/ PutLinkExists(t) \/ PutLinkFails(t)
    PROVE  IInv'
<1>1. /\ pc[t] \in Writing
      /\ \E code \in StatusCode : PutFails(t, code)
  BY DEF PutTooLong, PutReadFails, PutWriteFails, PutMismatch, PutSyncFails,
         PutLinkExists, PutLinkFails, Writing, StatusCode
<1> QED BY <1>1, PutFailsStep

(* Creating the temporary file: the inode is nobody's. *)
LEMMA PutCreateStep ==
    ASSUME IInv, NEW t \in Threads, NEW r \in PutRequests, NEW k \in Tokens,
           PutCreate(t, r, k)
    PROVE  IInv'
<1> USE DEF IInv
<1>1. r \in Request /\ r.id \in ChunkIds /\ k # NoToken
  BY StoreAssumption DEF Request
<1>2. PICK i \in Inodes :
        /\ ~Referenced(i)
        /\ SetEntry(TempPath(r.id, k), i)
        /\ file' = [file EXCEPT ![i] = [hdr |-> MakeHeader(r.size, r.sum),
                                        data |-> << >>]]
        /\ synced' = synced \ {i}
        /\ ino' = [ino EXCEPT ![t] = i]
  BY DEF PutCreate
<1>3. /\ pc[t] = "idle" /\ PutCheck(r) = "Ok" /\ TempNameFits(r.id)
      /\ \A u \in Threads : token[u] # k
      /\ pc' = [pc EXCEPT ![t] = "putStream"]
      /\ req' = [req EXCEPT ![t] = r]
      /\ token' = [token EXCEPT ![t] = k]
      /\ UNCHANGED <<hashed, out, res, acked, crashes>>
  BY DEF PutCreate, FreshToken
<1>4. /\ \A n \in Names : i \notin disk[n] /\ dir[n] # i
      /\ \A u \in Threads : ino[u] # i
  BY <1>2 DEF Referenced, DirOnDisk
<1>5. /\ dir' \in [Names -> Inodes \cup {NoFile}]
      /\ disk' \in [Names -> SUBSET (Inodes \cup {NoFile})]
      /\ DirOnDisk'
      /\ dir'[TempPath(r.id, k)] = i
      /\ \A m \in Names : m # TempPath(r.id, k) => dir'[m] = dir[m] /\ disk'[m] = disk[m]
  BY <1>1, <1>2, NameFacts, SetEntryFacts
<1>6. \A id \in ChunkIds : /\ PathFor(id) \in Names
                           /\ dir'[PathFor(id)] = dir[PathFor(id)]
                           /\ disk'[PathFor(id)] = disk[PathFor(id)]
  BY <1>1, <1>5, NameFacts
<1>7. VariableTypes'
  <2>1. [hdr |-> MakeHeader(r.size, r.sum), data |-> << >>] \in ChunkFile
    BY <1>1, EmptyContents DEF ChunkFile, Headers, MakeHeader, Request
  <2> QED BY <2>1, <1>1, <1>2, <1>3, <1>5 DEF VariableTypes, PCs, PutPC, Writing
<1>8. /\ pc'[t] = "putStream" /\ req'[t] = r /\ token'[t] = k /\ ino'[t] = i
      /\ hashed'[t] = << >>
      /\ file'[i].hdr = MakeHeader(r.size, r.sum) /\ file'[i].data = << >>
      /\ \A u \in Threads : u # t => /\ pc'[u] = pc[u] /\ req'[u] = req[u]
                                     /\ token'[u] = token[u] /\ ino'[u] = ino[u]
                                     /\ hashed'[u] = hashed[u]
      /\ \A j \in Inodes : j # i => file'[j] = file[j]
      /\ \A j \in synced : j # i => j \in synced'
  BY <1>2, <1>3 DEF VariableTypes, Locals
<1>9. TokensApart'
  BY <1>3, <1>8 DEF TokensApart
<1>10. Locals'
  BY <1>3, <1>8 DEF Locals, PutPC, Writing
<1>11. OwnsTemp'
  <2> SUFFICES ASSUME NEW u \in Threads, u # t,
                      pc[u] \in {"putStream", "putSync", "putLink"}
               PROVE  dir'[TempPath(req[u].id, token[u])] = ino[u]
    BY <1>5, <1>8 DEF OwnsTemp, TempOf
  <2>1. token[u] \in Tokens /\ token[u] # k /\ req[u].id \in ChunkIds
    BY <1>3 DEF Locals, PutPC, Writing, VariableTypes, Request
  <2>2. /\ TempPath(req[u].id, token[u]) \in Names
        /\ TempPath(req[u].id, token[u]) # TempPath(r.id, k)
    BY <2>1, <1>1, NameFacts
  <2> QED BY <2>2, <1>5 DEF OwnsTemp, TempOf
<1>12. Exclusive'
  BY <1>4, <1>6, <1>8 DEF Exclusive
<1>13. Written'
  <2>1. Len(hashed'[t]) <= req'[t].size
    BY <1>7, <1>8, SizeAssumption DEF VariableTypes, Request, UInt64
  <2> QED BY <1>3, <1>4, <1>8, <2>1 DEF Written, Locals, PutPC, Writing
<1>14. Verified'
  BY <1>3, <1>4, <1>8 DEF Verified
<1>15. CommittedIntact'
  BY <1>4, <1>6, <1>8 DEF CommittedIntact, VariableTypes
<1>16. AckedStable'
  BY <1>3, <1>4, <1>6, <1>8 DEF AckedStable, VariableTypes
<1> QED BY <1>5, <1>7, <1>9, <1>10, <1>11, <1>12, <1>13, <1>14, <1>15, <1>16

(* Writing: only the file of this Put changes, and nobody else sees it. *)
LEMMA PutReadStep ==
    ASSUME IInv, NEW t \in Threads, NEW b \in Contents, PutRead(t, b)
    PROVE  IInv'
<1> USE DEF IInv
<1>1. /\ pc[t] = "putStream"
      /\ Len(hashed[t]) + Len(b) <= MaxSize /\ Len(b) <= req[t].size - Len(hashed[t])
      /\ hashed' = [hashed EXCEPT ![t] = @ \o b]
      /\ file' = [file EXCEPT ![ino[t]].data = @ \o b]
      /\ synced' = synced \ {ino[t]}
      /\ UNCHANGED <<dir, disk, pc, req, token, ino, out, res, acked, crashes>>
  BY DEF PutRead
<1>2. /\ ino[t] \in Inodes /\ file[ino[t]].data = hashed[t]
      /\ file[ino[t]] \in ChunkFile
      /\ hashed[t] \in Contents
      /\ hashed[t] \o b \in Contents
  <2>1. /\ ino[t] \in Inodes /\ file[ino[t]].data = hashed[t]
        /\ hashed[t] \in Contents
    BY <1>1 DEF Locals, Written, PutPC, Writing, VariableTypes
  <2> QED BY <1>1, <2>1, ConcatContents DEF VariableTypes
<1>3. /\ hashed'[t] = hashed[t] \o b
      /\ file'[ino[t]].data = hashed[t] \o b
      /\ file'[ino[t]].hdr = file[ino[t]].hdr
      /\ file'[ino[t]] \in ChunkFile
      /\ \A u \in Threads : u # t => hashed'[u] = hashed[u]
      /\ \A j \in Inodes : j # ino[t] => file'[j] = file[j]
      /\ \A j \in synced : j # ino[t] => j \in synced'
  BY <1>1, <1>2 DEF VariableTypes, ChunkFile
<1>4. VariableTypes'
  BY <1>1, <1>2, <1>3 DEF VariableTypes
<1>5. DirOnDisk' /\ TokensApart'
  BY <1>1 DEF DirOnDisk, TokensApart
<1>6. Locals' /\ OwnsTemp' /\ Exclusive'
  BY <1>1, <1>3 DEF Locals, OwnsTemp, TempOf, Exclusive
<1>7. \A u \in Threads : u # t => ino[u] # ino[t]
  BY <1>1 DEF Exclusive
<1>8. Written'
  <2> SUFFICES ASSUME NEW u \in Threads, pc[u] \in PutPC
               PROVE  /\ PutCheck(req[u]) = "Ok" /\ TempNameFits(req[u].id)
                      /\ file'[ino[u]].hdr = MakeHeader(req[u].size, req[u].sum)
                      /\ file'[ino[u]].data = hashed'[u]
                      /\ Len(hashed'[u]) <= req[u].size
    BY <1>1 DEF Written
  <2>1. CASE u = t
    <3>1. /\ Len(hashed[t]) \in Nat /\ Len(b) \in Nat /\ req[t].size \in Nat
          /\ Len(hashed[t] \o b) = Len(hashed[t]) + Len(b)
      BY <1>2, ContentsAreSeqs, SizeAssumption DEF VariableTypes, Request, UInt64
    <3>2. Len(hashed'[t]) <= req[t].size
      BY <1>1, <1>3, <3>1
    <3> QED BY <2>1, <1>3, <3>2 DEF Written
  <2>2. CASE u # t
    BY <2>2, <1>3, <1>7 DEF Written, Locals
  <2> QED BY <2>1, <2>2
<1>9. Verified'
  BY <1>1, <1>3, <1>7 DEF Verified
<1>10. \A id \in ChunkIds : ino[t] \notin disk[PathFor(id)] /\ PathFor(id) \in Names
  BY <1>1, NameFacts DEF Exclusive
<1>11. CommittedIntact'
  BY <1>1, <1>3, <1>10 DEF CommittedIntact, VariableTypes
<1>12. AckedStable'
  BY <1>1, <1>3, <1>10 DEF AckedStable, VariableTypes, DirOnDisk
<1> QED BY <1>4, <1>5, <1>6, <1>8, <1>9, <1>11, <1>12

(* End of the stream: size and checksum have been compared. *)
LEMMA PutEofStep ==
    ASSUME IInv, NEW t \in Threads, PutEof(t)
    PROVE  IInv'
<1> USE DEF IInv, PutEof, fsVars
<1>1. VariableTypes'
  BY DEF VariableTypes, PCs, PutPC, Writing
<1>2. pc'[t] = "putSync" /\ \A u \in Threads : u # t => pc'[u] = pc[u]
  BY DEF VariableTypes
<1>3. DirOnDisk' /\ TokensApart' /\ CommittedIntact' /\ AckedStable'
  BY DEF DirOnDisk, TokensApart, CommittedIntact, AckedStable
<1>4. Locals' /\ Written'
  BY <1>2 DEF Locals, Written, PutPC, Writing
<1>5. OwnsTemp' /\ Exclusive'
  BY <1>2 DEF OwnsTemp, TempOf, Exclusive
<1>6. Verified'
  BY <1>2 DEF Verified
<1> QED BY <1>1, <1>3, <1>4, <1>5, <1>6

(* fdatasync. *)
LEMMA PutSyncStep ==
    ASSUME IInv, NEW t \in Threads, PutSync(t)
    PROVE  IInv'
<1> USE DEF IInv, PutSync
<1>1. ino[t] \in Inodes
  BY DEF Locals, PutPC, Writing
<1>2. VariableTypes'
  BY <1>1 DEF VariableTypes, PCs, PutPC, Writing
<1>3. pc'[t] = "putLink" /\ \A u \in Threads : u # t => pc'[u] = pc[u]
  BY DEF VariableTypes
<1>4. DirOnDisk' /\ TokensApart' /\ CommittedIntact' /\ AckedStable'
  BY DEF DirOnDisk, TokensApart, CommittedIntact, AckedStable
<1>5. Locals' /\ Written'
  BY <1>3 DEF Locals, Written, PutPC, Writing
<1>6. OwnsTemp' /\ Exclusive'
  BY <1>3 DEF OwnsTemp, TempOf, Exclusive
<1>7. Verified'
  BY <1>3 DEF Verified
<1> QED BY <1>2, <1>4, <1>5, <1>6, <1>7

(* The commit: what becomes visible is verified and synchronized. *)
LEMMA PutLinkStep ==
    ASSUME IInv, NEW t \in Threads, PutLink(t)
    PROVE  IInv'
<1> USE DEF IInv
<1> DEFINE F == PathFor(req[t].id)
<1>1. /\ pc[t] = "putLink" /\ dir[F] = NoFile
      /\ SetEntry(F, ino[t])
      /\ pc' = [pc EXCEPT ![t] = "putCleanup"]
      /\ UNCHANGED <<file, synced, req, token, ino, hashed, out, res, acked, crashes>>
  BY DEF PutLink, OwnsTemp
<1>2. /\ ino[t] \in Inodes /\ ino[t] \in synced /\ req[t].id \in ChunkIds
      /\ hashed[t] \in Contents
  BY <1>1 DEF Locals, Verified, PutPC, Writing, VariableTypes, Request
<1>3. F \in Names
  BY <1>2, NameFacts
<1>4. /\ dir' \in [Names -> Inodes \cup {NoFile}]
      /\ disk' \in [Names -> SUBSET (Inodes \cup {NoFile})]
      /\ DirOnDisk'
      /\ disk'[F] = disk[F] \cup {ino[t]}
      /\ \A m \in Names : m # F => dir'[m] = dir[m] /\ disk'[m] = disk[m]
  BY <1>1, <1>2, <1>3, SetEntryFacts
<1>5. Intact(file[ino[t]])
  <2>1. /\ file[ino[t]].hdr = MakeHeader(req[t].size, req[t].sum)
        /\ file[ino[t]].data = hashed[t]
        /\ PutCheck(req[t]) = "Ok"
        /\ Len(hashed[t]) = req[t].size /\ Blake3(hashed[t]) = req[t].sum
    BY <1>1 DEF Written, Verified, PutPC, Writing
  <2>2. ValidateChecksum(req[t].sum) = "Ok"
    BY <2>1 DEF PutCheck
  <2>3. /\ req[t].size \in Nat /\ req[t].size <= MaxSize
        /\ req[t].size <= Minus(Word - 1, kHeaderSize)
        /\ Plus(req[t].size, kHeaderSize) = kHeaderSize + req[t].size
    BY <1>2, <2>1, ContentsAreSeqs, SizeAssumption DEF Plus, Minus
  <2> QED BY <2>1, <2>2, <2>3 DEF Intact, ReadHeader, MakeHeader, FileLength
<1>6. VariableTypes'
  BY <1>1, <1>4 DEF VariableTypes, PCs, PutPC, Writing
<1>7. pc'[t] = "putCleanup" /\ \A u \in Threads : u # t => pc'[u] = pc[u]
  BY <1>1 DEF VariableTypes
<1>8. TokensApart' /\ Locals' /\ Written' /\ Verified'
  BY <1>1, <1>7 DEF TokensApart, Locals, Written, Verified, PutPC, Writing
<1>9. OwnsTemp'
  <2> SUFFICES ASSUME NEW u \in Threads, u # t,
                      pc[u] \in {"putStream", "putSync", "putLink"}
               PROVE  dir'[TempOf(u)] = ino[u]
    BY <1>1, <1>7 DEF OwnsTemp, TempOf
  <2>1. token[u] \in Tokens /\ req[u].id \in ChunkIds
    BY DEF Locals, PutPC, Writing, VariableTypes, Request
  <2>2. TempOf(u) \in Names /\ TempOf(u) # F
    BY <2>1, <1>2, NameFacts DEF TempOf
  <2> QED BY <2>2, <1>4 DEF OwnsTemp
<1>10. \A id \in ChunkIds : PathFor(id) \in Names /\ (PathFor(id) = F <=> id = req[t].id)
  BY <1>2, NameFacts
<1>11. Exclusive'
  <2> SUFFICES ASSUME NEW u \in Threads, u # t, pc[u] = "putStream",
                      NEW id \in ChunkIds
               PROVE  ino[u] \notin disk'[PathFor(id)] /\ ino[u] # ino[t]
    BY <1>1, <1>7 DEF Exclusive
  <2>1. ino[u] # ino[t] /\ ino[u] \notin disk[PathFor(id)]
    BY DEF Exclusive
  <2> QED BY <2>1, <1>4, <1>10
<1>12. CommittedIntact'
  BY <1>1, <1>2, <1>4, <1>5, <1>10 DEF CommittedIntact
<1>13. AckedStable'
  BY <1>1, <1>4, <1>10 DEF AckedStable
<1> QED BY <1>4, <1>6, <1>8, <1>9, <1>11, <1>12, <1>13

(* Removing the temporary name of a committed file. *)
LEMMA PutCleanupStep ==
    ASSUME IInv, NEW t \in Threads, PutCleanup(t)
    PROVE  IInv'
<1> USE DEF IInv
<1>1. /\ pc[t] = "putCleanup" /\ Cleanup(t)
      /\ pc' = [pc EXCEPT ![t] = "putDirSync"]
      /\ UNCHANGED <<file, synced, req, token, ino, hashed, out, res, acked, crashes>>
  BY DEF PutCleanup
<1>2. /\ dir' \in [Names -> Inodes \cup {NoFile}]
      /\ disk' \in [Names -> SUBSET (Inodes \cup {NoFile})]
      /\ DirOnDisk'
      /\ \A id \in ChunkIds : /\ dir'[PathFor(id)] = dir[PathFor(id)]
                              /\ disk'[PathFor(id)] = disk[PathFor(id)]
      /\ \A u \in Threads : u # t /\ token[u] \in Tokens =>
                dir'[TempOf(u)] = dir[TempOf(u)]
  BY <1>1, CleanupFacts DEF Writing
<1>3. VariableTypes'
  BY <1>1, <1>2 DEF VariableTypes, PCs, PutPC, Writing
<1>4. pc'[t] = "putDirSync" /\ \A u \in Threads : u # t => pc'[u] = pc[u]
  BY <1>1 DEF VariableTypes
<1>5. TokensApart' /\ Locals' /\ Written' /\ Verified'
  BY <1>1, <1>4 DEF TokensApart, Locals, Written, Verified, PutPC, Writing
<1>6. OwnsTemp'
  BY <1>1, <1>2, <1>4 DEF OwnsTemp, TempOf, Locals, PutPC, Writing
<1>7. Exclusive'
  BY <1>1, <1>2, <1>4 DEF Exclusive
<1>8. CommittedIntact' /\ AckedStable'
  BY <1>1, <1>2 DEF CommittedIntact, AckedStable
<1> QED BY <1>2, <1>3, <1>5, <1>6, <1>7, <1>8

(* fsync of the directory and Ok: the chunk is acknowledged. *)
LEMMA PutDirSyncStep ==
    ASSUME IInv, NEW t \in Threads, PutDirSync(t)
    PROVE  IInv'
<1> USE DEF IInv
<1>1. /\ pc[t] = "putDirSync" /\ pc' = [pc EXCEPT ![t] = "done"]
      /\ res' \in [Threads -> Results]
      /\ disk' = [n \in Names |-> {dir[n]}]
      /\ acked' = IF dir[PathFor(req[t].id)] = ino[t]
                  THEN [acked EXCEPT ![req[t].id] = hashed[t]] ELSE acked
      /\ UNCHANGED <<dir, file, synced, req, token, ino, hashed, out, crashes>>
  BY DEF PutDirSync, FsyncDirectory, Reply, VariableTypes, Results, StatusCode
<1>2. /\ req[t].id \in ChunkIds /\ ino[t] \in Inodes
      /\ file[ino[t]].data = hashed[t]
      /\ PutCheck(req[t]) = "Ok" /\ TempNameFits(req[t].id)
  BY <1>1 DEF Locals, Written, PutPC, VariableTypes, Request
<1>3. VariableTypes'
  BY <1>1, <1>2 DEF VariableTypes, PCs
<1>4. pc'[t] = "done" /\ \A u \in Threads : u # t => pc'[u] = pc[u]
  BY <1>1 DEF VariableTypes
<1>5. DirOnDisk' /\ TokensApart' /\ Locals' /\ Written' /\ Verified'
  BY <1>1, <1>4 DEF DirOnDisk, TokensApart, Locals, Written, Verified, PutPC, Writing
<1>6. OwnsTemp'
  BY <1>1, <1>4 DEF OwnsTemp, TempOf
<1>7. \A id \in ChunkIds : PathFor(id) \in Names /\ disk'[PathFor(id)] = {dir[PathFor(id)]}
                           /\ dir[PathFor(id)] \in disk[PathFor(id)]
  BY <1>1, NameFacts DEF DirOnDisk
<1>8. Exclusive'
  BY <1>1, <1>4, <1>7 DEF Exclusive
<1>9. CommittedIntact'
  BY <1>1, <1>7 DEF CommittedIntact
<1>10. ValidateId(IdLen[req[t].id]) = "Ok" /\ FinalNameFits(req[t].id)
  <2>1. IdLen[req[t].id] \in Nat
    BY <1>2, StoreAssumption
  <2> QED BY <2>1, <1>2 DEF PutCheck, TempNameFits, FinalNameFits, FinalNameLength,
               kTempSuffixLength, kNameMax
<1>11. AckedStable'
  BY <1>1, <1>2, <1>7, <1>10, StoreAssumption DEF AckedStable, VariableTypes
<1> QED BY <1>3, <1>5, <1>6, <1>8, <1>9, <1>11

(* The steps of a Get that go on; they leave the store alone. *)
LEMMA GetSteps ==
    ASSUME IInv, NEW t \in Threads,
           \/ \E r \in GetRequests : GetHead(t, r)
           \/ GetOpen(t)
           \/ \E n \in 1..MaxSize : GetRead(t, n)
    PROVE  IInv'
<1> USE DEF IInv, fsVars
<1>1. CASE \E r \in GetRequests : GetHead(t, r)
  <2> PICK r \in GetRequests : GetHead(t, r)
    BY <1>1
  <2> USE DEF GetHead
  <2>1. r \in Request
    BY StoreAssumption
  <2>2. VariableTypes'
    BY <2>1 DEF VariableTypes, PCs, GetPC
  <2>3. /\ pc'[t] = "getOpen" /\ req'[t] = r
        /\ \A u \in Threads : u # t => pc'[u] = pc[u] /\ req'[u] = req[u]
    BY DEF VariableTypes
  <2>4. DirOnDisk' /\ TokensApart' /\ CommittedIntact' /\ AckedStable'
    BY DEF DirOnDisk, TokensApart, CommittedIntact, AckedStable
  <2>5. r.offset + r.size <= MaxSize
    <3> DEFINE f == file[dir[PathFor(r.id)]]
    <3>1. r.id \in ChunkIds /\ [offset |-> r.offset, size |-> r.size] \in ByteRange
      BY <2>1 DEF Request, ByteRange
    <3>2. ReadHeader(f) = "Ok" /\ dir[PathFor(r.id)] # NoFile
      BY DEF HeadStatus, ValidateId, ReadHeader
    <3>3. f \in ChunkFile
      BY <3>1, <3>2, NameFacts DEF VariableTypes
    <3>4. /\ f.hdr.size \in Nat /\ f.hdr.size <= MaxSize
          /\ ValidateByteRange([offset |-> r.offset, size |-> r.size], f.hdr.size) = "Ok"
      BY <3>2, <3>3, HeaderSize DEF ValidateByteRange
    <3> HIDE DEF f
    <3>5. r.offset + r.size <= f.hdr.size
      BY <3>1, <3>4, RangeInside
    <3> QED BY <2>1, <3>4, <3>5, SizeAssumption DEF Request, UInt64
  <2>6. Locals' /\ Written' /\ Verified'
    BY <2>3, <2>5 DEF Locals, Written, Verified, PutPC, Writing
  <2>7. OwnsTemp' /\ Exclusive'
    BY <2>3 DEF OwnsTemp, TempOf, Exclusive
  <2> QED BY <2>2, <2>4, <2>6, <2>7
<1>2. CASE GetOpen(t)
  <2> USE DEF GetOpen
  <2> DEFINE F == PathFor(req[t].id)
  <2>1. req[t].id \in ChunkIds /\ F \in Names /\ dir[F] \in Inodes /\ dir[F] \in disk[F]
    BY <1>2, NameFacts DEF VariableTypes, Request, DirOnDisk
  <2>2. VariableTypes'
    BY <1>2, <2>1 DEF VariableTypes, PCs, GetPC
  <2>3. /\ pc'[t] = "getRead" /\ ino'[t] = dir[F]
        /\ \A u \in Threads : u # t => pc'[u] = pc[u] /\ ino'[u] = ino[u]
    BY <1>2 DEF VariableTypes
  <2>4. DirOnDisk' /\ TokensApart' /\ CommittedIntact' /\ AckedStable'
    BY <1>2 DEF DirOnDisk, TokensApart, CommittedIntact, AckedStable
  <2>5. Locals' /\ Written' /\ Verified'
    BY <1>2, <2>1, <2>3 DEF Locals, Written, Verified, PutPC, Writing
  <2>6. OwnsTemp'
    BY <1>2, <2>3 DEF OwnsTemp, TempOf
  <2>7. Exclusive'
    BY <1>2, <2>1, <2>3 DEF Exclusive
  <2> QED BY <2>2, <2>4, <2>5, <2>6, <2>7
<1>3. CASE \E n \in 1..MaxSize : GetRead(t, n)
  <2> PICK n \in 1..MaxSize : GetRead(t, n)
    BY <1>3
  <2> DEFINE f == file[ino[t]]
             sent == Len(out[t])
             size == req[t].size
             offset == req[t].offset
             length == Len(f.data)
  <2>0. /\ pc[t] = "getRead"
        /\ n <= size - sent
        /\ n <= FileLength(f) - Position(t)
    BY DEF GetRead, Remaining
  <2>1. /\ f \in ChunkFile /\ out[t] \in Contents /\ n \in Nat
        /\ size \in Nat /\ offset \in Nat /\ offset + size <= MaxSize
    BY <2>0, SizeAssumption DEF Locals, VariableTypes, Request, UInt64
  <2>2. sent \in Nat /\ length \in Nat
    BY <2>1, ContentsAreSeqs DEF ChunkFile
  <2>a. offset + sent \in Nat /\ offset + sent <= MaxSize /\ sent + n <= MaxSize
    <3> HIDE DEF f, sent, size, offset, length
    <3> QED BY <2>0, <2>1, <2>2, SizeAssumption
  <2>b. Position(t) = (offset + sent) + kHeaderSize
    BY <2>1, <2>2, <2>a, PositionInside DEF Position
  <2>3. (offset + sent) + n <= length
    <3>1. FileLength(f) = kHeaderSize + length
      BY DEF FileLength
    <3> HIDE DEF f, sent, size, offset, length
    <3> QED BY <2>0, <2>1, <2>2, <2>a, <2>b, <3>1, SizeAssumption
  <2> USE DEF GetRead
  <2>4. Pread(f, Position(t), n) \in Contents /\ Len(Pread(f, Position(t), n)) = n
    BY <2>1, <2>a, <2>b, <2>3, PreadContents
  <2>5. out[t] \o Pread(f, Position(t), n) \in Contents
    BY <2>1, <2>a, <2>4, ConcatContents
  <2>6. VariableTypes'
    BY <2>5 DEF VariableTypes
  <2>7. DirOnDisk' /\ TokensApart' /\ CommittedIntact' /\ AckedStable'
    BY DEF DirOnDisk, TokensApart, CommittedIntact, AckedStable
  <2>8. Locals' /\ Written' /\ Verified'
    BY DEF Locals, Written, Verified, VariableTypes
  <2>9. OwnsTemp' /\ Exclusive'
    BY DEF OwnsTemp, TempOf, Exclusive
  <2> QED BY <2>6, <2>7, <2>8, <2>9
<1> QED BY <1>1, <1>2, <1>3

(* Delete takes the final name away; the acknowledgement ends. *)
LEMMA DeleteStep ==
    ASSUME IInv, NEW t \in Threads, NEW id \in DeleteIds, DeleteChunk(t, id)
    PROVE  IInv'
<1> USE DEF IInv
<1>1. id \in ChunkIds
  BY StoreAssumption
<1>2. /\ pc[t] = "idle" /\ SetEntry(PathFor(id), NoFile)
      /\ pc' = [pc EXCEPT ![t] = "done"]
      /\ res' \in [Threads -> Results]
      /\ req' = [req EXCEPT ![t].id = id]
      /\ acked' = [acked EXCEPT ![id] = NoContent]
      /\ UNCHANGED <<file, synced, token, ino, hashed, out, crashes>>
  BY DEF DeleteChunk, Unlink, Reply, VariableTypes, Results, StatusCode
<1>3. /\ dir' \in [Names -> Inodes \cup {NoFile}]
      /\ disk' \in [Names -> SUBSET (Inodes \cup {NoFile})]
      /\ DirOnDisk'
      /\ disk'[PathFor(id)] = disk[PathFor(id)] \cup {NoFile}
      /\ \A m \in Names : m # PathFor(id) => dir'[m] = dir[m] /\ disk'[m] = disk[m]
  BY <1>1, <1>2, NameFacts, SetEntryFacts
<1>4. VariableTypes'
  <2>1. req[t] \in Request
    BY DEF VariableTypes
  <2>2. [req[t] EXCEPT !.id = id] \in Request
    BY <2>1, <1>1 DEF Request
  <2>3. req' \in [Threads -> Request]
    BY <2>2, <1>2 DEF VariableTypes
  <2>4. pc' \in [Threads -> PCs]
    BY <1>2 DEF VariableTypes, PCs
  <2>5. acked' \in [ChunkIds -> Contents \cup {NoContent}]
    BY <1>2 DEF VariableTypes
  <2> QED BY <1>2, <1>3, <2>3, <2>4, <2>5 DEF VariableTypes
<1>5. /\ pc'[t] = "done" /\ acked'[id] = NoContent
      /\ \A u \in Threads : u # t => pc'[u] = pc[u] /\ req'[u] = req[u]
      /\ \A jd \in ChunkIds : jd # id => acked'[jd] = acked[jd]
  BY <1>1, <1>2 DEF VariableTypes
<1>6. TokensApart' /\ Locals' /\ Written' /\ Verified'
  BY <1>2, <1>5 DEF TokensApart, Locals, Written, Verified, PutPC, Writing
<1>7. OwnsTemp'
  <2> SUFFICES ASSUME NEW u \in Threads, u # t,
                      pc[u] \in {"putStream", "putSync", "putLink"}
               PROVE  dir'[TempOf(u)] = ino[u]
    BY <1>2, <1>5 DEF OwnsTemp, TempOf
  <2>1. token[u] \in Tokens /\ req[u].id \in ChunkIds
    BY DEF Locals, PutPC, Writing, VariableTypes, Request
  <2>2. TempOf(u) \in Names /\ TempOf(u) # PathFor(id)
    BY <2>1, <1>1, NameFacts DEF TempOf
  <2> QED BY <2>2, <1>3 DEF OwnsTemp
<1>8. \A jd \in ChunkIds : PathFor(jd) \in Names /\ (jd # id => PathFor(jd) # PathFor(id))
  BY <1>1, NameFacts
<1>9. Exclusive'
  <2> SUFFICES ASSUME NEW u \in Threads, u # t, pc[u] = "putStream",
                      NEW jd \in ChunkIds
               PROVE  ino[u] \notin disk'[PathFor(jd)]
    BY <1>2, <1>5 DEF Exclusive
  <2>1. ino[u] \notin disk[PathFor(jd)] /\ ino[u] # NoFile
    BY StoreAssumption DEF Exclusive, Locals, PutPC, Writing
  <2> QED BY <2>1, <1>3, <1>8
<1>10. CommittedIntact'
  BY <1>2, <1>3, <1>8 DEF CommittedIntact
<1>11. AckedStable'
  BY <1>2, <1>3, <1>5, <1>8 DEF AckedStable
<1> QED BY <1>3, <1>4, <1>6, <1>7, <1>9, <1>10, <1>11

(* Giving back blocks: files that are referenced stay as they are. *)
LEMMA ReclaimFacts ==
    ASSUME NEW f \in [Inodes -> ChunkFile], synced \in SUBSET Inodes, Reclaim(f)
    PROVE  /\ file' \in [Inodes -> ChunkFile] /\ synced' \in SUBSET Inodes
           /\ \A i \in Inodes : Referenced(i)' => file'[i] = f[i]
           /\ \A i \in synced : Referenced(i)' => i \in synced'
<1>1. Blank \in ChunkFile
  BY EmptyContents DEF Blank, ChunkFile, Headers
<1> QED BY <1>1 DEF Reclaim

(* The handler returns. *)
LEMMA ReturnStep ==
    ASSUME IInv, NEW t \in Threads, Return(t)
    PROVE  IInv'
<1> USE DEF IInv
<1>1. /\ pc[t] = "done" /\ pc' = [pc EXCEPT ![t] = "idle"]
      /\ req' = [req EXCEPT ![t] = NoRequest]
      /\ token' = [token EXCEPT ![t] = NoToken]
      /\ ino' = [ino EXCEPT ![t] = NoFile]
      /\ hashed' = [hashed EXCEPT ![t] = << >>]
      /\ out' = [out EXCEPT ![t] = << >>]
      /\ res' = [res EXCEPT ![t] = NoResult]
      /\ UNCHANGED <<dir, disk, acked, crashes>>
      /\ Reclaim(file)
  BY DEF Return
<1>2. /\ file' \in [Inodes -> ChunkFile] /\ synced' \in SUBSET Inodes
      /\ \A i \in Inodes : Referenced(i)' => file'[i] = file[i]
      /\ \A i \in synced : Referenced(i)' => i \in synced'
  BY <1>1, ReclaimFacts DEF VariableTypes
<1>3. NoRequest \in Request
  BY NoRequestType
<1>4. VariableTypes'
  BY <1>1, <1>2, <1>3, EmptyContents DEF VariableTypes, PCs, NoResult, Results, StatusCode
<1>5. /\ pc'[t] = "idle" /\ token'[t] = NoToken /\ ino'[t] = NoFile
      /\ hashed'[t] = << >> /\ out'[t] = << >>
      /\ \A u \in Threads : u # t => /\ pc'[u] = pc[u] /\ req'[u] = req[u]
                                     /\ token'[u] = token[u] /\ ino'[u] = ino[u]
                                     /\ hashed'[u] = hashed[u] /\ out'[u] = out[u]
  BY <1>1 DEF VariableTypes
<1>6. /\ \A u \in Threads : u # t /\ ino[u] \in Inodes => Referenced(ino[u])'
      /\ \A id \in ChunkIds : \A i \in disk[PathFor(id)] : Referenced(i)'
  BY <1>1, <1>5, NameFacts DEF Referenced
<1>7. DirOnDisk' /\ TokensApart'
  BY <1>1, <1>5 DEF DirOnDisk, TokensApart
<1>8. Locals'
  BY <1>5 DEF Locals, PutPC, Writing
<1>9. OwnsTemp'
  BY <1>1, <1>5 DEF OwnsTemp, TempOf
<1>10. Exclusive'
  BY <1>1, <1>5, StoreAssumption DEF Exclusive, Locals, PutPC, Writing
<1>11. Written'
  BY <1>2, <1>5, <1>6 DEF Written, Locals, PutPC, Writing
<1>12. Verified'
  BY <1>2, <1>5, <1>6 DEF Verified, Locals, PutPC, Writing
<1>13. \A id \in ChunkIds : disk[PathFor(id)] \subseteq Inodes \cup {NoFile}
                            /\ dir[PathFor(id)] \in disk[PathFor(id)]
  BY NameFacts DEF VariableTypes, DirOnDisk
<1>14. CommittedIntact'
  BY <1>1, <1>2, <1>6, <1>13 DEF CommittedIntact
<1>15. AckedStable'
  BY <1>1, <1>2, <1>6, <1>13 DEF AckedStable
<1> QED BY <1>4, <1>7, <1>8, <1>9, <1>10, <1>11, <1>12, <1>14, <1>15

(* What a dead process leaves: nothing but the file system. *)
LEMMA DeathFacts ==
    ASSUME IInv, ProcessDies,
           file' \in [Inodes -> ChunkFile], synced' \in SUBSET Inodes,
           dir' \in [Names -> Inodes \cup {NoFile}],
           disk' \in [Names -> SUBSET (Inodes \cup {NoFile})]
    PROVE  /\ VariableTypes' /\ TokensApart' /\ Locals' /\ OwnsTemp' /\ Exclusive'
           /\ Written' /\ Verified'
<1> USE DEF IInv, ProcessDies
<1>1. NoRequest \in Request
  BY NoRequestType
<1>2. crashes' \in 0..MaxCrashes
  BY StoreAssumption DEF VariableTypes
<1>3. VariableTypes'
  BY <1>1, <1>2, EmptyContents DEF VariableTypes, PCs, NoResult, Results, StatusCode
<1>4. TokensApart' /\ Locals'
  BY DEF TokensApart, Locals, PutPC, Writing
<1>5. OwnsTemp' /\ Exclusive' /\ Written' /\ Verified'
  BY DEF OwnsTemp, Exclusive, Written, Verified, PutPC, Writing
<1> QED BY <1>3, <1>4, <1>5

(* Files that survive a death unchanged keep the chunks as they are. *)
LEMMA ChunksSurvive ==
    ASSUME IInv, UNCHANGED acked, DirOnDisk',
           \A n \in Names : disk'[n] \subseteq disk[n],
           \A n \in Names : disk[n] = {dir[n]} => dir'[n] = dir[n],
           \A i \in synced : (\E n \in Names : i \in disk'[n]) =>
                file'[i] = file[i] /\ i \in synced'
    PROVE  CommittedIntact' /\ AckedStable'
<1> USE DEF IInv
<1>1. \A id \in ChunkIds : PathFor(id) \in Names
  BY NameFacts
<1>2. CommittedIntact'
  BY <1>1 DEF CommittedIntact
<1>3. AckedStable'
  <2> SUFFICES ASSUME NEW id \in ChunkIds, acked[id] # NoContent
               PROVE  /\ dir'[PathFor(id)] # NoFile
                      /\ disk'[PathFor(id)] = {dir'[PathFor(id)]}
                      /\ file'[dir'[PathFor(id)]].data = acked[id]
                      /\ ValidateId(IdLen[id]) = "Ok" /\ FinalNameFits(id)
    BY DEF AckedStable
  <2>1. /\ dir[PathFor(id)] # NoFile
        /\ disk[PathFor(id)] = {dir[PathFor(id)]}
        /\ file[dir[PathFor(id)]].data = acked[id]
        /\ ValidateId(IdLen[id]) = "Ok" /\ FinalNameFits(id)
    BY DEF AckedStable
  <2>2. dir'[PathFor(id)] = dir[PathFor(id)] /\ dir[PathFor(id)] \in disk'[PathFor(id)]
    BY <1>1, <2>1 DEF DirOnDisk
  <2>3. dir[PathFor(id)] \in synced
    BY <2>1 DEF CommittedIntact
  <2>4. file'[dir[PathFor(id)]] = file[dir[PathFor(id)]]
    BY <1>1, <2>2, <2>3
  <2> QED BY <1>1, <2>1, <2>2, <2>4
<1> QED BY <1>2, <1>3

(* The worker is killed. *)
LEMMA CrashStep == ASSUME IInv, Crash PROVE IInv'
<1> USE DEF IInv
<1>1. ProcessDies /\ UNCHANGED <<dir, disk, acked>> /\ Reclaim(file)
  BY DEF Crash, ProcessDies
<1>2. /\ file' \in [Inodes -> ChunkFile] /\ synced' \in SUBSET Inodes
      /\ \A i \in Inodes : Referenced(i)' => file'[i] = file[i]
      /\ \A i \in synced : Referenced(i)' => i \in synced'
  BY <1>1, ReclaimFacts DEF VariableTypes
<1>3. DirOnDisk'
  BY <1>1 DEF DirOnDisk
<1>4. CommittedIntact' /\ AckedStable'
  BY <1>1, <1>2, <1>3, ChunksSurvive DEF Referenced, VariableTypes
<1> QED BY <1>1, <1>2, <1>3, <1>4, DeathFacts DEF VariableTypes

(* A torn chunk file is a chunk file. *)
LEMMA TornFacts ==
    ASSUME NEW c \in ChunkFile, NEW d \in Torn(c)
    PROVE  d \in ChunkFile
<1>1. c.hdr \in Headers /\ c.data \in Contents
  BY DEF ChunkFile
<1>2. PICK h \in {c.hdr, NoHeader} : \E n \in 0..Len(c.data) :
        d = [hdr |-> h, data |-> SubSeq(c.data, 1, n)]
  BY DEF Torn
<1>3. PICK n \in 0..Len(c.data) : d = [hdr |-> h, data |-> SubSeq(c.data, 1, n)]
  BY <1>2
<1>4. c.data \in Seq(Bytes) /\ Len(c.data) \in Nat /\ Len(c.data) <= MaxSize
  BY <1>1, ContentsAreSeqs
<1>5. n \in Nat /\ n <= Len(c.data) /\ n <= MaxSize
  BY <1>4, SizeAssumption
<1>6. \A i \in 1..n : c.data[i] \in Bytes
  BY <1>4, <1>5
<1>7. SubSeq(c.data, 1, n) \in Seq(Bytes) /\ Len(SubSeq(c.data, 1, n)) = n
  BY <1>5, <1>6, SubSeqProperties
<1>8. SubSeq(c.data, 1, n) \in Contents
  BY <1>5, <1>7, ContentsAreSeqs
<1>9. h \in Headers
  BY <1>1 DEF Headers
<1> QED BY <1>3, <1>8, <1>9 DEF ChunkFile

(* The machine loses power: names and files that were synchronized stay. *)
LEMMA PowerLossStep == ASSUME IInv, PowerLoss PROVE IInv'
<1> USE DEF IInv
<1>1. PICK d \in [Unsettled -> UNION {disk[n] : n \in Unsettled}] :
        /\ \A n \in Unsettled : d[n] \in disk[n]
        /\ dir' = [n \in Names |-> IF n \in Unsettled THEN d[n] ELSE dir[n]]
        /\ disk' = [n \in Names |-> {dir'[n]}]
  BY DEF PowerLoss
<1>2. PICK f \in [Dirty -> UNION {Torn(file[i]) : i \in Dirty}] :
        /\ \A i \in Dirty : f[i] \in Torn(file[i])
        /\ Reclaim([i \in Inodes |-> IF i \in Dirty THEN f[i] ELSE file[i]])
  BY DEF PowerLoss
<1> DEFINE g == [i \in Inodes |-> IF i \in Dirty THEN f[i] ELSE file[i]]
<1>3. \A i \in Dirty : f[i] \in ChunkFile
  BY <1>2, TornFacts DEF Dirty, VariableTypes
<1>4. g \in [Inodes -> ChunkFile]
  BY <1>3 DEF VariableTypes, Dirty
<1>5. /\ file' \in [Inodes -> ChunkFile] /\ synced' \in SUBSET Inodes
      /\ \A i \in Inodes : Referenced(i)' => file'[i] = g[i]
      /\ \A i \in synced : Referenced(i)' => i \in synced'
  BY <1>2, <1>4, ReclaimFacts DEF VariableTypes
<1>6. \A n \in Names : /\ dir'[n] \in disk[n] /\ disk'[n] = {dir'[n]}
                       /\ disk[n] = {dir[n]} => dir'[n] = dir[n]
  BY <1>1 DEF Unsettled, DirOnDisk
<1>7. /\ dir' \in [Names -> Inodes \cup {NoFile}]
      /\ disk' \in [Names -> SUBSET (Inodes \cup {NoFile})]
      /\ DirOnDisk'
  BY <1>1, <1>6 DEF VariableTypes, DirOnDisk
<1>8. \A i \in synced : (\E n \in Names : i \in disk'[n]) =>
                file'[i] = file[i] /\ i \in synced'
  BY <1>5 DEF Referenced, Dirty, VariableTypes
<1>9. ProcessDies /\ UNCHANGED acked
  BY DEF PowerLoss, ProcessDies
<1>10. CommittedIntact' /\ AckedStable'
  BY <1>6, <1>7, <1>8, <1>9, ChunksSurvive
<1> QED BY <1>5, <1>7, <1>9, <1>10, DeathFacts

-----------------------------------------------------------------------------
(***************************************************************************)
(* The theorems.                                                           *)
(***************************************************************************)

(* Every step of the store preserves the invariant. *)
LEMMA NextInv == ASSUME IInv, [Next]_vars PROVE IInv'
<1>1. CASE Next
  <2>1. ASSUME NEW t \in Threads, Put(t) PROVE IInv'
    <3>1. CASE \/ \E r \in PutRequests : PutRefuse(t, r)
               \/ \E r \in PutRequests, k \in Tokens : PutCollides(t, r, k)
               \/ PutDirSyncFails(t)
      BY <3>1, ReplySteps
    <3>2. CASE \E r \in PutRequests, k \in Tokens : PutCreate(t, r, k)
      BY <3>2, PutCreateStep
    <3>3. CASE \E b \in Contents \ {<< >>} : PutRead(t, b)
      BY <3>3, PutReadStep
    <3>4. CASE \/ \E b \in Contents \ {<< >>} : PutTooLong(t, b)
               \/ PutReadFails(t) \/ PutWriteFails(t) \/ PutMismatch(t)
               \/ PutSyncFails(t) \/ PutLinkExists(t) \/ PutLinkFails(t)
      BY <3>4, PutFailsSteps
    <3>5. CASE PutEof(t) \/ PutSync(t) \/ PutLink(t)
      BY <3>5, PutEofStep, PutSyncStep, PutLinkStep
    <3>6. CASE PutCleanup(t) \/ PutDirSync(t)
      BY <3>6, PutCleanupStep, PutDirSyncStep
    <3> QED BY <2>1, <3>1, <3>2, <3>3, <3>4, <3>5, <3>6 DEF Put
  <2>2. ASSUME NEW t \in Threads, Get(t) PROVE IInv'
    <3>1. CASE \/ \E r \in GetRequests : GetRefuse(t, r)
               \/ GetGone(t) \/ GetOpenFails(t) \/ GetShort(t) \/ GetReadFails(t)
               \/ GetWriteFails(t) \/ GetEnd(t)
      BY <3>1, ReplySteps
    <3>2. CASE \/ \E r \in GetRequests : GetHead(t, r)
               \/ GetOpen(t)
               \/ \E n \in 1..MaxSize : GetRead(t, n)
      BY <3>2, GetSteps
    <3> QED BY <2>2, <3>1, <3>2 DEF Get
  <2>3. ASSUME NEW t \in Threads, Return(t) PROVE IInv'
    BY <2>3, ReturnStep
  <2>4. ASSUME NEW t \in Threads,
               \/ \E id \in HeadIds : HeadChunk(t, id)
               \/ \E id \in DeleteIds : DeleteFails(t, id)
        PROVE  IInv'
    BY <2>4, ReplySteps
  <2>5. ASSUME NEW t \in Threads, NEW id \in DeleteIds, DeleteChunk(t, id) PROVE IInv'
    BY <2>5, DeleteStep
  <2>6. CASE Crash \/ PowerLoss
    BY <2>6, CrashStep, PowerLossStep
  <2> QED BY <1>1, <2>1, <2>2, <2>3, <2>4, <2>5, <2>6 DEF Next
<1>2. CASE UNCHANGED vars
  BY <1>2 DEF vars, IInv, VariableTypes, DirOnDisk, TokensApart, Locals, OwnsTemp, TempOf,
         Exclusive, Written, Verified, CommittedIntact, AckedStable
<1> QED BY <1>1, <1>2

(* The inductive invariant holds in every reachable state. *)
THEOREM Invariance == Spec => []IInv
BY InitInv, NextInv, PTL DEF Spec

(* Every variable keeps its type, and no Put ever writes more to its file  *)
(* than the request announced: the comparison with expected_size comes     *)
(* before the write.                                                       *)
THEOREM TypeCorrect == Spec => []TypeOK
<1>1. IInv => TypeOK
  BY DEF IInv, Written, TypeOK
<1> QED BY <1>1, Invariance, PTL

(* Nothing but complete, synchronized chunks is ever visible under a final *)
(* name, now or after a power loss: Put's order of checks, fdatasync and   *)
(* link, and O_EXCL, guarantee it for any number of threads and crashes.   *)
THEOREM OnlyIntactChunks == Spec => []CommittedIntact
BY Invariance, PTL DEF IInv

(* A chunk whose Put returned Ok stays, with its payload, until deleted:   *)
(* the fsync of the directory before Ok, and a link that never replaces.   *)
THEOREM AcknowledgedChunksSurvive == Spec => []AckedSurvives
<1>1. IInv => AckedSurvives
  <2> SUFFICES ASSUME IInv, NEW id \in ChunkIds, acked[id] # NoContent
               PROVE  Exists(id) /\ file[dir[PathFor(id)]].data = acked[id]
    BY DEF AckedSurvives
  <2>1. /\ dir[PathFor(id)] # NoFile /\ dir[PathFor(id)] \in disk[PathFor(id)]
        /\ file[dir[PathFor(id)]].data = acked[id]
        /\ ValidateId(IdLen[id]) = "Ok" /\ FinalNameFits(id)
    BY NameFacts DEF IInv, AckedStable, DirOnDisk
  <2>2. ReadHeader(file[dir[PathFor(id)]]) = "Ok"
    BY <2>1 DEF IInv, CommittedIntact, Intact
  <2> QED BY <2>1, <2>2 DEF Exists, HeadStatus
<1> QED BY <1>1, Invariance, PTL

=============================================================================
