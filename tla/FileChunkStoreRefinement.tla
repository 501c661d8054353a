----------------------- MODULE FileChunkStoreRefinement -----------------------
(***************************************************************************)
(* Proof that FileChunkStore implements ChunkStore: the chunks are what    *)
(* the final names refer to, the stable ones what they may refer to after  *)
(* a power loss.                                                           *)
(***************************************************************************)
EXTENDS FileChunkStoreProofs

(* The initial directory is the empty map. *)
LEMMA InitRefines == ASSUME Init PROVE Abstract!Init
<1>1. \A id \in ChunkIds : dir[PathFor(id)] = NoFile /\ disk[PathFor(id)] = {NoFile}
  BY NameFacts DEF Init
<1> QED BY <1>1 DEF Abstract!Init, PayloadOf

(* What is under a final name is a payload, or nothing. *)
LEMMA PayloadFacts ==
    ASSUME IInv
    PROVE  /\ \A i \in Inodes : PayloadOf(i) = file[i].data /\ PayloadOf(i) \in Contents
           /\ PayloadOf(NoFile) = NoContent
           /\ NoContent \notin Contents
           /\ \A id \in ChunkIds : /\ PathFor(id) \in Names
                                   /\ dir[PathFor(id)] \in disk[PathFor(id)]
                                   /\ disk[PathFor(id)] \subseteq Inodes \cup {NoFile}
BY StoreAssumption, NameFacts DEF IInv, VariableTypes, ChunkFile, PayloadOf, DirOnDisk

(* A step that leaves the final names and the files under them alone. *)
LEMMA Stutter ==
    ASSUME IInv,
           \A id \in ChunkIds : /\ dir'[PathFor(id)] = dir[PathFor(id)]
                                /\ disk'[PathFor(id)] = disk[PathFor(id)]
                                /\ \A i \in disk[PathFor(id)] \ {NoFile} :
                                        file'[i].data = file[i].data
    PROVE  UNCHANGED Abstract!vars
<1>1. \A id \in ChunkIds : \A i \in disk[PathFor(id)] : PayloadOf(i)' = PayloadOf(i)
  BY DEF PayloadOf
<1>2. \A id \in ChunkIds : dir[PathFor(id)] \in disk[PathFor(id)]
  BY PayloadFacts
<1>3. \A id \in ChunkIds : PayloadOf(dir[PathFor(id)])' = PayloadOf(dir[PathFor(id)])
  BY <1>2 DEF PayloadOf
<1>4. \A id \in ChunkIds : {PayloadOf(i)' : i \in disk'[PathFor(id)]}
                            = {PayloadOf(i) : i \in disk[PathFor(id)]}
  BY <1>1
<1> QED BY <1>3, <1>4 DEF Abstract!vars

(* Setting the entry of a final name changes one chunk. *)
LEMMA EntryRefines ==
    ASSUME IInv, NEW id \in ChunkIds, NEW i \in Inodes \cup {NoFile},
           SetEntry(PathFor(id), i), UNCHANGED file
    PROVE  Abstract!Change(id, PayloadOf(i))
<1>1. \A j : PayloadOf(j)' = PayloadOf(j)
  BY DEF PayloadOf
<1>2. /\ dir'[PathFor(id)] = i /\ disk'[PathFor(id)] = disk[PathFor(id)] \cup {i}
      /\ \A jd \in ChunkIds : jd # id => /\ dir'[PathFor(jd)] = dir[PathFor(jd)]
                                         /\ disk'[PathFor(jd)] = disk[PathFor(jd)]
  BY NameFacts, SetEntryFacts DEF IInv
<1>3. \A jd \in ChunkIds :
        PayloadOf(dir[PathFor(jd)])' = IF jd = id THEN PayloadOf(i)
                                       ELSE PayloadOf(dir[PathFor(jd)])
  BY <1>2 DEF PayloadOf
<1>4. \A jd \in ChunkIds :
        {PayloadOf(j)' : j \in disk'[PathFor(jd)]}
          = IF jd = id THEN {PayloadOf(j) : j \in disk[PathFor(jd)]} \cup {PayloadOf(i)}
            ELSE {PayloadOf(j) : j \in disk[PathFor(jd)]}
  BY <1>1, <1>2
<1> QED BY <1>3, <1>4 DEF Abstract!Change

(* The link commits the verified payload, where there was no chunk. *)
LEMMA PutLinkRefines ==
    ASSUME IInv, NEW t \in Threads, PutLink(t)
    PROVE  Abstract!Next
<1>1. /\ pc[t] = "putLink" /\ dir[PathFor(req[t].id)] = NoFile
      /\ SetEntry(PathFor(req[t].id), ino[t]) /\ UNCHANGED file
  BY DEF PutLink, IInv, OwnsTemp
<1>2. PICK id \in ChunkIds : id = req[t].id
  BY DEF IInv, VariableTypes, Request
<1>3. PICK i \in Inodes : i = ino[t]
  BY <1>1 DEF IInv, Locals, PutPC, Writing
<1>4. Abstract!Change(id, PayloadOf(i))
  BY <1>1, <1>2, <1>3, EntryRefines
<1>5. Abstract!Commit(id, PayloadOf(i)) /\ PayloadOf(i) \in Contents
  BY <1>1, <1>2, <1>4, PayloadFacts DEF Abstract!Commit
<1> QED BY <1>5 DEF Abstract!Next

(* Delete removes one chunk. *)
LEMMA DeleteRefines ==
    ASSUME IInv, NEW t \in Threads, NEW id \in DeleteIds, DeleteChunk(t, id)
    PROVE  Abstract!Next
<1>1. /\ id \in ChunkIds /\ dir[PathFor(id)] # NoFile
      /\ SetEntry(PathFor(id), NoFile) /\ UNCHANGED file
  BY StoreAssumption DEF DeleteChunk, Unlink
<1>2. Abstract!Change(id, NoContent)
  BY <1>1, EntryRefines, PayloadFacts
<1>3. PayloadOf(dir[PathFor(id)]) # NoContent
  BY <1>1, PayloadFacts
<1>4. Abstract!Remove(id)
  BY <1>1, <1>2, <1>3 DEF Abstract!Remove
<1> QED BY <1>1, <1>4 DEF Abstract!Next

(* The fsync of the directory is Sync. *)
LEMMA PutDirSyncRefines ==
    ASSUME IInv, NEW t \in Threads, PutDirSync(t)
    PROVE  Abstract!Next
<1>1. /\ UNCHANGED <<dir, file>>
      /\ \A id \in ChunkIds : disk'[PathFor(id)] = {dir[PathFor(id)]}
  BY NameFacts DEF PutDirSync, FsyncDirectory
<1>2. \A j : PayloadOf(j)' = PayloadOf(j)
  BY <1>1 DEF PayloadOf
<1>3. \A id \in ChunkIds :
        PayloadOf(dir[PathFor(id)])' = PayloadOf(dir[PathFor(id)])
  BY <1>1 DEF PayloadOf
<1>4. \A id \in ChunkIds :
        {PayloadOf(j)' : j \in disk'[PathFor(id)]} = {PayloadOf(dir[PathFor(id)])}
  BY <1>1, <1>2
<1>5. Abstract!Sync
  BY <1>3, <1>4 DEF Abstract!Sync
<1> QED BY <1>5 DEF Abstract!Next

(* A power loss keeps one of the stable payloads under each id: the files  *)
(* under the names that survive were synchronized.                         *)
LEMMA PowerLossRefines == ASSUME IInv, PowerLoss PROVE Abstract!Next
<1>1. PICK d \in [Unsettled -> UNION {disk[n] : n \in Unsettled}] :
        /\ \A n \in Unsettled : d[n] \in disk[n]
        /\ dir' = [n \in Names |-> IF n \in Unsettled THEN d[n] ELSE dir[n]]
        /\ disk' = [n \in Names |-> {dir'[n]}]
  BY DEF PowerLoss
<1>2. PICK f \in [Dirty -> UNION {Torn(file[i]) : i \in Dirty}] :
        Reclaim([i \in Inodes |-> IF i \in Dirty THEN f[i] ELSE file[i]])
  BY DEF PowerLoss
<1>3. \A n \in Names : dir'[n] \in disk[n] /\ disk'[n] = {dir'[n]}
  BY <1>1 DEF Unsettled, IInv, DirOnDisk
<1>4. \A i \in synced : Referenced(i)' => file'[i] = file[i]
  BY <1>2 DEF Reclaim, Dirty, IInv, VariableTypes
<1>5. \A id \in ChunkIds :
        /\ dir'[PathFor(id)] \in disk[PathFor(id)]
        /\ disk'[PathFor(id)] = {dir'[PathFor(id)]}
        /\ \A i \in disk'[PathFor(id)] : PayloadOf(i)' = PayloadOf(i)
  <2> SUFFICES ASSUME NEW id \in ChunkIds
               PROVE  /\ dir'[PathFor(id)] \in disk[PathFor(id)]
                      /\ disk'[PathFor(id)] = {dir'[PathFor(id)]}
                      /\ \A i \in disk'[PathFor(id)] : PayloadOf(i)' = PayloadOf(i)
    OBVIOUS
  <2>1. /\ PathFor(id) \in Names
        /\ dir'[PathFor(id)] \in disk[PathFor(id)]
        /\ disk'[PathFor(id)] = {dir'[PathFor(id)]}
    BY <1>3, NameFacts
  <2>2. \A i \in disk'[PathFor(id)] \ {NoFile} : i \in synced /\ Referenced(i)'
    BY <2>1 DEF IInv, CommittedIntact, Referenced
  <2>3. \A i \in disk'[PathFor(id)] \ {NoFile} : file'[i] = file[i]
    BY <1>4, <2>2
  <2> QED BY <2>1, <2>3 DEF PayloadOf
<1>6. ASSUME NEW id \in ChunkIds
      PROVE  /\ PayloadOf(dir[PathFor(id)])' \in {PayloadOf(i) : i \in disk[PathFor(id)]}
             /\ PayloadOf(dir[PathFor(id)])' \in Contents \cup {NoContent}
             /\ {PayloadOf(i)' : i \in disk'[PathFor(id)]} = {PayloadOf(dir[PathFor(id)])'}
  <2>1. PICK e \in disk[PathFor(id)] : e = dir'[PathFor(id)]
    BY <1>5
  <2>2. PayloadOf(dir[PathFor(id)])' = PayloadOf(e)' /\ PayloadOf(e)' = PayloadOf(e)
    BY <1>5, <2>1 DEF PayloadOf
  <2>3. PayloadOf(e) \in Contents \cup {NoContent}
    BY PayloadFacts
  <2>4. {PayloadOf(i)' : i \in disk'[PathFor(id)]} = {PayloadOf(e)'}
    BY <1>5, <2>1
  <2> QED BY <2>2, <2>3, <2>4
<1>7. Abstract!PowerLoss
  BY <1>6 DEF Abstract!PowerLoss, Abstract!Payloads
<1> QED BY <1>7 DEF Abstract!Next

(* The steps of a Put before the link touch its hidden file only. *)
LEMMA PutStutters ==
    ASSUME IInv, NEW t \in Threads,
           \/ \E r \in PutRequests, k \in Tokens : PutCreate(t, r, k)
           \/ \E b \in Contents \ {<< >>} : PutRead(t, b)
           \/ \E b \in Contents \ {<< >>} : PutTooLong(t, b)
           \/ PutReadFails(t) \/ PutWriteFails(t) \/ PutMismatch(t)
           \/ PutSyncFails(t) \/ PutLinkExists(t) \/ PutLinkFails(t)
           \/ PutCleanup(t)
    PROVE  UNCHANGED Abstract!vars
<1>1. CASE \E r \in PutRequests, k \in Tokens : PutCreate(t, r, k)
  <2>1. PICK r \in PutRequests, k \in Tokens : PutCreate(t, r, k)
    BY <1>1
  <2>2. r.id \in ChunkIds
    BY StoreAssumption DEF Request
  <2>3. PICK i \in Inodes :
          /\ ~Referenced(i)
          /\ SetEntry(TempPath(r.id, k), i)
          /\ file' = [file EXCEPT ![i] = [hdr |-> MakeHeader(r.size, r.sum),
                                          data |-> << >>]]
    BY <2>1 DEF PutCreate
  <2>4. \A id \in ChunkIds : /\ dir'[PathFor(id)] = dir[PathFor(id)]
                             /\ disk'[PathFor(id)] = disk[PathFor(id)]
                             /\ i \notin disk[PathFor(id)]
    BY <2>2, <2>3, NameFacts, SetEntryFacts DEF IInv, Referenced
  <2>5. \A j \in Inodes : j # i => file'[j] = file[j]
    BY <2>3 DEF IInv, VariableTypes
  <2>6. \A id \in ChunkIds : \A j \in disk[PathFor(id)] \ {NoFile} : j \in Inodes
    BY PayloadFacts
  <2> QED BY <2>4, <2>5, <2>6, Stutter
<1>2. CASE \E b \in Contents \ {<< >>} : PutRead(t, b)
  <2>1. PICK b \in Contents \ {<< >>} : PutRead(t, b)
    BY <1>2
  <2>2. /\ pc[t] = "putStream" /\ UNCHANGED <<dir, disk>>
        /\ \A j \in Inodes : j # ino[t] => file'[j] = file[j]
    BY <2>1 DEF PutRead, IInv, VariableTypes
  <2>3. \A id \in ChunkIds : ino[t] \notin disk[PathFor(id)]
    BY <2>2 DEF IInv, Exclusive
  <2>4. \A id \in ChunkIds : \A j \in disk[PathFor(id)] \ {NoFile} : j \in Inodes
    BY PayloadFacts
  <2> QED BY <2>2, <2>3, <2>4, Stutter
<1>3. CASE \/ \E b \in Contents \ {<< >>} : PutTooLong(t, b)
           \/ PutReadFails(t) \/ PutWriteFails(t) \/ PutMismatch(t)
           \/ PutSyncFails(t) \/ PutLinkExists(t) \/ PutLinkFails(t)
           \/ PutCleanup(t)
  <2>1. pc[t] \in Writing /\ Cleanup(t) /\ UNCHANGED file
    BY <1>3 DEF PutTooLong, PutReadFails, PutWriteFails, PutMismatch, PutSyncFails,
           PutLinkExists, PutLinkFails, PutFails, PutCleanup, Writing
  <2> QED BY <2>1, CleanupFacts, Stutter
<1> QED BY <1>1, <1>2, <1>3

(* The steps that leave the file system alone. *)
LEMMA QuietStutters ==
    ASSUME IInv, NEW t \in Threads,
           \/ \E r \in PutRequests : PutRefuse(t, r)
           \/ \E r \in PutRequests, k \in Tokens : PutCollides(t, r, k)
           \/ PutEof(t) \/ PutSync(t) \/ PutDirSyncFails(t)
           \/ Get(t)
           \/ \E id \in HeadIds : HeadChunk(t, id)
           \/ \E id \in DeleteIds : DeleteFails(t, id)
    PROVE  UNCHANGED Abstract!vars
<1>1. UNCHANGED <<dir, disk, file>>
  <2>1. CASE \/ \E r \in PutRequests : PutRefuse(t, r)
             \/ \E r \in PutRequests, k \in Tokens : PutCollides(t, r, k)
             \/ PutEof(t) \/ PutSync(t) \/ PutDirSyncFails(t)
    BY <2>1 DEF PutRefuse, PutCollides, PutEof, PutSync, PutDirSyncFails, fsVars
  <2>2. CASE Get(t)
    BY <2>2 DEF Get, GetRefuse, GetHead, GetOpen, GetGone, GetOpenFails, GetRead,
           GetShort, GetReadFails, GetWriteFails, GetEnd, fsVars
  <2>3. CASE \/ \E id \in HeadIds : HeadChunk(t, id)
             \/ \E id \in DeleteIds : DeleteFails(t, id)
    BY <2>3 DEF HeadChunk, DeleteFails, fsVars
  <2> QED BY <2>1, <2>2, <2>3
<1> QED BY <1>1, Stutter

(* A handler that returns, or is killed, leaves the chunks as they are. *)
LEMMA LeavingStutters ==
    ASSUME IInv, Crash \/ \E t \in Threads : Return(t)
    PROVE  UNCHANGED Abstract!vars
<1>1. UNCHANGED <<dir, disk>> /\ Reclaim(file)
  BY DEF Crash, Return
<1>2. \A i \in Inodes : Referenced(i)' => file'[i] = file[i]
  BY <1>1, ReclaimFacts DEF IInv, VariableTypes
<1>3. \A id \in ChunkIds : \A i \in disk[PathFor(id)] \ {NoFile} : i \in Inodes /\ Referenced(i)'
  BY <1>1, PayloadFacts DEF Referenced
<1> QED BY <1>1, <1>2, <1>3, Stutter

(* Every step of the store is a step of the map, or changes nothing. *)
LEMMA NextRefines == ASSUME IInv, [Next]_vars PROVE [Abstract!Next]_(Abstract!vars)
<1>1. ASSUME NEW t \in Threads, Put(t) PROVE [Abstract!Next]_(Abstract!vars)
  <2>1. CASE PutLink(t)
    BY <2>1, PutLinkRefines
  <2>2. CASE PutDirSync(t)
    BY <2>2, PutDirSyncRefines
  <2>3. CASE \/ \E r \in PutRequests, k \in Tokens : PutCreate(t, r, k)
             \/ \E b \in Contents \ {<< >>} : PutRead(t, b)
             \/ \E b \in Contents \ {<< >>} : PutTooLong(t, b)
             \/ PutReadFails(t) \/ PutWriteFails(t) \/ PutMismatch(t)
             \/ PutSyncFails(t) \/ PutLinkExists(t) \/ PutLinkFails(t)
             \/ PutCleanup(t)
    BY <2>3, PutStutters
  <2>4. CASE \/ \E r \in PutRequests : PutRefuse(t, r)
             \/ \E r \in PutRequests, k \in Tokens : PutCollides(t, r, k)
             \/ PutEof(t) \/ PutSync(t) \/ PutDirSyncFails(t)
    BY <2>4, QuietStutters
  <2> QED BY <1>1, <2>1, <2>2, <2>3, <2>4 DEF Put
<1>2. ASSUME NEW t \in Threads,
             \/ Get(t)
             \/ \E id \in HeadIds : HeadChunk(t, id)
             \/ \E id \in DeleteIds : DeleteFails(t, id)
      PROVE  [Abstract!Next]_(Abstract!vars)
  BY <1>2, QuietStutters
<1>3. ASSUME NEW t \in Threads, NEW id \in DeleteIds, DeleteChunk(t, id)
      PROVE  [Abstract!Next]_(Abstract!vars)
  BY <1>3, DeleteRefines
<1>4. CASE Crash \/ \E t \in Threads : Return(t)
  BY <1>4, LeavingStutters
<1>5. CASE PowerLoss
  BY <1>5, PowerLossRefines
<1>6. CASE UNCHANGED vars
  BY <1>6, Stutter DEF vars
<1> QED BY <1>1, <1>2, <1>3, <1>4, <1>5, <1>6 DEF Next

(* The store implements the map of its interface: for any number of        *)
(* threads, crashes and power losses a chunk appears whole, at the link,   *)
(* where there was none, is never replaced or modified, and goes only by a *)
(* Delete or by a power loss before the directory was synchronized.        *)
THEOREM StoreImplementsMap == Spec => Implements
<1>1. Init => Abstract!Init
  BY InitRefines
<1>2. IInv /\ [Next]_vars => [Abstract!Next]_(Abstract!vars)
  BY NextRefines
<1> QED BY <1>1, <1>2, Invariance, PTL DEF Spec, Implements, Abstract!Spec

=============================================================================
