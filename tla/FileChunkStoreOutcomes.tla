------------------------ MODULE FileChunkStoreOutcomes ------------------------
(***************************************************************************)
(* Proofs about what the operations of FileChunkStore leave behind: the    *)
(* bytes a Get has streamed, the file of a Put that was refused, and the   *)
(* temporary names.                                                        *)
(***************************************************************************)
EXTENDS FileChunkStoreProofs

-----------------------------------------------------------------------------
(***************************************************************************)
(* The inductive invariant, on top of IInv.  That a refused Put left       *)
(* nothing needs its file to be hidden from the creation on, and longer    *)
(* than Exclusive says.                                                    *)
(***************************************************************************)

(* A Get that streams, or has streamed. *)
Reading(t) == pc[t] = "getRead" \/ (pc[t] = "done" /\ res[t].op = "get" /\ ino[t] # NoFile)

(* What GetExact says of one thread. *)
ReadExact(t) ==
    /\ Intact(file[ino[t]])
    /\ \A i \in 1..Len(out[t]) :
        /\ req[t].offset + i <= Len(file[ino[t]].data)
        /\ out[t][i] = file[ino[t]].data[req[t].offset + i]
    /\ (pc[t] = "done" /\ res[t].code = "Ok") => Len(out[t]) = req[t].size

(* A Put whose file has not been linked, and never will if it is refused. *)
Refused(t) == /\ pc[t] = "done" /\ res[t].op = "put" /\ ino[t] # NoFile
              /\ res[t].code \notin {"Ok", "IoError"}

Hidden(t) == pc[t] \in {"putStream", "putSync", "putLink"} \/ Refused(t)

(* Nobody but the Put knows its hidden file. *)
HiddenApart ==
    \A t \in Threads : Hidden(t) =>
        /\ ino[t] \in Inodes
        /\ \A u \in Threads : u # t => ino[u] # ino[t]
        /\ \A id \in ChunkIds : ino[t] \notin disk[PathFor(id)]

Outcomes == GetExact /\ HiddenApart /\ NoOrphanTemps

-----------------------------------------------------------------------------
(***************************************************************************)
(* Lemmas.                                                                 *)
(***************************************************************************)

(* GetExact, thread by thread. *)
LEMMA ExactByThread ==
    /\ GetExact <=> \A t \in Threads : Reading(t) => ReadExact(t)
    /\ GetExact' <=> \A t \in Threads : Reading(t)' => ReadExact(t)'
BY DEF GetExact, Reading, ReadExact

(* A reader that does not move, and whose file stays as it is. *)
LEMMA OtherReader ==
    ASSUME GetExact, NEW u \in Threads,
           pc'[u] = pc[u], req'[u] = req[u], ino'[u] = ino[u],
           out'[u] = out[u], res'[u] = res[u],
           Reading(u) => file'[ino[u]] = file[ino[u]]
    PROVE  Reading(u)' => ReadExact(u)'
<1>1. Reading(u)' <=> Reading(u)
  BY DEF Reading
<1>2. ASSUME Reading(u) PROVE ReadExact(u)'
  <2>1. ReadExact(u) /\ file'[ino'[u]] = file[ino[u]]
    BY <1>2, ExactByThread
  <2> QED BY <2>1 DEF ReadExact
<1> QED BY <1>1, <1>2

(* A reader has an open file, which no other thread writes to. *)
LEMMA ReaderFile ==
    ASSUME IInv, NEW u \in Threads, Reading(u)
    PROVE  /\ ino[u] \in Inodes
           /\ \A t \in Threads : pc[t] = "putStream" /\ t # u => ino[u] # ino[t]
<1>1. ino[u] \in Inodes
  BY StoreAssumption DEF Reading, IInv, Locals, VariableTypes
<1>2. \A t \in Threads : pc[t] = "putStream" /\ t # u => ino[u] # ino[t]
  BY DEF IInv, Exclusive
<1> QED BY <1>1, <1>2

(* Names are final or temporary, and final ones belong to an id. *)
LEMMA FinalOrTemp ==
    /\ \A n \in FinalNames : n.id \in ChunkIds /\ n = PathFor(n.id)
    /\ \A n \in TempNames : n \in Names /\ \A id \in ChunkIds : n # PathFor(id)
BY DEF FinalNames, TempNames, Names, PathFor

(* In the initial state nothing runs and no name exists. *)
LEMMA InitOutcomes == ASSUME Init PROVE Outcomes
<1>1. GetExact /\ HiddenApart
  BY DEF Init, GetExact, HiddenApart, Hidden, Refused
<1>2. NoOrphanTemps
  BY FinalOrTemp DEF Init, NoOrphanTemps
<1> QED BY <1>1, <1>2 DEF Outcomes

-----------------------------------------------------------------------------
(***************************************************************************)
(* The steps.                                                              *)
(***************************************************************************)

(* A step of thread t: what it must say about t, and about the others. *)
LEMMA ThreadOutcomes ==
    ASSUME IInv, Outcomes, NEW t \in Threads, NoOrphanTemps',
           \A u \in Threads : u # t => /\ pc'[u] = pc[u] /\ req'[u] = req[u]
                                       /\ ino'[u] = ino[u] /\ out'[u] = out[u]
                                       /\ res'[u] = res[u],
           \A u \in Threads : u # t /\ Reading(u) => file'[ino[u]] = file[ino[u]],
           Reading(t)' => ReadExact(t)',
           Hidden(t)' => /\ ino'[t] \in Inodes
                         /\ \A u \in Threads : u # t => ino[u] # ino'[t]
                         /\ \A id \in ChunkIds : ino'[t] \notin disk'[PathFor(id)],
           \A u \in Threads : u # t /\ Hidden(u) =>
                /\ ino'[t] # ino[u]
                /\ \A id \in ChunkIds : ino[u] \notin disk'[PathFor(id)] \ disk[PathFor(id)]
    PROVE  Outcomes'
<1>1. GetExact'
  <2>1. \A u \in Threads : u # t => (Reading(u)' => ReadExact(u)')
    BY OtherReader DEF Outcomes
  <2> QED BY <2>1, ExactByThread
<1>2. HiddenApart'
  <2>1. \A u \in Threads : u # t => (Hidden(u)' <=> Hidden(u))
    BY DEF Hidden, Refused
  <2> QED BY <2>1 DEF HiddenApart, Outcomes
<1> QED BY <1>1, <1>2 DEF Outcomes

(* The temporary names after a step of thread t. *)
LEMMA TempsOfOthers ==
    ASSUME IInv, Outcomes, NEW t \in Threads, crashes' = crashes,
           \A u \in Threads : u # t => /\ pc'[u] = pc[u] /\ req'[u] = req[u]
                                       /\ token'[u] = token[u],
           \A n \in TempNames : "unlink" \notin Faults /\ dir'[n] # NoFile =>
                \/ dir[n] # NoFile /\ (pc[t] \in Writing => n # TempOf(t))
                \/ pc'[t] \in Writing /\ n = TempOf(t)'
    PROVE  NoOrphanTemps'
<1> SUFFICES ASSUME crashes = 0, "unlink" \notin Faults,
                    NEW n \in TempNames, dir'[n] # NoFile
             PROVE  \E u \in Threads : pc'[u] \in Writing /\ TempOf(u)' = n
  BY DEF NoOrphanTemps
<1>1. CASE pc'[t] \in Writing /\ n = TempOf(t)'
  BY <1>1
<1>2. CASE dir[n] # NoFile /\ (pc[t] \in Writing => n # TempOf(t))
  <2>1. PICK u \in Threads : pc[u] \in Writing /\ TempOf(u) = n
    BY <1>2 DEF Outcomes, NoOrphanTemps
  <2>2. u # t
    BY <1>2, <2>1
  <2> QED BY <2>1, <2>2 DEF TempOf
<1> QED BY <1>1, <1>2

(* A thread that moves outside the steps between the creation and the      *)
(* removal of a temporary name, and touches no file.                       *)
LEMMA QuietStep ==
    ASSUME IInv, Outcomes, NEW t \in Threads,
           pc[t] \notin Writing, pc'[t] \notin Writing, ~Refused(t)',
           Reading(t)' => ReadExact(t)',
           \A u \in Threads : u # t => /\ pc'[u] = pc[u] /\ req'[u] = req[u]
                                       /\ out'[u] = out[u] /\ res'[u] = res[u],
           UNCHANGED <<fsVars, token, ino, crashes>>
    PROVE  Outcomes'
<1> USE DEF fsVars
<1>1. NoOrphanTemps'
  BY TempsOfOthers
<1>2. ~Hidden(t)'
  BY DEF Hidden, Writing
<1>3. \A u \in Threads : u # t /\ Hidden(u) => ino[t] # ino[u]
  BY DEF Outcomes, HiddenApart
<1> QED BY <1>1, <1>2, <1>3, ThreadOutcomes

(* A Get that ends has streamed what GetExact says. *)
LEMMA GetReplies ==
    ASSUME IInv, Outcomes, NEW t \in Threads, NEW code \in StatusCode,
           pc[t] = "getOpen" \/ pc[t] = "getRead",
           Reply(t, "get", code), code = "Ok" => pc[t] = "getRead" /\ Remaining(t) = 0,
           UNCHANGED <<fsVars, req, token, ino, hashed, out, acked, crashes>>
    PROVE  Outcomes'
<1> USE DEF fsVars
<1>1. /\ pc'[t] = "done" /\ res'[t] = [op |-> "get", code |-> code]
      /\ \A u \in Threads : u # t => pc'[u] = pc[u] /\ res'[u] = res[u]
  BY DEF Reply, IInv, VariableTypes
<1>2. Reading(t)' => ReadExact(t)'
  <2> SUFFICES ASSUME Reading(t)' PROVE ReadExact(t)'
    OBVIOUS
  <2>1. pc[t] = "getRead"
    BY <1>1 DEF Reading, IInv, Locals
  <2>2. ReadExact(t)
    BY <2>1, ExactByThread DEF Outcomes, Reading
  <2>3. code = "Ok" => Len(out[t]) = req[t].size
    <3>1. req[t].size \in Nat /\ Len(out[t]) \in Nat
      BY SizeAssumption, ContentsAreSeqs DEF IInv, VariableTypes, Request, UInt64
    <3> QED BY <3>1 DEF Remaining
  <2> QED BY <1>1, <2>2, <2>3 DEF ReadExact
<1>3. pc[t] \notin Writing /\ pc'[t] \notin Writing /\ ~Refused(t)'
  BY <1>1 DEF Writing, Refused
<1> QED BY <1>1, <1>2, <1>3, QuietStep

(* The steps that only return a status. *)
LEMMA ReplyOutcomes ==
    ASSUME IInv, Outcomes, NEW t \in Threads,
           \/ \E r \in PutRequests : PutRefuse(t, r)
           \/ \E r \in PutRequests, k \in Tokens : PutCollides(t, r, k)
           \/ PutDirSyncFails(t)
           \/ \E id \in HeadIds : HeadChunk(t, id)
           \/ \E r \in GetRequests : GetRefuse(t, r)
           \/ \E id \in DeleteIds : DeleteFails(t, id)
    PROVE  Outcomes'
<1> USE DEF fsVars
<1>1. CASE pc[t] = "idle"
  <2>1. ino[t] = NoFile
    BY <1>1 DEF IInv, Locals
  <2>2. /\ \E op, code : Reply(t, op, code)
        /\ \E r : req' = [req EXCEPT ![t] = r]
        /\ UNCHANGED <<fsVars, token, ino, hashed, out, acked, crashes>>
    <3>1. CASE \E r \in PutRequests : PutRefuse(t, r)
      BY <3>1 DEF PutRefuse
    <3>2. CASE \E r \in PutRequests, k \in Tokens : PutCollides(t, r, k)
      BY <3>2 DEF PutCollides
    <3>3. CASE \E id \in HeadIds : HeadChunk(t, id)
      BY <3>3 DEF HeadChunk
    <3>4. CASE \E r \in GetRequests : GetRefuse(t, r)
      BY <3>4 DEF GetRefuse
    <3>5. CASE \E id \in DeleteIds : DeleteFails(t, id)
      BY <3>5 DEF DeleteFails
    <3>6. ~PutDirSyncFails(t)
      BY <1>1 DEF PutDirSyncFails
    <3> QED BY <3>1, <3>2, <3>3, <3>4, <3>5, <3>6
  <2>3. /\ pc'[t] = "done"
        /\ \A u \in Threads : u # t => /\ pc'[u] = pc[u] /\ req'[u] = req[u]
                                       /\ out'[u] = out[u] /\ res'[u] = res[u]
    BY <2>2 DEF Reply, IInv, VariableTypes
  <2>4. ~Reading(t)' /\ ~Refused(t)'
    BY <2>1, <2>2, <2>3 DEF Reading, Refused
  <2> QED BY <1>1, <2>2, <2>3, <2>4, QuietStep DEF Writing
<1>2. CASE PutDirSyncFails(t)
  <2>1. /\ pc[t] = "putDirSync" /\ Reply(t, "put", "IoError")
        /\ UNCHANGED <<fsVars, req, token, ino, hashed, out, acked, crashes>>
    BY <1>2 DEF PutDirSyncFails
  <2>2. /\ pc'[t] = "done" /\ res'[t] = [op |-> "put", code |-> "IoError"]
        /\ \A u \in Threads : u # t => pc'[u] = pc[u] /\ res'[u] = res[u]
    BY <2>1 DEF Reply, IInv, VariableTypes
  <2>3. ~Reading(t)' /\ ~Refused(t)'
    BY <2>2 DEF Reading, Refused
  <2> QED BY <2>1, <2>2, <2>3, QuietStep DEF Writing
<1> QED BY <1>1, <1>2 DEF PutRefuse, PutCollides, HeadChunk, GetRefuse, DeleteFails

(* The ends of a Get. *)
LEMMA GetEndsOutcomes ==
    ASSUME IInv, Outcomes, NEW t \in Threads,
           \/ GetGone(t) \/ GetOpenFails(t) \/ GetShort(t) \/ GetReadFails(t)
           \/ GetWriteFails(t) \/ GetEnd(t)
    PROVE  Outcomes'
<1>1. CASE GetEnd(t)
  BY <1>1, GetReplies DEF GetEnd, StatusCode
<1>2. CASE GetGone(t) \/ GetOpenFails(t)
  BY <1>2, GetReplies DEF GetGone, GetOpenFails, StatusCode
<1>3. CASE GetShort(t) \/ GetReadFails(t) \/ GetWriteFails(t)
  BY <1>3, GetReplies DEF GetShort, GetReadFails, GetWriteFails, StatusCode
<1> QED BY <1>1, <1>2, <1>3

(* After cleanup the temporary name is gone, unless unlink failed. *)
LEMMA CleanupRemoves ==
    ASSUME IInv, NEW t \in Threads, pc[t] \in Writing, Cleanup(t)
    PROVE  \A n \in TempNames : "unlink" \notin Faults /\ dir'[n] # NoFile =>
                dir[n] # NoFile /\ n # TempOf(t)
BY DEF Cleanup, Unlink, SetEntry, IInv, VariableTypes, TempNames, Names

(* A Put that cleans up and returns an error: its file stays hidden. *)
LEMMA PutFailsOutcomes ==
    ASSUME IInv, Outcomes, NEW t \in Threads,
           pc[t] \in {"putStream", "putSync", "putLink"},
           NEW code \in StatusCode, PutFails(t, code)
    PROVE  Outcomes'
<1>1. /\ pc'[t] = "done" /\ res'[t] = [op |-> "put", code |-> code]
      /\ \A u \in Threads : u # t => pc'[u] = pc[u] /\ res'[u] = res[u]
      /\ UNCHANGED <<file, synced, req, token, ino, hashed, out, acked, crashes>>
  BY DEF PutFails, Reply, IInv, VariableTypes
<1>2. pc[t] \in Writing /\ Cleanup(t)
  BY DEF Writing, PutFails
<1>3. \A id \in ChunkIds : disk'[PathFor(id)] = disk[PathFor(id)]
  BY <1>2, CleanupFacts
<1>4. NoOrphanTemps'
  BY <1>1, <1>2, CleanupRemoves, TempsOfOthers
<1>5. ~Reading(t)'
  BY <1>1 DEF Reading
<1>6. /\ ino[t] \in Inodes
      /\ \A u \in Threads : u # t => ino[u] # ino[t]
      /\ \A id \in ChunkIds : ino[t] \notin disk[PathFor(id)]
  BY DEF Outcomes, HiddenApart, Hidden
<1> QED BY <1>1, <1>3, <1>4, <1>5, <1>6, ThreadOutcomes

(* The steps at which a Put gives up after it created its file. *)
LEMMA PutFailsStepsOutcomes ==
    ASSUME IInv, Outcomes, NEW t \in Threads,
           \/ \E b \in Contents \ {<< >>} : PutTooLong(t, b)
           \/ PutReadFails(t) \/ PutWriteFails(t) \/ PutMismatch(t)
           \/ PutSyncFails(t) \/ PutLinkExists(t) \/ PutLinkFails(t)
    PROVE  Outcomes'
<1>1. /\ pc[t] \in {"putStream", "putSync", "putLink"}
      /\ \E code \in StatusCode : PutFails(t, code)
  BY DEF PutTooLong, PutReadFails, PutWriteFails, PutMismatch, PutSyncFails,
         PutLinkExists, PutLinkFails, StatusCode
<1> QED BY <1>1, PutFailsOutcomes

(* Creating the temporary file: nobody knows the inode. *)
LEMMA PutCreateOutcomes ==
    ASSUME IInv, Outcomes, NEW t \in Threads, NEW r \in PutRequests, NEW k \in Tokens,
           PutCreate(t, r, k)
    PROVE  Outcomes'
<1>1. r.id \in ChunkIds
  BY StoreAssumption DEF Request
<1>2. PICK i \in Inodes :
        /\ ~Referenced(i)
        /\ SetEntry(TempPath(r.id, k), i)
        /\ file' = [file EXCEPT ![i] = [hdr |-> MakeHeader(r.size, r.sum),
                                        data |-> << >>]]
        /\ ino' = [ino EXCEPT ![t] = i]
  BY DEF PutCreate
<1>3. /\ pc[t] = "idle" /\ pc'[t] = "putStream" /\ ino'[t] = i
      /\ req'[t] = r /\ token'[t] = k
      /\ \A u \in Threads : u # t => /\ pc'[u] = pc[u] /\ req'[u] = req[u]
                                     /\ token'[u] = token[u] /\ ino'[u] = ino[u]
      /\ UNCHANGED <<out, res, crashes>>
  BY <1>2 DEF PutCreate, IInv, VariableTypes
<1>4. /\ \A n \in Names : i \notin disk[n]
      /\ \A u \in Threads : ino[u] # i
      /\ \A j \in Inodes : j # i => file'[j] = file[j]
  BY <1>2 DEF Referenced, IInv, VariableTypes
<1>5. /\ \A id \in ChunkIds : disk'[PathFor(id)] = disk[PathFor(id)]
      /\ \A n \in TempNames : n # TempPath(r.id, k) => dir'[n] = dir[n]
  BY <1>1, <1>2, NameFacts, SetEntryFacts DEF IInv, TempNames, Names
<1>6. NoOrphanTemps'
  <2>1. TempOf(t)' = TempPath(r.id, k)
    BY <1>3 DEF TempOf
  <2>2. pc[t] \notin Writing /\ pc'[t] \in Writing
    BY <1>3 DEF Writing
  <2> QED BY <1>3, <1>5, <2>1, <2>2, TempsOfOthers
<1>7. ~Reading(t)'
  BY <1>3 DEF Reading
<1>8. \A id \in ChunkIds : i \notin disk'[PathFor(id)]
  BY <1>4, <1>5, NameFacts
<1>9. \A u \in Threads : u # t /\ Reading(u) => file'[ino[u]] = file[ino[u]]
  BY <1>4, ReaderFile
<1> QED BY <1>3, <1>4, <1>5, <1>6, <1>7, <1>8, <1>9, ThreadOutcomes

(* Writing: no Get reads the file that is being written. *)
LEMMA PutReadOutcomes ==
    ASSUME IInv, Outcomes, NEW t \in Threads, NEW b \in Contents, PutRead(t, b)
    PROVE  Outcomes'
<1>1. /\ pc[t] = "putStream"
      /\ file' = [file EXCEPT ![ino[t]].data = @ \o b]
      /\ UNCHANGED <<dir, disk, pc, req, token, ino, out, res, crashes>>
  BY DEF PutRead
<1>2. NoOrphanTemps'
  BY <1>1 DEF Outcomes, NoOrphanTemps, TempOf
<1>3. \A u \in Threads : u # t /\ Reading(u) => file'[ino[u]] = file[ino[u]]
  <2>1. \A u \in Threads : u # t /\ Reading(u) => ino[u] # ino[t] /\ ino[u] \in Inodes
    BY <1>1, ReaderFile
  <2> QED BY <1>1, <2>1 DEF IInv, VariableTypes
<1>4. ~Reading(t)'
  BY <1>1 DEF Reading
<1>5. \A u \in Threads : Hidden(u) => /\ ino[u] \in Inodes
                                      /\ \A v \in Threads : v # u => ino[v] # ino[u]
                                      /\ \A id \in ChunkIds : ino[u] \notin disk[PathFor(id)]
  BY DEF Outcomes, HiddenApart
<1>6. Hidden(t)
  BY <1>1 DEF Hidden
<1> QED BY <1>1, <1>2, <1>3, <1>4, <1>5, <1>6, ThreadOutcomes

(* The steps of a Put to the link: the file stays hidden. *)
LEMMA PutVerifyOutcomes ==
    ASSUME IInv, Outcomes, NEW t \in Threads, PutEof(t) \/ PutSync(t)
    PROVE  Outcomes'
<1>1. /\ pc[t] \in {"putStream", "putSync"} /\ pc'[t] \in {"putSync", "putLink"}
      /\ \A u \in Threads : u # t => pc'[u] = pc[u]
      /\ UNCHANGED <<dir, disk, file, req, token, ino, out, res, crashes>>
  BY DEF PutEof, PutSync, fsVars, IInv, VariableTypes
<1>2. NoOrphanTemps'
  <2>1. \A u \in Threads : pc[u] \in Writing => pc'[u] \in Writing /\ TempOf(u)' = TempOf(u)
    BY <1>1 DEF TempOf, Writing
  <2> QED BY <1>1, <2>1 DEF Outcomes, NoOrphanTemps
<1>3. ~Reading(t)'
  BY <1>1 DEF Reading
<1>4. \A u \in Threads : Hidden(u) => /\ ino[u] \in Inodes
                                      /\ \A v \in Threads : v # u => ino[v] # ino[u]
                                      /\ \A id \in ChunkIds : ino[u] \notin disk[PathFor(id)]
  BY DEF Outcomes, HiddenApart
<1>5. Hidden(t)
  BY <1>1 DEF Hidden
<1> QED BY <1>1, <1>2, <1>3, <1>4, <1>5, ThreadOutcomes

(* The commit: the file that becomes visible is hidden to nobody else. *)
LEMMA PutLinkOutcomes ==
    ASSUME IInv, Outcomes, NEW t \in Threads, PutLink(t)
    PROVE  Outcomes'
<1> DEFINE F == PathFor(req[t].id)
<1>1. /\ pc[t] = "putLink" /\ pc'[t] = "putCleanup"
      /\ SetEntry(F, ino[t])
      /\ \A u \in Threads : u # t => pc'[u] = pc[u]
      /\ UNCHANGED <<file, req, token, ino, out, res, crashes>>
  BY DEF PutLink, IInv, OwnsTemp, VariableTypes
<1>2. ino[t] \in Inodes /\ req[t].id \in ChunkIds /\ F \in Names
  BY <1>1, NameFacts DEF IInv, Locals, PutPC, Writing, VariableTypes, Request
<1>3. /\ disk'[F] = disk[F] \cup {ino[t]}
      /\ \A m \in Names : m # F => dir'[m] = dir[m] /\ disk'[m] = disk[m]
  BY <1>1, <1>2, SetEntryFacts DEF IInv
<1>4. NoOrphanTemps'
  <2>1. \A n \in TempNames : dir'[n] = dir[n]
    BY <1>2, <1>3, FinalOrTemp
  <2>2. \A u \in Threads : pc[u] \in Writing => pc'[u] \in Writing /\ TempOf(u)' = TempOf(u)
    BY <1>1 DEF TempOf, Writing
  <2> QED BY <1>1, <2>1, <2>2 DEF Outcomes, NoOrphanTemps
<1>5. ~Reading(t)' /\ ~Hidden(t)'
  BY <1>1 DEF Reading, Hidden, Refused
<1>6. \A u \in Threads : u # t /\ Hidden(u) => ino[t] # ino[u]
  BY DEF Outcomes, HiddenApart
<1>7. \A id \in ChunkIds : disk'[PathFor(id)] \ disk[PathFor(id)] \subseteq {ino[t]}
  BY <1>3, NameFacts
<1> QED BY <1>1, <1>5, <1>4, <1>6, <1>7, ThreadOutcomes

(* After the commit: cleanup, fsync of the directory and Ok. *)
LEMMA PutEndsOutcomes ==
    ASSUME IInv, Outcomes, NEW t \in Threads, PutCleanup(t) \/ PutDirSync(t)
    PROVE  Outcomes'
<1>1. CASE PutCleanup(t)
  <2>1. /\ pc[t] \in Writing /\ pc'[t] = "putDirSync" /\ Cleanup(t)
        /\ \A u \in Threads : u # t => pc'[u] = pc[u]
        /\ UNCHANGED <<file, req, token, ino, out, res, crashes>>
    BY <1>1 DEF PutCleanup, Writing, IInv, VariableTypes
  <2>2. NoOrphanTemps'
    BY <2>1, CleanupRemoves, TempsOfOthers
  <2>3. \A id \in ChunkIds : disk'[PathFor(id)] = disk[PathFor(id)]
    BY <2>1, CleanupFacts
  <2>4. ~Reading(t)' /\ ~Hidden(t)'
    BY <2>1 DEF Reading, Hidden, Refused
  <2>5. \A u \in Threads : u # t /\ Hidden(u) => ino[t] # ino[u]
    BY DEF Outcomes, HiddenApart
  <2> QED BY <2>1, <2>2, <2>3, <2>4, <2>5, ThreadOutcomes
<1>2. CASE PutDirSync(t)
  <2>1. /\ pc[t] = "putDirSync" /\ pc'[t] = "done"
        /\ res'[t] = [op |-> "put", code |-> "Ok"]
        /\ \A u \in Threads : u # t => pc'[u] = pc[u] /\ res'[u] = res[u]
        /\ \A n \in Names : disk'[n] = {dir[n]}
        /\ UNCHANGED <<dir, file, req, token, ino, out, crashes>>
    BY <1>2 DEF PutDirSync, FsyncDirectory, Reply, IInv, VariableTypes
  <2>2. NoOrphanTemps'
    BY <2>1, TempsOfOthers DEF Writing
  <2>3. \A id \in ChunkIds : disk'[PathFor(id)] \subseteq disk[PathFor(id)]
    BY <2>1, NameFacts DEF IInv, DirOnDisk
  <2>4. ~Reading(t)' /\ ~Hidden(t)'
    BY <2>1 DEF Reading, Hidden, Refused
  <2>5. \A u \in Threads : u # t /\ Hidden(u) => ino[t] # ino[u]
    BY DEF Outcomes, HiddenApart
  <2> QED BY <2>1, <2>2, <2>3, <2>4, <2>5, ThreadOutcomes
<1> QED BY <1>1, <1>2

(* A Get that opens the final name finds an intact chunk. *)
LEMMA GetOpenOutcomes ==
    ASSUME IInv, Outcomes, NEW t \in Threads,
           (\E r \in GetRequests : GetHead(t, r)) \/ GetOpen(t)
    PROVE  Outcomes'
<1>1. CASE \E r \in GetRequests : GetHead(t, r)
  <2>1. /\ pc[t] = "idle" /\ pc'[t] = "getOpen"
        /\ \A u \in Threads : u # t => pc'[u] = pc[u] /\ req'[u] = req[u]
        /\ UNCHANGED <<fsVars, token, ino, out, res, crashes>>
    BY <1>1 DEF GetHead, IInv, VariableTypes
  <2>2. ~Reading(t)' /\ ~Refused(t)'
    BY <2>1 DEF Reading, Refused
  <2> QED BY <2>1, <2>2, QuietStep DEF Writing
<1>2. CASE GetOpen(t)
  <2> DEFINE F == PathFor(req[t].id)
  <2>1. /\ pc[t] = "getOpen" /\ pc'[t] = "getRead"
        /\ dir[F] # NoFile /\ ino'[t] = dir[F]
        /\ \A u \in Threads : u # t => pc'[u] = pc[u] /\ ino'[u] = ino[u]
        /\ UNCHANGED <<dir, disk, file, req, token, out, res, crashes>>
    BY <1>2 DEF GetOpen, fsVars, IInv, VariableTypes
  <2>2. req[t].id \in ChunkIds /\ F \in Names /\ dir[F] \in disk[F]
    BY NameFacts DEF IInv, VariableTypes, Request, DirOnDisk
  <2>3. Intact(file[dir[F]])
    BY <2>1, <2>2 DEF IInv, CommittedIntact
  <2>4. out[t] = << >>
    BY <2>1 DEF IInv, Locals
  <2>5. ReadExact(t)'
    <3>1. Len(out'[t]) = 0
      BY <2>1, <2>4
    <3> QED BY <2>1, <2>3, <3>1 DEF ReadExact
  <2>6. NoOrphanTemps'
    <3>1. \A u \in Threads : pc[u] \in Writing => pc'[u] \in Writing /\ TempOf(u)' = TempOf(u)
      BY <2>1 DEF TempOf, Writing
    <3> QED BY <2>1, <3>1 DEF Outcomes, NoOrphanTemps
  <2>7. ~Hidden(t)'
    BY <2>1 DEF Hidden, Refused
  <2>8. \A u \in Threads : u # t /\ Hidden(u) => dir[F] # ino[u]
    BY <2>2 DEF Outcomes, HiddenApart
  <2> QED BY <2>1, <2>5, <2>6, <2>7, <2>8, ThreadOutcomes
<1> QED BY <1>1, <1>2

(* A Get streams the next bytes of its range. *)
LEMMA GetReadOutcomes ==
    ASSUME IInv, Outcomes, NEW t \in Threads, NEW n \in 1..MaxSize, GetRead(t, n)
    PROVE  Outcomes'
<1> DEFINE f == file[ino[t]]
           sent == Len(out[t])
           size == req[t].size
           offset == req[t].offset
           length == Len(f.data)
           b == Pread(f, Position(t), n)
<1>1. /\ pc[t] = "getRead"
      /\ n <= size - sent
      /\ n <= FileLength(f) - Position(t)
      /\ out'[t] = out[t] \o b
      /\ \A u \in Threads : u # t => out'[u] = out[u]
      /\ UNCHANGED <<dir, disk, file, pc, req, token, ino, res, crashes>>
  BY DEF GetRead, Remaining, fsVars, IInv, VariableTypes
<1>2. /\ f \in ChunkFile /\ out[t] \in Contents /\ n \in Nat
      /\ size \in Nat /\ offset \in Nat /\ offset + size <= MaxSize
  BY <1>1, SizeAssumption DEF IInv, Locals, VariableTypes, Request, UInt64
<1>3. sent \in Nat /\ length \in Nat /\ out[t] \in Seq(Bytes)
  BY <1>2, ContentsAreSeqs DEF ChunkFile
<1>4. offset + sent \in Nat /\ offset + sent <= MaxSize
  <2> HIDE DEF f, sent, size, offset, length
  <2> QED BY <1>1, <1>2, <1>3, SizeAssumption
<1>5. Position(t) = (offset + sent) + kHeaderSize
  BY <1>2, <1>3, <1>4, PositionInside DEF Position
<1>6. (offset + sent) + n <= length
  <2>1. FileLength(f) = kHeaderSize + length
    BY DEF FileLength
  <2> HIDE DEF f, sent, size, offset, length
  <2> QED BY <1>1, <1>2, <1>3, <1>4, <1>5, <2>1, SizeAssumption
<1>7. /\ b \in Contents /\ Len(b) = n
      /\ \A i \in 1..n : b[i] = f.data[(offset + sent) + i]
  <2> DEFINE o == offset + sent
  <2>1. o \in Nat /\ o + n <= Len(f.data) /\ b = Pread(f, o + kHeaderSize, n)
    BY <1>4, <1>5, <1>6
  <2> HIDE DEF f, b, o
  <2>2. b \in Contents /\ Len(b) = n /\ \A i \in 1..n : b[i] = f.data[o + i]
    BY <1>2, <2>1, PreadContents
  <2> QED BY <2>2 DEF o
<1>8. ReadExact(t)
  BY <1>1, ExactByThread DEF Outcomes, Reading
<1>9. \A i \in 1..Len(out[t] \o b) :
        /\ offset + i <= length
        /\ (out[t] \o b)[i] = f.data[offset + i]
  <2>1. \A i \in 1..sent : offset + i <= length /\ out[t][i] = f.data[offset + i]
    BY <1>8 DEF ReadExact
  <2> DEFINE c == out[t]
             e == f.data
  <2>2. /\ c \in Contents /\ b \in Contents /\ offset \in Nat /\ Len(e) \in Nat
        /\ (offset + Len(c)) + Len(b) <= Len(e)
        /\ \A i \in 1..Len(c) : offset + i <= Len(e) /\ c[i] = e[offset + i]
        /\ \A i \in 1..Len(b) : b[i] = e[(offset + Len(c)) + i]
    BY <1>2, <1>3, <1>6, <1>7, <2>1
  <2>3. \A i \in 1..Len(c \o b) : offset + i <= Len(e) /\ (c \o b)[i] = e[offset + i]
    <3> HIDE DEF b, c, e, offset
    <3> QED BY <2>2, ExtendRange
  <2> QED BY <2>3
<1>10. ReadExact(t)'
  BY <1>1, <1>8, <1>9 DEF ReadExact
<1>11. NoOrphanTemps'
  BY <1>1 DEF Outcomes, NoOrphanTemps, TempOf
<1>12. ~Hidden(t)'
  BY <1>1 DEF Hidden, Refused
<1>13. \A u \in Threads : u # t /\ Hidden(u) => ino[t] # ino[u]
  BY DEF Outcomes, HiddenApart
<1> HIDE DEF f, b
<1> QED BY <1>1, <1>10, <1>11, <1>12, <1>13, ThreadOutcomes

(* Delete: a Get that has the file open goes on reading it. *)
LEMMA DeleteOutcomes ==
    ASSUME IInv, Outcomes, NEW t \in Threads, NEW id \in DeleteIds, DeleteChunk(t, id)
    PROVE  Outcomes'
<1>1. id \in ChunkIds /\ PathFor(id) \in Names
  BY StoreAssumption, NameFacts
<1>2. /\ pc[t] = "idle" /\ pc'[t] = "done" /\ SetEntry(PathFor(id), NoFile)
      /\ res'[t] = [op |-> "delete", code |-> "Ok"]
      /\ \A u \in Threads : u # t => /\ pc'[u] = pc[u] /\ res'[u] = res[u]
                                     /\ req'[u] = req[u]
      /\ UNCHANGED <<file, token, ino, out, crashes>>
  BY DEF DeleteChunk, Unlink, Reply, IInv, VariableTypes
<1>3. /\ disk'[PathFor(id)] = disk[PathFor(id)] \cup {NoFile}
      /\ \A m \in Names : m # PathFor(id) => dir'[m] = dir[m] /\ disk'[m] = disk[m]
  BY <1>1, <1>2, SetEntryFacts DEF IInv
<1>4. NoOrphanTemps'
  <2>1. \A n \in TempNames : dir'[n] = dir[n]
    BY <1>1, <1>3, FinalOrTemp
  <2> QED BY <1>2, <2>1, TempsOfOthers DEF Writing
<1>5. ~Reading(t)' /\ ~Hidden(t)'
  BY <1>2 DEF Reading, Hidden, Refused
<1>6. \A u \in Threads : u # t /\ Hidden(u) => ino[t] # ino[u] /\ ino[u] # NoFile
  BY StoreAssumption DEF Outcomes, HiddenApart
<1>7. \A jd \in ChunkIds : disk'[PathFor(jd)] \ disk[PathFor(jd)] \subseteq {NoFile}
  BY <1>3, NameFacts
<1> QED BY <1>2, <1>4, <1>5, <1>6, <1>7, ThreadOutcomes

(* The handler returns: files that others have open are not given back. *)
LEMMA ReturnOutcomes ==
    ASSUME IInv, Outcomes, NEW t \in Threads, Return(t)
    PROVE  Outcomes'
<1>1. /\ pc[t] = "done" /\ pc'[t] = "idle" /\ ino'[t] = NoFile
      /\ \A u \in Threads : u # t => /\ pc'[u] = pc[u] /\ req'[u] = req[u]
                                     /\ token'[u] = token[u] /\ ino'[u] = ino[u]
                                     /\ out'[u] = out[u] /\ res'[u] = res[u]
      /\ UNCHANGED <<dir, disk, crashes>> /\ Reclaim(file)
  BY DEF Return, IInv, VariableTypes
<1>2. \A i \in Inodes : Referenced(i)' => file'[i] = file[i]
  BY <1>1, ReclaimFacts DEF IInv, VariableTypes
<1>3. \A u \in Threads : u # t /\ Reading(u) => file'[ino[u]] = file[ino[u]]
  <2>1. \A i \in Inodes : (\E u \in Threads : u # t /\ ino[u] = i) => Referenced(i)'
    BY <1>1 DEF Referenced
  <2> QED BY <1>2, <2>1, ReaderFile
<1>4. NoOrphanTemps'
  BY <1>1, TempsOfOthers DEF Writing
<1>5. ~Reading(t)' /\ ~Hidden(t)'
  BY <1>1 DEF Reading, Hidden, Refused
<1>6. \A u \in Threads : u # t /\ Hidden(u) => NoFile # ino[u]
  BY StoreAssumption DEF Outcomes, HiddenApart
<1> QED BY <1>1, <1>3, <1>4, <1>5, <1>6, ThreadOutcomes

(* A dead process has no threads, and its temporary names are orphans. *)
LEMMA DeathOutcomes == ASSUME IInv, ProcessDies PROVE Outcomes'
<1>1. \A t \in Threads : pc'[t] = "idle"
  BY DEF ProcessDies
<1>2. crashes' # 0
  BY DEF ProcessDies, IInv, VariableTypes
<1> QED BY <1>1, <1>2 DEF Outcomes, GetExact, HiddenApart, Hidden, Refused, NoOrphanTemps

-----------------------------------------------------------------------------
(***************************************************************************)
(* The theorems.                                                           *)
(***************************************************************************)

(* Every step of the store preserves the outcomes. *)
LEMMA NextOutcomes == ASSUME IInv, Outcomes, [Next]_vars PROVE Outcomes'
<1>1. ASSUME NEW t \in Threads, Put(t) PROVE Outcomes'
  <2>1. CASE \/ \E r \in PutRequests : PutRefuse(t, r)
             \/ \E r \in PutRequests, k \in Tokens : PutCollides(t, r, k)
             \/ PutDirSyncFails(t)
    BY <2>1, ReplyOutcomes
  <2>2. CASE \E r \in PutRequests, k \in Tokens : PutCreate(t, r, k)
    BY <2>2, PutCreateOutcomes
  <2>3. CASE \E b \in Contents \ {<< >>} : PutRead(t, b)
    BY <2>3, PutReadOutcomes
  <2>4. CASE \/ \E b \in Contents \ {<< >>} : PutTooLong(t, b)
             \/ PutReadFails(t) \/ PutWriteFails(t) \/ PutMismatch(t)
             \/ PutSyncFails(t) \/ PutLinkExists(t) \/ PutLinkFails(t)
    BY <2>4, PutFailsStepsOutcomes
  <2>5. CASE PutEof(t) \/ PutSync(t)
    BY <2>5, PutVerifyOutcomes
  <2>6. CASE PutLink(t)
    BY <2>6, PutLinkOutcomes
  <2>7. CASE PutCleanup(t) \/ PutDirSync(t)
    BY <2>7, PutEndsOutcomes
  <2> QED BY <1>1, <2>1, <2>2, <2>3, <2>4, <2>5, <2>6, <2>7 DEF Put
<1>2. ASSUME NEW t \in Threads, Get(t) PROVE Outcomes'
  <2>1. CASE \E r \in GetRequests : GetRefuse(t, r)
    BY <2>1, ReplyOutcomes
  <2>2. CASE \/ GetGone(t) \/ GetOpenFails(t) \/ GetShort(t) \/ GetReadFails(t)
             \/ GetWriteFails(t) \/ GetEnd(t)
    BY <2>2, GetEndsOutcomes
  <2>3. CASE (\E r \in GetRequests : GetHead(t, r)) \/ GetOpen(t)
    BY <2>3, GetOpenOutcomes
  <2>4. CASE \E n \in 1..MaxSize : GetRead(t, n)
    BY <2>4, GetReadOutcomes
  <2> QED BY <1>2, <2>1, <2>2, <2>3, <2>4 DEF Get
<1>3. ASSUME NEW t \in Threads, Return(t) PROVE Outcomes'
  BY <1>3, ReturnOutcomes
<1>4. ASSUME NEW t \in Threads,
             \/ \E id \in HeadIds : HeadChunk(t, id)
             \/ \E id \in DeleteIds : DeleteFails(t, id)
      PROVE  Outcomes'
  BY <1>4, ReplyOutcomes
<1>5. ASSUME NEW t \in Threads, NEW id \in DeleteIds, DeleteChunk(t, id) PROVE Outcomes'
  BY <1>5, DeleteOutcomes
<1>6. CASE Crash \/ PowerLoss
  BY <1>6, DeathOutcomes DEF Crash, PowerLoss
<1>7. CASE UNCHANGED vars
  BY <1>7 DEF vars, Outcomes, GetExact, HiddenApart, Hidden, Refused, NoOrphanTemps, TempOf
<1> QED BY <1>1, <1>2, <1>3, <1>4, <1>5, <1>6, <1>7 DEF Next

(* The outcomes hold in every reachable state. *)
THEOREM OutcomesHold == Spec => []Outcomes
BY Invariance, InitOutcomes, NextOutcomes, PTL DEF Spec

(* What a Get has streamed are the first bytes of its range of one intact  *)
(* chunk, and all of them when it returns Ok, although it opens the name   *)
(* twice and the chunk may be deleted and stored again meanwhile.          *)
THEOREM GetStreamsOneChunk == Spec => []GetExact
BY OutcomesHold, PTL DEF Outcomes

(* No final name ever refers to the file of a Put that was refused, nor    *)
(* would one after a power loss: the link is the last step that can fail   *)
(* with another status than IoError.                                       *)
THEOREM RefusedPutsAreInvisible == Spec => []RefusedPutLeavesNothing
<1>1. Outcomes => RefusedPutLeavesNothing
  BY FinalOrTemp DEF Outcomes, HiddenApart, Hidden, Refused, RefusedPutLeavesNothing
<1> QED BY <1>1, OutcomesHold, PTL

(* While the process lives and unlink works, every temporary name belongs  *)
(* to a Put that runs: every return after the open passes cleanup.         *)
THEOREM TempsHaveOwners == Spec => []NoOrphanTemps
BY OutcomesHold, PTL DEF Outcomes

=============================================================================
