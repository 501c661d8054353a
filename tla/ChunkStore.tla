----------------------------- MODULE ChunkStore -----------------------------
(***************************************************************************)
(* ChunkStore: what the interface of the worker's chunk store promises.    *)
(*                                                                         *)
(* The store is a map from ids to payloads.  A chunk appears whole, is     *)
(* never replaced or modified, and disappears only by a Delete.  A change  *)
(* may be undone by a power loss until the store is synchronized.          *)
(***************************************************************************)
CONSTANTS ChunkIds, Contents, NoContent

VARIABLES
    chunks,   \* the payload under each id, NoContent if there is none
    stable    \* the payloads a power loss may leave under each id

vars == <<chunks, stable>>

Payloads == Contents \cup {NoContent}

TypeOK == /\ chunks \in [ChunkIds -> Payloads]
          /\ stable \in [ChunkIds -> SUBSET Payloads]

Init == /\ chunks = [id \in ChunkIds |-> NoContent]
        /\ stable = [id \in ChunkIds |-> {NoContent}]

Change(id, c) == /\ chunks' = [chunks EXCEPT ![id] = c]
                 /\ stable' = [stable EXCEPT ![id] = @ \cup {c}]

Commit(id, c) == chunks[id] = NoContent /\ Change(id, c)

Remove(id) == chunks[id] # NoContent /\ Change(id, NoContent)

Sync == /\ stable' = [id \in ChunkIds |-> {chunks[id]}]
        /\ UNCHANGED chunks

PowerLoss == /\ chunks' \in [ChunkIds -> Payloads]
             /\ \A id \in ChunkIds : chunks'[id] \in stable[id]
             /\ stable' = [id \in ChunkIds |-> {chunks'[id]}]

Next == \/ \E id \in ChunkIds : Remove(id) \/ \E c \in Contents : Commit(id, c)
        \/ Sync
        \/ PowerLoss

Spec == Init /\ [][Next]_vars
=============================================================================
