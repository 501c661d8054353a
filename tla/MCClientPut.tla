----------------------------- MODULE MCClientPut -----------------------------
(***************************************************************************)
(* ClientPut on small instances.                                           *)
(***************************************************************************)
EXTENDS ClientPut, TLC

CONSTANTS a, emptyId, hugeId

MCBlake3(c) == LET v[n \in 0..Len(c)] == IF n = 0 THEN 0 ELSE 3 * v[n-1] + c[n]
               IN  v[Len(c)]
MCDigests == {MCBlake3(c) : c \in Contents}
MCChecksums == MCDigests \cup {99}

(***************************************************************************)
(* An id of ordinary length, none, and one the worker refuses.             *)
(***************************************************************************)
MCIdLen == [id \in ChunkIds |->
               CASE id = emptyId -> 0 [] id = hugeId -> 2000 [] OTHER -> 5]

Symmetry == Permutations(Clients) \cup Permutations(Calls)

(***************************************************************************)
(* A source of more than one buffer and one that fits in a buffer; cutting *)
(* and editing turn each into pieces of the other, and into a third one of *)
(* the right length.                                                       *)
(***************************************************************************)
MCSources == {<<1, 2>>, <<2>>}
ShortSources == {<<1>>, <<2>>}

(***************************************************************************)
(* Metadata that announces one byte, or has a malformed checksum; a frame  *)
(* with that byte, and one with none.                                      *)
(***************************************************************************)
MCRawFrames == {[metadata |-> [id |-> a, size |-> 1, sum |-> MCBlake3(<<2>>)]],
                [metadata |-> [id |-> a, size |-> 1, sum |-> 99]],
                [data |-> <<2>>], [data |-> << >>]}
=============================================================================
