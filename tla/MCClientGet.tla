----------------------------- MODULE MCClientGet -----------------------------
(***************************************************************************)
(* ClientGet on small instances.                                           *)
(***************************************************************************)
EXTENDS ClientGet, TLC

CONSTANTS a, emptyId, hugeId

(***************************************************************************)
(* 77 is well formed and the digest of nothing, 99 is not well formed.     *)
(***************************************************************************)
MCBlake3(c) == LET v[n \in 0..Len(c)] == IF n = 0 THEN 0 ELSE 3 * v[n-1] + c[n]
               IN  v[Len(c)]
MCDigests == {MCBlake3(c) : c \in Contents} \cup {77}
MCChecksums == MCDigests \cup {99}

(***************************************************************************)
(* An id of ordinary length, none, and one the worker refuses.             *)
(***************************************************************************)
MCIdLen == [id \in ChunkIds |->
               CASE id = emptyId -> 0 [] id = hugeId -> 2000 [] OTHER -> 5]

Symmetry == Permutations(Clients) \cup Permutations(Tokens) \cup Permutations(Inodes)

(***************************************************************************)
(* An object of more than one buffer, and a shorter one that is no prefix  *)
(* of it.                                                                  *)
(***************************************************************************)
MCPayloads == {<<1, 2>>, <<2>>}
=============================================================================
