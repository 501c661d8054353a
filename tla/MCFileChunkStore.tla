-------------------------- MODULE MCFileChunkStore --------------------------
(***************************************************************************)
(* FileChunkStore on small instances.                                      *)
(***************************************************************************)
EXTENDS FileChunkStore, TLC

CONSTANTS a, longId, emptyId

(***************************************************************************)
(* The digest of a payload over the bytes 1 and 2: its value in base 3,    *)
(* which tells payloads of every length apart.  99 is not well formed.     *)
(***************************************************************************)
MCBlake3(c) == LET v[n \in 0..Len(c)] == IF n = 0 THEN 0 ELSE 3 * v[n-1] + c[n]
               IN  v[Len(c)]
MCDigests == {MCBlake3(c) : c \in Contents}
MCChecksums == MCDigests \cup {99}

MCIdLen == [id \in ChunkIds |->
               CASE id = longId -> 200 [] id = emptyId -> 0 [] OTHER -> 5]

PutOf(id, c) == [id |-> id, offset |-> 0, size |-> Len(c), sum |-> MCBlake3(c)]
GetOf(id, o, n) == [id |-> id, offset |-> o, size |-> n, sum |-> 0]

Symmetry == Permutations(Threads) \cup Permutations(Inodes) \cup Permutations(Tokens)

(***************************************************************************)
(* What is read from a stream is free, so that a request may be sent other *)
(* bytes than the ones its size and checksum belong to.                    *)
(***************************************************************************)
CrashPuts == {PutOf(a, <<1>>), PutOf(a, <<2, 1>>)}

RacePuts == {PutOf(a, <<1>>), PutOf(a, <<2, 1>>)}
RaceGets == {GetOf(a, 0, 2), GetOf(a, 1, 1), GetOf(a, Word - 1, 2)}

(***************************************************************************)
(* Valid requests, one with a malformed checksum, one that announces more  *)
(* than any stream holds, one for an id whose name is too long; Gets in    *)
(* range and out of range.                                                 *)
(***************************************************************************)
FaultPuts == {PutOf(a, <<1>>), PutOf(a, << >>), [PutOf(a, <<1>>) EXCEPT !.sum = 99],
              [PutOf(a, <<1>>) EXCEPT !.size = Word - 1],
              PutOf(longId, <<1>>)}
FaultGets == {GetOf(a, 0, 1), GetOf(a, 2, 0)}

LivePuts == {PutOf(a, <<1>>), PutOf(a, << >>)}
LiveGets == {GetOf(a, 0, 1), GetOf(a, 0, 0)}
=============================================================================
