--------------------------- MODULE DataPlaneTypes ---------------------------
(***************************************************************************)
(* The value types of the data plane and the checks every layer applies to *)
(* them: status codes, chunk ids, checksums, byte ranges and the header of *)
(* a chunk file.                                                           *)
(*                                                                         *)
(* A payload is a short sequence of bytes.  An id is abstracted to its     *)
(* length, all that the checks look at.  A checksum string is a member of  *)
(* Checksums; the ones with 64 lowercase hex characters form Digests.      *)
(***************************************************************************)
EXTENDS Integers, Sequences

CONSTANTS
    Bytes,       \* the bytes a payload is made of
    MaxSize,     \* the most bytes a payload has
    Word,        \* the values of a std::uint64_t are 0..Word-1
    kHeaderSize, \* bytes of the header of a chunk file
    Checksums,   \* the strings a request may carry as a checksum
    Digests,     \* those that are well-formed BLAKE3 hex strings
    Blake3(_)    \* hex digest of a payload

(***************************************************************************)
(* Payloads of at most MaxSize bytes.                                      *)
(***************************************************************************)
Contents == UNION {[1..n -> Bytes] : n \in 0..MaxSize}

(***************************************************************************)
(* The file of the largest payload still has a length of 64 bits.          *)
(***************************************************************************)
ASSUME SizeAssumption == /\ MaxSize \in Nat
                         /\ Word \in Nat /\ kHeaderSize \in Nat \ {0}
                         /\ MaxSize + kHeaderSize < Word

ASSUME DigestAssumption == /\ Digests \subseteq Checksums
                           /\ \A c \in Contents : Blake3(c) \in Digests

(***************************************************************************)
(* BLAKE3 is collision resistant: on the payloads of one deployment it is  *)
(* taken to be injective.                                                  *)
(***************************************************************************)
ASSUME CollisionFree ==
    \A c, d \in Contents : Blake3(c) = Blake3(d) => c = d

-----------------------------------------------------------------------------
StatusCode == {"Ok", "InvalidArgument", "NotFound", "AlreadyExists",
               "Unavailable", "Timeout", "IoError", "Corruption",
               "ResourceExhausted", "Internal"}

(***************************************************************************)
(* A StatusOr built from a Status holds an error, even if it was Ok.       *)
(***************************************************************************)
NormalizeError(code) == IF code = "Ok" THEN "Internal" ELSE code

(***************************************************************************)
(* Unsigned 64-bit arithmetic wraps around.                                *)
(***************************************************************************)
UInt64 == 0..Word-1

Plus(x, y)  == IF x + y < Word THEN x + y ELSE x + y - Word
Minus(x, y) == IF y <= x THEN x - y ELSE x - y + Word

ByteRange == [offset : UInt64, size : UInt64]

kMaxIdLength == 1024

(***************************************************************************)
(* An id is accepted when it is not empty and not too long.                *)
(***************************************************************************)
ValidateId(length) ==
    IF length = 0 \/ length > kMaxIdLength THEN "InvalidArgument" ELSE "Ok"

ValidateChecksum(sum) ==
    IF sum \in Digests THEN "Ok" ELSE "InvalidArgument"

(***************************************************************************)
(* The comparison subtracts, so that it cannot overflow; the first         *)
(* disjunct keeps the subtraction from underflowing.                       *)
(***************************************************************************)
ValidateByteRangeMutant(range, total) ==    \* adds, and overflows
    IF Plus(range.offset, range.size) > total THEN "InvalidArgument" ELSE "Ok"

ValidateByteRange(range, total) ==
    IF range.offset > total \/ range.size > Minus(total, range.offset)
    THEN "InvalidArgument" ELSE "Ok"

-----------------------------------------------------------------------------
(***************************************************************************)
(* A chunk file is a fixed-size header followed by the payload.  NoHeader  *)
(* stands for a header that is missing, torn or without the magic bytes.   *)
(***************************************************************************)
NoHeader == [magic |-> FALSE]

MakeHeader(size, sum) == [magic |-> TRUE, size |-> size, sum |-> sum]

Headers == {NoHeader} \cup [magic : {TRUE}, size : UInt64, sum : Checksums]

ChunkFile == [hdr : Headers, data : Contents]

Blank == [hdr |-> NoHeader, data |-> << >>]

FileLength(f) == kHeaderSize + Len(f.data)

(***************************************************************************)
(* What reading a header reports: the magic, the checksum's form and the   *)
(* file's length are checked; the payload is not read.                     *)
(***************************************************************************)
ReadHeader(f) ==
    IF /\ f.hdr.magic
       /\ ValidateChecksum(f.hdr.sum) = "Ok"
       /\ f.hdr.size <= Minus(Word - 1, kHeaderSize)
       /\ FileLength(f) = Plus(f.hdr.size, kHeaderSize)
    THEN "Ok" ELSE "Corruption"

(***************************************************************************)
(* What pread returns: n bytes from a position in the file.  The bytes of  *)
(* the header are 0.                                                       *)
(***************************************************************************)
Pread(f, position, n) ==
    [i \in 1..n |-> IF position + i <= kHeaderSize THEN 0
                    ELSE f.data[position + i - kHeaderSize]]

(***************************************************************************)
(* A file whose header tells the truth about its payload.                  *)
(***************************************************************************)
Intact(f) == /\ ReadHeader(f) = "Ok"
             /\ f.hdr.sum = Blake3(f.data)

=============================================================================
