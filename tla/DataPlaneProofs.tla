--------------------------- MODULE DataPlaneProofs ---------------------------
(***************************************************************************)
(* Lemmas about the value types of the data plane and the status codes on  *)
(* the wire, for payloads of any length and words of any width: what the   *)
(* components' proofs rest on.                                             *)
(***************************************************************************)
EXTENDS RpcStatus, SequenceTheorems, TLAPS

(* Payloads are the byte sequences of at most MaxSize bytes. *)
LEMMA ContentsAreSeqs ==
    \A c : c \in Contents <=> c \in Seq(Bytes) /\ Len(c) <= MaxSize
<1> SUFFICES ASSUME NEW c PROVE c \in Contents <=> c \in Seq(Bytes) /\ Len(c) <= MaxSize
  OBVIOUS
<1>1. ASSUME c \in Contents PROVE c \in Seq(Bytes) /\ Len(c) <= MaxSize
  <2> PICK n \in 0..MaxSize : c \in [1..n -> Bytes]
    BY <1>1 DEF Contents
  <2>1. n \in Nat /\ n <= MaxSize
    BY SizeAssumption
  <2>2. c \in Seq(Bytes) /\ Len(c) = n
    BY <2>1
  <2> QED BY <2>1, <2>2
<1>2. ASSUME c \in Seq(Bytes), Len(c) <= MaxSize PROVE c \in Contents
  <2>1. Len(c) \in 0..MaxSize /\ c \in [1..Len(c) -> Bytes]
    BY <1>2, SizeAssumption
  <2> QED BY <2>1 DEF Contents
<1> QED BY <1>1, <1>2

(* The payload of a Put grows by the bytes read. *)
LEMMA ConcatContents ==
    ASSUME NEW c \in Contents, NEW d \in Contents, Len(c) + Len(d) <= MaxSize
    PROVE  c \o d \in Contents /\ Len(c \o d) = Len(c) + Len(d)
<1>1. c \in Seq(Bytes) /\ d \in Seq(Bytes)
  BY ContentsAreSeqs
<1>2. c \o d \in Seq(Bytes) /\ Len(c \o d) = Len(c) + Len(d)
  BY <1>1
<1> QED BY <1>2, ContentsAreSeqs

(* What Get reads from inside the payload are bytes of the payload. *)
LEMMA PreadContents ==
    ASSUME NEW f \in ChunkFile, NEW o \in Nat, NEW n \in Nat, o + n <= Len(f.data)
    PROVE  LET b == Pread(f, o + kHeaderSize, n)
           IN  /\ b \in Contents /\ Len(b) = n
               /\ \A i \in 1..n : b[i] = f.data[o + i]
<1> DEFINE b == Pread(f, o + kHeaderSize, n)
<1>1. f.data \in Seq(Bytes) /\ Len(f.data) <= MaxSize /\ Len(f.data) \in Nat
  BY ContentsAreSeqs DEF ChunkFile
<1>2. kHeaderSize \in Nat /\ MaxSize \in Nat
  BY SizeAssumption
<1>3. \A i \in 1..n : b[i] = f.data[o + i] /\ f.data[o + i] \in Bytes
  <2> SUFFICES ASSUME NEW i \in 1..n
               PROVE  b[i] = f.data[o + i] /\ f.data[o + i] \in Bytes
    OBVIOUS
  <2>1. /\ ~(o + kHeaderSize + i <= kHeaderSize)
        /\ o + kHeaderSize + i - kHeaderSize = o + i
        /\ o + i \in 1..Len(f.data)
    BY <1>1, <1>2
  <2> QED BY <1>1, <2>1 DEF Pread
<1>4. b = [i \in 1..n |-> b[i]]
  BY DEF Pread
<1>5. b \in Seq(Bytes) /\ Len(b) = n
  <2> HIDE DEF b
  <2>1. b \in [1..n -> Bytes]
    BY <1>3, <1>4
  <2> QED BY <2>1
<1>6. b \in Contents
  BY <1>1, <1>2, <1>5, ContentsAreSeqs
<1> QED BY <1>3, <1>5, <1>6

(* A header that was read has all its fields. *)
LEMMA HeaderFields ==
    ASSUME NEW f \in ChunkFile, ReadHeader(f) = "Ok"
    PROVE  f.hdr # NoHeader /\ f.hdr.size \in UInt64 /\ f.hdr.sum \in Digests
<1>1. f.hdr.magic /\ f.hdr.sum \in Digests
  BY DEF ReadHeader, ValidateChecksum
<1>2. f.hdr # NoHeader
  BY <1>1 DEF NoHeader
<1>3. f.hdr \in [magic : {TRUE}, size : UInt64, sum : Checksums]
  BY <1>2 DEF ChunkFile, Headers
<1> QED BY <1>1, <1>2, <1>3

(* The size in a header that was read is the length of the payload. *)
LEMMA HeaderSize ==
    ASSUME NEW f \in ChunkFile, ReadHeader(f) = "Ok"
    PROVE  f.hdr.size = Len(f.data) /\ Len(f.data) \in Nat /\ Len(f.data) <= MaxSize
<1>1. Len(f.data) \in Nat /\ Len(f.data) <= MaxSize
  BY ContentsAreSeqs DEF ChunkFile
<1>2. f.hdr.magic /\ f.hdr.size <= Minus(Word - 1, kHeaderSize)
      /\ FileLength(f) = Plus(f.hdr.size, kHeaderSize)
  BY DEF ReadHeader
<1>3. f.hdr.size \in UInt64
  BY HeaderFields
<1> QED BY <1>1, <1>2, <1>3, SizeAssumption DEF Plus, Minus, FileLength, UInt64

(* A range that ValidateByteRange accepts ends inside: nothing wraps. *)
LEMMA RangeInside ==
    ASSUME NEW r \in ByteRange, NEW total \in Nat, total <= MaxSize,
           ValidateByteRange(r, total) = "Ok"
    PROVE  r.offset + r.size <= total
<1>1. r.offset \in Nat /\ r.size \in Nat
  BY SizeAssumption DEF ByteRange, UInt64
<1>2. r.offset <= total /\ r.size <= Minus(total, r.offset)
  BY <1>1, SizeAssumption DEF ValidateByteRange, Minus
<1> QED BY <1>1, <1>2 DEF Minus

(* The position in the file of a Get whose range lies inside. *)
LEMMA PositionInside ==
    ASSUME NEW o \in Nat, NEW n \in Nat, o + n <= MaxSize
    PROVE  Plus(Plus(o, kHeaderSize), n) = (o + n) + kHeaderSize
BY SizeAssumption DEF Plus

(* The payload before the first byte. *)
LEMMA EmptyContents == << >> \in Contents /\ Len(<< >>) = 0
<1>1. << >> \in Seq(Bytes) /\ Len(<< >>) = 0
  OBVIOUS
<1>2. 0 <= MaxSize
  BY SizeAssumption
<1> QED BY <1>1, <1>2, ContentsAreSeqs

(* A range of which c is the first part and d the next. *)
LEMMA ExtendRange ==
    ASSUME NEW c \in Contents, NEW d \in Contents, NEW data, NEW o \in Nat,
           Len(data) \in Nat, (o + Len(c)) + Len(d) <= Len(data),
           \A i \in 1..Len(c) : o + i <= Len(data) /\ c[i] = data[o + i],
           \A i \in 1..Len(d) : d[i] = data[(o + Len(c)) + i]
    PROVE  \A i \in 1..Len(c \o d) : o + i <= Len(data) /\ (c \o d)[i] = data[o + i]
<1>1. c \in Seq(Bytes) /\ d \in Seq(Bytes) /\ Len(c) \in Nat /\ Len(d) \in Nat
  BY ContentsAreSeqs
<1>2. Len(c \o d) = Len(c) + Len(d)
  BY <1>1
<1> SUFFICES ASSUME NEW i \in 1..Len(c) + Len(d)
             PROVE  o + i <= Len(data) /\ (c \o d)[i] = data[o + i]
  BY <1>2
<1>3. CASE i <= Len(c)
  <2>1. i \in 1..Len(c) /\ (c \o d)[i] = c[i]
    BY <1>1, <1>3
  <2> QED BY <2>1
<1>4. CASE i > Len(c)
  <2>1. /\ i - Len(c) \in 1..Len(d)
        /\ (o + Len(c)) + (i - Len(c)) = o + i
        /\ o + i <= Len(data)
    BY <1>1, <1>4
  <2>2. (c \o d)[i] = d[i - Len(c)]
    BY <1>1, <1>4
  <2> QED BY <2>1, <2>2
<1> QED BY <1>1, <1>3, <1>4

(* A Status crosses the wire, inside a reply or as the status of a call,   *)
(* without losing its code.                                                *)
LEMMA StatusRoundTrip ==
    \A s \in StatusCode :
        /\ ToGrpcStatus[s] \in GrpcCodes /\ FromGrpcStatus(ToGrpcStatus[s]) = s
        /\ FromRpcCode(ToRpcStatusCode[s]) = s
BY DEF StatusCode, ToGrpcStatus, FromGrpcStatus, FromGrpcTable, GrpcCodes,
       ToRpcStatusCode, FromRpcCode, FromRpcTable

(* A call that the transport ends looks neither successful nor corrupt. *)
LEMMA BreakFacts ==
    \A b \in BreakCodes \cup {"FAILED_PRECONDITION"} :
        /\ b \in GrpcCodes /\ FromGrpcStatus(b) \in {"Timeout", "Unavailable"}
        /\ FromGrpcStatus(b) \in StatusCode
BY DEF BreakCodes, FromGrpcStatus, FromGrpcTable, GrpcCodes, StatusCode

(* The gRPC status OK reads back as Ok. *)
LEMMA GrpcOk == FromGrpcStatus("OK") = "Ok"
BY DEF FromGrpcStatus, FromGrpcTable

(* A gRPC status reads back as a status code. *)
LEMMA GrpcTypes == \A g \in GrpcCodes : FromGrpcStatus(g) \in StatusCode
BY DEF FromGrpcStatus, FromGrpcTable, GrpcCodes, StatusCode

(* A piece of a payload. *)
LEMMA SliceContents ==
    ASSUME NEW s \in Contents, NEW o \in Nat, NEW n \in Nat, o + n <= Len(s)
    PROVE  /\ SubSeq(s, o + 1, o + n) \in Contents
           /\ Len(SubSeq(s, o + 1, o + n)) = n
           /\ \A j \in 1..n : SubSeq(s, o + 1, o + n)[j] = s[o + j]
<1>1. s \in Seq(Bytes) /\ Len(s) \in Nat /\ Len(s) <= MaxSize
  BY ContentsAreSeqs
<1>2. \A i \in o + 1..o + n : s[i] \in Bytes
  BY <1>1
<1> DEFINE b == SubSeq(s, o + 1, o + n)
<1>3. b \in Seq(Bytes) /\ Len(b) = n /\ \A j \in 1..n : b[j] = s[o + j]
  <2>1. /\ b \in Seq(Bytes)
        /\ Len(b) = IF o + 1 <= o + n THEN o + n - (o + 1) + 1 ELSE 0
        /\ \A j \in 1..o + n - (o + 1) + 1 : b[j] = s[o + 1 + j - 1]
    BY <1>1, <1>2, SubSeqProperties
  <2>2. Len(b) = n
    BY <2>1
  <2>3. ASSUME NEW j \in 1..n PROVE b[j] = s[o + j]
    <3>1. j \in 1..o + n - (o + 1) + 1 /\ o + 1 + j - 1 = o + j
      OBVIOUS
    <3> QED BY <2>1, <3>1
  <2> QED BY <2>1, <2>2, <2>3
<1> HIDE DEF b
<1>4. Len(b) <= MaxSize
  BY <1>1, <1>3, SizeAssumption
<1> QED BY <1>3, <1>4, ContentsAreSeqs DEF b

=============================================================================
