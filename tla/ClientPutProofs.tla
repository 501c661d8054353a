--------------------------- MODULE ClientPutProofs ---------------------------
(***************************************************************************)
(* Proofs about ClientPut, for any number of clients, calls, objects,      *)
(* frames and deaths of the worker.                                        *)
(***************************************************************************)
EXTENDS ClientPut, DataPlaneProofs

-----------------------------------------------------------------------------
(***************************************************************************)
(* The inductive invariant, in terms of the record of a client and the     *)
(* record of its call.                                                     *)
(***************************************************************************)

(* Types. *)
ClientType == [pc : {"idle", "open", "metadata", "send", "raw", "finish", "done"},
               op : {"put", "delete", "raw"}, chan : Calls \cup {NoCall},
               code : StatusCode, source : Contents, want : Metadata,
               pos : 0..(MaxSize + MaxRaw), edited : BOOLEAN]

CallType == [wire : Seq(Frames), closed : BOOLEAN, broken : BreakCodes \cup {NoBreak},
             answer : Answer \cup {NoReply},
             pc : {"none", "first", "read", "commit", "linked", "delete", "unlinked"},
             req : Metadata, rest : Contents, got : Contents,
             asked : Object!Operation \cup {NoAsk}]

StoreTypes == Store!TypeOK /\ configured \in BOOLEAN /\ crashes \in 0..MaxCrashes

Types == cl \in [Clients -> ClientType] /\ call \in [Calls -> CallType]

(* No call has two clients. *)
ChansApart ==
    \A c, d \in Clients : c # d /\ cl[c].chan = cl[d].chan => cl[c].chan = NoCall

(* What an answer says in its two encodings. *)
AnswerFits(a) ==
    /\ a.code \in Object!Definite \cup Object!Indefinite
    /\ IF a.grpc = "OK" THEN a.rpc = ToRpcStatusCode[a.code]
                        ELSE FromGrpcStatus(a.grpc) = a.code

(* The operation of a call is the one its request asks for. *)
AsksFor(r) ==
    /\ r.pc = "first" => IF r.wire = << >> THEN r.asked = NoAsk
                         ELSE "metadata" \in DOMAIN r.wire[1] =>
                                r.asked = Asks("put", r.wire[1].metadata)
    /\ r.pc \in {"read", "commit"} => r.asked = Asks("put", r.req)
    /\ r.pc = "linked" => r.asked # NoAsk /\ r.asked.kind = "put"
    /\ r.pc \in {"delete", "unlinked"} => r.asked = Asks("delete", r.req)

CallOK(r) ==
    /\ Len(r.wire) <= MaxWire /\ Len(r.got) <= r.req.size
    /\ r.pc # "none" => r.answer = NoReply
    /\ r.pc # "read" => r.rest = << >>
    /\ r.pc \notin {"read", "commit"} => r.got = << >>
    /\ r.answer # NoReply => r.broken = NoBreak /\ AnswerFits(r.answer)
    /\ AsksFor(r)

(* A client by itself. *)
Live == {"metadata", "send", "raw", "finish"}

ClientOK(x) ==
    /\ x.pc \in {"idle", "open"} => x.chan = NoCall
    /\ x.pc \in Live => x.chan \in Calls
    /\ x.pc \in {"idle", "open", "metadata"} => x.pos = 0
    /\ x.pc = "raw" => x.op = "raw"
    /\ x.pc \in {"open", "metadata"} /\ ~x.edited =>
         x.want.size = Len(x.source) /\ x.want.sum = Blake3(x.source)
    /\ x.pc = "done" /\ x.op = "put" /\ x.code = "Corruption" => x.edited

(* A client and its call. *)
Quiet(r) == r.pc \in {"first", "none"} /\ r.wire = << >> /\ r.asked = NoAsk

IsOver(r) == r.broken # NoBreak \/ r.answer # NoReply

(* The bytes of a frame. *)
Body(f) == IF "data" \in DOMAIN f THEN f.data ELSE << >>

(* The stream of an undisturbed upload of p: what the handler has got, the *)
(* rest of the current frame and the frames in transit make up the bytes   *)
(* sent.  cut[i] is the number of bytes up to the i-th frame.              *)
Streams(x, r, p, cut) ==
    /\ r.pc = "first" => /\ r.wire # << >> /\ "metadata" \in DOMAIN r.wire[1]
                         /\ r.wire[1].metadata.size = Len(p)
                         /\ r.wire[1].metadata.sum = Blake3(p)
    /\ r.pc \in {"read", "commit"} => r.req.size = Len(p) /\ r.req.sum = Blake3(p)
    /\ cut[0] = Len(r.got) + Len(r.rest)
    /\ \A i \in 1..Len(r.wire) :
         /\ cut[i] = cut[i - 1] + Len(Body(r.wire[i]))
         /\ (r.pc = "first" /\ i = 1) \/ GoodFrame(r.wire[i])
         /\ \A j \in 1..Len(Body(r.wire[i])) : Body(r.wire[i])[j] = p[cut[i - 1] + j]
    /\ \A j \in 1..Len(r.got) : r.got[j] = p[j]
    /\ \A j \in 1..Len(r.rest) : r.rest[j] = p[Len(r.got) + j]
    /\ x.pc = "send" => x.source = p /\ cut[Len(r.wire)] = x.pos
    /\ x.pc = "finish" => cut[Len(r.wire)] = Len(p)
    /\ r.pc = "commit" => Len(r.got) = Len(p)

Uploads(x, r) ==
    \E p \in Contents : \E cut \in [0..Len(r.wire) -> 0..Len(p)] : Streams(x, r, p, cut)

Attends(x, r) ==
    /\ r.pc = "none" => IsOver(r)
    /\ x.pc \in {"metadata", "send", "raw"} => ~r.closed
    /\ x.pc = "metadata" \/ (x.pc = "raw" /\ x.pos = 0) => Quiet(r)
    /\ x.pc = "send" \/ (x.pc = "raw" /\ x.pos # 0) => (r.pc = "first" => r.wire # << >>)
    /\ x.pc = "send" => r.asked # NoAsk
    /\ ~x.edited /\ x.pc \in {"metadata", "send", "finish"} /\ x.op = "put" /\ r.broken = NoBreak =>
         /\ r.answer # NoReply => r.answer.code # "Corruption"
         /\ x.pc # "metadata" /\ r.pc \in {"first", "read", "commit"} => Uploads(x, r)

IInv == /\ StoreTypes /\ Types /\ ChansApart
        /\ \A k \in Calls : CallOK(call[k])
        /\ \A c \in Clients : ClientOK(cl[c])
        /\ \A c \in Clients : cl[c].pc \in Live => Attends(cl[c], call[cl[c].chan])

-----------------------------------------------------------------------------
(***************************************************************************)
(* Lemmas.                                                                 *)
(***************************************************************************)

(* What a request asks for is an operation. *)
LEMMA AsksOperation ==
    ASSUME NEW kind \in {"put", "delete"}, NEW m \in Metadata
    PROVE  /\ Asks(kind, m) \in Object!Operation /\ Asks(kind, m) # NoAsk
           /\ Asks(kind, m).kind = kind /\ Asks(kind, m).id = m.id
<1> DEFINE P == {d \in Contents : Len(d) = m.size /\ Blake3(d) = m.sum}
           q == IF P = {} THEN NoContent ELSE CHOOSE d \in P : TRUE
<1>1. q \in Contents \cup {NoContent}
  <2>1. ASSUME P # {} PROVE (CHOOSE d \in P : TRUE) \in Contents
    BY <2>1
  <2> QED BY <2>1
<1>2. Asks(kind, m) = [kind |-> kind, id |-> m.id, payload |-> q]
  BY DEF Asks
<1>3. m.id \in ChunkIds
  BY DEF Metadata
<1> HIDE DEF q
<1> QED BY <1>1, <1>2, <1>3, PutAssumption DEF Object!Operation

(* It is the payload with the size and checksum of the request: there is   *)
(* only one.                                                               *)
LEMMA AsksPayload ==
    ASSUME NEW m \in Metadata, NEW d \in Contents, Len(d) = m.size, Blake3(d) = m.sum
    PROVE  Asks("put", m).payload = d
<1> DEFINE P == {e \in Contents : Len(e) = m.size /\ Blake3(e) = m.sum}
<1>1. d \in P /\ \A e \in P : e = d
  BY CollisionFree
<1>2. P # {} /\ (CHOOSE e \in P : TRUE) = d
  BY <1>1
<1> QED BY <1>2 DEF Asks

(* A client and a call at rest. *)
LEMMA RestTypes ==
    /\ NoWant \in Metadata
    /\ Idle \in ClientType /\ ClientOK(Idle)
    /\ Fresh \in CallType /\ CallOK(Fresh)
<1>1. 0 \in 0..MaxSize /\ Blake3(<< >>) \in Checksums /\ 0 \in 0..(MaxSize + MaxRaw)
  BY SizeAssumption, DigestAssumption, EmptyContents, PutAssumption
<1>2. (CHOOSE id \in ChunkIds : TRUE) \in ChunkIds
  BY PutAssumption
<1>3. NoWant \in Metadata /\ NoWant.size = 0
  BY <1>1, <1>2 DEF NoWant, Metadata
<1>4. << >> \in Seq(Frames) /\ Len(<< >>) = 0
  OBVIOUS
<1>5. Idle \in ClientType
  BY <1>1, <1>3, EmptyContents DEF Idle, ClientType, StatusCode
<1>6. ClientOK(Idle)
  BY DEF ClientOK, Idle, Live
<1>7. Fresh \in CallType
  BY <1>3, <1>4, EmptyContents DEF Fresh, CallType
<1>8. CallOK(Fresh)
  BY <1>3, <1>4, PutAssumption DEF CallOK, AsksFor, Fresh
<1> QED BY <1>3, <1>5, <1>6, <1>7, <1>8

(* A frame has metadata or data. *)
LEMMA FrameFields ==
    ASSUME NEW f \in Frames
    PROVE  /\ "metadata" \in DOMAIN f => f.metadata \in Metadata /\ "data" \notin DOMAIN f
           /\ "data" \in DOMAIN f => f.data \in Contents /\ "metadata" \notin DOMAIN f
           /\ "metadata" \in DOMAIN f \/ "data" \in DOMAIN f
           /\ Body(f) \in Contents
<1>1. CASE f \in [metadata : Metadata]
  BY <1>1, EmptyContents DEF Body
<1>2. CASE f \in [data : Contents]
  BY <1>2 DEF Body
<1> QED BY <1>1, <1>2 DEF Frames

(* A step that changes one call. *)
LEMMA CallMoves ==
    ASSUME IInv, NEW k \in Calls, NEW r \in CallType, CallOK(r),
           call' = [call EXCEPT ![k] = r], cl' = cl, StoreTypes',
           \A c \in Clients : cl[c].chan = k /\ cl[c].pc \in Live => Attends(cl[c], r)
    PROVE  IInv'
<1>1. /\ call'[k] = r /\ \A j \in Calls : j # k => call'[j] = call[j]
      /\ call' \in [Calls -> CallType]
  BY DEF IInv, Types
<1>2. Types' /\ ChansApart'
  BY <1>1 DEF IInv, Types, ChansApart
<1>3. \A j \in Calls : CallOK(call'[j])
  BY <1>1 DEF IInv
<1>4. \A c \in Clients : ClientOK(cl'[c])
  BY DEF IInv
<1>5. ASSUME NEW c \in Clients, cl[c].pc \in Live PROVE Attends(cl[c], call'[cl[c].chan])
  <2>1. cl[c].chan \in Calls /\ Attends(cl[c], call[cl[c].chan])
    BY <1>5 DEF IInv, ClientOK
  <2> QED BY <1>1, <1>5, <2>1
<1> QED BY <1>2, <1>3, <1>4, <1>5 DEF IInv

(* A step of one client, and of its call. *)
LEMMA ClientMoves ==
    ASSUME IInv, NEW c \in Clients, NEW x \in ClientType, ClientOK(x),
           cl' = [cl EXCEPT ![c] = x], UNCHANGED <<store, worker>>,
           call' \in [Calls -> CallType], \A k \in Calls : CallOK(call'[k]),
           \A k \in Calls : k # cl[c].chan /\ k # x.chan => call'[k] = call[k],
           x.chan \in {cl[c].chan, NoCall} \/ ~Attended(x.chan),
           x.pc \in Live => Attends(x, call'[x.chan])
    PROVE  IInv'
<1>1. /\ cl'[c] = x /\ \A d \in Clients : d # c => cl'[d] = cl[d]
      /\ cl' \in [Clients -> ClientType]
  BY DEF IInv, Types
<1>2. StoreTypes'
  BY DEF IInv, StoreTypes, Store!TypeOK, store, worker
<1>3. \A d \in Clients : d # c /\ cl[d].chan # NoCall => cl[d].chan # cl[c].chan /\ cl[d].chan # x.chan
  BY DEF IInv, ChansApart, Attended
<1>4. ChansApart'
  BY <1>1, <1>3 DEF IInv, ChansApart
<1>5. \A d \in Clients : ClientOK(cl'[d])
  BY <1>1 DEF IInv
<1>6. ASSUME NEW d \in Clients, cl'[d].pc \in Live PROVE Attends(cl'[d], call'[cl'[d].chan])
  <2>1. CASE d = c
    BY <1>1, <1>6, <2>1
  <2>2. CASE d # c
    <3>1. cl'[d] = cl[d] /\ cl[d].chan \in Calls /\ Attends(cl[d], call[cl[d].chan])
      BY <1>1, <1>6, <2>2 DEF IInv, ClientOK
    <3> QED BY <1>3, <2>2, <3>1, PutAssumption
  <2> QED BY <2>1, <2>2
<1> QED BY <1>1, <1>2, <1>4, <1>5, <1>6 DEF IInv, Types

(* The initial state. *)
LEMMA InitInv == ASSUME Init PROVE IInv
<1>1. StoreTypes
  <2>1. configured \in BOOLEAN /\ crashes \in 0..MaxCrashes
    BY PutAssumption DEF Init
  <2>2. Store!TypeOK
    BY DEF Init, Store!Init, Store!TypeOK, Store!Payloads
  <2> QED BY <2>1, <2>2 DEF StoreTypes
<1>2. cl = [c \in Clients |-> Idle] /\ call = [k \in Calls |-> Fresh]
  BY DEF Init
<1>3. Types
  BY <1>2, RestTypes DEF Types
<1>4. ChansApart /\ \A c \in Clients : cl[c].pc \notin Live
  BY <1>2 DEF ChansApart, Idle, Live
<1>5. (\A k \in Calls : CallOK(call[k])) /\ \A c \in Clients : ClientOK(cl[c])
  BY <1>2, RestTypes
<1> QED BY <1>1, <1>3, <1>4, <1>5 DEF IInv

-----------------------------------------------------------------------------
(***************************************************************************)
(* The steps of the client.                                                *)
(***************************************************************************)

(* A client that returns forgets all but its call. *)
LEMMA ReturnsRecord ==
    ASSUME IInv, NEW c \in Clients, NEW code \in StatusCode, Returns(c, code)
    PROVE  \E x \in ClientType :
             /\ cl' = [cl EXCEPT ![c] = x]
             /\ x.pc = "done" /\ x.code = code /\ x.op = cl[c].op
             /\ x.chan = cl[c].chan /\ x.edited = cl[c].edited
<1> DEFINE x == [Idle EXCEPT !.pc = "done", !.code = code, !.op = cl[c].op,
                             !.chan = cl[c].chan, !.edited = cl[c].edited]
<1>1. cl[c] \in ClientType
  BY DEF IInv, Types
<1>2. cl' = [cl EXCEPT ![c] = x]
  BY DEF Returns
<1>3. PICK o, h, e : o = cl[c].op /\ h = cl[c].chan /\ e = cl[c].edited
  OBVIOUS
<1>4. o \in {"put", "delete", "raw"} /\ h \in Calls \cup {NoCall} /\ e \in BOOLEAN
  BY <1>1, <1>3 DEF ClientType
<1>5. x \in ClientType /\ x.pc = "done" /\ x.code = code /\ x.op = o /\ x.chan = h /\ x.edited = e
  BY <1>3, <1>4, RestTypes DEF ClientType
<1> HIDE DEF x
<1> QED BY <1>2, <1>3, <1>5

(* A client that has lost its interest in its call. *)
LEMMA ReturnsStep ==
    ASSUME IInv, NEW c \in Clients, NEW code \in StatusCode, Returns(c, code),
           UNCHANGED <<store, worker>>,
           call' \in [Calls -> CallType], \A k \in Calls : CallOK(call'[k]),
           \A k \in Calls : k # cl[c].chan => call'[k] = call[k],
           cl[c].op = "put" /\ code = "Corruption" => cl[c].edited
    PROVE  IInv'
<1>1. PICK x \in ClientType :
             /\ cl' = [cl EXCEPT ![c] = x]
             /\ x.pc = "done" /\ x.code = code /\ x.op = cl[c].op
             /\ x.chan = cl[c].chan /\ x.edited = cl[c].edited
  BY ReturnsRecord
<1>2. ClientOK(x) /\ x.pc \notin Live
  BY <1>1 DEF ClientOK, Live
<1> QED BY <1>1, <1>2, ClientMoves

(* Put is refused, or cannot open the source again. *)
LEMMA EarlySteps ==
    ASSUME IInv, NEW c \in Clients, (\E id \in ChunkIds : Refused(c, id)) \/ PutOpenFails(c)
    PROVE  IInv'
<1>1. PICK code \in {"InvalidArgument", "IoError"} :
        Returns(c, code) /\ UNCHANGED <<store, worker, call>>
  BY DEF Refused, PutOpenFails
<1>2. call' \in [Calls -> CallType] /\ \A k \in Calls : CallOK(call'[k])
  BY <1>1 DEF IInv, Types
<1> QED BY <1>1, <1>2, ReturnsStep DEF StatusCode

(* The status that Finish reports. *)
LEMMA FinishFacts ==
    ASSUME NEW r \in CallType, CallOK(r), IsOver(r)
    PROVE  /\ FinishCode(r) \in StatusCode
           /\ r.answer # NoReply => FinishCode(r) = r.answer.code
           /\ r.answer = NoReply => FinishCode(r) \in {"Timeout", "Unavailable"}
<1>1. CASE r.answer = NoReply
  <2>1. r.broken \in BreakCodes
    BY <1>1 DEF IsOver, CallType
  <2>2. FinishCode(r) = FromGrpcStatus(r.broken)
    BY <1>1 DEF FinishCode
  <2> QED BY <1>1, <2>1, <2>2, BreakFacts
<1>2. CASE r.answer # NoReply
  <2>1. PICK a \in Answer : a = r.answer /\ AnswerFits(a)
    BY <1>2 DEF CallType, CallOK
  <2>2. a.code \in StatusCode
    BY DEF Answer
  <2>3. CASE a.grpc = "OK"
    <3>1. FinishCode(r) = FromRpcCode(ToRpcStatusCode[a.code])
      BY <1>2, <2>1, <2>3 DEF FinishCode, AnswerFits
    <3> QED BY <1>2, <2>1, <2>2, <3>1, StatusRoundTrip
  <2>4. CASE a.grpc # "OK"
    BY <1>2, <2>1, <2>2, <2>4 DEF FinishCode, AnswerFits
  <2> QED BY <2>3, <2>4
<1> QED BY <1>1, <1>2

LEMMA FinishStep ==
    ASSUME IInv, NEW c \in Clients, Finish(c)
    PROVE  IInv'
<1>1. /\ cl[c].pc = "finish" /\ Over(cl[c].chan) /\ UNCHANGED <<store, worker, call>>
      /\ Returns(c, FinishCode(call[cl[c].chan]))
  BY DEF Finish, Chan
<1>2. PICK k \in Calls : k = cl[c].chan
  BY <1>1 DEF IInv, ClientOK, Live
<1>3. PICK r \in CallType : r = call[k] /\ CallOK(r) /\ IsOver(r) /\ Attends(cl[c], r)
  BY <1>1, <1>2 DEF IInv, Types, Over, IsOver, Live
<1>4. PICK code \in StatusCode : code = FinishCode(r)
  BY <1>3, FinishFacts
<1>5. cl[c].op = "put" /\ code = "Corruption" => cl[c].edited
  <2> SUFFICES ASSUME cl[c].op = "put", code = "Corruption", ~cl[c].edited PROVE FALSE
    OBVIOUS
  <2>1. r.answer # NoReply /\ r.answer.code = "Corruption"
    BY <1>3, <1>4, FinishFacts
  <2>2. r.broken # NoBreak
    BY <1>1, <1>3, <2>1 DEF Attends
  <2> QED BY <1>3, <2>1, <2>2 DEF CallOK
<1>6. call' \in [Calls -> CallType] /\ \A j \in Calls : CallOK(call'[j])
  BY <1>1 DEF IInv, Types
<1> QED BY <1>1, <1>2, <1>3, <1>4, <1>5, <1>6, ReturnsStep

(* The hash of the source; somebody edits it. *)
LEMMA SourceSteps ==
    ASSUME IInv, NEW c \in Clients, NEW d \in Sources,
           (\E id \in ChunkIds : PutHash(c, id, d)) \/ EditSource(c, d)
    PROVE  IInv'
<1>0. cl[c] \in ClientType /\ ClientOK(cl[c])
  BY DEF IInv, Types
<1>1. d \in Contents /\ Len(d) \in 0..MaxSize /\ Blake3(d) \in Checksums
  <2>1. d \in Contents
    BY PutAssumption
  <2>2. Len(d) \in Nat /\ Len(d) <= MaxSize
    BY <2>1, ContentsAreSeqs
  <2> QED BY <2>1, <2>2, SizeAssumption, DigestAssumption
<1>2. UNCHANGED <<store, worker, call>>
  BY DEF PutHash, EditSource
<1>3. PICK x \in ClientType :
        /\ cl' = [cl EXCEPT ![c] = x] /\ ClientOK(x) /\ x.chan = cl[c].chan
        /\ x.pc \in Live => x.pc = cl[c].pc /\ x.edited /\ x.pos = cl[c].pos
  <2>1. CASE \E id \in ChunkIds : PutHash(c, id, d)
    <3>1. PICK id \in ChunkIds : PutHash(c, id, d)
      BY <2>1
    <3>2. PICK m \in Metadata : m = [id |-> id, size |-> Len(d), sum |-> Blake3(d)]
      BY <1>1 DEF Metadata
    <3> DEFINE x == [cl[c] EXCEPT !.pc = "open", !.source = d, !.want = m]
    <3>3. cl[c].pc = "idle" /\ cl' = [cl EXCEPT ![c] = x]
      BY <3>1, <3>2 DEF PutHash
    <3>4. /\ x \in ClientType /\ x.pc = "open" /\ x.source = d /\ x.want = m
          /\ x.chan = cl[c].chan /\ x.pos = cl[c].pos
      BY <1>0, <1>1 DEF ClientType
    <3> HIDE DEF x
    <3>5. m.size = Len(d) /\ m.sum = Blake3(d)
      BY <3>2
    <3>6. ClientOK(x) /\ x.pc \notin Live
      BY <1>0, <3>3, <3>4, <3>5 DEF ClientOK, Live
    <3> QED BY <3>3, <3>4, <3>6
  <2>2. CASE EditSource(c, d)
    <3> DEFINE x == [cl[c] EXCEPT !.source = d, !.edited = TRUE]
    <3>1. cl' = [cl EXCEPT ![c] = x] /\ cl[c].pc \in {"open", "metadata", "send"}
      BY <2>2 DEF EditSource
    <3>2. /\ x \in ClientType /\ x.pc = cl[c].pc /\ x.chan = cl[c].chan
          /\ x.edited /\ x.pos = cl[c].pos /\ x.op = cl[c].op
      BY <1>0, <1>1 DEF ClientType
    <3> HIDE DEF x
    <3>3. ClientOK(x)
      BY <1>0, <3>1, <3>2 DEF ClientOK
    <3> QED BY <3>1, <3>2, <3>3
  <2> QED BY <2>1, <2>2
<1>4. x.pc \in Live => Attends(x, call'[x.chan])
  <2> SUFFICES ASSUME x.pc \in Live PROVE Attends(x, call[cl[c].chan])
    BY <1>2, <1>3
  <2>1. Attends(cl[c], call[cl[c].chan]) /\ x.pc = cl[c].pc /\ x.edited /\ x.pos = cl[c].pos
    BY <1>3 DEF IInv
  <2> QED BY <2>1 DEF Attends
<1>5. call' \in [Calls -> CallType] /\ \A k \in Calls : CallOK(call'[k])
  BY <1>2 DEF IInv, Types
<1> QED BY <1>2, <1>3, <1>4, <1>5, ClientMoves

(* The client leaves, or dies. *)
LEMMA LeaveStep ==
    ASSUME IInv, NEW c \in Clients, LeaveCall(c)
    PROVE  IInv'
<1>1. /\ cl' = [cl EXCEPT ![c] = Idle] /\ UNCHANGED <<store, worker>>
      /\ call' = [k \in Calls |->
                  IF k # cl[c].chan THEN call[k]
                  ELSE IF call[k].pc = "none" THEN Fresh
                  ELSE [call[k] EXCEPT !.broken = "CANCELLED"]]
  BY DEF LeaveCall
<1>2. ASSUME NEW k \in Calls PROVE call'[k] \in CallType /\ CallOK(call'[k])
  <2>1. call[k] \in CallType /\ CallOK(call[k])
    BY DEF IInv, Types
  <2>2. CASE call'[k] \in {call[k], Fresh}
    BY <2>1, <2>2, RestTypes
  <2>3. CASE call[k].pc # "none" /\ call'[k] = [call[k] EXCEPT !.broken = "CANCELLED"]
    <3>1. PICK r : r = [call[k] EXCEPT !.broken = "CANCELLED"]
      OBVIOUS
    <3>2. /\ r \in CallType /\ r.wire = call[k].wire /\ r.got = call[k].got
          /\ r.rest = call[k].rest /\ r.req = call[k].req /\ r.pc = call[k].pc
          /\ r.answer = call[k].answer /\ r.asked = call[k].asked
      BY <2>1, <3>1 DEF CallType, BreakCodes
    <3>3. CallOK(r)
      BY <2>1, <2>3, <3>2 DEF CallOK, AsksFor
    <3> QED BY <2>3, <3>1, <3>2, <3>3
  <2> QED BY <1>1, <2>2, <2>3
<1>3. call' \in [Calls -> CallType]
  <2>1. call' = [k \in Calls |-> call'[k]]
    BY <1>1
  <2> QED BY <1>2, <2>1
<1>4. \A k \in Calls : k # cl[c].chan => call'[k] = call[k]
  BY <1>1
<1>5. Idle.chan = NoCall /\ Idle.pc \notin Live
  BY DEF Idle, Live
<1> QED BY <1>1, <1>2, <1>3, <1>4, <1>5, RestTypes, ClientMoves

(* A call is opened: for an upload, a deletion or another user. *)
LEMMA OpenSteps ==
    ASSUME IInv, NEW c \in Clients, NEW k \in Calls,
           PutOpen(c, k) \/ RawStart(c, k) \/ \E id \in ChunkIds : DeleteStart(c, k, id)
    PROVE  IInv'
<1>0. cl[c] \in ClientType /\ ClientOK(cl[c]) /\ call[k] \in CallType
  BY DEF IInv, Types
<1>1. /\ call[k] = Fresh /\ ~Attended(k) /\ UNCHANGED <<store, worker>>
      /\ cl[c].pc \in {"idle", "open"} /\ cl[c].chan = NoCall /\ cl[c].pos = 0
  BY <1>0 DEF PutOpen, RawStart, DeleteStart, StartCall, ClientOK
<1>2. PICK x \in ClientType :
        /\ cl' = [cl EXCEPT ![c] = x] /\ x.chan = k /\ x.pos = 0 /\ x.pc \in Live
        /\ \/ PutOpen(c, k) /\ x.pc = "metadata" /\ cl[c].pc = "open"
           \/ RawStart(c, k) /\ x.pc = "raw" /\ x.op = "raw"
           \/ /\ \E id \in ChunkIds : DeleteStart(c, k, id)
              /\ x.pc = "finish" /\ x.op = "delete"
        /\ x.edited = cl[c].edited /\ x.source = cl[c].source /\ x.want = cl[c].want
  <2>1. CASE PutOpen(c, k)
    <3>1. PICK x : x = [cl[c] EXCEPT !.pc = "metadata", !.chan = k]
      OBVIOUS
    <3>2. cl' = [cl EXCEPT ![c] = x] /\ cl[c].pc = "open"
      BY <2>1, <3>1 DEF PutOpen
    <3>3. /\ x \in ClientType /\ x.pc = "metadata" /\ x.chan = k /\ x.pos = cl[c].pos
          /\ x.edited = cl[c].edited /\ x.source = cl[c].source /\ x.want = cl[c].want
      BY <1>0, <3>1 DEF ClientType
    <3> QED BY <1>1, <2>1, <3>2, <3>3 DEF Live
  <2>2. CASE RawStart(c, k)
    <3>1. PICK x : x = [cl[c] EXCEPT !.pc = "raw", !.op = "raw", !.chan = k]
      OBVIOUS
    <3>2. cl' = [cl EXCEPT ![c] = x]
      BY <2>2, <3>1 DEF RawStart
    <3>3. /\ x \in ClientType /\ x.pc = "raw" /\ x.op = "raw" /\ x.chan = k /\ x.pos = cl[c].pos
          /\ x.edited = cl[c].edited /\ x.source = cl[c].source /\ x.want = cl[c].want
      BY <1>0, <3>1 DEF ClientType
    <3> QED BY <1>1, <2>2, <3>2, <3>3 DEF Live
  <2>3. CASE \E id \in ChunkIds : DeleteStart(c, k, id)
    <3>1. PICK x : x = [cl[c] EXCEPT !.pc = "finish", !.op = "delete", !.chan = k]
      OBVIOUS
    <3>2. cl' = [cl EXCEPT ![c] = x]
      BY <2>3, <3>1 DEF DeleteStart
    <3>3. /\ x \in ClientType /\ x.pc = "finish" /\ x.op = "delete" /\ x.chan = k
          /\ x.pos = cl[c].pos
          /\ x.edited = cl[c].edited /\ x.source = cl[c].source /\ x.want = cl[c].want
      BY <1>0, <3>1 DEF ClientType
    <3> QED BY <1>1, <2>3, <3>2, <3>3 DEF Live
  <2> QED BY <2>1, <2>2, <2>3
<1>3. ClientOK(x)
  BY <1>0, <1>2 DEF ClientOK
<1>4. PICK r \in CallType :
        /\ call' = [call EXCEPT ![k] = r] /\ CallOK(r)
        /\ r.pc # "none" /\ ~r.closed
        /\ x.pc \in {"metadata", "raw"} => Quiet(r)
        /\ r.answer = NoReply
  <2>0. /\ Fresh.wire = << >> /\ Fresh.closed = FALSE /\ Fresh.answer = NoReply
        /\ Fresh.req = NoWant /\ Fresh.rest = << >> /\ Fresh.got = << >> /\ Fresh.asked = NoAsk
        /\ Len(<< >>) = 0 /\ NoWant.size = 0 /\ Fresh \in CallType
    BY RestTypes DEF Fresh, NoWant
  <2>1. CASE (PutOpen(c, k) \/ RawStart(c, k)) /\ x.pc \in {"metadata", "raw"}
    <3>1. PICK r : r = [Fresh EXCEPT !.pc = "first"]
      OBVIOUS
    <3>2. call' = [call EXCEPT ![k] = r]
      BY <1>1, <2>1, <3>1 DEF PutOpen, RawStart, StartCall
    <3>3. /\ r \in CallType /\ r.pc = "first" /\ r.wire = << >> /\ r.closed = FALSE
          /\ r.answer = NoReply /\ r.req = NoWant /\ r.rest = << >> /\ r.got = << >>
          /\ r.asked = NoAsk
      BY <2>0, <3>1 DEF CallType
    <3>4. CallOK(r) /\ Quiet(r)
      BY <2>0, <3>3, PutAssumption DEF CallOK, AsksFor, Quiet
    <3> QED BY <3>2, <3>3, <3>4
  <2>2. CASE (\E id \in ChunkIds : DeleteStart(c, k, id)) /\ x.pc = "finish"
    <3>1. PICK id \in ChunkIds : DeleteStart(c, k, id)
      BY <2>2
    <3>2. PICK m \in Metadata : m = [NoWant EXCEPT !.id = id] /\ m.size = 0
      <4>1. PICK m : m = [NoWant EXCEPT !.id = id]
        OBVIOUS
      <4>2. m \in Metadata /\ m.size = NoWant.size
        BY <4>1, RestTypes DEF Metadata
      <4> QED BY <2>0, <4>1, <4>2
    <3>3. PICK q \in Object!Operation : q = Asks("delete", m) /\ q # NoAsk
      BY AsksOperation
    <3>4. PICK r : r = [Fresh EXCEPT !.pc = "delete", !.req = m, !.asked = q]
      OBVIOUS
    <3>5. call' = [call EXCEPT ![k] = r]
      BY <1>1, <3>1, <3>2, <3>3, <3>4 DEF DeleteStart
    <3>6. /\ r \in CallType /\ r.pc = "delete" /\ r.wire = << >> /\ r.closed = FALSE
          /\ r.answer = NoReply /\ r.req = m /\ r.rest = << >> /\ r.got = << >>
          /\ r.asked = q
      BY <2>0, <3>4 DEF CallType
    <3>7. CallOK(r)
      BY <2>0, <3>2, <3>3, <3>6, PutAssumption DEF CallOK, AsksFor
    <3> QED BY <2>2, <3>5, <3>6, <3>7
  <2> QED BY <1>2, <2>1, <2>2
<1>5. /\ call'[k] = r /\ call' \in [Calls -> CallType] /\ \A j \in Calls : CallOK(call'[j])
      /\ \A j \in Calls : j # k => call'[j] = call[j]
  BY <1>4 DEF IInv, Types
<1>6. Attends(x, r)
  <2>1. x.pc = "finish" => x.op = "delete"
    BY <1>2
  <2> QED BY <1>2, <1>4, <2>1 DEF Attends
<1> QED BY <1>1, <1>2, <1>3, <1>5, <1>6, ClientMoves

(* The record of the call of a client that waits. *)
LEMMA LiveCall ==
    ASSUME IInv, NEW c \in Clients, cl[c].pc \in Live
    PROVE  \E k \in Calls : \E r \in CallType :
             /\ k = cl[c].chan /\ r = call[k] /\ CallOK(r) /\ Attends(cl[c], r)
             /\ Over(k) = IsOver(r)
<1>1. cl[c].chan \in Calls /\ Attends(cl[c], call[cl[c].chan])
  BY DEF IInv, ClientOK
<1>2. call[cl[c].chan] \in CallType /\ CallOK(call[cl[c].chan])
  BY <1>1 DEF IInv, Types
<1> QED BY <1>1, <1>2 DEF Over, IsOver

(* The source cannot be read: the call is cancelled and the client returns. *)
LEMMA SourceFailsStep ==
    ASSUME IInv, NEW c \in Clients, PutSourceFails(c)
    PROVE  IInv'
<1>1. cl[c].pc = "send" /\ Returns(c, "IoError") /\ UNCHANGED <<store, worker>>
  BY DEF PutSourceFails
<1>2. PICK k \in Calls, r \in CallType :
        k = cl[c].chan /\ r = call[k] /\ CallOK(r) /\ Over(k) = IsOver(r)
  BY <1>1, LiveCall DEF Live
<1>3. PICK b \in BreakCodes \cup {NoBreak} : b = IF IsOver(r) THEN r.broken ELSE "CANCELLED"
  BY DEF CallType, BreakCodes
<1>4. PICK q : q = [r EXCEPT !.closed = TRUE, !.broken = b]
  OBVIOUS
<1>5. call' = [call EXCEPT ![k] = q]
  BY <1>2, <1>3, <1>4 DEF PutSourceFails
<1>6. /\ q \in CallType /\ q.wire = r.wire /\ q.got = r.got /\ q.rest = r.rest
      /\ q.req = r.req /\ q.pc = r.pc /\ q.answer = r.answer /\ q.asked = r.asked
      /\ q.broken = b
  BY <1>2, <1>3, <1>4 DEF CallType
<1>7. q.answer # NoReply => q.broken = NoBreak
  BY <1>2, <1>3, <1>6 DEF CallOK, IsOver
<1>8. CallOK(q)
  BY <1>2, <1>6, <1>7 DEF CallOK, AsksFor
<1>9. /\ call' \in [Calls -> CallType] /\ \A j \in Calls : CallOK(call'[j])
      /\ \A j \in Calls : j # cl[c].chan => call'[j] = call[j]
  BY <1>2, <1>5, <1>6, <1>8 DEF IInv, Types
<1> QED BY <1>1, <1>9, ReturnsStep DEF StatusCode

(* The call breaks. *)
LEMMA BreakStep ==
    ASSUME IInv, NEW c \in Clients, NEW code \in Breaks, Break(c, code)
    PROVE  IInv'
<1>1. cl[c].pc \in Live /\ ~Over(cl[c].chan) /\ UNCHANGED <<store, worker, cl>>
  BY DEF Break, Live
<1>2. PICK k \in Calls, r \in CallType :
        /\ k = cl[c].chan /\ r = call[k] /\ CallOK(r) /\ Over(k) = IsOver(r)
        /\ Attends(cl[c], r)
  BY <1>1, LiveCall
<1>3. r.answer = NoReply /\ r.broken = NoBreak
  BY <1>1, <1>2 DEF IsOver
<1>4. PICK q : q = [r EXCEPT !.broken = code]
  OBVIOUS
<1>5. code \in BreakCodes /\ code # NoBreak
  BY PutAssumption
<1>6. /\ q \in CallType /\ q.wire = r.wire /\ q.got = r.got /\ q.rest = r.rest
      /\ q.req = r.req /\ q.pc = r.pc /\ q.answer = r.answer /\ q.asked = r.asked
      /\ q.broken = code /\ q.closed = r.closed
  BY <1>2, <1>4, <1>5 DEF CallType
<1>7. call' = [call EXCEPT ![k] = q]
  BY <1>2, <1>4 DEF Break
<1>8. CallOK(q)
  BY <1>2, <1>3, <1>6 DEF CallOK, AsksFor
<1>9. Attends(cl[c], q)
  BY <1>2, <1>5, <1>6 DEF Attends, Quiet, IsOver
<1>10. \A d \in Clients : cl[d].chan = k /\ cl[d].pc \in Live => Attends(cl[d], q)
  BY <1>2, <1>9, PutAssumption DEF IInv, ChansApart
<1>11. StoreTypes'
  BY <1>1 DEF IInv, StoreTypes, Store!TypeOK, store, worker
<1> QED BY <1>1, <1>6, <1>7, <1>8, <1>10, <1>11, CallMoves

(* A client and its call move together. *)
LEMMA BothMove ==
    ASSUME IInv, NEW c \in Clients, NEW k \in Calls, cl[c].chan = k,
           NEW x \in ClientType, ClientOK(x), x.chan = k, cl' = [cl EXCEPT ![c] = x],
           NEW q \in CallType, CallOK(q), call' = [call EXCEPT ![k] = q],
           UNCHANGED <<store, worker>>, Attends(x, q)
    PROVE  IInv'
<1>1. /\ call'[k] = q /\ call' \in [Calls -> CallType]
      /\ \A j \in Calls : CallOK(call'[j])
      /\ \A j \in Calls : j # k => call'[j] = call[j]
  BY DEF IInv, Types
<1> QED BY <1>1, ClientMoves

(* A sequence of frames with one more at its end. *)
LEMMA AppendFrame ==
    ASSUME NEW w \in Seq(Frames), NEW f \in Frames
    PROVE  /\ Append(w, f) \in Seq(Frames) /\ Len(w) \in Nat
           /\ Len(Append(w, f)) = Len(w) + 1
           /\ \A i \in 1..Len(w) : Append(w, f)[i] = w[i]
           /\ Append(w, f)[Len(w) + 1] = f
           /\ Append(w, f) # << >>
           /\ w # << >> => 1 \in 1..Len(w)
<1>1. /\ Append(w, f) \in Seq(Frames) /\ Len(w) \in Nat
      /\ Len(Append(w, f)) = Len(w) + 1
      /\ \A i \in 1..Len(w) : Append(w, f)[i] = w[i]
      /\ Append(w, f)[Len(w) + 1] = f
  OBVIOUS
<1>2. Append(w, f) # << >>
  BY <1>1
<1>3. w # << >> => 1 \in 1..Len(w)
  OBVIOUS
<1> QED BY <1>1, <1>2, <1>3

(* The request opens the stream. *)
LEMMA MetadataStep ==
    ASSUME IInv, NEW c \in Clients, PutMetadata(c)
    PROVE  IInv'
<1>0. cl[c] \in ClientType /\ ClientOK(cl[c])
  BY DEF IInv, Types
<1>1. cl[c].pc = "metadata" /\ ~Over(cl[c].chan) /\ UNCHANGED <<store, worker>>
  BY DEF PutMetadata
<1>2. PICK k \in Calls, r \in CallType :
        /\ k = cl[c].chan /\ r = call[k] /\ CallOK(r) /\ Over(k) = IsOver(r)
        /\ Attends(cl[c], r)
  BY <1>1, LiveCall DEF Live
<1>3. /\ r.answer = NoReply /\ r.broken = NoBreak /\ r.pc = "first" /\ r.closed = FALSE
      /\ r.wire = << >> /\ r.got = << >> /\ r.rest = << >>
  <2>1. r.answer = NoReply /\ r.broken = NoBreak
    BY <1>1, <1>2 DEF IsOver
  <2>2. Quiet(r) /\ r.pc # "none" /\ ~r.closed
    BY <1>1, <1>2 DEF Attends
  <2>3. r.closed \in BOOLEAN
    BY DEF CallType
  <2> QED BY <1>2, <2>1, <2>2, <2>3 DEF Quiet, CallOK
<1>4. PICK m \in Metadata : m = cl[c].want
  BY <1>0 DEF ClientType
<1>5. PICK f \in Frames : f = [metadata |-> m] /\ f.metadata = m /\ "metadata" \in DOMAIN f
  <2>1. [metadata |-> m] \in [metadata : Metadata]
    OBVIOUS
  <2>2. [metadata |-> m] \in Frames
    BY <2>1 DEF Frames
  <2>3. PICK f \in Frames : f = [metadata |-> m]
    BY <2>2
  <2> QED BY <2>3
<1>6. PICK o \in Object!Operation : o = Asks("put", m) /\ o # NoAsk
  BY AsksOperation
<1>7. PICK v \in Seq(Frames) : v = Append(r.wire, f) /\ Len(v) = 1 /\ v[1] = f /\ v # << >>
  <2>1. << >> \in Seq(Frames) /\ Len(<< >>) = 0
    OBVIOUS
  <2>2. PICK w \in Seq(Frames) : w = r.wire /\ Len(w) = 0
    BY <1>3, <2>1
  <2>3. PICK v : v = Append(w, f)
    OBVIOUS
  <2>4. v \in Seq(Frames) /\ Len(v) = Len(w) + 1 /\ v[Len(w) + 1] = f /\ v # << >>
    BY <2>3, AppendFrame
  <2>5. Len(v) = 1 /\ v[1] = f
    BY <2>2, <2>4
  <2> QED BY <2>2, <2>3, <2>4, <2>5
<1>8. PICK q : q = [r EXCEPT !.wire = v, !.asked = o]
  OBVIOUS
<1>9. /\ q \in CallType /\ q.wire = v /\ q.got = << >> /\ q.rest = << >>
      /\ q.req = r.req /\ q.pc = "first" /\ q.answer = NoReply /\ q.asked = o
      /\ q.broken = NoBreak /\ q.closed = FALSE
  BY <1>3, <1>8 DEF CallType
<1>10. call' = [call EXCEPT ![k] = q]
  BY <1>2, <1>4, <1>5, <1>6, <1>7, <1>8 DEF PutMetadata
<1>11. PICK x : x = [cl[c] EXCEPT !.pc = "send", !.want = NoWant]
  OBVIOUS
<1>12. /\ x \in ClientType /\ x.pc = "send" /\ x.chan = k /\ x.pos = cl[c].pos
       /\ x.edited = cl[c].edited /\ x.source = cl[c].source /\ x.op = cl[c].op
  BY <1>0, <1>2, <1>11, RestTypes DEF ClientType
<1>13. cl' = [cl EXCEPT ![c] = x]
  BY <1>11 DEF PutMetadata
<1>14. CallOK(q)
  <2>1. Len(q.wire) <= MaxWire
    BY <1>7, <1>9, PutAssumption
  <2>2. Len(q.got) <= q.req.size
    BY <1>2, <1>3, <1>9 DEF CallOK
  <2>3. AsksFor(q)
    BY <1>5, <1>6, <1>7, <1>9 DEF AsksFor
  <2> QED BY <1>9, <2>1, <2>2, <2>3 DEF CallOK
<1>15. ClientOK(x)
  BY <1>2, <1>12 DEF ClientOK
<1>16. ASSUME ~x.edited PROVE Uploads(x, q)
  <2>1. PICK p \in Contents : p = x.source /\ Len(p) \in Nat
    BY <1>12, ContentsAreSeqs DEF ClientType
  <2>2. m.size = Len(p) /\ m.sum = Blake3(p) /\ x.pos = 0
    BY <1>0, <1>1, <1>4, <1>12, <1>16, <2>1 DEF ClientOK
  <2>3. PICK cut \in [0..1 -> 0..Len(p)] : cut[0] = 0 /\ cut[1] = 0
    <3>1. PICK cut : cut = [i \in 0..1 |-> 0]
      OBVIOUS
    <3>2. cut \in [0..1 -> 0..Len(p)] /\ cut[0] = 0 /\ cut[1] = 0
      BY <2>1, <3>1
    <3> QED BY <3>2
  <2>4. Body(f) = << >> /\ Len(<< >>) = 0
    BY <1>5, FrameFields DEF Body
  <2>5. \A i \in 1..Len(q.wire) : i = 1 /\ q.wire[i] = f /\ cut[i] = 0 /\ cut[i - 1] = 0
    BY <1>7, <1>9, <2>3
  <2>6. Streams(x, q, p, cut)
    BY <1>5, <1>7, <1>9, <1>12, <2>1, <2>2, <2>3, <2>4, <2>5 DEF Streams
  <2> QED BY <1>7, <1>9, <2>3, <2>6 DEF Uploads
<1>17. Attends(x, q)
  BY <1>6, <1>7, <1>9, <1>12, <1>16 DEF Attends
<1> QED BY <1>1, <1>2, <1>9, <1>10, <1>12, <1>13, <1>14, <1>15, <1>17, BothMove

(* The frame at the end of an undisturbed stream. *)
LEMMA StreamGrows ==
    ASSUME NEW x \in ClientType, NEW y \in ClientType, NEW r \in CallType, NEW q \in CallType,
           NEW f \in Frames, GoodFrame(f),
           q.wire = Append(r.wire, f), q.got = r.got, q.rest = r.rest, q.req = r.req, q.pc = r.pc,
           r.pc = "first" => r.wire # << >>,
           x.pc = "send", y.pc = "send", y.source = x.source, y.pos = x.pos + Len(f.data),
           x.pos + Len(f.data) <= Len(x.source),
           \A j \in 1..Len(f.data) : f.data[j] = x.source[x.pos + j],
           Uploads(x, r)
    PROVE  Uploads(y, q)
<1>1. PICK w, v : w \in Seq(Frames) /\ w = r.wire /\ v = Append(w, f) /\ q.wire = v
  BY DEF CallType
<1>2. PICK z \in Nat : z = Len(w)
  BY <1>1
<1>3. /\ v \in Seq(Frames) /\ Len(v) = z + 1 /\ v[z + 1] = f /\ v # << >>
      /\ \A i \in 1..z : v[i] = w[i]
      /\ w # << >> => 1 \in 1..z
  BY <1>1, <1>2, AppendFrame
<1>4a. PICK p \in Contents : \E cut \in [0..z -> 0..Len(p)] : Streams(x, r, p, cut)
  BY <1>1, <1>2 DEF Uploads
<1>4. PICK cut \in [0..z -> 0..Len(p)] : Streams(x, r, p, cut)
  BY <1>4a
<1>5. PICK n \in Nat : n = Len(f.data) /\ Body(f) = f.data
  <2>1. f.data \in Contents /\ Body(f) = f.data
    BY FrameFields DEF GoodFrame, Body
  <2> QED BY <2>1, ContentsAreSeqs
<1>6. /\ Len(p) \in Nat /\ x.pos \in Nat
  BY ContentsAreSeqs, SizeAssumption, PutAssumption DEF ClientType
<1>7. x.source = p /\ cut[z] = x.pos
  BY <1>1, <1>2, <1>4 DEF Streams
<1>8. PICK cot : cot = [i \in 0..(z + 1) |-> IF i <= z THEN cut[i] ELSE x.pos + n]
  OBVIOUS
<1>9. /\ cot \in [0..(z + 1) -> 0..Len(p)] /\ cot[z + 1] = x.pos + n
      /\ \A i \in 0..z : cot[i] = cut[i]
  <2>1. x.pos + n \in 0..Len(p)
    BY <1>5, <1>6, <1>7
  <2>2. \A i \in 0..z : cut[i] \in 0..Len(p)
    OBVIOUS
  <2>3. \A i \in 0..(z + 1) : (IF i <= z THEN cut[i] ELSE x.pos + n) \in 0..Len(p)
    BY <2>1, <2>2
  <2> QED BY <1>8, <2>3
<1>10. \A i \in 1..(z + 1) :
         /\ cot[i] = cot[i - 1] + Len(Body(v[i]))
         /\ (r.pc = "first" /\ i = 1) \/ GoodFrame(v[i])
         /\ \A j \in 1..Len(Body(v[i])) : Body(v[i])[j] = p[cot[i - 1] + j]
  <2> SUFFICES ASSUME NEW i \in 1..(z + 1)
               PROVE  /\ cot[i] = cot[i - 1] + Len(Body(v[i]))
                      /\ (r.pc = "first" /\ i = 1) \/ GoodFrame(v[i])
                      /\ \A j \in 1..Len(Body(v[i])) : Body(v[i])[j] = p[cot[i - 1] + j]
    OBVIOUS
  <2>1. CASE i \in 1..z
    <3>1. v[i] = w[i] /\ cot[i] = cut[i] /\ cot[i - 1] = cut[i - 1]
      <4>1. i \in 0..z /\ i - 1 \in 0..z
        BY <2>1
      <4> QED BY <1>3, <1>9, <2>1, <4>1
    <3>2. /\ cut[i] = cut[i - 1] + Len(Body(w[i]))
          /\ (r.pc = "first" /\ i = 1) \/ GoodFrame(w[i])
          /\ \A j \in 1..Len(Body(w[i])) : Body(w[i])[j] = p[cut[i - 1] + j]
      BY <1>1, <1>2, <1>4, <2>1 DEF Streams
    <3> QED BY <3>1, <3>2
  <2>2. CASE i = z + 1
    <3>1. i - 1 = z /\ z \in 0..z
      BY <2>2
    <3>2. cot[i - 1] = x.pos /\ v[i] = f /\ cot[i] = x.pos + n
      BY <1>3, <1>7, <1>9, <2>2, <3>1
    <3> QED BY <1>5, <1>7, <3>2
  <2> QED BY <2>1, <2>2
<1>11. cot[0] = cut[0]
  BY <1>9
<1>12. r.pc = "first" => v[1] = w[1]
  BY <1>1, <1>3
<1>13. Streams(y, q, p, cot)
  <2>1. /\ q.pc = "first" => /\ q.wire # << >> /\ "metadata" \in DOMAIN q.wire[1]
                             /\ q.wire[1].metadata.size = Len(p)
                             /\ q.wire[1].metadata.sum = Blake3(p)
        /\ q.pc \in {"read", "commit"} => q.req.size = Len(p) /\ q.req.sum = Blake3(p)
    BY <1>1, <1>3, <1>4, <1>12 DEF Streams
  <2>2. /\ cot[0] = Len(q.got) + Len(q.rest)
        /\ \A j \in 1..Len(q.got) : q.got[j] = p[j]
        /\ \A j \in 1..Len(q.rest) : q.rest[j] = p[Len(q.got) + j]
        /\ q.pc = "commit" => Len(q.got) = Len(p)
    BY <1>4, <1>11 DEF Streams
  <2>3. cot[Len(q.wire)] = y.pos /\ y.source = p
    BY <1>1, <1>3, <1>5, <1>7, <1>9
  <2>4. \A i \in 1..Len(q.wire) :
         /\ cot[i] = cot[i - 1] + Len(Body(q.wire[i]))
         /\ (q.pc = "first" /\ i = 1) \/ GoodFrame(q.wire[i])
         /\ \A j \in 1..Len(Body(q.wire[i])) : Body(q.wire[i])[j] = p[cot[i - 1] + j]
    <3>1. q.wire = v /\ Len(v) = z + 1 /\ q.pc = r.pc
      BY <1>1, <1>3
    <3> QED BY <1>10, <3>1
  <2>5. y.pc = "send" /\ y.pc # "finish"
    OBVIOUS
  <2> QED BY <2>1, <2>2, <2>3, <2>4, <2>5 DEF Streams
<1> QED BY <1>1, <1>3, <1>9, <1>13 DEF Uploads

(* A call whose request is on its way, with one more frame. *)
LEMMA WireGrows ==
    ASSUME NEW r \in CallType, CallOK(r), NEW f \in Frames, Len(r.wire) < MaxWire,
           NEW q \in CallType, q.wire = Append(r.wire, f), q.got = r.got, q.rest = r.rest,
           q.req = r.req, q.pc = r.pc, q.answer = r.answer, q.broken = r.broken,
           IF r.wire = << >> /\ r.pc = "first"
           THEN "metadata" \in DOMAIN f => q.asked = Asks("put", f.metadata)
           ELSE q.asked = r.asked
    PROVE  CallOK(q) /\ q.wire # << >>
<1>1. PICK w, v : w \in Seq(Frames) /\ w = r.wire /\ v = Append(w, f) /\ q.wire = v
  BY DEF CallType
<1>2. /\ v \in Seq(Frames) /\ Len(w) \in Nat /\ Len(v) = Len(w) + 1 /\ v[Len(w) + 1] = f
      /\ v # << >>
      /\ \A i \in 1..Len(w) : v[i] = w[i]
      /\ w # << >> => 1 \in 1..Len(w)
  BY <1>1, AppendFrame
<1>3. Len(q.wire) <= MaxWire /\ q.wire # << >>
  BY <1>1, <1>2, PutAssumption
<1>4. AsksFor(q)
  <2>1. CASE w # << >>
    <3>1. v[1] = w[1]
      BY <1>2, <2>1
    <3> QED BY <1>1, <1>2, <2>1, <3>1 DEF CallOK, AsksFor
  <2>2. CASE w = << >>
    <3>1. v[1] = f
      BY <1>2, <2>2
    <3> QED BY <1>1, <1>2, <2>2, <3>1 DEF CallOK, AsksFor
  <2> QED BY <2>1, <2>2
<1> QED BY <1>3, <1>4 DEF CallOK

(* A piece of the source is sent. *)
LEMMA SendStep ==
    ASSUME IInv, NEW c \in Clients, NEW n \in 1..MaxSize, PutSend(c, n)
    PROVE  IInv'
<1>0. cl[c] \in ClientType /\ ClientOK(cl[c])
  BY DEF IInv, Types
<1>1. /\ cl[c].pc = "send" /\ ~Over(cl[c].chan) /\ UNCHANGED <<store, worker>>
      /\ n <= Len(cl[c].source) - cl[c].pos /\ Len(call[cl[c].chan].wire) < MaxWire
  BY DEF PutSend, Chan
<1>2. PICK k \in Calls, r \in CallType :
        /\ k = cl[c].chan /\ r = call[k] /\ CallOK(r) /\ Over(k) = IsOver(r)
        /\ Attends(cl[c], r)
  BY <1>1, LiveCall DEF Live
<1>3. /\ r.answer = NoReply /\ r.broken = NoBreak /\ ~r.closed
      /\ r.asked # NoAsk /\ (r.pc = "first" => r.wire # << >>) /\ r.pc # "none"
  BY <1>1, <1>2 DEF Attends, IsOver
<1>4. PICK s \in Contents, o \in Nat : s = cl[c].source /\ o = cl[c].pos
  BY <1>0, SizeAssumption, PutAssumption DEF ClientType
<1>5. n \in Nat /\ n # 0 /\ Len(s) \in Nat /\ Len(s) <= MaxSize /\ o + n <= Len(s)
  BY <1>1, <1>4, ContentsAreSeqs, SizeAssumption
<1>6. PICK e \in Contents : /\ e = SubSeq(s, o + 1, o + n) /\ Len(e) = n
                            /\ \A j \in 1..n : e[j] = s[o + j]
  BY <1>5, SliceContents
<1>7. PICK f \in Frames : f = [data |-> e] /\ f.data = e /\ "data" \in DOMAIN f
  <2>1. [data |-> e] \in [data : Contents]
    OBVIOUS
  <2>2. [data |-> e] \in Frames
    BY <2>1 DEF Frames
  <2>3. PICK f \in Frames : f = [data |-> e]
    BY <2>2
  <2> QED BY <2>3
<1>8. GoodFrame(f)
  BY <1>5, <1>6, <1>7, EmptyContents DEF GoodFrame
<1>9. PICK v \in Seq(Frames) : v = Append(r.wire, f)
  BY AppendFrame DEF CallType
<1>10. PICK q : q = [r EXCEPT !.wire = v]
  OBVIOUS
<1>11. /\ q \in CallType /\ q.wire = Append(r.wire, f) /\ q.got = r.got /\ q.rest = r.rest
       /\ q.req = r.req /\ q.pc = r.pc /\ q.answer = r.answer /\ q.asked = r.asked
       /\ q.broken = r.broken /\ q.closed = r.closed
  BY <1>9, <1>10 DEF CallType
<1>12. call' = [call EXCEPT ![k] = q]
  BY <1>2, <1>4, <1>6, <1>7, <1>9, <1>10 DEF PutSend
<1>13. PICK x : x = [cl[c] EXCEPT !.pos = o + n]
  OBVIOUS
<1>14. /\ x \in ClientType /\ x.pc = "send" /\ x.chan = k /\ x.pos = o + n
       /\ x.edited = cl[c].edited /\ x.source = s /\ x.op = cl[c].op
  <2>1. o + n \in 0..(MaxSize + MaxRaw)
    BY <1>5, SizeAssumption, PutAssumption
  <2> QED BY <1>0, <1>1, <1>2, <1>4, <1>13, <2>1 DEF ClientType
<1>15. cl' = [cl EXCEPT ![c] = x]
  BY <1>4, <1>13 DEF PutSend
<1>16. ClientOK(x)
  BY <1>14 DEF ClientOK
<1>17. CallOK(q) /\ q.wire # << >>
  BY <1>1, <1>2, <1>3, <1>11, WireGrows
<1>18. ASSUME ~x.edited, x.op = "put", q.pc \in {"first", "read", "commit"}
       PROVE  Uploads(x, q)
  <2>1. Uploads(cl[c], r)
    BY <1>1, <1>2, <1>3, <1>11, <1>14, <1>18 DEF Attends
  <2>2. /\ cl[c].pc = "send" /\ x.source = cl[c].source /\ x.pos = cl[c].pos + Len(f.data)
        /\ cl[c].pos + Len(f.data) <= Len(cl[c].source)
    BY <1>1, <1>4, <1>5, <1>6, <1>7, <1>14
  <2>3. \A j \in 1..Len(f.data) : f.data[j] = cl[c].source[cl[c].pos + j]
    BY <1>4, <1>6, <1>7
  <2>4. PICK y \in ClientType : y = cl[c]
    BY <1>0
  <2> QED BY <1>3, <1>8, <1>11, <1>14, <2>1, <2>2, <2>3, <2>4, StreamGrows
<1>19. Attends(x, q)
  BY <1>3, <1>11, <1>14, <1>17, <1>18 DEF Attends
<1> QED BY <1>1, <1>2, <1>11, <1>12, <1>14, <1>15, <1>16, <1>17, <1>19, BothMove

(* Another user sends a frame. *)
LEMMA RawSendStep ==
    ASSUME IInv, NEW c \in Clients, NEW f \in RawFrames, RawSend(c, f)
    PROVE  IInv'
<1>0. cl[c] \in ClientType /\ ClientOK(cl[c])
  BY DEF IInv, Types
<1>1. /\ cl[c].pc = "raw" /\ ~Over(cl[c].chan) /\ UNCHANGED <<store, worker>>
      /\ cl[c].pos < MaxRaw /\ Len(call[cl[c].chan].wire) < MaxWire
  BY DEF RawSend, Chan
<1>2. PICK k \in Calls, r \in CallType :
        /\ k = cl[c].chan /\ r = call[k] /\ CallOK(r) /\ Over(k) = IsOver(r)
        /\ Attends(cl[c], r)
  BY <1>1, LiveCall DEF Live
<1>3. f \in Frames
  BY PutAssumption
<1>4. /\ r.answer = NoReply /\ r.broken = NoBreak /\ ~r.closed /\ r.pc # "none"
      /\ IF cl[c].pos = 0 THEN r.pc = "first" /\ r.wire = << >>
         ELSE r.pc = "first" => r.wire # << >>
  BY <1>1, <1>2 DEF Attends, IsOver, Quiet
<1>5. PICK o \in Nat : o = cl[c].pos
  BY <1>0, SizeAssumption, PutAssumption DEF ClientType
<1>6. PICK a : a = IF cl[c].pos = 0 /\ "metadata" \in DOMAIN f
                   THEN Asks("put", f.metadata) ELSE r.asked
  OBVIOUS
<1>7. a \in Object!Operation \cup {NoAsk}
  <2>1. "metadata" \in DOMAIN f => Asks("put", f.metadata) \in Object!Operation
    BY <1>3, FrameFields, AsksOperation
  <2> QED BY <1>6, <2>1 DEF CallType
<1>9. PICK v \in Seq(Frames) : v = Append(r.wire, f)
  BY <1>3, AppendFrame DEF CallType
<1>10. PICK q : q = [r EXCEPT !.wire = v, !.asked = a]
  OBVIOUS
<1>11. /\ q \in CallType /\ q.wire = Append(r.wire, f) /\ q.got = r.got /\ q.rest = r.rest
       /\ q.req = r.req /\ q.pc = r.pc /\ q.answer = r.answer /\ q.asked = a
       /\ q.broken = r.broken /\ q.closed = r.closed
  BY <1>7, <1>9, <1>10 DEF CallType
<1>12. call' = [call EXCEPT ![k] = q]
  BY <1>2, <1>6, <1>9, <1>10 DEF RawSend
<1>13. PICK x : x = [cl[c] EXCEPT !.pos = o + 1]
  OBVIOUS
<1>14. /\ x \in ClientType /\ x.pc = "raw" /\ x.chan = k /\ x.pos = o + 1 /\ x.pos # 0
       /\ x.op = "raw"
  <2>1. o + 1 \in 0..(MaxSize + MaxRaw) /\ o + 1 # 0
    BY <1>1, <1>5, SizeAssumption, PutAssumption
  <2>2. cl[c].op = "raw"
    BY <1>0, <1>1 DEF ClientOK
  <2> QED BY <1>0, <1>1, <1>2, <1>13, <2>1, <2>2 DEF ClientType
<1>15. cl' = [cl EXCEPT ![c] = x]
  BY <1>5, <1>13 DEF RawSend
<1>16. ClientOK(x)
  BY <1>14 DEF ClientOK
<1>17. CallOK(q) /\ q.wire # << >>
  BY <1>1, <1>2, <1>3, <1>4, <1>6, <1>11, WireGrows
<1>19. Attends(x, q)
  BY <1>4, <1>11, <1>14, <1>17 DEF Attends
<1> QED BY <1>1, <1>2, <1>11, <1>12, <1>14, <1>15, <1>16, <1>17, <1>19, BothMove

(* WritesDone. *)
LEMMA EndsSteps ==
    ASSUME IInv, NEW c \in Clients, PutSendEnds(c) \/ RawEnds(c)
    PROVE  IInv'
<1>0. cl[c] \in ClientType /\ ClientOK(cl[c])
  BY DEF IInv, Types
<1>1. cl[c].pc \in {"metadata", "send", "raw"} /\ UNCHANGED <<store, worker>>
  BY DEF PutSendEnds, RawEnds
<1>2. PICK k \in Calls, r \in CallType :
        /\ k = cl[c].chan /\ r = call[k] /\ CallOK(r) /\ Over(k) = IsOver(r)
        /\ Attends(cl[c], r)
  BY <1>1, LiveCall DEF Live
<1>3. PICK q : q = [r EXCEPT !.closed = TRUE]
  OBVIOUS
<1>4. /\ q \in CallType /\ q.wire = r.wire /\ q.got = r.got /\ q.rest = r.rest
      /\ q.req = r.req /\ q.pc = r.pc /\ q.answer = r.answer /\ q.asked = r.asked
      /\ q.broken = r.broken
  BY <1>3 DEF CallType
<1>5. call' = [call EXCEPT ![k] = q]
  BY <1>2, <1>3 DEF PutSendEnds, RawEnds
<1>6. CallOK(q)
  BY <1>2, <1>4 DEF CallOK, AsksFor
<1>7. (r.pc = "none" => IsOver(r)) /\ (q.pc = "none" => IsOver(q))
  BY <1>2, <1>4 DEF Attends, IsOver
<1>8. CASE RawEnds(c)
  <2>1. PICK x : x = [cl[c] EXCEPT !.pc = "finish"]
    OBVIOUS
  <2>2. cl[c].pc = "raw" /\ cl' = [cl EXCEPT ![c] = x]
    BY <1>8, <2>1 DEF RawEnds
  <2>3. cl[c].op = "raw"
    BY <1>0, <2>2 DEF ClientOK
  <2>4. x \in ClientType /\ x.pc = "finish" /\ x.op = "raw" /\ x.chan = k
    BY <1>0, <1>2, <2>1, <2>3 DEF ClientType
  <2>5. ClientOK(x)
    BY <2>4 DEF ClientOK
  <2>6. Attends(x, q)
    BY <1>7, <2>4 DEF Attends
  <2> QED BY <1>1, <1>2, <1>4, <1>5, <1>6, <2>2, <2>4, <2>5, <2>6, BothMove
<1>9. CASE PutSendEnds(c)
  <2>1. PICK x : x = [cl[c] EXCEPT !.pc = "finish", !.source = << >>, !.pos = 0]
    OBVIOUS
  <2>2. /\ cl' = [cl EXCEPT ![c] = x] /\ cl[c].pc \in {"metadata", "send"}
        /\ IsOver(r) \/ (cl[c].pc = "send" /\ cl[c].pos >= Len(cl[c].source))
    BY <1>2, <1>9, <2>1 DEF PutSendEnds
  <2>3. 0 \in 0..(MaxSize + MaxRaw)
    BY SizeAssumption, PutAssumption
  <2>4. /\ x \in ClientType /\ x.pc = "finish" /\ x.op = cl[c].op /\ x.chan = k
        /\ x.edited = cl[c].edited
    BY <1>0, <1>2, <2>1, <2>3, EmptyContents DEF ClientType
  <2>5. ClientOK(x)
    BY <2>4 DEF ClientOK
  <2>6. ASSUME ~x.edited, x.op = "put", q.broken = NoBreak, q.pc \in {"first", "read", "commit"}
        PROVE  Uploads(x, q)
    <3>1. r.answer = NoReply
      BY <1>2, <1>4, <2>6 DEF CallOK
    <3>2. cl[c].pc = "send" /\ cl[c].pos >= Len(cl[c].source)
      BY <1>4, <2>2, <2>6, <3>1 DEF IsOver
    <3>3. Uploads(cl[c], r)
      BY <1>2, <1>4, <2>4, <2>6, <3>2 DEF Attends
    <3>4. PICK p \in Contents : \E cut \in [0..Len(r.wire) -> 0..Len(p)] : Streams(cl[c], r, p, cut)
      BY <3>3 DEF Uploads
    <3>5. PICK cut \in [0..Len(r.wire) -> 0..Len(p)] : Streams(cl[c], r, p, cut)
      BY <3>4
    <3>6. cl[c].source = p /\ cut[Len(r.wire)] = cl[c].pos
      BY <3>2, <3>5 DEF Streams
    <3>7. Len(r.wire) \in Nat /\ Len(p) \in Nat
      BY ContentsAreSeqs DEF CallType
    <3>8. cut[Len(r.wire)] \in 0..Len(p)
      BY <3>7
    <3>9. cut[Len(q.wire)] = Len(p)
      BY <1>4, <3>2, <3>6, <3>7, <3>8
    <3>10. Streams(x, q, p, cut)
      BY <1>4, <2>4, <3>5, <3>9 DEF Streams
    <3> QED BY <1>4, <3>10 DEF Uploads
  <2>7. ASSUME ~x.edited, x.op = "put", q.broken = NoBreak, q.answer # NoReply
        PROVE  q.answer.code # "Corruption"
    BY <1>2, <1>4, <2>2, <2>4, <2>7 DEF Attends
  <2>8. Attends(x, q)
    BY <1>7, <2>4, <2>6, <2>7 DEF Attends
  <2> QED BY <1>1, <1>2, <1>4, <1>5, <1>6, <2>2, <2>4, <2>5, <2>8, BothMove
<1> QED BY <1>8, <1>9

(* Every step of a client. *)
LEMMA ClientSteps ==
    ASSUME IInv, NEW c \in Clients, Client(c)
    PROVE  IInv'
<1>1. CASE ClientProgress(c)
  <2>1. CASE \E k \in Calls : PutOpen(c, k)
    BY <2>1, OpenSteps
  <2>2. CASE PutOpenFails(c)
    BY <2>2, EarlySteps
  <2>3. CASE PutMetadata(c)
    BY <2>3, MetadataStep
  <2>4. CASE \E n \in 1..MaxSize : PutSend(c, n)
    BY <2>4, SendStep
  <2>5. CASE PutSendEnds(c)
    BY <2>5, EndsSteps
  <2>6. CASE Finish(c)
    BY <2>6, FinishStep
  <2>7. CASE ClientDone(c)
    BY <2>7, LeaveStep DEF ClientDone
  <2> QED BY <1>1, <2>1, <2>2, <2>3, <2>4, <2>5, <2>6, <2>7 DEF ClientProgress
<1>2. CASE PutSourceFails(c)
  BY <1>2, SourceFailsStep
<1>3. CASE ClientKilled(c)
  BY <1>3, LeaveStep DEF ClientKilled
<1>4. CASE \E id \in ChunkIds : Refused(c, id)
  BY <1>4, EarlySteps
<1>5. CASE \E id \in ChunkIds : \E d \in Sources : PutHash(c, id, d)
  BY <1>5, SourceSteps
<1>6. CASE \E id \in ChunkIds : \E k \in Calls : DeleteStart(c, k, id)
  BY <1>6, OpenSteps
<1>7. CASE \E k \in Calls : RawStart(c, k)
  BY <1>7, OpenSteps
<1>8. CASE \E f \in RawFrames : RawSend(c, f)
  BY <1>8, RawSendStep
<1>9. CASE RawEnds(c)
  BY <1>9, EndsSteps
<1>10. CASE \E d \in Sources : EditSource(c, d)
  BY <1>10, SourceSteps
<1>11. CASE \E code \in Breaks : Break(c, code)
  BY <1>11, BreakStep
<1> QED BY <1>1, <1>2, <1>3, <1>4, <1>5, <1>6, <1>7, <1>8, <1>9, <1>10, <1>11 DEF Client

-----------------------------------------------------------------------------
(***************************************************************************)
(* The steps of the handlers.                                              *)
(***************************************************************************)

(* The clients that wait for a call see an undisturbed upload. *)
Undisturbed(c, k) == /\ cl[c].chan = k /\ cl[c].pc \in {"metadata", "send", "finish"}
                     /\ cl[c].op = "put" /\ ~cl[c].edited /\ call[k].broken = NoBreak

(* What is left of a call whose handler has ended. *)
EndsAs(q, r, b, a) ==
    /\ q = [Fresh EXCEPT !.closed = r.closed, !.broken = b, !.answer = a,
                         !.asked = r.asked]
    /\ q.closed = r.closed /\ q.broken = b /\ q.answer = a /\ q.asked = r.asked
    /\ q.wire = << >> /\ q.pc = "none"
    /\ CallOK(q)
    /\ \A x \in ClientType :
         /\ Attends(x, r)
         /\ a # NoReply /\ a.code = "Corruption" /\ ~x.edited /\ x.op = "put" =>
              x.pc \notin {"metadata", "send", "finish"}
         => Attends(x, q)

LEMMA EndedRecord ==
    ASSUME NEW r \in CallType, CallOK(r), NEW b \in BreakCodes \cup {NoBreak},
           NEW a \in Answer \cup {NoReply}, a # NoReply => AnswerFits(a) /\ b = NoBreak,
           b # NoBreak \/ a # NoReply
    PROVE  \E q \in CallType : EndsAs(q, r, b, a)
<1>0. PICK q : q = [Fresh EXCEPT !.closed = r.closed, !.broken = b, !.answer = a,
                                 !.asked = r.asked]
  OBVIOUS
<1>1. r.closed \in BOOLEAN /\ r.asked \in Object!Operation \cup {NoAsk}
  BY DEF CallType
<1>2. Fresh \in CallType
  BY RestTypes
<1>3. /\ q \in CallType /\ q.closed = r.closed /\ q.broken = b /\ q.answer = a
      /\ q.asked = r.asked
  BY <1>0, <1>1, <1>2 DEF CallType
<1>4. /\ q.wire = << >> /\ q.pc = "none" /\ q.req = NoWant
      /\ q.rest = << >> /\ q.got = << >> /\ NoWant.size = 0 /\ Len(<< >>) = 0
  BY <1>0 DEF Fresh, NoWant
<1>5. CallOK(q)
  BY <1>3, <1>4, PutAssumption DEF CallOK, AsksFor
<1>6. IsOver(q)
  BY <1>3 DEF IsOver
<1>7. ASSUME NEW x \in ClientType, Attends(x, r),
             a # NoReply /\ a.code = "Corruption" /\ ~x.edited /\ x.op = "put" =>
               x.pc \notin {"metadata", "send", "finish"}
      PROVE  Attends(x, q)
  <2>1. Quiet(r) => Quiet(q)
    BY <1>3, <1>4 DEF Quiet
  <2>2. ~x.edited /\ x.pc \in {"metadata", "send", "finish"} /\ x.op = "put" /\ q.broken = NoBreak =>
          (q.answer # NoReply => q.answer.code # "Corruption")
    BY <1>3, <1>7
  <2> QED BY <1>3, <1>4, <1>6, <1>7, <2>1, <2>2 DEF Attends
<1> QED BY <1>0, <1>3, <1>4, <1>5, <1>7 DEF EndsAs

(* A handler answers: its call is forgotten if nobody waits for it, has no *)
(* answer if it is broken, and has the answer otherwise.                   *)
LEMMA AnswerRecord ==
    ASSUME IInv, NEW k \in Calls, call[k].pc # "none",
           NEW grpc \in GrpcCodes, NEW code \in Object!Definite \cup Object!Indefinite,
           grpc = "OK" \/ FromGrpcStatus(grpc) = code, Answers(k, grpc, code)
    PROVE  \E q \in CallType :
             /\ call' = [call EXCEPT ![k] = q] /\ CallOK(q) /\ q.pc = "none"
             /\ (code = "Corruption" => \A c \in Clients : ~Undisturbed(c, k)) =>
                  \A c \in Clients : cl[c].chan = k /\ cl[c].pc \in Live => Attends(cl[c], q)
             /\ IF ~Attended(k) THEN q = Fresh
                ELSE /\ q.asked = call[k].asked
                     /\ IF call[k].broken # NoBreak THEN q.answer = NoReply
                        ELSE q.answer # NoReply /\ q.answer.code = code
<1>0. PICK r \in CallType : r = call[k] /\ CallOK(r)
  BY DEF IInv, Types
<1>1. r.answer = NoReply
  BY <1>0 DEF CallOK
<1>2. \A c \in Clients : cl[c].chan = k /\ cl[c].pc \in Live => cl[c] \in ClientType /\ Attends(cl[c], r)
  BY <1>0 DEF IInv, Types
<1>3. CASE ~Attended(k)
  <2>1. call' = [call EXCEPT ![k] = Fresh]
    BY <1>3 DEF Answers, Ended
  <2>2. \A c \in Clients : cl[c].chan # k
    BY <1>3 DEF Attended
  <2>3. Fresh.pc = "none"
    BY DEF Fresh
  <2> QED BY <1>3, <2>1, <2>2, <2>3, RestTypes
<1>4. CASE Attended(k) /\ r.broken # NoBreak
  <2>1. PICK b \in BreakCodes \cup {NoBreak}, a \in Answer \cup {NoReply} :
          b = r.broken /\ a = NoReply
    BY DEF CallType
  <2>1a. \E q \in CallType : EndsAs(q, r, b, a)
    BY <1>0, <1>4, <2>1, EndedRecord
  <2>2. PICK q \in CallType :
             /\ q = [Fresh EXCEPT !.closed = r.closed, !.broken = r.broken, !.answer = NoReply,
                                  !.asked = r.asked]
             /\ q.answer = NoReply /\ q.asked = r.asked /\ q.pc = "none" /\ CallOK(q)
             /\ \A x \in ClientType : Attends(x, r) => Attends(x, q)
    BY <2>1, <2>1a DEF EndsAs
  <2>3. call' = [call EXCEPT ![k] = q]
    BY <1>0, <1>1, <1>4, <2>2 DEF Answers, Ended
  <2>4. \A c \in Clients : cl[c].chan = k /\ cl[c].pc \in Live => Attends(cl[c], q)
    BY <1>2, <2>2
  <2> QED BY <1>0, <1>4, <2>2, <2>3, <2>4
<1>5. CASE Attended(k) /\ r.broken = NoBreak
  <2>1. code \in StatusCode
    BY DEF Object!Definite, Object!Indefinite, StatusCode
  <2>2. PICK a : a = [grpc |-> grpc, code |-> code, rpc |-> ToRpcStatusCode[code]]
    OBVIOUS
  <2>3. a \in Answer /\ a.code = code /\ a.grpc = grpc /\ a.rpc = ToRpcStatusCode[code]
    BY <2>1, <2>2 DEF Answer
  <2>4. a # NoReply /\ AnswerFits(a)
    BY <2>3, PutAssumption DEF AnswerFits
  <2>5. PICK b \in BreakCodes \cup {NoBreak} : b = r.broken
    BY DEF CallType
  <2>5a. \E q \in CallType : EndsAs(q, r, b, a)
    BY <1>0, <1>5, <2>3, <2>4, <2>5, EndedRecord
  <2>6. PICK q \in CallType :
             /\ q = [Fresh EXCEPT !.closed = r.closed, !.broken = r.broken, !.answer = a,
                                  !.asked = r.asked]
             /\ q.answer = a /\ q.asked = r.asked /\ q.pc = "none" /\ CallOK(q)
             /\ \A x \in ClientType :
                  /\ Attends(x, r)
                  /\ a # NoReply /\ a.code = "Corruption" /\ ~x.edited /\ x.op = "put" =>
                       x.pc \notin {"metadata", "send", "finish"}
                  => Attends(x, q)
    BY <2>5, <2>5a DEF EndsAs
  <2>7. call' = [call EXCEPT ![k] = q]
    <3>1. PICK e : e = [Fresh EXCEPT !.closed = r.closed, !.broken = r.broken,
                                     !.answer = r.answer, !.asked = r.asked]
      OBVIOUS
    <3>2. call' = [call EXCEPT ![k] = [e EXCEPT !.answer = a]]
      BY <1>0, <1>5, <2>2, <3>1 DEF Answers, Ended
    <3>3. [e EXCEPT !.answer = a] = q
      BY <2>6, <3>1 DEF Fresh
    <3> QED BY <3>2, <3>3
  <2>8. ASSUME code = "Corruption" => \A c \in Clients : ~Undisturbed(c, k),
               NEW c \in Clients, cl[c].chan = k, cl[c].pc \in Live
        PROVE  Attends(cl[c], q)
    <3>1. cl[c] \in ClientType /\ Attends(cl[c], r)
      BY <1>2, <2>8
    <3>2. a.code = "Corruption" /\ ~cl[c].edited /\ cl[c].op = "put" =>
            cl[c].pc \notin {"metadata", "send", "finish"}
      BY <1>0, <1>5, <2>3, <2>8 DEF Undisturbed
    <3> QED BY <2>6, <3>1, <3>2
  <2> QED BY <1>0, <1>5, <2>3, <2>4, <2>6, <2>7, <2>8
<1> QED BY <1>0, <1>3, <1>4, <1>5

LEMMA AnswerStep ==
    ASSUME IInv, NEW k \in Calls, call[k].pc # "none",
           NEW grpc \in GrpcCodes, NEW code \in Object!Definite \cup Object!Indefinite,
           grpc = "OK" \/ FromGrpcStatus(grpc) = code,
           code = "Corruption" => \A c \in Clients : ~Undisturbed(c, k),
           Answers(k, grpc, code), cl' = cl, StoreTypes'
    PROVE  IInv'
BY AnswerRecord, CallMoves

LEMMA RefusesStep ==
    ASSUME IInv, NEW k \in Calls, call[k].pc # "none",
           NEW grpc \in GrpcCodes, NEW code \in Object!Definite \cup Object!Indefinite,
           grpc = "OK" \/ FromGrpcStatus(grpc) = code,
           code = "Corruption" => \A c \in Clients : ~Undisturbed(c, k),
           Refuses(k, grpc, code)
    PROVE  IInv'
<1>1. Answers(k, grpc, code) /\ UNCHANGED <<store, worker, cl>>
  BY DEF Refuses
<1>2. StoreTypes'
  BY <1>1 DEF IInv, StoreTypes, Store!TypeOK, store, worker
<1> QED BY <1>1, <1>2, AnswerStep

(* The statuses of the answers. *)
LEMMA AnswerCodes ==
    /\ "OK" \in GrpcCodes
    /\ "FAILED_PRECONDITION" \in GrpcCodes /\ FromGrpcStatus("FAILED_PRECONDITION") = "Unavailable"
    /\ "INVALID_ARGUMENT" \in GrpcCodes /\ FromGrpcStatus("INVALID_ARGUMENT") = "InvalidArgument"
BY DEF GrpcCodes, FromGrpcStatus, FromGrpcTable

(* The answers other than Corruption and the Ok of a Put. *)
LEMMA PlainAnswers ==
    ASSUME IInv, NEW k \in Calls,
           \/ Unconfigured(k) \/ HandlerRefuses(k) \/ HandlerFails(k)
           \/ HandlerUnlinked(k) \/ HandlerDeleteFails(k)
    PROVE  IInv'
<1>2. PICK grpc \in {"OK", "FAILED_PRECONDITION", "INVALID_ARGUMENT"},
           code \in {"Ok", "InvalidArgument", "IoError", "Unavailable", "NotFound"} :
        /\ Refuses(k, grpc, code) /\ call[k].pc # "none"
        /\ grpc = "OK" \/ (grpc = "FAILED_PRECONDITION" /\ code = "Unavailable")
                       \/ (grpc = "INVALID_ARGUMENT" /\ code = "InvalidArgument")
  <2>1. CASE Unconfigured(k)
    BY <2>1 DEF Unconfigured
  <2>2. CASE HandlerRefuses(k)
    <3>1. call[k].pc # "none"
      BY <2>2 DEF HandlerRefuses
    <3>2. CASE Refuses(k, "INVALID_ARGUMENT", "InvalidArgument")
      BY <3>1, <3>2
    <3>3. CASE CheckPut(NextFrame(k).metadata) # "Ok" /\ Refuses(k, "OK", CheckPut(NextFrame(k).metadata))
      <4>1. CheckPut(NextFrame(k).metadata) = "InvalidArgument"
        BY <3>3 DEF CheckPut, ValidateChecksum
      <4> QED BY <3>1, <3>3, <4>1
    <3> QED BY <2>2, <3>2, <3>3 DEF HandlerRefuses
  <2>3. CASE HandlerFails(k)
    BY <2>3 DEF HandlerFails
  <2>4. CASE HandlerUnlinked(k)
    BY <2>4 DEF HandlerUnlinked
  <2>5. CASE HandlerDeleteFails(k)
    BY <2>5 DEF HandlerDeleteFails
  <2> QED BY <2>1, <2>2, <2>3, <2>4, <2>5
<1>3. code \in Object!Definite \cup Object!Indefinite /\ code # "Corruption"
  BY DEF Object!Definite, Object!Indefinite
<1>4. grpc \in GrpcCodes /\ (grpc = "OK" \/ FromGrpcStatus(grpc) = code)
  BY <1>2, AnswerCodes
<1> QED BY <1>2, <1>3, <1>4, RefusesStep

(* A sequence of frames without its first. *)
LEMMA TailFrames ==
    ASSUME NEW w \in Seq(Frames), w # << >>
    PROVE  /\ Tail(w) \in Seq(Frames) /\ Len(w) \in Nat /\ Len(Tail(w)) \in Nat
           /\ Len(Tail(w)) + 1 = Len(w)
           /\ \A i \in 1..Len(Tail(w)) : Tail(w)[i] = w[i + 1]
           /\ Head(w) = w[1] /\ w[1] \in Frames
OBVIOUS

(* The stream of an undisturbed upload, from the point of view of a        *)
(* handler that is about to read: e is the frame it reads from and v the   *)
(* frames behind it.                                                       *)
Ahead(x, r, e, v, p, cut) ==
    /\ cut[0] = Len(r.got) + Len(e)
    /\ \A i \in 1..Len(v) :
         /\ cut[i] = cut[i - 1] + Len(Body(v[i])) /\ GoodFrame(v[i])
         /\ \A j \in 1..Len(Body(v[i])) : Body(v[i])[j] = p[cut[i - 1] + j]
    /\ \A j \in 1..Len(r.got) : r.got[j] = p[j]
    /\ \A j \in 1..Len(e) : e[j] = p[Len(r.got) + j]
    /\ x.pc = "send" => x.source = p /\ cut[Len(v)] = x.pos
    /\ x.pc = "finish" => cut[Len(v)] = Len(p)

(* It reads from the next frame. *)
LEMMA AheadNext ==
    ASSUME NEW x \in ClientType, NEW r \in CallType, NEW p \in Contents,
           NEW cut \in [0..Len(r.wire) -> 0..Len(p)], Streams(x, r, p, cut),
           r.wire # << >>, r.rest = << >>
    PROVE  \E cot \in [0..Len(Tail(r.wire)) -> 0..Len(p)] :
             Ahead(x, r, Body(r.wire[1]), Tail(r.wire), p, cot)
<1>1. PICK w, v : w \in Seq(Frames) /\ w = r.wire /\ v = Tail(r.wire)
  BY DEF CallType
<1>2. PICK z \in Nat : z = Len(v)
  BY <1>1, TailFrames
<1>3. /\ Len(w) = z + 1 /\ \A i \in 1..z : v[i] = w[i + 1]
  BY <1>1, <1>2, TailFrames
<1>4. cut \in [0..(z + 1) -> 0..Len(p)]
  BY <1>1, <1>3
<1>5. PICK cot : cot = [i \in 0..z |-> cut[i + 1]]
  OBVIOUS
<1>6. cot \in [0..z -> 0..Len(p)] /\ \A i \in 0..z : cot[i] = cut[i + 1]
  <2>1. \A i \in 0..z : i + 1 \in 0..(z + 1)
    OBVIOUS
  <2>2. \A i \in 0..z : cut[i + 1] \in 0..Len(p)
    BY <1>4, <2>1
  <2> QED BY <1>5, <2>2
<1>7. \A i \in 1..(z + 1) :
         /\ cut[i] = cut[i - 1] + Len(Body(w[i]))
         /\ (r.pc = "first" /\ i = 1) \/ GoodFrame(w[i])
         /\ \A j \in 1..Len(Body(w[i])) : Body(w[i])[j] = p[cut[i - 1] + j]
  BY <1>1, <1>3 DEF Streams
<1>8. PICK g \in Nat : g = Len(r.got) /\ cut[0] = g /\ cot[0] = cut[1]
  <2>1. Len(r.got) \in Nat /\ Len(r.rest) = 0
    BY ContentsAreSeqs, EmptyContents DEF CallType
  <2>2. cut[0] = Len(r.got) + Len(r.rest)
    BY DEF Streams
  <2>3. cot[0] = cut[1]
    BY <1>6
  <2> QED BY <2>1, <2>2, <2>3
<1>9. /\ cut[1] = g + Len(Body(w[1]))
      /\ \A j \in 1..Len(Body(w[1])) : Body(w[1])[j] = p[g + j]
  <2>1. 1 \in 1..(z + 1) /\ 1 - 1 = 0
    OBVIOUS
  <2> QED BY <1>7, <1>8, <2>1
<1>10. ASSUME NEW i \in 1..z
       PROVE  /\ cot[i] = cot[i - 1] + Len(Body(v[i])) /\ GoodFrame(v[i])
              /\ \A j \in 1..Len(Body(v[i])) : Body(v[i])[j] = p[cot[i - 1] + j]
  <2>1. i + 1 \in 1..(z + 1) /\ (i + 1) - 1 = i /\ i \in 0..z /\ i - 1 \in 0..z /\ i + 1 # 1
        /\ (i - 1) + 1 = i
    OBVIOUS
  <2>2. v[i] = w[i + 1] /\ cot[i] = cut[i + 1] /\ cot[i - 1] = cut[i]
    BY <1>3, <1>6, <2>1
  <2>3. /\ cut[i + 1] = cut[i] + Len(Body(w[i + 1])) /\ GoodFrame(w[i + 1])
        /\ \A j \in 1..Len(Body(w[i + 1])) : Body(w[i + 1])[j] = p[cut[i] + j]
    BY <1>7, <2>1
  <2> QED BY <2>2, <2>3
<1>11. cot[z] = cut[z + 1]
  BY <1>6
<1>12. /\ x.pc = "send" => x.source = p /\ cot[z] = x.pos
       /\ x.pc = "finish" => cot[z] = Len(p)
       /\ \A j \in 1..Len(r.got) : r.got[j] = p[j]
  BY <1>1, <1>3, <1>11 DEF Streams
<1>13. Ahead(x, r, Body(w[1]), v, p, cot)
  BY <1>2, <1>8, <1>9, <1>10, <1>12 DEF Ahead
<1> QED BY <1>1, <1>2, <1>6, <1>13

(* It reads from what is left of the current one. *)
LEMMA AheadRest ==
    ASSUME NEW x \in ClientType, NEW r \in CallType, NEW p \in Contents,
           NEW cut \in [0..Len(r.wire) -> 0..Len(p)], Streams(x, r, p, cut), r.pc = "read"
    PROVE  Ahead(x, r, r.rest, r.wire, p, cut)
BY DEF Streams, Ahead

(* A read of n bytes. *)
LEMMA ReadsAhead ==
    ASSUME NEW x \in ClientType, NEW r \in CallType, NEW q \in CallType, NEW e \in Contents,
           NEW n \in 0..Len(e), NEW p \in Contents, NEW cut \in [0..Len(q.wire) -> 0..Len(p)],
           Ahead(x, r, e, q.wire, p, cut), q.pc = "read",
           q.req.size = Len(p), q.req.sum = Blake3(p),
           Len(q.got) = Len(r.got) + n,
           \A j \in 1..Len(r.got) : q.got[j] = r.got[j],
           \A j \in 1..n : q.got[Len(r.got) + j] = e[j],
           Len(q.rest) = Len(e) - n,
           \A j \in 1..(Len(e) - n) : q.rest[j] = e[n + j]
    PROVE  Uploads(x, q)
<1>1. PICK g \in Nat, l \in Nat : g = Len(r.got) /\ l = Len(e)
  BY ContentsAreSeqs DEF CallType
<1>2. n \in Nat /\ n <= l
  BY <1>1
<1>3. cut[0] = Len(q.got) + Len(q.rest)
  BY <1>1, <1>2 DEF Ahead
<1>4. ASSUME NEW j \in 1..Len(q.got) PROVE q.got[j] = p[j]
  <2>1. CASE j <= g
    BY <1>1, <1>2, <2>1 DEF Ahead
  <2>2. CASE j > g
    <3>1. j - g \in 1..n /\ j - g \in 1..l /\ g + (j - g) = j
      BY <1>1, <1>2, <2>2
    <3>2. q.got[g + (j - g)] = e[j - g] /\ e[j - g] = p[g + (j - g)]
      BY <1>1, <3>1 DEF Ahead
    <3> QED BY <3>1, <3>2
  <2> QED BY <1>1, <1>2, <2>1, <2>2
<1>5. ASSUME NEW j \in 1..Len(q.rest) PROVE q.rest[j] = p[Len(q.got) + j]
  <2>0. Len(q.rest) = l - n /\ Len(q.got) = g + n
    BY <1>1
  <2>1. j \in 1..(l - n) /\ n + j \in 1..l /\ g + (n + j) = Len(q.got) + j
    <3>1. j \in 1..(l - n)
      BY <2>0
    <3>2. n + j \in 1..l
      BY <1>2, <3>1
    <3>3. g + (n + j) = (g + n) + j
      <4>1. g \in Int /\ n \in Int /\ j \in Int
        BY <1>1, <1>2
      <4>2. \A a, b, d \in Int : a + (b + d) = (a + b) + d
        OBVIOUS
      <4> QED BY <4>1, <4>2
    <3> QED BY <2>0, <3>1, <3>2, <3>3
  <2>2. q.rest[j] = e[n + j] /\ e[n + j] = p[g + (n + j)]
    BY <1>1, <2>1 DEF Ahead
  <2> QED BY <2>1, <2>2
<1>6. Streams(x, q, p, cut)
  BY <1>3, <1>4, <1>5 DEF Streams, Ahead
<1> QED BY <1>6 DEF Uploads

(* A handler goes on: its client notices nothing. *)
LEMMA HandlerMoves ==
    ASSUME IInv, NEW k \in Calls, NEW r \in CallType, r = call[k],
           r.pc \in {"first", "read", "commit", "linked", "delete", "unlinked"}, ~Quiet(r),
           NEW q \in CallType, CallOK(q), call' = [call EXCEPT ![k] = q],
           q.pc \in {"read", "commit", "linked", "unlinked"},
           q.closed = r.closed, q.broken = r.broken, q.answer = r.answer, q.asked = r.asked,
           \A c \in Clients :
             /\ Undisturbed(c, k) /\ cl[c].pc # "metadata" /\ q.pc \in {"read", "commit"}
             /\ r.pc \in {"first", "read", "commit"} /\ Uploads(cl[c], r)
             => Uploads(cl[c], q),
           q.pc \in {"read", "commit"} => r.pc \in {"first", "read", "commit"},
           cl' = cl, StoreTypes'
    PROVE  IInv'
<1>1. r.answer = NoReply
  BY DEF IInv, CallOK
<1>2. ASSUME NEW c \in Clients, cl[c].chan = k, cl[c].pc \in Live PROVE Attends(cl[c], q)
  <2>1. Attends(cl[c], r)
    BY <1>2 DEF IInv
  <2>2. ~cl[c].edited /\ cl[c].pc \in {"send", "finish"} /\ cl[c].op = "put" /\ q.broken = NoBreak
        /\ q.pc \in {"first", "read", "commit"} => Uploads(cl[c], q)
    BY <1>2, <2>1 DEF Attends, Undisturbed
  <2> QED BY <1>1, <1>2, <2>1, <2>2 DEF Attends
<1> QED BY <1>2, CallMoves

(* The handler reads the request. *)
LEMMA FirstStep ==
    ASSUME IInv, NEW k \in Calls, HandlerFirst(k)
    PROVE  IInv'
<1>0. PICK r \in CallType : r = call[k] /\ CallOK(r)
  BY DEF IInv, Types
<1>1. /\ r.pc = "first" /\ r.wire # << >> /\ "metadata" \in DOMAIN Head(r.wire)
      /\ UNCHANGED <<store, worker, cl>>
  BY <1>0 DEF HandlerFirst, HasNext, NextFrame
<1>2. PICK w, v : w \in Seq(Frames) /\ w = r.wire /\ v = Tail(w) /\ Tail(r.wire) = v
  BY DEF CallType
<1>3. v \in Seq(Frames) /\ Len(w) \in Nat /\ Len(v) \in Nat /\ Len(v) + 1 = Len(w) /\ Head(w) = w[1] /\ w[1] \in Frames
  BY <1>1, <1>2, TailFrames
<1>4. PICK m \in Metadata : m = w[1].metadata
  BY <1>1, <1>2, <1>3, FrameFields
<1>5. PICK q : q = [r EXCEPT !.req = m, !.wire = v, !.pc = "read"]
  OBVIOUS
<1>6. call' = [call EXCEPT ![k] = q]
  BY <1>0, <1>2, <1>3, <1>4, <1>5 DEF HandlerFirst, NextFrame
<1>7. /\ q \in CallType /\ q.wire = v /\ q.got = r.got /\ q.rest = r.rest
      /\ q.req = m /\ q.pc = "read" /\ q.answer = r.answer /\ q.asked = r.asked
      /\ q.broken = r.broken /\ q.closed = r.closed
  BY <1>3, <1>5 DEF CallType
<1>8. r.got = << >> /\ r.rest = << >> /\ Len(<< >>) = 0
  BY <1>0, <1>1, EmptyContents DEF CallOK
<1>9. CallOK(q)
  <2>1. Len(q.wire) <= MaxWire
    BY <1>0, <1>2, <1>3, <1>7, PutAssumption DEF CallOK
  <2>2. Len(q.got) <= q.req.size
    BY <1>7, <1>8, SizeAssumption DEF Metadata
  <2>3. r.asked = Asks("put", m)
    BY <1>0, <1>1, <1>2, <1>3, <1>4 DEF CallOK, AsksFor
  <2> QED BY <1>0, <1>1, <1>7, <2>1, <2>2, <2>3 DEF CallOK, AsksFor
<1>10. ASSUME NEW c \in Clients, Uploads(cl[c], r) PROVE Uploads(cl[c], q)
  <2>0. PICK x \in ClientType : x = cl[c]
    BY DEF IInv, Types
  <2>1. PICK p \in Contents : \E cut \in [0..Len(r.wire) -> 0..Len(p)] : Streams(x, r, p, cut)
    BY <1>10, <2>0 DEF Uploads
  <2>2. PICK cut \in [0..Len(r.wire) -> 0..Len(p)] : Streams(x, r, p, cut)
    BY <2>1
  <2>3. PICK e \in Contents : e = Body(r.wire[1]) /\ Len(e) = 0
    BY <1>1, <1>2, <1>3, <1>8, FrameFields, EmptyContents DEF Body
  <2>4. PICK cot \in [0..Len(q.wire) -> 0..Len(p)] : Ahead(x, r, e, q.wire, p, cot)
    BY <1>1, <1>2, <1>7, <1>8, <2>2, <2>3, AheadNext
  <2>5. q.req.size = Len(p) /\ q.req.sum = Blake3(p)
    BY <1>1, <1>2, <1>4, <1>7, <2>2 DEF Streams
  <2>6. Uploads(x, q)
    <3>1. 0 \in 0..Len(e) /\ Len(e) - 0 = 0
      BY <2>3
    <3>2. Len(q.got) = Len(r.got) + 0 /\ Len(q.rest) = Len(e) - 0
      BY <1>7, <1>8, <2>3
    <3>3. \A j \in 1..0 : FALSE
      OBVIOUS
    <3>4. /\ \A j \in 1..Len(r.got) : q.got[j] = r.got[j]
          /\ \A j \in 1..0 : q.got[Len(r.got) + j] = e[j]
          /\ \A j \in 1..(Len(e) - 0) : q.rest[j] = e[0 + j]
      BY <1>7, <2>3, <3>3
    <3>5. q \in CallType /\ q.pc = "read"
      BY <1>7
    <3> QED BY <2>4, <2>5, <3>1, <3>2, <3>4, <3>5, ReadsAhead
  <2> QED BY <2>0, <2>6
<1>11. ~Quiet(r)
  BY <1>1 DEF Quiet
<1>12. StoreTypes'
  BY <1>1 DEF IInv, StoreTypes, Store!TypeOK, store, worker
<1> QED BY <1>0, <1>1, <1>6, <1>7, <1>9, <1>10, <1>11, <1>12, HandlerMoves

(* What a handler that may read finds ahead. *)
LEMMA ReadSource ==
    ASSUME NEW k \in Calls, NEW r \in CallType, r = call[k], r.pc = "read", Readable(k)
    PROVE  \E e \in Contents, v \in Seq(Frames) :
             /\ e = Current(k) /\ v = IF r.rest = << >> THEN Tail(r.wire) ELSE r.wire
             /\ Count(k) \in 0..Len(e) /\ Len(v) <= Len(r.wire)
             /\ \A x \in ClientType : Uploads(x, r) =>
                  \E p \in Contents : \E cut \in [0..Len(v) -> 0..Len(p)] :
                    Ahead(x, r, e, v, p, cut) /\ r.req.size = Len(p) /\ r.req.sum = Blake3(p)
<1>1. ASSUME NEW e \in Contents, e = Current(k) PROVE Count(k) \in 0..Len(e)
  <2>1. Len(e) \in Nat
    BY ContentsAreSeqs
  <2> QED BY <1>1, <2>1, PutAssumption DEF Count
<1>2. r.wire \in Seq(Frames) /\ r.rest \in Contents
  BY DEF CallType
<1>3. CASE r.rest # << >>
  <2>1. PICK e \in Contents, v \in Seq(Frames) : e = r.rest /\ v = r.wire /\ e = Current(k)
    BY <1>2, <1>3 DEF Current
  <2>2. ASSUME NEW x \in ClientType, Uploads(x, r)
        PROVE  \E p \in Contents : \E cut \in [0..Len(v) -> 0..Len(p)] :
                 Ahead(x, r, e, v, p, cut) /\ r.req.size = Len(p) /\ r.req.sum = Blake3(p)
    <3>1. PICK p \in Contents : \E cut \in [0..Len(r.wire) -> 0..Len(p)] : Streams(x, r, p, cut)
      BY <2>2 DEF Uploads
    <3>2. PICK cut \in [0..Len(r.wire) -> 0..Len(p)] : Streams(x, r, p, cut)
      BY <3>1
    <3>3. Ahead(x, r, r.rest, r.wire, p, cut)
      BY <3>2, AheadRest
    <3>4. r.req.size = Len(p) /\ r.req.sum = Blake3(p)
      BY <3>2 DEF Streams
    <3> QED BY <2>1, <3>3, <3>4
  <2>3. Len(v) \in Nat /\ Len(v) <= Len(r.wire)
    BY <2>1
  <2> QED BY <1>1, <1>3, <2>1, <2>2, <2>3
<1>4. CASE r.rest = << >>
  <2>1. PICK w \in Seq(Frames) : w = r.wire /\ w # << >> /\ GoodFrame(Head(w))
    BY <1>2, <1>4 DEF Readable, HasNext, NextFrame
  <2>2. PICK v \in Seq(Frames) : /\ v = Tail(w) /\ Head(w) = w[1] /\ w[1] \in Frames
                                 /\ Len(v) \in Nat /\ Len(v) + 1 = Len(w)
    BY <2>1, TailFrames
  <2>3. PICK e \in Contents : e = Body(w[1]) /\ e = w[1].data
    BY <2>1, <2>2, FrameFields DEF GoodFrame, Body
  <2>4. e = Current(k)
    BY <1>4, <2>1, <2>2, <2>3 DEF Current, NextFrame
  <2>5. ASSUME NEW x \in ClientType, Uploads(x, r)
        PROVE  \E p \in Contents : \E cut \in [0..Len(v) -> 0..Len(p)] :
                 Ahead(x, r, e, v, p, cut) /\ r.req.size = Len(p) /\ r.req.sum = Blake3(p)
    <3>1. PICK p \in Contents : \E cut \in [0..Len(r.wire) -> 0..Len(p)] : Streams(x, r, p, cut)
      BY <2>5 DEF Uploads
    <3>2. PICK cut \in [0..Len(r.wire) -> 0..Len(p)] : Streams(x, r, p, cut)
      BY <3>1
    <3>3. \E cot \in [0..Len(Tail(r.wire)) -> 0..Len(p)] :
             Ahead(x, r, Body(r.wire[1]), Tail(r.wire), p, cot)
      BY <1>4, <2>1, <3>2, AheadNext
    <3>4. r.req.size = Len(p) /\ r.req.sum = Blake3(p)
      BY <3>2 DEF Streams
    <3> QED BY <2>1, <2>2, <2>3, <3>3, <3>4
  <2>6. Len(v) <= Len(r.wire)
    BY <2>1, <2>2
  <2> QED BY <1>1, <1>4, <2>1, <2>2, <2>4, <2>5, <2>6
<1> QED BY <1>3, <1>4

(* A read into the buffer of the store. *)
LEMMA ReadStep ==
    ASSUME IInv, NEW k \in Calls, HandlerRead(k)
    PROVE  IInv'
<1>0. PICK r \in CallType : r = call[k] /\ CallOK(r)
  BY DEF IInv, Types
<1>1. r.pc = "read" /\ Readable(k) /\ Count(k) <= Room(k) /\ UNCHANGED <<store, worker, cl>>
  BY <1>0 DEF HandlerRead
<1>2. PICK e \in Contents, v \in Seq(Frames) :
             /\ e = Current(k) /\ v = IF r.rest = << >> THEN Tail(r.wire) ELSE r.wire
             /\ Count(k) \in 0..Len(e) /\ Len(v) <= Len(r.wire)
             /\ \A x \in ClientType : Uploads(x, r) =>
                  \E p \in Contents : \E cut \in [0..Len(v) -> 0..Len(p)] :
                    Ahead(x, r, e, v, p, cut) /\ r.req.size = Len(p) /\ r.req.sum = Blake3(p)
  BY <1>0, <1>1, ReadSource
<1>3. PICK n \in Nat : n = Count(k) /\ n \in 0..Len(e) /\ n <= Len(e)
  BY <1>2
<1>4. /\ r.got \in Contents /\ Len(r.got) \in Nat /\ Len(e) \in Nat
      /\ r.req.size \in Nat /\ r.req.size <= MaxSize
  BY ContentsAreSeqs, SizeAssumption DEF CallType, Metadata
<1>5. Len(r.got) + n <= r.req.size
  BY <1>0, <1>1, <1>3, <1>4 DEF Room
<1>6. PICK a \in Contents : /\ a = SubSeq(e, 1, n) /\ Len(a) = n
                            /\ \A j \in 1..n : a[j] = e[j]
  <2>1. 0 \in Nat /\ 0 + n <= Len(e) /\ 0 + 1 = 1 /\ 0 + n = n
    BY <1>3
  <2>2. /\ SubSeq(e, 0 + 1, 0 + n) \in Contents
        /\ Len(SubSeq(e, 0 + 1, 0 + n)) = n
        /\ \A j \in 1..n : SubSeq(e, 0 + 1, 0 + n)[j] = e[0 + j]
    BY <2>1, SliceContents
  <2>3. \A j \in 1..n : 0 + j = j
    OBVIOUS
  <2> QED BY <2>1, <2>2, <2>3
<1>7. PICK b \in Contents : /\ b = SubSeq(e, n + 1, Len(e)) /\ Len(b) = Len(e) - n
                            /\ \A j \in 1..(Len(e) - n) : b[j] = e[n + j]
  <2>0. PICK h : h = Len(e) - n
    OBVIOUS
  <2>1. h \in Nat /\ n + h = Len(e) /\ n + h <= Len(e)
    BY <1>3, <1>4, <2>0
  <2>2. /\ SubSeq(e, n + 1, n + h) \in Contents
        /\ Len(SubSeq(e, n + 1, n + h)) = h
        /\ \A j \in 1..h : SubSeq(e, n + 1, n + h)[j] = e[n + j]
    BY <2>1, SliceContents
  <2> QED BY <2>0, <2>1, <2>2
<1>8. PICK g \in Contents : /\ g = r.got \o a /\ Len(g) = Len(r.got) + n
                            /\ \A j \in 1..Len(r.got) : g[j] = r.got[j]
                            /\ \A j \in 1..n : g[Len(r.got) + j] = a[j]
  <2>0. PICK u \in Contents : u = r.got /\ Len(u) + Len(a) <= MaxSize
    BY <1>4, <1>5, <1>6, SizeAssumption
  <2>1. r.got \o a \in Contents /\ Len(r.got \o a) = Len(r.got) + Len(a)
    BY <2>0, ConcatContents
  <2>2. r.got \in Seq(Bytes) /\ a \in Seq(Bytes)
    BY <1>4, ContentsAreSeqs
  <2>3. /\ \A j \in 1..Len(r.got) : (r.got \o a)[j] = r.got[j]
        /\ \A j \in 1..Len(a) : (r.got \o a)[Len(r.got) + j] = a[j]
    BY <2>2
  <2> QED BY <1>6, <2>1, <2>3
<1>9. PICK q : q = [r EXCEPT !.got = g, !.rest = b, !.wire = v]
  OBVIOUS
<1>10. call' = [call EXCEPT ![k] = q]
  BY <1>0, <1>2, <1>3, <1>6, <1>7, <1>8, <1>9 DEF HandlerRead
<1>11. /\ q \in CallType /\ q.wire = v /\ q.got = g /\ q.rest = b
       /\ q.req = r.req /\ q.pc = "read" /\ q.answer = r.answer /\ q.asked = r.asked
       /\ q.broken = r.broken /\ q.closed = r.closed
  BY <1>1, <1>9 DEF CallType
<1>12. CallOK(q)
  <2>1. Len(q.wire) <= MaxWire
    <3>1. Len(v) \in Nat /\ Len(r.wire) \in Nat /\ Len(r.wire) <= MaxWire /\ Len(v) <= Len(r.wire)
      BY <1>0, <1>2 DEF CallOK, CallType
    <3> QED BY <1>11, <3>1, PutAssumption
  <2>2. Len(q.got) <= q.req.size
    BY <1>5, <1>8, <1>11
  <2> QED BY <1>0, <1>1, <1>11, <2>1, <2>2 DEF CallOK, AsksFor
<1>13. ASSUME NEW c \in Clients, Uploads(cl[c], r) PROVE Uploads(cl[c], q)
  <2>0. PICK x \in ClientType : x = cl[c]
    BY DEF IInv, Types
  <2>1. PICK p \in Contents : \E cut \in [0..Len(v) -> 0..Len(p)] :
          Ahead(x, r, e, v, p, cut) /\ r.req.size = Len(p) /\ r.req.sum = Blake3(p)
    BY <1>2, <1>13, <2>0
  <2>2. PICK cut \in [0..Len(q.wire) -> 0..Len(p)] :
          Ahead(x, r, e, q.wire, p, cut) /\ r.req.size = Len(p) /\ r.req.sum = Blake3(p)
    BY <1>11, <2>1
  <2>3. /\ q.req.size = Len(p) /\ q.req.sum = Blake3(p)
        /\ Len(q.got) = Len(r.got) + n
        /\ \A j \in 1..Len(r.got) : q.got[j] = r.got[j]
        /\ \A j \in 1..n : q.got[Len(r.got) + j] = e[j]
        /\ Len(q.rest) = Len(e) - n
        /\ \A j \in 1..(Len(e) - n) : q.rest[j] = e[n + j]
    BY <1>6, <1>7, <1>8, <1>11, <2>2
  <2>4. Uploads(x, q)
    <3>1. q \in CallType /\ q.pc = "read" /\ n \in 0..Len(e)
      BY <1>3, <1>11
    <3> QED BY <2>2, <2>3, <3>1, ReadsAhead
  <2> QED BY <2>0, <2>4
<1>14. StoreTypes' /\ ~Quiet(r)
  BY <1>1 DEF IInv, StoreTypes, Store!TypeOK, store, worker, Quiet
<1> QED BY <1>0, <1>1, <1>10, <1>11, <1>12, <1>13, <1>14, HandlerMoves

(* The stream of an undisturbed upload whose handler has the request. *)
LEMMA UndisturbedStream ==
    ASSUME IInv, NEW c \in Clients, NEW k \in Calls, Undisturbed(c, k),
           call[k].pc \in {"read", "commit"}
    PROVE  Uploads(cl[c], call[k]) /\ (call[k].closed => cl[c].pc = "finish")
<1>1. Attends(cl[c], call[k])
  BY DEF IInv, Undisturbed, Live
<1>2. cl[c].pc # "metadata"
  BY <1>1 DEF Attends, Quiet
<1> QED BY <1>1, <1>2 DEF Attends, Undisturbed

(* Its bytes fit into what was announced. *)
LEMMA ReadRefusesStep ==
    ASSUME IInv, NEW k \in Calls, HandlerReadRefuses(k)
    PROVE  IInv'
<1>0. PICK r \in CallType : r = call[k] /\ r.pc = "read"
  BY DEF IInv, Types, HandlerReadRefuses
<1>1. CASE Refuses(k, "OK", "InvalidArgument")
  <2>1. "InvalidArgument" \in Object!Definite \cup Object!Indefinite
    BY DEF Object!Definite
  <2> QED BY <1>0, <1>1, <2>1, AnswerCodes, RefusesStep
<1>2. CASE Readable(k) /\ Count(k) > Room(k) /\ Refuses(k, "OK", "Corruption")
  <2>1. ASSUME NEW c \in Clients, Undisturbed(c, k) PROVE FALSE
    <3>0. PICK x \in ClientType : x = cl[c] /\ Uploads(x, r)
      BY <1>0, <2>1, UndisturbedStream DEF IInv, Types
    <3>1. PICK e \in Contents, v \in Seq(Frames) :
             /\ e = Current(k) /\ Count(k) \in 0..Len(e)
             /\ \A y \in ClientType : Uploads(y, r) =>
                  \E p \in Contents : \E cut \in [0..Len(v) -> 0..Len(p)] :
                    Ahead(y, r, e, v, p, cut) /\ r.req.size = Len(p) /\ r.req.sum = Blake3(p)
      BY <1>0, <1>2, ReadSource
    <3>2. PICK p \in Contents : \E cut \in [0..Len(v) -> 0..Len(p)] :
                    Ahead(x, r, e, v, p, cut) /\ r.req.size = Len(p)
      BY <3>0, <3>1
    <3>3. PICK cut \in [0..Len(v) -> 0..Len(p)] : Ahead(x, r, e, v, p, cut) /\ r.req.size = Len(p)
      BY <3>2
    <3>4. 0 \in 0..Len(v)
      OBVIOUS
    <3>5. cut[0] \in 0..Len(p) /\ cut[0] = Len(r.got) + Len(e)
      BY <3>3, <3>4 DEF Ahead
    <3>6. Len(p) \in Nat /\ Len(r.got) \in Nat /\ Len(e) \in Nat
      BY ContentsAreSeqs DEF CallType
    <3>7. Len(e) <= r.req.size - Len(r.got) /\ Count(k) <= Len(e)
      BY <3>1, <3>3, <3>5, <3>6
    <3> QED BY <1>0, <1>2, <3>1, <3>3, <3>6, <3>7 DEF Room
  <2>2. "Corruption" \in Object!Definite \cup Object!Indefinite
    BY DEF Object!Definite
  <2> QED BY <1>0, <1>2, <2>1, <2>2, AnswerCodes, RefusesStep
<1> QED BY <1>1, <1>2 DEF HandlerReadRefuses

(* The end of the stream: of an undisturbed upload everything has arrived. *)
LEMMA EofStep ==
    ASSUME IInv, NEW k \in Calls, HandlerEof(k)
    PROVE  IInv'
<1>0. PICK r \in CallType : r = call[k] /\ CallOK(r)
  BY DEF IInv, Types
<1>1. /\ r.pc = "read" /\ r.rest = << >> /\ UNCHANGED <<store, worker, cl>>
      /\ r.broken # NoBreak \/ (r.closed /\ r.wire = << >>)
  BY <1>0 DEF HandlerEof, ReadFails, HasNext
<1>2. PICK q : q = [r EXCEPT !.pc = "commit"]
  OBVIOUS
<1>3. call' = [call EXCEPT ![k] = q]
  BY <1>0, <1>2 DEF HandlerEof
<1>4. /\ q \in CallType /\ q.wire = r.wire /\ q.got = r.got /\ q.rest = r.rest
      /\ q.req = r.req /\ q.pc = "commit" /\ q.answer = r.answer /\ q.asked = r.asked
      /\ q.broken = r.broken /\ q.closed = r.closed
  BY <1>2 DEF CallType
<1>5. CallOK(q)
  BY <1>0, <1>1, <1>4 DEF CallOK, AsksFor
<1>6. ASSUME NEW c \in Clients, Undisturbed(c, k) PROVE Uploads(cl[c], q)
  <2>0. PICK x \in ClientType : x = cl[c] /\ Uploads(x, r) /\ x.pc = "finish" /\ r.wire = << >>
    BY <1>0, <1>1, <1>6, UndisturbedStream DEF IInv, Types, Undisturbed
  <2>1. PICK p \in Contents : \E cut \in [0..Len(r.wire) -> 0..Len(p)] : Streams(x, r, p, cut)
    BY <2>0 DEF Uploads
  <2>2. PICK cut \in [0..Len(r.wire) -> 0..Len(p)] : Streams(x, r, p, cut)
    BY <2>1
  <2>3. Len(r.wire) = 0 /\ Len(r.rest) = 0 /\ Len(r.got) \in Nat
    BY <1>1, <2>0, EmptyContents, ContentsAreSeqs DEF CallType
  <2>4. Len(r.got) = Len(p)
    BY <2>0, <2>2, <2>3 DEF Streams
  <2>5. Streams(x, q, p, cut)
    BY <1>1, <1>4, <2>2, <2>4 DEF Streams
  <2> QED BY <1>4, <2>0, <2>2, <2>5 DEF Uploads
<1>7. StoreTypes' /\ ~Quiet(r)
  BY <1>1 DEF IInv, StoreTypes, Store!TypeOK, store, worker, Quiet
<1> QED BY <1>0, <1>1, <1>3, <1>4, <1>5, <1>6, <1>7, HandlerMoves

(* What has arrived is what was hashed. *)
LEMMA RejectsStep ==
    ASSUME IInv, NEW k \in Calls, HandlerRejects(k)
    PROVE  IInv'
<1>0. PICK r \in CallType : r = call[k] /\ r.pc = "commit"
  BY DEF IInv, Types, HandlerRejects
<1>1. CASE Refuses(k, "OK", "AlreadyExists")
  <2>1. "AlreadyExists" \in Object!Definite \cup Object!Indefinite
    BY DEF Object!Definite
  <2> QED BY <1>0, <1>1, <2>1, AnswerCodes, RefusesStep
<1>2. CASE ~Matches(call[k]) /\ Refuses(k, "OK", "Corruption")
  <2>1. ASSUME NEW c \in Clients, Undisturbed(c, k) PROVE FALSE
    <3>0. PICK x \in ClientType : x = cl[c] /\ Uploads(x, r)
      BY <1>0, <2>1, UndisturbedStream DEF IInv, Types
    <3>1. PICK p \in Contents : \E cut \in [0..Len(r.wire) -> 0..Len(p)] : Streams(x, r, p, cut)
      BY <3>0 DEF Uploads
    <3>2. PICK g \in Contents : /\ g = r.got /\ Len(g) = Len(p) /\ \A j \in 1..Len(g) : g[j] = p[j]
                                /\ r.req.size = Len(p) /\ r.req.sum = Blake3(p)
      BY <1>0, <3>1 DEF Streams, CallType
    <3>3. g \in Seq(Bytes) /\ p \in Seq(Bytes)
      BY ContentsAreSeqs
    <3>4. g = p
      BY <3>2, <3>3
    <3> QED BY <1>0, <1>2, <3>2, <3>4 DEF Matches
  <2>2. "Corruption" \in Object!Definite \cup Object!Indefinite
    BY DEF Object!Definite
  <2> QED BY <1>0, <1>2, <2>1, <2>2, AnswerCodes, RefusesStep
<1> QED BY <1>1, <1>2 DEF HandlerRejects

(* The operations of the store keep its types. *)
LEMMA StoreMoves ==
    ASSUME StoreTypes
    PROVE  /\ \A id \in ChunkIds, d \in Contents :
                Store!Commit(id, d) /\ UNCHANGED worker => StoreTypes'
           /\ \A id \in ChunkIds : Store!Remove(id) /\ UNCHANGED worker => StoreTypes'
           /\ Store!Sync /\ UNCHANGED worker => StoreTypes'
           /\ Store!PowerLoss => (Store!TypeOK)'
<1>0. /\ chunks \in [ChunkIds -> Store!Payloads]
      /\ stable \in [ChunkIds -> SUBSET Store!Payloads]
  BY DEF StoreTypes, Store!TypeOK
<1>1. UNCHANGED worker => configured' \in BOOLEAN /\ crashes' \in 0..MaxCrashes
  BY DEF StoreTypes, worker
<1>2. ASSUME NEW id \in ChunkIds, NEW d \in Contents \cup {NoContent}, Store!Change(id, d)
      PROVE  (Store!TypeOK)'
  <2>1. /\ chunks' = [chunks EXCEPT ![id] = d]
        /\ stable' = [stable EXCEPT ![id] = stable[id] \cup {d}]
    BY <1>2 DEF Store!Change
  <2>2. d \in Store!Payloads /\ stable[id] \cup {d} \in SUBSET Store!Payloads
    BY <1>0 DEF Store!Payloads
  <2> QED BY <1>0, <2>1, <2>2 DEF Store!TypeOK, Store!Payloads
<1>3. ASSUME Store!Sync PROVE (Store!TypeOK)'
  <2>1. chunks' = chunks /\ stable' = [id \in ChunkIds |-> {chunks[id]}]
    BY <1>3 DEF Store!Sync
  <2>2. \A id \in ChunkIds : {chunks[id]} \in SUBSET Store!Payloads
    BY <1>0
  <2> QED BY <1>0, <2>1, <2>2 DEF Store!TypeOK, Store!Payloads
<1>4. ASSUME Store!PowerLoss PROVE (Store!TypeOK)'
  <2>1. chunks' \in [ChunkIds -> Store!Payloads] /\ stable' = [id \in ChunkIds |-> {chunks'[id]}]
    BY <1>4 DEF Store!PowerLoss
  <2>2. \A id \in ChunkIds : {chunks'[id]} \in SUBSET Store!Payloads
    BY <2>1
  <2> QED BY <2>1, <2>2 DEF Store!TypeOK, Store!Payloads
<1> QED BY <1>1, <1>2, <1>3, <1>4 DEF StoreTypes, Store!Commit, Store!Remove

(* The chunk is linked. *)
LEMMA LinkStep ==
    ASSUME IInv, NEW k \in Calls, HandlerLink(k)
    PROVE  IInv'
<1>0. PICK r \in CallType : r = call[k] /\ CallOK(r) /\ r.pc = "commit"
  BY DEF IInv, Types, HandlerLink
<1>1. /\ Store!Commit(r.req.id, r.got) /\ UNCHANGED <<worker, cl>>
  BY <1>0 DEF HandlerLink
<1>2. PICK q : q = [r EXCEPT !.pc = "linked", !.req = NoWant, !.got = << >>]
  OBVIOUS
<1>3. call' = [call EXCEPT ![k] = q]
  BY <1>0, <1>2 DEF HandlerLink
<1>4. /\ q \in CallType /\ q.wire = r.wire /\ q.got = << >> /\ q.rest = r.rest
      /\ q.req = NoWant /\ q.pc = "linked" /\ q.answer = r.answer /\ q.asked = r.asked
      /\ q.broken = r.broken /\ q.closed = r.closed
  BY <1>2, RestTypes, EmptyContents DEF CallType
<1>5. PICK m \in Metadata : m = r.req /\ r.asked = Asks("put", m)
  BY <1>0 DEF CallType, CallOK, AsksFor
<1>6. r.asked # NoAsk /\ r.asked.kind = "put"
  BY <1>5, AsksOperation
<1>7. CallOK(q)
  <2>1. Len(q.got) <= q.req.size
    BY <1>4, EmptyContents DEF NoWant
  <2> QED BY <1>0, <1>4, <1>6, <2>1 DEF CallOK, AsksFor
<1>8. r.req.id \in ChunkIds /\ r.got \in Contents
  BY DEF CallType, Metadata
<1>9. StoreTypes'
  BY <1>1, <1>8, StoreMoves DEF IInv
<1>10. ~Quiet(r)
  BY <1>0 DEF Quiet
<1> QED BY <1>0, <1>1, <1>3, <1>4, <1>7, <1>9, <1>10, HandlerMoves

(* The directory is synchronized, or not. *)
LEMMA SyncStep ==
    ASSUME IInv, NEW k \in Calls, HandlerSync(k)
    PROVE  IInv'
<1>1. PICK code \in {"Ok", "IoError"} : Answers(k, "OK", code)
  BY DEF HandlerSync
<1>2. call[k].pc # "none" /\ cl' = cl
  BY DEF HandlerSync
<1>3. StoreTypes'
  <2>1. UNCHANGED worker /\ (Store!Sync \/ UNCHANGED store)
    BY DEF HandlerSync
  <2>2. CASE UNCHANGED store
    BY <2>1, <2>2 DEF IInv, StoreTypes, Store!TypeOK, store, worker
  <2> QED BY <2>1, <2>2, StoreMoves DEF IInv
<1>4. code \in Object!Definite \cup Object!Indefinite /\ code # "Corruption"
  BY DEF Object!Definite, Object!Indefinite
<1> QED BY <1>1, <1>2, <1>3, <1>4, AnswerCodes, AnswerStep

(* The chunk is unlinked. *)
LEMMA UnlinkStep ==
    ASSUME IInv, NEW k \in Calls, HandlerUnlink(k)
    PROVE  IInv'
<1>0. PICK r \in CallType : r = call[k] /\ CallOK(r) /\ r.pc = "delete"
  BY DEF IInv, Types, HandlerUnlink
<1>1. /\ Store!Remove(r.req.id) /\ UNCHANGED <<worker, cl>>
  BY <1>0 DEF HandlerUnlink
<1>2. PICK q : q = [r EXCEPT !.pc = "unlinked"]
  OBVIOUS
<1>3. call' = [call EXCEPT ![k] = q]
  BY <1>0, <1>2 DEF HandlerUnlink
<1>4. /\ q \in CallType /\ q.wire = r.wire /\ q.got = r.got /\ q.rest = r.rest
      /\ q.req = r.req /\ q.pc = "unlinked" /\ q.answer = r.answer /\ q.asked = r.asked
      /\ q.broken = r.broken /\ q.closed = r.closed
  BY <1>2 DEF CallType
<1>5. CallOK(q)
  BY <1>0, <1>4 DEF CallOK, AsksFor
<1>6. r.req.id \in ChunkIds
  BY DEF CallType, Metadata
<1>7. StoreTypes'
  BY <1>1, <1>6, StoreMoves DEF IInv
<1>8. ~Quiet(r)
  BY <1>0 DEF Quiet
<1> QED BY <1>0, <1>1, <1>3, <1>4, <1>5, <1>7, <1>8, HandlerMoves

(* What the death of the worker leaves of a call. *)
LEMMA DiesRecord ==
    ASSUME IInv, WorkerDies, NEW k \in Calls
    PROVE  /\ call'[k] \in CallType /\ CallOK(call'[k])
           /\ \A c \in Clients :
                cl[c].chan = k /\ cl[c].pc \in Live => Attends(cl[c], call'[k])
           /\ call[k].pc = "none" => call'[k] = call[k]
           /\ call[k].pc # "none" =>
                /\ ~Attended(k) => call'[k] = Fresh
                /\ Attended(k) => /\ call'[k].asked = call[k].asked /\ call'[k].pc = "none"
                                  /\ call'[k].answer = NoReply
<1>0. PICK r \in CallType : r = call[k] /\ CallOK(r)
  BY DEF IInv, Types
<1>1. call'[k] = IF r.pc = "none" THEN r
                 ELSE IF ~Attended(k) \/ r.broken # NoBreak THEN Ended(k)
                 ELSE [Ended(k) EXCEPT !.broken = "UNAVAILABLE"]
  BY <1>0 DEF WorkerDies
<1>2. \A c \in Clients : cl[c].chan = k /\ cl[c].pc \in Live => cl[c] \in ClientType /\ Attends(cl[c], r)
  BY <1>0 DEF IInv, Types
<1>3. CASE r.pc = "none"
  BY <1>0, <1>1, <1>2, <1>3
<1>4. CASE r.pc # "none" /\ ~Attended(k)
  <2>1. call'[k] = Fresh
    BY <1>1, <1>4 DEF Ended
  <2>2. \A c \in Clients : cl[c].chan # k
    BY <1>4 DEF Attended
  <2> QED BY <1>0, <1>4, <2>1, <2>2, RestTypes
<1>5. CASE r.pc # "none" /\ Attended(k)
  <2>1. r.answer = NoReply
    BY <1>0, <1>5 DEF CallOK
  <2>2. PICK b \in BreakCodes \cup {NoBreak}, a \in Answer \cup {NoReply} :
          /\ b = (IF r.broken # NoBreak THEN r.broken ELSE "UNAVAILABLE") /\ b # NoBreak
          /\ a = NoReply
    BY PutAssumption DEF CallType, BreakCodes
  <2>3. PICK q \in CallType : EndsAs(q, r, b, a)
    BY <1>0, <2>2, EndedRecord
  <2>4. PICK e : e = [Fresh EXCEPT !.closed = r.closed, !.broken = r.broken,
                                   !.answer = r.answer, !.asked = r.asked]
    OBVIOUS
  <2>5. Ended(k) = e
    BY <1>0, <1>5, <2>4 DEF Ended
  <2>6. q = [Fresh EXCEPT !.closed = r.closed, !.broken = b, !.answer = r.answer,
                          !.asked = r.asked]
    BY <2>1, <2>2, <2>3 DEF EndsAs
  <2>7. call'[k] = q
    <3>1. CASE r.broken # NoBreak
      BY <1>1, <1>5, <2>2, <2>4, <2>5, <2>6, <3>1
    <3>2. CASE r.broken = NoBreak
      <4>1. [e EXCEPT !.broken = b] = q
        BY <2>4, <2>6 DEF Fresh
      <4> QED BY <1>1, <1>5, <2>2, <2>5, <3>2, <4>1
    <3> QED BY <3>1, <3>2
  <2>8. \A c \in Clients : cl[c].chan = k /\ cl[c].pc \in Live => Attends(cl[c], q)
    BY <1>2, <2>2, <2>3 DEF EndsAs
  <2>9. CallOK(q) /\ q.asked = r.asked /\ q.pc = "none" /\ q.answer = NoReply
    BY <2>2, <2>3 DEF EndsAs
  <2> QED BY <1>0, <1>5, <2>7, <2>8, <2>9
<1> QED BY <1>3, <1>4, <1>5

(* The worker dies. *)
LEMMA DiesStep ==
    ASSUME IInv, WorkerDies
    PROVE  IInv'
<1>1. /\ crashes < MaxCrashes /\ crashes' = crashes + 1 /\ configured' = configured /\ cl' = cl
      /\ UNCHANGED store \/ Store!PowerLoss
  BY DEF WorkerDies
<1>2. StoreTypes'
  <2>1. crashes' \in 0..MaxCrashes /\ configured' \in BOOLEAN
    BY <1>1, PutAssumption DEF IInv, StoreTypes
  <2>2. (Store!TypeOK)'
    <3>1. CASE UNCHANGED store
      BY <3>1 DEF IInv, StoreTypes, Store!TypeOK, store
    <3> QED BY <1>1, <3>1, StoreMoves DEF IInv
  <2> QED BY <2>1, <2>2 DEF StoreTypes
<1>3. call' \in [Calls -> CallType]
  <2>1. call' = [k \in Calls |-> call'[k]]
    BY DEF WorkerDies
  <2> QED BY <2>1, DiesRecord
<1>4. Types' /\ ChansApart'
  BY <1>1, <1>3 DEF IInv, Types, ChansApart
<1>5. \A k \in Calls : CallOK(call'[k])
  BY DiesRecord
<1>6. \A c \in Clients : ClientOK(cl'[c])
  BY <1>1 DEF IInv
<1>7. ASSUME NEW c \in Clients, cl[c].pc \in Live PROVE Attends(cl[c], call'[cl[c].chan])
  <2>1. cl[c].chan \in Calls
    BY <1>7 DEF IInv, ClientOK
  <2> QED BY <1>7, <2>1, DiesRecord
<1> QED BY <1>1, <1>2, <1>4, <1>5, <1>6, <1>7 DEF IInv

-----------------------------------------------------------------------------
(***************************************************************************)
(* Every step keeps the invariant.                                         *)
(***************************************************************************)
LEMMA HandlerSteps ==
    ASSUME IInv, NEW k \in Calls, HandlerProgress(k) \/ HandlerFails(k)
    PROVE  IInv'
<1>1. CASE \/ Unconfigured(k) \/ HandlerRefuses(k) \/ HandlerFails(k)
           \/ HandlerUnlinked(k) \/ HandlerDeleteFails(k)
  BY <1>1, PlainAnswers
<1>2. CASE HandlerFirst(k)
  BY <1>2, FirstStep
<1>3. CASE HandlerRead(k)
  BY <1>3, ReadStep
<1>4. CASE HandlerReadRefuses(k)
  BY <1>4, ReadRefusesStep
<1>5. CASE HandlerEof(k)
  BY <1>5, EofStep
<1>6. CASE HandlerLink(k)
  BY <1>6, LinkStep
<1>7. CASE HandlerSync(k)
  BY <1>7, SyncStep
<1>8. CASE HandlerRejects(k)
  BY <1>8, RejectsStep
<1>9. CASE HandlerUnlink(k)
  BY <1>9, UnlinkStep
<1> QED BY <1>1, <1>2, <1>3, <1>4, <1>5, <1>6, <1>7, <1>8, <1>9 DEF HandlerProgress

LEMMA NextInv == IInv /\ [Next]_vars => IInv'
<1> SUFFICES ASSUME IInv, [Next]_vars PROVE IInv'
  OBVIOUS
<1>1. CASE \E c \in Clients : Client(c)
  BY <1>1, ClientSteps
<1>2. CASE \E k \in Calls : HandlerProgress(k) \/ HandlerFails(k)
  BY <1>2, HandlerSteps
<1>3. CASE WorkerDies
  BY <1>3, DiesStep
<1>4. CASE UNCHANGED vars
  <2>1. /\ cl' = cl /\ call' = call /\ chunks' = chunks /\ stable' = stable
        /\ configured' = configured /\ crashes' = crashes
    BY <1>4 DEF vars, store, worker
  <2>2. StoreTypes' /\ Types' /\ ChansApart'
    BY <2>1 DEF IInv, StoreTypes, Store!TypeOK, Types, ChansApart
  <2> QED BY <2>1, <2>2 DEF IInv
<1> QED BY <1>1, <1>2, <1>3, <1>4 DEF Next

LEMMA Invariance == Spec => []IInv
BY InitInv, NextInv, PTL DEF Spec

(***************************************************************************)
(* TypeOK: the variables keep their types; the transport never buffers     *)
(* more than MaxWire frames, and no stream makes the store take more bytes *)
(* than the request announced.                                             *)
(***************************************************************************)
THEOREM PutTypes == Spec => []TypeOK
<1>1. IInv => TypeOK
  <2> SUFFICES ASSUME IInv PROVE TypeOK
    OBVIOUS
  <2>1. Store!TypeOK /\ configured \in BOOLEAN /\ crashes \in 0..MaxCrashes
    BY DEF IInv, StoreTypes
  <2>2. cl \in [Clients -> ClientType] /\ DOMAIN call = Calls
    BY DEF IInv, Types
  <2>3. ASSUME NEW k \in Calls
        PROVE  /\ Len(call[k].wire) <= MaxWire /\ Len(call[k].got) <= call[k].req.size
               /\ \A i \in 1..Len(call[k].wire) : call[k].wire[i] \in Frames
               /\ call[k].closed \in BOOLEAN
               /\ call[k].broken \in BreakCodes \cup {NoBreak}
               /\ call[k].answer \in Answer \cup {NoReply}
               /\ call[k].pc \in {"none", "first", "read", "commit", "linked", "delete", "unlinked"}
               /\ call[k].req \in Metadata
               /\ call[k].rest \in Contents /\ call[k].got \in Contents
    <3>1. PICK r \in CallType : r = call[k] /\ CallOK(r)
      BY DEF IInv, Types
    <3>2. /\ r.wire \in Seq(Frames) /\ r.closed \in BOOLEAN
          /\ r.broken \in BreakCodes \cup {NoBreak} /\ r.answer \in Answer \cup {NoReply}
          /\ r.pc \in {"none", "first", "read", "commit", "linked", "delete", "unlinked"}
          /\ r.req \in Metadata /\ r.rest \in Contents /\ r.got \in Contents
      BY DEF CallType
    <3>3. \A i \in 1..Len(r.wire) : r.wire[i] \in Frames
      BY <3>2
    <3>4. Len(r.wire) <= MaxWire /\ Len(r.got) <= r.req.size
      BY <3>1 DEF CallOK
    <3> QED BY <3>1, <3>2, <3>3, <3>4
  <2> QED BY <2>1, <2>2, <2>3 DEF TypeOK, ClientType
<1> QED BY <1>1, Invariance, PTL

(***************************************************************************)
(* StatusArrives: whatever status a handler answers with, in the response  *)
(* or as the gRPC status, Finish reports that status to the client.        *)
(***************************************************************************)
THEOREM PutStatusCrosses == Spec => []StatusArrives
<1>1. IInv => StatusArrives
  <2> SUFFICES ASSUME IInv, NEW c \in Clients, cl[c].pc = "finish", Chan(c).answer # NoReply
               PROVE  FinishCode(Chan(c)) = Chan(c).answer.code
    BY DEF StatusArrives
  <2>1. PICK r \in CallType : r = Chan(c) /\ CallOK(r)
    BY DEF IInv, Types, ClientOK, Live, Chan
  <2> QED BY <2>1, FinishFacts DEF IsOver
<1> QED BY <1>1, Invariance, PTL

(***************************************************************************)
(* UnchangedSourceIsAccepted: an upload that ends with Corruption had its  *)
(* source modified after it was hashed.  On an unbroken call the frames,   *)
(* cut and read in pieces of any size, make up the bytes of the source, so *)
(* the handler gets exactly what was hashed.                               *)
(***************************************************************************)
THEOREM UnchangedUploadsPass == Spec => []UnchangedSourceIsAccepted
<1>1. IInv => UnchangedSourceIsAccepted
  BY DEF IInv, ClientOK, UnchangedSourceIsAccepted
<1> QED BY <1>1, Invariance, PTL

=============================================================================
