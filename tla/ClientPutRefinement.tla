------------------------- MODULE ClientPutRefinement -------------------------
(***************************************************************************)
(* Put and Delete from end to end implement ObjectStore.                   *)
(*                                                                         *)
(* The abstract operation of a call is asked for when the request is sent, *)
(* takes effect when the handler links or unlinks the chunk, is decided    *)
(* when the handler answers a client that still listens, lost when it      *)
(* answers nobody or dies, and told when the client returns.               *)
(***************************************************************************)
EXTENDS ClientPutProofs

-----------------------------------------------------------------------------
(***************************************************************************)
(* The mapping, call by call.                                              *)
(***************************************************************************)

(* What ObjectStore sees of a call is the same. *)
Same(r, q) == q.asked = r.asked /\ StateOf(q) = StateOf(r)

(* ToldOf, in terms of the clients f and the operation a of call k. *)
ToldBy(f, k, a) ==
    LET T == {c \in Clients : f[c].chan = k /\ f[c].pc = "done" /\ a # NoAsk}
    IN  IF T = {} THEN NoReply ELSE f[CHOOSE c \in T : TRUE].code

SameTold(k) == ToldBy(cl', k, call'[k].asked) = ToldBy(cl, k, call[k].asked)

SameElsewhere(k) == \A j \in Calls : j # k => Same(call[j], call'[j])

(* The abstract variables. *)
LEMMA Mapping ==
    /\ \A k \in Calls : ToldOf(k) = ToldBy(cl, k, call[k].asked)
    /\ \A k \in Calls : ToldOf(k)' = ToldBy(cl', k, call'[k].asked)
    /\ \A k \in Calls : StateOf(call[k])' = StateOf(call'[k])
BY DEF ToldOf, ToldBy, StateOf

(* The steps of ObjectStore. *)
LEMMA IsStutter ==
    ASSUME UNCHANGED store, \A j \in Calls : Same(call[j], call'[j]),
           \A j \in Calls : SameTold(j)
    PROVE  UNCHANGED Object!vars
BY Mapping DEF Object!vars, Object!store, store, Same, SameTold

LEMMA IsAsk ==
    ASSUME NEW k \in Calls, UNCHANGED store, SameElsewhere(k), \A j \in Calls : SameTold(j),
           StateOf(call[k]) = "none", call'[k].asked \in Object!Operation,
           StateOf(call'[k]) = "pending"
    PROVE  Object!Ask(k)
BY Mapping DEF Object!Ask, Object!store, store, Same, SameTold, SameElsewhere

LEMMA IsTakeEffect ==
    ASSUME NEW k \in Calls, SameElsewhere(k), \A j \in Calls : SameTold(j),
           StateOf(call[k]) = "pending", call'[k].asked = call[k].asked,
           StateOf(call'[k]) = "effected",
           \/ /\ call[k].asked.kind = "put" /\ call[k].asked.payload \in Contents
              /\ Store!Commit(call[k].asked.id, call[k].asked.payload)
           \/ call[k].asked.kind = "delete" /\ Store!Remove(call[k].asked.id)
    PROVE  Object!TakeEffect(k)
<1> DEFINE A == [j \in Calls |-> call[j].asked]
           S == [j \in Calls |-> StateOf(call[j])]
           T == [j \in Calls |-> ToldOf(j)]
<1>1. A' = A /\ T' = T
  BY Mapping DEF Same, SameTold, SameElsewhere
<1>2. S[k] = "pending" /\ S' = [S EXCEPT ![k] = "effected"]
  BY Mapping DEF Same, SameElsewhere
<1>3. A[k] = call[k].asked
  OBVIOUS
<1>4. ASSUME NEW id, NEW d
      PROVE  /\ Store!Commit(id, d) <=> Object!Store!Commit(id, d)
             /\ Store!Remove(id) <=> Object!Store!Remove(id)
  BY DEF Object!Store!Commit, Object!Store!Remove, Object!Store!Change,
         Store!Commit, Store!Remove, Store!Change
<1> QED BY <1>1, <1>2, <1>3, <1>4 DEF Object!TakeEffect

LEMMA IsDecide ==
    ASSUME NEW k \in Calls, SameElsewhere(k), \A j \in Calls : SameTold(j),
           call'[k].asked = call[k].asked, NEW code, StateOf(call'[k]) = code,
           \/ code = "Ok" /\ StateOf(call[k]) = "effected"
           \/ code \in Object!Definite \ {"Ok"} /\ StateOf(call[k]) = "pending"
           \/ code \in Object!Indefinite /\ StateOf(call[k]) \in {"pending", "effected"},
           code = "AlreadyExists" => chunks[call[k].asked.id] # NoContent,
           code = "NotFound" => chunks[call[k].asked.id] = NoContent,
           IF code = "Ok" /\ call[k].asked.kind = "put" THEN Store!Sync ELSE UNCHANGED store
    PROVE  Object!Decide(k)
<1> DEFINE A == [j \in Calls |-> call[j].asked]
           S == [j \in Calls |-> StateOf(call[j])]
           T == [j \in Calls |-> ToldOf(j)]
<1>1. A' = A /\ T' = T
  BY Mapping DEF Same, SameTold, SameElsewhere
<1>2. S[k] = StateOf(call[k]) /\ S'[k] = code /\ S' = [S EXCEPT ![k] = code]
  BY Mapping DEF Same, SameElsewhere
<1>3. A[k] = call[k].asked
  OBVIOUS
<1>4. /\ Store!Sync <=> Object!Store!Sync
      /\ UNCHANGED store <=> UNCHANGED Object!store
  BY DEF Object!Store!Sync, Store!Sync, store, Object!store
<1> QED BY <1>1, <1>2, <1>3, <1>4 DEF Object!Decide, Object!Running

LEMMA IsTell ==
    ASSUME NEW k \in Calls, UNCHANGED store, \A j \in Calls : Same(call[j], call'[j]),
           StateOf(call[k]) # "none",
           ToldBy(cl, k, call[k].asked) = NoReply,
           NEW code, ToldBy(cl', k, call'[k].asked) = code,
           code \in Object!Indefinite \cup ({StateOf(call[k])} \cap Object!Definite),
           \A j \in Calls : j # k => SameTold(j)
    PROVE  Object!Tell(k)
<1> DEFINE A == [j \in Calls |-> call[j].asked]
           S == [j \in Calls |-> StateOf(call[j])]
           T == [j \in Calls |-> ToldOf(j)]
<1>1. A' = A /\ S' = S
  BY Mapping DEF Same
<1>2. T[k] = NoReply /\ T'[k] = code /\ T' = [T EXCEPT ![k] = code]
  BY Mapping DEF SameTold
<1>3. S[k] = StateOf(call[k])
  OBVIOUS
<1>4. UNCHANGED Object!store
  BY DEF store, Object!store
<1> QED BY <1>1, <1>2, <1>3, <1>4 DEF Object!Tell

LEMMA IsLeave ==
    ASSUME NEW k \in Calls, UNCHANGED store, SameElsewhere(k),
           \A j \in Calls : j # k => SameTold(j), ToldBy(cl', k, call'[k].asked) = NoReply,
           IF StateOf(call[k]) \in {"pending", "effected"} THEN Same(call[k], call'[k])
           ELSE call'[k].asked = NoAsk /\ StateOf(call'[k]) = "none"
    PROVE  Object!Leave(k)
<1> DEFINE A == [j \in Calls |-> call[j].asked]
           S == [j \in Calls |-> StateOf(call[j])]
           T == [j \in Calls |-> ToldOf(j)]
<1>1. T' = [T EXCEPT ![k] = NoReply]
  BY Mapping DEF SameTold
<1>2. S[k] = StateOf(call[k])
  OBVIOUS
<1>3. CASE StateOf(call[k]) \in {"pending", "effected"}
  <2>1. A' = A /\ S' = S
    BY <1>3, Mapping DEF Same, SameElsewhere
  <2> QED BY <1>1, <1>2, <1>3, <2>1 DEF Object!Leave, Object!Running, store, Object!store
<1>4. CASE StateOf(call[k]) \notin {"pending", "effected"}
  <2>1. A' = [A EXCEPT ![k] = NoAsk] /\ S' = [S EXCEPT ![k] = "none"]
    BY <1>4, Mapping DEF Same, SameElsewhere
  <2> QED BY <1>1, <1>2, <1>4, <2>1 DEF Object!Leave, Object!Running, store, Object!store
<1> QED BY <1>3, <1>4

(* The operation of a call is forgotten or lost. *)
Dropped(r, q) == \/ q.asked = NoAsk /\ StateOf(q) = "none"
                 \/ q.asked = r.asked /\ StateOf(q) = "lost"

LEMMA IsLose ==
    ASSUME NEW k \in Calls, SameElsewhere(k), \A j \in Calls : SameTold(j),
           StateOf(call[k]) \in {"pending", "effected"}, Dropped(call[k], call'[k]),
           Store!Sync \/ UNCHANGED store
    PROVE  Object!Lose(k)
<1> DEFINE A == [j \in Calls |-> call[j].asked]
           S == [j \in Calls |-> StateOf(call[j])]
           T == [j \in Calls |-> ToldOf(j)]
<1>1. T' = T
  BY Mapping DEF SameTold
<1>2. S[k] \in {"pending", "effected"} /\ S'[k] \in {"none", "lost"}
  BY Mapping DEF Dropped
<1>3. S' = [j \in Calls |-> IF j \in {k} THEN S'[j] ELSE S[j]]
  BY Mapping DEF Same, SameElsewhere
<1>4. A' = [j \in Calls |-> IF j \in {k} /\ S'[j] = "none" THEN NoAsk ELSE A[j]]
  BY Mapping DEF Same, SameElsewhere, Dropped
<1>5. Object!Lost({k})
  BY <1>1, <1>2, <1>3, <1>4 DEF Object!Lost
<1>6. Object!Store!Sync \/ UNCHANGED Object!store
  BY DEF Object!Store!Sync, Store!Sync, store, Object!store
<1> QED BY <1>2, <1>5, <1>6 DEF Object!Lose, Object!Running

LEMMA IsCrash ==
    ASSUME \A j \in Calls : SameTold(j), Store!PowerLoss \/ UNCHANGED store,
           \A k \in Calls : IF StateOf(call[k]) \in {"pending", "effected"}
                             THEN Dropped(call[k], call'[k]) ELSE Same(call[k], call'[k])
    PROVE  Object!Crash
<1> DEFINE A == [j \in Calls |-> call[j].asked]
           S == [j \in Calls |-> StateOf(call[j])]
           T == [j \in Calls |-> ToldOf(j)]
           K == {k \in Calls : Object!Running(k)}
<1>1. T' = T
  BY Mapping DEF SameTold
<1>2. \A k \in Calls : k \in K <=> StateOf(call[k]) \in {"pending", "effected"}
  BY DEF Object!Running
<1> HIDE DEF K
<1>3. \A k \in Calls : S[k] = StateOf(call[k]) /\ S'[k] = StateOf(call'[k])
                        /\ A[k] = call[k].asked /\ A'[k] = call'[k].asked
  BY Mapping
<1>4. /\ S' = [j \in Calls |-> IF j \in K THEN S'[j] ELSE S[j]]
      /\ \A k \in K \cap Calls : S'[k] \in {"none", "lost"}
  BY <1>2, <1>3, Mapping DEF Same, Dropped
<1>5. A' = [j \in Calls |-> IF j \in K /\ S'[j] = "none" THEN NoAsk ELSE A[j]]
  BY <1>2, <1>3, Mapping DEF Same, Dropped
<1>6. K \subseteq Calls
  BY DEF K
<1>7. Object!Lost(K)
  BY <1>1, <1>4, <1>5, <1>6 DEF Object!Lost
<1>8. Object!Store!PowerLoss \/ UNCHANGED Object!store
  BY DEF Object!Store!PowerLoss, Store!PowerLoss, Object!Store!Payloads, Store!Payloads,
         store, Object!store
<1> QED BY <1>7, <1>8 DEF Object!Crash, K

-----------------------------------------------------------------------------
(***************************************************************************)
(* Lemmas about what callers were told.                                    *)
(***************************************************************************)
Apart(f) == \A c, d \in Clients : c # d /\ f[c].chan = f[d].chan => f[c].chan = NoCall

LEMMA ToldFacts ==
    ASSUME NEW f, Apart(f), NEW k \in Calls, NEW a, NEW c \in Clients, f[c].chan = k
    PROVE  ToldBy(f, k, a) = IF f[c].pc = "done" /\ a # NoAsk THEN f[c].code ELSE NoReply
<1> DEFINE T == {d \in Clients : f[d].chan = k /\ f[d].pc = "done" /\ a # NoAsk}
<1>1. \A d \in T : d = c
  BY PutAssumption DEF Apart
<1>2. CASE f[c].pc = "done" /\ a # NoAsk
  <2>1. c \in T
    BY <1>2
  <2>2. T # {} /\ (CHOOSE d \in T : TRUE) = c
    BY <1>1, <2>1
  <2> QED BY <1>2, <2>2 DEF ToldBy
<1>3. CASE ~(f[c].pc = "done" /\ a # NoAsk)
  <2>1. T = {}
    BY <1>1, <1>3
  <2> QED BY <1>3, <2>1 DEF ToldBy
<1> QED BY <1>2, <1>3

LEMMA ToldNobody ==
    ASSUME NEW f, NEW k \in Calls, NEW a, \A c \in Clients : f[c].chan # k
    PROVE  ToldBy(f, k, a) = NoReply
<1>1. {d \in Clients : f[d].chan = k /\ f[d].pc = "done" /\ a # NoAsk} = {}
  OBVIOUS
<1> QED BY <1>1 DEF ToldBy

(* The clients of a call are the same, and so is its operation. *)
LEMMA ToldKept ==
    ASSUME NEW f, NEW g, NEW k \in Calls, NEW a,
           \A c \in Clients : f[c].chan = k \/ g[c].chan = k => f[c] = g[c]
    PROVE  ToldBy(f, k, a) = ToldBy(g, k, a)
<1> DEFINE T == {d \in Clients : f[d].chan = k /\ f[d].pc = "done" /\ a # NoAsk}
           U == {d \in Clients : g[d].chan = k /\ g[d].pc = "done" /\ a # NoAsk}
<1>1. T = U
  OBVIOUS
<1>2. CASE T = {}
  BY <1>1, <1>2 DEF ToldBy
<1>3. CASE T # {}
  <2>1. PICK d \in T : d = CHOOSE e \in T : TRUE
    BY <1>3
  <2>2. f[d] = g[d] /\ d = CHOOSE e \in U : TRUE
    BY <1>1, <2>1
  <2>3. ToldBy(f, k, a) = f[d].code
    BY <1>3, <2>1 DEF ToldBy
  <2>4. ToldBy(g, k, a) = g[d].code
    BY <1>1, <1>3, <2>2 DEF ToldBy
  <2> QED BY <2>2, <2>3, <2>4
<1> QED BY <1>2, <1>3

(* A handler tells nobody. *)
LEMMA HandlerTells ==
    ASSUME cl' = cl, NEW k \in Calls, call'[k].asked = call[k].asked \/ ~Attended(k)
    PROVE  SameTold(k)
<1>1. CASE call'[k].asked = call[k].asked
  BY <1>1 DEF SameTold
<1>2. CASE ~Attended(k)
  BY <1>2, ToldNobody DEF Attended, SameTold
<1> QED BY <1>1, <1>2

(* A client that has not returned was not told, and a step of it concerns  *)
(* only its own call.                                                      *)
LEMMA ClientTells ==
    ASSUME IInv, IInv', NEW c \in Clients, \A d \in Clients : d # c => cl'[d] = cl[d],
           NEW k \in Calls, cl[c].chan = k => cl[c].pc # "done",
           cl'[c].chan = k => cl'[c].pc # "done",
           cl[c].chan # k /\ cl'[c].chan # k => call'[k].asked = call[k].asked,
           cl[c].chan # k /\ cl'[c].chan = k => ~Attended(k),
           cl[c].chan = k => cl'[c].chan = k
    PROVE  SameTold(k)
<1>0. Apart(cl) /\ Apart(cl')
  BY DEF IInv, ChansApart, Apart
<1>1. CASE cl[c].chan = k
  <2>1. ToldBy(cl, k, call[k].asked) = NoReply
    BY <1>0, <1>1, ToldFacts
  <2>2. ToldBy(cl', k, call'[k].asked) = NoReply
    BY <1>0, <1>1, ToldFacts
  <2> QED BY <2>1, <2>2 DEF SameTold
<1>2. CASE cl[c].chan # k /\ cl'[c].chan = k
  <2>1. ToldBy(cl, k, call[k].asked) = NoReply
    BY <1>2, ToldNobody DEF Attended
  <2>2. ToldBy(cl', k, call'[k].asked) = NoReply
    BY <1>0, <1>2, ToldFacts
  <2> QED BY <2>1, <2>2 DEF SameTold
<1>3. CASE cl[c].chan # k /\ cl'[c].chan # k
  <2>1. \A d \in Clients : cl'[d].chan = k \/ cl[d].chan = k => cl'[d] = cl[d]
    BY <1>3
  <2>2. ToldBy(cl', k, call[k].asked) = ToldBy(cl, k, call[k].asked)
    BY <2>1, ToldKept
  <2> QED BY <1>3, <2>2 DEF SameTold
<1> QED BY <1>1, <1>2, <1>3

-----------------------------------------------------------------------------
(***************************************************************************)
(* The steps of the client.                                                *)
(***************************************************************************)
Abstractly == Object!Next \/ UNCHANGED Object!vars

LEMMA ClientStutters ==
    ASSUME IInv, IInv', NEW c \in Clients, \A d \in Clients : d # c => cl'[d] = cl[d],
           UNCHANGED store, cl[c].pc # "done", cl'[c].pc # "done" \/ cl'[c].chan = NoCall,
           \/ cl'[c].chan = cl[c].chan
           \/ cl[c].chan = NoCall /\ cl'[c].chan \in Calls /\ ~Attended(cl'[c].chan),
           \A j \in Calls : Same(call[j], call'[j])
    PROVE  Abstractly
<1>1. \A k \in Calls : SameTold(k)
  BY ClientTells, PutAssumption DEF Same
<1> QED BY <1>1, IsStutter DEF Abstractly

LEMMA SameCall ==
    ASSUME NEW r, NEW q, q.asked = r.asked, q.answer = r.answer, q.pc = r.pc
    PROVE  Same(r, q)
BY DEF Same, StateOf

(* Steps before there is a call, and edits of the source. *)
LEMMA EarlyAbstract ==
    ASSUME IInv, IInv', NEW c \in Clients,
           \/ PutOpenFails(c) \/ \E id \in ChunkIds : Refused(c, id)
           \/ \E d \in Sources : EditSource(c, d) \/ \E id \in ChunkIds : PutHash(c, id, d)
    PROVE  Abstractly
<1>0. cl \in [Clients -> ClientType] /\ ClientOK(cl[c])
  BY DEF IInv, Types
<1>1. /\ call' = call /\ UNCHANGED store /\ cl[c].pc # "done"
      /\ cl[c].pc \in {"idle", "open"} => cl[c].chan = NoCall
  BY <1>0 DEF PutOpenFails, Refused, EditSource, PutHash, ClientOK
<1>2. /\ \A d \in Clients : d # c => cl'[d] = cl[d]
      /\ cl'[c].chan = cl[c].chan /\ (cl'[c].pc # "done" \/ cl'[c].chan = NoCall)
  <2>1. CASE PutOpenFails(c) \/ \E id \in ChunkIds : Refused(c, id)
    <3>1. PICK code : Returns(c, code) /\ cl[c].pc \in {"idle", "open"}
      BY <2>1 DEF PutOpenFails, Refused
    <3>2. /\ \A d \in Clients : d # c => cl'[d] = cl[d]
          /\ cl'[c].chan = cl[c].chan
      BY <1>0, <3>1 DEF Returns, Idle
    <3> QED BY <1>1, <3>1, <3>2
  <2>2. CASE \E d \in Sources : EditSource(c, d)
    BY <1>0, <2>2 DEF EditSource, ClientType
  <2>3. CASE \E d \in Sources : \E id \in ChunkIds : PutHash(c, id, d)
    <3>1. PICK s, m : cl' = [cl EXCEPT ![c].pc = "open", ![c].source = s, ![c].want = m]
      BY <2>3 DEF PutHash
    <3> QED BY <1>0, <3>1 DEF ClientType
  <2> QED BY <2>1, <2>2, <2>3
<1>3. \A j \in Calls : Same(call[j], call'[j])
  BY <1>1 DEF Same
<1> QED BY <1>1, <1>2, <1>3, ClientStutters

(* A call is opened, frames are sent, the stream ends, the call breaks. *)
LEMMA StreamAbstract ==
    ASSUME IInv, IInv', NEW c \in Clients,
           \/ \E k \in Calls : PutOpen(c, k) \/ RawStart(c, k)
           \/ \E n \in 1..MaxSize : PutSend(c, n)
           \/ PutSendEnds(c) \/ RawEnds(c) \/ \E code \in Breaks : Break(c, code)
    PROVE  Abstractly
<1>0. cl \in [Clients -> ClientType] /\ ClientOK(cl[c]) /\ call \in [Calls -> CallType]
  BY DEF IInv, Types
<1>1. CASE \E k \in Calls : PutOpen(c, k) \/ RawStart(c, k)
  <2>1. PICK k \in Calls : PutOpen(c, k) \/ RawStart(c, k)
    BY <1>1
  <2>2. /\ UNCHANGED store /\ cl[c].pc # "done" /\ cl[c].chan = NoCall
        /\ call[k] = Fresh /\ ~Attended(k) /\ call' = [call EXCEPT ![k].pc = "first"]
    BY <1>0, <2>1 DEF PutOpen, RawStart, StartCall, ClientOK
  <2>3. /\ \A d \in Clients : d # c => cl'[d] = cl[d]
        /\ cl'[c].chan = k /\ cl'[c].pc # "done"
    BY <1>0, <2>1 DEF PutOpen, RawStart, ClientType
  <2>4. ASSUME NEW j \in Calls PROVE Same(call[j], call'[j])
    <3>1. CASE j # k
      BY <1>0, <2>2, <3>1 DEF Same
    <3>2. CASE j = k
      <4>1. call'[k].asked = NoAsk /\ call[k].asked = NoAsk
        BY <1>0, <2>2 DEF Fresh, CallType
      <4> QED BY <3>2, <4>1 DEF Same, StateOf
    <3> QED BY <3>1, <3>2
  <2> QED BY <2>2, <2>3, <2>4, ClientStutters
<1>2. CASE (\E n \in 1..MaxSize : PutSend(c, n)) \/ PutSendEnds(c) \/ RawEnds(c)
  <2>1. cl[c].pc \in Live /\ cl[c].pc # "done"
    BY <1>2 DEF PutSend, PutSendEnds, RawEnds, Live
  <2>2. PICK k \in Calls : k = cl[c].chan
    BY <1>0, <2>1 DEF ClientOK
  <2>3. /\ UNCHANGED store /\ cl'[c].pc # "done" /\ cl'[c].chan = cl[c].chan
        /\ \A d \in Clients : d # c => cl'[d] = cl[d]
    <3>1. CASE \E n \in 1..MaxSize : PutSend(c, n)
      <4>1. PICK i : cl' = [cl EXCEPT ![c].pos = i]
        BY <3>1 DEF PutSend
      <4>2. UNCHANGED store
        BY <3>1 DEF PutSend
      <4> QED BY <1>0, <2>1, <4>1, <4>2 DEF ClientType
    <3>2. CASE PutSendEnds(c)
      BY <1>0, <3>2 DEF PutSendEnds, ClientType
    <3>3. CASE RawEnds(c)
      BY <1>0, <3>3 DEF RawEnds, ClientType
    <3> QED BY <1>2, <3>1, <3>2, <3>3
  <2>4. PICK w, b : call' = [call EXCEPT ![k].wire = w, ![k].closed = b]
    <3>1. CASE \E n \in 1..MaxSize : PutSend(c, n)
      <4>1. PICK w : call' = [call EXCEPT ![k].wire = w]
        BY <2>2, <3>1 DEF PutSend
      <4>2. call' = [call EXCEPT ![k].wire = w, ![k].closed = call[k].closed]
        BY <1>0, <4>1 DEF CallType
      <4> QED BY <4>2
    <3>2. CASE PutSendEnds(c) \/ RawEnds(c)
      <4>1. call' = [call EXCEPT ![k].closed = TRUE]
        BY <2>2, <3>2 DEF PutSendEnds, RawEnds
      <4>2. call' = [call EXCEPT ![k].wire = call[k].wire, ![k].closed = TRUE]
        BY <1>0, <4>1 DEF CallType
      <4> QED BY <4>2
    <3> QED BY <1>2, <3>1, <3>2
  <2>5. ASSUME NEW j \in Calls PROVE Same(call[j], call'[j])
    <3>1. /\ call'[j].asked = call[j].asked /\ call'[j].answer = call[j].answer
          /\ call'[j].pc = call[j].pc
      BY <1>0, <2>4 DEF CallType
    <3> QED BY <3>1, SameCall
  <2> QED BY <2>1, <2>3, <2>5, ClientStutters
<1>3. CASE \E code \in Breaks : Break(c, code)
  <2>1. PICK code : /\ call' = [call EXCEPT ![cl[c].chan].broken = code] /\ UNCHANGED store
                    /\ cl' = cl /\ cl[c].pc # "done"
    BY <1>3 DEF Break
  <2>2. ASSUME NEW j \in Calls PROVE Same(call[j], call'[j])
    <3>1. /\ call'[j].asked = call[j].asked /\ call'[j].answer = call[j].answer
          /\ call'[j].pc = call[j].pc
      BY <1>0, <2>1 DEF CallType
    <3> QED BY <3>1, SameCall
  <2>3. \A k \in Calls : SameTold(k)
    BY <2>1, <2>2, HandlerTells DEF Same
  <2> QED BY <2>1, <2>2, <2>3, IsStutter DEF Abstractly
<1> QED BY <1>1, <1>2, <1>3

(* A request is sent. *)
LEMMA ClientAsks ==
    ASSUME IInv, IInv', NEW c \in Clients, NEW k \in Calls,
           \A d \in Clients : d # c => cl'[d] = cl[d],
           UNCHANGED store, cl[c].pc # "done", cl'[c].pc # "done", cl'[c].chan = k,
           cl[c].chan = k \/ (cl[c].chan = NoCall /\ ~Attended(k)),
           SameElsewhere(k), call[k].asked = NoAsk,
           call'[k].asked \in Object!Operation, call'[k].asked # NoAsk,
           call'[k].answer = NoReply, call'[k].pc \in {"first", "delete"}
    PROVE  Abstractly
<1>1. ASSUME NEW j \in Calls PROVE SameTold(j)
  <2>1. j # k => call'[j].asked = call[j].asked
    BY DEF SameElsewhere, Same
  <2> QED BY <2>1, ClientTells, PutAssumption
<1>2. StateOf(call[k]) = "none" /\ StateOf(call'[k]) = "pending"
  BY DEF StateOf
<1>3. Object!Ask(k)
  BY <1>1, <1>2, IsAsk
<1> QED BY <1>3 DEF Abstractly, Object!Next

LEMMA AskAbstract ==
    ASSUME IInv, IInv', NEW c \in Clients,
           \/ PutMetadata(c) \/ \E f \in RawFrames : RawSend(c, f)
           \/ \E k \in Calls, id \in ChunkIds : DeleteStart(c, k, id)
    PROVE  Abstractly
<1>0. cl \in [Clients -> ClientType] /\ ClientOK(cl[c]) /\ call \in [Calls -> CallType]
  BY DEF IInv, Types
<1>1. CASE PutMetadata(c)
  <2>1. cl[c].pc = "metadata" /\ cl[c].pc \in Live /\ UNCHANGED store /\ ~Over(cl[c].chan)
    BY <1>1 DEF PutMetadata, Live
  <2>2. PICK k \in Calls, r \in CallType :
          /\ k = cl[c].chan /\ r = call[k] /\ CallOK(r) /\ Attends(cl[c], r)
          /\ Over(k) = IsOver(r)
    BY <2>1, LiveCall
  <2>3. r.asked = NoAsk /\ r.pc = "first" /\ r.answer = NoReply
    BY <2>1, <2>2 DEF Attends, Quiet, IsOver
  <2>4. PICK m \in Metadata : m = cl[c].want
    BY <1>0 DEF ClientType
  <2>5. PICK o \in Object!Operation : o = Asks("put", m) /\ o # NoAsk
    BY AsksOperation
  <2>6. PICK w : call' = [call EXCEPT ![k].wire = w, ![k].asked = o]
    BY <1>1, <2>2, <2>4, <2>5 DEF PutMetadata
  <2>7. /\ call'[k].asked = o /\ call'[k].answer = NoReply /\ call'[k].pc = "first"
        /\ \A j \in Calls : j # k => call'[j] = call[j]
    BY <1>0, <2>2, <2>3, <2>6 DEF CallType
  <2>8. SameElsewhere(k)
    BY <2>7 DEF SameElsewhere, Same
  <2>9. /\ cl'[c].pc # "done" /\ cl'[c].chan = k
        /\ \A d \in Clients : d # c => cl'[d] = cl[d]
    BY <1>0, <1>1, <2>2 DEF PutMetadata, ClientType
  <2> QED BY <2>1, <2>2, <2>3, <2>5, <2>7, <2>8, <2>9, ClientAsks
<1>2. CASE \E f \in RawFrames : RawSend(c, f)
  <2>0. PICK f \in RawFrames : RawSend(c, f)
    BY <1>2
  <2>1. cl[c].pc = "raw" /\ cl[c].pc \in Live /\ UNCHANGED store /\ ~Over(cl[c].chan)
    BY <2>0 DEF RawSend, Live
  <2>2. PICK k \in Calls, r \in CallType :
          /\ k = cl[c].chan /\ r = call[k] /\ CallOK(r) /\ Attends(cl[c], r)
          /\ Over(k) = IsOver(r)
    BY <2>1, LiveCall
  <2>3. PICK i : cl' = [cl EXCEPT ![c].pos = i]
    BY <2>0 DEF RawSend
  <2>4. /\ cl'[c].pc # "done" /\ cl'[c].chan = k
        /\ \A d \in Clients : d # c => cl'[d] = cl[d]
    BY <1>0, <2>1, <2>2, <2>3 DEF ClientType
  <2>5. PICK a : a = IF cl[c].pos = 0 /\ "metadata" \in DOMAIN f
                     THEN Asks("put", f.metadata) ELSE r.asked
    OBVIOUS
  <2>6. PICK w : call' = [call EXCEPT ![k].wire = w, ![k].asked = a]
    BY <2>0, <2>2, <2>5 DEF RawSend
  <2>7. /\ call'[k].asked = a /\ call'[k].answer = r.answer /\ call'[k].pc = r.pc
        /\ \A j \in Calls : j # k => call'[j] = call[j]
    BY <1>0, <2>2, <2>6 DEF CallType
  <2>8. SameElsewhere(k)
    BY <2>7 DEF SameElsewhere, Same
  <2>9. CASE cl[c].pos = 0 /\ "metadata" \in DOMAIN f
    <3>1. r.asked = NoAsk /\ r.pc = "first" /\ r.answer = NoReply
      BY <2>1, <2>2, <2>9 DEF Attends, Quiet, IsOver
    <3>2. PICK m \in Metadata : m = f.metadata
      BY <2>9, FrameFields, PutAssumption
    <3>3. a \in Object!Operation /\ a # NoAsk
      BY <2>5, <2>9, <3>2, AsksOperation
    <3> QED BY <2>1, <2>2, <2>4, <2>7, <2>8, <3>1, <3>3, ClientAsks
  <2>10. CASE ~(cl[c].pos = 0 /\ "metadata" \in DOMAIN f)
    <3>1. \A j \in Calls : Same(call[j], call'[j])
      BY <2>2, <2>5, <2>7, <2>8, <2>10, SameCall DEF SameElsewhere
    <3> QED BY <2>1, <2>2, <2>4, <3>1, ClientStutters
  <2> QED BY <2>9, <2>10
<1>3. CASE \E k \in Calls, id \in ChunkIds : DeleteStart(c, k, id)
  <2>0. PICK k \in Calls, id \in ChunkIds : DeleteStart(c, k, id)
    BY <1>3
  <2>1. /\ cl[c].pc # "done" /\ cl[c].chan = NoCall /\ ~Attended(k) /\ call[k] = Fresh
        /\ UNCHANGED store
    BY <1>0, <2>0 DEF DeleteStart, ClientOK
  <2>2. /\ cl'[c].pc # "done" /\ cl'[c].chan = k
        /\ \A d \in Clients : d # c => cl'[d] = cl[d]
    <3>1. cl' = [cl EXCEPT ![c].pc = "finish", ![c].op = "delete", ![c].chan = k]
      BY <2>0 DEF DeleteStart
    <3> QED BY <1>0, <3>1 DEF ClientType
  <2>3. PICK m : m = [NoWant EXCEPT !.id = id]
    OBVIOUS
  <2>4. m \in Metadata
    BY <2>3, RestTypes DEF Metadata
  <2>5. PICK o \in Object!Operation : o = Asks("delete", m) /\ o # NoAsk
    BY <2>4, AsksOperation
  <2>6. call' = [call EXCEPT ![k].pc = "delete", ![k].req = m, ![k].asked = o]
    BY <2>0, <2>3, <2>5 DEF DeleteStart
  <2>7. /\ call'[k].asked = o /\ call'[k].answer = call[k].answer /\ call'[k].pc = "delete"
        /\ \A j \in Calls : j # k => call'[j] = call[j]
    BY <1>0, <2>6 DEF CallType
  <2>8. call[k].asked = NoAsk /\ call[k].answer = NoReply
    BY <2>1 DEF Fresh
  <2>9. SameElsewhere(k)
    BY <2>7 DEF SameElsewhere, Same
  <2> QED BY <2>1, <2>2, <2>5, <2>7, <2>8, <2>9, ClientAsks
<1> QED BY <1>1, <1>2, <1>3

(* A client returns. *)
LEMMA ClientTold ==
    ASSUME IInv, IInv', NEW c \in Clients, NEW k \in Calls, k = cl[c].chan,
           cl[c].pc # "done", NEW code \in StatusCode, Returns(c, code), UNCHANGED store,
           \A j \in Calls : Same(call[j], call'[j]),
           call[k].asked # NoAsk =>
             code \in Object!Indefinite \cup ({StateOf(call[k])} \cap Object!Definite),
           call[k].asked # NoAsk => StateOf(call[k]) # "none"
    PROVE  Abstractly
<1>0. Apart(cl) /\ Apart(cl') /\ cl \in [Clients -> ClientType]
  BY DEF IInv, ChansApart, Apart, Types
<1>1. PICK x \in ClientType :
             /\ cl' = [cl EXCEPT ![c] = x]
             /\ x.pc = "done" /\ x.code = code /\ x.chan = k
  BY ReturnsRecord
<1>2. cl'[c] = x /\ \A d \in Clients : d # c => cl'[d] = cl[d]
  BY <1>0, <1>1
<1>3. ToldBy(cl, k, call[k].asked) = NoReply
  BY <1>0, ToldFacts
<1>4. call'[k].asked = call[k].asked
  BY DEF Same
<1>5. ToldBy(cl', k, call'[k].asked) = IF call[k].asked # NoAsk THEN code ELSE NoReply
  <2>1. cl'[c].chan = k /\ cl'[c].pc = "done" /\ cl'[c].code = code
    BY <1>1, <1>2
  <2>2. PICK a : a = call[k].asked
    OBVIOUS
  <2>3. PICK f : f = cl' /\ Apart(f) /\ f[c].chan = k /\ f[c].pc = "done" /\ f[c].code = code
    BY <1>0, <2>1
  <2>4. ToldBy(f, k, a) = IF f[c].pc = "done" /\ a # NoAsk THEN f[c].code ELSE NoReply
    BY <2>3, ToldFacts
  <2> QED BY <1>4, <2>2, <2>3, <2>4
<1>6. ASSUME NEW j \in Calls, j # k PROVE SameTold(j)
  <2>1. \A d \in Clients : cl'[d].chan = j \/ cl[d].chan = j => cl'[d] = cl[d]
    BY <1>1, <1>2, <1>6
  <2>2. ToldBy(cl', j, call[j].asked) = ToldBy(cl, j, call[j].asked)
    BY <2>1, ToldKept
  <2> QED BY <2>2 DEF SameTold, Same
<1>7. CASE call[k].asked # NoAsk
  <2>1. Object!Tell(k)
    BY <1>3, <1>5, <1>6, <1>7, IsTell
  <2> QED BY <2>1 DEF Abstractly, Object!Next
<1>8. CASE call[k].asked = NoAsk
  <2>1. \A j \in Calls : SameTold(j)
    BY <1>3, <1>5, <1>6, <1>8 DEF SameTold
  <2> QED BY <2>1, IsStutter DEF Abstractly
<1> QED BY <1>7, <1>8

LEMMA ReturnAbstract ==
    ASSUME IInv, IInv', NEW c \in Clients, Finish(c) \/ PutSourceFails(c)
    PROVE  Abstractly
<1>0. cl \in [Clients -> ClientType] /\ call \in [Calls -> CallType]
  BY DEF IInv, Types
<1>1. cl[c].pc \in Live /\ cl[c].pc # "done" /\ UNCHANGED store
  BY DEF Finish, PutSourceFails, Live
<1>2. PICK k \in Calls, r \in CallType :
          /\ k = cl[c].chan /\ r = call[k] /\ CallOK(r) /\ Attends(cl[c], r)
          /\ Over(k) = IsOver(r)
  BY <1>1, LiveCall
<1>3. r.asked # NoAsk => StateOf(r) # "none"
  <2>1. r.answer # NoReply => r.answer.code # "none"
    BY <1>2 DEF CallOK, AnswerFits, Object!Definite, Object!Indefinite
  <2> QED BY <2>1 DEF StateOf
<1>4. CASE Finish(c)
  <2>1. /\ IsOver(r) /\ call' = call /\ Returns(c, FinishCode(r))
    BY <1>2, <1>4 DEF Finish, Chan
  <2>2. PICK code \in StatusCode :
          /\ code = FinishCode(r)
          /\ r.answer # NoReply => code = r.answer.code
          /\ r.answer = NoReply => code \in {"Timeout", "Unavailable"}
    BY <1>2, <2>1, FinishFacts
  <2>3. ASSUME r.asked # NoAsk
        PROVE  code \in Object!Indefinite \cup ({StateOf(r)} \cap Object!Definite)
    <3>1. CASE r.answer = NoReply
      BY <2>2, <3>1 DEF Object!Indefinite
    <3>2. CASE r.answer # NoReply
      <4>1. code = StateOf(r)
        BY <2>2, <2>3, <3>2 DEF StateOf
      <4>2. code \in Object!Definite \cup Object!Indefinite
        BY <1>2, <2>2, <3>2 DEF CallOK, AnswerFits
      <4> QED BY <4>1, <4>2
    <3> QED BY <3>1, <3>2
  <2>4. \A j \in Calls : Same(call[j], call'[j])
    BY <2>1 DEF Same
  <2> QED BY <1>1, <1>2, <1>3, <2>1, <2>2, <2>3, <2>4, ClientTold
<1>5. CASE PutSourceFails(c)
  <2>1. Returns(c, "IoError") /\ "IoError" \in StatusCode /\ "IoError" \in Object!Indefinite
    BY <1>5 DEF PutSourceFails, StatusCode, Object!Indefinite
  <2>2. PICK b : call' = [call EXCEPT ![k].closed = TRUE, ![k].broken = b]
    BY <1>2, <1>5 DEF PutSourceFails
  <2>3. ASSUME NEW j \in Calls PROVE Same(call[j], call'[j])
    <3>1. /\ call'[j].asked = call[j].asked /\ call'[j].answer = call[j].answer
          /\ call'[j].pc = call[j].pc
      BY <1>0, <2>2 DEF CallType
    <3> QED BY <3>1, SameCall
  <2> QED BY <1>1, <1>2, <1>3, <2>1, <2>3, ClientTold
<1> QED BY <1>4, <1>5

(* A client leaves its call, or dies. *)
LEMMA LeaveAbstract ==
    ASSUME IInv, IInv', NEW c \in Clients, LeaveCall(c)
    PROVE  Abstractly
<1>0. Apart(cl) /\ Apart(cl') /\ cl \in [Clients -> ClientType] /\ call \in [Calls -> CallType]
  BY DEF IInv, ChansApart, Apart, Types
<1>1. /\ UNCHANGED store /\ cl' = [cl EXCEPT ![c] = Idle]
      /\ call' = [k \in Calls |->
                  IF k # cl[c].chan THEN call[k]
                  ELSE IF call[k].pc = "none" THEN Fresh
                  ELSE [call[k] EXCEPT !.broken = "CANCELLED"]]
  BY DEF LeaveCall
<1>2. cl'[c].chan = NoCall /\ \A d \in Clients : d # c => cl'[d] = cl[d]
  BY <1>0, <1>1 DEF Idle
<1>3. \A j \in Calls : j # cl[c].chan => call'[j] = call[j]
  BY <1>1
<1>4. ASSUME NEW j \in Calls, j # cl[c].chan PROVE SameTold(j)
  <2>1. \A d \in Clients : cl'[d].chan = j \/ cl[d].chan = j => cl'[d] = cl[d]
    BY <1>2, <1>4, PutAssumption
  <2>2. ToldBy(cl', j, call[j].asked) = ToldBy(cl, j, call[j].asked)
    BY <2>1, ToldKept
  <2> QED BY <1>3, <1>4, <2>2 DEF SameTold
<1>5. CASE cl[c].chan \notin Calls
  <2>1. \A j \in Calls : SameTold(j) /\ Same(call[j], call'[j])
    BY <1>3, <1>4, <1>5 DEF Same
  <2> QED BY <1>1, <2>1, IsStutter DEF Abstractly
<1>6. CASE cl[c].chan \in Calls
  <2>0. PICK k \in Calls, r \in CallType : k = cl[c].chan /\ r = call[k] /\ CallOK(r)
    BY <1>0, <1>6 DEF IInv
  <2>1. SameElsewhere(k)
    BY <1>3, <2>0 DEF SameElsewhere, Same
  <2>2. \A d \in Clients : cl'[d].chan # k
    BY <1>0, <1>2, <2>0, PutAssumption DEF Apart
  <2>3. ToldBy(cl', k, call'[k].asked) = NoReply
    BY <2>2, ToldNobody
  <2>4. IF StateOf(r) \in {"pending", "effected"} THEN Same(r, call'[k])
        ELSE call'[k].asked = NoAsk /\ StateOf(call'[k]) = "none"
    <3>1. CASE r.pc = "none"
      <4>1. call'[k] = Fresh
        BY <1>1, <2>0, <3>1
      <4>2. Fresh.asked = NoAsk /\ StateOf(Fresh) = "none"
        BY DEF Fresh, StateOf
      <4>3. StateOf(r) \notin {"pending", "effected"}
        <5>1. r.answer # NoReply => r.answer.code \notin {"pending", "effected"}
          BY <2>0 DEF CallOK, AnswerFits, Object!Definite, Object!Indefinite
        <5> QED BY <3>1, <5>1 DEF StateOf
      <4> QED BY <4>1, <4>2, <4>3
    <3>2. CASE r.pc # "none"
      <4>1. call'[k] = [r EXCEPT !.broken = "CANCELLED"]
        BY <1>1, <2>0, <3>2
      <4>2. /\ call'[k].asked = r.asked /\ call'[k].answer = r.answer /\ call'[k].pc = r.pc
        BY <4>1 DEF CallType
      <4>3. Same(r, call'[k])
        BY <4>2, SameCall
      <4>4. r.answer = NoReply
        BY <2>0, <3>2 DEF CallOK
      <4>5. CASE r.asked = NoAsk
        <5>1. StateOf(r) = "none"
          BY <4>5 DEF StateOf
        <5> QED BY <4>2, <4>3, <4>5, <5>1 DEF Same
      <4>6. CASE r.asked # NoAsk
        <5>1. StateOf(r) \in {"pending", "effected"}
          BY <3>2, <4>4, <4>6 DEF StateOf
        <5> QED BY <4>3, <5>1
      <4> QED BY <4>5, <4>6
    <3> QED BY <3>1, <3>2
  <2>5. Object!Leave(k)
    BY <1>1, <1>4, <2>0, <2>1, <2>3, <2>4, IsLeave
  <2> QED BY <2>5 DEF Abstractly, Object!Next
<1> QED BY <1>5, <1>6

-----------------------------------------------------------------------------
(***************************************************************************)
(* The steps of the handlers.                                              *)
(***************************************************************************)

(* A handler answers: it decides the operation, or loses it. *)
LEMMA AnswerAbstract ==
    ASSUME IInv, NEW k \in Calls, call[k].pc # "none",
           NEW grpc \in GrpcCodes, NEW code \in Object!Definite \cup Object!Indefinite,
           grpc = "OK" \/ FromGrpcStatus(grpc) = code, Answers(k, grpc, code), cl' = cl,
           code = "Ok" => call[k].pc \in {"linked", "unlinked"} /\ call[k].asked # NoAsk,
           code \in Object!Definite \ {"Ok"} => call[k].pc \notin {"linked", "unlinked"},
           code = "AlreadyExists" => chunks[call[k].asked.id] # NoContent,
           code = "NotFound" => chunks[call[k].asked.id] = NoContent,
           IF code = "Ok" /\ call[k].asked.kind = "put" THEN Store!Sync ELSE UNCHANGED store
    PROVE  Abstractly
<1>0. PICK r \in CallType : r = call[k] /\ CallOK(r) /\ call \in [Calls -> CallType]
  BY DEF IInv, Types
<1>1. PICK q \in CallType :
             /\ call' = [call EXCEPT ![k] = q] /\ q.pc = "none"
             /\ IF ~Attended(k) THEN q = Fresh
                ELSE /\ q.asked = r.asked
                     /\ IF r.broken # NoBreak THEN q.answer = NoReply
                        ELSE q.answer # NoReply /\ q.answer.code = code
  BY <1>0, AnswerRecord
<1>2. call'[k] = q /\ \A j \in Calls : j # k => call'[j] = call[j]
  BY <1>0, <1>1
<1>3. SameElsewhere(k)
  BY <1>2 DEF SameElsewhere, Same
<1>4. \A j \in Calls : SameTold(j)
  <2>1. \A j \in Calls : call'[j].asked = call[j].asked \/ ~Attended(j)
    BY <1>0, <1>1, <1>2
  <2> QED BY <2>1, HandlerTells
<1>5. r.answer = NoReply /\ Fresh.asked = NoAsk
  BY <1>0 DEF CallOK, Fresh
<1>6. CASE r.asked = NoAsk
  <2>1. q.asked = NoAsk /\ code # "Ok"
    BY <1>0, <1>1, <1>5, <1>6
  <2>2. Same(r, q)
    BY <1>6, <2>1 DEF Same, StateOf
  <2>3. \A j \in Calls : Same(call[j], call'[j])
    BY <1>0, <1>2, <1>3, <2>2 DEF SameElsewhere
  <2>4. UNCHANGED store
    BY <2>1
  <2> QED BY <1>4, <2>3, <2>4, IsStutter DEF Abstractly
<1>7. CASE r.asked # NoAsk /\ (~Attended(k) \/ r.broken # NoBreak)
  <2>1. StateOf(r) \in {"pending", "effected"}
    BY <1>0, <1>5, <1>7 DEF StateOf
  <2>2. Dropped(r, q)
    BY <1>1, <1>5, <1>7 DEF Dropped, StateOf
  <2>3. Store!Sync \/ UNCHANGED store
    OBVIOUS
  <2>4. Object!Lose(k)
    BY <1>0, <1>2, <1>3, <1>4, <2>1, <2>2, <2>3, IsLose
  <2> QED BY <2>4 DEF Abstractly, Object!Next
<1>8. CASE r.asked # NoAsk /\ Attended(k) /\ r.broken = NoBreak
  <2>1. StateOf(r) = IF r.pc \in {"linked", "unlinked"} THEN "effected" ELSE "pending"
    BY <1>0, <1>5, <1>8 DEF StateOf
  <2>2. StateOf(q) = code /\ q.asked = r.asked
    BY <1>1, <1>8 DEF StateOf
  <2>3. \/ code = "Ok" /\ StateOf(r) = "effected"
        \/ code \in Object!Definite \ {"Ok"} /\ StateOf(r) = "pending"
        \/ code \in Object!Indefinite /\ StateOf(r) \in {"pending", "effected"}
    BY <1>0, <2>1
  <2>4. Object!Decide(k)
    BY <1>0, <1>2, <1>3, <1>4, <2>2, <2>3, IsDecide
  <2> QED BY <2>4 DEF Abstractly, Object!Next
<1> QED BY <1>6, <1>7, <1>8

(* The id of an operation is that of the request. *)
LEMMA AskedId ==
    ASSUME IInv, NEW k \in Calls
    PROVE  /\ call[k].pc \in {"read", "commit"} =>
                /\ call[k].asked = Asks("put", call[k].req) /\ call[k].asked # NoAsk
                /\ call[k].asked.kind = "put" /\ call[k].asked.id = call[k].req.id
           /\ call[k].pc \in {"delete", "unlinked"} =>
                /\ call[k].asked # NoAsk /\ call[k].asked.kind = "delete"
                /\ call[k].asked.id = call[k].req.id
           /\ call[k].pc = "linked" => call[k].asked # NoAsk /\ call[k].asked.kind = "put"
<1>1. PICK r \in CallType : r = call[k] /\ CallOK(r)
  BY DEF IInv, Types
<1>2. PICK m \in Metadata : m = r.req
  BY DEF CallType
<1>3. /\ r.pc \in {"read", "commit"} => r.asked = Asks("put", m)
      /\ r.pc \in {"delete", "unlinked"} => r.asked = Asks("delete", m)
      /\ r.pc = "linked" => r.asked # NoAsk /\ r.asked.kind = "put"
  BY <1>1, <1>2 DEF CallOK, AsksFor
<1>4. /\ Asks("put", m) # NoAsk /\ Asks("put", m).kind = "put" /\ Asks("put", m).id = m.id
      /\ Asks("delete", m) # NoAsk /\ Asks("delete", m).kind = "delete"
      /\ Asks("delete", m).id = m.id
  BY AsksOperation
<1> QED BY <1>1, <1>2, <1>3, <1>4

(* The answers that leave the store alone. *)
LEMMA RefusesAbstract ==
    ASSUME IInv, NEW k \in Calls,
           \/ Unconfigured(k) \/ HandlerRefuses(k) \/ HandlerReadRefuses(k) \/ HandlerRejects(k)
           \/ HandlerFails(k) \/ HandlerUnlinked(k) \/ HandlerDeleteFails(k)
    PROVE  Abstractly
<1>1. PICK grpc \in {"OK", "FAILED_PRECONDITION", "INVALID_ARGUMENT"},
           code \in {"Ok", "InvalidArgument", "IoError", "Unavailable", "NotFound",
                     "Corruption", "AlreadyExists"} :
        /\ Refuses(k, grpc, code)
        /\ grpc = "OK" \/ (grpc = "FAILED_PRECONDITION" /\ code = "Unavailable")
                       \/ (grpc = "INVALID_ARGUMENT" /\ code = "InvalidArgument")
        /\ IF code = "Ok" THEN call[k].pc = "unlinked"
           ELSE call[k].pc \in {"first", "read", "commit", "delete"}
        /\ code = "AlreadyExists" => call[k].pc = "commit" /\ chunks[call[k].req.id] # NoContent
        /\ code = "NotFound" => call[k].pc = "delete" /\ chunks[call[k].req.id] = NoContent
  <2>1. CASE Unconfigured(k)
    BY <2>1 DEF Unconfigured
  <2>2. CASE HandlerRefuses(k)
    <3>1. call[k].pc = "first"
      BY <2>2 DEF HandlerRefuses
    <3>2. CASE Refuses(k, "INVALID_ARGUMENT", "InvalidArgument")
      BY <3>1, <3>2
    <3>3. CASE CheckPut(NextFrame(k).metadata) # "Ok" /\ Refuses(k, "OK", CheckPut(NextFrame(k).metadata))
      <4>1. CheckPut(NextFrame(k).metadata) = "InvalidArgument"
        BY <3>3 DEF CheckPut, ValidateChecksum
      <4> QED BY <3>1, <3>3, <4>1
    <3> QED BY <2>2, <3>2, <3>3 DEF HandlerRefuses
  <2>3. CASE HandlerReadRefuses(k)
    BY <2>3 DEF HandlerReadRefuses
  <2>4. CASE HandlerRejects(k)
    BY <2>4 DEF HandlerRejects
  <2>5. CASE HandlerFails(k)
    BY <2>5 DEF HandlerFails
  <2>6. CASE HandlerUnlinked(k)
    BY <2>6 DEF HandlerUnlinked
  <2>7. CASE HandlerDeleteFails(k)
    BY <2>7 DEF HandlerDeleteFails
  <2> QED BY <2>1, <2>2, <2>3, <2>4, <2>5, <2>6, <2>7
<1>2. code \in Object!Definite \cup Object!Indefinite
  BY DEF Object!Definite, Object!Indefinite
<1>3. grpc \in GrpcCodes /\ (grpc = "OK" \/ FromGrpcStatus(grpc) = code)
  BY <1>1, AnswerCodes
<1>4. Answers(k, grpc, code) /\ cl' = cl /\ UNCHANGED store
  BY <1>1 DEF Refuses
<1>5. /\ call[k].pc # "none"
      /\ code = "Ok" => call[k].pc \in {"linked", "unlinked"}
      /\ code \in Object!Definite \ {"Ok"} => call[k].pc \notin {"linked", "unlinked"}
  BY <1>1
<1>6. /\ code = "Ok" => call[k].asked # NoAsk /\ call[k].asked.kind = "delete"
      /\ code = "AlreadyExists" => chunks[call[k].asked.id] # NoContent
      /\ code = "NotFound" => chunks[call[k].asked.id] = NoContent
  BY <1>1, AskedId
<1>7. IF code = "Ok" /\ call[k].asked.kind = "put" THEN Store!Sync ELSE UNCHANGED store
  BY <1>4, <1>6
<1> QED BY <1>2, <1>3, <1>4, <1>5, <1>6, <1>7, AnswerAbstract

(* The answer after the directory was synchronized, or not. *)
LEMMA SyncAbstract ==
    ASSUME IInv, NEW k \in Calls, HandlerSync(k)
    PROVE  Abstractly
<1>1. PICK code \in {"Ok", "IoError"} :
        Answers(k, "OK", code) /\ IF code = "Ok" THEN Store!Sync ELSE UNCHANGED store
  BY DEF HandlerSync
<1>2. call[k].pc = "linked" /\ cl' = cl
  BY DEF HandlerSync
<1>3. call[k].asked # NoAsk /\ call[k].asked.kind = "put"
  BY <1>2, AskedId
<1>4. code \in Object!Definite \cup Object!Indefinite /\ code \notin Object!Definite \ {"Ok"}
  BY DEF Object!Definite, Object!Indefinite
<1> QED BY <1>1, <1>2, <1>3, <1>4, AnswerCodes, AnswerAbstract

(* The handler reads on. *)
LEMMA ReadAbstract ==
    ASSUME IInv, NEW k \in Calls, HandlerFirst(k) \/ HandlerRead(k) \/ HandlerEof(k)
    PROVE  Abstractly
<1>0. PICK r \in CallType : r = call[k] /\ CallOK(r) /\ call \in [Calls -> CallType]
  BY DEF IInv, Types
<1>1. cl' = cl /\ UNCHANGED store /\ r.pc \in {"first", "read"}
  BY <1>0 DEF HandlerFirst, HandlerRead, HandlerEof
<1>2. /\ call'[k].asked = r.asked /\ call'[k].answer = r.answer
      /\ call'[k].pc \in {"read", "commit"} /\ \A j \in Calls : j # k => call'[j] = call[j]
  <2>1. CASE HandlerFirst(k)
    <3>1. PICK m, w : call' = [call EXCEPT ![k].req = m, ![k].wire = w, ![k].pc = "read"]
      BY <2>1 DEF HandlerFirst
    <3> QED BY <1>0, <3>1 DEF CallType
  <2>2. CASE HandlerRead(k)
    <3>1. PICK g, b, w : call' = [call EXCEPT ![k].got = g, ![k].rest = b, ![k].wire = w]
      BY <2>2 DEF HandlerRead
    <3>2. r.pc = "read"
      BY <1>0, <2>2 DEF HandlerRead
    <3> QED BY <1>0, <3>1, <3>2 DEF CallType
  <2>3. CASE HandlerEof(k)
    <3>1. call' = [call EXCEPT ![k].pc = "commit"]
      BY <2>3 DEF HandlerEof
    <3> QED BY <1>0, <3>1 DEF CallType
  <2> QED BY <2>1, <2>2, <2>3
<1>3. r.answer = NoReply
  BY <1>0, <1>1 DEF CallOK
<1>4. Same(r, call'[k])
  BY <1>1, <1>2, <1>3 DEF Same, StateOf
<1>5. \A j \in Calls : Same(call[j], call'[j])
  BY <1>0, <1>2, <1>4 DEF Same
<1>6. \A j \in Calls : SameTold(j)
  BY <1>1, <1>5, HandlerTells DEF Same
<1> QED BY <1>1, <1>5, <1>6, IsStutter DEF Abstractly

(* The chunk appears, with the payload that was asked for, or disappears. *)
LEMMA EffectAbstract ==
    ASSUME IInv, NEW k \in Calls, HandlerLink(k) \/ HandlerUnlink(k)
    PROVE  Abstractly
<1>0. PICK r \in CallType : r = call[k] /\ CallOK(r) /\ call \in [Calls -> CallType]
  BY DEF IInv, Types
<1>1. cl' = cl /\ r.pc \in {"commit", "delete"}
  BY <1>0 DEF HandlerLink, HandlerUnlink
<1>2. r.answer = NoReply
  BY <1>0, <1>1 DEF CallOK
<1>3. /\ call'[k].asked = r.asked /\ call'[k].answer = r.answer
      /\ call'[k].pc \in {"linked", "unlinked"}
      /\ \A j \in Calls : j # k => call'[j] = call[j]
  <2>1. CASE HandlerLink(k)
    <3>1. call' = [call EXCEPT ![k].pc = "linked", ![k].req = NoWant, ![k].got = << >>]
      BY <2>1 DEF HandlerLink
    <3> QED BY <1>0, <3>1 DEF CallType
  <2>2. CASE HandlerUnlink(k)
    <3>1. call' = [call EXCEPT ![k].pc = "unlinked"]
      BY <2>2 DEF HandlerUnlink
    <3> QED BY <1>0, <3>1 DEF CallType
  <2> QED BY <2>1, <2>2
<1>4. SameElsewhere(k)
  BY <1>3 DEF SameElsewhere, Same
<1>5. \A j \in Calls : SameTold(j)
  <2>1. \A j \in Calls : call'[j].asked = call[j].asked
    BY <1>0, <1>3
  <2> QED BY <1>1, <2>1, HandlerTells
<1>6. r.asked # NoAsk
  BY <1>0, <1>1, AskedId
<1>7. StateOf(r) = "pending" /\ StateOf(call'[k]) = "effected"
  BY <1>1, <1>2, <1>3, <1>6 DEF StateOf
<1>8. \/ /\ r.asked.kind = "put" /\ r.asked.payload \in Contents
         /\ Store!Commit(r.asked.id, r.asked.payload)
      \/ r.asked.kind = "delete" /\ Store!Remove(r.asked.id)
  <2>1. CASE HandlerLink(k)
    <3>1. r.pc = "commit" /\ Matches(r) /\ Store!Commit(r.req.id, r.got)
      BY <1>0, <2>1 DEF HandlerLink
    <3>2. r.asked = Asks("put", r.req) /\ r.asked.kind = "put" /\ r.asked.id = r.req.id
      BY <1>0, <3>1, AskedId
    <3>3. PICK m \in Metadata, g \in Contents : m = r.req /\ g = r.got
      BY DEF CallType
    <3>4. r.asked.payload = g
      BY <3>1, <3>2, <3>3, AsksPayload DEF Matches
    <3> QED BY <3>1, <3>2, <3>3, <3>4
  <2>2. CASE HandlerUnlink(k)
    <3>1. r.pc = "delete" /\ Store!Remove(r.req.id)
      BY <1>0, <2>2 DEF HandlerUnlink
    <3>2. r.asked.kind = "delete" /\ r.asked.id = r.req.id
      BY <1>0, <3>1, AskedId
    <3> QED BY <3>1, <3>2
  <2> QED BY <2>1, <2>2
<1>9. Object!TakeEffect(k)
  BY <1>0, <1>3, <1>4, <1>5, <1>7, <1>8, IsTakeEffect
<1> QED BY <1>9 DEF Abstractly, Object!Next

(* The worker dies: every operation under way is lost. *)
LEMMA DiesAbstract ==
    ASSUME IInv, WorkerDies
    PROVE  Abstractly
<1>1. cl' = cl /\ (Store!PowerLoss \/ UNCHANGED store)
  BY DEF WorkerDies
<1>2. \A j \in Calls : SameTold(j)
  <2>1. ASSUME NEW j \in Calls PROVE call'[j].asked = call[j].asked \/ ~Attended(j)
    BY DiesRecord
  <2> QED BY <1>1, <2>1, HandlerTells
<1>3. ASSUME NEW k \in Calls
      PROVE  IF StateOf(call[k]) \in {"pending", "effected"}
             THEN Dropped(call[k], call'[k]) ELSE Same(call[k], call'[k])
  <2>0. PICK r \in CallType : r = call[k] /\ CallOK(r)
    BY DEF IInv, Types
  <2>1. CASE r.pc = "none"
    <3>1. call'[k] = r
      BY <2>0, <2>1, DiesRecord
    <3>2. r.answer # NoReply => r.answer.code \notin {"pending", "effected"}
      BY <2>0 DEF CallOK, AnswerFits, Object!Definite, Object!Indefinite
    <3>3. StateOf(r) \notin {"pending", "effected"}
      BY <2>1, <3>2 DEF StateOf
    <3> QED BY <2>0, <3>1, <3>3 DEF Same
  <2>2. CASE r.pc # "none"
    <3>1. PICK q : q = call'[k]
      OBVIOUS
    <3>2. q = Fresh \/ (q.asked = r.asked /\ q.pc = "none" /\ q.answer = NoReply)
      BY <2>0, <2>2, <3>1, DiesRecord
    <3>3. Fresh.asked = NoAsk /\ r.answer = NoReply
      BY <2>0, <2>2 DEF Fresh, CallOK
    <3>4. CASE r.asked = NoAsk
      <4>1. q.asked = NoAsk
        BY <3>2, <3>3, <3>4
      <4>2. StateOf(r) = "none" /\ StateOf(q) = "none"
        BY <3>4, <4>1 DEF StateOf
      <4> QED BY <2>0, <3>1, <3>4, <4>1, <4>2 DEF Same
    <3>5. CASE r.asked # NoAsk
      <4>1. StateOf(r) \in {"pending", "effected"}
        BY <2>2, <3>3, <3>5 DEF StateOf
      <4>2. Dropped(r, q)
        BY <3>2, <3>3, <3>5 DEF Dropped, StateOf
      <4> QED BY <2>0, <3>1, <4>1, <4>2
    <3> QED BY <3>4, <3>5
  <2> QED BY <2>1, <2>2
<1>4. Object!Crash
  BY <1>1, <1>2, <1>3, IsCrash
<1> QED BY <1>4 DEF Abstractly, Object!Next

-----------------------------------------------------------------------------
(***************************************************************************)
(* The refinement.                                                         *)
(***************************************************************************)
LEMMA InitAbstract == ASSUME Init PROVE Object!Init
<1>1. cl = [c \in Clients |-> Idle] /\ call = [k \in Calls |-> Fresh] /\ Store!Init
  BY DEF Init
<1>2. \A k \in Calls : call[k].asked = NoAsk /\ StateOf(call[k]) = "none"
  BY <1>1 DEF Fresh, StateOf
<1>3. ASSUME NEW k \in Calls PROVE ToldOf(k) = NoReply
  <2>1. \A c \in Clients : cl[c].chan # k
    BY <1>1, PutAssumption DEF Idle
  <2> QED BY <2>1, ToldNobody, Mapping
<1>4. Object!Store!Init
  BY <1>1 DEF Store!Init, Object!Store!Init
<1> QED BY <1>2, <1>3, <1>4 DEF Object!Init

LEMMA ClientAbstract ==
    ASSUME IInv, IInv', NEW c \in Clients, Client(c)
    PROVE  Abstractly
<1>1. CASE \/ PutOpenFails(c) \/ \E id \in ChunkIds : Refused(c, id)
           \/ \E d \in Sources : EditSource(c, d) \/ \E id \in ChunkIds : PutHash(c, id, d)
  BY <1>1, EarlyAbstract
<1>2. CASE \/ \E k \in Calls : PutOpen(c, k) \/ RawStart(c, k)
           \/ \E n \in 1..MaxSize : PutSend(c, n)
           \/ PutSendEnds(c) \/ RawEnds(c) \/ \E code \in Breaks : Break(c, code)
  BY <1>2, StreamAbstract
<1>3. CASE \/ PutMetadata(c) \/ \E f \in RawFrames : RawSend(c, f)
           \/ \E k \in Calls, id \in ChunkIds : DeleteStart(c, k, id)
  BY <1>3, AskAbstract
<1>4. CASE Finish(c) \/ PutSourceFails(c)
  BY <1>4, ReturnAbstract
<1>5. CASE ClientDone(c) \/ ClientKilled(c)
  BY <1>5, LeaveAbstract DEF ClientDone, ClientKilled
<1> QED BY <1>1, <1>2, <1>3, <1>4, <1>5 DEF Client, ClientProgress

LEMMA StepAbstract == IInv /\ IInv' /\ [Next]_vars => [Object!Next]_(Object!vars)
<1> SUFFICES ASSUME IInv, IInv', [Next]_vars PROVE Abstractly
  BY DEF Abstractly
<1>1. CASE \E c \in Clients : Client(c)
  BY <1>1, ClientAbstract
<1>2. CASE \E k \in Calls : HandlerProgress(k) \/ HandlerFails(k)
  <2>1. PICK k \in Calls : HandlerProgress(k) \/ HandlerFails(k)
    BY <1>2
  <2>2. CASE \/ Unconfigured(k) \/ HandlerRefuses(k) \/ HandlerReadRefuses(k) \/ HandlerRejects(k)
             \/ HandlerFails(k) \/ HandlerUnlinked(k) \/ HandlerDeleteFails(k)
    BY <2>2, RefusesAbstract
  <2>3. CASE HandlerSync(k)
    BY <2>3, SyncAbstract
  <2>4. CASE HandlerFirst(k) \/ HandlerRead(k) \/ HandlerEof(k)
    BY <2>4, ReadAbstract
  <2>5. CASE HandlerLink(k) \/ HandlerUnlink(k)
    BY <2>5, EffectAbstract
  <2> QED BY <2>1, <2>2, <2>3, <2>4, <2>5 DEF HandlerProgress
<1>3. CASE WorkerDies
  BY <1>3, DiesAbstract
<1>4. CASE UNCHANGED vars
  <2>1. cl' = cl /\ call' = call /\ UNCHANGED store
    BY <1>4 DEF vars
  <2>2. \A j \in Calls : Same(call[j], call'[j]) /\ SameTold(j)
    BY <2>1 DEF Same, SameTold
  <2> QED BY <2>1, <2>2, IsStutter DEF Abstractly
<1> QED BY <1>1, <1>2, <1>3, <1>4 DEF Next

(***************************************************************************)
(* KeepsPromise: Put and Delete, with clients, calls and handlers that     *)
(* interleave, break and die in any way, do what ObjectStore promises.  An *)
(* upload takes effect at most once and with the payload that was hashed,  *)
(* Ok means that it is in place and durable, and after a definite failure  *)
(* it never appears, not even by a handler that its client has left.       *)
(***************************************************************************)
THEOREM PutKeepsPromise == Spec => KeepsPromise
<1>1. Init => Object!Init
  BY InitAbstract
<1>2. IInv /\ IInv' /\ [Next]_vars => [Object!Next]_(Object!vars)
  BY StepAbstract
<1> QED BY <1>1, <1>2, Invariance, PTL DEF Spec, KeepsPromise, Object!Spec

=============================================================================
