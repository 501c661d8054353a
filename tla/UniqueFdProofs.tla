--------------------------- MODULE UniqueFdProofs ---------------------------
(***************************************************************************)
(* Proof that UniqueFd keeps every open descriptor in exactly one place,   *)
(* for any number of threads, objects and descriptor numbers.              *)
(***************************************************************************)
EXTENDS UniqueFd, TLAPS

-----------------------------------------------------------------------------
(***************************************************************************)
(* The inductive invariant.  OneOwner is about numbers; that a destructor  *)
(* or a constructor loses none rests on what the objects and the locals of *)
(* reset hold when they are not in use.                                    *)
(***************************************************************************)

(* An object outside its lifetime holds nothing. *)
DeadHoldsNothing == \A o \in Objects \ alive : fd_[o] = -1

(* reset works on an object of its own thread; its locals are used in it   *)
(* only, and the one of a destructor is given no number.                   *)
ResetLocals ==
    \A t \in Threads :
        /\ busy[t] # NoObject => ThreadOf[busy[t]] = t /\ busy[t] \in alive
        /\ busy[t] = NoObject => arg[t] = -1 /\ ~dying[t]
        /\ dying[t] => arg[t] = -1

IInv == TypeOK /\ DeadHoldsNothing /\ ResetLocals /\ OneOwner

-----------------------------------------------------------------------------
(***************************************************************************)
(* The places where a number may be.                                       *)
(***************************************************************************)
Obj(o) == [in |-> "object", of |-> o]
Raw(t) == [in |-> "raw", of |-> t]
Arg(t) == [in |-> "arg", of |-> t]

(* What each place is, and what it holds. *)
LEMMA Places ==
    /\ \A o \in Objects : Obj(o) \in Holders /\ HolderThread(Obj(o)) = ThreadOf[o]
    /\ \A t \in Threads : /\ Raw(t) \in Holders /\ HolderThread(Raw(t)) = t
                          /\ Arg(t) \in Holders /\ HolderThread(Arg(t)) = t
    /\ \A h \in Holders : \/ \E o \in Objects : h = Obj(o)
                          \/ \E t \in Threads : h = Raw(t) \/ h = Arg(t)
    /\ \A o \in Objects, t \in Threads : Obj(o) # Raw(t) /\ Obj(o) # Arg(t)
    /\ \A s, t \in Threads : Raw(s) # Arg(t)
    /\ \A s, t \in Threads : (Raw(s) = Raw(t) => s = t) /\ (Arg(s) = Arg(t) => s = t)
    /\ \A o, p \in Objects : Obj(o) = Obj(p) => o = p
<1> USE DEF Obj, Raw, Arg
<1>1. \A o \in Objects : Obj(o) \in Holders /\ HolderThread(Obj(o)) = ThreadOf[o]
  BY DEF Holders, HolderThread
<1>2. \A t \in Threads : /\ Raw(t) \in Holders /\ HolderThread(Raw(t)) = t
                         /\ Arg(t) \in Holders /\ HolderThread(Arg(t)) = t
  BY DEF Holders, HolderThread
<1>3. ASSUME NEW h \in Holders
      PROVE  \/ \E o \in Objects : h = Obj(o)
             \/ \E t \in Threads : h = Raw(t) \/ h = Arg(t)
  <2>1. CASE h \in [in : {"object"}, of : Objects]
    <3>1. h.of \in Objects /\ h = Obj(h.of)
      BY <2>1
    <3> QED BY <3>1
  <2>2. CASE h \in [in : {"raw", "arg"}, of : Threads]
    <3>1. h.of \in Threads /\ (h = Raw(h.of) \/ h = Arg(h.of))
      BY <2>2
    <3> QED BY <3>1
  <2> QED BY <2>1, <2>2 DEF Holders
<1>4. /\ \A o \in Objects, t \in Threads : Obj(o) # Raw(t) /\ Obj(o) # Arg(t)
      /\ \A s, t \in Threads : Raw(s) # Arg(t)
      /\ \A s, t \in Threads : (Raw(s) = Raw(t) => s = t) /\ (Arg(s) = Arg(t) => s = t)
      /\ \A o, p \in Objects : Obj(o) = Obj(p) => o = p
  OBVIOUS
<1> HIDE DEF Obj, Raw, Arg
<1> QED BY <1>1, <1>2, <1>3, <1>4

(* A place in an object is not in use while reset works on the object. *)
LEMMA PlacesHold ==
    /\ \A t : Held(Raw(t)) = raw[t] /\ Held(Arg(t)) = arg[t]
    /\ \A o : Held(Obj(o)) = IF busy[ThreadOf[o]] = o THEN -1 ELSE fd_[o]
    /\ \A t : Held(Raw(t))' = raw'[t] /\ Held(Arg(t))' = arg'[t]
    /\ \A o : Held(Obj(o))' = IF busy'[ThreadOf[o]] = o THEN -1 ELSE fd_'[o]
BY DEF Held, Obj, Raw, Arg

(* What is held is a descriptor number or -1, which is none. *)
LEMMA HeldType ==
    ASSUME TypeOK
    PROVE  /\ \A h \in Holders : Held(h) \in Fds \cup {-1}
           /\ -1 \notin Fds
<1>1. \A h \in Holders : Held(h) \in Fds \cup {-1}
  <2> SUFFICES ASSUME NEW h \in Holders PROVE Held(h) \in Fds \cup {-1}
    OBVIOUS
  <2>1. ASSUME NEW o \in Objects, h = Obj(o) PROVE Held(h) \in Fds \cup {-1}
    BY <2>1, PlacesHold DEF TypeOK
  <2>2. ASSUME NEW t \in Threads, h = Raw(t) \/ h = Arg(t)
        PROVE  Held(h) \in Fds \cup {-1}
    BY <2>2, PlacesHold DEF TypeOK
  <2> QED BY <2>1, <2>2, Places
<1>2. -1 \notin Fds
  BY FdAssumption
<1> QED BY <1>1, <1>2

(***************************************************************************)
(* Every operation passes at most one number from a place g to a place h   *)
(* of the same thread and closes what the places in C hold.                *)
(***************************************************************************)
LEMMA PassNumber ==
    ASSUME TypeOK, TypeOK', OneOwner,
           NEW g \in Holders, NEW h \in Holders, NEW C \in SUBSET Holders,
           HolderThread(g) = HolderThread(h), g \notin C,
           Held(h) = -1 \/ h = g \/ h \in C,
           Held(h)' = Held(g),
           \A x \in Holders : x # h =>
                Held(x)' = IF x \in C \cup {g} THEN -1 ELSE Held(x),
           \A n \in Fds : table'[n] = IF \E x \in C : Held(x) = n
                                      THEN NoThread ELSE table[n]
    PROVE  OneOwner'
<1>1. /\ \A x \in Holders : Held(x) \in Fds \cup {-1}
      /\ -1 \notin Fds
  BY HeldType
<1>2. /\ \A x \in Holders : Held(x) # -1 => table[Held(x)] = HolderThread(x)
      /\ \A x, y \in Holders : Held(x) = Held(y) /\ Held(x) # -1 => x = y
      /\ \A n \in Fds : table[n] # NoThread => \E x \in Holders : Held(x) = n
  BY DEF OneOwner
<1>3. ASSUME NEW x \in Holders, Held(x)' # -1
      PROVE  \E y \in Holders : /\ y \notin C /\ Held(y) = Held(x)'
                                /\ HolderThread(y) = HolderThread(x)
                                /\ (x = h /\ y = g) \/ (x # h /\ x # g /\ y = x)
  <2>1. CASE x = h
    BY <2>1
  <2>2. CASE x # h
    BY <2>2, <1>3
  <2> QED BY <2>1, <2>2
<1>4. \A y \in Holders \ C : Held(y) # -1 => table'[Held(y)] = HolderThread(y)
  BY <1>1, <1>2
<1>5. ASSUME NEW x \in Holders, Held(x)' # -1
      PROVE  table'[Held(x)'] = HolderThread(x)
  BY <1>3, <1>4, <1>5
<1>6. ASSUME NEW x \in Holders, NEW y \in Holders, Held(x)' = Held(y)', Held(x)' # -1
      PROVE  x = y
  BY <1>2, <1>3, <1>6
<1>7. ASSUME NEW n \in Fds, table'[n] # NoThread
      PROVE  \E x \in Holders : Held(x)' = n
  <2>1. table[n] # NoThread /\ ~\E x \in C : Held(x) = n
    BY <1>7
  <2>2. PICK y \in Holders : Held(y) = n /\ y \notin C
    BY <1>2, <2>1
  <2>3. CASE y = g
    BY <2>2, <2>3
  <2>4. CASE y # g
    BY <1>1, <2>2, <2>4
  <2> QED BY <2>3, <2>4
<1> QED BY <1>5, <1>6, <1>7 DEF OneOwner, HolderThread

(* A number goes from g to h, and no other place changes. *)
LEMMA MoveNumber ==
    ASSUME TypeOK, TypeOK', OneOwner, UNCHANGED table,
           NEW g \in Holders, NEW h \in Holders,
           HolderThread(g) = HolderThread(h), g # h,
           Held(h) = -1, Held(h)' = Held(g),
           \A x \in Holders : x # h => Held(x)' = IF x = g THEN -1 ELSE Held(x)
    PROVE  OneOwner'
<1> DEFINE C == {}
<1>1. /\ C \in SUBSET Holders /\ g \notin C
      /\ \A x \in Holders : x # h => Held(x)' = IF x \in C \cup {g} THEN -1 ELSE Held(x)
      /\ \A n \in Fds : table'[n] = IF \E x \in C : Held(x) = n
                                    THEN NoThread ELSE table[n]
  OBVIOUS
<1> HIDE DEF C
<1> QED BY <1>1, PassNumber

(* The number at c is closed, while one goes from g to h. *)
LEMMA CloseNumber ==
    ASSUME TypeOK, TypeOK', OneOwner,
           NEW c \in Holders, NEW g \in Holders, NEW h \in Holders,
           HolderThread(g) = HolderThread(h), g # c, h # c,
           Held(h) = -1 \/ h = g, Held(h)' = Held(g),
           \A x \in Holders : x # h =>
                Held(x)' = IF x = c \/ x = g THEN -1 ELSE Held(x),
           \A n \in Fds : table'[n] = IF Held(c) = n THEN NoThread ELSE table[n]
    PROVE  OneOwner'
<1> DEFINE C == {c}
<1>1. /\ C \in SUBSET Holders /\ g \notin C
      /\ \A x \in Holders : x # h => Held(x)' = IF x \in C \cup {g} THEN -1 ELSE Held(x)
      /\ \A n \in Fds : table'[n] = IF \E x \in C : Held(x) = n
                                    THEN NoThread ELSE table[n]
  OBVIOUS
<1> HIDE DEF C
<1> QED BY <1>1, PassNumber

-----------------------------------------------------------------------------
(***************************************************************************)
(* The steps.                                                              *)
(***************************************************************************)

(* A process starts without objects and without descriptors. *)
LEMMA InitInv == ASSUME Init PROVE IInv
<1> USE DEF Init
<1>1. TypeOK /\ DeadHoldsNothing /\ ResetLocals
  BY DEF TypeOK, DeadHoldsNothing, ResetLocals
<1>2. \A h \in Holders : Held(h) = -1
  <2>1. \A o \in Objects : Held(Obj(o)) = -1
    BY PlacesHold
  <2>2. \A t \in Threads : Held(Raw(t)) = -1 /\ Held(Arg(t)) = -1
    BY PlacesHold
  <2> QED BY <2>1, <2>2, Places
<1>3. OneOwner
  BY <1>2 DEF OneOwner
<1> QED BY <1>1, <1>3 DEF IInv

(* open hands out a number that nobody holds. *)
LEMMA OpenStep ==
    ASSUME IInv, NEW t \in Threads, NEW n \in Fds, Open(t, n)
    PROVE  IInv'
<1> USE DEF IInv, Open
<1>1. TypeOK' /\ DeadHoldsNothing' /\ ResetLocals'
  BY DEF TypeOK, DeadHoldsNothing, ResetLocals
<1>2. Held(Raw(t))' = n
  BY PlacesHold DEF TypeOK
<1>3. ASSUME NEW x \in Holders, x # Raw(t) PROVE Held(x)' = Held(x)
  <2>1. ASSUME NEW o \in Objects, x = Obj(o) PROVE Held(x)' = Held(x)
    BY <2>1, PlacesHold
  <2>2. ASSUME NEW s \in Threads, x = Raw(s) \/ x = Arg(s) PROVE Held(x)' = Held(x)
    BY <1>3, <2>2, PlacesHold DEF TypeOK
  <2> QED BY <2>1, <2>2, Places
<1>4. Raw(t) \in Holders /\ HolderThread(Raw(t)) = t /\ t # NoThread
  BY Places, FdAssumption
<1>5. /\ \A x \in Holders : Held(x) \in Fds \cup {-1}
      /\ -1 \notin Fds
  BY HeldType
<1>6. \A x \in Holders : Held(x) # n /\ (x # Raw(t) => HolderThread(x) # NoThread)
  <2>1. \A x \in Holders : HolderThread(x) \in Threads
    BY Places, FdAssumption
  <2> QED BY <2>1, <1>5, FdAssumption DEF OneOwner
<1>7. table'[n] = t /\ \A m \in Fds : m # n => table'[m] = table[m]
  BY DEF TypeOK
<1>8. /\ \A x \in Holders : Held(x)' # -1 => table'[Held(x)'] = HolderThread(x)
      /\ \A x, y \in Holders : Held(x)' = Held(y)' /\ Held(x)' # -1 => x = y
      /\ \A m \in Fds : table'[m] # NoThread => \E x \in Holders : Held(x)' = m
  <2>1. \A x \in Holders : Held(x)' # -1 => table'[Held(x)'] = HolderThread(x)
    BY <1>2, <1>3, <1>4, <1>5, <1>6, <1>7 DEF OneOwner
  <2>2. \A x, y \in Holders : Held(x)' = Held(y)' /\ Held(x)' # -1 => x = y
    BY <1>2, <1>3, <1>4, <1>5, <1>6 DEF OneOwner
  <2>3. ASSUME NEW m \in Fds, table'[m] # NoThread
        PROVE  \E x \in Holders : Held(x)' = m
    <3>1. CASE m = n
      BY <3>1, <1>2, <1>4
    <3>2. CASE m # n
      <4>1. PICK x \in Holders : Held(x) = m
        BY <2>3, <3>2, <1>7 DEF OneOwner
      <4>2. x # Raw(t)
        BY <4>1, <1>5, PlacesHold
      <4> QED BY <4>1, <4>2, <1>3
    <3> QED BY <3>1, <3>2
  <2> QED BY <2>1, <2>2, <2>3
<1>9. OneOwner'
  BY <1>8 DEF OneOwner, HolderThread
<1> QED BY <1>1, <1>9

(* A caller closes what release handed to it. *)
LEMMA CloseRawStep ==
    ASSUME IInv, NEW t \in Threads, CloseRaw(t)
    PROVE  IInv'
<1> USE DEF IInv, CloseRaw, Close, Free
<1>1. TypeOK' /\ DeadHoldsNothing' /\ ResetLocals'
  BY FdAssumption DEF TypeOK, DeadHoldsNothing, ResetLocals
<1>2. /\ Arg(t) \in Holders /\ Raw(t) \in Holders /\ Arg(t) # Raw(t)
      /\ Held(Raw(t)) = raw[t] /\ Held(Arg(t)) = -1 /\ Held(Arg(t))' = -1
  BY Places, PlacesHold DEF ResetLocals, TypeOK
<1>3. ASSUME NEW x \in Holders, x # Arg(t)
      PROVE  Held(x)' = IF x = Raw(t) \/ x = Arg(t) THEN -1 ELSE Held(x)
  <2>1. ASSUME NEW o \in Objects, x = Obj(o) PROVE Held(x)' = Held(x) /\ x # Raw(t)
    BY <2>1, Places, PlacesHold
  <2>2. ASSUME NEW s \in Threads, x = Raw(s)
        PROVE  Held(x)' = IF x = Raw(t) THEN -1 ELSE Held(x)
    BY <2>2, Places, PlacesHold DEF TypeOK
  <2>3. ASSUME NEW s \in Threads, x = Arg(s) PROVE Held(x)' = Held(x) /\ x # Raw(t)
    BY <2>3, Places, PlacesHold
  <2> QED BY <1>3, <2>1, <2>2, <2>3, Places
<1>4. \A n \in Fds : table'[n] = IF Held(Raw(t)) = n THEN NoThread ELSE table[n]
  BY <1>2 DEF TypeOK
<1>5. OneOwner'
  BY <1>1, <1>2, <1>3, <1>4, CloseNumber
<1> QED BY <1>1, <1>5

(* The number becomes that of an object. *)
LEMMA ConstructStep ==
    ASSUME IInv, NEW o \in Objects, Construct(o)
    PROVE  IInv'
<1> DEFINE t == ThreadOf[o]
<1> USE DEF IInv, Construct, Free
<1>1. t \in Threads
  BY FdAssumption
<1>2. TypeOK' /\ DeadHoldsNothing' /\ ResetLocals'
  BY <1>1 DEF TypeOK, DeadHoldsNothing, ResetLocals
<1>3. /\ Raw(t) \in Holders /\ Obj(o) \in Holders /\ Raw(t) # Obj(o)
      /\ HolderThread(Raw(t)) = HolderThread(Obj(o))
      /\ Held(Obj(o)) = -1 /\ Held(Obj(o))' = Held(Raw(t))
  BY <1>1, Places, PlacesHold, FdAssumption DEF TypeOK, DeadHoldsNothing
<1>4. ASSUME NEW x \in Holders, x # Obj(o)
      PROVE  Held(x)' = IF x = Raw(t) THEN -1 ELSE Held(x)
  <2>1. ASSUME NEW p \in Objects, x = Obj(p) PROVE Held(x)' = Held(x) /\ x # Raw(t)
    BY <1>1, <1>4, <2>1, Places, PlacesHold DEF TypeOK
  <2>2. ASSUME NEW s \in Threads, x = Raw(s)
        PROVE  Held(x)' = IF x = Raw(t) THEN -1 ELSE Held(x)
    BY <1>1, <2>2, Places, PlacesHold DEF TypeOK
  <2>3. ASSUME NEW s \in Threads, x = Arg(s) PROVE Held(x)' = Held(x) /\ x # Raw(t)
    BY <1>1, <2>3, Places, PlacesHold
  <2> QED BY <2>1, <2>2, <2>3, Places
<1>5. OneOwner'
  BY <1>2, <1>3, <1>4, MoveNumber
<1> QED BY <1>2, <1>5

(* The number goes from one object to another. *)
LEMMA MoveConstructStep ==
    ASSUME IInv, NEW o \in Objects, NEW p \in Objects, ThreadOf[p] = ThreadOf[o],
           MoveConstruct(o, p)
    PROVE  IInv'
<1> DEFINE t == ThreadOf[o]
<1> USE DEF IInv, MoveConstruct, Free
<1>1. t \in Threads /\ o # p
  BY FdAssumption
<1>2. TypeOK' /\ DeadHoldsNothing' /\ ResetLocals'
  BY <1>1 DEF TypeOK, DeadHoldsNothing, ResetLocals
<1>3. /\ Obj(p) \in Holders /\ Obj(o) \in Holders /\ Obj(p) # Obj(o)
      /\ HolderThread(Obj(p)) = HolderThread(Obj(o))
      /\ Held(Obj(o)) = -1 /\ Held(Obj(o))' = Held(Obj(p))
  BY <1>1, Places, PlacesHold, FdAssumption DEF TypeOK, DeadHoldsNothing
<1>4. ASSUME NEW x \in Holders, x # Obj(o)
      PROVE  Held(x)' = IF x = Obj(p) THEN -1 ELSE Held(x)
  <2>1. ASSUME NEW q \in Objects, x = Obj(q)
        PROVE  Held(x)' = IF x = Obj(p) THEN -1 ELSE Held(x)
    BY <1>1, <1>4, <2>1, Places, PlacesHold DEF TypeOK
  <2>2. ASSUME NEW s \in Threads, x = Raw(s) \/ x = Arg(s)
        PROVE  Held(x)' = Held(x) /\ x # Obj(p)
    BY <2>2, Places, PlacesHold
  <2> QED BY <2>1, <2>2, Places
<1>5. OneOwner'
  BY <1>2, <1>3, <1>4, MoveNumber
<1> QED BY <1>2, <1>5

(* The number goes from an object to its caller. *)
LEMMA ReleaseStep ==
    ASSUME IInv, NEW o \in Objects, Release(o)
    PROVE  IInv'
<1> DEFINE t == ThreadOf[o]
<1> USE DEF IInv, Release, Free
<1>1. t \in Threads
  BY FdAssumption
<1>2. TypeOK' /\ DeadHoldsNothing' /\ ResetLocals'
  BY <1>1 DEF TypeOK, DeadHoldsNothing, ResetLocals
<1>3. /\ Raw(t) \in Holders /\ Obj(o) \in Holders /\ Raw(t) # Obj(o)
      /\ HolderThread(Raw(t)) = HolderThread(Obj(o))
      /\ Held(Raw(t)) = -1 /\ Held(Raw(t))' = Held(Obj(o))
  BY <1>1, Places, PlacesHold, FdAssumption DEF TypeOK
<1>4. ASSUME NEW x \in Holders, x # Raw(t)
      PROVE  Held(x)' = IF x = Obj(o) THEN -1 ELSE Held(x)
  <2>1. ASSUME NEW q \in Objects, x = Obj(q)
        PROVE  Held(x)' = IF x = Obj(o) THEN -1 ELSE Held(x)
    BY <1>1, <2>1, Places, PlacesHold DEF TypeOK
  <2>2. ASSUME NEW s \in Threads, x = Raw(s) \/ x = Arg(s)
        PROVE  Held(x)' = Held(x) /\ x # Obj(o)
    BY <1>1, <1>4, <2>2, Places, PlacesHold DEF TypeOK
  <2> QED BY <2>1, <2>2, Places
<1>5. OneOwner'
  BY <1>2, <1>3, <1>4, MoveNumber
<1> QED BY <1>2, <1>5

(* reset ends: its argument becomes the number of the object. *)
LEMMA ResetEndsStep ==
    ASSUME IInv, NEW t \in Threads, ResetEnds(t)
    PROVE  IInv'
<1> USE DEF IInv, ResetEnds
<1>0. PICK o \in Objects : o = busy[t]
  BY FdAssumption DEF TypeOK
<1>1. o = busy[t] /\ o \in alive /\ ThreadOf[o] = t /\ o # NoObject
  BY <1>0, FdAssumption DEF TypeOK, ResetLocals
<1>2. TypeOK' /\ DeadHoldsNothing' /\ ResetLocals'
  <2>1. TypeOK'
    BY <1>1 DEF TypeOK
  <2>2. DeadHoldsNothing'
    BY <1>1 DEF TypeOK, DeadHoldsNothing, ResetLocals
  <2>3. ResetLocals'
    BY <1>1, FdAssumption DEF TypeOK, ResetLocals
  <2> QED BY <2>1, <2>2, <2>3
<1>3. /\ Arg(t) \in Holders /\ Obj(o) \in Holders /\ Arg(t) # Obj(o)
      /\ HolderThread(Arg(t)) = HolderThread(Obj(o))
      /\ Held(Obj(o)) = -1 /\ Held(Obj(o))' = Held(Arg(t))
  BY <1>1, Places, PlacesHold DEF TypeOK
<1>4. ASSUME NEW x \in Holders, x # Obj(o)
      PROVE  Held(x)' = IF x = Arg(t) THEN -1 ELSE Held(x)
  <2>1. ASSUME NEW p \in Objects, x = Obj(p) PROVE Held(x)' = Held(x) /\ x # Arg(t)
    BY <1>1, <1>4, <2>1, Places, PlacesHold, FdAssumption DEF TypeOK
  <2>2. ASSUME NEW s \in Threads, x = Arg(s)
        PROVE  Held(x)' = IF x = Arg(t) THEN -1 ELSE Held(x)
    BY <2>2, Places, PlacesHold DEF TypeOK
  <2>3. ASSUME NEW s \in Threads, x = Raw(s) PROVE Held(x)' = Held(x) /\ x # Arg(t)
    BY <2>3, Places, PlacesHold
  <2> QED BY <2>1, <2>2, <2>3, Places
<1>5. OneOwner'
  BY <1>2, <1>3, <1>4, MoveNumber
<1> QED BY <1>2, <1>5

(* A number held in two places would be none: the old number of an object  *)
(* is not the one that reset is called with.                               *)
LEMMA ApartNumbers ==
    ASSUME TypeOK, OneOwner, NEW g \in Holders, NEW h \in Holders, g # h
    PROVE  /\ Held(g) >= 0 => Held(g) \in Fds /\ Held(g) # Held(h)
           /\ ~(Held(g) >= 0) => \A n \in Fds : Held(g) # n
BY HeldType, FdAssumption DEF OneOwner

(* What reset, called for an object of a thread that is in none, does to   *)
(* the types and to what is not in use.                                    *)
LEMMA ResetBegins ==
    ASSUME IInv, NEW o \in Objects, o \in alive, Free(ThreadOf[o]),
           NEW fd \in Fds \cup {-1}, NEW dies \in BOOLEAN, dies => fd = -1,
           Reset(o, fd, dies), UNCHANGED alive,
           fd_' \in [Objects -> Fds \cup {-1}], raw' \in [Threads -> Fds \cup {-1}],
           \A p \in Objects : fd_'[p] = fd_[p] \/ fd_'[p] = -1
    PROVE  TypeOK' /\ DeadHoldsNothing' /\ ResetLocals'
<1> USE DEF IInv, Reset, Close, Free
<1>1. ThreadOf[o] \in Threads /\ o # NoObject
  BY FdAssumption
<1>2. TypeOK'
  BY <1>1, FdAssumption DEF TypeOK
<1>3. DeadHoldsNothing'
  BY DEF DeadHoldsNothing, TypeOK
<1>4. ResetLocals'
  BY <1>1 DEF ResetLocals, TypeOK
<1> QED BY <1>2, <1>3, <1>4

(* Assignment: the number goes from p to the argument of reset, and the    *)
(* number o had is closed.                                                 *)
LEMMA MoveAssignStep ==
    ASSUME IInv, NEW o \in Objects, NEW p \in Objects, ThreadOf[p] = ThreadOf[o],
           MoveAssign(o, p), o # p
    PROVE  IInv'
<1> DEFINE t == ThreadOf[o]
<1> USE DEF IInv, Free
<1>1. /\ t \in Threads /\ o # NoObject /\ p # NoObject
      /\ Obj(o) \in Holders /\ Obj(p) \in Holders /\ Arg(t) \in Holders
      /\ Obj(o) # Obj(p) /\ Obj(o) # Arg(t) /\ Obj(p) # Arg(t)
      /\ HolderThread(Obj(p)) = HolderThread(Arg(t))
  BY Places, FdAssumption
<1>2. /\ busy[t] = NoObject /\ o \in alive
      /\ fd_' = [fd_ EXCEPT ![p] = -1] /\ UNCHANGED <<alive, raw>>
      /\ Reset(o, fd_[p], FALSE)
  BY DEF MoveAssign
<1>3. /\ Held(Obj(o)) = fd_[o] /\ Held(Obj(p)) = fd_[p]
      /\ Held(Arg(t)) = -1 /\ Held(Arg(t))' = fd_[p]
  BY <1>1, <1>2, PlacesHold DEF Reset, TypeOK, ResetLocals
<1>4. TypeOK' /\ DeadHoldsNothing' /\ ResetLocals'
  <2>1. PICK fd \in Fds \cup {-1} : fd = fd_[p]
    BY DEF TypeOK
  <2>2. /\ Reset(o, fd, FALSE) /\ fd_' \in [Objects -> Fds \cup {-1}]
        /\ raw' \in [Threads -> Fds \cup {-1}]
        /\ \A q \in Objects : fd_'[q] = fd_[q] \/ fd_'[q] = -1
    BY <1>2, <2>1 DEF TypeOK
  <2> QED BY <1>2, <2>2, ResetBegins
<1>5. ASSUME NEW x \in Holders, x # Arg(t)
      PROVE  Held(x)' = IF x = Obj(o) \/ x = Obj(p) THEN -1 ELSE Held(x)
  <2> USE DEF Reset
  <2>1. ASSUME NEW q \in Objects, x = Obj(q)
        PROVE  Held(x)' = IF x = Obj(o) \/ x = Obj(p) THEN -1 ELSE Held(x)
    BY <1>1, <1>2, <2>1, Places, PlacesHold, FdAssumption DEF TypeOK
  <2>2. ASSUME NEW s \in Threads, x = Raw(s) \/ x = Arg(s)
        PROVE  Held(x)' = Held(x) /\ x # Obj(o) /\ x # Obj(p)
    BY <1>1, <1>2, <1>5, <2>2, Places, PlacesHold DEF TypeOK
  <2> QED BY <2>1, <2>2, Places
<1>6. \A n \in Fds : table'[n] = IF Held(Obj(o)) = n THEN NoThread ELSE table[n]
  BY <1>1, <1>2, <1>3, ApartNumbers DEF Reset, Close, TypeOK
<1>7. OneOwner'
  BY <1>1, <1>3, <1>4, <1>5, <1>6, CloseNumber
<1> QED BY <1>4, <1>7

(* reset called with a number of the caller, with none, or with its own. *)
LEMMA ResetToStep ==
    ASSUME IInv, NEW o \in Objects, ResetTo(o)
    PROVE  IInv'
<1> DEFINE t == ThreadOf[o]
<1> USE DEF IInv, Free
<1>1. /\ t \in Threads /\ o # NoObject
      /\ Obj(o) \in Holders /\ Raw(t) \in Holders /\ Arg(t) \in Holders
      /\ Obj(o) # Raw(t) /\ Obj(o) # Arg(t) /\ Raw(t) # Arg(t)
      /\ HolderThread(Raw(t)) = HolderThread(Arg(t))
      /\ HolderThread(Obj(o)) = HolderThread(Arg(t))
  BY Places, FdAssumption
<1>2. busy[t] = NoObject /\ o \in alive /\ UNCHANGED <<alive, fd_>>
  BY DEF ResetTo
<1>3. /\ Held(Obj(o)) = fd_[o] /\ Held(Raw(t)) = raw[t] /\ Held(Arg(t)) = -1
  BY <1>1, <1>2, PlacesHold DEF TypeOK, ResetLocals
<1>4. CASE Reset(o, raw[t], FALSE) /\ raw' = [raw EXCEPT ![t] = -1]
  <2>1. TypeOK' /\ DeadHoldsNothing' /\ ResetLocals'
    <3>1. PICK fd \in Fds \cup {-1} : fd = raw[t]
      BY <1>1 DEF TypeOK
    <3>2. /\ Reset(o, fd, FALSE) /\ fd_' \in [Objects -> Fds \cup {-1}]
          /\ raw' \in [Threads -> Fds \cup {-1}]
      BY <1>2, <1>4, <3>1 DEF TypeOK
    <3> QED BY <1>2, <3>2, ResetBegins
  <2>2. Held(Arg(t))' = Held(Raw(t))
    BY <1>1, <1>3, <1>4, PlacesHold DEF Reset, TypeOK
  <2>3. ASSUME NEW x \in Holders, x # Arg(t)
        PROVE  Held(x)' = IF x = Obj(o) \/ x = Raw(t) THEN -1 ELSE Held(x)
    <3> USE DEF Reset
    <3>1. ASSUME NEW q \in Objects, x = Obj(q)
          PROVE  Held(x)' = IF x = Obj(o) \/ x = Raw(t) THEN -1 ELSE Held(x)
      BY <1>1, <1>2, <1>4, <3>1, Places, PlacesHold, FdAssumption DEF TypeOK
    <3>2. ASSUME NEW s \in Threads, x = Raw(s) \/ x = Arg(s)
          PROVE  Held(x)' = IF x = Obj(o) \/ x = Raw(t) THEN -1 ELSE Held(x)
      BY <1>1, <1>4, <2>3, <3>2, Places, PlacesHold DEF TypeOK
    <3> QED BY <3>1, <3>2, Places
  <2>4. \A n \in Fds : table'[n] = IF Held(Obj(o)) = n THEN NoThread ELSE table[n]
    BY <1>1, <1>3, <1>4, ApartNumbers DEF Reset, Close, TypeOK
  <2>5. OneOwner'
    BY <1>1, <1>3, <2>1, <2>2, <2>3, <2>4, CloseNumber
  <2> QED BY <2>1, <2>5
<1>5. CASE Reset(o, fd_[o], FALSE) /\ UNCHANGED raw
  <2>1. TypeOK' /\ DeadHoldsNothing' /\ ResetLocals'
    <3>1. PICK fd \in Fds \cup {-1} : fd = fd_[o]
      BY DEF TypeOK
    <3>2. /\ Reset(o, fd, FALSE) /\ fd_' \in [Objects -> Fds \cup {-1}]
          /\ raw' \in [Threads -> Fds \cup {-1}]
      BY <1>2, <1>5, <3>1 DEF TypeOK
    <3> QED BY <1>2, <3>2, ResetBegins
  <2>2. Held(Arg(t))' = Held(Obj(o)) /\ UNCHANGED table
    BY <1>1, <1>3, <1>5, PlacesHold DEF Reset, TypeOK
  <2>3. ASSUME NEW x \in Holders, x # Arg(t)
        PROVE  Held(x)' = IF x = Obj(o) THEN -1 ELSE Held(x)
    <3> USE DEF Reset
    <3>1. ASSUME NEW q \in Objects, x = Obj(q)
          PROVE  Held(x)' = IF x = Obj(o) THEN -1 ELSE Held(x)
      BY <1>1, <1>2, <1>5, <3>1, Places, PlacesHold, FdAssumption DEF TypeOK
    <3>2. ASSUME NEW s \in Threads, x = Raw(s) \/ x = Arg(s)
          PROVE  Held(x)' = Held(x) /\ x # Obj(o)
      BY <1>1, <1>5, <2>3, <3>2, Places, PlacesHold DEF TypeOK
    <3> QED BY <3>1, <3>2, Places
  <2>4. OneOwner'
    BY <1>1, <1>3, <2>1, <2>2, <2>3, MoveNumber
  <2> QED BY <2>1, <2>4
<1> QED BY <1>4, <1>5 DEF ResetTo

(* The destructor closes the number of its object. *)
LEMMA DestroyStep ==
    ASSUME IInv, NEW o \in Objects, Destroy(o)
    PROVE  IInv'
<1> DEFINE t == ThreadOf[o]
<1> USE DEF IInv, Free
<1>1. /\ t \in Threads /\ o # NoObject
      /\ Obj(o) \in Holders /\ Arg(t) \in Holders /\ Obj(o) # Arg(t)
  BY Places, FdAssumption
<1>2. /\ busy[t] = NoObject /\ o \in alive /\ Reset(o, -1, TRUE)
      /\ UNCHANGED <<alive, fd_, raw>>
  BY DEF Destroy
<1>3. Held(Obj(o)) = fd_[o] /\ Held(Arg(t)) = -1 /\ Held(Arg(t))' = -1
  BY <1>1, <1>2, PlacesHold DEF Reset, TypeOK, ResetLocals
<1>4. TypeOK' /\ DeadHoldsNothing' /\ ResetLocals'
  BY <1>2, ResetBegins DEF TypeOK
<1>5. ASSUME NEW x \in Holders, x # Arg(t)
      PROVE  Held(x)' = IF x = Obj(o) \/ x = Arg(t) THEN -1 ELSE Held(x)
  <2> USE DEF Reset
  <2>1. ASSUME NEW q \in Objects, x = Obj(q)
        PROVE  Held(x)' = IF x = Obj(o) \/ x = Arg(t) THEN -1 ELSE Held(x)
    BY <1>1, <1>2, <1>5, <2>1, Places, PlacesHold, FdAssumption DEF TypeOK
  <2>2. ASSUME NEW s \in Threads, x = Raw(s) \/ x = Arg(s)
        PROVE  Held(x)' = Held(x) /\ x # Obj(o)
    BY <1>1, <1>2, <1>5, <2>2, Places, PlacesHold DEF TypeOK
  <2> QED BY <1>5, <2>1, <2>2, Places
<1>6. \A n \in Fds : table'[n] = IF Held(Obj(o)) = n THEN NoThread ELSE table[n]
  BY <1>1, <1>2, <1>3, ApartNumbers, FdAssumption DEF Reset, Close, TypeOK
<1>7. OneOwner'
  BY <1>1, <1>3, <1>4, <1>5, <1>6, CloseNumber
<1> QED BY <1>4, <1>7

(* Every step of the process preserves the invariant. *)
LEMMA NextInv == ASSUME IInv, [Next]_vars PROVE IInv'
<1>1. CASE Next
  <2>1. ASSUME NEW t \in Threads,
               CloseRaw(t) \/ ResetEnds(t) \/ \E n \in Fds : Open(t, n)
        PROVE  IInv'
    BY <2>1, CloseRawStep, ResetEndsStep, OpenStep
  <2>2. ASSUME NEW o \in Objects, Construct(o) \/ Release(o) \/ ResetTo(o) \/ Destroy(o)
        PROVE  IInv'
    BY <2>2, ConstructStep, ReleaseStep, ResetToStep, DestroyStep
  <2>3. ASSUME NEW o \in Objects, NEW p \in Objects, ThreadOf[p] = ThreadOf[o],
               MoveConstruct(o, p)
        PROVE  IInv'
    BY <2>3, MoveConstructStep
  <2>4. ASSUME NEW o \in Objects, NEW p \in Objects, ThreadOf[p] = ThreadOf[o],
               MoveAssign(o, p)
        PROVE  IInv'
    <3>1. CASE o = p
      BY <2>4, <3>1 DEF MoveAssign, vars, IInv, TypeOK, DeadHoldsNothing, ResetLocals,
                        OneOwner, Held, Holders, HolderThread
    <3> QED BY <2>4, <3>1, MoveAssignStep
  <2> QED BY <1>1, <2>1, <2>2, <2>3, <2>4 DEF Next
<1>2. CASE UNCHANGED vars
  BY <1>2 DEF vars, IInv, TypeOK, DeadHoldsNothing, ResetLocals, OneOwner, Held,
              Holders, HolderThread
<1> QED BY <1>1, <1>2

-----------------------------------------------------------------------------
(* Every open descriptor has exactly one owner, of the thread that opened  *)
(* it, whatever UniqueFd objects are moved, reset, released and destroyed, *)
(* and however the kernel reuses numbers between close and assignment.     *)
THEOREM EveryDescriptorHasOneOwner == Spec => []OneOwner
<1>1. Spec => []IInv
  BY InitInv, NextInv, PTL DEF Spec
<1> QED BY <1>1, PTL DEF IInv
=============================================================================
