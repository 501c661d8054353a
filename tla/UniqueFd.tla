------------------------------ MODULE UniqueFd ------------------------------
(***************************************************************************)
(* UniqueFd: the owner of a file descriptor, through which the store and   *)
(* the client open every file.                                             *)
(*                                                                         *)
(* Descriptors are small numbers that the kernel gives out again as soon   *)
(* as they are closed, to any thread of the process.  A number closed      *)
(* twice, or used after it was closed, may by then be another thread's     *)
(* file, so that the question is about all threads together although no    *)
(* two of them share an object.                                            *)
(***************************************************************************)
EXTENDS Integers

CONSTANTS
    Threads,    \* threads of the process
    Objects,    \* places for UniqueFd objects
    ThreadOf,   \* the thread on whose stack a place is
    Fds,        \* descriptor numbers
    NoThread, NoObject

ASSUME FdAssumption ==
    /\ ThreadOf \in [Objects -> Threads]
    /\ Fds \subseteq Nat
    /\ NoThread \notin Threads /\ NoObject \notin Objects

VARIABLES
    table,   \* the kernel's table: the thread that opened a number
    alive,   \* the objects between constructor and destructor
    fd_,     \* their member
    raw,     \* the number a thread holds as a plain int, from open or release
    busy,    \* the object in whose reset the thread is, ...
    arg,     \* ... its argument, ...
    dying    \* ... and whether the destructor called it

vars == <<table, alive, fd_, raw, busy, arg, dying>>

TypeOK ==
    /\ table \in [Fds -> Threads \cup {NoThread}]
    /\ alive \in SUBSET Objects
    /\ fd_ \in [Objects -> Fds \cup {-1}]
    /\ raw \in [Threads -> Fds \cup {-1}]
    /\ busy \in [Threads -> Objects \cup {NoObject}]
    /\ arg \in [Threads -> Fds \cup {-1}]
    /\ dying \in [Threads -> BOOLEAN]

Init ==
    /\ table = [n \in Fds |-> NoThread]
    /\ alive = {}
    /\ fd_ = [o \in Objects |-> -1]
    /\ raw = [t \in Threads |-> -1]
    /\ busy = [t \in Threads |-> NoObject]
    /\ arg = [t \in Threads |-> -1]
    /\ dying = [t \in Threads |-> FALSE]

-----------------------------------------------------------------------------
Free(t) == busy[t] = NoObject

(***************************************************************************)
(* System calls (external).  close takes whatever number it is given.      *)
(***************************************************************************)
Open(t, n) ==
    /\ Free(t) /\ raw[t] = -1
    /\ table[n] = NoThread
    /\ table' = [table EXCEPT ![n] = t]
    /\ raw' = [raw EXCEPT ![t] = n]
    /\ UNCHANGED <<alive, fd_, busy, arg, dying>>

Close(n) == table' = [table EXCEPT ![n] = NoThread]

(***************************************************************************)
(* A caller closes what it has been handed by release.                     *)
(***************************************************************************)
CloseRaw(t) ==
    /\ Free(t) /\ raw[t] # -1
    /\ Close(raw[t])
    /\ raw' = [raw EXCEPT ![t] = -1]
    /\ UNCHANGED <<alive, fd_, busy, arg, dying>>

(***************************************************************************)
(* reset closes the old number; other threads run before the member is     *)
(* assigned.                                                               *)
(***************************************************************************)
ResetMutant(o, fd, dies) ==         \* the old number is not compared with the new
    LET t == ThreadOf[o]
    IN  /\ IF fd_[o] >= 0 THEN Close(fd_[o]) ELSE UNCHANGED table
        /\ busy' = [busy EXCEPT ![t] = o]
        /\ arg' = [arg EXCEPT ![t] = fd]
        /\ dying' = [dying EXCEPT ![t] = dies]

Reset(o, fd, dies) ==
    LET t == ThreadOf[o]
    IN  /\ IF fd_[o] >= 0 /\ fd_[o] # fd THEN Close(fd_[o]) ELSE UNCHANGED table
        /\ busy' = [busy EXCEPT ![t] = o]
        /\ arg' = [arg EXCEPT ![t] = fd]
        /\ dying' = [dying EXCEPT ![t] = dies]

ResetEnds(t) ==
    /\ busy[t] # NoObject
    /\ fd_' = [fd_ EXCEPT ![busy[t]] = arg[t]]
    /\ alive' = IF dying[t] THEN alive \ {busy[t]} ELSE alive
    /\ busy' = [busy EXCEPT ![t] = NoObject]
    /\ arg' = [arg EXCEPT ![t] = -1]
    /\ dying' = [dying EXCEPT ![t] = FALSE]
    /\ UNCHANGED <<table, raw>>

(***************************************************************************)
(* The constructors: from a number, or -1 if open failed or there is none, *)
(* and from another object.                                                *)
(***************************************************************************)
Construct(o) ==
    /\ Free(ThreadOf[o]) /\ o \notin alive
    /\ alive' = alive \cup {o}
    /\ fd_' = [fd_ EXCEPT ![o] = raw[ThreadOf[o]]]
    /\ raw' = [raw EXCEPT ![ThreadOf[o]] = -1]
    /\ UNCHANGED <<table, busy, arg, dying>>

MoveConstruct(o, other) ==
    /\ Free(ThreadOf[o]) /\ o \notin alive /\ other \in alive
    /\ alive' = alive \cup {o}
    /\ fd_' = [fd_ EXCEPT ![o] = fd_[other], ![other] = -1]
    /\ UNCHANGED <<table, raw, busy, arg, dying>>

(***************************************************************************)
(* Assignment from itself does nothing.                                    *)
(***************************************************************************)
MoveAssign(o, other) ==
    /\ Free(ThreadOf[o]) /\ o \in alive /\ other \in alive
    /\ IF o = other THEN UNCHANGED vars
       ELSE /\ fd_' = [fd_ EXCEPT ![other] = -1]
            /\ Reset(o, fd_[other], FALSE)
            /\ UNCHANGED <<alive, raw>>

Release(o) ==
    /\ Free(ThreadOf[o]) /\ o \in alive /\ raw[ThreadOf[o]] = -1
    /\ raw' = [raw EXCEPT ![ThreadOf[o]] = fd_[o]]
    /\ fd_' = [fd_ EXCEPT ![o] = -1]
    /\ UNCHANGED <<table, alive, busy, arg, dying>>

(***************************************************************************)
(* reset called with a number the caller holds, with none, or with the one *)
(* that get has returned.                                                  *)
(***************************************************************************)
ResetTo(o) ==
    /\ Free(ThreadOf[o]) /\ o \in alive
    /\ \/ /\ Reset(o, raw[ThreadOf[o]], FALSE)
          /\ raw' = [raw EXCEPT ![ThreadOf[o]] = -1]
       \/ Reset(o, fd_[o], FALSE) /\ UNCHANGED raw
    /\ UNCHANGED <<alive, fd_>>

Destroy(o) ==
    /\ Free(ThreadOf[o]) /\ o \in alive
    /\ Reset(o, -1, TRUE)
    /\ UNCHANGED <<alive, fd_, raw>>

Next ==
    \/ \E t \in Threads : CloseRaw(t) \/ ResetEnds(t) \/ \E n \in Fds : Open(t, n)
    \/ \E o \in Objects :
         \/ Construct(o) \/ Release(o) \/ ResetTo(o) \/ Destroy(o)
         \/ \E p \in Objects : /\ ThreadOf[p] = ThreadOf[o]
                               /\ MoveConstruct(o, p) \/ MoveAssign(o, p)

Spec == Init /\ [][Next]_vars

-----------------------------------------------------------------------------
(***************************************************************************)
(* Where a number may be held: in an object, except while its reset runs,  *)
(* in a plain int, or as the argument of a reset.                          *)
(***************************************************************************)
Holders == [in : {"object"}, of : Objects] \cup [in : {"raw", "arg"}, of : Threads]

HolderThread(h) == IF h.in = "object" THEN ThreadOf[h.of] ELSE h.of

Held(h) == CASE h.in = "raw" -> raw[h.of]
             [] h.in = "arg" -> arg[h.of]
             [] OTHER -> IF busy[ThreadOf[h.of]] = h.of THEN -1 ELSE fd_[h.of]

(***************************************************************************)
(* Every open descriptor is held exactly once, by the thread that opened   *)
(* it, and nothing else is held: no descriptor leaks, none is closed       *)
(* twice or by the wrong thread, and no object refers to a closed number,  *)
(* which the kernel may have given to somebody else.                       *)
(***************************************************************************)
OneOwner ==
    /\ \A h \in Holders : Held(h) # -1 => table[Held(h)] = HolderThread(h)
    /\ \A h, g \in Holders : Held(h) = Held(g) /\ Held(h) # -1 => h = g
    /\ \A n \in Fds : table[n] # NoThread => \E h \in Holders : Held(h) = n
=============================================================================
