----------------------------- MODULE ObjectStore -----------------------------
(***************************************************************************)
(* ObjectStore: what Put and Delete promise to a caller on the other side  *)
(* of an unreliable network.                                               *)
(*                                                                         *)
(* An operation takes effect on the map of ChunkStore at most once, at one *)
(* instant after it was asked for, and with the payload asked for.  A      *)
(* caller that is told Ok knows that it has taken effect and, for a Put,   *)
(* that a power loss cannot undo it; a caller that is told a definite      *)
(* failure knows that it never will.  Any other status leaves it open: the *)
(* operation may have taken effect, and may still do so after the caller   *)
(* has left.                                                               *)
(***************************************************************************)
CONSTANTS ChunkIds, Contents, NoContent, Calls, NoAsk, NoReply

VARIABLES
    chunks, stable,   \* the map, as in ChunkStore
    asked,            \* the operation of a call: kind, id and payload
    state,            \* how far it is; a status code once it is decided
    told              \* the status its caller was told

store == <<chunks, stable>>
vars == <<store, asked, state, told>>

Store == INSTANCE ChunkStore

Operation == [kind : {"put", "delete"}, id : ChunkIds, payload : Contents \cup {NoContent}]

Definite   == {"Ok", "AlreadyExists", "NotFound", "Corruption", "InvalidArgument"}
Indefinite == {"Timeout", "Unavailable", "IoError"}

Running(k) == state[k] \in {"pending", "effected"}

Init == /\ Store!Init
        /\ asked = [k \in Calls |-> NoAsk]
        /\ state = [k \in Calls |-> "none"]
        /\ told = [k \in Calls |-> NoReply]

Ask(k) ==
    /\ state[k] = "none" /\ asked'[k] \in Operation
    /\ asked' = [asked EXCEPT ![k] = asked'[k]]
    /\ state' = [state EXCEPT ![k] = "pending"]
    /\ UNCHANGED <<store, told>>

TakeEffect(k) ==
    /\ state[k] = "pending"
    /\ state' = [state EXCEPT ![k] = "effected"]
    /\ \/ /\ asked[k].kind = "put" /\ asked[k].payload \in Contents
          /\ Store!Commit(asked[k].id, asked[k].payload)
       \/ asked[k].kind = "delete" /\ Store!Remove(asked[k].id)
    /\ UNCHANGED <<asked, told>>

(***************************************************************************)
(* The worker decides what to answer.  A Put is durable when it is Ok.     *)
(***************************************************************************)
Decide(k) ==
    LET code == state'[k]
    IN  /\ Running(k)
        /\ \/ code = "Ok" /\ state[k] = "effected"
           \/ code \in Definite \ {"Ok"} /\ state[k] = "pending"
           \/ code \in Indefinite
        /\ code = "AlreadyExists" => chunks[asked[k].id] # NoContent
        /\ code = "NotFound" => chunks[asked[k].id] = NoContent
        /\ IF code = "Ok" /\ asked[k].kind = "put" THEN Store!Sync ELSE UNCHANGED store
        /\ state' = [state EXCEPT ![k] = code]
        /\ UNCHANGED <<asked, told>>

Tell(k) ==
    /\ state[k] # "none" /\ told[k] = NoReply
    /\ told'[k] \in Indefinite \cup ({state[k]} \cap Definite)
    /\ told' = [told EXCEPT ![k] = told'[k]]
    /\ UNCHANGED <<store, asked, state>>

(***************************************************************************)
(* The answer reaches no caller: the call is broken, or the worker dies,   *)
(* perhaps by a power loss.  An operation without a caller is forgotten.   *)
(***************************************************************************)
Lost(K) ==
    /\ \A k \in K : state'[k] \in {"none", "lost"}
    /\ state' = [k \in Calls |-> IF k \in K THEN state'[k] ELSE state[k]]
    /\ asked' = [k \in Calls |-> IF k \in K /\ state'[k] = "none" THEN NoAsk ELSE asked[k]]
    /\ UNCHANGED told

Lose(k) ==
    /\ Running(k)
    /\ Lost({k})
    /\ Store!Sync \/ UNCHANGED store

Crash ==
    /\ Lost({k \in Calls : Running(k)})
    /\ Store!PowerLoss \/ UNCHANGED store

(***************************************************************************)
(* The caller leaves; its operation goes on if it has not ended.           *)
(***************************************************************************)
Leave(k) ==
    /\ told' = [told EXCEPT ![k] = NoReply]
    /\ IF Running(k) THEN UNCHANGED <<asked, state>>
       ELSE /\ asked' = [asked EXCEPT ![k] = NoAsk]
            /\ state' = [state EXCEPT ![k] = "none"]
    /\ UNCHANGED store

Next ==
    \/ \E k \in Calls :
         Leave(k) \/ Ask(k) \/ TakeEffect(k) \/ Decide(k) \/ Tell(k) \/ Lose(k)
    \/ Crash

Spec == Init /\ [][Next]_vars
=============================================================================
