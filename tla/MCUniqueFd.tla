----------------------------- MODULE MCUniqueFd -----------------------------
(***************************************************************************)
(* UniqueFd on a small instance: two threads with two objects each, and    *)
(* fewer numbers than would be needed to keep closed ones unused.          *)
(***************************************************************************)
EXTENDS UniqueFd

CONSTANTS t1, t2, o1, o2, p1, p2

MCThreadOf == [o \in Objects |-> IF o \in {o1, o2} THEN t1 ELSE t2]
=============================================================================
