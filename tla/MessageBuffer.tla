---------------------------- MODULE MessageBuffer ----------------------------
(***************************************************************************)
(* What OSC.oz promises of class Buffer: "arriving data is collected with  *)
(* the method put, and all data collected so far retrieved with the method *)
(* getAll", in the order in which it was put.                              *)
(***************************************************************************)
EXTENDS Sequences

CONSTANT Items

VARIABLES
    collected,      \* what was put and not retrieved
    retrieved       \* what all calls of getAll have returned, in their order

vars == <<collected, retrieved>>

Init == collected = <<>> /\ retrieved = <<>>

Put(x) == collected' = Append(collected, x) /\ UNCHANGED retrieved

GetAll == retrieved' = retrieved \o collected /\ collected' = <<>>

Next == GetAll \/ \E x \in Items : Put(x)

Spec == Init /\ [][Next]_vars
=============================================================================
