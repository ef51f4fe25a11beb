------------------------------ MODULE OscStream ------------------------------
(***************************************************************************)
(* What OSC.oz promises of getOSCs: a stream of the packets that were      *)
(* received, each once, complete, and in their order.                      *)
(***************************************************************************)
EXTENDS Sequences

CONSTANT Texts

VARIABLES pending, stream

vars == <<pending, stream>>

Init == pending = <<>> /\ stream = <<>>

Receive(text) == pending' = Append(pending, text) /\ UNCHANGED stream

Deliver ==
    /\ pending # <<>>
    /\ stream' = Append(stream, Head(pending))
    /\ pending' = Tail(pending)

Next == Deliver \/ \E text \in Texts : Receive(text)

Spec == Init /\ [][Next]_vars /\ WF_vars(Deliver)
=============================================================================
