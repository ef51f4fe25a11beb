----------------------------- MODULE OscDecode -----------------------------
(***************************************************************************)
(* What a receiver reads from a packet of OscClientOps: the layout as      *)
(* OSC-Kit/OSC-receive.c (ParseBundle) and dumpOSC.c (ParseOSCPacket) take *)
(* it apart.                                                               *)
(***************************************************************************)
EXTENDS OscClientOps

TimeToken(cell) ==
    IF cell.is = "time" /\ cell.network THEN OpenToken(cell.t) ELSE <<[is |-> "garbled"]>>
Malformed == <<[is |-> "malformed"]>>

RECURSIVE Decode(_), Elements(_)

\* A packet, or an element of a bundle.
Decode(c) ==
    IF Len(c) >= 2 /\ SubSeq(c, 1, 2) = BundleName
    THEN IF Len(c) < 4 THEN Malformed
         ELSE TimeToken(c[3]) \o Elements(SubSeq(c, 5, Len(c))) \o CloseToken
    ELSE IF c = <<>> THEN Malformed
    ELSE MessageToken \o c

Elements(c) ==
    IF c = <<>> THEN <<>>
    ELSE IF c[1].is # "count" THEN Malformed
    ELSE IF c[1].n < 0 \/ c[1].n + 1 > Len(c) THEN Malformed
    ELSE Decode(SubSeq(c, 2, c[1].n + 1)) \o Elements(SubSeq(c, c[1].n + 2, Len(c)))
=============================================================================
