----------------------------- MODULE MC_SendOSC -----------------------------
(***************************************************************************)
(* The properties of SendOSC.                                              *)
(***************************************************************************)
EXTENDS SendOSC, OscDecode

\* A receiver can take the packet apart.
WellFormed(packet) ==
    \A i \in DOMAIN Decode(packet) : Decode(packet)[i].is \notin {"malformed", "garbled"}
=============================================================================
