---------------------------- MODULE MC_OscClient ----------------------------
(***************************************************************************)
(* The properties of OscClient.                                            *)
(***************************************************************************)
EXTENDS OscClient, OscDecode

(* The state of the OSCbuf and of the program (OSC-client.h).              *)
TypeOK ==
    /\ StaysInBuffer
    /\ b.state \in {EMPTY, ONE_MSG_ARGS, NEED_COUNT, GET_ARGS, DONE}
    /\ b.bundleDepth \in 0 .. DeepestTry + 1
    /\ b.typeStringPtr # 0 => b.typeStringPtr \in 2 .. 4 * Len(b.cells) + 4
    /\ err \in 0 .. 9 /\ closing \in BOOLEAN /\ stray \in BOOLEAN

(* A packet that is done reads back as what was said: every count between  *)
(* its elements was patched with the right size, whatever was nested where *)
(* (PatchMessageSize, OSC_closeBundle).                                    *)
SaidReadsBack == OSC_isBufferDone(b) /\ err = 0 => Decode(b.cells) = said

(* A receiver sees type tags in exactly the messages that were written     *)
(* with them, although an untyped message may start with a string that     *)
(* starts with a comma (OSC_writeStringArg; dumpOSC.c, Smessage).          *)
LooksTyped(tokens, i) ==
    LET first == i + 2      \* the names are one cell long
    IN  /\ tokens[i].is = "message"
        /\ first \in DOMAIN tokens
        /\ tokens[first].is = "text"
        /\ tokens[first].b[1] = "," /\ tokens[first].b[2] # ","

TypedAsSaid ==
    OSC_isBufferDone(b) /\ err = 0 =>
        LET tokens == Decode(b.cells)
        IN  Cardinality({i \in DOMAIN tokens : LooksTyped(tokens, i)}) = Len(messages)
=============================================================================
