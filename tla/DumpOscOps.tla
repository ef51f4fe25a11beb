---------------------------- MODULE DumpOscOps -----------------------------
(***************************************************************************)
(* What dumpOSC prints of a packet (dumpOSC/dumpOSC.c).  The packet lies   *)
(* in the first n cells of mbuf; the cells behind it are those of earlier  *)
(* packets.  A place is the index of a cell, Null the null pointer.        *)
(*                                                                         *)
(* Printing is a sequence of lines: [is |-> "open", tag], [is |-> "close"],*)
(* [is |-> "message", name, args], [is |-> "blank"], and [is |-> "crash"]  *)
(* where the program follows the null pointer.                             *)
(***************************************************************************)
EXTENDS OscClientOps

Str == INSTANCE OscStrings

Null == 0

(* Bytes by what they make of a word that starts with them: an int that    *)
(* the heuristics prints as such (x, or a null byte), a float (y, or a     *)
(* letter up to H), or neither.                                            *)
IntBytes == {Nul, "x"}
FloatBytes == {"y", "B"}
BytesOf(cell) == IF cell.is = "text" THEN cell.b
                 ELSE IF cell.is = "count" THEN <<Nul, Nul, Nul, "x">>
                 ELSE <<"z", "z", "z", "z">>
ZeroCell == Text(<<Nul, Nul, Nul, Nul>>)
At(mem, p) == IF p \in DOMAIN mem THEN mem[p] ELSE ZeroCell

\* The bytes from a place on, with a cell of whatever follows mbuf.
Bytes(mem, p) ==
    Str!FlattenSeq([i \in 1 .. (IF p > Len(mem) THEN 1 ELSE Len(mem) - p + 2) |->
                    BytesOf(At(mem, p + i - 1))])
Room(p, end) == IF p >= end THEN 0 ELSE 4 * (end - p)

IsNiceString(mem, p, end) == Str!IsNiceString(Bytes(mem, p), Room(p, end))
DataAfterAlignedString(mem, p, end) ==
    LET n == Str!DataAfterAlignedString(Bytes(mem, p), Room(p, end))
    IN  IF n = 0 THEN Null ELSE p + n \div 4
StringAt(mem, p) == LET m == Bytes(mem, p) IN SubSeq(m, 1, Str!FirstNul(m) - 1)

IntArg(cell) == [is |-> "int", cell |-> cell]
FloatArg(cell) == [is |-> "float", cell |-> cell]
StringArg(s) == [is |-> "string", text |-> s]
HexArg(cell) == [is |-> "hex", cell |-> cell]
WordArg(type) == [is |-> "word", type |-> type]     \* "[True] " and the like
NotAString == [is |-> "not a string"]
Crash == [is |-> "crash"]

-----------------------------------------------------------------------------
(* The arguments from place on, for the type tags that are left.  No place *)
(* is compared with the end of the packet.                                 *)
TypedFrom(mem, tags, place, end) ==
    LET from[types \in Seq(STRING), p \in Nat] ==
          IF types = <<>> THEN <<>>
          ELSE IF Head(types) \in {"i", "r", "m", "c", "f", "s", "S"} /\ p = Null THEN <<Crash>>
          ELSE CASE Head(types) \in {"i", "r", "m", "c"} ->
                      <<IntArg(At(mem, p))>> \o from[Tail(types), p + 1]
                 [] Head(types) = "f" -> <<FloatArg(At(mem, p))>> \o from[Tail(types), p + 1]
                 [] Head(types) \in {"h", "t", "d"} ->
                      <<WordArg(Head(types))>> \o from[Tail(types), p + 2]
                 [] Head(types) \in {"s", "S"} ->
                      IF ~IsNiceString(mem, p, end) THEN <<NotAString>>
                      ELSE <<StringArg(StringAt(mem, p))>>
                           \o from[Tail(types), DataAfterAlignedString(mem, p, end)]
                 [] Head(types) \in {"T", "F", "N", "I"} ->
                      <<WordArg(Head(types))>> \o from[Tail(types), p]
                 [] OTHER -> <<WordArg(Head(types))>>
    IN  from[tags, place]

(* The arguments from place on, by what they look like.                    *)
GuessedFrom(mem, place, end, skipComma) ==
    LET from[p \in Nat] ==
          LET first == BytesOf(mem[p])[1]
              next == DataAfterAlignedString(mem, p, end)
              string == IF skipComma /\ p = place THEN Tail(StringAt(mem, p))
                        ELSE StringAt(mem, p)
          IN  IF p >= end THEN <<>>
              ELSE IF first \in IntBytes THEN <<IntArg(mem[p])>> \o from[p + 1]
              ELSE IF first \in FloatBytes THEN <<FloatArg(mem[p])>> \o from[p + 1]
              ELSE IF IsNiceString(mem, p, end)
              THEN <<StringArg(string)>> \o (IF next = Null THEN <<Crash>> ELSE from[next])
              ELSE <<HexArg(mem[p])>> \o from[p + 1]
    IN  from[place]

PrintHeuristicallyTypeGuessedArgs(mem, p, end, skipComma) ==
    GuessedFrom(mem, p, end, skipComma)

PrintTypeTaggedArgs(mem, p, end) ==
    IF ~IsNiceString(mem, p, end) THEN PrintHeuristicallyTypeGuessedArgs(mem, p, end, FALSE)
    ELSE TypedFrom(mem, Tail(StringAt(mem, p)), DataAfterAlignedString(mem, p, end), end)

(* A message line; an argument that is no string ends its line early.      *)
Smessage(mem, address, p, end) ==
    LET first == BytesOf(At(mem, p))
        args == IF p = end THEN <<>>
                ELSE IF first[1] # "," THEN PrintHeuristicallyTypeGuessedArgs(mem, p, end, FALSE)
                ELSE IF first[2] # "," THEN PrintTypeTaggedArgs(mem, p, end)
                ELSE PrintHeuristicallyTypeGuessedArgs(mem, p, end, TRUE)
        line == <<[is |-> "message", name |-> address, args |-> args]>>
    IN  IF args # <<>> /\ args[Len(args)] = Crash THEN <<Crash>>
        ELSE IF args # <<>> /\ args[Len(args)] = NotAString THEN line \o <<[is |-> "blank"]>>
        ELSE line

(* The packet, or the element of a bundle, from place start to stop.  A    *)
(* bundle is its elements and its bracket; a size that is not a multiple   *)
(* of four or too large (text read as a size is one or the other) ends it  *)
(* without a bracket.                                                      *)
ParseOSCPacket(mem, start, stop) ==
    LET packet[p \in Nat, end \in Nat] ==
          LET args == DataAfterAlignedString(mem, p, end)
              elements[i \in Nat] ==
                IF i >= end THEN <<[is |-> "close"]>>
                ELSE IF mem[i].is # "count" \/ i + mem[i].n + 1 > end THEN <<>>
                ELSE packet[i + 1, i + 1 + mem[i].n] \o elements[i + 1 + mem[i].n]
          IN  IF end - p >= 2 /\ SubSeq(mem, p, p + 1) = BundleName
              THEN IF end - p < 4 THEN <<>>
                   ELSE <<[is |-> "open", tag |-> mem[p + 2]]>> \o elements[p + 4]
              ELSE IF args = Null THEN <<>>
              ELSE Smessage(mem, StringAt(mem, p), args, end)
    IN  packet[start, stop]
=============================================================================
