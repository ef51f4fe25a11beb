---------------------------- MODULE OscStrings -----------------------------
(***************************************************************************)
(* Strings in packets: null bytes to the next multiple of four             *)
(* (OSC-Kit/OSC-string-help.c, and their likes in dumpOSC/dumpOSC.c).      *)
(*                                                                         *)
(* A pointer into a packet is the sequence of the bytes from there on,     *)
(* those behind the packet included; boundary is the number of bytes to    *)
(* the end of the packet, a multiple of four (otherwise the code stops     *)
(* with an internal error).  The result 0 is the null pointer.             *)
(***************************************************************************)
EXTENDS Integers, Sequences, SequencesExt

Nul == "\\0"                        \* the null byte
NotPrinting == {Nul, "x", "y", "z"} \* bytes of numbers, see DumpOscOps

FirstNul(m) == CHOOSE i \in DOMAIN m : m[i] = Nul /\ \A j \in 1 .. i - 1 : m[j] # Nul
HasNul(m) == \E i \in DOMAIN m : m[i] = Nul
Aligned(i) == 4 * ((i + 3) \div 4)
NulFrom(m, i, j) == \A k \in i .. j : k \in DOMAIN m /\ m[k] = Nul

(* How many bytes the string takes, 0 if it does not end in the packet or  *)
(* is padded with something else.  The byte at the boundary is read, but   *)
(* makes no difference: if it is null, the padding ends behind it.         *)
DataAfterAlignedString(m, boundary) ==
    IF ~HasNul(m) \/ FirstNul(m) > boundary THEN 0
    ELSE IF NulFrom(m, FirstNul(m) + 1, Aligned(FirstNul(m))) THEN Aligned(FirstNul(m))
    ELSE 0

(* dumpOSC.c: is it printable, and null-padded?  The characters are        *)
(* compared with the boundary, but the null bytes are not.                 *)
IsNiceString(m, boundary) ==
    /\ HasNul(m) /\ FirstNul(m) <= boundary + 1
    /\ \A i \in 1 .. FirstNul(m) - 1 : m[i] \notin NotPrinting
    /\ NulFrom(m, FirstNul(m) + 1, Aligned(FirstNul(m)))

OSCPaddedStrlen(s) == 4 * ((Len(s) + 4) \div 4)

OSCPaddedStrcpy_Shares(s) == s \o [i \in 1 .. (4 - (Len(s) % 4)) % 4 |-> Nul]

\* What is at an aligned target afterwards.
OSCPaddedStrcpy(s) == s \o [i \in 1 .. 4 - (Len(s) % 4) |-> Nul]

(* One round of OSCParseStringList: places of the strings that were found, *)
(* and where it looks; the end is noticed at the beginning of a round.     *)
ParseString(m, boundary, r) ==
    LET after == DataAfterAlignedString(SubSeq(m, r.at + 1, Len(m)), boundary - r.at)
    IN  IF r.status # "on" THEN r
        ELSE IF r.at = boundary THEN [r EXCEPT !.status = "done"]
        ELSE IF after = 0 THEN [r EXCEPT !.status = "failed"]
        ELSE [found |-> Append(r.found, r.at + 1), at |-> r.at + after, status |-> "on"]

OSCParseStringList(m, boundary, maxStrings) ==
    LET round[k \in 0 .. maxStrings] ==
            IF k = 0 THEN [found |-> <<>>, at |-> 0, status |-> "on"]
            ELSE ParseString(m, boundary, round[k - 1])
    IN  IF round[maxStrings].status = "done"
        THEN [ok |-> TRUE, found |-> round[maxStrings].found]
        ELSE [ok |-> FALSE, found |-> <<>>]
=============================================================================
