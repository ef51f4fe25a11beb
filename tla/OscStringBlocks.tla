-------------------------- MODULE OscStringBlocks ---------------------------
(***************************************************************************)
(* The operators of OscStrings over every block of bytes: the block is     *)
(* written byte by byte, in memory that holds other bytes behind it.       *)
(***************************************************************************)
EXTENDS OscStrings

CONSTANTS
    Bytes,          \* of blocks
    Behind,         \* what may follow a block
    MaxBytes,       \* bound on the block
    MaxStrings      \* bound on the argument maxStrings

BlocksAssumption ==
    /\ Behind \subseteq Seq(Bytes)
    /\ MaxBytes \in Nat /\ MaxStrings \in Nat

VARIABLES block, behind

blockVars == <<block, behind>>

BlocksInit == block = <<>> /\ behind \in Behind

Write(byte) ==
    /\ Len(block) < MaxBytes
    /\ block' = Append(block, byte)
    /\ UNCHANGED behind

BlocksNext == \E byte \in Bytes : Write(byte)

BlocksSpec == BlocksInit /\ [][BlocksNext]_blockVars

-----------------------------------------------------------------------------
Memory == block \o behind
Whole == Len(block) % 4 = 0

\* The bytes i to j are what OSCPaddedStrcpy makes of a string.
Written(m, i, j) ==
    \E n \in i .. j : /\ \A k \in i .. n - 1 : m[k] # Nul
                      /\ SubSeq(m, i, j) = OSCPaddedStrcpy(SubSeq(m, i, n - 1))

\* Where n strings end that OSCPaddedStrcpy, called once for each, leaves in m.
Ends(m, n) ==
    {e \in [0 .. n -> {4 * k : k \in 0 .. Len(m) \div 4}] :
        e[0] = 0 /\ e[n] = Len(m) /\ \A i \in 1 .. n : Written(m, e[i - 1] + 1, e[i])}

(* A string is skipped exactly when a writer could have put it there, by   *)
(* the bytes that were written, and whatever lies behind the block         *)
(* (OSCDataAfterAlignedString, OSCPaddedStrcpy, OSCPaddedStrlen).          *)
ReadsWhatIsWritten ==
    Whole => LET after == DataAfterAlignedString(Memory, Len(block))
             IN  /\ \A j \in 1 .. Len(block) : Written(block, 1, j) => after = j
                 /\ after # 0 => /\ after \in 1 .. Len(block) /\ Written(block, 1, after)
                                 /\ after = OSCPaddedStrlen(SubSeq(block, 1, FirstNul(block) - 1))

(* With a place to spare, OSCParseStringList finds the strings of a list   *)
(* that was written string by string, and refuses everything else.         *)
ParsesLists ==
    Whole => \A max \in 0 .. MaxStrings :
        LET parsed == OSCParseStringList(Memory, Len(block), max)
        IN  /\ parsed.ok => \E n \in 0 .. max - 1 : Ends(block, n) # {}
            /\ \A n \in 0 .. max - 1 : \A e \in Ends(block, n) :
                  parsed = [ok |-> TRUE, found |-> [i \in 1 .. n |-> e[i - 1] + 1]]

(* What IsNiceString accepts is a string that DataAfterAlignedString can   *)
(* skip: dumpOSC goes on at its result without looking at it.  (With four  *)
(* null bytes behind the block a string may also end there.)               *)
NiceStringsEnd ==
    Whole /\ IsNiceString(Memory, Len(block)) /\ ~NulFrom(behind, 1, 4) =>
        /\ DataAfterAlignedString(Memory, Len(block)) # 0
        /\ \A i \in 1 .. FirstNul(block) - 1 : block[i] \notin NotPrinting

(* A string is skipped exactly when a writer could have put it there; a    *)
(* list of strings is parsed exactly when it is well formed and there is a *)
(* place to spare; and a string that dumpOSC accepts can be skipped.       *)
StringsReadAsWritten == ReadsWhatIsWritten /\ ParsesLists /\ NiceStringsEnd
=============================================================================
