---------------------------- MODULE OscClientOps ----------------------------
(***************************************************************************)
(* The procedures of libOSC/OSC-client.c as operators.  A packet is laid   *)
(* out in cells of four bytes (everything the library writes is aligned to *)
(* four), so that a buffer of size bytes has Size = size \div 4 cells, and *)
(* bufptr is the number of cells that are written, Len(b.cells).           *)
(*                                                                         *)
(* An OSCbuf is the record Empty below.  Every procedure is an operator    *)
(* that returns [buf |-> the OSCbuf after the call, err |-> its result];   *)
(* the value 0 means success.  typeStringPtr is a byte position, counted   *)
(* from 1, and 0 is the null pointer.  A pointer of prevCounts is the cell *)
(* it points to; Unset is one that was never assigned.                     *)
(***************************************************************************)
EXTENDS Integers, Sequences

CONSTANTS
    Size,                   \* capacity of the buffer in cells
    MAX_BUNDLE_NESTING,     \* 32 in the source
    LittleEndian            \* htonl(1) != 1 on this machine

ClientAssumption ==
    /\ Size \in Nat
    /\ MAX_BUNDLE_NESTING \in Nat \ {0}
    /\ LittleEndian \in BOOLEAN

EMPTY == "EMPTY"                    \* nothing written yet
ONE_MSG_ARGS == "ONE_MSG_ARGS"      \* the packet is one message
NEED_COUNT == "NEED_COUNT"          \* after a bundle was opened or closed
GET_ARGS == "GET_ARGS"              \* in a message of a bundle
DONE == "DONE"                      \* all bundles are closed

Nul == "\\0"                        \* the null byte
Unset == -1

\* Cells: text, one of a type string included, a byte count, a time tag.
Text(bytes) == [is |-> "text", b |-> bytes]
Word(first) == Text(<<first, "x", "x", "x">>)       \* an int or a float
Count(n) == [is |-> "count", n |-> n]
TimeTag(tt, network) == [is |-> "time", t |-> tt, network |-> network]
Blank == Count(0 - 1)               \* 0xaaaaaaaa, 0xbbbbbbbb

(* OSC_effectiveStringLength and OSC_padString: the string, one null byte, *)
(* and null bytes up to a multiple of four.                                *)
OSC_effectiveStringLength(s) == (Len(s) + 4) \div 4

OSC_padString(s) ==
    [c \in 1 .. OSC_effectiveStringLength(s) |->
        Text([k \in 1 .. 4 |->
                IF 4 * (c - 1) + k <= Len(s) THEN s[4 * (c - 1) + k] ELSE Nul])]

OSC_padStringWithAnExtraStupidComma(s) == OSC_padString(<<",">> \o s)

BundleName == OSC_padString(<<"#", "b", "u", "n", "d", "l", "e">>)

Empty ==
    [cells |-> <<>>, state |-> EMPTY, bundleDepth |-> 0, thisMsgSize |-> 0,
     prevCounts |-> [d \in 1 .. MAX_BUNDLE_NESTING |-> Unset],
     outerMostTimeStamp |-> 0, gettingFirstUntypedArg |-> FALSE,
     typeStringPtr |-> 0]

(* The pointers of an earlier packet stay in prevCounts (and thisMsgSize). *)
OSC_resetBuffer(b) ==
    [Empty EXCEPT !.prevCounts = b.prevCounts, !.thisMsgSize = b.thisMsgSize]

OSC_isBufferEmpty(b) == b.cells = <<>>
OSC_freeSpaceInBuffer(b) == Size - Len(b.cells)
OSC_isBufferDone(b) == b.state \in {DONE, ONE_MSG_ARGS}

Overflow(b, cells) == cells > OSC_freeSpaceInBuffer(b)

Returns(b, err) == [buf |-> b, err |-> err]
Then(r, op(_)) == IF r.err = 0 THEN op(r.buf) ELSE r

PatchMessageSize_WithCount(b) ==
    [b EXCEPT !.cells[b.thisMsgSize] = Count(Len(b.cells) - b.thisMsgSize + 1)]

(* The size of the message, without the count itself.                      *)
PatchMessageSize(b) ==
    [b EXCEPT !.cells[b.thisMsgSize] = Count(Len(b.cells) - b.thisMsgSize)]

CloseMessage(b) == IF b.state = GET_ARGS THEN PatchMessageSize(b) ELSE b

-----------------------------------------------------------------------------
(* The byte at typeStringPtr.  Behind the last written cell there is       *)
(* whatever the memory holds, stale.                                       *)
TypeByte(b, stale) ==
    LET cell == ((b.typeStringPtr - 1) \div 4) + 1
    IN  IF cell > Len(b.cells) THEN stale
        ELSE b.cells[cell].b[((b.typeStringPtr - 1) % 4) + 1]

\* Any argument will do while there are tags left.
CheckTypeTag_OnlyCounts(b, expected, stale) ==
    IF b.typeStringPtr = 0 THEN Returns(b, 0)
    ELSE IF (TypeByte(b, stale) = Nul) # (expected = Nul) THEN Returns(b, 9)
    ELSE Returns([b EXCEPT !.typeStringPtr = @ + 1], 0)

(* Without type tags everything is expected.  With them the pointer moves  *)
(* on, past the final null byte too.                                       *)
CheckTypeTag(b, expected, stale) ==
    IF b.typeStringPtr = 0 THEN Returns(b, 0)
    ELSE IF TypeByte(b, stale) # expected THEN Returns(b, 9)
    ELSE Returns([b EXCEPT !.typeStringPtr = @ + 1], 0)

NoTypes(b) == [b EXCEPT !.gettingFirstUntypedArg = FALSE, !.typeStringPtr = 0]

-----------------------------------------------------------------------------
(* The bundle name and the time tag, in network byte order.                *)
BundleHeader(b, tt) ==
    NoTypes([b EXCEPT
        !.cells = @ \o BundleName \o <<TimeTag(tt, TRUE), TimeTag(tt, TRUE)>>,
        !.outerMostTimeStamp =
            IF b.state = EMPTY THEN Len(b.cells) + Len(BundleName) + 1 ELSE @,
        !.state = NEED_COUNT])

\* The place of the count is not kept.
BlankCount_NoPointer(b) == [b EXCEPT !.cells = Append(@, Blank)]

BlankCount(b) ==
    [b EXCEPT !.cells = Append(@, Blank),
              !.prevCounts[b.bundleDepth] = Len(b.cells) + 1]

(* The first bundle of a packet has no count.                              *)
OpenBundleHeader(b, tt) ==
    IF b.state = EMPTY
    THEN IF Overflow(b, 4) THEN Returns(b, 1) ELSE Returns(BundleHeader(b, tt), 0)
    ELSE IF Overflow(b, 5) THEN Returns(b, 1)
         ELSE Returns(BundleHeader(BlankCount(b), tt), 0)

OSC_openBundle(buf, tt, stale) ==
    LET deeper == [buf EXCEPT !.bundleDepth = @ + 1]
    IN  IF buf.state = ONE_MSG_ARGS THEN Returns(buf, 3)
        ELSE IF buf.state = DONE THEN Returns(buf, 4)
        ELSE IF deeper.bundleDepth >= MAX_BUNDLE_NESTING THEN Returns(deeper, 2)
        ELSE Then(CheckTypeTag(deeper, Nul, stale),
                  LAMBDA b : OpenBundleHeader(CloseMessage(b), tt))

(* The time tag is written as the machine stores it.                       *)
ChangeOutermostTimestamp(b, tt) ==
    LET word == TimeTag(tt, ~LittleEndian)
    IN  IF b.outerMostTimeStamp = 0 THEN Returns(b, 1)
        ELSE Returns([b EXCEPT !.cells[b.outerMostTimeStamp] = word,
                               !.cells[b.outerMostTimeStamp + 1] = word], 0)

-----------------------------------------------------------------------------
(* closeBundle of a nested bundle writes its size through prevCounts.  No  *)
(* cell of the packet is written when that pointer is a stale one from     *)
(* behind bufptr; Stray says that there is no pointer at all.              *)
Stray(b) ==
    /\ b.bundleDepth > 1
    /\ b.bundleDepth \in DOMAIN b.prevCounts => b.prevCounts[b.bundleDepth] = Unset

PatchBundleSize(b) ==
    LET at == b.prevCounts[b.bundleDepth]
    IN  IF Stray(b) \/ at \notin DOMAIN b.cells THEN b
        ELSE [b EXCEPT !.cells[at] = Count(Len(b.cells) - at)]

\* The outermost bundle counts as none.
OSC_closeBundle_Outermost(buf, stale) ==
    IF buf.bundleDepth <= 1 THEN Returns(buf, 5)
    ELSE Then(CheckTypeTag(buf, Nul, stale), LAMBDA b :
           Returns(NoTypes([PatchBundleSize(CloseMessage(b)) EXCEPT
                     !.state = NEED_COUNT, !.bundleDepth = @ - 1]), 0))

OSC_closeBundle(buf, stale) ==
    IF buf.bundleDepth = 0 THEN Returns(buf, 5)
    ELSE Then(CheckTypeTag(buf, Nul, stale), LAMBDA b :
           LET closed == CloseMessage(b)
               patched == IF b.bundleDepth = 1 THEN closed ELSE PatchBundleSize(closed)
           IN  Returns(NoTypes([patched EXCEPT
                         !.state = IF b.bundleDepth = 1 THEN DONE ELSE NEED_COUNT,
                         !.bundleDepth = @ - 1]), 0))

-----------------------------------------------------------------------------
(* A message in a bundle starts with a count, and ends the one before it.  *)
MessageHeader(b, name) ==
    IF b.state = EMPTY
    THEN IF Overflow(b, OSC_effectiveStringLength(name)) THEN Returns(b, 1)
         ELSE Returns([b EXCEPT !.state = ONE_MSG_ARGS], 0)
    ELSE IF Overflow(b, 1 + OSC_effectiveStringLength(name)) THEN Returns(b, 1)
         ELSE Returns([CloseMessage(b) EXCEPT
                         !.cells = Append(@, Blank),
                         !.thisMsgSize = Len(b.cells) + 1,
                         !.state = GET_ARGS], 0)

OSC_writeAddress(buf, name, stale) ==
    IF buf.state = ONE_MSG_ARGS THEN Returns(buf, 7)
    ELSE IF buf.state = DONE THEN Returns(buf, 8)
    ELSE Then(CheckTypeTag(buf, Nul, stale), LAMBDA b :
         Then(MessageHeader(b, name), LAMBDA c :
           Returns([c EXCEPT !.cells = @ \o OSC_padString(name),
                             !.typeStringPtr = 0,
                             !.gettingFirstUntypedArg = TRUE], 0)))

OSC_writeAddressAndTypes(buf, name, types, stale) ==
    Then(OSC_writeAddress(buf, name, stale), LAMBDA b :
      IF Overflow(b, OSC_effectiveStringLength(types)) THEN Returns(b, 1)
      ELSE Returns([b EXCEPT !.cells = @ \o OSC_padString(types),
                             !.typeStringPtr = 4 * Len(b.cells) + 2,  \* skip comma
                             !.gettingFirstUntypedArg = FALSE], 0))

WriteCells(b, cells) ==
    [b EXCEPT !.cells = @ \o cells, !.gettingFirstUntypedArg = FALSE]

(* OSC_writeIntArg and OSC_writeFloatArg: type is "i" or "f".              *)
OSC_writeIntArg(buf, type, first, stale) ==
    IF Overflow(buf, 1) THEN Returns(buf, 1)
    ELSE Then(CheckTypeTag(buf, type, stale), LAMBDA b :
           Returns(WriteCells(b, <<Word(first)>>), 0))

(* The space is checked first, for all; the types one by one.              *)
OSC_writeFloatArgs(buf, firsts, stale) ==
    LET one[n \in 0 .. Len(firsts)] ==
          IF n = 0 THEN Returns(buf, 0)
          ELSE Then(one[n - 1], LAMBDA b :
               Then(CheckTypeTag(b, "f", stale), LAMBDA c :
                 Returns([c EXCEPT !.cells = Append(@, Word(firsts[n]))], 0)))
    IN  IF Overflow(buf, Len(firsts)) THEN Returns(buf, 1)
        ELSE Then(one[Len(firsts)], LAMBDA b : Returns(WriteCells(b, <<>>), 0))

(* The first argument of an untyped message must not look like type tags.  *)
OSC_writeStringArg(buf, s, stale) ==
    Then(CheckTypeTag(buf, "s", stale), LAMBDA b :
      IF b.gettingFirstUntypedArg /\ s # <<>> /\ s[1] = ","
      THEN IF Overflow(b, OSC_effectiveStringLength(s) + 1) THEN Returns(b, 1)
           ELSE Returns(WriteCells(b, OSC_padStringWithAnExtraStupidComma(s)), 0)
      ELSE IF Overflow(b, OSC_effectiveStringLength(s)) THEN Returns(b, 1)
           ELSE Returns(WriteCells(b, OSC_padString(s)), 0))

-----------------------------------------------------------------------------
(* The contents of a packet as tokens: what a client says with its calls,  *)
(* and what a receiver reads.  The cells of addresses, type strings and    *)
(* arguments stand for themselves.                                         *)
OpenToken(tt) == <<[is |-> "open", t |-> tt]>>
CloseToken == <<[is |-> "close"]>>
MessageToken == <<[is |-> "message"]>>

-----------------------------------------------------------------------------
(* What every call keeps: the packet fits into the buffer, and the         *)
(* pointers of the OSCbuf lie in it (CheckOverflow, OSC-client.c).         *)
InBuffer(b) ==
    /\ Len(b.cells) <= Size
    /\ b.state = GET_ARGS => b.thisMsgSize \in DOMAIN b.cells
    /\ b.outerMostTimeStamp # 0 => b.outerMostTimeStamp + 1 \in DOMAIN b.cells
=============================================================================
