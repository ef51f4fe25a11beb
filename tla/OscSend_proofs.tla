--------------------------- MODULE OscSend_proofs --------------------------
(***************************************************************************)
(* Theorems about OscClient, for buffers of any size, any depth of nesting *)
(* and any arguments.                                                      *)
(***************************************************************************)
EXTENDS OscClient, FiniteSetTheorems, SequenceTheorems, WellFoundedInduction, TLAPS

-----------------------------------------------------------------------------
(* Numbers, and functions that are defined by recursion over them.         *)

(* A set of numbers that is not empty has a least one.                     *)
LEMMA LeastNatural ==
  ASSUME NEW T \in SUBSET Nat, T # {}
  PROVE  \E x \in T : \A y \in T : x <= y
<1>. DEFINE R == OpToRel(<, Nat)
<1>1. \E x \in T : \A y \in T : <<y, x>> \notin R
  <2>. HIDE DEF R
  <2>1. IsWellFoundedOn(R, Nat)
    BY NatLessThanWellFounded DEF R
  <2>. QED  BY <2>1, WFMin
<1>2. R = {p \in Nat \X Nat : p[1] < p[2]}
  BY DEF OpToRel
<1>. HIDE DEF R
<1>3. ASSUME NEW x \in T, NEW y \in T, <<y, x>> \notin R
      PROVE  x <= y
  BY <1>2, <1>3
<1>. QED  BY <1>1, <1>3

(* A set that holds 0, and with a number the next one, up to n.            *)
LEMMA Upwards ==
  ASSUME NEW n \in Nat, NEW T, 0 \in T,
         \A k \in 1 .. n : k - 1 \in T => k \in T
  PROVE  \A k \in 0 .. n : k \in T
<1>. SUFFICES ASSUME NEW m \in 0 .. n, m \notin T
              PROVE  FALSE
  OBVIOUS
<1>. DEFINE Missing == {k \in 0 .. n : k \notin T}
<1>1. Missing \in SUBSET Nat /\ m \in Missing
  OBVIOUS
<1>. HIDE DEF Missing
<1>2. PICK k \in Missing : \A j \in Missing : k <= j
  BY <1>1, LeastNatural
<1>3. k \in 0 .. n /\ k \notin T
  BY <1>2 DEF Missing
<1>4. k # 0 /\ k - 1 \in 0 .. n
  BY <1>3
<1>5. k - 1 \in T
  BY <1>2, <1>3, <1>4 DEF Missing
<1>. QED  BY <1>3, <1>4, <1>5

(* There is a function that starts with base and goes on with step.        *)
GoesOn(f, n, base, step) ==
    f[0] = base /\ \A k \in 1 .. n : f[k] = step[k][f[k - 1]]

LEMMA Recursion ==
  ASSUME NEW n \in Nat, NEW S, NEW base \in S, NEW step \in [1 .. n -> [S -> S]]
  PROVE  \E f \in [0 .. n -> S] : GoesOn(f, n, base, step)
<1>. DEFINE Upto(m, f) ==
              f \in [0 .. m -> S] /\ f[0] = base /\ \A k \in 1 .. m : f[k] = step[k][f[k - 1]]
            Defined == {m \in 0 .. n : \E f : Upto(m, f)}
<1>1. 0 \in Defined
  <2>1. Upto(0, [k \in 0 .. 0 |-> base])
    OBVIOUS
  <2>. HIDE DEF Upto
  <2>. QED  BY <2>1
<1>2. ASSUME NEW k \in 1 .. n, k - 1 \in Defined
      PROVE  k \in Defined
  <2>1. PICK f : Upto(k - 1, f)
    BY <1>2
  <2>. DEFINE g == [j \in 0 .. k |-> IF j < k THEN f[j] ELSE step[k][f[k - 1]]]
  <2>2. f[k - 1] \in S /\ step[k][f[k - 1]] \in S
    BY <2>1
  <2>3. g \in [0 .. k -> S] /\ g[0] = base
    BY <2>1, <2>2
  <2>4. \A j \in 1 .. k : g[j] = step[j][g[j - 1]]
    BY <2>1
  <2>5. Upto(k, g)
    BY <2>3, <2>4
  <2>. HIDE DEF Upto, g
  <2>. QED  BY <2>5
<1>. HIDE DEF Defined
<1>3. \A k \in 0 .. n : k \in Defined
  <2>1. \A k \in 1 .. n : k - 1 \in Defined => k \in Defined
    BY <1>2
  <2>. QED  BY <1>1, <2>1, Upwards
<1>4. n \in Defined
  BY <1>3
<1>. QED  BY <1>4 DEF Defined, GoesOn

-----------------------------------------------------------------------------
(* OSCbufs.                                                                *)
States == {EMPTY, ONE_MSG_ARGS, NEED_COUNT, GET_ARGS, DONE}

Byte == STRING \union {Nul, ",", "x", "#", "b", "u", "n", "d", "l", "e", "i", "f", "s"}

TextCells == [is : {"text"}, b : Seq(Byte)]
CountCells == [is : {"count"}, n : Int]
TimeCells == [is : {"time"}, t : Int, network : BOOLEAN]
Cell == TextCells \union CountCells \union TimeCells

Pointers == [1 .. MAX_BUNDLE_NESTING -> Int]

OSCbuf ==
    [cells : Seq(Cell), state : States, bundleDepth : Nat, thisMsgSize : Nat,
     prevCounts : Pointers, outerMostTimeStamp : Nat,
     gettingFirstUntypedArg : BOOLEAN, typeStringPtr : Nat]

Buffers == {x \in OSCbuf : InBuffer(x)}

(* After calls that all succeeded: a bundle is open exactly when there is  *)
(* something to go on with, and the place of the count of each bundle but  *)
(* the outermost is known.                                                 *)
Nested(x) ==
    /\ x.bundleDepth < MAX_BUNDLE_NESTING
    /\ x.bundleDepth > 0 <=> x.state \in {NEED_COUNT, GET_ARGS}
    /\ \A d \in 2 .. x.bundleDepth : x.prevCounts[d] # Unset

USE DEF EMPTY, ONE_MSG_ARGS, NEED_COUNT, GET_ARGS, DONE

(* The cells of a string.                                                  *)
LEMMA CellsOfString ==
  ASSUME NEW s \in Seq(Byte)
  PROVE  /\ OSC_effectiveStringLength(s) \in Nat \ {0}
         /\ OSC_padString(s) \in Seq(TextCells)
         /\ Len(OSC_padString(s)) = OSC_effectiveStringLength(s)
         /\ 4 * OSC_effectiveStringLength(s) > Len(s)
<1>. DEFINE L == OSC_effectiveStringLength(s)
            B(c) == [k \in 1 .. 4 |->
                       IF 4 * (c - 1) + k <= Len(s) THEN s[4 * (c - 1) + k] ELSE Nul]
<1>1. Len(s) \in Nat
  OBVIOUS
<1>2. L \in Nat \ {0} /\ 4 * L > Len(s)
  BY <1>1 DEF OSC_effectiveStringLength
<1>3. ASSUME NEW c \in 1 .. L
      PROVE  Text(B(c)) \in TextCells
  <2>1. \A k \in 1 .. 4 : 4 * (c - 1) + k <= Len(s) => s[4 * (c - 1) + k] \in Byte
    <3>1. \A i \in 1 .. Len(s) : s[i] \in Byte
      OBVIOUS
    <3>2. c \in Nat \ {0}
      BY <1>2, <1>3
    <3>. QED  BY <1>1, <3>1, <3>2
  <2>2. Nul \in Byte
    BY DEF Byte
  <2>3. B(c) \in [1 .. 4 -> Byte]
    BY <2>1, <2>2
  <2>4. B(c) \in Seq(Byte)
    BY <2>3
  <2>. QED  BY <2>4 DEF Text, TextCells
<1>4. OSC_padString(s) = [c \in 1 .. L |-> Text(B(c))]
  BY DEF OSC_padString
<1>. HIDE DEF L, B
<1>5. OSC_padString(s) \in [1 .. L -> TextCells]
  BY <1>3, <1>4
<1>6. OSC_padString(s) \in Seq(TextCells) /\ Len(OSC_padString(s)) = L
  BY <1>2, <1>5
<1>. QED  BY <1>2, <1>6 DEF L

LEMMA CellKinds == TextCells \subseteq Cell
BY DEF Cell

LEMMA BundleNameCells == BundleName \in Seq(Cell) /\ Len(BundleName) = 2
<1>. DEFINE s == <<"#", "b", "u", "n", "d", "l", "e">>
<1>1. s \in Seq(Byte) /\ Len(s) = 7
  <2>1. {"#", "b", "u", "n", "d", "l", "e"} \subseteq Byte
    BY DEF Byte
  <2>. QED  BY <2>1
<1>2. OSC_effectiveStringLength(s) = 2
  BY <1>1 DEF OSC_effectiveStringLength
<1>3. BundleName = OSC_padString(s)
  BY DEF BundleName
<1>. HIDE DEF s
<1>4. BundleName \in Seq(TextCells) /\ Len(BundleName) = 2
  BY <1>1, <1>2, <1>3, CellsOfString
<1>. QED  BY <1>4, CellKinds, SeqMonotonic

-----------------------------------------------------------------------------
(* The helpers of the library.                                             *)

LEMMA CheckedTag ==
  ASSUME NEW x \in Buffers, NEW expected, NEW stale
  PROVE  LET r == CheckTypeTag(x, expected, stale)
         IN  /\ r.err \in {0, 9}
             /\ r.buf \in {x, [x EXCEPT !.typeStringPtr = @ + 1]}
             /\ r.buf \in Buffers
             /\ Nested(x) => Nested(r.buf)
             /\ r.err # 0 => r.buf = x
<1>. DEFINE y == [x EXCEPT !.typeStringPtr = @ + 1]
<1>1. y \in Buffers /\ (Nested(x) => Nested(y))
  BY DEF Buffers, OSCbuf, InBuffer, Nested
<1>. HIDE DEF y
<1>2. CheckTypeTag(x, expected, stale) \in
        {[buf |-> x, err |-> 0], [buf |-> x, err |-> 9], [buf |-> y, err |-> 0]}
  BY DEF CheckTypeTag, Returns, y
<1>. QED  BY <1>1, <1>2 DEF y

LEMMA ClosedMessage ==
  ASSUME NEW x \in Buffers
  PROVE  /\ CloseMessage(x) \in Buffers
         /\ Len(CloseMessage(x).cells) = Len(x.cells)
         /\ CloseMessage(x) = [x EXCEPT !.cells = CloseMessage(x).cells]
<1>. DEFINE cs == [x.cells EXCEPT ![x.thisMsgSize] = Count(Len(x.cells) - x.thisMsgSize)]
<1>1. x \in OSCbuf /\ InBuffer(x)
  BY DEF Buffers
<1>2. x.cells \in Seq(Cell) /\ Len(x.cells) \in Nat /\ x.thisMsgSize \in Nat
  BY <1>1 DEF OSCbuf
<1>3. CASE x.state # GET_ARGS
  <2>1. CloseMessage(x) = x
    BY <1>3 DEF CloseMessage
  <2>. QED  BY <1>1, <2>1 DEF OSCbuf
<1>4. CASE x.state = GET_ARGS
  <2>1. CloseMessage(x) = [x EXCEPT !.cells = cs]
    BY <1>1, <1>4 DEF CloseMessage, PatchMessageSize, OSCbuf
  <2>2. x.thisMsgSize \in 1 .. Len(x.cells)
    BY <1>1, <1>2, <1>4 DEF InBuffer
  <2>3. Count(Len(x.cells) - x.thisMsgSize) \in Cell
    BY <1>2 DEF Count, Cell, CountCells
  <2>4. cs \in Seq(Cell) /\ Len(cs) = Len(x.cells)
    BY <1>2, <2>2, <2>3, ExceptSeq
  <2>. HIDE DEF cs
  <2>5. [x EXCEPT !.cells = cs] \in OSCbuf
    BY <1>1, <2>4 DEF OSCbuf
  <2>6. DOMAIN cs = DOMAIN x.cells
    BY <1>2, <2>4, LenProperties
  <2>7. InBuffer([x EXCEPT !.cells = cs])
    BY <1>1, <2>4, <2>6 DEF InBuffer, OSCbuf
  <2>8. [x EXCEPT !.cells = cs].cells = cs
    BY <1>1 DEF OSCbuf
  <2>. QED  BY <2>1, <2>4, <2>5, <2>7, <2>8 DEF Buffers
<1>. QED  BY <1>3, <1>4

(* Cells that fit are appended.                                            *)
LEMMA Appended ==
  ASSUME ClientAssumption, NEW x \in Buffers,
         NEW cs \in Seq(Cell), ~Overflow(x, Len(cs))
  PROVE  /\ [x EXCEPT !.cells = @ \o cs] \in Buffers
         /\ Len(x.cells \o cs) = Len(x.cells) + Len(cs)
         /\ \A i \in 1 .. Len(x.cells) : (x.cells \o cs)[i] = x.cells[i]
<1>1. x \in OSCbuf /\ InBuffer(x)
  BY DEF Buffers
<1>2. x.cells \in Seq(Cell) /\ Len(x.cells) \in Nat /\ Len(cs) \in Nat
  BY <1>1 DEF OSCbuf
<1>3. /\ x.cells \o cs \in Seq(Cell)
      /\ Len(x.cells \o cs) = Len(x.cells) + Len(cs)
      /\ \A i \in 1 .. Len(x.cells) + Len(cs) :
           (x.cells \o cs)[i] = IF i <= Len(x.cells) THEN x.cells[i] ELSE cs[i - Len(x.cells)]
  BY <1>2, ConcatProperties
<1>. DEFINE ys == x.cells \o cs
            y == [x EXCEPT !.cells = ys]
<1>4. y = [x EXCEPT !.cells = @ \o cs]
  OBVIOUS
<1>. HIDE DEF ys
<1>5. y \in OSCbuf /\ y.cells = ys
  BY <1>1, <1>3 DEF OSCbuf, ys
<1>6. DOMAIN x.cells = 1 .. Len(x.cells) /\ DOMAIN ys = 1 .. Len(x.cells) + Len(cs)
  BY <1>2, <1>3, LenProperties DEF ys
<1>7. DOMAIN x.cells \subseteq DOMAIN ys
  BY <1>2, <1>6
<1>8. Len(ys) <= Size
  <2>1. ~(Len(cs) > Size - Len(x.cells))
    BY DEF Overflow, OSC_freeSpaceInBuffer
  <2>2. Len(ys) = Len(x.cells) + Len(cs)
    BY <1>3 DEF ys
  <2>. QED  BY <1>2, <2>1, <2>2 DEF ClientAssumption
<1>9. InBuffer(y)
  BY <1>1, <1>5, <1>7, <1>8 DEF InBuffer, OSCbuf
<1>. QED  BY <1>2, <1>3, <1>4, <1>5, <1>9 DEF Buffers

(* The same cells, with other fields.                                      *)
LEMMA FieldsOf ==
  ASSUME NEW x \in Buffers
  PROVE  /\ x.cells \in Seq(Cell) /\ Len(x.cells) \in Nat
         /\ DOMAIN x.cells = 1 .. Len(x.cells)
         /\ x.bundleDepth \in Nat /\ x.thisMsgSize \in Nat /\ x.state \in States
         /\ x.prevCounts \in Pointers /\ x.outerMostTimeStamp \in Nat
         /\ x.typeStringPtr \in Nat
<1>1. x \in OSCbuf
  BY DEF Buffers
<1>2. x.cells \in Seq(Cell)
  BY <1>1 DEF OSCbuf
<1>3. Len(x.cells) \in Nat /\ DOMAIN x.cells = 1 .. Len(x.cells)
  BY <1>2, LenProperties
<1>. QED  BY <1>1, <1>2, <1>3 DEF OSCbuf

LEMMA WithoutTypes ==
  ASSUME NEW x \in Buffers
  PROVE  /\ NoTypes(x) \in Buffers
         /\ NoTypes(x) = [x EXCEPT !.gettingFirstUntypedArg = FALSE, !.typeStringPtr = 0]
         /\ Nested(NoTypes(x)) <=> Nested(x)
BY DEF NoTypes, Buffers, OSCbuf, InBuffer, Nested

LEMMA PatchedBundle ==
  ASSUME NEW x \in Buffers
  PROVE  /\ PatchBundleSize(x) \in Buffers
         /\ Len(PatchBundleSize(x).cells) = Len(x.cells)
         /\ PatchBundleSize(x) = [x EXCEPT !.cells = PatchBundleSize(x).cells]
<1>. DEFINE at == x.prevCounts[x.bundleDepth]
            cs == [x.cells EXCEPT ![at] = Count(Len(x.cells) - at)]
<1>1. x \in OSCbuf /\ InBuffer(x)
  BY DEF Buffers
<1>2. CASE Stray(x) \/ at \notin DOMAIN x.cells
  <2>1. PatchBundleSize(x) = x
    BY <1>2 DEF PatchBundleSize
  <2>. QED  BY <1>1, <2>1 DEF OSCbuf
<1>3. CASE ~Stray(x) /\ at \in DOMAIN x.cells
  <2>1. at \in 1 .. Len(x.cells) /\ Len(x.cells) \in Nat /\ x.cells \in Seq(Cell)
    BY <1>3, FieldsOf
  <2>2. PatchBundleSize(x) = [x EXCEPT !.cells = cs]
    BY <1>1, <1>3 DEF PatchBundleSize, OSCbuf
  <2>3. Count(Len(x.cells) - at) \in Cell
    BY <2>1 DEF Count, Cell, CountCells
  <2>. HIDE DEF at
  <2>4. cs \in Seq(Cell) /\ Len(cs) = Len(x.cells)
    BY <2>1, <2>3, ExceptSeq
  <2>. HIDE DEF cs
  <2>5. [x EXCEPT !.cells = cs] \in OSCbuf /\ [x EXCEPT !.cells = cs].cells = cs
    BY <1>1, <2>4 DEF OSCbuf
  <2>6. DOMAIN cs = DOMAIN x.cells
    BY <2>1, <2>4, LenProperties
  <2>7. InBuffer([x EXCEPT !.cells = cs])
    BY <1>1, <2>4, <2>6 DEF InBuffer, OSCbuf
  <2>. QED  BY <2>2, <2>4, <2>5, <2>7 DEF Buffers
<1>. QED  BY <1>2, <1>3

LEMMA TimeTagCells ==
  ASSUME NEW tt \in Int, NEW network \in BOOLEAN
  PROVE  TimeTag(tt, network) \in Cell
BY DEF TimeTag, Cell, TimeCells

LEMMA WithHeader ==
  ASSUME ClientAssumption, NEW x \in Buffers, NEW tt \in Int, ~Overflow(x, 4)
  PROVE  LET y == BundleHeader(x, tt)
         IN  /\ y \in Buffers
             /\ y.state = NEED_COUNT /\ y.bundleDepth = x.bundleDepth
             /\ y.prevCounts = x.prevCounts
             /\ y.cells = x.cells \o (BundleName \o <<TimeTag(tt, TRUE), TimeTag(tt, TRUE)>>)
             /\ y.outerMostTimeStamp =
                  IF x.state = EMPTY THEN Len(x.cells) + 3 ELSE x.outerMostTimeStamp
<1>. DEFINE times == <<TimeTag(tt, TRUE), TimeTag(tt, TRUE)>>
            head == BundleName \o times
            z == [x EXCEPT !.cells = @ \o head]
            stamp == IF x.state = EMPTY THEN Len(x.cells) + 3 ELSE x.outerMostTimeStamp
            y == [z EXCEPT !.outerMostTimeStamp = stamp, !.state = NEED_COUNT,
                           !.gettingFirstUntypedArg = FALSE, !.typeStringPtr = 0]
<1>1. x \in OSCbuf /\ InBuffer(x)
  BY DEF Buffers
<1>2. times \in Seq(Cell) /\ Len(times) = 2
  <2>. DEFINE c == TimeTag(tt, TRUE)
  <2>1. c \in Cell
    BY TimeTagCells
  <2>. HIDE DEF c
  <2>2. <<c, c>> \in Seq(Cell) /\ Len(<<c, c>>) = 2
    BY <2>1
  <2>. QED  BY <2>2 DEF c
<1>. HIDE DEF times
<1>3. head \in Seq(Cell) /\ Len(head) = 4
  BY <1>2, BundleNameCells, ConcatProperties, SMTT(20)
<1>4. (x.cells \o BundleName) \o times = x.cells \o head
  <2>. DEFINE c == x.cells
  <2>1. c \in Seq(Cell)
    BY FieldsOf
  <2>2. BundleName \in Seq(Cell)
    BY BundleNameCells
  <2>. HIDE DEF c
  <2>3. (c \o BundleName) \o times = c \o (BundleName \o times)
    BY <1>2, <2>1, <2>2, ConcatAssociative
  <2>. QED  BY <2>3 DEF c
<1>5. BundleHeader(x, tt) = y
  <2>1. BundleHeader(x, tt) =
          [x EXCEPT !.cells = (x.cells \o BundleName) \o times,
                    !.outerMostTimeStamp = stamp, !.state = NEED_COUNT,
                    !.gettingFirstUntypedArg = FALSE, !.typeStringPtr = 0]
    <3>1. Len(BundleName) + 1 = 3 /\ Len(x.cells) \in Nat
      BY BundleNameCells, FieldsOf
    <3>2. Len(x.cells) + Len(BundleName) + 1 = Len(x.cells) + 3
      BY <3>1, BundleNameCells
    <3>. QED  BY <1>1, <3>2 DEF BundleHeader, NoTypes, times, OSCbuf
  <2>. QED  BY <1>1, <1>4, <2>1 DEF OSCbuf
<1>. HIDE DEF head
<1>6. z \in Buffers /\ Len(x.cells \o head) = Len(x.cells) + 4
  BY <1>3, Appended
<1>7. z \in OSCbuf /\ InBuffer(z) /\ z.cells = x.cells \o head
  BY <1>1, <1>6 DEF Buffers, OSCbuf
<1>8. /\ y.cells = z.cells /\ y.state = NEED_COUNT /\ y.bundleDepth = x.bundleDepth
      /\ y.prevCounts = x.prevCounts /\ y.outerMostTimeStamp = stamp
      /\ z.outerMostTimeStamp = x.outerMostTimeStamp
  BY <1>1 DEF OSCbuf
<1>9. stamp \in Nat /\ (stamp # 0 => stamp + 1 \in DOMAIN z.cells)
  <2>1. DOMAIN z.cells = 1 .. Len(x.cells) + 4
    BY <1>6, <1>7, FieldsOf
  <2>. QED  BY <1>7, <1>8, <2>1, FieldsOf DEF InBuffer
<1>10. y \in OSCbuf
  BY <1>7, <1>9 DEF OSCbuf, States
<1>11. InBuffer(y)
  BY <1>7, <1>8, <1>9 DEF InBuffer
<1>. QED  BY <1>5, <1>7, <1>8, <1>10, <1>11 DEF Buffers, head, times

LEMMA WithBlank ==
  ASSUME ClientAssumption, NEW x \in Buffers, ~Overflow(x, 1)
  PROVE  LET y == [x EXCEPT !.cells = Append(@, Blank)]
         IN  /\ y \in Buffers
             /\ y.cells = x.cells \o <<Blank>> /\ Len(y.cells) = Len(x.cells) + 1
<1>1. Blank \in Cell
  BY DEF Blank, Count, Cell, CountCells
<1>2. Append(x.cells, Blank) = x.cells \o <<Blank>>
  BY <1>1, FieldsOf, AppendIsConcat
<1>. DEFINE one == <<Blank>>
<1>3. one \in Seq(Cell) /\ Len(one) = 1
  BY <1>1
<1>. HIDE DEF one
<1>4. /\ [x EXCEPT !.cells = @ \o one] \in Buffers
      /\ Len(x.cells \o one) = Len(x.cells) + 1
  BY <1>3, Appended
<1>5. x \in OSCbuf
  BY DEF Buffers
<1>6. [x EXCEPT !.cells = Append(@, Blank)] = [x EXCEPT !.cells = @ \o one]
  BY <1>2 DEF one
<1>7. [x EXCEPT !.cells = @ \o one].cells = x.cells \o one
  BY <1>5 DEF OSCbuf
<1>. QED  BY <1>4, <1>6, <1>7 DEF one

LEMMA WithBlankCount ==
  ASSUME ClientAssumption, NEW x \in Buffers, ~Overflow(x, 1),
         x.bundleDepth \in 1 .. MAX_BUNDLE_NESTING
  PROVE  LET y == BlankCount(x)
         IN  /\ y \in Buffers
             /\ y.cells = x.cells \o <<Blank>> /\ Len(y.cells) = Len(x.cells) + 1
             /\ y.prevCounts = [x.prevCounts EXCEPT ![x.bundleDepth] = Len(x.cells) + 1]
             /\ y.bundleDepth = x.bundleDepth /\ y.state = x.state
             /\ y.outerMostTimeStamp = x.outerMostTimeStamp
<1>. DEFINE z == [x EXCEPT !.cells = Append(@, Blank)]
            ps == [x.prevCounts EXCEPT ![x.bundleDepth] = Len(x.cells) + 1]
            y == [z EXCEPT !.prevCounts = ps]
<1>1. x \in OSCbuf
  BY DEF Buffers
<1>2. z \in Buffers /\ z.cells = x.cells \o <<Blank>> /\ Len(z.cells) = Len(x.cells) + 1
  BY WithBlank
<1>3. BlankCount(x) = y
  BY <1>1 DEF BlankCount, OSCbuf
<1>4. ps \in Pointers
  BY FieldsOf DEF Pointers
<1>. HIDE DEF ps
<1>5. /\ z.bundleDepth = x.bundleDepth /\ z.state = x.state
      /\ z.outerMostTimeStamp = x.outerMostTimeStamp
  BY <1>1 DEF OSCbuf
<1>. HIDE DEF z
<1>6. z \in OSCbuf /\ InBuffer(z)
  BY <1>2 DEF Buffers
<1>7. y \in OSCbuf /\ y.cells = z.cells /\ y.prevCounts = ps /\ y.bundleDepth = z.bundleDepth
        /\ y.state = z.state /\ y.outerMostTimeStamp = z.outerMostTimeStamp
        /\ y.thisMsgSize = z.thisMsgSize
  BY <1>4, <1>6 DEF OSCbuf
<1>8. InBuffer(y)
  BY <1>6, <1>7 DEF InBuffer
<1>. QED  BY <1>2, <1>3, <1>5, <1>7, <1>8 DEF Buffers, ps

-----------------------------------------------------------------------------
(* The procedures of the library.                                          *)

LEMMA EmptyBuffer ==
  ASSUME ClientAssumption
  PROVE  Empty \in Buffers /\ Nested(Empty)
<1>1. <<>> \in Seq(Cell) /\ Len(<<>>) = 0
  OBVIOUS
<1>2. [d \in 1 .. MAX_BUNDLE_NESTING |-> Unset] \in Pointers
  BY DEF Pointers, Unset
<1>3. Empty \in OSCbuf /\ InBuffer(Empty)
  BY <1>1, <1>2 DEF Empty, OSCbuf, InBuffer, States, ClientAssumption
<1>4. Nested(Empty)
  BY DEF Nested, Empty, ClientAssumption
<1>. QED  BY <1>3, <1>4 DEF Buffers

LEMMA Emptied ==
  ASSUME ClientAssumption, NEW x \in Buffers
  PROVE  /\ OSC_resetBuffer(x) \in Buffers /\ Nested(OSC_resetBuffer(x))
         /\ OSC_resetBuffer(x).state = EMPTY /\ OSC_resetBuffer(x).cells = <<>>
         /\ OSC_resetBuffer(x).bundleDepth = 0
         /\ OSC_resetBuffer(x).outerMostTimeStamp = 0
<1>1. <<>> \in Seq(Cell) /\ Len(<<>>) = 0
  OBVIOUS
<1>2. Empty \in OSCbuf
  BY EmptyBuffer DEF Buffers
<1>3. x.prevCounts \in Pointers /\ x.thisMsgSize \in Nat
  BY FieldsOf
<1>4. OSC_resetBuffer(x) \in OSCbuf /\ InBuffer(OSC_resetBuffer(x))
  <2>. DEFINE y == OSC_resetBuffer(x)
  <2>1. y \in OSCbuf
    BY <1>2, <1>3 DEF OSC_resetBuffer, OSCbuf
  <2>2. y.cells = <<>> /\ y.state = EMPTY /\ y.outerMostTimeStamp = 0
    BY DEF OSC_resetBuffer, Empty
  <2>. QED  BY <1>1, <2>1, <2>2 DEF InBuffer, ClientAssumption
<1>5. Nested(OSC_resetBuffer(x))
  BY DEF Nested, Empty, OSC_resetBuffer, ClientAssumption
<1>. QED  BY <1>4, <1>5 DEF Buffers, OSC_resetBuffer, Empty

LEMMA OpenedHeader ==
  ASSUME ClientAssumption, NEW x \in Buffers, NEW tt \in Int,
         x.bundleDepth \in 1 .. MAX_BUNDLE_NESTING - 1
  PROVE  LET r == OpenBundleHeader(x, tt)
         IN  /\ r.err \in {0, 1} /\ r.buf \in Buffers
             /\ r.err = 0 =>
                  /\ r.buf.state = NEED_COUNT /\ r.buf.bundleDepth = x.bundleDepth
                  /\ x.state # EMPTY => r.buf.outerMostTimeStamp = x.outerMostTimeStamp
                  /\ r.buf.prevCounts =
                       IF x.state = EMPTY THEN x.prevCounts
                       ELSE [x.prevCounts EXCEPT ![x.bundleDepth] = Len(x.cells) + 1]
<1>1. CASE x.state = EMPTY /\ Overflow(x, 4)
  BY <1>1 DEF OpenBundleHeader, Returns
<1>2. CASE x.state = EMPTY /\ ~Overflow(x, 4)
  <2>. DEFINE z == BundleHeader(x, tt)
  <2>1. OpenBundleHeader(x, tt) = [buf |-> z, err |-> 0]
    BY <1>2 DEF OpenBundleHeader, Returns
  <2>2. /\ z \in Buffers /\ z.state = NEED_COUNT /\ z.bundleDepth = x.bundleDepth
        /\ z.prevCounts = x.prevCounts
    BY <1>2, WithHeader
  <2>. HIDE DEF z
  <2>. QED  BY <1>2, <2>1, <2>2
<1>3. CASE x.state # EMPTY /\ Overflow(x, 5)
  BY <1>3 DEF OpenBundleHeader, Returns
<1>4. CASE x.state # EMPTY /\ ~Overflow(x, 5)
  <2>. DEFINE y == BlankCount(x)
  <2>1. OpenBundleHeader(x, tt) = [buf |-> BundleHeader(y, tt), err |-> 0]
    BY <1>4 DEF OpenBundleHeader, Returns
  <2>2. Len(x.cells) \in Nat /\ Size \in Nat /\ MAX_BUNDLE_NESTING \in Nat
    BY FieldsOf DEF ClientAssumption
  <2>3. ~Overflow(x, 1)
    BY <1>4, <2>2 DEF Overflow, OSC_freeSpaceInBuffer
  <2>4. x.bundleDepth \in 1 .. MAX_BUNDLE_NESTING
    BY <2>2
  <2>5. /\ y \in Buffers /\ Len(y.cells) = Len(x.cells) + 1
        /\ y.prevCounts = [x.prevCounts EXCEPT ![x.bundleDepth] = Len(x.cells) + 1]
        /\ y.bundleDepth = x.bundleDepth /\ y.state = x.state
        /\ y.outerMostTimeStamp = x.outerMostTimeStamp
    BY <2>3, <2>4, WithBlankCount
  <2>. HIDE DEF y
  <2>6. ~Overflow(y, 4)
    BY <1>4, <2>2, <2>5 DEF Overflow, OSC_freeSpaceInBuffer
  <2>7. LET z == BundleHeader(y, tt)
        IN  /\ z \in Buffers /\ z.state = NEED_COUNT /\ z.bundleDepth = y.bundleDepth
            /\ z.prevCounts = y.prevCounts
            /\ z.outerMostTimeStamp =
                 IF y.state = EMPTY THEN Len(y.cells) + 3 ELSE y.outerMostTimeStamp
    BY <2>5, <2>6, WithHeader
  <2>. QED  BY <1>4, <2>1, <2>5, <2>7
<1>. QED  BY <1>1, <1>2, <1>3, <1>4

LEMMA OpenedBundle ==
  ASSUME ClientAssumption, NEW x \in Buffers, NEW tt \in Int, NEW stale
  PROVE  LET r == OSC_openBundle(x, tt, stale)
         IN  /\ r.err \in Nat /\ r.buf \in Buffers
             /\ r.err = 0 =>
                  /\ x.state \notin {ONE_MSG_ARGS, DONE}
                  /\ r.buf.state = NEED_COUNT /\ r.buf.bundleDepth = x.bundleDepth + 1
                  /\ x.state # EMPTY => r.buf.outerMostTimeStamp = x.outerMostTimeStamp
                  /\ Nested(x) => Nested(r.buf)
<1>. DEFINE deeper == [x EXCEPT !.bundleDepth = @ + 1]
            c == CheckTypeTag(deeper, Nul, stale)
            m == CloseMessage(c.buf)
            h == OpenBundleHeader(m, tt)
            r == OSC_openBundle(x, tt, stale)
<1>1. x \in OSCbuf /\ InBuffer(x) /\ x.bundleDepth \in Nat
  BY DEF Buffers, OSCbuf
<1>2. deeper \in Buffers /\ deeper.bundleDepth = x.bundleDepth + 1 /\ deeper.state = x.state
        /\ deeper.prevCounts = x.prevCounts /\ deeper.outerMostTimeStamp = x.outerMostTimeStamp
  BY <1>1 DEF Buffers, OSCbuf, InBuffer
<1>3. CASE x.state \in {ONE_MSG_ARGS, DONE} \/ deeper.bundleDepth >= MAX_BUNDLE_NESTING
  <2>1. r \in {[buf |-> x, err |-> 3], [buf |-> x, err |-> 4], [buf |-> deeper, err |-> 2]}
    BY <1>3 DEF OSC_openBundle, Returns
  <2>. QED  BY <1>2, <2>1
<1>4. CASE /\ x.state \notin {ONE_MSG_ARGS, DONE}
           /\ ~(deeper.bundleDepth >= MAX_BUNDLE_NESTING)
  <2>1. r = IF c.err = 0 THEN h ELSE c
    BY <1>4 DEF OSC_openBundle, Then
  <2>. HIDE DEF deeper
  <2>2. c.err \in {0, 9} /\ c.buf \in Buffers
          /\ c.buf \in {deeper, [deeper EXCEPT !.typeStringPtr = @ + 1]}
    BY <1>2, CheckedTag
  <2>3. deeper \in OSCbuf
    BY <1>2 DEF Buffers
  <2>4. c.buf.bundleDepth = x.bundleDepth + 1 /\ c.buf.state = x.state
          /\ c.buf.prevCounts = x.prevCounts /\ c.buf.outerMostTimeStamp = x.outerMostTimeStamp
    BY <1>2, <2>2, <2>3 DEF OSCbuf
  <2>. HIDE DEF c
  <2>5. m \in Buffers /\ m = [c.buf EXCEPT !.cells = m.cells]
    BY <2>2, ClosedMessage
  <2>6. c.buf \in OSCbuf
    BY <2>2 DEF Buffers
  <2>. HIDE DEF m
  <2>7. m.bundleDepth = x.bundleDepth + 1 /\ m.state = x.state
          /\ m.prevCounts = x.prevCounts /\ m.outerMostTimeStamp = x.outerMostTimeStamp
    BY <2>4, <2>5, <2>6 DEF OSCbuf
  <2>8. m.bundleDepth \in 1 .. MAX_BUNDLE_NESTING - 1
    BY <1>1, <1>2, <1>4, <2>7 DEF ClientAssumption
  <2>9. /\ h.err \in {0, 1} /\ h.buf \in Buffers
        /\ h.err = 0 =>
             /\ h.buf.state = NEED_COUNT /\ h.buf.bundleDepth = m.bundleDepth
             /\ m.state # EMPTY => h.buf.outerMostTimeStamp = m.outerMostTimeStamp
             /\ h.buf.prevCounts =
                  IF m.state = EMPTY THEN m.prevCounts
                  ELSE [m.prevCounts EXCEPT ![m.bundleDepth] = Len(m.cells) + 1]
    BY <2>5, <2>8, OpenedHeader
  <2>. HIDE DEF h
  <2>10. ASSUME r.err = 0, Nested(x)
         PROVE  Nested(r.buf)
    <3>1. c.err = 0 /\ r = h /\ h.err = 0
      BY <2>1, <2>2, <2>10
    <3>2. h.buf.state = NEED_COUNT /\ h.buf.bundleDepth = x.bundleDepth + 1
      BY <2>7, <2>9, <3>1
    <3>3. CASE x.state = EMPTY
      <4>1. x.bundleDepth = 0
        BY <1>1, <2>10, <3>3 DEF Nested
      <4>. QED  BY <2>7, <2>8, <3>1, <3>2, <4>1 DEF Nested, ClientAssumption
    <3>4. CASE x.state # EMPTY
      <4>1. h.buf.prevCounts = [x.prevCounts EXCEPT ![x.bundleDepth + 1] = Len(m.cells) + 1]
        BY <2>7, <2>9, <3>1, <3>4
      <4>2. Len(m.cells) + 1 # Unset
        BY <2>5, FieldsOf DEF Unset
      <4>3. x.prevCounts \in Pointers
        BY FieldsOf
      <4>4. \A d \in 2 .. x.bundleDepth + 1 : h.buf.prevCounts[d] # Unset
        BY <1>1, <2>7, <2>8, <2>10, <4>1, <4>2, <4>3 DEF Nested, Pointers, ClientAssumption
      <4>. QED  BY <1>1, <2>7, <2>8, <3>1, <3>2, <4>4 DEF Nested, ClientAssumption
    <3>. QED  BY <3>3, <3>4
  <2>. QED  BY <1>4, <2>1, <2>2, <2>4, <2>7, <2>9, <2>10
<1>. QED  BY <1>3, <1>4

LEMMA ClosedBundle ==
  ASSUME ClientAssumption, NEW x \in Buffers, NEW stale
  PROVE  LET r == OSC_closeBundle(x, stale)
         IN  /\ r.err \in Nat /\ r.buf \in Buffers
             /\ r.err # 0 => r.buf = x
             /\ r.err = 0 =>
                  /\ x.bundleDepth > 0
                  /\ r.buf.state = IF x.bundleDepth = 1 THEN DONE ELSE NEED_COUNT
                  /\ r.buf.bundleDepth = x.bundleDepth - 1
                  /\ r.buf.outerMostTimeStamp = x.outerMostTimeStamp
                  /\ Nested(x) => Nested(r.buf)
<1>. DEFINE c == CheckTypeTag(x, Nul, stale)
            m == CloseMessage(c.buf)
            p == IF c.buf.bundleDepth = 1 THEN m ELSE PatchBundleSize(m)
            q == [p EXCEPT !.state = IF c.buf.bundleDepth = 1 THEN DONE ELSE NEED_COUNT,
                           !.bundleDepth = @ - 1]
            r == OSC_closeBundle(x, stale)
<1>1. x \in OSCbuf /\ x.bundleDepth \in Nat
  BY DEF Buffers, OSCbuf
<1>2. CASE x.bundleDepth = 0
  <2>1. r = [buf |-> x, err |-> 5]
    BY <1>2 DEF OSC_closeBundle, Returns
  <2>. QED  BY <2>1
<1>3. CASE x.bundleDepth # 0
  <2>1. r = IF c.err = 0 THEN [buf |-> NoTypes(q), err |-> 0] ELSE c
    BY <1>3 DEF OSC_closeBundle, Then, Returns
  <2>2. c.err \in {0, 9} /\ c.buf \in Buffers /\ (c.err # 0 => c.buf = x)
          /\ c.buf \in {x, [x EXCEPT !.typeStringPtr = @ + 1]}
    BY CheckedTag
  <2>3. c.buf.bundleDepth = x.bundleDepth /\ c.buf.state = x.state
          /\ c.buf.prevCounts = x.prevCounts /\ c.buf.outerMostTimeStamp = x.outerMostTimeStamp
    BY <1>1, <2>2 DEF OSCbuf
  <2>. HIDE DEF c
  <2>4. m \in Buffers /\ m = [c.buf EXCEPT !.cells = m.cells]
    BY <2>2, ClosedMessage
  <2>5. c.buf \in OSCbuf
    BY <2>2 DEF Buffers
  <2>. HIDE DEF m
  <2>6. m.bundleDepth = x.bundleDepth /\ m.prevCounts = x.prevCounts
          /\ m.outerMostTimeStamp = x.outerMostTimeStamp
    BY <2>3, <2>4, <2>5 DEF OSCbuf
  <2>7. PatchBundleSize(m) \in Buffers
          /\ PatchBundleSize(m) = [m EXCEPT !.cells = PatchBundleSize(m).cells]
    BY <2>4, PatchedBundle
  <2>8. m \in OSCbuf
    BY <2>4 DEF Buffers
  <2>9. p \in Buffers /\ p.bundleDepth = x.bundleDepth /\ p.prevCounts = x.prevCounts
          /\ p.outerMostTimeStamp = x.outerMostTimeStamp
    BY <2>4, <2>6, <2>7, <2>8 DEF OSCbuf
  <2>. HIDE DEF p
  <2>10. p \in OSCbuf /\ InBuffer(p)
    BY <2>9 DEF Buffers
  <2>11. q \in OSCbuf /\ q.cells = p.cells /\ q.bundleDepth = x.bundleDepth - 1
           /\ q.prevCounts = x.prevCounts /\ q.outerMostTimeStamp = x.outerMostTimeStamp
           /\ q.state = IF x.bundleDepth = 1 THEN DONE ELSE NEED_COUNT
    <3>. DEFINE st == IF x.bundleDepth = 1 THEN DONE ELSE NEED_COUNT
                n == x.bundleDepth - 1
    <3>1. st \in States /\ n \in Nat
      BY <1>1, <1>3 DEF States
    <3>2. q = [p EXCEPT !.state = st, !.bundleDepth = n]
      BY <2>3, <2>9, <2>10 DEF OSCbuf
    <3>. HIDE DEF st, n, q
    <3>3. q \in OSCbuf /\ q.cells = p.cells /\ q.bundleDepth = n /\ q.state = st
            /\ q.prevCounts = p.prevCounts /\ q.outerMostTimeStamp = p.outerMostTimeStamp
      BY <2>10, <3>1, <3>2 DEF OSCbuf
    <3>. QED  BY <2>9, <3>3 DEF st, n
  <2>12. InBuffer(q)
    BY <2>9, <2>10, <2>11 DEF InBuffer
  <2>. HIDE DEF q
  <2>13. q \in Buffers
    BY <2>11, <2>12 DEF Buffers
  <2>14. NoTypes(q) \in Buffers /\ (Nested(NoTypes(q)) <=> Nested(q))
           /\ NoTypes(q) = [q EXCEPT !.gettingFirstUntypedArg = FALSE, !.typeStringPtr = 0]
    BY <2>13, WithoutTypes
  <2>15. NoTypes(q).state = q.state /\ NoTypes(q).bundleDepth = q.bundleDepth
           /\ NoTypes(q).outerMostTimeStamp = q.outerMostTimeStamp
    BY <2>11, <2>14 DEF OSCbuf
  <2>16. Nested(x) => Nested(q)
    BY <1>1, <1>3, <2>11 DEF Nested, ClientAssumption
  <2>. QED  BY <1>1, <1>3, <2>1, <2>2, <2>11, <2>14, <2>15, <2>16
<1>. QED  BY <1>2, <1>3

LEMMA ChangedTimestamp ==
  ASSUME NEW x \in Buffers, NEW tt \in Int, LittleEndian \in BOOLEAN
  PROVE  LET r == ChangeOutermostTimestamp(x, tt)
         IN  /\ r.err \in Nat /\ r.buf \in Buffers
             /\ r.err = 0 <=> x.outerMostTimeStamp # 0
             /\ r.buf.state = x.state /\ r.buf.bundleDepth = x.bundleDepth
             /\ r.buf.outerMostTimeStamp = x.outerMostTimeStamp
             /\ Nested(x) => Nested(r.buf)
<1>. DEFINE word == TimeTag(tt, ~LittleEndian)
            at == x.outerMostTimeStamp
            one == [x.cells EXCEPT ![at] = word]
            two == [one EXCEPT ![at + 1] = word]
            y == [x EXCEPT !.cells = two]
            r == ChangeOutermostTimestamp(x, tt)
<1>1. x \in OSCbuf /\ InBuffer(x)
  BY DEF Buffers
<1>2. CASE at = 0
  <2>1. r = [buf |-> x, err |-> 1]
    BY <1>2 DEF ChangeOutermostTimestamp, Returns
  <2>. QED  BY <1>2, <2>1
<1>3. CASE at # 0
  <2>1. r = [buf |-> y, err |-> 0]
    BY <1>1, <1>3 DEF ChangeOutermostTimestamp, Returns, OSCbuf
  <2>2. /\ x.cells \in Seq(Cell) /\ DOMAIN x.cells = 1 .. Len(x.cells)
        /\ Len(x.cells) \in Nat /\ at \in Nat
    BY FieldsOf
  <2>3. at \in 1 .. Len(x.cells) /\ at + 1 \in 1 .. Len(x.cells)
    BY <1>1, <1>3, <2>2 DEF InBuffer
  <2>4. word \in Cell
    BY TimeTagCells
  <2>. HIDE DEF word, at
  <2>5. one \in Seq(Cell) /\ Len(one) = Len(x.cells)
    BY <2>2, <2>3, <2>4, ExceptSeq
  <2>. HIDE DEF one
  <2>6. two \in Seq(Cell) /\ Len(two) = Len(x.cells)
    BY <2>3, <2>4, <2>5, ExceptSeq
  <2>. HIDE DEF two
  <2>7. y \in OSCbuf /\ y.cells = two /\ y.state = x.state /\ y.bundleDepth = x.bundleDepth
          /\ y.outerMostTimeStamp = x.outerMostTimeStamp /\ y.prevCounts = x.prevCounts
          /\ y.thisMsgSize = x.thisMsgSize
    BY <1>1, <2>6 DEF OSCbuf
  <2>8. DOMAIN two = DOMAIN x.cells
    BY <2>2, <2>6, LenProperties
  <2>9. InBuffer(y)
    BY <1>1, <2>6, <2>7, <2>8 DEF InBuffer
  <2>10. y \in Buffers
    BY <2>7, <2>9 DEF Buffers
  <2>11. Nested(x) => Nested(y)
    BY <2>7 DEF Nested
  <2>. HIDE DEF y
  <2>. QED  BY <1>3, <2>1, <2>7, <2>10, <2>11 DEF at
<1>. QED  BY <1>2, <1>3

(* What a call that writes a message or an argument leaves alone.          *)
Kept(x, y) ==
    /\ y.bundleDepth = x.bundleDepth /\ y.prevCounts = x.prevCounts
    /\ y.outerMostTimeStamp = x.outerMostTimeStamp

LEMMA KeptNested ==
  ASSUME NEW x, NEW y, Kept(x, y),
         y.state \in {NEED_COUNT, GET_ARGS} <=> x.state \in {NEED_COUNT, GET_ARGS}
  PROVE  Nested(x) => Nested(y)
BY DEF Kept, Nested

LEMMA CheckKeeps ==
  ASSUME NEW x \in Buffers, NEW expected, NEW stale
  PROVE  LET r == CheckTypeTag(x, expected, stale)
         IN  /\ r.err \in {0, 9} /\ r.buf \in Buffers
             /\ Kept(x, r.buf) /\ r.buf.state = x.state /\ r.buf.cells = x.cells
             /\ r.buf.gettingFirstUntypedArg = x.gettingFirstUntypedArg
<1>. DEFINE r == CheckTypeTag(x, expected, stale)
<1>1. /\ r.err \in {0, 9} /\ r.buf \in Buffers
      /\ r.buf \in {x, [x EXCEPT !.typeStringPtr = @ + 1]}
  BY CheckedTag
<1>2. x \in OSCbuf
  BY DEF Buffers
<1>. HIDE DEF r
<1>3. Kept(x, r.buf) /\ r.buf.state = x.state /\ r.buf.cells = x.cells
        /\ r.buf.gettingFirstUntypedArg = x.gettingFirstUntypedArg
  BY <1>1, <1>2 DEF OSCbuf, Kept
<1>. QED  BY <1>1, <1>3 DEF r

(* Cells that fit are written, with other values for the fields that the   *)
(* types of arguments are about.                                           *)
LEMMA WrittenCells ==
  ASSUME ClientAssumption, NEW x \in Buffers, NEW cs \in Seq(Cell), ~Overflow(x, Len(cs)),
         NEW first \in BOOLEAN, NEW ptr \in Nat
  PROVE  LET y == [x EXCEPT !.cells = @ \o cs, !.gettingFirstUntypedArg = first,
                            !.typeStringPtr = ptr]
         IN  /\ y \in Buffers /\ Kept(x, y) /\ y.state = x.state
             /\ y.cells = x.cells \o cs /\ Len(y.cells) = Len(x.cells) + Len(cs)
<1>. DEFINE z == [x EXCEPT !.cells = @ \o cs]
            y == [x EXCEPT !.cells = @ \o cs, !.gettingFirstUntypedArg = first,
                           !.typeStringPtr = ptr]
<1>1. x \in OSCbuf
  BY DEF Buffers
<1>2. z \in Buffers /\ Len(x.cells \o cs) = Len(x.cells) + Len(cs)
  BY Appended
<1>3. y = [z EXCEPT !.gettingFirstUntypedArg = first, !.typeStringPtr = ptr]
        /\ z.cells = x.cells \o cs /\ Kept(x, z) /\ z.state = x.state
  BY <1>1 DEF OSCbuf, Kept
<1>. HIDE DEF z, y
<1>4. z \in OSCbuf /\ InBuffer(z)
  BY <1>2 DEF Buffers
<1>5. y \in OSCbuf /\ y.cells = z.cells /\ Kept(z, y) /\ y.state = z.state
        /\ y.thisMsgSize = z.thisMsgSize
  BY <1>3, <1>4 DEF OSCbuf, Kept
<1>6. InBuffer(y)
  BY <1>4, <1>5 DEF InBuffer, Kept
<1>. QED  BY <1>2, <1>3, <1>5, <1>6 DEF Buffers, Kept, y

LEMMA HeaderOfMessage ==
  ASSUME ClientAssumption, NEW x \in Buffers, NEW name \in Seq(Byte)
  PROVE  LET r == MessageHeader(x, name)
         IN  /\ r.err \in {0, 1} /\ r.buf \in Buffers /\ Kept(x, r.buf)
             /\ r.err = 1 => r.buf = x
             /\ r.err = 0 =>
                  /\ r.buf.state = IF x.state = EMPTY THEN ONE_MSG_ARGS ELSE GET_ARGS
                  /\ ~Overflow(r.buf, OSC_effectiveStringLength(name))
                  /\ x.state = EMPTY => r.buf.cells = x.cells
                  /\ x.state # EMPTY =>
                       /\ r.buf.cells = CloseMessage(x).cells \o <<Blank>>
                       /\ r.buf.thisMsgSize = Len(x.cells) + 1
<1>. DEFINE r == MessageHeader(x, name)
            n == OSC_effectiveStringLength(name)
<1>1. x \in OSCbuf /\ InBuffer(x) /\ Len(x.cells) \in Nat
  BY FieldsOf DEF Buffers
<1>2. n \in Nat /\ Size \in Nat
  BY CellsOfString DEF ClientAssumption
<1>3. CASE \/ x.state = EMPTY /\ Overflow(x, n)
           \/ x.state # EMPTY /\ Overflow(x, 1 + n)
  <2>1. r = [buf |-> x, err |-> 1]
    BY <1>3 DEF MessageHeader, Returns
  <2>. QED  BY <2>1 DEF Kept
<1>4. CASE x.state = EMPTY /\ ~Overflow(x, n)
  <2>. DEFINE y == [x EXCEPT !.state = ONE_MSG_ARGS]
  <2>1. r = [buf |-> y, err |-> 0]
    BY <1>4 DEF MessageHeader, Returns
  <2>2. y \in OSCbuf /\ InBuffer(y) /\ y.cells = x.cells /\ Kept(x, y) /\ y.state = ONE_MSG_ARGS
    BY <1>1 DEF OSCbuf, InBuffer, States, Kept
  <2>. HIDE DEF y
  <2>3. ~Overflow(y, n)
    BY <1>4, <2>2 DEF Overflow, OSC_freeSpaceInBuffer
  <2>. QED  BY <1>4, <2>1, <2>2, <2>3 DEF Buffers
<1>5. CASE x.state # EMPTY /\ ~Overflow(x, 1 + n)
  <2>. DEFINE m == CloseMessage(x)
              z == [m EXCEPT !.cells = Append(@, Blank)]
              y == [z EXCEPT !.thisMsgSize = Len(x.cells) + 1, !.state = GET_ARGS]
  <2>1. m \in Buffers /\ Len(m.cells) = Len(x.cells) /\ m = [x EXCEPT !.cells = m.cells]
    BY ClosedMessage
  <2>2. r = [buf |-> [m EXCEPT !.cells = Append(@, Blank),
                               !.thisMsgSize = Len(x.cells) + 1, !.state = GET_ARGS],
             err |-> 0]
    BY <1>5 DEF MessageHeader, Returns
  <2>. HIDE DEF m
  <2>3. m \in OSCbuf
    BY <2>1 DEF Buffers
  <2>4. r = [buf |-> y, err |-> 0]
    BY <2>2, <2>3 DEF OSCbuf
  <2>5. ~Overflow(m, 1)
    BY <1>1, <1>2, <1>5, <2>1 DEF Overflow, OSC_freeSpaceInBuffer
  <2>6. z \in Buffers /\ z.cells = m.cells \o <<Blank>> /\ Len(z.cells) = Len(x.cells) + 1
    BY <2>1, <2>5, WithBlank
  <2>7. Kept(x, z)
    BY <1>1, <2>1, <2>3 DEF OSCbuf, Kept
  <2>. HIDE DEF z
  <2>8. z \in OSCbuf /\ InBuffer(z)
    BY <2>6 DEF Buffers
  <2>9. y \in OSCbuf /\ y.cells = z.cells /\ Kept(z, y) /\ y.state = GET_ARGS
          /\ y.thisMsgSize = Len(x.cells) + 1
    <3>. DEFINE k == Len(x.cells) + 1
    <3>1. k \in Nat /\ GET_ARGS \in States
      BY <1>1 DEF States
    <3>. HIDE DEF k
    <3>2. y = [z EXCEPT !.thisMsgSize = k, !.state = GET_ARGS]
      BY DEF k
    <3>. HIDE DEF y
    <3>3. y \in OSCbuf /\ y.cells = z.cells /\ Kept(z, y) /\ y.state = GET_ARGS
            /\ y.thisMsgSize = k
      BY <2>8, <3>1, <3>2 DEF OSCbuf, Kept
    <3>. QED  BY <3>3 DEF k
  <2>. HIDE DEF y
  <2>10. DOMAIN y.cells = 1 .. Len(x.cells) + 1
    BY <2>6, <2>9, FieldsOf
  <2>11. InBuffer(y)
    BY <1>1, <2>8, <2>9, <2>10 DEF InBuffer, Kept
  <2>12. ~Overflow(y, n)
    BY <1>1, <1>2, <1>5, <2>6, <2>9 DEF Overflow, OSC_freeSpaceInBuffer
  <2>. QED  BY <1>5, <2>4, <2>6, <2>7, <2>9, <2>11, <2>12 DEF Buffers, Kept, m
<1>. QED  BY <1>3, <1>4, <1>5

LEMMA WroteAddress ==
  ASSUME ClientAssumption, NEW x \in Buffers, NEW name \in Seq(Byte), NEW stale
  PROVE  LET r == OSC_writeAddress(x, name, stale)
         IN  /\ r.err \in Nat /\ r.buf \in Buffers /\ Kept(x, r.buf)
             /\ r.err = 0 =>
                  /\ x.state \notin {ONE_MSG_ARGS, DONE}
                  /\ r.buf.state = IF x.state = EMPTY THEN ONE_MSG_ARGS ELSE GET_ARGS
                  /\ Nested(x) => Nested(r.buf)
<1>. DEFINE r == OSC_writeAddress(x, name, stale)
            c == CheckTypeTag(x, Nul, stale)
            h == MessageHeader(c.buf, name)
            cs == OSC_padString(name)
            y == [h.buf EXCEPT !.cells = @ \o cs, !.typeStringPtr = 0,
                               !.gettingFirstUntypedArg = TRUE]
<1>1. CASE x.state \in {ONE_MSG_ARGS, DONE}
  <2>1. r \in {[buf |-> x, err |-> 7], [buf |-> x, err |-> 8]}
    BY <1>1 DEF OSC_writeAddress, Returns
  <2>. QED  BY <2>1 DEF Kept
<1>2. CASE x.state \notin {ONE_MSG_ARGS, DONE}
  <2>1. r = IF c.err = 0 THEN IF h.err = 0 THEN [buf |-> y, err |-> 0] ELSE h ELSE c
    BY <1>2 DEF OSC_writeAddress, Then, Returns
  <2>2. c.err \in {0, 9} /\ c.buf \in Buffers /\ Kept(x, c.buf) /\ c.buf.state = x.state
    BY CheckKeeps
  <2>. HIDE DEF c
  <2>3. /\ h.err \in {0, 1} /\ h.buf \in Buffers /\ Kept(c.buf, h.buf)
        /\ h.err = 0 =>
             /\ h.buf.state = IF c.buf.state = EMPTY THEN ONE_MSG_ARGS ELSE GET_ARGS
             /\ ~Overflow(h.buf, OSC_effectiveStringLength(name))
    BY <2>2, HeaderOfMessage
  <2>. HIDE DEF h
  <2>4. cs \in Seq(Cell) /\ Len(cs) = OSC_effectiveStringLength(name)
    BY CellsOfString, CellKinds, SeqMonotonic
  <2>. HIDE DEF cs
  <2>5. ASSUME h.err = 0
        PROVE  y \in Buffers /\ Kept(h.buf, y) /\ y.state = h.buf.state
    <3>1. ~Overflow(h.buf, Len(cs))
      BY <2>3, <2>4, <2>5
    <3>2. y = [h.buf EXCEPT !.cells = @ \o cs, !.gettingFirstUntypedArg = TRUE,
                            !.typeStringPtr = 0]
      BY <2>3 DEF Buffers, OSCbuf
    <3>. HIDE DEF y
    <3>. DEFINE v == h.buf
    <3>3. v \in Buffers /\ ~Overflow(v, Len(cs))
      BY <2>3, <3>1
    <3>. HIDE DEF v
    <3>4. LET w == [v EXCEPT !.cells = @ \o cs, !.gettingFirstUntypedArg = TRUE,
                             !.typeStringPtr = 0]
          IN  w \in Buffers /\ Kept(v, w) /\ w.state = v.state
      BY <2>4, <3>3, WrittenCells, ZenonT(40)
    <3>. QED  BY <3>2, <3>4 DEF v
  <2>. HIDE DEF y
  <2>6. /\ r.err \in Nat /\ r.buf \in Buffers /\ Kept(x, r.buf)
        /\ r.err = 0 => r.buf.state = IF x.state = EMPTY THEN ONE_MSG_ARGS ELSE GET_ARGS
    BY <2>1, <2>2, <2>3, <2>5 DEF Kept
  <2>. HIDE DEF r
  <2>7. ASSUME r.err = 0, Nested(x)
        PROVE  Nested(r.buf)
    <3>1. x.state \in States
      BY FieldsOf
    <3>. QED  BY <1>2, <2>6, <2>7, <3>1 DEF Nested, Kept, States
  <2>. QED  BY <1>2, <2>6, <2>7 DEF r
<1>. QED  BY <1>1, <1>2

LEMMA WroteAddressAndTypes ==
  ASSUME ClientAssumption, NEW x \in Buffers, NEW name \in Seq(Byte),
         NEW types \in Seq(Byte), NEW stale
  PROVE  LET r == OSC_writeAddressAndTypes(x, name, types, stale)
         IN  /\ r.err \in Nat /\ r.buf \in Buffers /\ Kept(x, r.buf)
             /\ r.err = 0 =>
                  /\ x.state \notin {ONE_MSG_ARGS, DONE}
                  /\ r.buf.state = IF x.state = EMPTY THEN ONE_MSG_ARGS ELSE GET_ARGS
                  /\ Nested(x) => Nested(r.buf)
<1>. DEFINE r == OSC_writeAddressAndTypes(x, name, types, stale)
            a == OSC_writeAddress(x, name, stale)
            cs == OSC_padString(types)
            n == OSC_effectiveStringLength(types)
            ptr == 4 * Len(a.buf.cells) + 2
            y == [a.buf EXCEPT !.cells = @ \o cs, !.typeStringPtr = ptr,
                               !.gettingFirstUntypedArg = FALSE]
<1>1. /\ a.err \in Nat /\ a.buf \in Buffers /\ Kept(x, a.buf)
      /\ a.err = 0 =>
           /\ x.state \notin {ONE_MSG_ARGS, DONE}
           /\ a.buf.state = IF x.state = EMPTY THEN ONE_MSG_ARGS ELSE GET_ARGS
           /\ Nested(x) => Nested(a.buf)
  BY WroteAddress
<1>2. r = IF a.err # 0 THEN a
          ELSE IF Overflow(a.buf, n) THEN [buf |-> a.buf, err |-> 1]
          ELSE [buf |-> y, err |-> 0]
  BY <1>1 DEF OSC_writeAddressAndTypes, Then, Returns, Buffers, OSCbuf
<1>3. cs \in Seq(Cell) /\ Len(cs) = n
  BY CellsOfString, CellKinds, SeqMonotonic
<1>4. ptr \in Nat
  BY <1>1, FieldsOf
<1>. HIDE DEF r, a, cs, ptr
<1>. DEFINE v == a.buf
<1>5. ASSUME ~Overflow(v, n)
      PROVE  y \in Buffers /\ Kept(v, y) /\ y.state = v.state
  <2>1. v \in Buffers /\ ~Overflow(v, Len(cs)) /\ v \in OSCbuf
    BY <1>1, <1>3, <1>5 DEF Buffers
  <2>2. y = [v EXCEPT !.cells = @ \o cs, !.gettingFirstUntypedArg = FALSE,
                      !.typeStringPtr = ptr]
    BY <2>1 DEF OSCbuf
  <2>. HIDE DEF v, y
  <2>3. LET w == [v EXCEPT !.cells = @ \o cs, !.gettingFirstUntypedArg = FALSE,
                           !.typeStringPtr = ptr]
        IN  w \in Buffers /\ Kept(v, w) /\ w.state = v.state
    BY <1>3, <1>4, <2>1, WrittenCells, ZenonT(40)
  <2>. QED  BY <2>2, <2>3
<1>. HIDE DEF y
<1>6. r.err = 0 => a.err = 0 /\ ~Overflow(v, n) /\ r.buf = y
  BY <1>2
<1>7. Kept(v, y) /\ y.state = v.state /\ Nested(v) => Nested(y)
  BY KeptNested
<1>8. ASSUME r.err = 0
      PROVE  /\ x.state \notin {ONE_MSG_ARGS, DONE}
             /\ r.buf.state = IF x.state = EMPTY THEN ONE_MSG_ARGS ELSE GET_ARGS
             /\ Nested(x) => Nested(r.buf)
  BY <1>1, <1>5, <1>6, <1>7, <1>8
<1>9. r.err \in Nat /\ r.buf \in Buffers /\ Kept(x, r.buf)
  <2>1. CASE r.err = 0
    BY <1>1, <1>5, <1>6, <2>1 DEF Kept
  <2>2. CASE r.err # 0
    BY <1>1, <1>2, <2>2
  <2>. QED  BY <2>1, <2>2
<1>. QED  BY <1>8, <1>9 DEF r

LEMMA WroteCells ==
  ASSUME ClientAssumption, NEW x \in Buffers, NEW cs \in Seq(Cell), ~Overflow(x, Len(cs))
  PROVE  LET y == WriteCells(x, cs)
         IN  y \in Buffers /\ Kept(x, y) /\ y.state = x.state /\ y.cells = x.cells \o cs
<1>. DEFINE ptr == x.typeStringPtr
            w == [x EXCEPT !.cells = @ \o cs, !.gettingFirstUntypedArg = FALSE,
                           !.typeStringPtr = ptr]
<1>1. ptr \in Nat
  BY FieldsOf
<1>2. WriteCells(x, cs) = w
  BY DEF WriteCells, Buffers, OSCbuf
<1>. HIDE DEF ptr
<1>3. w \in Buffers /\ Kept(x, w) /\ w.state = x.state /\ w.cells = x.cells \o cs
  BY <1>1, WrittenCells
<1>. HIDE DEF w
<1>. QED  BY <1>2, <1>3

LEMMA NumberCell ==
  ASSUME NEW first \in Byte
  PROVE  Word(first) \in Cell
<1>1. "x" \in Byte
  BY DEF Byte
<1>2. <<first, "x", "x", "x">> \in Seq(Byte)
  BY <1>1
<1>. QED  BY <1>2 DEF Word, Text, Cell, TextCells

LEMMA WroteIntArg ==
  ASSUME ClientAssumption, NEW x \in Buffers, NEW type, NEW first \in Byte, NEW stale
  PROVE  LET r == OSC_writeIntArg(x, type, first, stale)
         IN  r.err \in Nat /\ r.buf \in Buffers /\ Kept(x, r.buf) /\ r.buf.state = x.state
<1>. DEFINE r == OSC_writeIntArg(x, type, first, stale)
            c == CheckTypeTag(x, type, stale)
            cs == <<Word(first)>>
<1>1. CASE Overflow(x, 1)
  <2>1. r = [buf |-> x, err |-> 1]
    BY <1>1 DEF OSC_writeIntArg, Returns
  <2>. QED  BY <2>1 DEF Kept
<1>2. CASE ~Overflow(x, 1)
  <2>1. r = IF c.err = 0 THEN [buf |-> WriteCells(c.buf, cs), err |-> 0] ELSE c
    BY <1>2 DEF OSC_writeIntArg, Then, Returns
  <2>2. c.err \in {0, 9} /\ c.buf \in Buffers /\ Kept(x, c.buf) /\ c.buf.state = x.state
          /\ c.buf.cells = x.cells
    BY CheckKeeps
  <2>. HIDE DEF c
  <2>3. cs \in Seq(Cell) /\ Len(cs) = 1
    BY NumberCell
  <2>. HIDE DEF cs
  <2>4. ~Overflow(c.buf, Len(cs))
    BY <1>2, <2>2, <2>3 DEF Overflow, OSC_freeSpaceInBuffer
  <2>5. WriteCells(c.buf, cs) \in Buffers /\ Kept(c.buf, WriteCells(c.buf, cs))
          /\ WriteCells(c.buf, cs).state = c.buf.state
    BY <2>2, <2>3, <2>4, WroteCells
  <2>. HIDE DEF r
  <2>6. r.err \in Nat /\ r.buf \in Buffers /\ Kept(x, r.buf) /\ r.buf.state = x.state
    BY <2>1, <2>2, <2>5 DEF Kept
  <2>. QED  BY <2>6 DEF r
<1>. QED  BY <1>1, <1>2

LEMMA WroteStringArg ==
  ASSUME ClientAssumption, NEW x \in Buffers, NEW s \in Seq(Byte), NEW stale
  PROVE  LET r == OSC_writeStringArg(x, s, stale)
         IN  r.err \in Nat /\ r.buf \in Buffers /\ Kept(x, r.buf) /\ r.buf.state = x.state
<1>. DEFINE r == OSC_writeStringArg(x, s, stale)
            c == CheckTypeTag(x, "s", stale)
            n == OSC_effectiveStringLength(s)
            cs == OSC_padString(s)
            ds == OSC_padStringWithAnExtraStupidComma(s)
<1>1. c.err \in {0, 9} /\ c.buf \in Buffers /\ Kept(x, c.buf) /\ c.buf.state = x.state
  BY CheckKeeps
<1>2. \/ r = c
      \/ r = [buf |-> c.buf, err |-> 1]
      \/ r = [buf |-> WriteCells(c.buf, ds), err |-> 0] /\ ~Overflow(c.buf, n + 1)
      \/ r = [buf |-> WriteCells(c.buf, cs), err |-> 0] /\ ~Overflow(c.buf, n)
  BY DEF OSC_writeStringArg, Then, Returns
<1>3. n \in Nat /\ Len(c.buf.cells) \in Nat /\ Size \in Nat
  BY <1>1, CellsOfString, FieldsOf DEF ClientAssumption
<1>4. cs \in Seq(Cell) /\ Len(cs) = n
  BY CellsOfString, CellKinds, SeqMonotonic
<1>5. ds \in Seq(Cell) /\ Len(ds) <= n + 1 /\ Len(ds) \in Nat
  <2>. DEFINE sign == <<",">>
              comma == sign \o s
  <2>1. sign \in Seq(Byte) /\ Len(sign) = 1
    <3>. DEFINE w == ","
    <3>1. w \in Byte
      BY DEF Byte
    <3>. HIDE DEF w
    <3>2. <<w>> \in Seq(Byte) /\ Len(<<w>>) = 1
      BY <3>1
    <3>. QED  BY <3>2 DEF w
  <2>. HIDE DEF sign
  <2>2. comma \in Seq(Byte) /\ Len(comma) = Len(s) + 1 /\ Len(s) \in Nat
    BY <2>1, ConcatProperties
  <2>. HIDE DEF comma
  <2>3. OSC_effectiveStringLength(comma) <= n + 1
    <3>1. \A k \in Nat : (k + 1 + 4) \div 4 <= (k + 4) \div 4 + 1
      OBVIOUS
    <3>. QED  BY <2>2, <3>1 DEF OSC_effectiveStringLength
  <2>4. ds = OSC_padString(comma)
    BY DEF OSC_padStringWithAnExtraStupidComma, comma, sign
  <2>. HIDE DEF ds
  <2>5. ds \in Seq(TextCells) /\ Len(ds) = OSC_effectiveStringLength(comma)
          /\ Len(ds) \in Nat
    BY <2>2, <2>4, CellsOfString
  <2>. QED  BY <2>3, <2>5, CellKinds, SeqMonotonic
<1>. HIDE DEF c, n, cs, ds, r
<1>6. ASSUME ~Overflow(c.buf, n)
      PROVE  WriteCells(c.buf, cs) \in Buffers /\ Kept(c.buf, WriteCells(c.buf, cs))
               /\ WriteCells(c.buf, cs).state = c.buf.state
  BY <1>1, <1>4, <1>6, WroteCells
<1>7. ASSUME ~Overflow(c.buf, n + 1)
      PROVE  WriteCells(c.buf, ds) \in Buffers /\ Kept(c.buf, WriteCells(c.buf, ds))
               /\ WriteCells(c.buf, ds).state = c.buf.state
  <2>1. ~Overflow(c.buf, Len(ds))
    BY <1>3, <1>5, <1>7 DEF Overflow, OSC_freeSpaceInBuffer
  <2>. QED  BY <1>1, <1>5, <2>1, WroteCells
<1>8. r.err \in Nat /\ r.buf \in Buffers /\ Kept(x, r.buf) /\ r.buf.state = x.state
  BY <1>1, <1>2, <1>6, <1>7 DEF Kept
<1>. QED  BY <1>8 DEF r

(* One round of the loop of OSC_writeFloatArgs.                            *)
FloatOne(q, first, stale) ==
    Then(q, LAMBDA y :
    Then(CheckTypeTag(y, "f", stale), LAMBDA c :
      Returns([c EXCEPT !.cells = Append(@, Word(first))], 0)))

FloatResults == [buf : OSCbuf, err : {0, 9}]

LEMMA FloatStep ==
  ASSUME NEW q \in FloatResults, NEW first \in Byte, NEW stale
  PROVE  LET r == FloatOne(q, first, stale)
         IN  /\ r \in FloatResults
             /\ Kept(q.buf, r.buf) /\ r.buf.state = q.buf.state
             /\ r.buf.thisMsgSize = q.buf.thisMsgSize
             /\ Len(q.buf.cells) <= Len(r.buf.cells)
             /\ Len(r.buf.cells) <= Len(q.buf.cells) + 1
<1>. DEFINE y == q.buf
            w == Word(first)
            z == [y EXCEPT !.typeStringPtr = @ + 1]
            more(c) == [c EXCEPT !.cells = Append(@, w)]
<1>1. w \in Cell
  BY NumberCell
<1>2. y \in OSCbuf /\ q.err \in {0, 9} /\ q = [buf |-> y, err |-> q.err]
  BY DEF FloatResults
<1>. HIDE DEF y, w
<1>3. y.cells \in Seq(Cell) /\ Len(y.cells) \in Nat
  BY <1>2 DEF OSCbuf
<1>4. Append(y.cells, w) \in Seq(Cell) /\ Len(Append(y.cells, w)) = Len(y.cells) + 1
  <2>. DEFINE cs == y.cells
  <2>1. cs \in Seq(Cell)
    BY <1>3
  <2>. HIDE DEF cs
  <2>2. Append(cs, w) \in Seq(Cell) /\ Len(Append(cs, w)) = Len(cs) + 1
    BY <1>1, <2>1, AppendProperties
  <2>. QED  BY <2>2 DEF cs
<1>5. z \in OSCbuf /\ Kept(y, z) /\ z.state = y.state /\ z.thisMsgSize = y.thisMsgSize
        /\ z.cells = y.cells
  BY <1>2 DEF OSCbuf, Kept
<1>6. ASSUME NEW c \in {y, z}
      PROVE  /\ more(c) \in OSCbuf /\ Kept(y, more(c)) /\ more(c).state = y.state
             /\ more(c).thisMsgSize = y.thisMsgSize
             /\ Len(more(c).cells) = Len(y.cells) + 1
  <2>. DEFINE cs == Append(y.cells, w)
  <2>1. c \in OSCbuf /\ Kept(y, c) /\ c.state = y.state /\ c.thisMsgSize = y.thisMsgSize
          /\ c.cells = y.cells
    BY <1>2, <1>5, <1>6 DEF Kept
  <2>2. more(c) = [c EXCEPT !.cells = cs]
    BY <2>1
  <2>. HIDE DEF cs, more, z
  <2>3. cs \in Seq(Cell) /\ Len(cs) = Len(y.cells) + 1
    BY <1>4 DEF cs
  <2>. QED  BY <2>1, <2>2, <2>3 DEF OSCbuf, Kept
<1>7. FloatOne(q, first, stale) \in {q, [buf |-> y, err |-> 9], [buf |-> more(y), err |-> 0],
                     [buf |-> more(z), err |-> 0]}
  BY DEF FloatOne, Then, CheckTypeTag, Returns, y, w
<1>. HIDE DEF more, z
<1>8. FloatOne(q, first, stale).buf \in {y, more(y), more(z)} /\ FloatOne(q, first, stale) \in FloatResults
  BY <1>2, <1>6, <1>7 DEF FloatResults
<1>9. \A c \in {y, more(y), more(z)} :
         /\ Kept(y, c) /\ c.state = y.state /\ c.thisMsgSize = y.thisMsgSize
         /\ Len(y.cells) <= Len(c.cells) /\ Len(c.cells) <= Len(y.cells) + 1
  BY <1>3, <1>6 DEF Kept
<1>. QED  BY <1>8, <1>9 DEF y

(* The loop goes on with the result of the round before.                   *)
LEMMA FloatLoop ==
  ASSUME NEW x \in OSCbuf, NEW firsts \in Seq(Byte), NEW stale
  PROVE  \E f : /\ f[0] = Returns(x, 0)
                /\ \A k \in 1 .. Len(firsts) : f[k] = FloatOne(f[k - 1], firsts[k], stale)
                /\ \A k \in 0 .. Len(firsts) : f[k] \in FloatResults
                /\ OSC_writeFloatArgs(x, firsts, stale) =
                     IF Overflow(x, Len(firsts)) THEN Returns(x, 1)
                     ELSE IF f[Len(firsts)].err = 0
                          THEN Returns(WriteCells(f[Len(firsts)].buf, <<>>), 0)
                          ELSE f[Len(firsts)]
<1>. DEFINE n == Len(firsts)
            One(r, k) == FloatOne(r, firsts[k], stale)
            base == Returns(x, 0)
            Loop(g) == g = [k \in 0 .. n |-> IF k = 0 THEN base ELSE One(g[k - 1], k)]
            one == CHOOSE g : Loop(g)
<1>1. OSC_writeFloatArgs(x, firsts, stale) =
        IF Overflow(x, n) THEN Returns(x, 1)
        ELSE Then(one[n], LAMBDA y : Returns(WriteCells(y, <<>>), 0))
  BY DEF OSC_writeFloatArgs, Then, FloatOne
<1>2. n \in Nat /\ \A k \in 1 .. n : firsts[k] \in Byte
  OBVIOUS
<1>3. base \in FloatResults
  BY DEF Returns, FloatResults
<1>4. \A k \in 1 .. n, q \in FloatResults : One(q, k) \in FloatResults
  BY <1>2, FloatStep
<1>5. \E g : Loop(g)
  <2>. DEFINE step == [k \in 1 .. n |-> [q \in FloatResults |-> One(q, k)]]
  <2>1. step \in [1 .. n -> [FloatResults -> FloatResults]]
    BY <1>4
  <2>. HIDE DEF step, base, n
  <2>2. PICK g \in [0 .. n -> FloatResults] : GoesOn(g, n, base, step)
    BY <1>2, <1>3, <2>1, Recursion
  <2>3. \A k \in 1 .. n : g[k] = One(g[k - 1], k)
    <3>1. ASSUME NEW k \in 1 .. n
          PROVE  g[k - 1] \in FloatResults
      <4>1. k - 1 \in 0 .. n
        BY <1>2
      <4>. QED  BY <2>2, <4>1
    <3>. HIDE DEF One
    <3>. QED  BY <2>2, <3>1 DEF step, GoesOn
  <2>. HIDE DEF One
  <2>4. Loop(g)
    BY <2>2, <2>3 DEF GoesOn
  <2>. QED  BY <2>4
<1>6. Loop(one)
  <2>. HIDE DEF Loop
  <2>. QED  BY <1>5
<1>7. one[0] = base /\ \A k \in 1 .. n : one[k] = One(one[k - 1], k)
  <2>. HIDE DEF one, One, base
  <2>. QED  BY <1>2, <1>6
<1>. HIDE DEF one, One, Loop, base
<1>8. \A k \in 0 .. n : one[k] \in FloatResults
  <2>. DEFINE T == {k \in 0 .. n : one[k] \in FloatResults}
  <2>1. 0 \in T
    BY <1>2, <1>3, <1>7
  <2>2. ASSUME NEW k \in 1 .. n, k - 1 \in T
        PROVE  k \in T
    BY <1>4, <1>7, <2>2
  <2>. HIDE DEF T
  <2>3. \A k \in 0 .. n : k \in T
    <3>1. \A k \in 1 .. n : k - 1 \in T => k \in T
      BY <2>2
    <3>. QED  BY <1>2, <2>1, <3>1, Upwards
  <2>. QED  BY <2>3 DEF T
<1>9. OSC_writeFloatArgs(x, firsts, stale) =
        IF Overflow(x, n) THEN Returns(x, 1)
        ELSE IF one[n].err = 0 THEN Returns(WriteCells(one[n].buf, <<>>), 0) ELSE one[n]
  BY <1>1 DEF Then
<1>. QED  BY <1>7, <1>8, <1>9 DEF One, base

(* It writes one cell for each argument.                                   *)
LEMMA WroteFloatArgs ==
  ASSUME ClientAssumption, NEW x \in Buffers, NEW firsts \in Seq(Byte), NEW stale
  PROVE  LET r == OSC_writeFloatArgs(x, firsts, stale)
         IN  r.err \in Nat /\ r.buf \in Buffers /\ Kept(x, r.buf) /\ r.buf.state = x.state
<1>. DEFINE n == Len(firsts)
            r == OSC_writeFloatArgs(x, firsts, stale)
            Fine(k, q) ==
              /\ Kept(x, q.buf) /\ q.buf.state = x.state
              /\ q.buf.thisMsgSize = x.thisMsgSize
              /\ Len(x.cells) <= Len(q.buf.cells) /\ Len(q.buf.cells) <= Len(x.cells) + k
<1>1. n \in Nat /\ \A k \in 1 .. n : firsts[k] \in Byte
  OBVIOUS
<1>2. x \in OSCbuf /\ InBuffer(x) /\ Len(x.cells) \in Nat
  BY FieldsOf DEF Buffers
<1>3. PICK one :
        /\ one[0] = Returns(x, 0)
        /\ \A k \in 1 .. n : one[k] = FloatOne(one[k - 1], firsts[k], stale)
        /\ \A k \in 0 .. n : one[k] \in FloatResults
        /\ r = IF Overflow(x, n) THEN Returns(x, 1)
               ELSE IF one[n].err = 0 THEN Returns(WriteCells(one[n].buf, <<>>), 0) ELSE one[n]
  BY <1>2, FloatLoop
<1>4. \A k \in 0 .. n : Fine(k, one[k])
  <2>. DEFINE T == {k \in 0 .. n : Fine(k, one[k])}
  <2>1. 0 \in T
    BY <1>1, <1>2, <1>3 DEF Returns, Kept
  <2>2. ASSUME NEW k \in 1 .. n, k - 1 \in T
        PROVE  k \in T
    <3>. DEFINE p == one[k - 1]
                q == one[k]
    <3>1. k - 1 \in 0 .. n /\ firsts[k] \in Byte
      BY <1>1, <2>2
    <3>2. Fine(k - 1, p) /\ q = FloatOne(p, firsts[k], stale) /\ p \in FloatResults
      BY <1>3, <2>2, <3>1
    <3>. HIDE DEF p, q
    <3>3. /\ q \in FloatResults /\ Kept(p.buf, q.buf) /\ q.buf.state = p.buf.state
          /\ q.buf.thisMsgSize = p.buf.thisMsgSize
          /\ Len(p.buf.cells) <= Len(q.buf.cells) /\ Len(q.buf.cells) <= Len(p.buf.cells) + 1
      BY <3>1, <3>2, FloatStep
    <3>4. Len(p.buf.cells) \in Nat /\ Len(q.buf.cells) \in Nat
      BY <3>2, <3>3 DEF FloatResults, OSCbuf
    <3>5. Fine(k, q)
      BY <1>1, <1>2, <3>2, <3>3, <3>4, SMTT(20) DEF Kept
    <3>. QED  BY <3>5 DEF q
  <2>. HIDE DEF T
  <2>3. \A k \in 0 .. n : k \in T
    <3>1. \A k \in 1 .. n : k - 1 \in T => k \in T
      BY <2>2
    <3>. QED  BY <1>1, <2>1, <3>1, Upwards
  <2>. QED  BY <2>3 DEF T
<1>. DEFINE q == one[n]
            y == q.buf
<1>5. Fine(n, q) /\ q \in FloatResults
  BY <1>1, <1>3, <1>4
<1>6. r = IF Overflow(x, n) THEN Returns(x, 1)
          ELSE IF q.err = 0 THEN Returns(WriteCells(y, <<>>), 0) ELSE q
  BY <1>3
<1>. HIDE DEF q, r
<1>7. CASE Overflow(x, n)
  <2>1. r = [buf |-> x, err |-> 1]
    BY <1>6, <1>7 DEF Returns
  <2>2. r.err \in Nat /\ r.buf \in Buffers /\ Kept(x, r.buf) /\ r.buf.state = x.state
    BY <2>1 DEF Kept
  <2>. QED  BY <2>2 DEF r
<1>8. CASE ~Overflow(x, n)
  <2>1. r = IF q.err = 0 THEN [buf |-> WriteCells(y, <<>>), err |-> 0] ELSE q
    BY <1>6, <1>8 DEF Returns
  <2>2. /\ y \in OSCbuf /\ q.err \in {0, 9} /\ Kept(x, y) /\ y.state = x.state
        /\ y.thisMsgSize = x.thisMsgSize
        /\ Len(x.cells) <= Len(y.cells) /\ Len(y.cells) <= Len(x.cells) + n
    BY <1>5 DEF FloatResults
  <2>. HIDE DEF y
  <2>3. /\ y.cells \in Seq(Cell) /\ Len(y.cells) \in Nat /\ DOMAIN y.cells = 1 .. Len(y.cells)
        /\ DOMAIN x.cells = 1 .. Len(x.cells)
    <3>1. y.cells \in Seq(Cell)
      BY <2>2 DEF OSCbuf
    <3>. QED  BY <3>1, LenProperties, FieldsOf
  <2>4. Len(y.cells) <= Size
    BY <1>1, <1>2, <1>8, <2>2, <2>3 DEF Overflow, OSC_freeSpaceInBuffer, ClientAssumption
  <2>5. DOMAIN x.cells \subseteq DOMAIN y.cells
    BY <1>2, <2>2, <2>3
  <2>6. InBuffer(y)
    BY <1>2, <2>2, <2>4, <2>5 DEF InBuffer, Kept
  <2>7. y \in Buffers /\ <<>> \in Seq(Cell) /\ ~Overflow(y, Len(<<>>))
    BY <2>2, <2>3, <2>4, <2>6 DEF Buffers, Overflow, OSC_freeSpaceInBuffer, ClientAssumption
  <2>. DEFINE z == WriteCells(y, <<>>)
  <2>8. z \in Buffers /\ Kept(y, z) /\ z.state = y.state
    BY <2>7, WroteCells
  <2>. HIDE DEF z
  <2>9. r = IF q.err = 0 THEN [buf |-> z, err |-> 0] ELSE q
    BY <2>1 DEF z
  <2>10. r.err \in Nat /\ r.buf \in Buffers /\ Kept(x, r.buf) /\ r.buf.state = x.state
    BY <2>2, <2>7, <2>8, <2>9 DEF Kept, y
  <2>. QED  BY <2>10 DEF r
<1>. QED  BY <1>7, <1>8

-----------------------------------------------------------------------------
(* What a client has said.                                                 *)
Token == [is : {"open"}, t : Int] \union [is : {"close", "message"}] \union Cell

Places(tokens, kind) == {i \in DOMAIN tokens : tokens[i].is = kind}
Brackets(tokens) ==
    Cardinality(Places(tokens, "open")) - Cardinality(Places(tokens, "close"))

(* The packet and what was said have begun alike, and the depth is that of *)
(* the brackets.                                                           *)
Told(x, tokens) ==
    /\ tokens \in Seq(Token)
    /\ x.state = EMPTY <=> tokens = <<>>
    /\ x.outerMostTimeStamp # 0 =>
         x.state # EMPTY /\ tokens # <<>> /\ tokens[1].is = "open"
    /\ x.bundleDepth = Brackets(tokens)

LEMMA PlacesFinite ==
  ASSUME NEW S, NEW tokens \in Seq(S), NEW kind
  PROVE  /\ IsFiniteSet(Places(tokens, kind))
         /\ Cardinality(Places(tokens, kind)) \in Nat
<1>1. DOMAIN tokens = 1 .. Len(tokens) /\ Len(tokens) \in Nat
  BY LenProperties
<1>2. IsFiniteSet(1 .. Len(tokens))
  BY <1>1, FS_Interval
<1>3. Places(tokens, kind) \subseteq 1 .. Len(tokens)
  BY <1>1 DEF Places
<1>. QED  BY <1>2, <1>3, FS_Subset, FS_CardinalityType

LEMMA PlacesOfConcat ==
  ASSUME NEW S, NEW s \in Seq(S), NEW t \in Seq(S), NEW kind
  PROVE  Cardinality(Places(s \o t, kind)) =
           Cardinality(Places(s, kind)) + Cardinality(Places(t, kind))
<1>. DEFINE A == Places(s, kind)
            B == Places(t, kind)
            f == [i \in B |-> i + Len(s)]
            C == {f[i] : i \in B}
<1>1. /\ s \o t \in Seq(S) /\ Len(s) \in Nat /\ Len(t) \in Nat
      /\ DOMAIN s = 1 .. Len(s) /\ DOMAIN t = 1 .. Len(t)
      /\ DOMAIN (s \o t) = 1 .. Len(s) + Len(t)
      /\ \A i \in 1 .. Len(s) + Len(t) :
           (s \o t)[i] = IF i <= Len(s) THEN s[i] ELSE t[i - Len(s)]
  BY ConcatProperties, LenProperties
<1>2. A \subseteq 1 .. Len(s) /\ B \subseteq 1 .. Len(t)
  BY <1>1 DEF Places
<1>3. Places(s \o t, kind) = A \union C
  <2>1. ASSUME NEW i \in Places(s \o t, kind), i \notin A
        PROVE  i \in C
    <3>1. i \in 1 .. Len(s) + Len(t) /\ (s \o t)[i].is = kind
      BY <1>1 DEF Places
    <3>2. ~(i <= Len(s))
      BY <1>1, <2>1, <3>1 DEF Places
    <3>3. i - Len(s) \in B
      BY <1>1, <3>1, <3>2 DEF Places
    <3>4. f[i - Len(s)] = i
      BY <1>1, <3>1, <3>3
    <3>. QED  BY <3>3, <3>4
  <2>2. A \subseteq Places(s \o t, kind)
    BY <1>1 DEF Places
  <2>3. C \subseteq Places(s \o t, kind)
    <3>1. ASSUME NEW i \in B
          PROVE  i + Len(s) \in Places(s \o t, kind)
      <4>1. i \in 1 .. Len(t) /\ t[i].is = kind
        BY <1>1 DEF Places
      <4>2. i + Len(s) \in 1 .. Len(s) + Len(t) /\ (s \o t)[i + Len(s)] = t[i]
        BY <1>1, <4>1
      <4>. QED  BY <1>1, <4>1, <4>2 DEF Places
    <3>. HIDE DEF B
    <3>. QED  BY <3>1
  <2>. QED  BY <2>1, <2>2, <2>3
<1>4. IsFiniteSet(A) /\ IsFiniteSet(B) /\ Cardinality(A) \in Nat /\ Cardinality(B) \in Nat
  BY PlacesFinite
<1>. HIDE DEF A, B
<1>5. IsFiniteSet(C) /\ Cardinality(C) = Cardinality(B)
  <2>1. f \in Bijection(B, C)
    <3>1. f \in Surjection(B, C)
      BY DEF Surjection
    <3>2. \A i, j \in B : f[i] = f[j] => i = j
      BY <1>1, <1>2
    <3>. QED  BY <3>1, <3>2 DEF Bijection, Injection, IsInjective, Surjection
  <2>. HIDE DEF C
  <2>2. ExistsBijection(B, C)
    BY <2>1 DEF ExistsBijection
  <2>. QED  BY <1>4, <2>2, FS_Bijection
<1>6. A \cap C = {}
  BY <1>1, <1>2
<1>. HIDE DEF C
<1>7. Cardinality(A \union C) = Cardinality(A) + Cardinality(C) - Cardinality(A \cap C)
  BY <1>4, <1>5, FS_Union
<1>8. Cardinality(A \cap C) = 0
  BY <1>6, FS_EmptySet
<1>. QED  BY <1>3, <1>4, <1>5, <1>7, <1>8 DEF A, B

LEMMA BracketsOfConcat ==
  ASSUME NEW s \in Seq(Token), NEW t \in Seq(Token)
  PROVE  /\ Brackets(s \o t) = Brackets(s) + Brackets(t)
         /\ Brackets(s) \in Int /\ Brackets(t) \in Int
<1>1. \A kind : /\ Cardinality(Places(s, kind)) \in Nat
                /\ Cardinality(Places(t, kind)) \in Nat
  BY PlacesFinite
<1>2. \A kind : Cardinality(Places(s \o t, kind)) =
                Cardinality(Places(s, kind)) + Cardinality(Places(t, kind))
  BY PlacesOfConcat
<1>. QED  BY <1>1, <1>2 DEF Brackets

(* Cells are no brackets.                                                  *)
LEMMA NoBrackets ==
  ASSUME NEW cs \in Seq(Cell)
  PROVE  cs \in Seq(Token) /\ Brackets(cs) = 0
<1>1. cs \in Seq(Token)
  <2>1. Cell \subseteq Token
    BY DEF Token
  <2>. QED  BY <2>1, SeqMonotonic
<1>2. \A i \in DOMAIN cs : cs[i] \in Cell
  BY ElementOfSeq, LenProperties
<1>3. \A c \in Cell : c.is # "open" /\ c.is # "close"
  BY DEF Cell, TextCells, CountCells, TimeCells
<1>4. Places(cs, "open") = {} /\ Places(cs, "close") = {}
  BY <1>2, <1>3 DEF Places
<1>5. Cardinality({}) = 0
  BY FS_EmptySet
<1>6. Brackets(cs) = Cardinality({}) - Cardinality({})
  BY <1>4 DEF Brackets
<1>. QED  BY <1>1, <1>5, <1>6

LEMMA OneToken ==
  ASSUME NEW t \in Token
  PROVE  /\ <<t>> \in Seq(Token)
         /\ Brackets(<<t>>) = IF t.is = "open" THEN 1 ELSE IF t.is = "close" THEN -1 ELSE 0
<1>1. DOMAIN <<t>> = {1} /\ <<t>>[1] = t
  OBVIOUS
<1>2. \A kind : Places(<<t>>, kind) = IF t.is = kind THEN {1} ELSE {}
  BY <1>1 DEF Places
<1>3. Cardinality({1}) = 1 /\ Cardinality({}) = 0
  BY FS_EmptySet, FS_Singleton
<1>. QED  BY <1>2, <1>3 DEF Brackets

LEMMA NothingToldYet == Brackets(<<>>) = 0 /\ <<>> \in Seq(Token)
<1>1. <<>> \in Seq(Cell)
  OBVIOUS
<1>. QED  BY <1>1, NoBrackets

(* A successful call adds its tokens.                                      *)
LEMMA ToldMore ==
  ASSUME NEW x, NEW y, NEW tokens, Told(x, tokens), NEW t \in Seq(Token),
         y.state # EMPTY, x.state # EMPTY \/ t # <<>>,
         y.bundleDepth = x.bundleDepth + Brackets(t),
         \/ y.outerMostTimeStamp = x.outerMostTimeStamp
         \/ x.state = EMPTY /\ t # <<>> /\ t[1].is = "open"
  PROVE  Told(y, tokens \o t)
<1>1. tokens \in Seq(Token) /\ Len(tokens) \in Nat /\ Len(t) \in Nat
  BY DEF Told
<1>2. /\ tokens \o t \in Seq(Token) /\ Len(tokens \o t) = Len(tokens) + Len(t)
      /\ \A i \in 1 .. Len(tokens) + Len(t) :
           (tokens \o t)[i] = IF i <= Len(tokens) THEN tokens[i] ELSE t[i - Len(tokens)]
  BY <1>1, ConcatProperties
<1>3. \A s \in Seq(Token) : Len(s) = 0 <=> s = <<>>
  BY EmptySeq
<1>4. Brackets(tokens \o t) = Brackets(tokens) + Brackets(t)
  BY <1>1, BracketsOfConcat
<1>5. tokens \o t # <<>>
  <2>1. Len(tokens) # 0 \/ Len(t) # 0
    BY <1>1, <1>3 DEF Told
  <2>. QED  BY <1>1, <1>2, <1>3, <2>1
<1>6. ASSUME y.outerMostTimeStamp # 0
      PROVE  (tokens \o t)[1].is = "open"
  <2>1. CASE y.outerMostTimeStamp = x.outerMostTimeStamp
    <3>1. Len(tokens) # 0 /\ tokens[1].is = "open"
      BY <1>1, <1>3, <1>6, <2>1 DEF Told
    <3>2. 1 \in 1 .. Len(tokens) + Len(t) /\ 1 <= Len(tokens)
      BY <1>1, <3>1
    <3>. QED  BY <1>2, <3>1, <3>2
  <2>2. CASE x.state = EMPTY /\ t # <<>> /\ t[1].is = "open"
    <3>1. Len(tokens) = 0 /\ Len(t) # 0
      BY <1>1, <1>3, <2>2 DEF Told
    <3>2. 1 \in 1 .. Len(tokens) + Len(t) /\ ~(1 <= Len(tokens)) /\ 1 - Len(tokens) = 1
      BY <1>1, <3>1
    <3>. QED  BY <1>2, <2>2, <3>2
  <2>. QED  BY <2>1, <2>2
<1>. QED  BY <1>2, <1>4, <1>5, <1>6 DEF Told

-----------------------------------------------------------------------------
(* The program.                                                            *)

(* A careful client has always called the library with success since the  *)
(* last reset, or it stands behind the first error.                        *)
CarefulInv ==
    /\ ~stray
    /\ closing => err = 0
    /\ err = 0 => Nested(b) /\ Told(b, said)

ClientInv ==
    /\ b \in Buffers
    /\ Careful => CarefulInv

LEMMA Arguments ==
  ASSUME ArgumentsAssumption
  PROVE  /\ Times \subseteq Int /\ Firsts \subseteq Byte
         /\ Names \subseteq Seq(Byte) /\ Types \subseteq Seq(Byte)
         /\ Strings \subseteq Seq(Byte) /\ FloatLists \subseteq Seq(Byte)
<1>1. STRING \subseteq Byte
  BY DEF Byte
<1>2. Firsts \subseteq Byte
  BY <1>1 DEF ArgumentsAssumption
<1>3. \A s \in Seq(STRING) : s \in Seq(Byte)
  BY <1>1, SeqMonotonic
<1>4. \A s \in Seq(Firsts) : s \in Seq(Byte)
  BY <1>2, SeqMonotonic
<1>. QED  BY <1>2, <1>3, <1>4 DEF ArgumentsAssumption

LEMMA StartOK ==
  ASSUME ClientAssumption, ClientInit
  PROVE  ClientInv
<1>1. Empty \in Buffers /\ Nested(Empty)
  <2>1. Empty \in Buffers /\ Nested(Empty)
    BY EmptyBuffer
  <2>. QED  BY <2>1
<1>2. Told(Empty, <<>>)
  BY NothingToldYet DEF Told, Empty
<1>. QED  BY <1>1, <1>2 DEF ClientInv, CarefulInv, ClientInit

(* A call that returned r; all calls but OSC_closeBundle.                  *)
LEMMA AfterCall ==
  ASSUME ClientInv, NEW r, NEW t, r.buf \in Buffers, Ready,
         b' = r.buf, err' = r.err, UNCHANGED closing, UNCHANGED stray,
         said' = IF r.err = 0 THEN said \o t ELSE said,
         r.err = 0 => /\ t \in Seq(Token) /\ r.buf.state # EMPTY
                      /\ b.state # EMPTY \/ t # <<>>
                      /\ r.buf.bundleDepth = b.bundleDepth + Brackets(t)
                      /\ \/ r.buf.outerMostTimeStamp = b.outerMostTimeStamp
                         \/ b.state = EMPTY /\ t # <<>> /\ t[1].is = "open"
                      /\ Nested(b) => Nested(r.buf)
  PROVE  ClientInv'
<1>1. ASSUME Careful, err' = 0
      PROVE  Nested(b') /\ Told(b', said')
  <2>1. err = 0 /\ r.err = 0 /\ said' = said \o t
    BY <1>1 DEF Ready
  <2>2. Nested(b) /\ Told(b, said)
    BY <1>1, <2>1 DEF ClientInv, CarefulInv
  <2>. DEFINE y == r.buf
  <2>3. /\ t \in Seq(Token) /\ y.state # EMPTY
        /\ b.state # EMPTY \/ t # <<>>
        /\ y.bundleDepth = b.bundleDepth + Brackets(t)
        /\ \/ y.outerMostTimeStamp = b.outerMostTimeStamp
           \/ b.state = EMPTY /\ t # <<>> /\ t[1].is = "open"
        /\ Nested(y)
    BY <2>1, <2>2
  <2>. HIDE DEF y
  <2>4. Told(y, said \o t)
    BY <2>2, <2>3, ToldMore
  <2>. QED  BY <2>1, <2>3, <2>4 DEF y
<1>2. ~closing /\ ~stray
  BY DEF Ready, Idle
<1>. QED  BY <1>1, <1>2 DEF ClientInv, CarefulInv

(* The tokens of the calls.                                                *)
LEMMA OpenTokens ==
  ASSUME NEW tt \in Int
  PROVE  /\ OpenToken(tt) \in Seq(Token) /\ OpenToken(tt) # <<>>
         /\ OpenToken(tt)[1].is = "open" /\ Brackets(OpenToken(tt)) = 1
<1>. DEFINE t == [is |-> "open", t |-> tt]
<1>1. t \in Token /\ t.is = "open"
  BY DEF Token
<1>2. OpenToken(tt) = <<t>>
  BY DEF OpenToken
<1>. HIDE DEF t
<1>3. <<t>> \in Seq(Token) /\ Brackets(<<t>>) = 1
  BY <1>1, OneToken
<1>4. <<t>> # <<>> /\ <<t>>[1] = t
  OBVIOUS
<1>. QED  BY <1>1, <1>2, <1>3, <1>4

LEMMA CloseTokens ==
  /\ CloseToken \in Seq(Token) /\ CloseToken # <<>> /\ Brackets(CloseToken) = -1
<1>. DEFINE t == [is |-> "close"]
<1>1. t \in Token /\ t.is = "close"
  BY DEF Token
<1>2. CloseToken = <<t>>
  BY DEF CloseToken
<1>. HIDE DEF t
<1>3. <<t>> \in Seq(Token) /\ Brackets(<<t>>) = -1
  BY <1>1, OneToken
<1>4. <<t>> # <<>>
  OBVIOUS
<1>. QED  BY <1>2, <1>3, <1>4

LEMMA MessageTokens ==
  ASSUME NEW cs \in Seq(Cell)
  PROVE  /\ MessageToken \o cs \in Seq(Token) /\ MessageToken \o cs # <<>>
         /\ Brackets(MessageToken \o cs) = 0
<1>. DEFINE t == [is |-> "message"]
<1>1. t \in Token /\ t.is = "message"
  BY DEF Token
<1>2. MessageToken = <<t>>
  BY DEF MessageToken
<1>. HIDE DEF t
<1>3. <<t>> \in Seq(Token) /\ Brackets(<<t>>) = 0
  BY <1>1, OneToken
<1>. DEFINE ts == <<t>>
<1>4. ts \in Seq(Token) /\ Brackets(ts) = 0 /\ Len(ts) = 1
  BY <1>3
<1>5. cs \in Seq(Token) /\ Brackets(cs) = 0
  BY NoBrackets
<1>. HIDE DEF ts
<1>6. /\ ts \o cs \in Seq(Token) /\ Brackets(ts \o cs) = 0
      /\ Len(ts \o cs) = 1 + Len(cs) /\ Len(cs) \in Nat
  <2>1. ts \o cs \in Seq(Token) /\ Len(ts \o cs) = 1 + Len(cs) /\ Len(cs) \in Nat
    BY <1>4, <1>5, ConcatProperties, LenProperties, ZenonT(40)
  <2>2. Brackets(ts \o cs) = 0
    BY <1>4, <1>5, BracketsOfConcat
  <2>. QED  BY <2>1, <2>2
<1>7. ts \o cs # <<>>
  BY <1>6, EmptySeq
<1>. QED  BY <1>2, <1>6, <1>7 DEF ts

LEMMA PaddedCells ==
  ASSUME NEW s \in Seq(Byte)
  PROVE  OSC_padString(s) \in Seq(Cell)
BY CellsOfString, CellKinds, SeqMonotonic

LEMMA CommaCells ==
  ASSUME NEW s \in Seq(Byte)
  PROVE  OSC_padStringWithAnExtraStupidComma(s) \in Seq(Cell)
<1>. DEFINE c == ","
<1>1. c \in Byte
  BY DEF Byte
<1>2. OSC_padStringWithAnExtraStupidComma(s) = OSC_padString(<<c>> \o s)
  BY DEF OSC_padStringWithAnExtraStupidComma
<1>. HIDE DEF c
<1>3. <<c>> \in Seq(Byte)
  BY <1>1
<1>4. <<c>> \o s \in Seq(Byte)
  BY <1>3, ConcatProperties
<1>. QED  BY <1>2, <1>4, PaddedCells

LEMMA OpenBundleKeeps ==
  ASSUME ClientAssumption, ClientInv, NEW tt \in Int, NEW stale, OpenBundle(tt, stale)
  PROVE  ClientInv'
<1>. DEFINE r == OSC_openBundle(b, tt, stale)
            t == OpenToken(tt)
<1>1. b \in Buffers
  BY DEF ClientInv
<1>2. /\ r.err \in Nat /\ r.buf \in Buffers
      /\ r.err = 0 =>
           /\ r.buf.state = NEED_COUNT /\ r.buf.bundleDepth = b.bundleDepth + 1
           /\ b.state # EMPTY => r.buf.outerMostTimeStamp = b.outerMostTimeStamp
           /\ Nested(b) => Nested(r.buf)
  BY <1>1, OpenedBundle
<1>3. t \in Seq(Token) /\ t # <<>> /\ t[1].is = "open" /\ Brackets(t) = 1
  BY OpenTokens
<1>4. /\ Ready /\ b' = r.buf /\ err' = r.err /\ UNCHANGED closing /\ UNCHANGED stray
      /\ said' = IF r.err = 0 THEN said \o t ELSE said
  BY DEF OpenBundle, Returned
<1>. HIDE DEF r, t
<1>5. r.err = 0 => /\ t \in Seq(Token) /\ r.buf.state # EMPTY
                   /\ b.state # EMPTY \/ t # <<>>
                   /\ r.buf.bundleDepth = b.bundleDepth + Brackets(t)
                   /\ \/ r.buf.outerMostTimeStamp = b.outerMostTimeStamp
                      \/ b.state = EMPTY /\ t # <<>> /\ t[1].is = "open"
                   /\ Nested(b) => Nested(r.buf)
  BY <1>2, <1>3
<1>. QED  BY <1>2, <1>4, <1>5, AfterCall

(* A call that writes an address or an argument, and says tokens that are  *)
(* no brackets.                                                            *)
LEMMA WritingKeeps ==
  ASSUME ClientInv, NEW r, NEW t \in Seq(Token), Brackets(t) = 0, Ready,
         r.buf \in Buffers, Kept(b, r.buf), Returned(r, t),
         r.err = 0 => /\ r.buf.state # EMPTY /\ (b.state # EMPTY \/ t # <<>>)
                      /\ Nested(b) => Nested(r.buf)
  PROVE  ClientInv'
<1>1. b \in Buffers
  BY DEF ClientInv
<1>2. b.bundleDepth + 0 = b.bundleDepth
  BY <1>1, FieldsOf
<1>. QED  BY <1>2, AfterCall DEF Returned, Kept

LEMMA WriteAddressKeeps ==
  ASSUME ClientAssumption, ClientInv, NEW name \in Seq(Byte), NEW stale,
         WriteAddress(name, stale)
  PROVE  ClientInv'
<1>. DEFINE r == OSC_writeAddress(b, name, stale)
            t == MessageToken \o OSC_padString(name)
<1>1. b \in Buffers
  BY DEF ClientInv
<1>2. /\ r.err \in Nat /\ r.buf \in Buffers /\ Kept(b, r.buf)
      /\ r.err = 0 =>
           /\ r.buf.state = IF b.state = EMPTY THEN ONE_MSG_ARGS ELSE GET_ARGS
           /\ Nested(b) => Nested(r.buf)
  BY <1>1, WroteAddress
<1>3. t \in Seq(Token) /\ t # <<>> /\ Brackets(t) = 0
  BY PaddedCells, MessageTokens
<1>4. Ready /\ Returned(r, t)
  BY DEF WriteAddress
<1>. HIDE DEF r, t
<1>. QED  BY <1>2, <1>3, <1>4, WritingKeeps

LEMMA WriteAddressAndTypesKeeps ==
  ASSUME ClientAssumption, ClientInv, NEW name \in Seq(Byte), NEW types \in Seq(Byte),
         NEW stale, WriteAddressAndTypes(name, types, stale)
  PROVE  ClientInv'
<1>. DEFINE r == OSC_writeAddressAndTypes(b, name, types, stale)
            m == MessageToken \o OSC_padString(name)
            cs == OSC_padString(types)
            t == m \o cs
<1>1. b \in Buffers
  BY DEF ClientInv
<1>2. /\ r.err \in Nat /\ r.buf \in Buffers /\ Kept(b, r.buf)
      /\ r.err = 0 =>
           /\ r.buf.state = IF b.state = EMPTY THEN ONE_MSG_ARGS ELSE GET_ARGS
           /\ Nested(b) => Nested(r.buf)
  BY <1>1, WroteAddressAndTypes
<1>3. m \in Seq(Token) /\ m # <<>> /\ Brackets(m) = 0
  BY PaddedCells, MessageTokens
<1>4. cs \in Seq(Token) /\ Brackets(cs) = 0
  BY PaddedCells, NoBrackets
<1>5. Ready /\ Returned(r, t)
  BY DEF WriteAddressAndTypes
<1>. HIDE DEF r, m, cs
<1>6. t \in Seq(Token) /\ Brackets(t) = 0
  BY <1>3, <1>4, ConcatProperties, BracketsOfConcat
<1>7. t # <<>>
  <2>1. Len(m) \in Nat /\ Len(m) # 0 /\ Len(cs) \in Nat
    BY <1>3, <1>4, EmptySeq, LenProperties
  <2>2. Len(t) = Len(m) + Len(cs)
    BY <1>3, <1>4, ConcatProperties
  <2>. QED  BY <2>1, <2>2, EmptySeq
<1>. HIDE DEF t
<1>. QED  BY <1>2, <1>5, <1>6, <1>7, WritingKeeps

LEMMA WriteIntArgKeeps ==
  ASSUME ClientAssumption, ClientInv, NEW type, NEW first \in Byte, NEW stale,
         WriteIntArg(type, first, stale)
  PROVE  ClientInv'
<1>. DEFINE r == OSC_writeIntArg(b, type, first, stale)
            t == <<Word(first)>>
<1>1. b \in Buffers
  BY DEF ClientInv
<1>2. r.err \in Nat /\ r.buf \in Buffers /\ Kept(b, r.buf) /\ r.buf.state = b.state
  BY <1>1, WroteIntArg
<1>3. t \in Seq(Cell)
  BY NumberCell
<1>4. Ready /\ Returned(r, t) /\ b.state \in {ONE_MSG_ARGS, GET_ARGS}
  BY DEF WriteIntArg, InMessage
<1>. HIDE DEF r, t
<1>5. t \in Seq(Token) /\ Brackets(t) = 0
  BY <1>3, NoBrackets
<1>6. Nested(b) => Nested(r.buf)
  BY <1>2, KeptNested
<1>. QED  BY <1>2, <1>4, <1>5, <1>6, WritingKeeps

LEMMA WriteFloatArgsKeeps ==
  ASSUME ClientAssumption, ClientInv, NEW firsts \in Seq(Byte), NEW stale,
         WriteFloatArgs(firsts, stale)
  PROVE  ClientInv'
<1>. DEFINE r == OSC_writeFloatArgs(b, firsts, stale)
            t == [i \in DOMAIN firsts |-> Word(firsts[i])]
<1>1. b \in Buffers
  BY DEF ClientInv
<1>2. r.err \in Nat /\ r.buf \in Buffers /\ Kept(b, r.buf) /\ r.buf.state = b.state
  BY <1>1, WroteFloatArgs
<1>3. t \in Seq(Cell)
  <2>1. DOMAIN firsts = 1 .. Len(firsts) /\ Len(firsts) \in Nat
    BY LenProperties
  <2>2. \A i \in 1 .. Len(firsts) : Word(firsts[i]) \in Cell
    BY NumberCell, ElementOfSeq
  <2>3. t \in [1 .. Len(firsts) -> Cell]
    BY <2>1, <2>2
  <2>. HIDE DEF t
  <2>. QED  BY <2>1, <2>3, SeqDef
<1>4. Ready /\ Returned(r, t) /\ b.state \in {ONE_MSG_ARGS, GET_ARGS}
  BY DEF WriteFloatArgs, InMessage
<1>. HIDE DEF r, t
<1>5. t \in Seq(Token) /\ Brackets(t) = 0
  BY <1>3, NoBrackets
<1>6. Nested(b) => Nested(r.buf)
  BY <1>2, KeptNested
<1>. QED  BY <1>2, <1>4, <1>5, <1>6, WritingKeeps

LEMMA WriteStringArgKeeps ==
  ASSUME ClientAssumption, ClientInv, NEW s \in Seq(Byte), NEW stale,
         WriteStringArg(s, stale)
  PROVE  ClientInv'
<1>. DEFINE r == OSC_writeStringArg(b, s, stale)
            t == IF b.gettingFirstUntypedArg /\ s # <<>> /\ s[1] = ","
                 THEN OSC_padStringWithAnExtraStupidComma(s) ELSE OSC_padString(s)
<1>1. b \in Buffers
  BY DEF ClientInv
<1>2. r.err \in Nat /\ r.buf \in Buffers /\ Kept(b, r.buf) /\ r.buf.state = b.state
  BY <1>1, WroteStringArg
<1>3. t \in Seq(Cell)
  BY PaddedCells, CommaCells
<1>4. Ready /\ Returned(r, t) /\ b.state \in {ONE_MSG_ARGS, GET_ARGS}
  BY DEF WriteStringArg, InMessage
<1>. HIDE DEF r, t
<1>5. t \in Seq(Token) /\ Brackets(t) = 0
  BY <1>3, NoBrackets
<1>6. Nested(b) => Nested(r.buf)
  BY <1>2, KeptNested
<1>. QED  BY <1>2, <1>4, <1>5, <1>6, WritingKeeps

(* With the bundles nested as they should be there is a pointer.           *)
LEMMA NestedNotStray ==
  ASSUME ClientAssumption, NEW x \in Buffers, Nested(x)
  PROVE  ~Stray(x)
<1>1. x.bundleDepth \in Nat /\ x.prevCounts \in Pointers
  BY FieldsOf
<1>. QED  BY <1>1 DEF Stray, Nested, Pointers, ClientAssumption

(* OSC_closeBundle, also as a round of OSC_closeAllBundles.                *)
LEMMA ClosingKeeps ==
  ASSUME ClientAssumption, ClientInv, NEW stale, NEW r,
         r = OSC_closeBundle(b, stale), b' = r.buf, Careful => err = 0,
         said' = IF r.err = 0 THEN said \o CloseToken ELSE said,
         stray' = (r.err = 0 /\ Stray(b))
  PROVE  /\ b' \in Buffers
         /\ Careful => ~stray' /\ Nested(b') /\ Told(b', said')
<1>1. b \in Buffers
  BY DEF ClientInv
<1>2. /\ r.err \in Nat /\ r.buf \in Buffers
      /\ r.err # 0 => r.buf = b
      /\ r.err = 0 =>
           /\ b.bundleDepth > 0
           /\ r.buf.state = IF b.bundleDepth = 1 THEN DONE ELSE NEED_COUNT
           /\ r.buf.bundleDepth = b.bundleDepth - 1
           /\ r.buf.outerMostTimeStamp = b.outerMostTimeStamp
           /\ Nested(b) => Nested(r.buf)
  BY <1>1, ClosedBundle
<1>3. ASSUME Careful
      PROVE  ~stray' /\ Nested(b') /\ Told(b', said')
  <2>1. Nested(b) /\ Told(b, said)
    BY <1>3 DEF ClientInv, CarefulInv
  <2>2. ~stray'
    BY <1>1, <2>1, NestedNotStray
  <2>3. CASE r.err # 0
    BY <1>2, <2>1, <2>2, <2>3
  <2>4. CASE r.err = 0
    <3>. DEFINE y == r.buf
                t == CloseToken
    <3>1. t \in Seq(Token) /\ t # <<>> /\ Brackets(t) = -1
      BY CloseTokens
    <3>2. b.bundleDepth \in Nat
      BY <1>1, FieldsOf
    <3>3. y.state # EMPTY /\ y.bundleDepth = b.bundleDepth + Brackets(t)
            /\ y.outerMostTimeStamp = b.outerMostTimeStamp
      BY <1>2, <2>4, <3>1, <3>2
    <3>4. said' = said \o t /\ b' = y
      BY <2>4
    <3>5. Nested(y)
      BY <1>2, <2>1, <2>4
    <3>. HIDE DEF y, t
    <3>6. Told(y, said \o t)
      BY <2>1, <3>1, <3>3, ToldMore
    <3>. QED  BY <2>2, <3>4, <3>5, <3>6
  <2>. QED  BY <2>3, <2>4
<1>. QED  BY <1>2, <1>3

LEMMA CloseBundleKeeps ==
  ASSUME ClientAssumption, ClientInv, NEW stale, CloseBundle(stale)
  PROVE  ClientInv'
<1>1. Ready /\ UNCHANGED closing
  BY DEF CloseBundle
<1>2. b' \in Buffers /\ (Careful => ~stray' /\ Nested(b') /\ Told(b', said'))
  BY <1>1, ClosingKeeps DEF CloseBundle, Ready
<1>. QED  BY <1>1, <1>2 DEF ClientInv, CarefulInv, Ready, Idle

LEMMA CloseAllBundlesKeeps ==
  ASSUME ClientAssumption, ClientInv, NEW stale, CloseAllBundles(stale)
  PROVE  ClientInv'
<1>. DEFINE c == CheckTypeTag(b, Nul, stale)
            r == IF b.bundleDepth = 0 THEN Returns(b, 6) ELSE c
<1>1. b \in Buffers
  BY DEF ClientInv
<1>2. c.err \in {0, 9} /\ c.buf \in Buffers /\ Kept(b, c.buf) /\ c.buf.state = b.state
  BY <1>1, CheckKeeps
<1>3. Nested(b) => Nested(c.buf)
  BY <1>2, KeptNested
<1>4. /\ Ready /\ b' = r.buf /\ err' = r.err /\ closing' = (r.err = 0)
      /\ UNCHANGED stray /\ UNCHANGED said
  BY DEF CloseAllBundles
<1>. HIDE DEF c
<1>5. r.buf \in Buffers /\ (r.err = 0 => r = c)
  BY <1>1, <1>2 DEF Returns
<1>. HIDE DEF r
<1>6. ASSUME Careful, r.err = 0
      PROVE  Nested(b') /\ Told(b', said')
  <2>1. Nested(b) /\ Told(b, said)
    BY <1>4, <1>6 DEF ClientInv, CarefulInv, Ready
  <2>2. b' = c.buf /\ said' = said
    BY <1>4, <1>5, <1>6
  <2>. QED  BY <1>2, <1>3, <2>1, <2>2 DEF Told, Kept
<1>. QED  BY <1>4, <1>5, <1>6 DEF ClientInv, CarefulInv, Ready, Idle

LEMMA CloseAllStepKeeps ==
  ASSUME ClientAssumption, ClientInv, NEW stale, CloseAllStep(stale)
  PROVE  ClientInv'
<1>1. b \in Buffers /\ closing /\ UNCHANGED err /\ (Careful => err = 0)
  BY DEF ClientInv, CarefulInv, CloseAllStep
<1>2. CASE b.bundleDepth > 0
  <2>1. UNCHANGED closing
    BY <1>2 DEF CloseAllStep
  <2>2. b' \in Buffers /\ (Careful => ~stray' /\ Nested(b') /\ Told(b', said'))
    BY <1>1, <1>2, ClosingKeeps DEF CloseAllStep
  <2>. QED  BY <1>1, <2>1, <2>2 DEF ClientInv, CarefulInv
<1>3. CASE ~(b.bundleDepth > 0)
  <2>1. b' = [b EXCEPT !.typeStringPtr = 0] /\ closing' = FALSE /\ UNCHANGED <<said, stray>>
    BY <1>3 DEF CloseAllStep
  <2>2. b' \in Buffers /\ Kept(b, b') /\ b'.state = b.state
    BY <1>1, <2>1 DEF Buffers, OSCbuf, InBuffer, Kept
  <2>3. Nested(b) => Nested(b')
    BY <2>2, KeptNested
  <2>4. Told(b, said) => Told(b', said')
    BY <2>1, <2>2 DEF Told, Kept
  <2>. QED  BY <1>1, <2>1, <2>2, <2>3, <2>4 DEF ClientInv, CarefulInv
<1>. QED  BY <1>2, <1>3

(* Another time tag for the bundle that was opened first.                  *)
LEMMA OpenedAnew ==
  ASSUME NEW tt \in Int, NEW tokens \in Seq(Token), tokens # <<>>, tokens[1].is = "open"
  PROVE  LET new == OpenToken(tt) \o Tail(tokens)
         IN  /\ new \in Seq(Token) /\ new # <<>> /\ new[1].is = "open"
             /\ Brackets(new) = Brackets(tokens)
<1>. DEFINE first == <<tokens[1]>>
            t == OpenToken(tt)
            rest == Tail(tokens)
<1>1. Len(tokens) \in Nat \ {0}
  BY EmptySeq, LenProperties
<1>2. rest \in Seq(Token) /\ tokens[1] \in Token /\ tokens = first \o rest
  <2>1. tokens[1] \in Token
    BY <1>1
  <2>2. rest \in Seq(Token) /\ Len(rest) = Len(tokens) - 1
          /\ \A i \in 1 .. Len(rest) : rest[i] = tokens[i + 1]
    BY <1>1
  <2>3. first \in Seq(Token) /\ Len(first) = 1 /\ first[1] = tokens[1]
    BY <2>1
  <2>. HIDE DEF first, rest
  <2>4. /\ first \o rest \in Seq(Token) /\ Len(first \o rest) = Len(tokens)
        /\ \A i \in 1 .. Len(tokens) :
             (first \o rest)[i] = IF i <= 1 THEN first[i] ELSE rest[i - 1]
    <3>1. /\ first \o rest \in Seq(Token) /\ Len(first \o rest) = Len(first) + Len(rest)
          /\ \A i \in 1 .. Len(first) + Len(rest) :
               (first \o rest)[i] = IF i <= Len(first) THEN first[i] ELSE rest[i - Len(first)]
      BY <2>2, <2>3, ConcatProperties
    <3>2. Len(first) + Len(rest) = Len(tokens)
      BY <1>1, <2>2, <2>3
    <3>. QED  BY <2>3, <3>1, <3>2
  <2>5. ASSUME NEW i \in 1 .. Len(tokens)
        PROVE  (first \o rest)[i] = tokens[i]
    <3>1. CASE i <= 1
      BY <1>1, <2>3, <2>4, <3>1
    <3>2. CASE ~(i <= 1)
      <4>1. i - 1 \in 1 .. Len(rest) /\ (i - 1) + 1 = i
        BY <1>1, <2>2, <3>2
      <4>. QED  BY <2>2, <2>4, <3>2, <4>1
    <3>. QED  BY <3>1, <3>2
  <2>6. tokens = first \o rest
    BY <2>4, <2>5, SeqEqual
  <2>. QED  BY <2>1, <2>2, <2>6
<1>3. t \in Seq(Token) /\ t # <<>> /\ t[1].is = "open" /\ Brackets(t) = 1
  BY OpenTokens
<1>4. first \in Seq(Token) /\ Brackets(first) = 1
  BY <1>2, OneToken
<1>. HIDE DEF first, t, rest
<1>5. Brackets(t \o rest) = 1 + Brackets(rest) /\ Brackets(first \o rest) = 1 + Brackets(rest)
  BY <1>2, <1>3, <1>4, BracketsOfConcat
<1>6. t \o rest \in Seq(Token) /\ Len(t) \in Nat \ {0} /\ Len(rest) \in Nat
        /\ Len(t \o rest) = Len(t) + Len(rest)
        /\ \A i \in 1 .. Len(t) + Len(rest) :
             (t \o rest)[i] = IF i <= Len(t) THEN t[i] ELSE rest[i - Len(t)]
  BY <1>2, <1>3, ConcatProperties, LenProperties, EmptySeq
<1>7. (t \o rest)[1] = t[1] /\ t \o rest # <<>>
  <2>1. 1 \in 1 .. Len(t) + Len(rest) /\ 1 <= Len(t) /\ Len(t \o rest) # 0
    BY <1>6
  <2>. QED  BY <1>6, <2>1, EmptySeq
<1>8. t \o rest \in Seq(Token) /\ t \o rest # <<>> /\ (t \o rest)[1].is = "open"
        /\ Brackets(t \o rest) = Brackets(tokens)
  BY <1>2, <1>3, <1>5, <1>6, <1>7
<1>. QED  BY <1>8 DEF t, rest

LEMMA ChangeTimestampKeeps ==
  ASSUME ClientAssumption, ClientInv, NEW tt \in Int, ChangeTimestamp(tt)
  PROVE  ClientInv'
<1>. DEFINE r == ChangeOutermostTimestamp(b, tt)
            new == OpenToken(tt) \o Tail(said)
<1>1. b \in Buffers
  BY DEF ClientInv
<1>2. /\ r.err \in Nat /\ r.buf \in Buffers
      /\ r.err = 0 <=> b.outerMostTimeStamp # 0
      /\ r.buf.state = b.state /\ r.buf.bundleDepth = b.bundleDepth
      /\ r.buf.outerMostTimeStamp = b.outerMostTimeStamp
      /\ Nested(b) => Nested(r.buf)
  BY <1>1, ChangedTimestamp DEF ClientAssumption
<1>3. /\ Ready /\ b' = r.buf /\ err' = r.err /\ UNCHANGED closing /\ UNCHANGED stray
      /\ said' = IF r.err = 0 THEN new ELSE said
  BY DEF ChangeTimestamp
<1>. HIDE DEF r
<1>4. ASSUME Careful, err' = 0
      PROVE  Nested(b') /\ Told(b', said')
  <2>1. Nested(b) /\ Told(b, said) /\ r.err = 0 /\ said' = new
    BY <1>3, <1>4 DEF ClientInv, CarefulInv, Ready
  <2>2. said \in Seq(Token) /\ said # <<>> /\ said[1].is = "open"
    BY <1>2, <2>1 DEF Told
  <2>3. new \in Seq(Token) /\ new # <<>> /\ new[1].is = "open"
          /\ Brackets(new) = Brackets(said)
    BY <2>2, OpenedAnew
  <2>. HIDE DEF new
  <2>. QED  BY <1>2, <1>3, <2>1, <2>2, <2>3 DEF Told
<1>. QED  BY <1>2, <1>3, <1>4 DEF ClientInv, CarefulInv, Ready, Idle

LEMMA ResetBufferKeeps ==
  ASSUME ClientAssumption, ClientInv, ResetBuffer
  PROVE  ClientInv'
<1>1. b \in Buffers
  BY DEF ClientInv
<1>2. /\ b' \in Buffers /\ Nested(b') /\ b'.state = EMPTY /\ b'.bundleDepth = 0
      /\ b'.outerMostTimeStamp = 0
  BY <1>1, Emptied DEF ResetBuffer
<1>3. Told(b', said')
  BY <1>2, NothingToldYet DEF Told, ResetBuffer
<1>. QED  BY <1>2, <1>3 DEF ClientInv, CarefulInv, ResetBuffer, Idle

LEMMA ClientKeeps ==
  ASSUME ClientAssumption, ArgumentsAssumption, ClientInv, [ClientNext]_clientVars
  PROVE  ClientInv'
<1>1. ASSUME UNCHANGED clientVars
      PROVE  ClientInv'
  BY <1>1 DEF clientVars, ClientInv, CarefulInv, Nested, Told
<1>. SUFFICES ASSUME ClientNext
              PROVE  ClientInv'
  BY <1>1
<1>2. ASSUME NEW stale, NEW tt \in Times, OpenBundle(tt, stale)
      PROVE  ClientInv'
  BY <1>2, OpenBundleKeeps, Arguments
<1>3. ASSUME NEW stale, NEW name \in Names, WriteAddress(name, stale)
      PROVE  ClientInv'
  BY <1>3, WriteAddressKeeps, Arguments
<1>4. ASSUME NEW stale, NEW name \in Names, NEW types \in Types,
             WriteAddressAndTypes(name, types, stale)
      PROVE  ClientInv'
  BY <1>4, WriteAddressAndTypesKeeps, Arguments
<1>5. ASSUME NEW stale, NEW first \in Firsts, NEW type, WriteIntArg(type, first, stale)
      PROVE  ClientInv'
  BY <1>5, WriteIntArgKeeps, Arguments
<1>6. ASSUME NEW stale, NEW firsts \in FloatLists, WriteFloatArgs(firsts, stale)
      PROVE  ClientInv'
  BY <1>6, WriteFloatArgsKeeps, Arguments
<1>7. ASSUME NEW stale, NEW s \in Strings, WriteStringArg(s, stale)
      PROVE  ClientInv'
  BY <1>7, WriteStringArgKeeps, Arguments
<1>8. ASSUME NEW tt \in Times, ChangeTimestamp(tt)
      PROVE  ClientInv'
  BY <1>8, ChangeTimestampKeeps, Arguments
<1>. QED  BY <1>2, <1>3, <1>4, <1>5, <1>6, <1>7, <1>8, CloseBundleKeeps,
             CloseAllBundlesKeeps, CloseAllStepKeeps, ResetBufferKeeps DEF ClientNext

LEMMA ClientInvHolds ==
  ClientAssumption /\ ArgumentsAssumption => (ClientSpec => []ClientInv)
<1>. SUFFICES ASSUME ClientAssumption, ArgumentsAssumption
              PROVE  ClientSpec => []ClientInv
  OBVIOUS
<1>1. ClientInit => ClientInv
  BY StartOK
<1>2. ClientInv /\ [ClientNext]_clientVars => ClientInv'
  BY ClientKeeps
<1>. QED  BY <1>1, <1>2, PTL DEF ClientSpec

(* The packet fits into the buffer, and the pointers of the OSCbuf lie in  *)
(* it, whatever the client calls and whether or not it looks at errors.    *)
THEOREM PacketStaysInBuffer ==
  ClientAssumption /\ ArgumentsAssumption => (ClientSpec => []StaysInBuffer)
<1>1. ClientInv => StaysInBuffer
  BY DEF ClientInv, Buffers, StaysInBuffer
<1>. QED  BY <1>1, ClientInvHolds, PTL

(* No call of a client that resets the buffer after an error patches a     *)
(* count through a pointer that was never set (OSC_closeBundle).           *)
THEOREM NothingStrayTheorem ==
  ClientAssumption /\ ArgumentsAssumption => (ClientSpec => []NothingStray)
<1>1. ClientInv => NothingStray
  BY DEF ClientInv, CarefulInv, NothingStray
<1>. QED  BY <1>1, ClientInvHolds, PTL

(* After calls that all succeeded the bundleDepth of such a client is the  *)
(* number of bundles it has opened and not closed.                         *)
THEOREM DepthCountsTheorem ==
  ClientAssumption /\ ArgumentsAssumption /\ Careful => (ClientSpec => []DepthCounts)
<1>. SUFFICES ASSUME ClientAssumption, ArgumentsAssumption, Careful
              PROVE  ClientSpec => []DepthCounts
  OBVIOUS
<1>1. ClientInv => DepthCounts
  BY DEF ClientInv, CarefulInv, Told, Brackets, Places, DepthCounts, DepthIsTrue, HowMany
<1>. QED  BY <1>1, ClientInvHolds, PTL

-----------------------------------------------------------------------------
(* Typed messages.  The pointer stands behind the arguments that were      *)
(* given, in a type string that lies in the packet.                        *)

TypeString == {t \in Seq(Byte) : t # <<>> /\ t[1] = "," /\ \A i \in 1 .. Len(t) : t[i] # Nul}

TypedMessage == [types : TypeString, given : Seq(Byte)]

Complete(m) == m.given = m.types

(* The cells behind the k-th one hold the type string s, and the pointer   *)
(* has passed p of its bytes.  The time tag lies before it.                *)
PointerAt(x, k, s, p) ==
    /\ x.typeStringPtr = 4 * k + p + 1 /\ p <= Len(s)
    /\ k + OSC_effectiveStringLength(s) <= Len(x.cells)
    /\ \A j \in 1 .. OSC_effectiveStringLength(s) : x.cells[k + j] = OSC_padString(s)[j]
    /\ x.outerMostTimeStamp # 0 => x.outerMostTimeStamp < k

TypesAt(x, k, m) ==
    /\ PointerAt(x, k, m.types, Len(m.given))
    /\ \A i \in 1 .. Len(m.given) : m.given[i] = m.types[i]

LEMMA TypeStrings ==
  ASSUME NEW s \in TypeString
  PROVE  /\ s \in Seq(Byte) /\ Len(s) \in Nat /\ s # <<>> /\ s[1] = ","
         /\ \A i \in 1 .. Len(s) : s[i] # Nul
<1>1. s \in Seq(Byte)
  BY Zenon DEF TypeString
<1>2. s # <<>> /\ s[1] = "," /\ \A i \in 1 .. Len(s) : s[i] # Nul
  BY Zenon DEF TypeString
<1>3. Len(s) \in Nat
  BY <1>1, LenProperties
<1>. QED  BY <1>1, <1>2, <1>3

LEMMA TypedMessages ==
  ASSUME NEW m \in TypedMessage
  PROVE  /\ m.types \in TypeString /\ m.given \in Seq(Byte) /\ Len(m.given) \in Nat
         /\ m.types \in Seq(Byte) /\ Len(m.types) \in Nat
<1>1. m.types \in TypeString /\ m.given \in Seq(Byte)
  BY DEF TypedMessage
<1>2. m.types \in Seq(Byte)
  BY <1>1, TypeStrings
<1>. QED  BY <1>1, <1>2

(* The byte at the pointer is the type that comes next.                    *)
LEMMA NextType ==
  ASSUME NEW x \in OSCbuf, NEW k \in Nat, NEW s \in TypeString, NEW p \in Nat,
         PointerAt(x, k, s, p), NEW stale
  PROVE  TypeByte(x, stale) = IF p < Len(s) THEN s[p + 1] ELSE Nul
<1>. DEFINE n == Len(s)
            ptr == x.typeStringPtr
            L == OSC_effectiveStringLength(s)
            c == (p \div 4) + 1
            i == (p % 4) + 1
            pad == OSC_padString(s)
<1>1. s \in Seq(Byte) /\ n \in Nat
  BY TypeStrings
<1>2. L = (n + 4) \div 4
  BY DEF OSC_effectiveStringLength
<1>3. x.cells \in Seq(Cell)
  BY DEF OSCbuf
<1>4. Len(x.cells) \in Nat
  BY <1>3
<1>5. ptr = 4 * k + p + 1 /\ k + L <= Len(x.cells) /\ p <= n
  BY DEF PointerAt
<1>6. \A j \in 1 .. L : x.cells[k + j] = pad[j]
  BY DEF PointerAt
<1>7. pad = [d \in 1 .. L |->
               Text([h \in 1 .. 4 |-> IF 4 * (d - 1) + h <= n THEN s[4 * (d - 1) + h] ELSE Nul])]
  BY DEF OSC_padString
<1>. HIDE DEF n, L, ptr, pad
<1>8. c \in 1 .. L /\ i \in 1 .. 4 /\ 4 * (c - 1) + i = p + 1
  BY <1>1, <1>2, <1>5
<1>9. ((ptr - 1) \div 4) + 1 = k + c /\ ((ptr - 1) % 4) + 1 = i
  BY <1>5
<1>. HIDE DEF c, i
<1>10. x.cells[k + c] = pad[c]
  BY <1>6, <1>8
<1>11. L \in Int
  BY <1>1, <1>2
<1>12. ~(k + c > Len(x.cells))
  BY <1>4, <1>5, <1>8, <1>11
<1>13. TypeByte(x, stale) = pad[c].b[i]
  BY <1>9, <1>10, <1>12 DEF TypeByte, ptr
<1>14. pad[c] = Text([h \in 1 .. 4 |-> IF 4 * (c - 1) + h <= n THEN s[4 * (c - 1) + h] ELSE Nul])
  BY <1>7, <1>8
<1>15. pad[c].b[i] = IF 4 * (c - 1) + i <= n THEN s[4 * (c - 1) + i] ELSE Nul
  BY <1>8, <1>14 DEF Text
<1>16. p + 1 <= n <=> p < n
  BY <1>1
<1>. QED  BY <1>8, <1>13, <1>15, <1>16 DEF n

(* The null byte is expected behind the last argument only.                *)
LEMMA EndOfTypes ==
  ASSUME NEW x \in OSCbuf, NEW k \in Nat, NEW m \in TypedMessage, TypesAt(x, k, m), NEW stale,
         CheckTypeTag(x, Nul, stale).err = 0
  PROVE  Complete(m)
<1>. DEFINE g == m.given
            s == m.types
<1>1. g \in Seq(Byte) /\ s \in Seq(Byte) /\ s \in TypeString
      /\ Len(g) \in Nat /\ Len(s) \in Nat
  BY TypedMessages
<1>2. PointerAt(x, k, s, Len(g)) /\ \A i \in 1 .. Len(g) : g[i] = s[i]
  BY DEF TypesAt
<1>. HIDE DEF g, s
<1>3. TypeByte(x, stale) = IF Len(g) < Len(s) THEN s[Len(g) + 1] ELSE Nul
  BY <1>1, <1>2, NextType
<1>4. Len(g) <= Len(s) /\ x.typeStringPtr # 0
  BY <1>1, <1>2 DEF PointerAt
<1>5. TypeByte(x, stale) = Nul
  BY <1>4 DEF CheckTypeTag, Returns
<1>6. Len(g) = Len(s)
  <2>. SUFFICES ASSUME Len(g) < Len(s)
                PROVE  FALSE
    BY <1>1, <1>4
  <2>1. Len(g) + 1 \in 1 .. Len(s)
    BY <1>1
  <2>2. s[Len(g) + 1] # Nul
    BY <1>1, <2>1, TypeStrings
  <2>. QED  BY <1>3, <1>5, <2>2
<1>7. g = s
  BY <1>1, <1>2, <1>6, SeqEqual
<1>. QED  BY <1>7 DEF g, s, Complete

(* Another byte is the type of the next argument.                          *)
LEMMA ArgumentTyped ==
  ASSUME NEW x \in OSCbuf, NEW k \in Nat, NEW s \in TypeString, NEW p \in Nat,
         PointerAt(x, k, s, p), NEW stale, NEW type, type # Nul,
         CheckTypeTag(x, type, stale).err = 0
  PROVE  LET y == CheckTypeTag(x, type, stale).buf
         IN  p < Len(s) /\ s[p + 1] = type /\ y = [x EXCEPT !.typeStringPtr = @ + 1]
             /\ PointerAt(y, k, s, p + 1)
<1>. DEFINE y == CheckTypeTag(x, type, stale).buf
<1>1. Len(s) \in Nat
  BY TypeStrings
<1>2. x.typeStringPtr # 0 /\ p <= Len(s)
  BY <1>1 DEF PointerAt
<1>3. TypeByte(x, stale) = type /\ y = [x EXCEPT !.typeStringPtr = @ + 1]
  BY <1>2 DEF CheckTypeTag, Returns
<1>. HIDE DEF y
<1>4. TypeByte(x, stale) = IF p < Len(s) THEN s[p + 1] ELSE Nul
  BY NextType
<1>5. p < Len(s) /\ s[p + 1] = type
  BY <1>3, <1>4
<1>6. y.typeStringPtr = x.typeStringPtr + 1 /\ y.cells = x.cells
      /\ y.outerMostTimeStamp = x.outerMostTimeStamp
  BY <1>3 DEF OSCbuf
<1>7. y.typeStringPtr = 4 * k + (p + 1) + 1 /\ p + 1 <= Len(s)
  BY <1>1, <1>5, <1>6 DEF PointerAt
<1>8. PointerAt(y, k, s, p + 1)
  BY <1>6, <1>7 DEF PointerAt
<1>. QED  BY <1>3, <1>5, <1>8 DEF y

(* The arguments that were given follow the type string.                   *)
LEMMA GivenTyped ==
  ASSUME NEW x, NEW y, NEW k \in Nat, NEW m \in TypedMessage, TypesAt(x, k, m),
         NEW types \in Seq(Byte), PointerAt(y, k, m.types, Len(m.given) + Len(types)),
         \A i \in 1 .. Len(types) : m.types[Len(m.given) + i] = types[i]
  PROVE  LET n == [m EXCEPT !.given = @ \o types]
         IN  n \in TypedMessage /\ TypesAt(y, k, n)
<1>. DEFINE g == m.given
            s == m.types
            h == g \o types
            n == [m EXCEPT !.given = @ \o types]
<1>1. g \in Seq(Byte) /\ s \in TypeString /\ Len(g) \in Nat /\ Len(types) \in Nat
  BY TypedMessages
<1>2. n \in [types : TypeString, given : {h}] /\ n.types = s /\ n.given = h
  BY DEF TypedMessage
<1>3. \A i \in 1 .. Len(g) : g[i] = s[i]
  BY DEF TypesAt
<1>4. PointerAt(y, k, s, Len(g) + Len(types)) /\ \A i \in 1 .. Len(types) : s[Len(g) + i] = types[i]
  OBVIOUS
<1>. HIDE DEF g, s, n
<1>5. h \in Seq(Byte) /\ Len(h) = Len(g) + Len(types)
      /\ \A i \in 1 .. Len(g) + Len(types) : h[i] = IF i <= Len(g) THEN g[i] ELSE types[i - Len(g)]
  BY <1>1, ConcatProperties
<1>. HIDE DEF h
<1>6. ASSUME NEW i \in 1 .. Len(h)
      PROVE  h[i] = s[i]
  <2>1. CASE i <= Len(g)
    <3>1. i \in 1 .. Len(g)
      BY <1>1, <2>1
    <3>. QED  BY <1>3, <1>5, <2>1, <3>1
  <2>2. CASE ~(i <= Len(g))
    <3>1. i - Len(g) \in 1 .. Len(types) /\ Len(g) + (i - Len(g)) = i
      BY <1>1, <1>5, <2>2
    <3>2. s[i] = types[i - Len(g)]
      BY <1>4, <3>1
    <3>. QED  BY <1>5, <2>2, <3>2
  <2>. QED  BY <2>1, <2>2
<1>7. n \in TypedMessage
  BY <1>2, <1>5 DEF TypedMessage
<1>8. TypesAt(y, k, n)
  BY <1>2, <1>4, <1>5, <1>6 DEF TypesAt
<1>. QED  BY <1>7, <1>8 DEF n

(* Cells behind the type string, and a change before it, leave it alone.   *)
LEMMA PointerStays ==
  ASSUME NEW x \in OSCbuf, NEW y \in OSCbuf, NEW k \in Nat, NEW s \in TypeString, NEW p \in Nat,
         PointerAt(x, k, s, p), y.typeStringPtr = x.typeStringPtr,
         y.outerMostTimeStamp = x.outerMostTimeStamp, Len(y.cells) >= Len(x.cells),
         \A i \in k + 1 .. Len(x.cells) : y.cells[i] = x.cells[i]
  PROVE  PointerAt(y, k, s, p)
<1>. DEFINE L == OSC_effectiveStringLength(s)
            xs == x.cells
            ys == y.cells
<1>1. xs \in Seq(Cell) /\ ys \in Seq(Cell)
  BY DEF OSCbuf
<1>2. s \in Seq(Byte)
  BY TypeStrings
<1>3. L \in Nat
  BY <1>2, CellsOfString
<1>4. Len(xs) \in Nat /\ Len(ys) \in Nat
  BY <1>1
<1>5. k + L <= Len(xs) /\ \A j \in 1 .. L : xs[k + j] = OSC_padString(s)[j]
  BY DEF PointerAt
<1>6. Len(ys) >= Len(xs) /\ \A i \in k + 1 .. Len(xs) : ys[i] = xs[i]
  OBVIOUS
<1>. HIDE DEF L, xs, ys
<1>7. k + L <= Len(ys)
  BY <1>3, <1>4, <1>5, <1>6
<1>8. ASSUME NEW j \in 1 .. L
      PROVE  ys[k + j] = OSC_padString(s)[j]
  <2>1. k + j \in k + 1 .. Len(xs)
    BY <1>3, <1>4, <1>5
  <2>2. ys[k + j] = xs[k + j]
    BY <1>6, <2>1
  <2>. QED  BY <1>5, <2>2
<1>. QED  BY <1>7, <1>8 DEF PointerAt, L, ys

(* Writing y from x takes the next types of the message at the pointer,    *)
(* if there are any.                                                       *)
TakesTypes(x, y, types) ==
    /\ x.typeStringPtr = 0 => y.typeStringPtr = 0
    /\ \A k \in Nat, s \in TypeString, p \in Nat :
          PointerAt(x, k, s, p) =>
             /\ PointerAt(y, k, s, p + Len(types))
             /\ \A i \in 1 .. Len(types) : s[p + i] = types[i]

LEMMA CheckTakes ==
  ASSUME NEW x \in OSCbuf, NEW type, type # Nul, NEW stale, CheckTypeTag(x, type, stale).err = 0
  PROVE  TakesTypes(x, CheckTypeTag(x, type, stale).buf, <<type>>)
<1>. DEFINE y == CheckTypeTag(x, type, stale).buf
            one == <<type>>
<1>1. x.typeStringPtr = 0 => y = x
  BY DEF CheckTypeTag, Returns
<1>2. Len(one) = 1 /\ one[1] = type
  OBVIOUS
<1>3. ASSUME NEW k \in Nat, NEW s \in TypeString, NEW p \in Nat, PointerAt(x, k, s, p)
      PROVE  PointerAt(y, k, s, p + 1) /\ s[p + 1] = type
  <2>1. LET q == CheckTypeTag(x, type, stale).buf
        IN  p < Len(s) /\ s[p + 1] = type /\ q = [x EXCEPT !.typeStringPtr = @ + 1]
            /\ PointerAt(q, k, s, p + 1)
    BY <1>3, ArgumentTyped
  <2>. QED  BY <2>1
<1>. HIDE DEF y, one
<1>4. ASSUME NEW k \in Nat, NEW s \in TypeString, NEW p \in Nat, PointerAt(x, k, s, p)
      PROVE  /\ PointerAt(y, k, s, p + Len(one))
             /\ \A i \in 1 .. Len(one) : s[p + i] = one[i]
  <2>1. \A i \in 1 .. Len(one) : i = 1
    BY <1>2
  <2>. QED  BY <1>2, <1>3, <1>4, <2>1
<1>5. TakesTypes(x, y, one)
  BY <1>1, <1>4 DEF TakesTypes
<1>. QED  BY <1>5 DEF y, one

(* Then cells are added.                                                   *)
LEMMA AddedCells ==
  ASSUME NEW x, NEW types, NEW y \in OSCbuf, NEW z \in OSCbuf, TakesTypes(x, y, types),
         Len(types) \in Nat,
         z.typeStringPtr = y.typeStringPtr, z.outerMostTimeStamp = y.outerMostTimeStamp,
         NEW cs \in Seq(Cell), z.cells = y.cells \o cs
  PROVE  TakesTypes(x, z, types)
<1>. DEFINE ys == y.cells
            zs == z.cells
<1>1. ys \in Seq(Cell) /\ zs = ys \o cs
  BY DEF OSCbuf
<1>. HIDE DEF ys, zs
<1>2. Len(zs) = Len(ys) + Len(cs) /\ Len(ys) \in Nat /\ Len(cs) \in Nat
  BY <1>1, ConcatProperties
<1>3. \A i \in 1 .. Len(ys) : zs[i] = ys[i]
  BY <1>1, <1>2, ConcatProperties
<1>4. ASSUME NEW k \in Nat, NEW s \in TypeString, NEW p \in Nat, PointerAt(x, k, s, p)
      PROVE  /\ PointerAt(z, k, s, p + Len(types))
             /\ \A i \in 1 .. Len(types) : s[p + i] = types[i]
  <2>1. /\ PointerAt(y, k, s, p + Len(types))
        /\ \A i \in 1 .. Len(types) : s[p + i] = types[i]
    BY <1>4 DEF TakesTypes
  <2>2. Len(zs) >= Len(ys) /\ \A i \in k + 1 .. Len(ys) : zs[i] = ys[i]
    BY <1>2, <1>3
  <2>3. p + Len(types) \in Nat
    OBVIOUS
  <2>4. Len(z.cells) >= Len(y.cells) /\ \A i \in k + 1 .. Len(y.cells) : z.cells[i] = y.cells[i]
    BY <2>2 DEF ys, zs
  <2>5. PointerAt(z, k, s, p + Len(types))
    BY <2>1, <2>3, <2>4, PointerStays
  <2>. QED  BY <2>1, <2>5
<1>. QED  BY <1>4 DEF TakesTypes

(* A number.                                                               *)
LEMMA IntArgTakes ==
  ASSUME ClientAssumption, NEW x \in Buffers, NEW type, type # Nul, NEW first \in Byte, NEW stale,
         OSC_writeIntArg(x, type, first, stale).err = 0
  PROVE  TakesTypes(x, OSC_writeIntArg(x, type, first, stale).buf, <<type>>)
<1>. DEFINE r == OSC_writeIntArg(x, type, first, stale)
            c == CheckTypeTag(x, type, stale)
            cs == <<Word(first)>>
            types == <<type>>
            y == c.buf
            z == r.buf
<1>1. c.err = 0 /\ z = WriteCells(y, cs) /\ ~Overflow(x, 1)
  BY DEF OSC_writeIntArg, Then, Returns
<1>2. x \in OSCbuf
  BY DEF Buffers
<1>3. TakesTypes(x, y, types) /\ Len(types) \in Nat
  BY <1>1, <1>2, CheckTakes
<1>4. y \in Buffers /\ y.cells = x.cells
  BY CheckKeeps
<1>5. cs \in Seq(Cell) /\ Len(cs) = 1
  BY NumberCell
<1>. HIDE DEF types, c, r, y, cs, z
<1>6. ~Overflow(y, Len(cs))
  BY <1>1, <1>4, <1>5 DEF Overflow, OSC_freeSpaceInBuffer
<1>7. z \in Buffers /\ Kept(y, z) /\ z.cells = y.cells \o cs
  BY <1>1, <1>4, <1>5, <1>6, WroteCells
<1>8. y \in OSCbuf /\ z \in OSCbuf
  BY <1>4, <1>7 DEF Buffers
<1>9. z.typeStringPtr = y.typeStringPtr
  BY <1>1, <1>8 DEF WriteCells, OSCbuf
<1>10. TakesTypes(x, z, types)
  BY <1>3, <1>5, <1>7, <1>8, <1>9, AddedCells DEF Kept
<1>. QED  BY <1>10 DEF z, r, types

(* A string.                                                               *)
LEMMA StringArgTakes ==
  ASSUME ClientAssumption, NEW x \in Buffers, NEW t \in Seq(Byte), NEW stale,
         OSC_writeStringArg(x, t, stale).err = 0
  PROVE  TakesTypes(x, OSC_writeStringArg(x, t, stale).buf, <<"s">>)
<1>. DEFINE type == "s"
            r == OSC_writeStringArg(x, t, stale)
            c == CheckTypeTag(x, type, stale)
            types == <<type>>
            y == c.buf
            z == r.buf
            escaped == y.gettingFirstUntypedArg /\ t # <<>> /\ t[1] = ","
            cells == OSC_effectiveStringLength(t)
<1>1. /\ c.err = 0
      /\ z \in {WriteCells(y, OSC_padStringWithAnExtraStupidComma(t)), WriteCells(y, OSC_padString(t))}
  <2>1. r = IF c.err # 0 THEN c
            ELSE IF escaped
                 THEN IF Overflow(y, cells + 1) THEN [buf |-> y, err |-> 1]
                      ELSE [buf |-> WriteCells(y, OSC_padStringWithAnExtraStupidComma(t)), err |-> 0]
                 ELSE IF Overflow(y, cells) THEN [buf |-> y, err |-> 1]
                      ELSE [buf |-> WriteCells(y, OSC_padString(t)), err |-> 0]
    BY DEF OSC_writeStringArg, Then, Returns
  <2>2. r.err = 0
    OBVIOUS
  <2>. HIDE DEF escaped, cells, r, c
  <2>. QED  BY <2>1, <2>2
<1>2. z \in Buffers
  BY WroteStringArg
<1>3. x \in OSCbuf /\ type # Nul
  BY DEF Buffers, Nul
<1>4. OSC_padStringWithAnExtraStupidComma(t) \in Seq(Cell) /\ OSC_padString(t) \in Seq(Cell)
  BY CommaCells, PaddedCells
<1>. HIDE DEF type
<1>5. TakesTypes(x, y, types) /\ Len(types) \in Nat
  BY <1>1, <1>3, CheckTakes
<1>6. y \in Buffers
  BY CheckKeeps
<1>. HIDE DEF types, c, r, y, z
<1>7. PICK cs \in Seq(Cell) : z = WriteCells(y, cs)
  BY <1>1, <1>4
<1>8. y \in OSCbuf /\ z \in OSCbuf
  BY <1>2, <1>6 DEF Buffers
<1>9. z.typeStringPtr = y.typeStringPtr /\ z.outerMostTimeStamp = y.outerMostTimeStamp
      /\ z.cells = y.cells \o cs
  BY <1>7, <1>8 DEF WriteCells, OSCbuf
<1>10. TakesTypes(x, z, types)
  BY <1>5, <1>8, <1>9, AddedCells
<1>. QED  BY <1>10 DEF z, r, types, type

(* The loop of OSC_writeFloatArgs takes one "f" in each round.             *)
Floats(k) == [i \in 1 .. k |-> "f"]

LEMMA FloatTakes ==
  ASSUME NEW x, NEW q \in FloatResults, q.err = 0, NEW k \in Nat \ {0},
         TakesTypes(x, q.buf, Floats(k - 1)), NEW first \in Byte, NEW stale,
         FloatOne(q, first, stale).err = 0
  PROVE  TakesTypes(x, FloatOne(q, first, stale).buf, Floats(k))
<1>. DEFINE y == q.buf
            f == "f"
            w == Word(first)
            c == CheckTypeTag(y, f, stale)
            u == c.buf
            z == [u EXCEPT !.cells = Append(@, w)]
            r == FloatOne(q, first, stale)
            one == <<f>>
<1>1. c.err = 0 /\ r = [buf |-> z, err |-> 0] /\ y \in OSCbuf
  BY DEF FloatOne, Then, Returns, FloatResults
<1>2. w \in Cell /\ f # Nul
  BY NumberCell DEF Nul
<1>3. u \in {y, [y EXCEPT !.typeStringPtr = @ + 1]}
  BY DEF CheckTypeTag, Returns
<1>4. \A i \in 1 .. k : Floats(k)[i] = f
  BY DEF Floats
<1>5. Len(Floats(k)) = k /\ Len(Floats(k - 1)) = k - 1
  BY DEF Floats
<1>. HIDE DEF f, w, y
<1>6. TakesTypes(y, u, one) /\ Len(one) = 1 /\ one[1] = f
  BY <1>1, <1>2, CheckTakes
<1>. HIDE DEF c, u, one
<1>7. u \in OSCbuf
  BY <1>1, <1>3 DEF OSCbuf
<1>. DEFINE us == u.cells
            cs == <<w>>
<1>8. us \in Seq(Cell) /\ cs \in Seq(Cell)
  BY <1>2, <1>7 DEF OSCbuf
<1>. HIDE DEF us
<1>9. Append(us, w) = us \o cs /\ Append(us, w) \in Seq(Cell)
  BY <1>2, <1>8, AppendIsConcat, AppendProperties
<1>10. z.cells = Append(us, w) /\ z.typeStringPtr = u.typeStringPtr
       /\ z.outerMostTimeStamp = u.outerMostTimeStamp
  BY <1>7 DEF us, OSCbuf
<1>11. z \in OSCbuf
  <2>. DEFINE more == Append(us, w)
  <2>1. z = [u EXCEPT !.cells = more] /\ more \in Seq(Cell)
    BY <1>9 DEF us
  <2>. HIDE DEF more, z
  <2>. QED  BY <1>7, <2>1 DEF OSCbuf
<1>. HIDE DEF cs, z
<1>12. TakesTypes(y, z, one)
  <2>1. z.cells = u.cells \o cs /\ Len(one) \in Nat
    BY <1>6, <1>9, <1>10 DEF us
  <2>. QED  BY <1>6, <1>7, <1>8, <1>10, <1>11, <2>1, AddedCells
<1>13. ASSUME NEW n \in Nat, NEW s \in TypeString, NEW p \in Nat, PointerAt(x, n, s, p)
       PROVE  /\ PointerAt(z, n, s, p + Len(Floats(k)))
              /\ \A i \in 1 .. Len(Floats(k)) : s[p + i] = Floats(k)[i]
  <2>1. /\ PointerAt(y, n, s, p + (k - 1))
        /\ \A i \in 1 .. k - 1 : s[p + i] = Floats(k - 1)[i]
    BY <1>5, <1>13 DEF TakesTypes, y
  <2>2. p + (k - 1) \in Nat /\ (p + (k - 1)) + 1 = p + k
    OBVIOUS
  <2>3. PointerAt(z, n, s, p + k) /\ s[p + k] = f
    <3>1. PointerAt(z, n, s, (p + (k - 1)) + Len(one))
          /\ \A i \in 1 .. Len(one) : s[(p + (k - 1)) + i] = one[i]
      BY <1>12, <2>1, <2>2 DEF TakesTypes
    <3>2. 1 \in 1 .. Len(one)
      BY <1>6
    <3>3. s[(p + (k - 1)) + 1] = one[1]
      BY <3>1, <3>2
    <3>. QED  BY <1>6, <2>2, <3>1, <3>3
  <2>4. ASSUME NEW i \in 1 .. k
        PROVE  s[p + i] = f
    <3>1. CASE i = k
      BY <2>3, <3>1
    <3>2. CASE i # k
      <4>1. i \in 1 .. k - 1
        BY <3>2
      <4>2. Floats(k - 1)[i] = f
        BY <4>1 DEF Floats, f
      <4>. QED  BY <2>1, <4>1, <4>2
    <3>. QED  BY <3>1, <3>2
  <2>. QED  BY <1>4, <1>5, <2>3, <2>4
<1>14. x.typeStringPtr = 0 => z.typeStringPtr = 0
  BY <1>10, <1>12 DEF TakesTypes, y
<1>15. TakesTypes(x, z, Floats(k))
  BY <1>13, <1>14 DEF TakesTypes
<1>. QED  BY <1>1, <1>15

LEMMA FloatArgsTake ==
  ASSUME ClientAssumption, NEW x \in Buffers, NEW firsts \in Seq(Byte), NEW stale,
         OSC_writeFloatArgs(x, firsts, stale).err = 0
  PROVE  TakesTypes(x, OSC_writeFloatArgs(x, firsts, stale).buf, [i \in DOMAIN firsts |-> "f"])
<1>. DEFINE n == Len(firsts)
            r == OSC_writeFloatArgs(x, firsts, stale)
<1>1. n \in Nat /\ \A k \in 1 .. n : firsts[k] \in Byte
  OBVIOUS
<1>2. x \in OSCbuf
  BY DEF Buffers
<1>3. PICK one :
        /\ one[0] = Returns(x, 0)
        /\ \A k \in 1 .. n : one[k] = FloatOne(one[k - 1], firsts[k], stale)
        /\ \A k \in 0 .. n : one[k] \in FloatResults
        /\ r = IF Overflow(x, n) THEN Returns(x, 1)
               ELSE IF one[n].err = 0 THEN Returns(WriteCells(one[n].buf, <<>>), 0) ELSE one[n]
  BY <1>2, FloatLoop
<1>4. \A k \in 0 .. n : one[k].err = 0 => TakesTypes(x, one[k].buf, Floats(k))
  <2>. DEFINE T == {k \in 0 .. n : one[k].err = 0 => TakesTypes(x, one[k].buf, Floats(k))}
  <2>1. 0 \in T
    <3>1. one[0].buf = x
      BY <1>3 DEF Returns
    <3>2. Len(Floats(0)) = 0
      BY DEF Floats
    <3>3. TakesTypes(x, x, Floats(0))
      BY <3>2 DEF TakesTypes
    <3>. QED  BY <1>1, <3>1, <3>3
  <2>2. ASSUME NEW k \in 1 .. n, k - 1 \in T
        PROVE  k \in T
    <3>. DEFINE q == one[k - 1]
    <3>1. k - 1 \in 0 .. n /\ k \in Nat \ {0} /\ firsts[k] \in Byte
      BY <1>1, <2>2
    <3>2. q \in FloatResults /\ one[k] = FloatOne(q, firsts[k], stale)
          /\ (q.err = 0 => TakesTypes(x, q.buf, Floats(k - 1)))
      BY <1>3, <2>2, <3>1
    <3>. HIDE DEF q
    <3>3. ASSUME one[k].err = 0
          PROVE  TakesTypes(x, one[k].buf, Floats(k))
      <4>1. q.err = 0
        BY <3>2, <3>3 DEF FloatOne, Then
      <4>. QED  BY <3>1, <3>2, <3>3, <4>1, FloatTakes
    <3>. QED  BY <3>3
  <2>. HIDE DEF T
  <2>3. \A k \in 0 .. n : k \in T
    <3>1. \A k \in 1 .. n : k - 1 \in T => k \in T
      BY <2>2
    <3>. QED  BY <1>1, <2>1, <3>1, Upwards
  <2>. QED  BY <2>3 DEF T
<1>. DEFINE y == one[n].buf
            z == r.buf
            none == <<>>
<1>5. one[n].err = 0 /\ z = WriteCells(y, none) /\ y \in OSCbuf
  <2>1. r.err = 0 /\ one[n] \in FloatResults
    BY <1>1, <1>3
  <2>. QED  BY <1>3, <2>1 DEF Returns, FloatResults
<1>6. TakesTypes(x, y, Floats(n)) /\ Len(Floats(n)) = n
  BY <1>1, <1>4, <1>5 DEF Floats
<1>7. z \in Buffers
  BY WroteFloatArgs
<1>8. none \in Seq(Cell)
  OBVIOUS
<1>. HIDE DEF none, y, r
<1>9. z \in OSCbuf
  BY <1>7 DEF Buffers
<1>. HIDE DEF z
<1>10. z.typeStringPtr = y.typeStringPtr /\ z.outerMostTimeStamp = y.outerMostTimeStamp
      /\ z.cells = y.cells \o none
  BY <1>5 DEF WriteCells, OSCbuf
<1>11. TakesTypes(x, z, Floats(n))
  BY <1>1, <1>5, <1>6, <1>8, <1>9, <1>10, AddedCells
<1>12. Floats(n) = [i \in DOMAIN firsts |-> "f"]
  BY DEF Floats
<1>. QED  BY <1>11, <1>12 DEF z, r

(* A call that ends a message, or the packet, leaves no type string.       *)
LEMMA SameTag ==
  ASSUME NEW x, NEW y, y.typeStringPtr = x.typeStringPtr, y.cells = x.cells, NEW expected, NEW stale
  PROVE  CheckTypeTag(y, expected, stale).err = CheckTypeTag(x, expected, stale).err
BY DEF CheckTypeTag, TypeByte, Returns

LEMMA OpeningChecks ==
  ASSUME ClientAssumption, NEW x \in Buffers, NEW tt \in Int, NEW stale,
         OSC_openBundle(x, tt, stale).err = 0
  PROVE  /\ CheckTypeTag(x, Nul, stale).err = 0
         /\ OSC_openBundle(x, tt, stale).buf.typeStringPtr = 0
         /\ OSC_openBundle(x, tt, stale).buf.state = NEED_COUNT
<1>. DEFINE deeper == [x EXCEPT !.bundleDepth = @ + 1]
            c == CheckTypeTag(deeper, Nul, stale)
            m == CloseMessage(c.buf)
            h == OpenBundleHeader(m, tt)
            r == OSC_openBundle(x, tt, stale)
<1>1. /\ r = IF c.err = 0 THEN h ELSE c
      /\ ~(deeper.bundleDepth >= MAX_BUNDLE_NESTING)
  BY DEF OSC_openBundle, Then, Returns
<1>2. x \in OSCbuf /\ InBuffer(x)
  BY DEF Buffers
<1>3. deeper \in Buffers /\ deeper.typeStringPtr = x.typeStringPtr /\ deeper.cells = x.cells
  BY <1>2 DEF OSCbuf, Buffers, InBuffer
<1>. HIDE DEF deeper
<1>4. c.err = CheckTypeTag(x, Nul, stale).err
  BY <1>3, SameTag
<1>5. c.buf \in Buffers
  BY <1>3, CheckedTag
<1>6. r.err = 0
  OBVIOUS
<1>. HIDE DEF c, r
<1>7. c.err = 0 /\ h.err = 0 /\ r = h
  BY <1>1, <1>6
<1>8. m \in Buffers
  BY <1>5, ClosedMessage
<1>. HIDE DEF m
<1>9. m \in OSCbuf
  BY <1>8 DEF Buffers
<1>10. h.buf \in {BundleHeader(m, tt), BundleHeader(BlankCount(m), tt)}
  BY <1>7 DEF OpenBundleHeader, Returns
<1>11. BundleHeader(m, tt).typeStringPtr = 0 /\ BundleHeader(m, tt).state = NEED_COUNT
  BY <1>9 DEF BundleHeader, NoTypes, OSCbuf
<1>12. BundleHeader(BlankCount(m), tt).typeStringPtr = 0
       /\ BundleHeader(BlankCount(m), tt).state = NEED_COUNT
  BY <1>9 DEF BundleHeader, BlankCount, NoTypes, OSCbuf
<1>. HIDE DEF h
<1>. QED  BY <1>4, <1>7, <1>10, <1>11, <1>12 DEF r

LEMMA ClosingChecks ==
  ASSUME ClientAssumption, NEW x \in Buffers, NEW stale,
         OSC_closeBundle(x, stale).err = 0
  PROVE  /\ CheckTypeTag(x, Nul, stale).err = 0
         /\ OSC_closeBundle(x, stale).buf.typeStringPtr = 0
<1>. DEFINE c == CheckTypeTag(x, Nul, stale)
            m == CloseMessage(c.buf)
            p == IF c.buf.bundleDepth = 1 THEN m ELSE PatchBundleSize(m)
            q == [p EXCEPT !.state = IF c.buf.bundleDepth = 1 THEN DONE ELSE NEED_COUNT,
                           !.bundleDepth = @ - 1]
            r == OSC_closeBundle(x, stale)
<1>1. r = IF c.err = 0 THEN [buf |-> NoTypes(q), err |-> 0] ELSE c
  BY DEF OSC_closeBundle, Then, Returns
<1>2. r.err = 0
  OBVIOUS
<1>3. c.buf \in Buffers
  BY CheckedTag
<1>. HIDE DEF c, r
<1>4. m \in Buffers
  BY <1>3, ClosedMessage
<1>. HIDE DEF m
<1>5. PatchBundleSize(m) \in Buffers
  BY <1>4, PatchedBundle
<1>6. p \in OSCbuf
  BY <1>4, <1>5 DEF Buffers
<1>. HIDE DEF p
<1>7. NoTypes(q).typeStringPtr = 0
  BY <1>6 DEF NoTypes, OSCbuf
<1>. HIDE DEF q
<1>. QED  BY <1>1, <1>2, <1>7 DEF r, c

LEMMA AddressChecks ==
  ASSUME ClientAssumption, NEW x \in Buffers, NEW name \in Seq(Byte), NEW stale,
         OSC_writeAddress(x, name, stale).err = 0
  PROVE  /\ CheckTypeTag(x, Nul, stale).err = 0
         /\ OSC_writeAddress(x, name, stale).buf.typeStringPtr = 0
<1>. DEFINE r == OSC_writeAddress(x, name, stale)
            c == CheckTypeTag(x, Nul, stale)
            h == MessageHeader(c.buf, name)
            cs == OSC_padString(name)
            y == [h.buf EXCEPT !.cells = @ \o cs, !.typeStringPtr = 0,
                               !.gettingFirstUntypedArg = TRUE]
<1>1. r = IF c.err = 0 THEN IF h.err = 0 THEN [buf |-> y, err |-> 0] ELSE h ELSE c
  BY DEF OSC_writeAddress, Then, Returns
<1>2. r.err = 0
  OBVIOUS
<1>3. c.buf \in Buffers
  BY CheckedTag
<1>. HIDE DEF c, r
<1>4. h.buf \in Buffers
  BY <1>3, HeaderOfMessage
<1>. HIDE DEF h
<1>5. h.buf \in OSCbuf
  BY <1>4 DEF Buffers
<1>6. y.typeStringPtr = 0
  BY <1>5 DEF OSCbuf
<1>. HIDE DEF y
<1>. QED  BY <1>1, <1>2, <1>6 DEF r, c

(* A typed address: the pointer skips the comma of its types.              *)
LEMMA TypesWritten ==
  ASSUME ClientAssumption, NEW x \in Buffers, NEW name \in Seq(Byte),
         NEW types \in TypeString, NEW stale,
         OSC_writeAddressAndTypes(x, name, types, stale).err = 0
  PROVE  /\ CheckTypeTag(x, Nul, stale).err = 0
         /\ \E k \in Nat : PointerAt(OSC_writeAddressAndTypes(x, name, types, stale).buf, k, types, 1)
<1>. DEFINE r == OSC_writeAddressAndTypes(x, name, types, stale)
            a == OSC_writeAddress(x, name, stale)
            v == a.buf
            cs == OSC_padString(types)
            n == OSC_effectiveStringLength(types)
            ptr == 4 * Len(a.buf.cells) + 2
            y == [a.buf EXCEPT !.cells = @ \o cs, !.typeStringPtr = ptr,
                               !.gettingFirstUntypedArg = FALSE]
<1>1. a.err \in Nat /\ v \in Buffers
  BY WroteAddress
<1>2. r = IF a.err # 0 THEN a
          ELSE IF Overflow(v, n) THEN [buf |-> v, err |-> 1]
          ELSE [buf |-> y, err |-> 0]
  BY <1>1 DEF OSC_writeAddressAndTypes, Then, Returns, Buffers, OSCbuf
<1>3. r.err = 0
  OBVIOUS
<1>4. types \in Seq(Byte) /\ Len(types) \in Nat /\ types # <<>>
  BY TypeStrings
<1>5. cs \in Seq(Cell) /\ Len(cs) = n /\ n \in Nat
  BY <1>4, CellsOfString, CellKinds, SeqMonotonic
<1>6. v \in OSCbuf /\ InBuffer(v)
  BY <1>1 DEF Buffers
<1>7. a.err = 0 => CheckTypeTag(x, Nul, stale).err = 0
  BY AddressChecks
<1>. HIDE DEF a, r, v, cs, n
<1>8. a.err = 0 /\ r.buf = y
  BY <1>2, <1>3
<1>. DEFINE vs == v.cells
            ys == y.cells
            k == Len(vs)
<1>9. ys = vs \o cs /\ y.typeStringPtr = 4 * k + 2 /\ y.outerMostTimeStamp = v.outerMostTimeStamp
  BY <1>6 DEF OSCbuf, v
<1>10. vs \in Seq(Cell) /\ v.outerMostTimeStamp \in Nat /\ DOMAIN vs = 1 .. Len(vs)
       /\ (v.outerMostTimeStamp # 0 => v.outerMostTimeStamp + 1 \in DOMAIN vs)
  BY <1>1, <1>6, FieldsOf DEF InBuffer
<1>. HIDE DEF vs, y
<1>11. k \in Nat
  BY <1>10
<1>12. Len(ys) = k + n /\ \A j \in 1 .. n : ys[k + j] = cs[j]
  <2>. DEFINE all == vs \o cs
  <2>1. Len(all) = Len(vs) + Len(cs)
        /\ \A i \in 1 .. Len(vs) + Len(cs) : all[i] = IF i <= Len(vs) THEN vs[i] ELSE cs[i - Len(vs)]
    BY <1>5, <1>10, ConcatProperties
  <2>2. ys = all
    BY <1>9
  <2>. HIDE DEF all, ys
  <2>3. ASSUME NEW j \in 1 .. n
        PROVE  ys[k + j] = cs[j]
    <3>1. k + j \in 1 .. k + n /\ ~(k + j <= k) /\ (k + j) - k = j
      BY <1>5, <1>11
    <3>. HIDE DEF k, ys
    <3>2. ys[k + j] = IF k + j <= k THEN vs[k + j] ELSE cs[(k + j) - k]
      BY <1>5, <2>1, <2>2, <3>1 DEF k
    <3>. QED  BY <3>1, <3>2
  <2>4. Len(ys) = k + n
    BY <1>5, <2>1, <2>2
  <2>. QED  BY <2>3, <2>4
<1>13. y.outerMostTimeStamp # 0 => y.outerMostTimeStamp < k
  BY <1>9, <1>10, <1>11
<1>14. 1 <= Len(types)
  BY <1>4
<1>15. y.typeStringPtr = 4 * k + 1 + 1
  BY <1>9, <1>11
<1>. HIDE DEF k
<1>16. PointerAt(y, k, types, 1)
  BY <1>5, <1>11, <1>12, <1>13, <1>14, <1>15 DEF PointerAt, cs, n
<1>. QED  BY <1>7, <1>8, <1>11, <1>16 DEF r

(* The typed messages of a client that resets the buffer after an error:   *)
(* all but the current one have the arguments they asked for, and it too   *)
(* when the pointer is null or OSC_closeAllBundles has seen its end.       *)
AllComplete(msgs) == \A i \in 1 .. Len(msgs) : Complete(msgs[i])

AtPointer(x, msgs) ==
    /\ msgs # <<>>
    /\ \A i \in 1 .. Len(msgs) - 1 : Complete(msgs[i])
    /\ \E k \in Nat : TypesAt(x, k, msgs[Len(msgs)])

Typed(x, msgs, closed) ==
    /\ msgs \in Seq(TypedMessage)
    /\ x.state = DONE => x.typeStringPtr = 0
    /\ IF x.typeStringPtr = 0 \/ closed THEN AllComplete(msgs) ELSE AtPointer(x, msgs)

TypedInv == err = 0 => Typed(b, messages, closing)

(* The end of the last message is the end of all.                          *)
LEMMA AllEnded ==
  ASSUME NEW x \in OSCbuf, NEW msgs, NEW closed, Typed(x, msgs, closed), NEW stale,
         CheckTypeTag(x, Nul, stale).err = 0
  PROVE  AllComplete(msgs)
<1>1. CASE x.typeStringPtr = 0 \/ closed
  BY <1>1 DEF Typed
<1>2. CASE ~(x.typeStringPtr = 0 \/ closed)
  <2>1. msgs \in Seq(TypedMessage) /\ AtPointer(x, msgs)
    BY <1>2 DEF Typed
  <2>2. Len(msgs) \in Nat \ {0} /\ Len(msgs) \in 1 .. Len(msgs)
    BY <2>1 DEF AtPointer
  <2>. DEFINE m == msgs[Len(msgs)]
  <2>3. m \in TypedMessage
    BY <2>1, <2>2, ElementOfSeq
  <2>4. PICK k \in Nat : TypesAt(x, k, m)
    BY <2>1 DEF AtPointer
  <2>. HIDE DEF m
  <2>5. Complete(m)
    BY <2>3, <2>4, EndOfTypes
  <2>6. ASSUME NEW i \in 1 .. Len(msgs)
        PROVE  Complete(msgs[i])
    <3>1. CASE i = Len(msgs)
      BY <2>5, <3>1 DEF m
    <3>2. CASE i # Len(msgs)
      <4>1. i \in 1 .. Len(msgs) - 1
        BY <2>2, <3>2
      <4>. QED  BY <2>1, <4>1 DEF AtPointer
    <3>. QED  BY <3>1, <3>2
  <2>. QED  BY <2>6 DEF AllComplete
<1>. QED  BY <1>1, <1>2

LEMMA TypedInit ==
  ASSUME ClientInit
  PROVE  TypedInv
<1>1. b.typeStringPtr = 0 /\ messages = <<>>
  BY DEF ClientInit, Empty
<1>2. messages \in Seq(TypedMessage) /\ Len(messages) = 0
  BY <1>1
<1>. QED  BY <1>1, <1>2 DEF TypedInv, Typed, AllComplete

(* A call that leaves the messages and sets the pointer to null.           *)
LEMMA EndKeeps ==
  ASSUME ClientInv, TypedInv, NEW stale, UNCHANGED messages,
         err' = 0 => /\ err = 0 /\ CheckTypeTag(b, Nul, stale).err = 0
                     /\ b'.typeStringPtr = 0
  PROVE  TypedInv'
<1>. SUFFICES ASSUME err' = 0
              PROVE  Typed(b, messages, closing)'
  BY DEF TypedInv
<1>1. b \in OSCbuf
  BY DEF ClientInv, Buffers
<1>2. Typed(b, messages, closing)
  BY DEF TypedInv
<1>3. AllComplete(messages)
  BY <1>1, <1>2, AllEnded
<1>. QED  BY <1>2, <1>3 DEF Typed, AllComplete

LEMMA OpenBundleTyped ==
  ASSUME ClientAssumption, Careful, ClientInv, TypedInv, NEW tt \in Int, NEW stale,
         OpenBundle(tt, stale)
  PROVE  TypedInv'
<1>1. b \in Buffers
  BY DEF ClientInv
<1>2. b' = OSC_openBundle(b, tt, stale).buf /\ err' = OSC_openBundle(b, tt, stale).err
      /\ UNCHANGED messages /\ err = 0
  BY DEF OpenBundle, Returned, Ready
<1>3. err' = 0 => CheckTypeTag(b, Nul, stale).err = 0 /\ b'.typeStringPtr = 0
  BY <1>1, <1>2, OpeningChecks
<1>. QED  BY <1>2, <1>3, EndKeeps

LEMMA CloseBundleTyped ==
  ASSUME ClientAssumption, Careful, ClientInv, TypedInv, NEW stale, CloseBundle(stale)
  PROVE  TypedInv'
<1>1. b \in Buffers
  BY DEF ClientInv
<1>2. b' = OSC_closeBundle(b, stale).buf /\ err' = OSC_closeBundle(b, stale).err
      /\ UNCHANGED messages /\ err = 0
  BY DEF CloseBundle, Ready
<1>3. err' = 0 => CheckTypeTag(b, Nul, stale).err = 0 /\ b'.typeStringPtr = 0
  BY <1>1, <1>2, ClosingChecks
<1>. QED  BY <1>2, <1>3, EndKeeps

LEMMA WriteAddressTyped ==
  ASSUME ClientAssumption, Careful, ClientInv, TypedInv, NEW name \in Seq(Byte), NEW stale,
         WriteAddress(name, stale)
  PROVE  TypedInv'
<1>1. b \in Buffers
  BY DEF ClientInv
<1>2. b' = OSC_writeAddress(b, name, stale).buf /\ err' = OSC_writeAddress(b, name, stale).err
      /\ UNCHANGED messages /\ err = 0
  BY DEF WriteAddress, Returned, Ready
<1>3. err' = 0 => CheckTypeTag(b, Nul, stale).err = 0 /\ b'.typeStringPtr = 0
  BY <1>1, <1>2, AddressChecks
<1>. QED  BY <1>2, <1>3, EndKeeps

(* OSC_closeAllBundles sees the end of the types before its loop, which    *)
(* looks for it again.                                                     *)
LEMMA CloseAllBundlesTyped ==
  ASSUME ClientAssumption, Careful, ClientInv, TypedInv, NEW stale, CloseAllBundles(stale)
  PROVE  TypedInv'
<1>. SUFFICES ASSUME err' = 0
              PROVE  Typed(b, messages, closing)'
  BY DEF TypedInv
<1>. DEFINE c == CheckTypeTag(b, Nul, stale)
<1>1. b \in OSCbuf /\ err = 0
  BY DEF ClientInv, Buffers, CloseAllBundles, Ready
<1>2. Typed(b, messages, closing)
  BY <1>1 DEF TypedInv
<1>3. c.err = 0 /\ b' = c.buf /\ closing' /\ UNCHANGED messages
  <2>. DEFINE r == IF b.bundleDepth = 0 THEN Returns(b, 6) ELSE c
  <2>1. b' = r.buf /\ err' = r.err /\ closing' = (r.err = 0) /\ UNCHANGED messages
    BY DEF CloseAllBundles
  <2>2. b.bundleDepth # 0
    BY <2>1 DEF Returns
  <2>3. r = c
    BY <2>2
  <2>. HIDE DEF r
  <2>4. r.err = 0
    BY <2>1
  <2>. QED  BY Zenon, <2>1, <2>3, <2>4
<1>4. AllComplete(messages)
  BY <1>1, <1>2, <1>3, AllEnded
<1>5. b'.state = DONE => b'.typeStringPtr = 0
  <2>1. b' \in {b, [b EXCEPT !.typeStringPtr = @ + 1]} /\ (b.typeStringPtr = 0 => b' = b)
    BY <1>3 DEF CheckTypeTag, Returns
  <2>. QED  BY <1>1, <1>2, <2>1 DEF Typed, OSCbuf
<1>. QED  BY <1>2, <1>3, <1>4, <1>5 DEF Typed, AllComplete

LEMMA CloseAllStepTyped ==
  ASSUME ClientAssumption, ClientInv, TypedInv, NEW stale, CloseAllStep(stale)
  PROVE  TypedInv'
<1>. SUFFICES ASSUME err' = 0
              PROVE  Typed(b, messages, closing)'
  BY DEF TypedInv
<1>. DEFINE r == OSC_closeBundle(b, stale)
<1>1. b \in Buffers /\ closing /\ UNCHANGED messages /\ Typed(b, messages, closing)
  BY DEF ClientInv, CloseAllStep, TypedInv
<1>2. AllComplete(messages) /\ messages \in Seq(TypedMessage)
      /\ (b.state = DONE => b.typeStringPtr = 0)
  BY <1>1 DEF Typed
<1>3. CASE b.bundleDepth > 0
  <2>1. b' = r.buf /\ closing'
    BY <1>1, <1>3 DEF CloseAllStep
  <2>2. b' = b \/ b'.typeStringPtr = 0
    BY <1>1, <2>1, ClosedBundle, ClosingChecks
  <2>. QED  BY <1>1, <1>2, <2>1, <2>2 DEF Typed, AllComplete
<1>4. CASE ~(b.bundleDepth > 0)
  <2>1. b' = [b EXCEPT !.typeStringPtr = 0] /\ b \in OSCbuf
    BY <1>1, <1>4 DEF CloseAllStep, Buffers
  <2>2. b'.typeStringPtr = 0
    BY <2>1 DEF OSCbuf
  <2>. QED  BY <1>1, <1>2, <2>2 DEF Typed, AllComplete
<1>. QED  BY <1>3, <1>4

(* A typed message starts with nothing but the comma.                      *)
LEMMA WriteAddressAndTypesTyped ==
  ASSUME ClientAssumption, Careful, ClientInv, TypedInv, NEW name \in Seq(Byte),
         NEW types \in TypeString, NEW stale, WriteAddressAndTypes(name, types, stale)
  PROVE  TypedInv'
<1>. SUFFICES ASSUME err' = 0
              PROVE  Typed(b, messages, closing)'
  BY DEF TypedInv
<1>. DEFINE r == OSC_writeAddressAndTypes(b, name, types, stale)
            comma == ","
            g == <<comma>>
            m == [types |-> types, given |-> g]
            n == Len(messages)
<1>1. b \in Buffers /\ b \in OSCbuf /\ err = 0 /\ ~closing /\ UNCHANGED closing
  BY DEF ClientInv, Buffers, WriteAddressAndTypes, Returned, Ready, Idle
<1>2. Typed(b, messages, closing)
  BY <1>1 DEF TypedInv
<1>3. r.err = 0 /\ b' = r.buf /\ messages' = Append(messages, m)
  BY DEF WriteAddressAndTypes, Returned
<1>4. types \in Seq(Byte) /\ Len(types) \in Nat /\ types # <<>> /\ types[1] = comma
  BY TypeStrings
<1>5. comma \in Byte
  BY DEF Byte
<1>. HIDE DEF comma, r
<1>6. g \in Seq(Byte) /\ Len(g) = 1 /\ g[1] = comma
  BY <1>5
<1>. HIDE DEF g
<1>7. CheckTypeTag(b, Nul, stale).err = 0
      /\ \E k \in Nat : PointerAt(r.buf, k, types, 1)
  BY <1>1, <1>3, <1>4, TypesWritten DEF r
<1>8. AllComplete(messages)
  BY <1>1, <1>2, <1>7, AllEnded
<1>9. PICK k \in Nat : PointerAt(b', k, types, 1)
  BY <1>3, <1>7
<1>10. m \in TypedMessage
  BY <1>6 DEF TypedMessage
<1>11. TypesAt(b', k, m)
  <2>1. m.types = types /\ m.given = g
    OBVIOUS
  <2>. HIDE DEF m
  <2>2. \A i \in 1 .. Len(g) : g[i] = types[i]
    BY <1>4, <1>6
  <2>. QED  BY <1>6, <1>9, <2>1, <2>2 DEF TypesAt
<1>. HIDE DEF m
<1>12. messages \in Seq(TypedMessage) /\ n \in Nat
  BY <1>2 DEF Typed
<1>13. /\ messages' \in Seq(TypedMessage) /\ Len(messages') = n + 1
       /\ messages'[n + 1] = m
       /\ \A i \in 1 .. n : messages'[i] = messages[i]
  BY <1>3, <1>10, <1>12, AppendProperties
<1>14. AtPointer(b', messages')
  <2>1. messages' # <<>>
    BY <1>12, <1>13
  <2>2. \A i \in 1 .. Len(messages') - 1 : Complete(messages'[i])
    BY <1>8, <1>12, <1>13 DEF AllComplete
  <2>. QED  BY <1>11, <1>13, <2>1, <2>2 DEF AtPointer
<1>15. b'.typeStringPtr # 0
  BY <1>9 DEF PointerAt
<1>16. b'.state # DONE
  <2>1. r.buf.state = IF b.state = EMPTY THEN ONE_MSG_ARGS ELSE GET_ARGS
    BY <1>1, <1>3, <1>4, WroteAddressAndTypes DEF r
  <2>. QED  BY <1>3, <2>1
<1>. QED  BY <1>1, <1>13, <1>14, <1>15, <1>16 DEF Typed

(* Arguments are added to the message at the pointer.                      *)
LEMMA ArgumentsTyped ==
  ASSUME Careful, TypedInv, Ready, InMessage, UNCHANGED closing, NEW types \in Seq(Byte),
         Given(types), err' = 0 => b'.state = b.state /\ TakesTypes(b, b', types)
  PROVE  TypedInv'
<1>. SUFFICES ASSUME err' = 0
              PROVE  Typed(b, messages, closing)'
  BY DEF TypedInv
<1>. DEFINE n == Len(messages)
<1>1. ~closing /\ ~closing' /\ Typed(b, messages, closing)
  BY DEF TypedInv, Ready, Idle
<1>2. b'.state = b.state /\ b'.state # DONE /\ TakesTypes(b, b', types)
  BY DEF InMessage
<1>3. messages \in Seq(TypedMessage)
  BY <1>1 DEF Typed
<1>4. CASE b.typeStringPtr = 0
  <2>1. messages' = messages /\ b'.typeStringPtr = 0
    BY <1>2, <1>4 DEF Given, TakesTypes
  <2>. QED  BY <1>1, <1>2, <1>3, <1>4, <2>1 DEF Typed, AllComplete
<1>5. CASE b.typeStringPtr # 0
  <2>. DEFINE m == messages[n]
              l == [m EXCEPT !.given = @ \o types]
  <2>1. AtPointer(b, messages)
    BY <1>1, <1>5 DEF Typed
  <2>2. n \in Nat \ {0} /\ n \in 1 .. n /\ messages # <<>>
    BY <1>3, <2>1 DEF AtPointer
  <2>3. m \in TypedMessage
    BY <1>3, <2>2, ElementOfSeq
  <2>4. PICK k \in Nat : TypesAt(b, k, m)
    BY <2>1 DEF AtPointer
  <2>5. messages' = [messages EXCEPT ![n] = l]
    BY <1>5, <2>2 DEF Given
  <2>. HIDE DEF m
  <2>6. m.types \in TypeString /\ Len(m.given) \in Nat
    BY <2>3, TypedMessages
  <2>7. PointerAt(b, k, m.types, Len(m.given))
    BY <2>4 DEF TypesAt
  <2>8. /\ PointerAt(b', k, m.types, Len(m.given) + Len(types))
        /\ \A i \in 1 .. Len(types) : m.types[Len(m.given) + i] = types[i]
    BY <1>2, <2>6, <2>7 DEF TakesTypes
  <2>9. l \in TypedMessage /\ TypesAt(b', k, l)
    BY <2>3, <2>4, <2>8, GivenTyped
  <2>. HIDE DEF l, n
  <2>10. messages' \in Seq(TypedMessage) /\ Len(messages') = n
         /\ messages'[n] = l /\ \A i \in 1 .. n - 1 : messages'[i] = messages[i]
    <3>1. messages' \in Seq(TypedMessage) /\ Len(messages') = n
      BY <1>3, <2>2, <2>5, <2>9, ExceptSeq DEF n
    <3>2. DOMAIN messages = 1 .. n
      BY <1>3, LenProperties DEF n
    <3>. QED  BY <2>2, <2>5, <3>1, <3>2
  <2>11. messages' # <<>>
    BY <2>2, <2>10
  <2>12. AtPointer(b', messages')
    BY <2>1, <2>2, <2>9, <2>10, <2>11 DEF AtPointer, n
  <2>13. b'.typeStringPtr # 0
    <3>1. b'.typeStringPtr = 4 * k + (Len(m.given) + Len(types)) + 1
      BY <2>8 DEF PointerAt
    <3>2. Len(types) \in Nat
      BY LenProperties
    <3>. DEFINE u == Len(m.given)
                v == Len(types)
    <3>3. b'.typeStringPtr = 4 * k + (u + v) + 1 /\ u \in Nat /\ v \in Nat /\ k \in Nat
      BY <2>4, <2>6, <3>1, <3>2
    <3>. HIDE DEF u, v
    <3>. QED  BY <3>3
  <2>. QED  BY <1>1, <1>2, <2>10, <2>12, <2>13 DEF Typed
<1>. QED  BY <1>4, <1>5

LEMMA WriteIntArgTyped ==
  ASSUME ClientAssumption, Careful, ClientInv, TypedInv, NEW type \in Byte \ {Nul},
         NEW first \in Byte, NEW stale, WriteIntArg(type, first, stale)
  PROVE  TypedInv'
<1>. DEFINE r == OSC_writeIntArg(b, type, first, stale)
            types == <<type>>
<1>1. b \in Buffers
  BY DEF ClientInv
<1>2. b' = r.buf /\ err' = r.err /\ UNCHANGED closing /\ Ready /\ InMessage /\ Given(types)
  BY DEF WriteIntArg, Returned
<1>3. err' = 0 => b'.state = b.state /\ TakesTypes(b, b', types)
  <2>1. type # Nul
    OBVIOUS
  <2>2. b'.state = b.state
    BY <1>1, <1>2, WroteIntArg
  <2>3. r.err = 0 => TakesTypes(b, r.buf, types)
    BY <1>1, <2>1, IntArgTakes
  <2>. HIDE DEF r, types
  <2>. QED  BY <1>2, <2>2, <2>3
<1>4. types \in Seq(Byte)
  OBVIOUS
<1>. HIDE DEF types
<1>. QED  BY <1>2, <1>3, <1>4, ArgumentsTyped

LEMMA WriteFloatArgsTyped ==
  ASSUME ClientAssumption, Careful, ClientInv, TypedInv, NEW firsts \in Seq(Byte), NEW stale,
         WriteFloatArgs(firsts, stale)
  PROVE  TypedInv'
<1>. DEFINE r == OSC_writeFloatArgs(b, firsts, stale)
            f == "f"
            types == [i \in DOMAIN firsts |-> f]
<1>1. b \in Buffers
  BY DEF ClientInv
<1>2. b' = r.buf /\ err' = r.err /\ UNCHANGED closing /\ Ready /\ InMessage /\ Given(types)
  BY DEF WriteFloatArgs, Returned
<1>3. err' = 0 => b'.state = b.state /\ TakesTypes(b, b', types)
  BY <1>1, <1>2, WroteFloatArgs, FloatArgsTake
<1>4. f \in Byte
  BY DEF Byte
<1>. HIDE DEF f
<1>5. types \in Seq(Byte)
  BY <1>4
<1>. HIDE DEF types
<1>. QED  BY <1>2, <1>3, <1>5, ArgumentsTyped

LEMMA WriteStringArgTyped ==
  ASSUME ClientAssumption, Careful, ClientInv, TypedInv, NEW s \in Seq(Byte), NEW stale,
         WriteStringArg(s, stale)
  PROVE  TypedInv'
<1>. DEFINE r == OSC_writeStringArg(b, s, stale)
            t == "s"
            types == <<t>>
<1>1. b \in Buffers
  BY DEF ClientInv
<1>2. b' = r.buf /\ err' = r.err /\ UNCHANGED closing /\ Ready /\ InMessage /\ Given(types)
  BY DEF WriteStringArg, Returned
<1>3. err' = 0 => b'.state = b.state /\ TakesTypes(b, b', types)
  BY <1>1, <1>2, WroteStringArg, StringArgTakes
<1>4. t \in Byte
  BY DEF Byte
<1>. HIDE DEF t
<1>5. types \in Seq(Byte)
  BY <1>4
<1>. HIDE DEF types
<1>. QED  BY <1>2, <1>3, <1>5, ArgumentsTyped

(* The time tag of the packet lies before the type string.                 *)
LEMMA ChangeTimestampTyped ==
  ASSUME ClientAssumption, Careful, ClientInv, TypedInv, NEW tt \in Int, ChangeTimestamp(tt)
  PROVE  TypedInv'
<1>. SUFFICES ASSUME err' = 0
              PROVE  Typed(b, messages, closing)'
  BY DEF TypedInv
<1>. DEFINE word == TimeTag(tt, ~LittleEndian)
            at == b.outerMostTimeStamp
            xs == b.cells
            one == [xs EXCEPT ![at] = word]
            two == [one EXCEPT ![at + 1] = word]
<1>1. b \in Buffers /\ b \in OSCbuf /\ InBuffer(b) /\ UNCHANGED <<messages, closing>> /\ err = 0
  BY DEF ClientInv, Buffers, ChangeTimestamp, Ready
<1>2. Typed(b, messages, closing)
  BY <1>1 DEF TypedInv
<1>3. at # 0 /\ b' = [b EXCEPT !.cells = two]
  <2>1. ChangeOutermostTimestamp(b, tt).err = 0 /\ b' = ChangeOutermostTimestamp(b, tt).buf
    BY DEF ChangeTimestamp
  <2>2. at # 0
    BY <2>1 DEF ChangeOutermostTimestamp, Returns
  <2>. QED  BY <1>1, <2>1, <2>2 DEF ChangeOutermostTimestamp, Returns, OSCbuf
<1>4. b' \in Buffers
  BY <1>1, ChangedTimestamp DEF ChangeTimestamp, ClientAssumption
<1>5. xs \in Seq(Cell) /\ DOMAIN xs = 1 .. Len(xs) /\ Len(xs) \in Nat /\ at \in Nat
  BY <1>1, FieldsOf
<1>6. b'.cells = two /\ b'.typeStringPtr = b.typeStringPtr /\ b'.outerMostTimeStamp = at
      /\ b'.state = b.state
  BY <1>1, <1>3 DEF OSCbuf
<1>7. b' \in OSCbuf
  BY <1>4 DEF Buffers
<1>. HIDE DEF word, at, xs
<1>8. DOMAIN two = 1 .. Len(xs) /\ \A i \in 1 .. Len(xs) : i > at + 1 => two[i] = xs[i]
  BY <1>5
<1>9. two \in Seq(Cell)
  BY <1>6, <1>7 DEF OSCbuf
<1>10. Len(two) = Len(xs)
  BY <1>5, <1>8, <1>9, LenProperties
<1>. HIDE DEF two
<1>11. ASSUME NEW k \in Nat, NEW m \in TypedMessage, TypesAt(b, k, m)
       PROVE  TypesAt(b', k, m)
  <2>1. PointerAt(b, k, m.types, Len(m.given)) /\ m.types \in TypeString /\ Len(m.given) \in Nat
    BY <1>11, TypedMessages DEF TypesAt
  <2>2. at < k
    BY <1>3, <2>1 DEF PointerAt, at
  <2>3. \A i \in k + 1 .. Len(xs) : two[i] = xs[i]
    BY <1>5, <1>8, <2>2
  <2>4. Len(b'.cells) >= Len(b.cells)
        /\ \A i \in k + 1 .. Len(b.cells) : b'.cells[i] = b.cells[i]
    BY <1>5, <1>6, <1>10, <2>3 DEF xs
  <2>5. b'.outerMostTimeStamp = b.outerMostTimeStamp
    BY <1>6 DEF at
  <2>6. PointerAt(b', k, m.types, Len(m.given))
    BY <1>1, <1>6, <1>7, <2>1, <2>4, <2>5, PointerStays
  <2>. QED  BY <1>11, <2>6 DEF TypesAt
<1>12. AtPointer(b, messages) /\ messages \in Seq(TypedMessage) => AtPointer(b', messages)
  <2>. SUFFICES ASSUME AtPointer(b, messages), messages \in Seq(TypedMessage)
                PROVE  AtPointer(b', messages)
    OBVIOUS
  <2>1. Len(messages) \in 1 .. Len(messages)
    BY DEF AtPointer
  <2>2. messages[Len(messages)] \in TypedMessage
    BY <2>1, ElementOfSeq
  <2>. QED  BY <1>11, <2>2 DEF AtPointer
<1>. QED  BY <1>1, <1>2, <1>6, <1>12 DEF Typed, AllComplete

LEMMA ResetBufferTyped ==
  ASSUME ResetBuffer
  PROVE  TypedInv'
<1>1. b'.typeStringPtr = 0 /\ messages' = <<>>
  BY DEF ResetBuffer, OSC_resetBuffer, Empty
<1>2. messages' \in Seq(TypedMessage) /\ Len(messages') = 0
  BY <1>1
<1>. QED  BY <1>1, <1>2 DEF TypedInv, Typed, AllComplete

LEMMA TypesOfArguments ==
  ASSUME ArgumentsAssumption
  PROVE  Types \subseteq TypeString /\ {"i", "f"} \subseteq Byte \ {Nul}
<1>1. {"i", "f"} \subseteq Byte \ {Nul}
  BY DEF Byte, Nul
<1>2. ASSUME NEW t \in Types
      PROVE  t \in TypeString
  <2>1. t \in Seq(Byte)
    BY Arguments
  <2>2. t # <<>> /\ t[1] = "," /\ \A i \in DOMAIN t : t[i] # Nul
    BY DEF ArgumentsAssumption
  <2>3. DOMAIN t = 1 .. Len(t)
    BY <2>1, LenProperties
  <2>. QED  BY <2>1, <2>2, <2>3 DEF TypeString
<1>. QED  BY <1>1, <1>2

LEMMA TypedKeeps ==
  ASSUME ClientAssumption, ArgumentsAssumption, Careful, ClientInv, TypedInv, [ClientNext]_clientVars
  PROVE  TypedInv'
<1>1. ASSUME UNCHANGED clientVars
      PROVE  TypedInv'
  BY <1>1 DEF clientVars, TypedInv, Typed, AllComplete, AtPointer
<1>. SUFFICES ASSUME ClientNext
              PROVE  TypedInv'
  BY <1>1
<1>2. ASSUME NEW stale, NEW tt \in Times, OpenBundle(tt, stale)
      PROVE  TypedInv'
  BY <1>2, OpenBundleTyped, Arguments
<1>3. ASSUME NEW stale, NEW name \in Names, WriteAddress(name, stale)
      PROVE  TypedInv'
  BY <1>3, WriteAddressTyped, Arguments
<1>4. ASSUME NEW stale, NEW name \in Names, NEW types \in Types,
             WriteAddressAndTypes(name, types, stale)
      PROVE  TypedInv'
  BY <1>4, WriteAddressAndTypesTyped, Arguments, TypesOfArguments
<1>5. ASSUME NEW stale, NEW first \in Firsts, NEW type \in {"i", "f"},
             WriteIntArg(type, first, stale)
      PROVE  TypedInv'
  BY <1>5, WriteIntArgTyped, Arguments, TypesOfArguments
<1>6. ASSUME NEW stale, NEW firsts \in FloatLists, WriteFloatArgs(firsts, stale)
      PROVE  TypedInv'
  BY <1>6, WriteFloatArgsTyped, Arguments
<1>7. ASSUME NEW stale, NEW s \in Strings, WriteStringArg(s, stale)
      PROVE  TypedInv'
  BY <1>7, WriteStringArgTyped, Arguments
<1>8. ASSUME NEW tt \in Times, ChangeTimestamp(tt)
      PROVE  TypedInv'
  BY <1>8, ChangeTimestampTyped, Arguments
<1>. QED  BY <1>2, <1>3, <1>4, <1>5, <1>6, <1>7, <1>8, CloseBundleTyped,
             CloseAllBundlesTyped, CloseAllStepTyped, ResetBufferTyped DEF ClientNext

(* A finished bundle of a client that resets the buffer after an error     *)
(* holds no typed message that lacks an argument or has one of another     *)
(* type (CheckTypeTag).                                                    *)
THEOREM BundlesKeepTheirTypesTheorem ==
  ClientAssumption /\ ArgumentsAssumption /\ Careful => (ClientSpec => []BundlesKeepTheirTypes)
<1>. SUFFICES ASSUME ClientAssumption, ArgumentsAssumption, Careful
              PROVE  ClientSpec => []BundlesKeepTheirTypes
  OBVIOUS
<1>1. ClientInit => TypedInv
  BY TypedInit
<1>2. ClientInv /\ TypedInv /\ [ClientNext]_clientVars => TypedInv'
  BY TypedKeeps
<1>3. TypedInv => BundlesKeepTheirTypes
  <2>. SUFFICES ASSUME TypedInv, b.state = DONE, err = 0
                PROVE  \A i \in DOMAIN messages : messages[i].given = messages[i].types
    BY DEF BundlesKeepTheirTypes
  <2>1. messages \in Seq(TypedMessage) /\ AllComplete(messages)
    BY DEF TypedInv, Typed
  <2>2. DOMAIN messages = 1 .. Len(messages)
    BY <2>1, LenProperties
  <2>. QED  BY <2>1, <2>2 DEF AllComplete, Complete
<1>. QED  BY <1>1, <1>2, <1>3, ClientInvHolds, PTL DEF ClientSpec

-----------------------------------------------------------------------------
(* sendOSC.                                                                *)
CONSTANTS UseTypeTags, MAX_ARGS, Messages, Play, CommandLines, None, Interactive, MaxLines
VARIABLES buf, bundleDepth, opened, status, args, sent, typed, dropped, lines

S == INSTANCE SendOSC

(* It is linked with the same library.                                     *)
LEMMA SameValues ==
  /\ S!EMPTY = EMPTY /\ S!ONE_MSG_ARGS = ONE_MSG_ARGS /\ S!NEED_COUNT = NEED_COUNT
  /\ S!GET_ARGS = GET_ARGS /\ S!DONE = DONE /\ S!Empty = Empty
  /\ S!ClientAssumption = ClientAssumption
BY DEF S!EMPTY, S!ONE_MSG_ARGS, S!NEED_COUNT, S!GET_ARGS, S!DONE, S!Empty, Empty,
       S!Unset, Unset, S!ClientAssumption, ClientAssumption

LEMMA SameStrings ==
  ASSUME NEW s
  PROVE  /\ S!OSC_effectiveStringLength(s) = OSC_effectiveStringLength(s)
         /\ S!OSC_padString(s) = OSC_padString(s)
         /\ S!OSC_padStringWithAnExtraStupidComma(s) = OSC_padStringWithAnExtraStupidComma(s)
BY DEF S!OSC_effectiveStringLength, OSC_effectiveStringLength, S!OSC_padString,
       OSC_padString, S!OSC_padStringWithAnExtraStupidComma,
       OSC_padStringWithAnExtraStupidComma, S!Text, Text, S!Nul, Nul

LEMMA SameTests ==
  ASSUME NEW x
  PROVE  /\ S!InBuffer(x) = InBuffer(x) /\ S!Stray(x) = Stray(x)
         /\ S!OSC_resetBuffer(x) = OSC_resetBuffer(x)
BY SameValues DEF S!InBuffer, InBuffer, S!Stray, Stray, S!OSC_resetBuffer, OSC_resetBuffer,
       S!GET_ARGS, S!Unset, Unset

LEMMA SameCheck ==
  ASSUME NEW x, NEW expected, NEW stale
  PROVE  S!CheckTypeTag(x, expected, stale) = CheckTypeTag(x, expected, stale)
BY DEF S!CheckTypeTag, CheckTypeTag, S!Returns, Returns, TypeByte, S!TypeByte

LEMMA SameOpen ==
  ASSUME NEW x, NEW tt, NEW stale
  PROVE  S!OSC_openBundle(x, tt, stale) = OSC_openBundle(x, tt, stale)
BY DEF S!OSC_openBundle, OSC_openBundle, S!CheckTypeTag, CheckTypeTag, S!Returns, Returns,
       TypeByte, S!TypeByte, S!Then, Then, S!OpenBundleHeader, OpenBundleHeader, S!Overflow,
       Overflow, S!BundleHeader, BundleHeader, S!BlankCount, BlankCount, S!CloseMessage,
       CloseMessage, PatchMessageSize, S!PatchMessageSize, NoTypes, S!NoTypes, S!Nul, Nul,
       S!Blank, Blank, S!Count, Count, TimeTag, S!TimeTag, BundleName, S!BundleName,
       OSC_padString, S!OSC_padString, S!OSC_effectiveStringLength,
       OSC_effectiveStringLength, S!OSC_freeSpaceInBuffer, OSC_freeSpaceInBuffer, Text,
       S!Text, S!EMPTY, S!NEED_COUNT, S!DONE, S!ONE_MSG_ARGS, S!GET_ARGS

LEMMA SameClose ==
  ASSUME NEW x, NEW stale
  PROVE  S!OSC_closeBundle(x, stale) = OSC_closeBundle(x, stale)
BY DEF S!OSC_closeBundle, OSC_closeBundle, S!CheckTypeTag, CheckTypeTag, S!Returns, Returns,
       TypeByte, S!TypeByte, S!Then, Then, S!CloseMessage, CloseMessage, PatchMessageSize,
       S!PatchMessageSize, NoTypes, S!NoTypes, S!Nul, Nul, S!Count, Count,
       S!PatchBundleSize, PatchBundleSize, S!Stray, Stray, S!Unset, Unset,
       S!NEED_COUNT, S!DONE, S!GET_ARGS

LEMMA SameAddress ==
  ASSUME NEW x, NEW name, NEW stale
  PROVE  S!OSC_writeAddress(x, name, stale) = OSC_writeAddress(x, name, stale)
BY DEF S!OSC_writeAddress, OSC_writeAddress, S!CheckTypeTag, CheckTypeTag, S!Returns, Returns,
       TypeByte, S!TypeByte, S!Then, Then, S!MessageHeader, MessageHeader, S!Overflow,
       Overflow, S!CloseMessage, CloseMessage, PatchMessageSize, S!PatchMessageSize, S!Nul,
       Nul, S!Blank, Blank, S!Count, Count, OSC_padString, S!OSC_padString,
       S!OSC_effectiveStringLength, OSC_effectiveStringLength, S!OSC_freeSpaceInBuffer,
       OSC_freeSpaceInBuffer, Text, S!Text, S!EMPTY, S!DONE, S!ONE_MSG_ARGS, S!GET_ARGS

LEMMA SameAddressAndTypes ==
  ASSUME NEW x, NEW name, NEW types, NEW stale
  PROVE  S!OSC_writeAddressAndTypes(x, name, types, stale) =
           OSC_writeAddressAndTypes(x, name, types, stale)
BY DEF S!OSC_writeAddressAndTypes, OSC_writeAddressAndTypes, S!OSC_writeAddress,
       OSC_writeAddress, S!MessageHeader, MessageHeader, S!CloseMessage, CloseMessage,
       PatchMessageSize, S!PatchMessageSize, S!Blank, Blank, S!Count, Count,
       S!EMPTY, S!DONE, S!ONE_MSG_ARGS, S!GET_ARGS,
       S!CheckTypeTag, CheckTypeTag, S!Returns, Returns,
       TypeByte, S!TypeByte, S!Then, Then, S!Overflow, Overflow, OSC_padString,
       S!OSC_padString, S!OSC_effectiveStringLength, OSC_effectiveStringLength,
       S!OSC_freeSpaceInBuffer, OSC_freeSpaceInBuffer, Text, S!Text, S!Nul, Nul

LEMMA SameArguments ==
  ASSUME NEW x, NEW type, NEW first, NEW s, NEW stale
  PROVE  /\ S!OSC_writeIntArg(x, type, first, stale) = OSC_writeIntArg(x, type, first, stale)
         /\ S!OSC_writeStringArg(x, s, stale) = OSC_writeStringArg(x, s, stale)
BY DEF S!OSC_writeIntArg, OSC_writeIntArg, S!OSC_writeStringArg, OSC_writeStringArg,
       S!WriteCells, WriteCells, S!Word, Word, S!OSC_padStringWithAnExtraStupidComma,
       OSC_padStringWithAnExtraStupidComma,
       S!CheckTypeTag, CheckTypeTag, S!Returns, Returns,
       TypeByte, S!TypeByte, S!Then, Then, S!Overflow, Overflow, OSC_padString,
       S!OSC_padString, S!OSC_effectiveStringLength, OSC_effectiveStringLength,
       S!OSC_freeSpaceInBuffer, OSC_freeSpaceInBuffer, Text, S!Text, S!Nul, Nul

LEMMA Records ==
  ASSUME NEW x, NEW name, NEW types, NEW type, NEW first, NEW s, NEW stale,
         NEW r, r \in {OSC_writeAddress(x, name, stale),
                       OSC_writeAddressAndTypes(x, name, types, stale),
                       OSC_writeIntArg(x, type, first, stale),
                       OSC_writeStringArg(x, s, stale)}
  PROVE  r = [buf |-> r.buf, err |-> r.err]
<1>. DEFINE Record(q) == q = [buf |-> q.buf, err |-> q.err]
<1>1. \A y, e : Record(Returns(y, e))
  BY DEF Returns
<1>2. \A y, e : Record(CheckTypeTag(y, e, stale))
  BY DEF Returns, CheckTypeTag
<1>3. \A y : Record(MessageHeader(y, name))
  BY DEF Returns, MessageHeader
<1>. HIDE DEF Record
<1>4. Record(OSC_writeAddress(x, name, stale))
  BY <1>1, <1>2, <1>3 DEF OSC_writeAddress, Then
<1>5. Record(OSC_writeAddressAndTypes(x, name, types, stale))
  BY <1>1, <1>4 DEF OSC_writeAddressAndTypes, Then
<1>6. Record(OSC_writeIntArg(x, type, first, stale))
  BY <1>1, <1>2 DEF OSC_writeIntArg, Then
<1>7. Record(OSC_writeStringArg(x, s, stale))
  BY <1>1, <1>2 DEF OSC_writeStringArg, Then
<1>8. Record(r)
  BY <1>4, <1>5, <1>6, <1>7
<1>. QED  BY <1>8 DEF Record

Results(x) == [buf : {y \in Buffers : Kept(x, y) /\ y.state = x.state}, err : Nat]

LEMMA ArgumentStrings ==
  ASSUME NEW a \in S!Argument
  PROVE  /\ a.type \in {"i", "f", "s"}
         /\ a.type = "s" => a.string \in Seq(Byte)
         /\ a.type # "s" => a.first \in Byte
<1>1. STRING \subseteq Byte
  BY DEF Byte
<1>2. \A t \in Seq(STRING) : t \in Seq(Byte)
  BY <1>1, SeqMonotonic
<1>3. CASE a \in [type : {"i", "f"}, first : STRING]
  BY <1>1, <1>3
<1>4. CASE a \in [type : {"s"}, string : Seq(STRING)]
  BY <1>2, <1>4
<1>. QED  BY <1>3, <1>4 DEF S!Argument

LEMMA WroteArg ==
  ASSUME ClientAssumption, NEW x \in Buffers, NEW a \in S!Argument, NEW stale
  PROVE  S!WriteArg(x, a, stale) \in Results(x)
<1>. DEFINE r == S!WriteArg(x, a, stale)
<1>1. CASE a.type = "s"
  <2>1. r = OSC_writeStringArg(x, a.string, stale)
    BY <1>1, SameArguments DEF S!WriteArg
  <2>2. a.string \in Seq(Byte)
    BY <1>1, ArgumentStrings
  <2>3. r.err \in Nat /\ r.buf \in Buffers /\ Kept(x, r.buf) /\ r.buf.state = x.state
    BY <2>1, <2>2, WroteStringArg
  <2>4. r = [buf |-> r.buf, err |-> r.err]
    BY <2>1, Records
  <2>. HIDE DEF r
  <2>5. r \in Results(x)
    BY <2>3, <2>4 DEF Results
  <2>. QED  BY <2>5 DEF r
<1>2. CASE a.type # "s"
  <2>1. r = OSC_writeIntArg(x, a.type, a.first, stale)
    BY <1>2, SameArguments DEF S!WriteArg
  <2>2. a.first \in Byte
    BY <1>2, ArgumentStrings
  <2>3. r.err \in Nat /\ r.buf \in Buffers /\ Kept(x, r.buf) /\ r.buf.state = x.state
    BY <2>1, <2>2, WroteIntArg
  <2>4. r = [buf |-> r.buf, err |-> r.err]
    BY <2>1, Records
  <2>. HIDE DEF r
  <2>5. r \in Results(x)
    BY <2>3, <2>4 DEF Results
  <2>. QED  BY <2>5 DEF r
<1>. QED  BY <1>1, <1>2

LEMMA TagsOfMessage ==
  ASSUME NEW m \in S!Message
  PROVE  /\ S!TypeTags(m) \in Seq(Byte) /\ m.name \in Seq(Byte)
         /\ Len(m.args) \in Nat
         /\ \A i \in 1 .. Len(m.args) : m.args[i] \in S!Argument
<1>1. STRING \subseteq Byte
  BY DEF Byte
<1>2. m.name \in Seq(STRING) /\ m.args \in Seq(S!Argument)
  BY DEF S!Message
<1>3. m.name \in Seq(Byte)
  BY <1>1, <1>2, SeqMonotonic
<1>. DEFINE list == m.args
            tags == [i \in DOMAIN list |-> list[i].type]
            c == ","
<1>. HIDE DEF list
<1>4. Len(list) \in Nat /\ DOMAIN list = 1 .. Len(list)
        /\ \A i \in 1 .. Len(list) : list[i] \in S!Argument
  BY <1>2, LenProperties, ElementOfSeq DEF list
<1>5. tags \in Seq(Byte)
  <2>1. \A i \in 1 .. Len(list) : list[i].type \in Byte
    BY <1>4, ArgumentStrings DEF Byte
  <2>2. tags \in [1 .. Len(list) -> Byte]
    BY <1>4, <2>1
  <2>. HIDE DEF tags
  <2>. QED  BY <1>4, <2>2, SeqDef
<1>6. c \in Byte
  BY DEF Byte
<1>7. S!TypeTags(m) = <<c>> \o tags
  BY DEF S!TypeTags, list
<1>. HIDE DEF c, tags
<1>8. <<c>> \in Seq(Byte)
  BY <1>6
<1>9. <<c>> \o tags \in Seq(Byte)
  BY <1>5, <1>8, ConcatProperties
<1>. QED  BY <1>3, <1>4, <1>7, <1>9 DEF list

LEMMA WroteMessage ==
  ASSUME ClientAssumption, NEW x \in Buffers, NEW m \in S!Message, NEW stale
  PROVE  LET w == S!WriteMessage(x, m, stale)
         IN  /\ w.buf \in Buffers /\ w.short \in BOOLEAN /\ Kept(x, w.buf)
             /\ ~w.short =>
                  /\ x.state \notin {ONE_MSG_ARGS, DONE}
                  /\ w.buf.state = IF x.state = EMPTY THEN ONE_MSG_ARGS ELSE GET_ARGS
                  /\ Nested(x) => Nested(w.buf)
<1>. DEFINE w == S!WriteMessage(x, m, stale)
            address == IF UseTypeTags
                       THEN S!OSC_writeAddressAndTypes(x, m.name, S!TypeTags(m), stale)
                       ELSE S!OSC_writeAddress(x, m.name, stale)
            n == Len(m.args)
            One(r, k) == IF r.err = 0 THEN S!WriteArg(r.buf, m.args[k], stale) ELSE r
            base == [address EXCEPT !.err = 0]
            Loop(g) == g = [k \in 0 .. n |-> IF k = 0 THEN base ELSE One(g[k - 1], k)]
            upTo == CHOOSE g : Loop(g)
            R == Results(address.buf)
<1>1. w = [buf |-> upTo[n].buf, short |-> address.err # 0 \/ upTo[n].err # 0]
  BY DEF S!WriteMessage, S!Then
<1>2. n \in Nat /\ m.name \in Seq(Byte) /\ S!TypeTags(m) \in Seq(Byte)
        /\ \A i \in 1 .. n : m.args[i] \in S!Argument
  BY TagsOfMessage
<1>3. /\ address.err \in Nat /\ address.buf \in Buffers /\ Kept(x, address.buf)
      /\ address = [buf |-> address.buf, err |-> address.err]
      /\ address.err = 0 =>
           /\ x.state \notin {ONE_MSG_ARGS, DONE}
           /\ address.buf.state = IF x.state = EMPTY THEN ONE_MSG_ARGS ELSE GET_ARGS
           /\ Nested(x) => Nested(address.buf)
  <2>1. CASE UseTypeTags
    <3>. DEFINE a == OSC_writeAddressAndTypes(x, m.name, S!TypeTags(m), stale)
    <3>1. address = a
      BY <2>1, SameAddressAndTypes
    <3>. HIDE DEF address
    <3>2. /\ a.err \in Nat /\ a.buf \in Buffers /\ Kept(x, a.buf)
          /\ a.err = 0 =>
               /\ x.state \notin {ONE_MSG_ARGS, DONE}
               /\ a.buf.state = IF x.state = EMPTY THEN ONE_MSG_ARGS ELSE GET_ARGS
               /\ Nested(x) => Nested(a.buf)
      BY <1>2, WroteAddressAndTypes
    <3>3. a = [buf |-> a.buf, err |-> a.err]
      BY Records
    <3>. HIDE DEF a
    <3>. QED  BY <3>1, <3>2, <3>3
  <2>2. CASE ~UseTypeTags
    <3>. DEFINE a == OSC_writeAddress(x, m.name, stale)
    <3>1. address = a
      BY <2>2, SameAddress
    <3>. HIDE DEF address
    <3>2. /\ a.err \in Nat /\ a.buf \in Buffers /\ Kept(x, a.buf)
          /\ a.err = 0 =>
               /\ x.state \notin {ONE_MSG_ARGS, DONE}
               /\ a.buf.state = IF x.state = EMPTY THEN ONE_MSG_ARGS ELSE GET_ARGS
               /\ Nested(x) => Nested(a.buf)
      BY <1>2, WroteAddress
    <3>3. a = [buf |-> a.buf, err |-> a.err]
      BY Records
    <3>. HIDE DEF a
    <3>. QED  BY <3>1, <3>2, <3>3
  <2>. QED  BY <2>1, <2>2
<1>. HIDE DEF address
<1>4. base \in R
  BY <1>3 DEF Results, Kept
<1>5. ASSUME NEW k \in 1 .. n, NEW r \in R
      PROVE  One(r, k) \in R
  <2>1. r.buf \in Buffers /\ Kept(address.buf, r.buf) /\ r.buf.state = address.buf.state
    BY DEF Results
  <2>2. S!WriteArg(r.buf, m.args[k], stale) \in Results(r.buf)
    BY <1>2, <2>1, WroteArg
  <2>3. Results(r.buf) \subseteq R
    BY <2>1 DEF Results, Kept
  <2>. QED  BY <2>2, <2>3
<1>. HIDE DEF R, base, One, n, w
<1>6. Loop(upTo)
  <2>. DEFINE step == [k \in 1 .. n |-> [r \in R |-> One(r, k)]]
  <2>1. step \in [1 .. n -> [R -> R]]
    BY <1>5
  <2>. HIDE DEF step
  <2>2. PICK g \in [0 .. n -> R] : GoesOn(g, n, base, step)
    BY <1>2, <1>4, <2>1, Recursion
  <2>3. \A k \in 1 .. n : g[k] = One(g[k - 1], k)
    <3>1. ASSUME NEW k \in 1 .. n
          PROVE  g[k - 1] \in R
      <4>1. k - 1 \in 0 .. n
        BY <1>2
      <4>. QED  BY <2>2, <4>1
    <3>. QED  BY <2>2, <3>1 DEF step, GoesOn
  <2>4. Loop(g)
    BY <2>2, <2>3 DEF GoesOn
  <2>. HIDE DEF Loop
  <2>. QED  BY <2>4
<1>7. upTo[0] = base /\ \A k \in 1 .. n : upTo[k] = One(upTo[k - 1], k)
  <2>. HIDE DEF upTo
  <2>. QED  BY <1>2, <1>6
<1>. HIDE DEF upTo, Loop
<1>8. upTo[n] \in R
  <2>. DEFINE T == {k \in 0 .. n : upTo[k] \in R}
  <2>1. 0 \in T
    BY <1>2, <1>4, <1>7
  <2>2. \A k \in 1 .. n : k - 1 \in T => k \in T
    BY <1>5, <1>7
  <2>. HIDE DEF T
  <2>3. n \in 0 .. n
    BY <1>2
  <2>4. n \in T
    BY <1>2, <2>1, <2>2, <2>3, Upwards
  <2>. QED  BY <2>4 DEF T
<1>. DEFINE y == upTo[n].buf
<1>9. y \in Buffers /\ Kept(address.buf, y) /\ y.state = address.buf.state
  BY <1>8 DEF R, Results
<1>10. Nested(address.buf) => Nested(y)
  BY <1>9, KeptNested
<1>11. w.buf = y /\ w.short \in BOOLEAN /\ (~w.short => address.err = 0)
  BY <1>1
<1>. HIDE DEF y
<1>12. /\ w.buf \in Buffers /\ w.short \in BOOLEAN /\ Kept(x, w.buf)
       /\ ~w.short =>
            /\ x.state \notin {ONE_MSG_ARGS, DONE}
            /\ w.buf.state = IF x.state = EMPTY THEN ONE_MSG_ARGS ELSE GET_ARGS
            /\ Nested(x) => Nested(w.buf)
  BY <1>3, <1>9, <1>10, <1>11 DEF Kept
<1>. QED  BY <1>12 DEF w

(* A packet with depth bundles open, after calls that all succeeded.       *)
Fine(x, depth) ==
    /\ Nested(x) /\ x.bundleDepth = depth
    /\ x.state = EMPTY => x.cells = <<>>

(* The brackets that InteractiveMode counts are those of the packet, until *)
(* something did not fit.                                                  *)
SendInv ==
    /\ buf \in Buffers /\ bundleDepth \in Nat
    /\ args \in Seq(S!Message \union {None}) \union {Interactive}
    /\ ~dropped => Fine(buf, bundleDepth)
    /\ ~opened => ~dropped
    /\ args \notin {Interactive, <<>>} => buf = Empty /\ bundleDepth = 0
    /\ S!NeverUnfinished

LEMMA FineOpen ==
  ASSUME ClientAssumption, NEW x \in Buffers, NEW tt \in Int, NEW stale, NEW d,
         Fine(x, d), S!OSC_openBundle(x, tt, stale).err = 0
  PROVE  Fine(S!OSC_openBundle(x, tt, stale).buf, d + 1)
<1>. DEFINE r == OSC_openBundle(x, tt, stale)
<1>1. r.err = 0
  BY SameOpen
<1>2. /\ r.err \in Nat /\ r.buf \in Buffers
      /\ r.err = 0 =>
           /\ r.buf.state = NEED_COUNT /\ r.buf.bundleDepth = x.bundleDepth + 1
           /\ Nested(x) => Nested(r.buf)
  BY OpenedBundle
<1>. HIDE DEF r
<1>3. Fine(r.buf, d + 1)
  BY <1>1, <1>2 DEF Fine
<1>. QED  BY <1>3, SameOpen DEF r

LEMMA FineClose ==
  ASSUME ClientAssumption, NEW x \in Buffers, NEW stale, NEW d,
         Fine(x, d), S!OSC_closeBundle(x, stale).err = 0
  PROVE  Fine(S!OSC_closeBundle(x, stale).buf, d - 1) /\ d > 0
<1>. DEFINE r == OSC_closeBundle(x, stale)
<1>1. r.err = 0
  BY SameClose
<1>2. /\ r.err \in Nat /\ r.buf \in Buffers
      /\ r.err = 0 =>
           /\ x.bundleDepth > 0
           /\ r.buf.state = IF x.bundleDepth = 1 THEN DONE ELSE NEED_COUNT
           /\ r.buf.bundleDepth = x.bundleDepth - 1
           /\ Nested(x) => Nested(r.buf)
  BY ClosedBundle
<1>. HIDE DEF r
<1>3. Fine(r.buf, d - 1) /\ d > 0
  BY <1>1, <1>2 DEF Fine
<1>. QED  BY <1>3, SameClose DEF r

LEMMA FineMessage ==
  ASSUME ClientAssumption, NEW x \in Buffers, NEW m \in S!Message, NEW stale, NEW d,
         Fine(x, d), ~S!WriteMessage(x, m, stale).short
  PROVE  Fine(S!WriteMessage(x, m, stale).buf, d)
<1>. DEFINE w == S!WriteMessage(x, m, stale)
<1>1. /\ Kept(x, w.buf)
      /\ ~w.short => /\ w.buf.state = IF x.state = EMPTY THEN ONE_MSG_ARGS ELSE GET_ARGS
                     /\ Nested(x) => Nested(w.buf)
  BY WroteMessage
<1>. HIDE DEF w
<1>2. Fine(w.buf, d)
  BY <1>1 DEF Fine, Kept, w
<1>. QED  BY <1>2 DEF w

(* All results are OSCbufs, those of calls that failed too.                *)
LEMMA InBuffers ==
  ASSUME ClientAssumption, NEW x \in Buffers, NEW tt \in Int, NEW m \in S!Message, NEW stale
  PROVE  /\ S!OSC_openBundle(x, tt, stale).buf \in Buffers
         /\ S!OSC_closeBundle(x, stale).buf \in Buffers
         /\ S!WriteMessage(x, m, stale).buf \in Buffers
         /\ S!WriteMessage(x, m, stale).short \in BOOLEAN
         /\ S!OSC_resetBuffer(x) \in Buffers
<1>1. OSC_openBundle(x, tt, stale).buf \in Buffers
  BY OpenedBundle
<1>2. OSC_closeBundle(x, stale).buf \in Buffers
  BY ClosedBundle
<1>3. /\ S!WriteMessage(x, m, stale).buf \in Buffers
      /\ S!WriteMessage(x, m, stale).short \in BOOLEAN
  BY WroteMessage
<1>4. OSC_resetBuffer(x) \in Buffers
  BY Emptied
<1>. QED  BY <1>1, <1>2, <1>3, <1>4, SameOpen, SameClose, SameTests

LEMMA FineReset ==
  ASSUME ClientAssumption, NEW x \in Buffers
  PROVE  Fine(S!OSC_resetBuffer(x), 0)
<1>1. /\ Nested(OSC_resetBuffer(x)) /\ OSC_resetBuffer(x).cells = <<>>
      /\ OSC_resetBuffer(x).bundleDepth = 0
  BY Emptied
<1>. QED  BY <1>1, SameTests DEF Fine

LEMMA FineEmpty ==
  ASSUME ClientAssumption
  PROVE  Empty \in Buffers /\ Fine(Empty, 0)
<1>1. Empty.cells = <<>> /\ Empty.bundleDepth = 0
  BY DEF Empty
<1>. QED  BY <1>1, EmptyBuffer DEF Fine

LEMMA FreshFine ==
  ASSUME ClientAssumption, SendInv
  PROVE  /\ S!Fresh \in Buffers
         /\ ~dropped => Fine(S!Fresh, bundleDepth)
<1>1. buf \in Buffers /\ (~dropped => Fine(buf, bundleDepth))
  BY DEF SendInv
<1>2. S!OSC_resetBuffer(buf) \in Buffers /\ Fine(S!OSC_resetBuffer(buf), 0)
  BY <1>1, FineReset, SameTests, Emptied
<1>. QED  BY <1>1, <1>2 DEF S!Fresh

(* A packet without open bundles is empty or finished: SendBuffer sends it *)
(* or does nothing, and only sendto can fail.                              *)
LEMMA Sending ==
  ASSUME NEW x \in Buffers, Fine(x, 0), S!SendBuffer(x)
  PROVE  status' \in {status, 3}
<1>1. x.state \in States
  BY FieldsOf
<1>2. S!OSC_isBufferEmpty(x) \/ S!OSC_isBufferDone(x)
  BY <1>1, SameValues
     DEF Fine, Nested, States, S!OSC_isBufferEmpty, S!OSC_isBufferDone
<1>. QED  BY <1>2 DEF S!SendBuffer

LEMMA FineNotStray ==
  ASSUME ClientAssumption, NEW x \in Buffers, NEW d, Fine(x, d)
  PROVE  ~S!Stray(x)
BY NestedNotStray, SameTests DEF Fine

LEMMA CutMessage ==
  ASSUME S!InputAssumption, NEW m \in S!Message
  PROVE  S!Cut(m) \in S!Message
<1>. DEFINE list == m.args
            l == Len(list)
            k == IF l > MAX_ARGS THEN MAX_ARGS ELSE l
<1>1. list \in Seq(S!Argument)
  BY DEF S!Message
<1>2. S!Cut(m) = [m EXCEPT !.args = SubSeq(list, 1, k)]
  BY DEF S!Cut
<1>. HIDE DEF list
<1>3. l \in Nat /\ \A i \in 1 .. l : list[i] \in S!Argument
  BY <1>1, LenProperties, ElementOfSeq
<1>. HIDE DEF l
<1>4. MAX_ARGS \in Nat
  BY DEF S!InputAssumption
<1>5. k \in Int /\ k <= l
  <2>1. CASE l > MAX_ARGS
    BY <1>3, <1>4, <2>1
  <2>2. CASE ~(l > MAX_ARGS)
    BY <1>3, <1>4, <2>2
  <2>. QED  BY <2>1, <2>2
<1>. HIDE DEF k
<1>6. \A i \in 1 .. k : list[i] \in S!Argument
  BY <1>3, <1>5
<1>7. SubSeq(list, 1, k) \in Seq(S!Argument)
  BY <1>5, <1>6, SubSeqProperties
<1>. QED  BY <1>2, <1>7 DEF S!Message

(* The arguments of the command line up to the first without a name.       *)
LEMMA GivenMessages ==
  ASSUME args \in Seq(S!Message \union {None})
  PROVE  /\ S!Given \in Seq(S!Message) /\ Len(S!Given) \in Nat
         /\ Len(S!Given) <= Len(args)
<1>. DEFINE M == S!Message \union {None}
            list == args \o <<None>>
            I == {i \in 1 .. Len(list) : list[i] = None}
            k == CHOOSE i \in I : \A j \in I : i <= j
<1>1. /\ list \in Seq(M) /\ Len(args) \in Nat /\ Len(list) = Len(args) + 1
      /\ \A i \in 1 .. Len(args) + 1 :
           list[i] = IF i <= Len(args) THEN args[i] ELSE <<None>>[i - Len(args)]
  <2>. DEFINE one == <<None>>
  <2>1. one \in Seq(M) /\ Len(one) = 1
    OBVIOUS
  <2>. HIDE DEF one, M
  <2>2. args \in Seq(M)
    BY DEF M
  <2>3. Len(args) \in Nat
    BY <2>2, LenProperties
  <2>4. /\ args \o one \in Seq(M) /\ Len(args \o one) = Len(args) + Len(one)
        /\ \A i \in 1 .. Len(args) + Len(one) :
             (args \o one)[i] = IF i <= Len(args) THEN args[i] ELSE one[i - Len(args)]
    BY <2>1, <2>2, ConcatProperties
  <2>. QED  BY <2>1, <2>3, <2>4 DEF one
<1>2. Len(args) + 1 \in I
  BY <1>1
<1>3. S!Given = SubSeq(args, 1, k - 1)
  BY <1>2 DEF S!Given, S!SelectInSeq, S!Min, S!Nul
<1>4. I \in SUBSET Nat /\ I # {}
  BY <1>2
<1>. HIDE DEF I, list
<1>5. k \in I /\ \A j \in I : k <= j
  BY <1>4, LeastNatural
<1>6. k \in Nat /\ 1 <= k /\ k <= Len(args) + 1
  BY <1>1, <1>2, <1>5 DEF I
<1>7. \A i \in 1 .. k - 1 : args[i] \in S!Message
  <2>1. ASSUME NEW i \in 1 .. k - 1
        PROVE  args[i] \in S!Message
    <3>1. i \in 1 .. Len(args) /\ i \notin I /\ i \in 1 .. Len(list)
      BY <1>1, <1>5, <1>6
    <3>2. args[i] # None
      <4>1. list[i] # None
        BY <3>1 DEF I
      <4>2. i \in 1 .. Len(args) + 1 /\ i <= Len(args)
        BY <1>1, <3>1
      <4>3. list[i] = args[i]
        BY <1>1, <4>2
      <4>. QED  BY <4>1, <4>3
    <3>3. args[i] \in M
      BY <3>1, ElementOfSeq
    <3>. QED  BY <3>2, <3>3
  <2>. QED  BY <2>1
<1>. HIDE DEF k
<1>8. k - 1 \in Int /\ k - 1 <= Len(args)
  BY <1>1, <1>6
<1>9. /\ SubSeq(args, 1, k - 1) \in Seq(S!Message)
      /\ Len(SubSeq(args, 1, k - 1)) = IF 1 <= k - 1 THEN k - 1 - 1 + 1 ELSE 0
  BY <1>7, <1>8, SubSeqProperties
<1>. QED  BY <1>1, <1>3, <1>6, <1>8, <1>9

(* The messages of the command line, in one packet.                        *)
LEMMA WroteMessages ==
  ASSUME ClientAssumption, S!InputAssumption, NEW x \in Buffers, NEW stale, NEW d,
         args \in Seq(S!Message \union {None})
  PROVE  LET w == S!WriteMessages(x, stale)
         IN  /\ w.buf \in Buffers /\ w.short \in BOOLEAN
             /\ Fine(x, d) /\ ~w.short => Fine(w.buf, d)
<1>. DEFINE w == S!WriteMessages(x, stale)
            G == S!Given
            n == Len(G)
            One(r, k) == S!Joined(r, S!WriteMessage(r.buf, S!Cut(G[k]), stale))
            base == [buf |-> x, short |-> FALSE]
            Loop(g) == g = [k \in 0 .. n |-> IF k = 0 THEN base ELSE One(g[k - 1], k)]
            upTo == CHOOSE g : Loop(g)
            R == {r \in [buf : Buffers, short : BOOLEAN] :
                    Fine(x, d) /\ ~r.short => Fine(r.buf, d)}
<1>1. w = upTo[n]
  BY DEF S!WriteMessages
<1>2. n \in Nat /\ \A k \in 1 .. n : S!Cut(G[k]) \in S!Message
  <2>1. G \in Seq(S!Message) /\ n \in Nat
    BY GivenMessages
  <2>. HIDE DEF G
  <2>2. \A k \in 1 .. n : G[k] \in S!Message
    BY <2>1, ElementOfSeq
  <2>. QED  BY <2>1, <2>2, CutMessage
<1>3. base \in R
  OBVIOUS
<1>4. ASSUME NEW k \in 1 .. n, NEW r \in R
      PROVE  One(r, k) \in R
  <2>. DEFINE m == S!Cut(G[k])
              y == r.buf
              v == S!WriteMessage(y, m, stale)
  <2>1. m \in S!Message /\ y \in Buffers
    BY <1>2
  <2>. HIDE DEF m
  <2>2. v.buf \in Buffers /\ v.short \in BOOLEAN
    BY <2>1, WroteMessage
  <2>3. Fine(y, d) /\ ~v.short => Fine(v.buf, d)
    BY <2>1, FineMessage
  <2>4. One(r, k) = [buf |-> v.buf, short |-> r.short \/ v.short]
    BY DEF S!Joined, m
  <2>. HIDE DEF v
  <2>. QED  BY <2>2, <2>3, <2>4
<1>. HIDE DEF R, base, One, n, w
<1>5. Loop(upTo)
  <2>. DEFINE step == [k \in 1 .. n |-> [r \in R |-> One(r, k)]]
  <2>1. step \in [1 .. n -> [R -> R]]
    BY <1>4
  <2>. HIDE DEF step
  <2>2. PICK g \in [0 .. n -> R] : GoesOn(g, n, base, step)
    BY <1>2, <1>3, <2>1, Recursion
  <2>3. \A k \in 1 .. n : g[k] = One(g[k - 1], k)
    <3>1. ASSUME NEW k \in 1 .. n
          PROVE  g[k - 1] \in R
      <4>1. k - 1 \in 0 .. n
        BY <1>2
      <4>. QED  BY <2>2, <4>1
    <3>. QED  BY <2>2, <3>1 DEF step, GoesOn
  <2>4. Loop(g)
    BY <2>2, <2>3 DEF GoesOn
  <2>. HIDE DEF Loop
  <2>. QED  BY <2>4
<1>6. upTo[0] = base /\ \A k \in 1 .. n : upTo[k] = One(upTo[k - 1], k)
  <2>. HIDE DEF upTo
  <2>. QED  BY <1>2, <1>5
<1>. HIDE DEF upTo, Loop
<1>7. upTo[n] \in R
  <2>. DEFINE T == {k \in 0 .. n : upTo[k] \in R}
  <2>1. 0 \in T
    BY <1>2, <1>3, <1>6
  <2>2. \A k \in 1 .. n : k - 1 \in T => k \in T
    BY <1>4, <1>6
  <2>. HIDE DEF T
  <2>3. n \in 0 .. n
    BY <1>2
  <2>4. n \in T
    BY <1>2, <2>1, <2>2, <2>3, Upwards
  <2>. QED  BY <2>4 DEF T
<1>8. w \in R
  BY <1>1, <1>7
<1>. QED  BY <1>8 DEF R, w

-----------------------------------------------------------------------------
(* The rounds of the main loop.                                            *)

LEMMA SendInit ==
  ASSUME ClientAssumption, S!InputAssumption, S!Init
  PROVE  SendInv
<1>1. buf = Empty /\ bundleDepth = 0 /\ opened = FALSE /\ dropped = FALSE
        /\ args \in CommandLines \union {Interactive}
  BY SameValues DEF S!Init
<1>. QED  BY <1>1, FineEmpty DEF SendInv, S!InputAssumption, S!NeverUnfinished

(* What every line of the user keeps.                                      *)
LEMMA LineKeeps ==
  ASSUME SendInv, S!ReadsLine, buf' \in Buffers, bundleDepth' \in Nat,
         ~dropped' => ~dropped /\ Fine(buf', bundleDepth') /\ status' \in {status, 3}
  PROVE  SendInv'
<1>1. opened /\ opened' /\ args = Interactive /\ args' = Interactive
  BY DEF S!ReadsLine
<1>2. S!NeverUnfinished'
  BY <1>1 DEF SendInv, S!NeverUnfinished, S!Running
<1>. QED  BY <1>1, <1>2 DEF SendInv

LEMMA BlankLineKeeps ==
  ASSUME ClientAssumption, SendInv, S!BlankLine
  PROVE  SendInv'
<1>1. S!ReadsLine /\ UNCHANGED <<buf, bundleDepth, dropped>>
        /\ IF bundleDepth > 0 THEN UNCHANGED <<sent, status>> ELSE S!SendBuffer(buf)
  BY DEF S!BlankLine
<1>2. buf \in Buffers /\ bundleDepth \in Nat /\ (~dropped => Fine(buf, bundleDepth))
  BY DEF SendInv
<1>3. ASSUME ~dropped
      PROVE  Fine(buf', bundleDepth') /\ status' \in {status, 3}
  <2>1. Fine(buf', bundleDepth')
    BY <1>1, <1>2, <1>3
  <2>2. CASE bundleDepth > 0
    BY <1>1, <2>1, <2>2
  <2>3. CASE ~(bundleDepth > 0)
    <3>1. Fine(buf, 0) /\ S!SendBuffer(buf)
      BY <1>1, <1>2, <1>3, <2>3
    <3>. QED  BY <1>2, <2>1, <3>1, Sending
  <2>. QED  BY <2>2, <2>3
<1>. QED  BY <1>1, <1>2, <1>3, LineKeeps

LEMMA OpenLineKeeps ==
  ASSUME ClientAssumption, SendInv, NEW tt \in Int, NEW stale, S!OpenLine(tt, stale)
  PROVE  SendInv'
<1>. DEFINE x == S!Fresh
            r == S!OSC_openBundle(x, tt, stale)
<1>1. x \in Buffers /\ (~dropped => Fine(x, bundleDepth)) /\ bundleDepth \in Nat
  BY FreshFine DEF SendInv
<1>2. /\ S!ReadsLine /\ dropped' = (dropped \/ r.err # 0)
      /\ IF r.err # 0 THEN buf' = S!OSC_resetBuffer(r.buf) /\ bundleDepth' = 0
         ELSE buf' = r.buf /\ bundleDepth' = bundleDepth + 1
      /\ UNCHANGED status
  BY DEF S!OpenLine
<1>. HIDE DEF x
<1>3. r.buf \in Buffers
  BY <1>1, OpenedBundle, SameOpen
<1>4. S!OSC_resetBuffer(r.buf) \in Buffers
  BY <1>3, Emptied, SameTests
<1>5. ~dropped /\ r.err = 0 => Fine(r.buf, bundleDepth + 1)
  BY <1>1, FineOpen
<1>. HIDE DEF r
<1>6. buf' \in Buffers /\ bundleDepth' \in Nat
  BY <1>1, <1>2, <1>3, <1>4
<1>7. ASSUME ~dropped'
      PROVE  ~dropped /\ Fine(buf', bundleDepth') /\ status' \in {status, 3}
  BY <1>2, <1>5, <1>7
<1>. QED  BY <1>2, <1>6, <1>7, LineKeeps

LEMMA CloseLineKeeps ==
  ASSUME ClientAssumption, SendInv, NEW stale, S!CloseLine(stale)
  PROVE  SendInv'
<1>. DEFINE r == S!OSC_closeBundle(buf, stale)
<1>1. buf \in Buffers /\ (~dropped => Fine(buf, bundleDepth)) /\ bundleDepth \in Nat
  BY DEF SendInv
<1>2. /\ bundleDepth > 0 /\ S!ReadsLine
      /\ IF r.err # 0
         THEN buf' = S!OSC_resetBuffer(r.buf) /\ bundleDepth' = 0 /\ dropped' = TRUE
         ELSE /\ buf' = r.buf /\ bundleDepth' = bundleDepth - 1 /\ UNCHANGED dropped
              /\ IF S!Stray(buf) THEN status' = S!Lost
                 ELSE IF bundleDepth = 1 THEN S!SendBuffer(r.buf)
                 ELSE UNCHANGED status
  BY DEF S!CloseLine
<1>3. r.buf \in Buffers
  BY <1>1, ClosedBundle, SameClose
<1>4. S!OSC_resetBuffer(r.buf) \in Buffers
  BY <1>3, Emptied, SameTests
<1>5. ~dropped /\ r.err = 0 => Fine(r.buf, bundleDepth - 1)
  BY <1>1, FineClose
<1>6. ~dropped => ~S!Stray(buf)
  BY <1>1, FineNotStray
<1>. HIDE DEF r
<1>7. ASSUME ~dropped, r.err = 0
      PROVE  status' \in {status, 3}
  <2>1. CASE bundleDepth = 1
    <3>1. Fine(r.buf, 0) /\ S!SendBuffer(r.buf)
      BY <1>2, <1>5, <1>6, <1>7, <2>1
    <3>. QED  BY <1>3, <3>1, Sending
  <2>2. CASE bundleDepth # 1
    BY <1>2, <1>6, <1>7, <2>2
  <2>. QED  BY <2>1, <2>2
<1>8. bundleDepth - 1 \in Nat
  BY <1>1, <1>2
<1>. QED  BY <1>1, <1>2, <1>3, <1>4, <1>5, <1>7, <1>8, LineKeeps

LEMMA MessageLineKeeps ==
  ASSUME ClientAssumption, S!InputAssumption, SendInv, NEW m \in S!Message, NEW stale,
         S!MessageLine(m, stale)
  PROVE  SendInv'
<1>. DEFINE x == S!Fresh
            c == S!Cut(m)
            r == S!WriteMessage(x, c, stale)
<1>1. x \in Buffers /\ (~dropped => Fine(x, bundleDepth)) /\ bundleDepth \in Nat
  BY FreshFine DEF SendInv
<1>2. c \in S!Message
  BY CutMessage
<1>3. /\ S!ReadsLine /\ buf' = r.buf /\ dropped' = (dropped \/ r.short)
      /\ IF bundleDepth = 0 THEN S!SendBuffer(r.buf) ELSE UNCHANGED status
      /\ UNCHANGED bundleDepth
  BY DEF S!MessageLine
<1>. HIDE DEF x, c
<1>4. r.buf \in Buffers
  BY <1>1, <1>2, WroteMessage
<1>5. ~dropped /\ ~r.short => Fine(r.buf, bundleDepth)
  BY <1>1, <1>2, FineMessage
<1>. HIDE DEF r
<1>6. ASSUME ~dropped, ~r.short
      PROVE  status' \in {status, 3}
  <2>1. CASE bundleDepth = 0
    <3>1. Fine(r.buf, 0) /\ S!SendBuffer(r.buf)
      BY <1>3, <1>5, <1>6, <2>1
    <3>. QED  BY <1>4, <3>1, Sending
  <2>2. CASE bundleDepth # 0
    BY <1>3, <2>2
  <2>. QED  BY <2>1, <2>2
<1>. QED  BY <1>1, <1>3, <1>4, <1>5, <1>6, LineKeeps

LEMMA OtherLinesKeep ==
  ASSUME ClientAssumption, SendInv, S!UnexpectedCloseLine \/ S!EmptyLine
  PROVE  SendInv'
<1>1. S!Fresh \in Buffers /\ (~dropped => Fine(S!Fresh, bundleDepth)) /\ bundleDepth \in Nat
  BY FreshFine DEF SendInv
<1>2. /\ S!ReadsLine /\ buf' = S!Fresh
      /\ UNCHANGED bundleDepth /\ UNCHANGED status /\ UNCHANGED dropped
  BY DEF S!UnexpectedCloseLine, S!EmptyLine
<1>. QED  BY <1>1, <1>2, LineKeeps

LEMMA PlayLineKeeps ==
  ASSUME ClientAssumption, S!InputAssumption, SendInv, NEW stale, S!PlayLine(stale)
  PROVE  SendInv'
<1>. DEFINE x == S!Fresh
            open == S!OSC_openBundle(x, 1, stale)
            y == open.buf
            first == S!WriteMessage(y, Play[1], stale)
            z == first.buf
            second == S!WriteMessage(z, Play[2], stale)
            v == second.buf
            close == S!OSC_closeBundle(v, stale)
            result == IF open.err # 0 THEN open.buf ELSE close.buf
            fits == open.err = 0 /\ ~first.short /\ ~second.short /\ close.err = 0
<1>1. x \in Buffers /\ (~dropped => Fine(x, bundleDepth)) /\ bundleDepth \in Nat
  BY FreshFine DEF SendInv
<1>2. Play[1] \in S!Message /\ Play[2] \in S!Message
  BY DEF S!InputAssumption
<1>3. /\ S!ReadsLine /\ buf' = result
      /\ dropped' = (dropped \/ open.err # 0 \/ first.short \/ second.short \/ close.err # 0)
      /\ IF open.err = 0 /\ close.err = 0 /\ S!Stray(second.buf)
         THEN status' = S!Lost
         ELSE IF bundleDepth = 0 THEN S!SendBuffer(result) ELSE UNCHANGED status
      /\ UNCHANGED bundleDepth
  BY DEF S!PlayLine
<1>. HIDE DEF x
<1>4. y \in Buffers /\ (~dropped /\ open.err = 0 => Fine(y, bundleDepth + 1))
  BY <1>1, OpenedBundle, SameOpen, FineOpen
<1>. HIDE DEF open, y
<1>5. z \in Buffers /\ (Fine(y, bundleDepth + 1) /\ ~first.short => Fine(z, bundleDepth + 1))
  BY <1>2, <1>4, WroteMessage, FineMessage
<1>. HIDE DEF first, z
<1>6. v \in Buffers /\ (Fine(z, bundleDepth + 1) /\ ~second.short => Fine(v, bundleDepth + 1))
  BY <1>2, <1>5, WroteMessage, FineMessage
<1>. HIDE DEF v
<1>7. /\ close.buf \in Buffers
      /\ Fine(v, bundleDepth + 1) =>
           /\ close.err = 0 => Fine(close.buf, bundleDepth)
           /\ ~S!Stray(v)
  <2>1. close.buf \in Buffers
    BY <1>6, ClosedBundle, SameClose
  <2>2. Fine(v, bundleDepth + 1) /\ close.err = 0 => Fine(close.buf, bundleDepth)
    <3>. DEFINE d == bundleDepth + 1
    <3>1. d - 1 = bundleDepth
      BY <1>1
    <3>. HIDE DEF d
    <3>2. ASSUME Fine(v, d), close.err = 0
          PROVE  Fine(close.buf, d - 1)
      <4>1. v \in Buffers /\ S!OSC_closeBundle(v, stale).err = 0
        BY <1>6, <3>2
      <4>2. Fine(S!OSC_closeBundle(v, stale).buf, d - 1)
        BY <3>2, <4>1, FineClose
      <4>. QED  BY <4>2
    <3>. HIDE DEF close
    <3>3. Fine(v, d) /\ close.err = 0 => Fine(close.buf, bundleDepth)
      BY <3>1, <3>2
    <3>. QED  BY <3>3 DEF d
  <2>3. Fine(v, bundleDepth + 1) => ~S!Stray(v)
    BY <1>6, FineNotStray
  <2>. QED  BY <2>1, <2>2, <2>3
<1>. HIDE DEF close
<1>8. result \in Buffers
  BY <1>4, <1>7 DEF y
<1>9. ASSUME ~dropped'
      PROVE  ~dropped /\ fits /\ Fine(result, bundleDepth) /\ ~S!Stray(v)
  <2>1. ~dropped /\ fits
    BY <1>3, <1>9
  <2>2. Fine(v, bundleDepth + 1)
    BY <1>4, <1>5, <1>6, <2>1
  <2>. QED  BY <1>7, <2>1, <2>2
<1>. HIDE DEF result
<1>10. ASSUME ~dropped'
       PROVE  status' \in {status, 3}
  <2>1. IF bundleDepth = 0 THEN S!SendBuffer(result) ELSE UNCHANGED status
    BY <1>3, <1>9, <1>10 DEF v
  <2>2. CASE bundleDepth = 0
    <3>1. Fine(result, 0)
      BY <1>9, <1>10, <2>2
    <3>. QED  BY <1>8, <2>1, <2>2, <3>1, Sending
  <2>3. CASE bundleDepth # 0
    BY <2>1, <2>3
  <2>. QED  BY <2>2, <2>3
<1>. QED  BY <1>1, <1>3, <1>8, <1>9, <1>10, LineKeeps

LEMMA RunCommandLineKeeps ==
  ASSUME ClientAssumption, S!InputAssumption, SendInv, NEW stale, S!RunCommandLine(stale)
  PROVE  SendInv'
<1>. DEFINE many == Len(args) > 1
            begin == S!Begin(stale)
            x == begin.buf
            w == S!WriteMessages(x, stale)
            end == S!End(w.buf, stale)
            depth == IF many THEN 1 ELSE 0
<1>1. /\ opened /\ opened' /\ status = S!Running /\ args \notin {Interactive, <<>>}
      /\ args' = <<>> /\ bundleDepth' = bundleDepth
      /\ IF begin.err # 0
         THEN buf' = begin.buf /\ dropped' = TRUE
         ELSE /\ buf' = end.buf /\ dropped' = (w.short \/ end.err # 0)
              /\ IF end.err # 0 THEN UNCHANGED status ELSE S!SendBuffer(end.buf)
  BY DEF S!RunCommandLine, S!CommandLine, S!WriteAndSend, S!EndAndSend
<1>2. buf = Empty /\ bundleDepth = 0 /\ args \in Seq(S!Message \union {None})
  BY <1>1 DEF SendInv
<1>3. Empty \in Buffers /\ Fine(Empty, 0)
  BY FineEmpty
<1>4. x \in Buffers /\ (begin.err = 0 => Fine(x, depth))
  <2>1. CASE many
    <3>1. begin = S!OSC_openBundle(Empty, 1, stale)
      BY <1>2, <2>1 DEF S!Begin
    <3>2. S!OSC_openBundle(Empty, 1, stale).buf \in Buffers
      BY <1>3, OpenedBundle, SameOpen
    <3>3. begin.err = 0 => Fine(begin.buf, 0 + 1)
      BY <1>3, <3>1, FineOpen
    <3>. QED  BY <2>1, <3>1, <3>2, <3>3
  <2>2. CASE ~many
    <3>1. begin.buf = Empty
      BY <1>2, <2>2 DEF S!Begin, S!Returns
    <3>. QED  BY <1>3, <2>2, <3>1
  <2>. QED  BY <2>1, <2>2
<1>. HIDE DEF begin, x
<1>5. w.buf \in Buffers /\ w.short \in BOOLEAN /\ (Fine(x, depth) /\ ~w.short => Fine(w.buf, depth))
  BY <1>2, <1>4, WroteMessages
<1>. HIDE DEF w
<1>6. end.buf \in Buffers /\ (Fine(w.buf, depth) /\ end.err = 0 => Fine(end.buf, 0))
  <2>. DEFINE y == w.buf
  <2>1. y \in Buffers /\ end = S!End(y, stale)
    BY <1>5
  <2>. HIDE DEF y, end
  <2>2. CASE many
    <3>1. end = S!OSC_closeBundle(y, stale)
      BY <2>1, <2>2 DEF S!End
    <3>2. S!OSC_closeBundle(y, stale).buf \in Buffers
      BY <2>1, ClosedBundle, SameClose
    <3>3. Fine(y, 1) /\ end.err = 0 => Fine(end.buf, 1 - 1)
      BY <2>1, <3>1, FineClose
    <3>. QED  BY <2>2, <3>1, <3>2, <3>3 DEF y
  <2>3. CASE ~many
    <3>1. end.buf = y
      BY <2>1, <2>3 DEF S!End, S!Returns
    <3>. QED  BY <2>1, <2>3, <3>1 DEF y
  <2>. QED  BY <2>2, <2>3
<1>. HIDE DEF end, depth
<1>7. buf' \in Buffers /\ bundleDepth' = 0
  BY <1>1, <1>2, <1>4, <1>6 DEF x
<1>8. ASSUME ~dropped'
      PROVE  Fine(buf', 0) /\ status' \in {status, 3}
  <2>1. begin.err = 0 /\ end.err = 0 /\ ~w.short /\ buf' = end.buf /\ S!SendBuffer(end.buf)
    BY <1>1, <1>8
  <2>2. Fine(end.buf, 0)
    BY <1>4, <1>5, <1>6, <2>1
  <2>3. status' \in {status, 3}
    BY <1>6, <2>1, <2>2, Sending
  <2>. QED  BY <2>1, <2>2, <2>3
<1>9. S!NeverUnfinished'
  BY <1>1, <1>8 DEF S!NeverUnfinished
<1>10. <<>> \in Seq(S!Message \union {None})
  OBVIOUS
<1>. QED  BY <1>1, <1>7, <1>8, <1>9, <1>10 DEF SendInv

LEMMA OthersKeep ==
  ASSUME SendInv,
         \/ \E usage, host, resolved, made, bound \in BOOLEAN :
              S!Start(usage, host, resolved, made, bound)
         \/ S!EndOfInput \/ S!CommandLineDone
  PROVE  SendInv'
<1>1. UNCHANGED <<buf, bundleDepth, args, dropped>>
  BY DEF S!Start, S!EndOfInput, S!CommandLineDone
<1>2. (opened' => status' \in {S!Running, 0}) /\ (~opened' => ~opened)
  <2>1. ASSUME NEW usage \in BOOLEAN, NEW host \in BOOLEAN, NEW resolved \in BOOLEAN,
               NEW made \in BOOLEAN, NEW bound \in BOOLEAN,
               S!Start(usage, host, resolved, made, bound)
        PROVE  (opened' => status' \in {S!Running, 0}) /\ (~opened' => ~opened)
    <3>. DEFINE socket == S!OpenHTMSocket(host, resolved, made, bound)
    <3>1. ~opened /\ opened' = (usage /\ socket)
            /\ status' = IF ~usage THEN 4 ELSE IF ~socket THEN 3 ELSE S!Running
      BY <2>1 DEF S!Start
    <3>. HIDE DEF socket
    <3>2. opened' => usage /\ socket
      BY <3>1, Zenon
    <3>3. opened' => status' = S!Running
      BY <3>1, <3>2, Zenon
    <3>. QED  BY <3>1, <3>3
  <2>2. S!EndOfInput \/ S!CommandLineDone => opened' = opened /\ opened /\ status' = 0
    BY DEF S!EndOfInput, S!CommandLineDone, S!CommandLine
  <2>. QED  BY <2>1, <2>2
<1>. QED  BY <1>1, <1>2 DEF SendInv, Fine, Nested, S!NeverUnfinished

LEMMA SendKeeps ==
  ASSUME ClientAssumption, S!InputAssumption, SendInv, [S!Next]_(S!vars)
  PROVE  SendInv'
<1>1. ASSUME UNCHANGED S!vars
      PROVE  SendInv'
  BY <1>1 DEF S!vars, SendInv, Fine, Nested, S!NeverUnfinished
<1>. SUFFICES ASSUME S!Next
              PROVE  SendInv'
  BY <1>1
<1>2. \A m \in Messages : m \in S!Message
  BY DEF S!InputAssumption
<1>. QED  BY <1>2, OthersKeep, BlankLineKeeps, OtherLinesKeep, CloseLineKeeps,
             PlayLineKeeps, RunCommandLineKeeps, OpenLineKeeps, MessageLineKeeps DEF S!Next

LEMMA SendInvHolds ==
  ClientAssumption /\ S!InputAssumption => (S!Spec => []SendInv)
<1>. SUFFICES ASSUME ClientAssumption, S!InputAssumption
              PROVE  S!Spec => []SendInv
  OBVIOUS
<1>1. S!Init => SendInv
  BY SendInit
<1>2. SendInv /\ [S!Next]_(S!vars) => SendInv'
  BY SendKeeps
<1>. QED  BY <1>1, <1>2, PTL DEF S!Spec

(* As long as everything fits into the buffer, the brackets that sendOSC   *)
(* counts are those of the packet, so that SendBuffer never meets one that *)
(* is not finished ("Internal error"), whatever is typed in whatever order *)
(* or stands on the command line.                                          *)
THEOREM NeverUnfinishedTheorem ==
  ClientAssumption /\ S!InputAssumption => (S!Spec => []S!NeverUnfinished)
<1>1. SendInv => S!NeverUnfinished
  BY DEF SendInv
<1>. QED  BY <1>1, SendInvHolds, PTL
=============================================================================
