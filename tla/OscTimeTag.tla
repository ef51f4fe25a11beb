---------------------------- MODULE OscTimeTag -----------------------------
(***************************************************************************)
(* Time tags (libOSC/OSC-timetag.c): seconds, and fractions of a second.   *)
(* With 8-byte integers (and the clock of SGI) they are one number; other  *)
(* machines have a struct of two words, and no clock.                      *)
(*                                                                         *)
(* Around the library there is a clock, and a client that schedules things *)
(* a number of seconds from now and looks whether they are due, as         *)
(* simplesynth-osc.c and sendOSC.c do.  The widths are scaled down.        *)
(***************************************************************************)
EXTENDS Integers

CONSTANTS
    HAS8BYTEINT,
    Words,              \* seconds that fit into a word (2^32)
    Fractions,          \* fractions of a second (2^32)
    Second,             \* microseconds of a second (1000000)
    PerMicrosecond,     \* fractions in a microsecond (4295)
    Offsets,            \* seconds that the client adds
    FirstSecond,        \* where the clock starts; now, more than half of
                        \* the seconds of a word are over
    LastSecond          \* bound on the clock

TimeTagAssumption ==
    /\ HAS8BYTEINT \in BOOLEAN
    /\ Words \in Nat \ {0} /\ Fractions \in Nat \ {0} /\ Second \in Nat \ {0}
    /\ PerMicrosecond \in Nat
    /\ (PerMicrosecond - 1) * Second < Fractions /\ Fractions <= PerMicrosecond * Second
    /\ Offsets \subseteq Nat
    /\ FirstSecond \in Nat /\ LastSecond \in Nat

Tag(seconds, fraction) == [seconds |-> seconds % Words, fraction |-> fraction % Fractions]
Value(tt) == tt.seconds * Fractions + tt.fraction
TagOf(value) == Tag(value \div Fractions, value)

\* An unsigned difference of words as an int.
Signed(n, width) == IF 2 * (n % width) < width THEN n % width ELSE (n % width) - width

OSCTT_Immediately == Tag(0, 1)
OSCTT_BiggestPossibleTimeTag == Tag(Words - 1, Fractions - 1)

OSCTT_PlusSeconds_Off(original, secondsOffset) == TagOf(Value(original) + secondsOffset)

OSCTT_PlusSeconds_Struct(original, secondsOffset) == OSCTT_Immediately

OSCTT_PlusSeconds(original, secondsOffset) ==
    IF HAS8BYTEINT THEN TagOf(Value(original) + secondsOffset * Fractions)
    ELSE OSCTT_PlusSeconds_Struct(original, secondsOffset)

OSCTT_Compare_Struct(left, right) ==
    IF left.seconds # right.seconds THEN Signed(left.seconds - right.seconds, Words)
    ELSE Signed(left.fraction - right.fraction, Fractions)

OSCTT_Compare(left, right) ==
    IF HAS8BYTEINT
    THEN IF Value(left) < Value(right) THEN -1 ELSE IF left = right THEN 0 ELSE 1
    ELSE OSCTT_Compare_Struct(left, right)

OSCTT_CurrentTime_Struct == OSCTT_Immediately

(* The product of the microseconds is taken in a word.                     *)
OSCTT_CurrentTime(c) ==
    IF HAS8BYTEINT THEN Tag(c.seconds, c.microseconds * PerMicrosecond)
    ELSE OSCTT_CurrentTime_Struct

-----------------------------------------------------------------------------
VARIABLES
    watch,      \* the machine's clock
    alarm       \* what is scheduled: its tag, when it was asked for, and for when

timeVars == <<watch, alarm>>

Never == [set |-> FALSE]

TimeInit ==
    /\ watch = [seconds |-> FirstSecond, microseconds |-> 0]
    /\ alarm = Never

Pass ==
    /\ watch.seconds <= LastSecond
    /\ watch' = IF watch.microseconds + 1 < Second
                THEN [watch EXCEPT !.microseconds = @ + 1]
                ELSE [seconds |-> watch.seconds + 1, microseconds |-> 0]
    /\ UNCHANGED alarm

SetAlarm(offset) ==
    /\ alarm = Never
    /\ alarm' = [set |-> TRUE, offset |-> offset, asked |-> watch,
                 tag |-> OSCTT_PlusSeconds(OSCTT_CurrentTime(watch), offset)]
    /\ UNCHANGED watch

Due == OSCTT_Compare(alarm.tag, OSCTT_CurrentTime(watch)) <= 0

Run == alarm.set /\ Due /\ alarm' = Never /\ UNCHANGED watch

TimeNext == Pass \/ Run \/ \E offset \in Offsets : SetAlarm(offset)

TimeSpec == TimeInit /\ [][TimeNext]_timeVars

-----------------------------------------------------------------------------
Microseconds(c) == c.seconds * Second + c.microseconds

(* There are a few more than Fractions in the microseconds of a second:    *)
(* in the last ones (999993 and later) the product no longer fits into a   *)
(* word, and the tag is almost a second too early.                         *)
Fits(c) == c.microseconds * PerMicrosecond < Fractions

(* "Compare two time tags.  Return negative if first is < second, 0 if     *)
(* they're equal, and positive if first > second" (OSC-timetag.h), for the *)
(* tag of a second of the clock and the two special tags.                  *)
CompareTellsEarlier ==
    LET now == Tag(watch.seconds, 0)
    IN  /\ Value(OSCTT_Immediately) < Value(now) =>
             OSCTT_Compare(OSCTT_Immediately, now) < 0
        /\ Value(now) < Value(OSCTT_BiggestPossibleTimeTag) =>
             OSCTT_Compare(now, OSCTT_BiggestPossibleTimeTag) < 0

(* What is scheduled is due when the seconds have passed, to the           *)
(* microsecond, and no earlier (OSCTT_PlusSeconds, OSCTT_Compare and two   *)
(* readings of OSCTT_CurrentTime); the special tags are before and after   *)
(* all others.                                                             *)
DueOnTime ==
    /\ CompareTellsEarlier
    /\ alarm.set /\ Fits(alarm.asked) /\ Fits(watch) =>
         (Due <=> Microseconds(watch) >= Microseconds(alarm.asked) + alarm.offset * Second)
=============================================================================
