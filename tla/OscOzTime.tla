------------------------------ MODULE OscOzTime ------------------------------
(***************************************************************************)
(* Time tags in Oz (OSC.oz): a time in milliseconds becomes a string of    *)
(* hexadecimal digits, seconds and fraction, and is read back from what    *)
(* dumpOSC prints.  Characters are their codes.                            *)
(***************************************************************************)
EXTENDS Integers, Sequences

CONSTANTS
    SecondDigits,           \* hexadecimal digits of the seconds (8)
    ConversionConstant,     \* seconds between 1900 and 1970 (2208988800)
    FirstSecond, LastSecond \* bounds on the time, in seconds since 1970

Power[n \in 0 .. SecondDigits] == IF n = 0 THEN 1 ELSE 16 * Power[n - 1]

(* There is no padding on the left.  (Before 1970, div and mod of Oz round *)
(* towards 0, and the fraction is negative.)                               *)
OzTimeAssumption ==
    /\ SecondDigits \in Nat \ {0} /\ ConversionConstant \in Nat
    /\ FirstSecond \in Nat /\ LastSecond \in Nat
    /\ ConversionConstant + FirstSecond >= Power[SecondDigits - 1]
    /\ ConversionConstant + LastSecond < Power[SecondDigits]

VARIABLE unixTime1000       \* the time in milliseconds

OzTimeInit == unixTime1000 \in (FirstSecond * 1000) .. (LastSecond * 1000 + 999)

\* Division by 16 until nothing is left; the last remainder comes first.
DecimalToHex_Int(x) ==
    LET quot[i \in 0 .. SecondDigits] == IF i = 0 THEN x ELSE quot[i - 1] \div 16
        n == CHOOSE k \in 1 .. SecondDigits :
                 quot[k] = 0 /\ \A m \in 1 .. k - 1 : quot[m] # 0
    IN  [i \in 1 .. n |-> quot[n - i] % 16]

(* Multiplication by 16 gives a digit, and leaves a remainder to go on     *)
(* with; eight digits at most.                                             *)
DecimalToHex_Frac(x) ==
    LET rem[i \in 0 .. 8] == IF i = 0 THEN x ELSE (rem[i - 1] * 16) % 1000
        n == CHOOSE k \in 1 .. 8 :
                 (rem[k] = 0 \/ k = 8) /\ \A m \in 1 .. k - 1 : rem[m] # 0
    IN  [i \in 1 .. n |-> (rem[i - 1] * 16) \div 1000]

\* &0 is 48, and &a is 97.
FormatHex(digits) ==
    [i \in DOMAIN digits |-> IF digits[i] < 10 THEN 48 + digits[i] ELSE 97 + digits[i] - 10]
HexCharToInt(char) == IF char <= 57 THEN char - 48 ELSE char - 97 + 10

\* The zeros are put on the left.
FormatTimeTag_PadsLeft(time) ==
    LET fraction == DecimalToHex_Frac(time % 1000)
    IN  FormatHex(DecimalToHex_Int(time \div 1000 + ConversionConstant)
                  \o ([i \in 1 .. 8 - Len(fraction) |-> 0] \o fraction))

FormatTimeTag(time) ==
    LET fraction == DecimalToHex_Frac(time % 1000)
    IN  FormatHex(DecimalToHex_Int(time \div 1000 + ConversionConstant)
                  \o (fraction \o [i \in 1 .. 8 - Len(fraction) |-> 0]))

(* The sum of the digits with their factors, apart for the seconds and,    *)
(* four digits behind the point, for the millionths of a second.           *)
Seconds(chars) ==
    LET sum[i \in 0 .. SecondDigits] ==
            IF i = 0 THEN 0 ELSE 16 * sum[i - 1] + HexCharToInt(chars[i])
    IN  sum[SecondDigits]

Factors == <<62500, 3906, 244, 15>>
Millionths(chars) ==
    LET sum[i \in 0 .. 4] ==
            IF i = 0 THEN 0
            ELSE sum[i - 1] + HexCharToInt(chars[SecondDigits + i]) * Factors[i]
    IN  sum[4]

(* Rounded to milliseconds.  (In millionths, the seconds are a multiple of *)
(* 1000.)                                                                  *)
HexToDecimal1000(chars) ==
    1000 * Seconds(chars) + Millionths(chars) \div 1000
        + (IF Millionths(chars) % 1000 >= 500 THEN 1 ELSE 0)

NTPToUnixTime1000(time) == time - ConversionConstant * 1000

(* "The time tags send and received should be equal" (OSC-test.oz): no     *)
(* millisecond is lost between FormatTimeTag and HexToDecimal1000, and the *)
(* string has the length that the reader counts on.                        *)
TimetagsComeBack ==
    LET chars == FormatTimeTag(unixTime1000)
    IN  /\ Len(chars) = SecondDigits + 8
        /\ NTPToUnixTime1000(HexToDecimal1000(chars)) = unixTime1000
=============================================================================
