------------------------------ MODULE OscParse ------------------------------
(***************************************************************************)
(* Reading the output of dumpOSC in Oz (OSC.oz, ParseAll and ParseVS, with *)
(* the scanner and the parser of OSC_Scanner.oz and OSC_Parser.oz): lines  *)
(* are collected until the brackets are balanced, then parsed, and appear  *)
(* on the stream oscs.  Lines are those of DumpOscOps.                     *)
(***************************************************************************)
EXTENDS DumpOscOps, FiniteSets

CONSTANTS
    Unscannable,    \* characters that the scanner knows no token for
    DecimalTags     \* time tags whose hexadecimal digits are all decimal

VARIABLES
    lines,          \* what has arrived at the socket from netcat
    counter,        \* brackets that are open
    prevLines,      \* the lines since the first of them
    died,           \* exception that has ended the thread of ParseAll, or No
    oscs            \* the stream of packets, each as its lines

parseVars == <<lines, counter, prevLines, died, oscs>>

No == "no"

ParseInit ==
    /\ lines = <<>> /\ counter = 0 /\ prevLines = <<>> /\ died = No /\ oscs = <<>>

-----------------------------------------------------------------------------
FirstChar(line) == IF line.is = "open" THEN "["
                   ELSE IF line.is = "close" THEN "]"
                   ELSE IF line.name = <<>> THEN " " ELSE Head(line.name)
DoesStartBundle(line) == FirstChar(line) = "["
DoesEndBundle(line) == FirstChar(line) = "]"

Scannable(string) == \A i \in DOMAIN string : string[i] \notin Unscannable
ScansAs(arg) ==
    IF arg.is \in {"int", "float"} THEN TRUE
    ELSE arg.is = "string" /\ Scannable(arg.text)

\* Brackets that are open after n lines.
Depth(ls, n) ==
    Cardinality({i \in 1 .. n : ls[i].is = "open"}) - Cardinality({i \in 1 .. n : ls[i].is = "close"})

(* Syntax: a message, or a bundle with its brackets around what it holds.  *)
Syntax(ls) ==
    /\ \A i \in DOMAIN ls :
        /\ ls[i].is # "blank"
        /\ ls[i].is = "message" =>
             /\ Scannable(ls[i].name)
             /\ \A a \in DOMAIN ls[i].args : ScansAs(ls[i].args[a])
    /\ \A n \in DOMAIN ls : Depth(ls, n) >= 0
    /\ Depth(ls, Len(ls)) = 0

(* Digits only are scanned as an int; the parser has a rule for the int 1  *)
(* only, and raises an exception for others.                               *)
TimetagOk(line) ==
    line.is = "open" => line.tag.t = 1 \/ line.tag.t \notin DecimalTags

\* The packet of some lines, or the exception.
ParseVS(ls) ==
    IF ~Syntax(ls) THEN died' = "parserError" /\ UNCHANGED oscs
    ELSE IF \E i \in DOMAIN ls : ~TimetagOk(ls[i])
    THEN died' = "unrecognisedTimetag" /\ UNCHANGED oscs
    ELSE oscs' = Append(oscs, ls) /\ UNCHANGED died

-----------------------------------------------------------------------------
\* A bracket inside a bundle closes all of it.
ParseLine_ClosesAll(line) ==
    LET all == Append(prevLines, line)
    IN  IF counter > 0 /\ DoesEndBundle(line)
        THEN counter' = 0 /\ prevLines' = <<>> /\ ParseVS(all)
        ELSE IF counter > 0 \/ DoesStartBundle(line)
        THEN /\ counter' = counter + (IF DoesStartBundle(line) THEN 1 ELSE 0)
             /\ prevLines' = all
             /\ UNCHANGED <<died, oscs>>
        ELSE ParseVS(all) /\ prevLines' = <<>> /\ UNCHANGED counter

\* The lines of a packet are there again with the next one.
ParseLine_KeepsLines(line) ==
    LET all == Append(prevLines, line)
        newCounter == counter + (IF DoesStartBundle(line) THEN 1
                                 ELSE IF counter > 0 /\ DoesEndBundle(line) THEN -1 ELSE 0)
    IN  /\ counter' = newCounter /\ prevLines' = all
        /\ IF newCounter > 0 THEN UNCHANGED <<died, oscs>> ELSE ParseVS(all)

\* One round of ParseAll.
ParseLine(line) ==
    LET all == Append(prevLines, line)
        newCounter == counter + (IF DoesStartBundle(line) THEN 1
                                 ELSE IF counter > 0 /\ DoesEndBundle(line) THEN -1 ELSE 0)
    IN  /\ counter' = newCounter
        /\ IF newCounter > 0
           THEN prevLines' = all /\ UNCHANGED <<died, oscs>>
           ELSE prevLines' = <<>> /\ ParseVS(all)

(* getS returns a line; a blank one has no first character to look at.     *)
ParseAll ==
    /\ died = No /\ lines # <<>>
    /\ lines' = Tail(lines)
    /\ IF Head(lines).is = "blank"
       THEN died' = "empty list" /\ UNCHANGED <<counter, prevLines, oscs>>
       ELSE ParseLine(Head(lines))

-----------------------------------------------------------------------------
(* The lines of one packet as ParseAll expects them: the last line is the  *)
(* first where as many brackets are closed as are opened, and addresses do *)
(* not begin with a bracket.                                               *)
OnePacket(ls) ==
    /\ ls \in Seq({ls[i] : i \in DOMAIN ls}) /\ ls # <<>>
    /\ Syntax(ls)
    /\ \A n \in 1 .. Len(ls) - 1 : Depth(ls, n) > 0
    /\ \A i \in DOMAIN ls :
        /\ ls[i].is \in {"open", "close", "message"} /\ TimetagOk(ls[i])
        /\ ls[i].is = "message" => FirstChar(ls[i]) \notin {"[", "]"}
=============================================================================
