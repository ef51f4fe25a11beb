------------------------------ MODULE SendOSC ------------------------------
(***************************************************************************)
(* The program sendOSC (sendOSC/sendOSC.c): it reads messages and bundle   *)
(* brackets from its standard input, line by line, or from its command     *)
(* line, builds packets from them with the library of OscClientOps, and    *)
(* sends them.  Lines are given after ParseToken: a message is its name    *)
(* and its arguments, [type |-> "i" or "f", first |-> first byte] or       *)
(* [type |-> "s", string |-> s].                                           *)
(*                                                                         *)
(* The rounds of the main loop are atomic: the program is alone.           *)
(***************************************************************************)
EXTENDS OscClientOps, SequencesExt

CONSTANTS
    UseTypeTags,    \* no option -notypetags
    MAX_ARGS,       \* arguments of a message (2000 in the source)
    Messages,       \* messages that the user types
    Play,           \* the two messages of the line "play"
    CommandLines,   \* sequences of arguments; an element None is one that
                    \* strtok finds no message name in
    None,
    Interactive,    \* no arguments: sendOSC reads its standard input
    MaxLines        \* bound on the lines of the user

(* What the user types, after ParseToken.                                  *)
Argument == [type : {"i", "f"}, first : STRING] \union [type : {"s"}, string : Seq(STRING)]
Message == [name : Seq(STRING), args : Seq(Argument)]

InputAssumption ==
    /\ UseTypeTags \in BOOLEAN /\ MAX_ARGS \in Nat
    /\ Messages \subseteq Message /\ {Play[1], Play[2]} \subseteq Message
    /\ CommandLines \subseteq Seq(Message \union {None})
    /\ Interactive \notin CommandLines

VARIABLES
    buf,            \* the OSCbuf
    bundleDepth,    \* InteractiveMode: brackets open
    opened,         \* main has opened the socket
    status,         \* Running, or the exit status
    args,           \* the arguments on the command line, or Interactive
    sent,           \* how many packets were sent, and the last of them
    typed,          \* tokens of what the user typed for the current packet
    dropped,        \* an overflow has cost (a part of) a message
    lines           \* lines read

vars == <<buf, bundleDepth, opened, status, args, sent, typed, dropped, lines>>

Running == -1
Lost == -2      \* after a patch through a pointer that was never set

Init ==
    /\ buf = Empty /\ bundleDepth = 0 /\ opened = FALSE /\ status = Running
    /\ args \in CommandLines \union {Interactive}
    /\ sent = [count |-> 0, packet |-> <<>>] /\ typed = <<>> /\ dropped = FALSE /\ lines = 0

-----------------------------------------------------------------------------
(* A socket to a host (UDP) needs the host's address; without a host it is *)
(* a UNIX socket.                                                          *)
OpenHTMSocket(host, resolved, made, bound) == (host => resolved) /\ made /\ bound

(* main: no port (or option -r without REMOTE_ADDR) is a usage error.      *)
Start(usage, host, resolved, made, bound) ==
    /\ status = Running /\ ~opened
    /\ opened' = (usage /\ OpenHTMSocket(host, resolved, made, bound))
    /\ status' = IF ~usage THEN 4
                 ELSE IF ~OpenHTMSocket(host, resolved, made, bound) THEN 3 ELSE Running
    /\ UNCHANGED <<buf, bundleDepth, args, sent, typed, dropped, lines>>

-----------------------------------------------------------------------------
TypeTags(m) == <<",">> \o [i \in DOMAIN m.args |-> m.args[i].type]

WriteArg(b, a, stale) ==
    IF a.type = "s" THEN OSC_writeStringArg(b, a.string, stale)
    ELSE OSC_writeIntArg(b, a.type, a.first, stale)

(* The arguments are written although the address may have been refused;   *)
(* the first argument that is refused ends the message.  short says that   *)
(* something was refused; the source only complains.                       *)
WriteMessage(b, m, stale) ==
    LET address == IF UseTypeTags
                   THEN OSC_writeAddressAndTypes(b, m.name, TypeTags(m), stale)
                   ELSE OSC_writeAddress(b, m.name, stale)
        upTo[n \in 0 .. Len(m.args)] ==
            IF n = 0 THEN [address EXCEPT !.err = 0]
            ELSE Then(upTo[n - 1], LAMBDA c : WriteArg(c, m.args[n], stale))
        all == upTo[Len(m.args)]
    IN  [buf |-> all.buf,
         short |-> address.err # 0 \/ all.err # 0]

ArgCells(m, i) ==
    LET a == m.args[i]
    IN  IF a.type # "s" THEN <<Word(a.first)>>
        ELSE IF i = 1 /\ ~UseTypeTags /\ a.string # <<>> /\ a.string[1] = ","
             THEN OSC_padStringWithAnExtraStupidComma(a.string)
             ELSE OSC_padString(a.string)

(* What the user means by a message.                                       *)
Tokens(m) ==
    LET upTo[n \in 0 .. Len(m.args)] ==
          IF n = 0
          THEN MessageToken \o OSC_padString(m.name)
                 \o (IF UseTypeTags THEN OSC_padString(TypeTags(m)) ELSE <<>>)
          ELSE upTo[n - 1] \o ArgCells(m, n)
    IN  upTo[Len(m.args)]

\* The arguments after MAX_ARGS are ignored, with a complaint.
Cut(m) == [m EXCEPT !.args = SubSeq(@, 1, IF Len(@) > MAX_ARGS THEN MAX_ARGS ELSE Len(@))]

SendBuffer_Unchecked(b) ==
    /\ sent' = [count |-> sent.count + 1, packet |-> b.cells]
    /\ UNCHANGED status

(* An empty buffer is not sent, and one that is not finished is an         *)
(* internal error; fatal_error exits with 4, so that the exit(5) behind it *)
(* is never reached.                                                       *)
SendBuffer(b) ==
    IF OSC_isBufferEmpty(b) THEN UNCHANGED <<sent, status>>
    ELSE IF ~OSC_isBufferDone(b) THEN status' = 4 /\ UNCHANGED sent
    ELSE \/ sent' = [count |-> sent.count + 1, packet |-> b.cells] /\ UNCHANGED status
         \/ status' = 3 /\ UNCHANGED sent          \* sendto fails

-----------------------------------------------------------------------------
(* InteractiveMode                                                         *)
ReadsLine ==
    /\ opened /\ status = Running /\ args = Interactive
    /\ lines < MaxLines
    /\ lines' = lines + 1
    /\ UNCHANGED <<args, opened>>

(* A line outside of brackets starts a new packet.                         *)
Fresh == IF bundleDepth = 0 THEN OSC_resetBuffer(buf) ELSE buf
TypedBefore == IF bundleDepth = 0 THEN <<>> ELSE typed

\* A blank line repeats the previous packet.
BlankLine ==
    /\ ReadsLine
    /\ IF bundleDepth > 0 THEN UNCHANGED <<sent, status>> ELSE SendBuffer(buf)
    /\ UNCHANGED <<buf, bundleDepth, typed, dropped>>

OpenLine(tt, stale) ==
    LET r == OSC_openBundle(Fresh, tt, stale)
    IN  /\ ReadsLine
        /\ IF r.err # 0
           THEN /\ buf' = OSC_resetBuffer(r.buf) /\ bundleDepth' = 0
                /\ typed' = <<>>
           ELSE /\ buf' = r.buf /\ bundleDepth' = bundleDepth + 1
                /\ typed' = TypedBefore \o OpenToken(tt)
        /\ dropped' = (dropped \/ r.err # 0)
        /\ UNCHANGED <<sent, status>>

UnexpectedCloseLine ==
    /\ bundleDepth = 0
    /\ ReadsLine
    /\ buf' = Fresh /\ typed' = <<>>
    /\ UNCHANGED <<bundleDepth, sent, status, dropped>>

CloseLine(stale) ==
    LET r == OSC_closeBundle(buf, stale)
    IN  /\ bundleDepth > 0
        /\ ReadsLine
        /\ IF r.err # 0
           THEN /\ buf' = OSC_resetBuffer(r.buf) /\ bundleDepth' = 0 /\ typed' = <<>>
                /\ dropped' = TRUE
                /\ UNCHANGED <<sent, status>>
           ELSE /\ buf' = r.buf /\ bundleDepth' = bundleDepth - 1
                /\ typed' = typed \o CloseToken
                /\ UNCHANGED dropped
                /\ IF Stray(buf) THEN status' = Lost /\ UNCHANGED sent
                   ELSE IF bundleDepth = 1 THEN SendBuffer(r.buf)
                   ELSE UNCHANGED <<sent, status>>

\* ParseInteractiveLine with a message; its result is only complained about.
MessageLine(m, stale) ==
    LET r == WriteMessage(Fresh, Cut(m), stale)
    IN  /\ ReadsLine
        /\ buf' = r.buf /\ dropped' = (dropped \/ r.short)
        /\ typed' = TypedBefore \o Tokens(Cut(m))
        /\ IF bundleDepth = 0 THEN SendBuffer(r.buf) ELSE UNCHANGED <<sent, status>>
        /\ UNCHANGED bundleDepth

(* White space only, or a quote that is not closed: nothing is written.    *)
EmptyLine ==
    /\ ReadsLine
    /\ buf' = Fresh /\ typed' = TypedBefore
    /\ UNCHANGED <<bundleDepth, sent, status, dropped>>

\* The line "play": a bundle of two messages, in the current packet.
PlayLine(stale) ==
    LET open == OSC_openBundle(Fresh, 1, stale)
        first == WriteMessage(open.buf, Play[1], stale)
        second == WriteMessage(first.buf, Play[2], stale)
        close == OSC_closeBundle(second.buf, stale)
        result == IF open.err # 0 THEN open.buf ELSE close.buf
    IN  /\ ReadsLine
        /\ buf' = result
        /\ dropped' = (dropped \/ open.err # 0 \/ first.short \/ second.short \/ close.err # 0)
        /\ typed' = TypedBefore \o OpenToken(1) \o Tokens(Play[1]) \o Tokens(Play[2])
                      \o CloseToken
        /\ IF open.err = 0 /\ close.err = 0 /\ Stray(second.buf)
           THEN status' = Lost /\ UNCHANGED sent
           ELSE IF bundleDepth = 0 THEN SendBuffer(result)
           ELSE UNCHANGED <<sent, status>>
        /\ UNCHANGED bundleDepth

\* main returns from InteractiveMode and exits with exitStatus, which is 0.
EndOfInput ==
    /\ opened /\ status = Running /\ args = Interactive
    /\ status' = 0
    /\ UNCHANGED <<buf, bundleDepth, opened, args, sent, typed, dropped, lines>>

-----------------------------------------------------------------------------
(* CommandLineMode: more than one argument makes a bundle.                 *)
CommandLine == opened /\ status = Running /\ args # Interactive

Begin(stale) == IF Len(args) > 1 THEN OSC_openBundle(buf, 1, stale) ELSE Returns(buf, 0)
End(b, stale) == IF Len(args) > 1 THEN OSC_closeBundle(b, stale) ELSE Returns(b, 0)

\* An argument without a message name ends the loop.
Given == SubSeq(args, 1, SelectInSeq(args \o <<None>>, LAMBDA m : m = None) - 1)

\* The messages are written whether or not one of them was cut short.
Joined(r, w) == [buf |-> w.buf, short |-> r.short \/ w.short]
WriteMessages(b, stale) ==
    LET upTo[n \in 0 .. Len(Given)] ==
          IF n = 0 THEN [buf |-> b, short |-> FALSE]
          ELSE Joined(upTo[n - 1], WriteMessage(upTo[n - 1].buf, Cut(Given[n]), stale))
    IN  upTo[Len(Given)]
GivenTokens == FlattenSeq([i \in DOMAIN Given |-> Tokens(Cut(Given[i]))])

EndAndSend(written, end) ==
    /\ buf' = end.buf
    /\ dropped' = (written.short \/ end.err # 0)
    /\ IF end.err # 0 THEN UNCHANGED <<sent, status>> ELSE SendBuffer(end.buf)

WriteAndSend(written, stale) == EndAndSend(written, End(written.buf, stale))

\* After an error of OSC_openBundle or OSC_closeBundle nothing is sent.
RunCommandLine(stale) ==
    /\ CommandLine /\ args # <<>>
    /\ IF Begin(stale).err # 0
       THEN buf' = Begin(stale).buf /\ dropped' = TRUE /\ UNCHANGED <<sent, status>>
       ELSE WriteAndSend(WriteMessages(Begin(stale).buf, stale), stale)
    /\ typed' = IF Len(args) > 1 THEN OpenToken(1) \o GivenTokens \o CloseToken
                ELSE GivenTokens
    /\ args' = <<>>
    /\ UNCHANGED <<bundleDepth, opened, lines>>

CommandLineDone ==
    /\ CommandLine /\ args = <<>>
    /\ status' = 0
    /\ UNCHANGED <<buf, bundleDepth, opened, args, sent, typed, dropped, lines>>

-----------------------------------------------------------------------------
Next ==
    \/ \E usage, host, resolved, made, bound \in BOOLEAN :
        Start(usage, host, resolved, made, bound)
    \/ BlankLine \/ UnexpectedCloseLine \/ EmptyLine
    \/ \E stale \in {Nul, "x"} :
        \/ CloseLine(stale) \/ PlayLine(stale) \/ RunCommandLine(stale)
        \/ \E tt \in {1, 2} : OpenLine(tt, stale)
        \/ \E m \in Messages : MessageLine(m, stale)
    \/ EndOfInput \/ CommandLineDone

Spec == Init /\ [][Next]_vars

-----------------------------------------------------------------------------
(* As long as everything fits, the brackets that InteractiveMode counts    *)
(* and those that the library counts agree: SendBuffer never meets a       *)
(* packet that is not finished.                                            *)
NeverUnfinished == opened /\ ~dropped => status \in {Running, 0, 3}
=============================================================================
