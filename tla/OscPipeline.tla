---------------------------- MODULE OscPipeline ----------------------------
(***************************************************************************)
(* "dumpOSC -quiet PORT | nc -u localhost NETCATPORT" in a terminal, and   *)
(* the thread of ParseAll that reads what netcat sends (OSC.oz, class      *)
(* DumpOSC).                                                               *)
(***************************************************************************)
EXTENDS DumpOSC, OscParse

CONSTANT PacketsIn      \* the packets that may come, for each part

VARIABLE part           \* what a behaviour is about; it never changes: "good",
                        \* "damaged" packets, "lossy" datagrams, or another

pipeVars == <<dumpVars, parseVars>>

PipeInit == DumpInit /\ ParseInit

\* netcat sends what it finds in the pipe, as one datagram, which may be lost.
Netcat(lossy) ==
    /\ pipe # <<>>
    /\ \E k \in 1 .. Len(pipe) :
        /\ \/ lines' = lines \o SubSeq(pipe, 1, k)
           \/ lossy /\ UNCHANGED lines
        /\ pipe' = SubSeq(pipe, k + 1, Len(pipe))
    /\ UNCHANGED <<udp, unix, arrivals, mbuf, stdout, received, pc, ready, caught_sigint,
                   counter, prevLines, died, oscs>>

\* What the programs and the thread do by themselves.
DumpTurn == Turn /\ UNCHANGED parseVars
Parse == ParseAll /\ UNCHANGED dumpVars

\* The user presses ctrl-c while packets are damaged.
PipeNext ==
    /\ part \in DOMAIN PacketsIn /\ UNCHANGED part
    /\ \/ DumpNext(PacketsIn[part], part = "damaged") /\ UNCHANGED parseVars
       \/ Netcat(part = "lossy")
       \/ Parse

PipeSpec == PipeInit /\ [][PipeNext]_<<part, pipeVars>>

-----------------------------------------------------------------------------
Stream == INSTANCE OscStream WITH
    Texts <- {packet.text : packet \in PacketsIn["good"]} \ {<<>>},
    pending <- SubSeq(received, Len(oscs) + 1, Len(received)),
    stream <- oscs

(* The stream in Oz holds the packets that dumpOSC reads, each once and    *)
(* complete, in their order, whatever arrives between them that is no      *)
(* packet, however the output is cut into datagrams (ParseOSCPacket,       *)
(* ParseAll).                                                              *)
ImplementsStream == Stream!Init /\ [][part = "good" => Stream!Next]_(Stream!vars)

\* How many lines of row are found, one after the other, among all.
Found(row, all) ==
    LET found[n \in 0 .. Len(all)] ==
          IF n = 0 THEN 0
          ELSE LET k == found[n - 1]
               IN  IF k < Len(row) /\ row[k + 1] = all[n] THEN k + 1 ELSE k
    IN  found[Len(all)]

\* The lines that are on their way, behind those that have come through.
PipeRow == FlattenSeq(oscs) \o (IF died = No THEN prevLines ELSE <<>>) \o lines \o pipe \o stdout

(* Where datagrams between netcat and Oz are lost, the lines of the        *)
(* packets in Oz are lines that were printed, in their order, and none of  *)
(* them twice (Netcat, ParseAll).                                          *)
LinesInOrder == part = "lossy" => Found(PipeRow, FlattenSeq(received)) = Len(PipeRow)
=============================================================================
