------------------------------ MODULE DumpOSC ------------------------------
(***************************************************************************)
(* The program dumpOSC (dumpOSC/dumpOSC.c, main): it waits for packets at  *)
(* a UDP and a UNIX socket, prints each, and ends at an interrupt.  Its    *)
(* standard output goes through a buffer to a pipe.                        *)
(*                                                                         *)
(* Packets are [cells, odd, text]: text is what its sender meant, in the   *)
(* lines of DumpOscOps; odd, that its size is no multiple of four.  The    *)
(* sockets receive them in any order, and any number of times, so that     *)
(* the network may lose, double and reorder what was sent.                 *)
(***************************************************************************)
EXTENDS DumpOscOps, SequencesExt

CONSTANTS
    MaxCells,       \* the size of mbuf (MAXMESG) in cells
    MaxArrivals     \* bound on the packets that arrive

VARIABLES
    udp, unix,      \* what waits at the sockets
    mbuf,           \* the buffer for packets, static in the source
    pc,             \* where main is
    ready,          \* sockets that select has marked
    caught_sigint,
    stdout,         \* lines that are printed but not flushed
    pipe,           \* lines that are flushed
    received,       \* texts of the packets that were read and make sense
    arrivals

sockets == <<udp, unix, arrivals>>
output == <<mbuf, stdout, pipe, received>>
dumpVars == <<udp, unix, mbuf, pc, ready, caught_sigint, stdout, pipe, received, arrivals>>

Zeros == [i \in 1 .. MaxCells |-> ZeroCell]

DumpInit ==
    /\ udp = <<>> /\ unix = <<>> /\ arrivals = 0
    /\ mbuf = Zeros
    /\ pc = "start" /\ ready = {} /\ caught_sigint = FALSE
    /\ stdout = <<>> /\ pipe = <<>> /\ received = <<>>

\* Neither of the sockets can be bound twice.
initudp(chan, taken) == IF chan \in taken THEN -1 ELSE 3
unixinitudp(chan, taken) == IF chan \in taken THEN -1 ELSE 4

Start(taken) ==
    /\ pc = "start"
    /\ pc' = IF initudp("udp", taken) < 0 \/ unixinitudp("unix", taken) < 0
             THEN "done" ELSE "test"
    /\ UNCHANGED <<sockets, output, ready, caught_sigint>>

\* main returns, and the rest of the output is flushed.
Return == pc' = "done" /\ pipe' = pipe \o stdout /\ stdout' = <<>>

\* while (!caught_sigint)
Test ==
    /\ pc = "test"
    /\ IF caught_sigint THEN Return ELSE pc' = "select" /\ UNCHANGED <<stdout, pipe>>
    /\ UNCHANGED <<sockets, mbuf, received, ready, caught_sigint>>

\* The UNIX socket is forgotten.
Select_UdpOnly ==
    /\ pc = "select" /\ udp # <<>>
    /\ ready' = {"udp"} /\ pc' = "udp"
    /\ UNCHANGED <<sockets, output, caught_sigint>>

(* select marks the sockets that can be read.  It waits, so this is not    *)
(* enabled while both are empty.                                           *)
Select ==
    /\ pc = "select"
    /\ udp # <<>> \/ unix # <<>>
    /\ ready' = {s \in {"udp", "unix"} : (s = "udp" /\ udp # <<>>) \/ (s = "unix" /\ unix # <<>>)}
    /\ pc' = "udp"
    /\ UNCHANGED <<sockets, output, caught_sigint>>

-----------------------------------------------------------------------------
(* Message lines and closing brackets flush the output, so that a crash    *)
(* loses what comes after the last of them.                                *)
Flushed(lines) == SelectLastInSeq(lines, LAMBDA l : l.is \in {"message", "close"})

PrintLines(lines) ==
    /\ pipe' = pipe \o SubSeq(lines, 1, Flushed(lines))
    /\ IF \E i \in DOMAIN lines : lines[i] = Crash
       THEN stdout' = <<>> /\ pc' = "crashed"
       ELSE stdout' = SubSeq(lines, Flushed(lines) + 1, Len(lines)) /\ UNCHANGED pc

\* recvfrom cuts what does not fit, and leaves what is behind the packet.
Length(packet) == IF Len(packet.cells) > MaxCells THEN MaxCells ELSE Len(packet.cells)
recvfrom(packet, mem) ==
    SubSeq(packet.cells, 1, Length(packet)) \o SubSeq(mem, Length(packet) + 1, MaxCells)

\* What is printed of a packet that is at the beginning of mem.
Printed(packet, mem) ==
    IF packet.odd THEN <<>> ELSE ParseOSCPacket(mem, 1, Length(packet) + 1)

Synthmessage(packet) ==
    /\ mbuf' = recvfrom(packet, mbuf)
    /\ PrintLines(stdout \o Printed(packet, recvfrom(packet, mbuf)))
    /\ received' = IF packet.text = <<>> THEN received ELSE Append(received, packet.text)

TakeUdp ==
    /\ pc = "udp" /\ "udp" \in ready /\ udp # <<>>
    /\ udp' = Tail(udp)
    /\ UNCHANGED <<unix, arrivals, ready, caught_sigint>>

ReadUdp == TakeUdp /\ Synthmessage(Head(udp))

UdpEmpty ==
    /\ pc = "udp" /\ ("udp" \notin ready \/ udp = <<>>)
    /\ pc' = "unix"
    /\ UNCHANGED <<sockets, output, ready, caught_sigint>>

TakeUnix ==
    /\ pc = "unix" /\ "unix" \in ready /\ unix # <<>>
    /\ unix' = Tail(unix)
    /\ UNCHANGED <<udp, arrivals, ready, caught_sigint>>

ReadUnix == TakeUnix /\ Synthmessage(Head(unix))

UnixEmpty ==
    /\ pc = "unix" /\ ("unix" \notin ready \/ unix = <<>>)
    /\ pc' = "test"
    /\ UNCHANGED <<sockets, output, ready, caught_sigint>>

-----------------------------------------------------------------------------
(* catch_sigint.  In select it also ends the call with an error, and main  *)
(* returns; before and after the call it is only remembered.               *)
catch_sigint(waiting) ==
    /\ ~caught_sigint
    /\ pc \notin {"start", "done", "crashed"}
    /\ waiting => pc = "select"
    /\ caught_sigint' = TRUE
    /\ IF waiting THEN Return ELSE UNCHANGED <<pc, stdout, pipe>>
    /\ UNCHANGED <<sockets, mbuf, received, ready>>

Arrive(packet) ==
    /\ arrivals < MaxArrivals
    /\ pc \notin {"start", "done", "crashed"}
    /\ arrivals' = arrivals + 1
    /\ \/ udp' = Append(udp, packet) /\ UNCHANGED unix
       \/ unix' = Append(unix, packet) /\ UNCHANGED udp
    /\ UNCHANGED <<output, pc, ready, caught_sigint>>

Turn == Test \/ Select \/ UdpEmpty \/ UnixEmpty

\* The packets that arrive, and whether the user may press ctrl-c.
DumpNext(packets, interrupts) ==
    \/ \E taken \in SUBSET {"udp", "unix"} : Start(taken)
    \/ Turn \/ ReadUdp \/ ReadUnix
    \/ interrupts /\ \E waiting \in BOOLEAN : catch_sigint(waiting)
    \/ \E packet \in packets : Arrive(packet)

-----------------------------------------------------------------------------
(* Packets whose text is what is printed of them, whatever the packets     *)
(* before have left in mbuf: memories is what it may hold.                 *)
PrintAsMeant(packets, memories) ==
    /\ Zeros \in memories
    /\ \A packet \in packets, mem \in memories :
        /\ recvfrom(packet, mem) \in memories
        /\ Printed(packet, recvfrom(packet, mem)) = packet.text
=============================================================================
