--------------------------- MODULE MC_OscPipeline ---------------------------
(***************************************************************************)
(* OSC input, from the sockets of dumpOSC to the responders in Oz, in      *)
(* small instances: dumpOSC, netcat and ParseAll with packets that make    *)
(* sense, with damaged ones, with a larger packet than dumpOSC has room    *)
(* for, and with a network that loses datagrams; then the responders and   *)
(* the buffer they fill; and the time tags of OSC.oz.                      *)
(*                                                                         *)
(* part says which of them a behaviour is about; what does not belong to   *)
(* it rests in its initial state.                                          *)
(***************************************************************************)
EXTENDS OscInput, OscPipeline, OscOzTime

CONSTANTS Parts

-----------------------------------------------------------------------------
Name(c) == <<"/", c>>
Number == Word("x")
MessageLine(name, args) == <<[is |-> "message", name |-> name, args |-> args]>>

\* Packets with what they mean; without a text they mean nothing.
Whole(cells, text) == [cells |-> cells, odd |-> FALSE, text |-> text]
Typed(name, types, cells, args) ==
    Whole(OSC_padString(name) \o OSC_padString(<<",">> \o types) \o cells, MessageLine(name, args))
Untyped(name, cells, args) == Whole(OSC_padString(name) \o cells, MessageLine(name, args))
Bundle(t, list) ==
    Whole(BundleName \o <<TimeTag(t, TRUE), TimeTag(t, TRUE)>>
             \o FlattenSeq([i \in DOMAIN list |-> <<Count(Len(list[i].cells))>> \o list[i].cells]),
          <<[is |-> "open", tag |-> TimeTag(t, TRUE)]>>
             \o FlattenSeq([i \in DOMAIN list |-> list[i].text]) \o <<[is |-> "close"]>>)
Nothing(p) == [p EXCEPT !.text = <<>>]

A == Typed(Name("a"), <<"i", "s">>, <<Number>> \o OSC_padString(<<"b">>),
           <<IntArg(Number), StringArg(<<"b">>)>>)
B == Untyped(Name("b"), OSC_padString(<<",", ",", "c">>) \o <<Number>>,
             <<StringArg(<<",", "c">>), IntArg(Number)>>)
BadName == Nothing(Whole(<<Text(<<"/", "a", "b", "c">>)>>, <<>>))
Empty0 == Nothing(Whole(<<>>, <<>>))

GoodPackets ==
    { A,
      Bundle(2, <<B, Bundle(1, <<>>), A>>),
      Bundle(1, <<Bundle(2, <<Empty0, A>>), BadName>>),
      BadName,
      [Nothing(B) EXCEPT !.odd = TRUE] }

(* Packets that are damaged: type tags without arguments, a string that    *)
(* does not end, a number that looks like a type string, a bundle that     *)
(* holds less than it says.                                                *)
Cut(p, n) == Nothing([p EXCEPT !.cells = SubSeq(@, 1, n)])
DamagedPackets ==
    { A, Cut(A, 2), Cut(A, 3),
      Nothing(Untyped(Name("b"), <<Text(<<"a", "b", "c", "d">>), Text(<<"a", "b", "c", "d">>),
                                   Text(<<"x", "x", "x", "x">>)>>, <<>>)),
      Nothing(Untyped(Name("b"), <<Text(<<",", "i", "x", "x">>)>>, <<>>)),
      Cut(Bundle(2, <<A, B>>), 12) }

\* A bundle in a bundle, whose lines may be lost one by one.
NestedPackets == {A, Bundle(2, <<Bundle(1, <<B>>)>>)}

\* A bundle that is larger than the buffer, and one that is not.
LargePackets == {Bundle(2, <<A, A, A, A, A>>), Bundle(1, <<A>>)}

PacketsOfParts == [good |-> GoodPackets, damaged |-> DamagedPackets,
                   large |-> LargePackets, lossy |-> NestedPackets]

(* What mbuf may hold after up to six packets, which is all that it may    *)
(* hold: of two packets that are equally long the last one counts.         *)
Memories(packets) ==
    LET after[n \in 0 .. 6] ==
          IF n = 0 THEN {Zeros}
          ELSE after[n - 1] \union {recvfrom(p, mem) : p \in packets, mem \in after[n - 1]}
    IN  after[6]

ASSUME PacketsAssumption ==
    /\ PrintAsMeant(GoodPackets, Memories(GoodPackets))
    /\ PrintAsMeant(NestedPackets, Memories(NestedPackets))
    /\ \A p \in GoodPackets \union NestedPackets : p.text # <<>> => OnePacket(p.text)

\* OscInput: the messages of the packets as they appear on the stream.
InputTexts == {B.text, Bundle(2, <<Bundle(3, <<A>>), B>>).text}
InputAddresses == {Name("a"), Name("b")}
InputItems == (0 .. MaxPackets) \X (0 .. 6)

ASSUME BufferAssumption /\ OzTimeAssumption

-----------------------------------------------------------------------------
vars == <<part, pipeVars, inputVars, unixTime1000>>

Init ==
    /\ part \in Parts
    /\ PipeInit
    /\ InputInit
    /\ IF part = "time" THEN OzTimeInit ELSE unixTime1000 = 0

PipeStep == PipeNext /\ UNCHANGED <<inputVars, unixTime1000>>

InputStep ==
    /\ part = "input" /\ InputNext
    /\ UNCHANGED <<part, pipeVars, unixTime1000>>

Next == PipeStep \/ InputStep

(* The programs and the threads go on as long as they can: dumpOSC, which  *)
(* waits only in select, netcat, and the threads in Oz, which the engine   *)
(* schedules in turn.  Packets need not arrive, and the user need not act. *)
PipeRests == UNCHANGED <<part, inputVars, unixTime1000>>
InputRests == UNCHANGED <<part, pipeVars, unixTime1000>>
Fairness ==
    /\ WF_vars(part \in DOMAIN PacketsIn /\ DumpTurn /\ PipeRests)
    /\ WF_<<udp, unix, arrivals>>(part \in DOMAIN PacketsIn /\ (TakeUdp \/ TakeUnix))
    /\ WF_vars(part \in DOMAIN PacketsIn /\ Netcat(FALSE) /\ PipeRests)
    /\ WF_vars(part \in DOMAIN PacketsIn /\ Parse /\ PipeRests)
    /\ WF_vars(part = "input" /\ ServerStep /\ InputRests)
    /\ WF_vars(part = "input" /\ Buffering(Server) /\ InputRests)
    /\ WF_vars(part = "input" /\ Buffering(User) /\ InputRests)

Spec == Init /\ [][Next]_vars /\ Fairness

-----------------------------------------------------------------------------
(* OscPipeline: "Whenever such a message is received, Proc (a binary       *)
(* procedure) is called" (OSC.oz, addResponder): what is received appears  *)
(* on the stream.                                                          *)
EveryPacketArrives ==
    \A n \in 1 .. 2 : part \in {"good", "large"} /\ Len(received) >= n ~> Len(oscs) >= n

(* OscPipeline: dumpOSC empties both of its sockets, time and again: none  *)
(* of the damaged packets of the run, and no order of the sockets, makes   *)
(* it follow a null pointer or keeps it from reading; after an interrupt   *)
(* it ends, as soon as one more packet has come (main, catch_sigint,       *)
(* PrintTypeTaggedArgs).                                                   *)
ReadsOn ==
    /\ []( part \in {"good", "damaged"} /\ pc # "start"
             => <>(pc = "done" \/ (udp = <<>> /\ unix = <<>>)) )
    /\ (caught_sigint /\ (udp # <<>> \/ unix # <<>>)) ~> pc = "done"

(* OscInput: every packet on the stream is answered at some time: the      *)
(* locks of the buffer never keep the thread that answers for ever         *)
(* (ProcessResponders, put, getAll).                                       *)
PacketsAnswered == \A n \in 1 .. MaxPackets : part = "input" /\ Len(stream) >= n ~> Answered(n)
=============================================================================
