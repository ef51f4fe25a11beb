----------------------------- MODULE MC_OscSend -----------------------------
(***************************************************************************)
(* Building packets, in small instances: programs that call the library of *)
(* OSC-client.h (in bundles, with type tags, without looking at errors),   *)
(* and sendOSC (with type tags, without, with a small buffer).             *)
(*                                                                         *)
(* The programs have no state in common; part says which of them a         *)
(* behaviour is about, and the other rests in its initial state.           *)
(***************************************************************************)
EXTENDS OscClient

CONSTANTS None, Interactive

VARIABLES
    part,
    eb, eerr, eclosing, estray, esaid, emessages,   \* OscClient, careless
    buf, bundleDepth, opened, status, args, sent, typed, dropped, lines
                                                    \* see SendOSC

carelessVars == <<eb, eerr, eclosing, estray, esaid, emessages>>
sendVars == <<buf, bundleDepth, opened, status, args, sent, typed, dropped, lines>>
vars == <<part, clientVars, carelessVars, sendVars>>

-----------------------------------------------------------------------------
ClientNames == {<<"/", "a">>}

(* A careful client that opens bundles in bundles is OscClient as the .cfg *)
(* has it; one with type tags and arguments has the same variables; and    *)
(* one that goes on after an error has a buffer of its own.                *)
Bundles == INSTANCE MC_OscClient

TypeStrings == {<<",", "i">>, <<",", "f", "f">>}
Typing == INSTANCE MC_OscClient WITH
    Size <- 11, Times <- {1},
    Types <- TypeStrings, FloatLists <- {<<"x", "x">>},
    Strings <- {<<",", "a">>, <<"a", "b", "c", "d">>}

Careless == INSTANCE MC_OscClient WITH
    Careful <- FALSE,
    Size <- 9, Times <- {1}, LongestTalk <- 12,
    Types <- TypeStrings,
    b <- eb, err <- eerr, closing <- eclosing, stray <- estray, said <- esaid,
    messages <- emessages

-----------------------------------------------------------------------------
Number == [type |-> "i", first |-> "x"]
Str(s) == [type |-> "s", string |-> s]
TypedMessages == {[name |-> <<"/", "a">>, args |-> <<Number>>],
                  [name |-> <<"/", "b">>, args |-> <<Str(<<",", "c">>), Number>>]}

Send(size, tagged, most) == INSTANCE MC_SendOSC WITH
    Size <- size, UseTypeTags <- tagged, MAX_ARGS <- most,
    MaxLines <- 6,
    Messages <- TypedMessages,
    Play <- << [name |-> <<"/", "p">>, args |-> <<Number>>],
               [name |-> <<"/", "q">>, args |-> <<[Number EXCEPT !.type = "f"]>>] >>,
    CommandLines <- LET Arg == TypedMessages \union {None}
                    IN  {<<a>> : a \in Arg} \union (Arg \X Arg) \union (Arg \X Arg \X Arg)

ASSUME /\ ClientAssumption /\ ArgumentsAssumption
       /\ Typing!ClientAssumption /\ Typing!ArgumentsAssumption
       /\ Careless!ClientAssumption /\ Careless!ArgumentsAssumption
       /\ Send(60, TRUE, 2)!InputAssumption

-----------------------------------------------------------------------------
ClientParts == {"bundles", "types", "errors"}
SendParts == {"typed", "untyped", "overflow"}

Init ==
    /\ part \in ClientParts \union SendParts
    /\ ClientInit
    /\ Careless!ClientInit
    /\ Send(60, TRUE, 2)!Init
    /\ part \in ClientParts => args = Interactive

ClientStep ==
    /\ \/ part = "bundles" /\ ClientNext
       \/ part = "types" /\ Typing!ClientNext
    /\ UNCHANGED <<part, carelessVars, sendVars>>

CarelessStep ==
    /\ part = "errors" /\ Careless!ClientNext
    /\ UNCHANGED <<part, clientVars, sendVars>>

SendStep ==
    /\ \/ part = "typed" /\ Send(60, TRUE, 2)!Next
       \/ part = "untyped" /\ Send(60, FALSE, 1)!Next
       \/ part = "overflow" /\ Send(17, TRUE, 2)!Next
    /\ UNCHANGED <<part, clientVars, carelessVars>>

Next == ClientStep \/ CarelessStep \/ SendStep

(* A procedure of the library that was called goes on running.             *)
Fairness ==
    WF_vars(/\ part = "bundles"
            /\ \E stale \in Bytes : CloseAllStep(stale)
            /\ UNCHANGED <<part, carelessVars, sendVars>>)

Spec == Init /\ [][Next]_vars /\ Fairness

-----------------------------------------------------------------------------
TypeOK ==
    /\ part = "bundles" => Bundles!TypeOK
    /\ part = "types" => Typing!TypeOK
    /\ Careless!TypeOK

(* OscClient: the packet never outgrows the buffer, and the pointers of    *)
(* the OSCbuf lie in it, also for a client that goes on after errors; for  *)
(* one that does not, a packet that is done reads back as what was said,   *)
(* and after calls that all succeeded the bundleDepth is right.  A         *)
(* receiver sees type tags in exactly the messages that were written with  *)
(* them.                                                                   *)
DoneReadsBack ==
    /\ TypeOK
    /\ part = "bundles" => Bundles!SaidReadsBack /\ DepthCounts
    /\ part = "types" => Typing!SaidReadsBack /\ DepthCounts /\ Typing!TypedAsSaid

(* OscClient: OSC_closeAllBundles comes back, for a client that resets the *)
(* buffer after an error.                                                  *)
CallsReturn == part = "bundles" /\ closing ~> ~closing

(* SendOSC: as long as everything fits, SendBuffer never meets a packet    *)
(* that is not finished, and what is sent is what the user typed: nothing  *)
(* of an earlier group of brackets, and nothing twice.  After an overflow  *)
(* nothing is sent that a receiver cannot take apart.                      *)
SentAsTyped ==
    [][ /\ part \in {"typed", "untyped"} => Send(60, TRUE, 2)!NeverUnfinished'
        /\ part \in SendParts /\ sent'.count # sent.count =>
             /\ ~dropped' => Send(60, TRUE, 2)!Decode(sent'.packet) = typed'
             /\ part = "overflow" => Send(17, TRUE, 2)!WellFormed(sent'.packet) ]_vars
=============================================================================
