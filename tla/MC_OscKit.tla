----------------------------- MODULE MC_OscKit ------------------------------
(***************************************************************************)
(* The parts of the OSC kit, each in small instances: the scheduler queue, *)
(* the receiver (with plenty of memory, with little, and with methods that *)
(* schedule messages), the address space (with and without the removal of  *)
(* aliases), pattern matching, strings and time tags.                      *)
(*                                                                         *)
(* The parts have no state in common; part says which of them a behaviour  *)
(* is about, and the others rest in their initial states.                  *)
(***************************************************************************)
EXTENDS OscQueue, OscReceive, OscAddressSpace, OscTimeTag, OscStringBlocks

CONSTANTS f, g, s

VARIABLES
    part,
    parts               \* see MC_OscPatternMatch

-----------------------------------------------------------------------------
(* Packets for the receiver.                                               *)
Msg(k) == [kind |-> "message", methods |-> k, schedules |-> NoTime]
Bundle(t, elems) == [kind |-> "bundle", timetag |-> t, elems |-> elems]
Scheduling(d) == [kind |-> "message", methods |-> 1, schedules |-> d]
Short == [kind |-> "short"]
Bad == [kind |-> "bad"]
Odd == [kind |-> "odd"]

\* Messages with one, two and no methods, bundles in bundles, before and
\* after the bundle around them, and damaged elements.
PlainPackets ==
    { Msg(1),
      Bundle(2, <<Msg(1), Bundle(2, <<Bundle(1, <<Msg(1)>>), Msg(2)>>), Msg(1)>>),
      Bundle(3, <<Msg(0), Short, Bundle(4, <<Msg(1)>>)>>),
      Bundle(2, <<Msg(1), Bad, Msg(1)>>) }

\* The method schedules a message, as ScaleMethod of simplesynth-osc.c does.
SchedulingPackets == { Bundle(3, <<Scheduling(0), Msg(1)>>), Bundle(2, <<Msg(1), Msg(1)>>) }

\* The places of elements in these packets, and in those of OSCScheduleInternalMessages.
KitPositions == {<<>>, <<1>>, <<2>>, <<3>>, <<2, 1>>, <<2, 2>>, <<2, 1, 1>>, <<3, 1>>}

\* With plenty of memory; with the constants of the configuration there is little.
Roomy(packets) == INSTANCE OscReceive WITH
    CAPACITY <- 8, NumQD <- 8, NumNodes <- 8, Packets <- packets

Ample == Roomy(PlainPackets \union {Odd})!Next
Internal == Roomy(SchedulingPackets)!Next

\* A smaller space, in which every pattern is dispatched.
Space == INSTANCE OscAddressSpace WITH Slashed <- {}, MAX_CHILDREN_PER_CONTAINER <- 2

Matching == INSTANCE MC_OscPatternMatch WITH
    Letters <- 97 .. 99, LongestName <- 4, MaxParts <- 3

\* A character, the null byte and a byte of a number; and what lies behind a block.
SomeBytes == {Nul, "a", "x"}
SomeBehind == {<<"a", "a", "a", "a">>, <<"a", Nul, Nul, Nul>>, <<"x", "x", "x", "x">>,
               <<Nul, Nul, Nul, Nul>>}

ASSUME ReceiveAssumption /\ Roomy({})!ReceiveAssumption /\ TimeTagAssumption
       /\ SpaceAssumption /\ Space!SpaceAssumption /\ BlocksAssumption

-----------------------------------------------------------------------------
kitVars == <<part, queueVars, vars, spaceVars, parts, blockVars, timeVars>>

ReceiveParts == {"ample", "scarce", "internal"}
Parts == {"queue", "address space", "addresses", "patterns", "strings", "time"}
           \union ReceiveParts

KitInit ==
    /\ part \in Parts
    /\ QueueInit
    /\ IF part = "scarce" THEN Init ELSE Roomy({})!Init
    /\ freePackets = CHOOSE fp \in [1 .. 2 -> Buffers] : fp[1] # fp[2]  \* no loss of generality
    /\ SpaceInit
    /\ Matching!Init
    /\ BlocksInit
    /\ part # "strings" => behind = CHOOSE b \in Behind : TRUE
    /\ TimeInit

QueueStep ==
    /\ part = "queue" /\ ReceiverNext
    /\ UNCHANGED <<part, vars, spaceVars, parts, blockVars, timeVars>>

ReceiveStep ==
    /\ \/ part = "ample" /\ Ample
       \/ part = "scarce" /\ Next
       \/ part = "internal" /\ Internal
    /\ UNCHANGED <<part, queueVars, spaceVars, parts, blockVars, timeVars>>

SpaceStep ==
    /\ \/ part = "address space" /\ SpaceNext
       \/ part = "addresses" /\ Space!Build
    /\ UNCHANGED <<part, queueVars, vars, parts, blockVars, timeVars>>

PatternStep ==
    /\ part = "patterns" /\ Matching!Next
    /\ UNCHANGED <<part, queueVars, vars, spaceVars, blockVars, timeVars>>

StringStep ==
    /\ part = "strings" /\ BlocksNext
    /\ UNCHANGED <<part, queueVars, vars, spaceVars, parts, timeVars>>

TimeStep ==
    /\ part = "time" /\ TimeNext
    /\ UNCHANGED <<part, queueVars, vars, spaceVars, parts, blockVars>>

KitNext == QueueStep \/ ReceiveStep \/ SpaceStep \/ PatternStep \/ StringStep \/ TimeStep

(* The kit goes on with a call until it returns, the client calls again    *)
(* and again to have all ready messages invoked, and time passes.          *)
Scarcely ==
    part = "scarce" /\ UNCHANGED <<part, queueVars, spaceVars, parts, blockVars, timeVars>>

ReceiveFairness ==
    /\ WF_kitVars(Scarcely /\ InCall)
    /\ WF_kitVars(Scarcely /\ OSCInvokeMessagesThatAreReady(TRUE))
    /\ WF_kitVars(Scarcely /\ Tick)

KitSpec == KitInit /\ [][KitNext]_kitVars /\ ReceiveFairness

-----------------------------------------------------------------------------
(* The properties of the parts that are not stated in their modules.       *)

(* OscReceive: a packet that was accepted is freed at the end, "after the  *)
(* last message in it takes effect" (OSC-receive.h).                       *)
BuffersReturn ==
    \A b \in Buffers :
        part = "scarce" /\ refcount[b] > 0 ~> IsFree(b)

(* OscAddressSpace: a pattern reaches every address that matches it, as    *)
(* far as there are callback nodes; and the address of a container, given  *)
(* as a pattern, leads back to it.                                         *)
DispatchIsComplete ==
    part = "addresses" => Space!EveryMatchIsCalled /\ Space!AddressLeadsBack

(* OscPatternMatch: whatever a pattern means is matched, and, by a pattern *)
(* without a list inside, nothing else.                                    *)
MatchesAsMeant == part = "patterns" => Matching!FindsEveryMatch /\ Matching!NoFalseMatch
=============================================================================
