--------------------------- MODULE MC_ScoreSearch --------------------------
(***************************************************************************)
(* Small scores for ScoreSearch and ScoreTimeline.                         *)
(***************************************************************************)
EXTENDS ScoreTimeline, ScoreCollect

----------------------------------------------------------------------------
(* Score "line": a sequential of two notes, the second after an optional   *)
(* rest; the first has a pitch; the two durations differ.                  *)
LineItem == {"s", "a", "b"}
LineClass == [s |-> "seq", a |-> "element", b |-> "element"]
LineItems == [s |-> <<"a", "b">>, a |-> << >>, b |-> << >>]
LineInit ==
  << "s", "startTime" >> :> {0}
    @@ << "a", "duration" >> :> 1 .. 2
    @@ << "b", "duration" >> :> 1 .. 3
    @@ << "b", "offsetTime" >> :> 0 .. 1
    @@ << "a", "pitch" >> :> {0, 2, 5}
LineInitFixed == << "b", "offsetTime" >> :> {1} @@ LineInit
LineRules == {Unequal(duration("a"), duration("b"))}

(* Score "nested": a simultaneous of a sequential, which holds a note, and  *)
(* of two notes, the first of which may be delayed.                        *)
NestedItem == {"m", "s", "a", "b", "c"}
NestedClass ==
  [m |-> "sim", s |-> "seq", a |-> "element", b |-> "element", c |-> "element"]
NestedItems ==
  [m |-> <<"s", "b", "c">>, s |-> <<"a">>, a |-> << >>, b |-> << >>, c |-> << >>]
NestedInit ==
  << "m", "startTime" >> :> {0}
    @@ << "a", "duration" >> :> 1 .. 2
    @@ << "b", "duration" >> :> {1, 3}
    @@ << "b", "offsetTime" >> :> 0 .. 1
    @@ << "c", "duration" >> :> {2, 4}
NestedRules == {Unequal(endTime("s"), endTime("b"))}

----------------------------------------------------------------------------
(* The arguments of MakeSearchScript.                                      *)
Orders ==
  {"naive", "size", "width", "deg", "nbSusps", "dom+deg", "min", "max", "timeParams",
   "timeParamsAndSize", "leftToRight", "rightToLeft"}
Values == {"min", "max", "mid", "splitMin", "splitMax", "random"}

AllValues == [order : {"size"}, value : Values \ {"random"}]
AllOrders == [order : Orders, value : {"splitMin"}]
WidthMid == {[order |-> "width", value |-> "mid"]}
Randomised == {[order |-> "dom", value |-> "random"]}
DomDeg == {[order |-> "dom+deg", value |-> "min"]}
=============================================================================
