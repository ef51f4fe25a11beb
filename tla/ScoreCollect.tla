---------------------------- MODULE ScoreCollect ---------------------------
(***************************************************************************)
(* The method collect of the MappingMixin in tree mode: the objects a      *)
(* score script traverses, in the order in which it sees them.             *)
(***************************************************************************)
EXTENDS ScoreTiming, SequencesExt

(* The parameters in the order in which initTiming and the subclasses link *)
(* them to their item.                                                     *)
getParameters(i) ==
  <<startTime(i), endTime(i), duration(i), offsetTime(i)>>
    \o (IF i \in Pitched THEN << <<i, "pitch">> >> ELSE << >>)

ParametersOf(is) == FlattenSeq([k \in DOMAIN is |-> getParameters(is[k])])

(* CollectAux_Tree for the parameters: those of all contained items, then  *)
(* the recursive results item by item.                                     *)
CollectAux_Tree ==
  LET collect[i \in Item] ==
        ParametersOf(items[i])
          \o FlattenSeq([k \in DOMAIN items[i] |-> collect[items[i][k]]])
  IN  collect

(* What MakeSearchScript distributes with the default test: the parameters *)
(* collected from the score that do not belong to a container.             *)
DistributionVector ==
  SelectSeq(getParameters(top) \o CollectAux_Tree[top], LAMBDA p : ~IsContainer(p[1]))
=============================================================================
