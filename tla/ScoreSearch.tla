---------------------------- MODULE ScoreSearch ----------------------------
(***************************************************************************)
(* A search script made by SDistro.makeSearchScript, explored by Search.   *)
(*                                                                         *)
(* The script creates a score (Score.makeScore initialises the domains and *)
(* starts one thread per item that tells its timing constraints), adds the *)
(* user's rules and distributes the parameters of the elements with        *)
(* FdDistribute: whenever the space is stable it picks a parameter E and a *)
(* domain D and creates the choice  E::D  or  E::compl(D).  The engine     *)
(* explores the resulting tree depth first and, for Search.one, stops at   *)
(* the first solution.                                                     *)
(***************************************************************************)
EXTENDS ScoreTiming, SequencesExt

CONSTANTS
  Vec,      \* the vector given to FdDistribute: the parameters to distribute
  Distros,  \* the distribution arguments considered: [order, value] records
  Wanted,   \* the number of solutions after which the engine stops
  Candidate \* the assignments the properties below speak about

ASSUME DistributionAssumption ==
  /\ Vec \in Seq(Param)
  /\ Wanted \in Nat \ {0}
  /\ \A d \in Distros :
       d.value \in {"min", "max", "mid", "splitMin", "splitMax", "random", "heuristic"}

VARIABLES
  distro,   \* the distribution arguments given to MakeSearchScript
  declared, \* the items whose parameters are finite domain variables already
  told,     \* told[i]: the number of constraints the thread of item i has told
  dom,      \* the constraint store of the space being explored
  xs,       \* what FdDistribute still has to look at: positions in Vec
  stack,    \* the spaces of the second alternatives not explored yet
  found,    \* the stores of the solutions, in the order they were found
  status    \* the control state of script and engine

vars == <<distro, declared, told, dom, xs, stack, found, status>>

Store == [Param -> SUBSET FDRange]

TypeOK ==
  /\ distro \in Distros
  /\ declared \subseteq Item
  /\ told \in [Item -> Nat]
  /\ \A i \in Item : told[i] <= Len(constrainTiming[i])
  /\ dom \in Store
  /\ xs \subseteq DOMAIN Vec
  /\ stack \in Seq([dom : Store, xs : SUBSET DOMAIN Vec])
  /\ found \in Seq(Store)
  /\ status \in {"building", "searching", "enough", "exhausted"}

Init ==
  /\ distro \in Distros
  /\ declared = {}
  /\ told = [i \in Item |-> 0]
  /\ dom = [p \in Param |-> InitFD(p)]
  /\ xs = {}
  /\ stack = << >>
  /\ found = << >>
  /\ status = "building"

Told ==
  (UNION {{constrainTiming[i][k] : k \in 1 .. told[i]} : i \in Item})
    \cup (IF status = "building" THEN {} ELSE Rules)

Running == status \in {"building", "searching"} /\ ~Failed(dom)

(***************************************************************************)
(* Creating the score.                                                     *)
(***************************************************************************)

(* InitDomains: first the top-level item, then the items collected from    *)
(* it.  A thread for constrainTiming is started for each.                  *)
InitDomains(i) ==
  /\ Running
  /\ status = "building"
  /\ i \notin declared
  /\ i # top => top \in declared
  /\ declared' = declared \cup {i}
  /\ UNCHANGED <<told, dom, xs, stack, found, status>>

(* The thread of item i tells its next constraint.  It suspends while one  *)
(* of the parameters is not yet a finite domain variable.                  *)
Tell(i) ==
  /\ Running
  /\ i \in declared
  /\ told[i] < Len(constrainTiming[i])
  /\ \A p \in Scope(constrainTiming[i][told[i] + 1]) : p[1] \in declared
  /\ told' = [told EXCEPT ![i] = @ + 1]
  /\ UNCHANGED <<declared, dom, xs, stack, found, status>>

(* MakeScore has returned: the script tells the user's rules and calls     *)
(* FdDistribute with the parameters collected from the score.              *)
Distribute ==
  /\ Running
  /\ status = "building"
  /\ declared = Item
  /\ status' = "searching"
  /\ xs' = DOMAIN Vec
  /\ UNCHANGED <<declared, told, dom, stack, found>>

Propagate(c) ==
  /\ Running
  /\ Narrows(dom, c)
  /\ dom' = Narrowed(dom, c)
  /\ UNCHANGED <<declared, told, xs, stack, found, status>>

(* Space.waitStable                                                        *)
Stable ==
  /\ Running
  /\ status = "searching"
  /\ \A i \in Item : told[i] = Len(constrainTiming[i])
  /\ \A c \in Told : ~Narrows(dom, c)

(***************************************************************************)
(* Variable orderings: Order(x, y) says that x is preferred to y.  The     *)
(* constructors take what the tie-breaking ordering P says of x and y.     *)
(***************************************************************************)
Width(D) == ReflectMax(D) - ReflectMin(D)

(* FD.reflect.nbSusps: the propagators that still wait for the parameter   *)
NbSusps(p) ==
  Cardinality({c \in Told : p \in Scope(c) /\ \E q \in Scope(c) : IsUndet(dom[q])})

Naive(x, y) == FALSE
Dom(x, y) == Cardinality(dom[x]) < Cardinality(dom[y])
WidthOrder(x, y) == Width(dom[x]) < Width(dom[y])
Deg(x, y) == NbSusps(x) < NbSusps(y)
MinOrder(x, y) == ReflectMin(dom[x]) < ReflectMin(dom[y])
MaxOrder(x, y) == ReflectMax(dom[x]) > ReflectMax(dom[y])
TimeParams_Reversed(x, y) == ~IsTimeParameter(x)  \* faulty variant
TimeParams(x, y) == IsTimeParameter(x)

MakeDom(P, x, y) ==
  \/ Cardinality(dom[x]) > Cardinality(dom[y])
  \/ Cardinality(dom[x]) = Cardinality(dom[y]) /\ P

MakeDeg(P, x, y) ==
  \/ NbSusps(x) > NbSusps(y)
  \/ NbSusps(x) = NbSusps(y) /\ P

MakeTimeParams(P, x, y) ==
  IF IsTimeParameter(x) # IsTimeParameter(y) THEN IsTimeParameter(x) ELSE P

(* A bound time point is preferred to an unbound one, an earlier one to a  *)
(* later one, and P decides between equal ones.                            *)
MakeLeftToRight(P, x, y) ==
  LET S1 == dom[startTime(x[1])]
      S2 == dom[startTime(y[1])]
  IN  IF ~IsUndet(S1) /\ ~IsUndet(S2)
      THEN \/ ReflectMin(S1) < ReflectMin(S2)
           \/ S1 = S2 /\ P
      ELSE ~IsUndet(S1)

MakeRightToLeft(P, x, y) ==
  LET E1 == dom[endTime(x[1])]
      E2 == dom[endTime(y[1])]
  IN  IF ~IsUndet(E1) /\ ~IsUndet(E2)
      THEN \/ ReflectMin(E1) > ReflectMin(E2)
           \/ E1 = E2 /\ P
      ELSE ~IsUndet(E1)

(* The order function MakeFDDistribution finds under the given name.       *)
Order(x, y) ==
  LET order == distro.order IN
  CASE order = "naive" -> Naive(x, y)
    [] order \in {"size", "dom"} -> Dom(x, y)
    [] order = "width" -> WidthOrder(x, y)
    [] order = "deg" -> Deg(x, y)
    [] order \in {"nbSusps", "deg+dom"} -> MakeDeg(Dom(x, y), x, y)
    [] order = "dom+deg" -> MakeDom(Deg(x, y), x, y)
    [] order = "min" -> MinOrder(x, y)
    [] order = "max" -> MaxOrder(x, y)
    [] order = "timeParams" -> TimeParams(x, y)
    [] order = "timeParamsAndSize" -> MakeTimeParams(Dom(x, y), x, y)
    [] order \in {"startTime", "leftToRight"} -> MakeLeftToRight(TimeParams(x, y), x, y)
    [] order = "rightToLeft" -> MakeRightToLeft(TimeParams(x, y), x, y)

(* ChooseAndRetFiltVars runs over the list of remaining parameters, keeps  *)
(* those that pass the filter undet and prefers, one after the other, what *)
(* Order prefers to the parameter chosen so far.                           *)
Filtered == {k \in xs : IsUndet(dom[Vec[k]])}

Preferred[k \in 0 .. Len(Vec)] ==
  IF k = 0 THEN 0
  ELSE LET accu == Preferred[k - 1]
       IN  IF k \in Filtered /\ (accu = 0 \/ Order(Vec[k], Vec[accu])) THEN k ELSE accu

Chosen == Preferred[Len(Vec)]

(***************************************************************************)
(* Value orderings: the domains D that SelVal may return for the domain V. *)
(***************************************************************************)
(* FD.reflect.mid: the element closest to the middle, the smaller in a tie *)
MidDistance(V, v) ==
  LET twice == ReflectMin(V) + ReflectMax(V)
  IN  IF 2 * v >= twice THEN 2 * v - twice ELSE twice - 2 * v

ReflectMid(V) ==
  CHOOSE m \in V : \A v \in V :
    \/ MidDistance(V, m) < MidDistance(V, v)
    \/ MidDistance(V, m) = MidDistance(V, v) /\ m <= v

(* faulty variant: the middle goes to the upper half in both split orders  *)
SelVal_OffByOne(V) ==
  LET value == distro.value IN
  CASE value = "min" -> {{ReflectMin(V)}}
    [] value = "max" -> {{ReflectMax(V)}}
    [] value = "mid" -> {{ReflectMid(V)}}
    [] value = "splitMin" -> {0 .. ReflectMid(V) - 1}
    [] value = "splitMax" -> {ReflectMid(V) .. Sup}
    [] value \in {"random", "heuristic"} -> {{v} : v \in V}

SelVal(V) ==
  LET value == distro.value IN
  CASE value = "min" -> {{ReflectMin(V)}}
    [] value = "max" -> {{ReflectMax(V)}}
    [] value = "mid" -> {{ReflectMid(V)}}
    [] value = "splitMin" -> {0 .. ReflectMid(V)}
    [] value = "splitMax" -> {ReflectMid(V) + 1 .. Sup}
    [] value \in {"random", "heuristic"} -> {{v} : v \in V}

(***************************************************************************)
(* Distribution and depth-first exploration.                               *)
(***************************************************************************)

(* faulty variant: the chosen parameter is taken from the list             *)
Choose_DropsChosen ==
  /\ Stable
  /\ \E k \in Filtered :
       LET E == Vec[k]
           rest == Filtered \ {k}
       IN  /\ k = Chosen
           /\ \E D \in SelVal(dom[E]) :
                /\ dom' = [dom EXCEPT ![E] = @ \cap D]
                /\ stack' = <<[dom |-> [dom EXCEPT ![E] = @ \ D], xs |-> rest]>> \o stack
           /\ xs' = rest
  /\ UNCHANGED <<declared, told, found, status>>

(* faulty variant: the second alternative does not exclude D               *)
Choose_NoComplement ==
  /\ Stable
  /\ \E k \in Filtered :
       LET E == Vec[k]
       IN  /\ k = Chosen
           /\ \E D \in SelVal(dom[E]) : dom' = [dom EXCEPT ![E] = @ \cap D]
  /\ stack' = <<[dom |-> dom, xs |-> Filtered]>> \o stack
  /\ xs' = Filtered
  /\ UNCHANGED <<declared, told, found, status>>

(* faulty variant: the second alternative is the complement of the domain  *)
(* V of the parameter, not of the chosen part D                            *)
Choose_ComplementOfV ==
  /\ Stable
  /\ \E k \in Filtered :
       LET E == Vec[k]
       IN  /\ k = Chosen
           /\ \E D \in SelVal(dom[E]) :
                /\ dom' = [dom EXCEPT ![E] = @ \cap D]
                /\ stack' = <<[dom |-> [dom EXCEPT ![E] = {}], xs |-> Filtered]>> \o stack
  /\ xs' = Filtered
  /\ UNCHANGED <<declared, told, found, status>>

(* FdDistribute's recursive procedure Do: the choice point for E and D.    *)
(* The engine continues with the first alternative.  Do recurs with the    *)
(* filtered list, E included: its domain may still have several values.    *)
Choose ==
  /\ Stable
  /\ \E k \in Filtered :
       LET E == Vec[k]
       IN  /\ k = Chosen
           /\ \E D \in SelVal(dom[E]) :
                /\ dom' = [dom EXCEPT ![E] = @ \cap D]
                /\ stack' = <<[dom |-> [dom EXCEPT ![E] = @ \ D], xs |-> Filtered]>> \o stack
  /\ xs' = Filtered
  /\ UNCHANGED <<declared, told, found, status>>

(* The engine continues with the youngest open alternative, if any.        *)
Backtrack ==
  IF stack = << >>
  THEN status' = "exhausted" /\ UNCHANGED <<dom, xs, stack>>
  ELSE /\ dom' = Head(stack).dom
       /\ xs' = Head(stack).xs
       /\ stack' = Tail(stack)
       /\ UNCHANGED status

(* The space has failed.                                                   *)
Fail ==
  /\ status \in {"building", "searching"}
  /\ Failed(dom)
  /\ Backtrack
  /\ UNCHANGED <<declared, told, found>>

(* The script is done: nothing is left to distribute.                      *)
Succeed ==
  /\ Stable
  /\ Filtered = {}
  /\ found' = Append(found, dom)
  /\ IF Len(found') = Wanted
     THEN status' = "enough" /\ UNCHANGED <<dom, xs, stack>>
     ELSE Backtrack
  /\ UNCHANGED <<declared, told>>

Terminated == status \in {"enough", "exhausted"} /\ UNCHANGED vars

Step ==
  \/ \E i \in Item : InitDomains(i) \/ Tell(i)
  \/ Distribute
  \/ \E c \in Told : Propagate(c)
  \/ Choose
  \/ Fail
  \/ Succeed

(* The distribution arguments stay what they were.                         *)
Next == (Step /\ UNCHANGED distro) \/ Terminated

(* Oz threads are scheduled fairly and the engine runs until it stops.     *)
Spec == Init /\ [][Next]_vars /\ WF_vars(Next)

-----------------------------------------------------------------------------
(***************************************************************************)
(* Properties.                                                             *)
(***************************************************************************)
Solutions == {s \in Candidate : IsSolution(s)}

(* The spaces that are still to be explored.                               *)
Open ==
  (IF status \in {"building", "searching"} THEN {dom} ELSE {})
    \cup {stack[k].dom : k \in DOMAIN stack}

(* Completeness: a solution of the score's constraints is either found or  *)
(* still in one of the open spaces, whatever the propagators and the       *)
(* distribution strategy have cut away.  In particular a search that ends  *)
(* with nil has proved that the score has no solution.                     *)
NoSolutionLost ==
  \A s \in Solutions :
    \/ \E k \in DOMAIN found : InStore(s, found[k])
    \/ \E store \in Open : InStore(s, store)

Apart(d, e) == \E p \in Param : d[p] \cap e[p] = {}

(* The two alternatives of a choice exclude each other: no assignment is   *)
(* in two of the spaces, so that no solution can be found twice.           *)
SpacesDisjoint ==
  /\ \A j, k \in DOMAIN found : j # k => Apart(found[j], found[k])
  /\ \A j, k \in DOMAIN stack : j # k => Apart(stack[j].dom, stack[k].dom)
  /\ \A j \in DOMAIN found, k \in DOMAIN stack : Apart(found[j], stack[k].dom)
  /\ status \in {"building", "searching"} =>
       /\ \A j \in DOMAIN found : Apart(dom, found[j])
       /\ \A k \in DOMAIN stack : Apart(dom, stack[k].dom)

(* Soundness: what the search returns is one assignment, and a solution.   *)
(* Only the parameters of elements are distributed; that the parameters of *)
(* the containers are determined and consistent is left to propagation.    *)
SolutionSound ==
  \A k \in DOMAIN found : \E s \in Solutions : \A p \in Param : found[k][p] = {s[p]}

(* A choice point makes progress in both alternatives: the chosen domain   *)
(* is split into two parts of which neither is empty.                      *)
ChoiceSplits ==
  [][Len(stack') > Len(stack) =>
       \E p \in Param : LET alt == Head(stack').dom[p] IN
         dom'[p] # {} /\ alt # {} /\ dom'[p] \cap alt = {} /\ dom'[p] \cup alt = dom[p]]_vars

(* The ordering leftToRight visits the parameters in the order of the      *)
(* start times of their items: when a parameter is chosen the start time   *)
(* of its item is known and no undetermined parameter belongs to an item   *)
(* that starts earlier, and time parameters come before the others.  (The  *)
(* doc asks for a determined start time of the outmost container.)         *)
VisitsLeftToRight ==
  LET start(k) == dom[startTime(Vec[k][1])]
  IN  distro.order = "leftToRight" /\ Stable /\ Filtered # {} =>
        /\ ~IsUndet(start(Chosen))
        /\ \A k \in Filtered :
             /\ ReflectMin(start(Chosen)) <= ReflectMin(start(k))
             /\ start(k) = start(Chosen) /\ IsTimeParameter(Vec[k])
                  => IsTimeParameter(Vec[Chosen])

(* The doc of MakeDom: the ordering "first visits score parameters with    *)
(* smallest domain size".                                                  *)
VisitsSmallestDomainFirst ==
  distro.order = "dom+deg" /\ Stable =>
    \A k \in Filtered : Cardinality(dom[Vec[Chosen]]) <= Cardinality(dom[Vec[k]])

(* The assignment a solution stands for.                                   *)
Assignment(store) == [p \in Param |-> CHOOSE v \in store[p] : TRUE]

(* The search implements the abstract solver.                              *)
Abstract == INSTANCE Solver WITH
  Solution <- Solutions,
  delivered <- {Assignment(found[k]) : k \in DOMAIN found},
  finished <- status \in {"enough", "exhausted"}

ImplementsSolver == Abstract!Spec
=============================================================================
