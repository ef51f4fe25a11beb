---------------------------- MODULE ScoreTiming ----------------------------
(***************************************************************************)
(* The temporal constraint problem a score hierarchy stands for.           *)
(*                                                                         *)
(* A score is a tree of items: Sequential and Simultaneous containers and  *)
(* elements (notes, pauses).  Every item is a TimeMixin with four finite   *)
(* domain parameters; some elements carry a pitch as well.  The methods    *)
(* constrainTiming tell, item by item, the constraints that make the tree  *)
(* a musical time line.  This module holds the constraints, what it means  *)
(* for an assignment to satisfy them, and the interval propagation by      *)
(* which the Mozart constraint store narrows a domain.                     *)
(***************************************************************************)
EXTENDS Integers, Sequences, FiniteSets

CONSTANTS
  Item,     \* the score items
  top,      \* the top-level item, given to Score.initScore
  Class,    \* Class[i] is "seq", "sim" or "element"
  items,    \* items[i]: the contained items, the attribute of that name
  Pitched,  \* the elements with a pitch parameter (Score.note)
  InitArg,  \* the values and domains given to the init methods, per parameter
  Sup,      \* FD.sup: the largest integer of a finite domain
  Rules     \* the constraints the user's script adds to the score

TimeKind == {"startTime", "endTime", "duration", "offsetTime"}

(* FD.max is binary: a Simultaneous of n items owns n-2 intermediate       *)
(* variables, the partial maxima over its first 2, ..., n-1 items.         *)
Partial(i) == IF Class[i] = "sim" THEN 2 .. Len(items[i]) - 1 ELSE {}

Param ==
  (Item \X TimeKind) \cup (Pitched \X {"pitch"})
    \cup UNION {{i} \X {"partial"} \X Partial(i) : i \in Item}

startTime(i) == <<i, "startTime">>
endTime(i) == <<i, "endTime">>
duration(i) == <<i, "duration">>
offsetTime(i) == <<i, "offsetTime">>

IsContainer(i) == Class[i] # "element"
IsTimeParameter(p) == p[2] \in TimeKind

FDRange == 0 .. Sup

(* A constraint is a relation over three parameters.                       *)
Rel(r, a, b, c) ==
  \/ r = "plus" /\ a = b + c
  \/ r = "max"  /\ a >= b /\ a >= c /\ a \in {b, c}
  \/ r = "eq"   /\ a = b
  \/ r = "neq"  /\ a # b

Constraint == [rel : {"plus", "max", "eq", "neq"}, x : Param, y : Param, z : Param]

Plus(x, y, z) == [rel |-> "plus", x |-> x, y |-> y, z |-> z]
Maximum(x, y, z) == [rel |-> "max", x |-> x, y |-> y, z |-> z]
Equal(x, y) == [rel |-> "eq", x |-> x, y |-> y, z |-> y]
Unequal(x, y) == [rel |-> "neq", x |-> x, y |-> y, z |-> y]

ASSUME ConstantsAssumption ==
  /\ Sup \in Nat
  /\ IsFiniteSet(Item) /\ top \in Item /\ Pitched \subseteq Item
  /\ Class \in [Item -> {"seq", "sim", "element"}]
  /\ items \in [Item -> Seq(Item)]
  /\ Rules \subseteq Constraint
  /\ \A p \in DOMAIN InitArg : InitArg[p] \subseteq FDRange

(***************************************************************************)
(* constrainTiming.  Each method returns the constraints in the order in   *)
(* which its thread tells them.                                            *)
(***************************************************************************)

(* duration =: end - start                                                 *)
ConstrainDuration(i) == <<Plus(endTime(i), startTime(i), duration(i))>>

SequentialTiming(i) ==
  LET xs == items[i]
      n == Len(xs)
  IN  IF n = 0 THEN << >>
      ELSE [k \in 1 .. n |->
              Plus(startTime(xs[k]),
                   IF k = 1 THEN startTime(i) ELSE endTime(xs[k - 1]),
                   offsetTime(xs[k]))]
           \o <<Equal(endTime(i), endTime(xs[n]))>>

(* faulty variant: the end is that of the last item, as in a Sequential    *)
AccumMax_LastItem(i) == <<Equal(endTime(i), endTime(items[i][Len(items[i])]))>>

(* the maximum accumulated from the left over the end times of the items   *)
AccumMax(i) ==
  LET xs == items[i]
      n == Len(xs)
      partial(k) ==
        IF k = 1 THEN endTime(xs[1])
        ELSE IF k = n THEN endTime(i) ELSE <<i, "partial", k>>
  IN  IF n = 1 THEN <<Equal(endTime(i), endTime(xs[1]))>>
      ELSE [k \in 1 .. n - 1 |-> Maximum(partial(k + 1), partial(k), endTime(xs[k + 1]))]

SimultaneousTiming(i) ==
  LET xs == items[i]
  IN  IF xs = << >> THEN << >>
      ELSE [k \in 1 .. Len(xs) |-> Plus(startTime(xs[k]), startTime(i), offsetTime(xs[k]))]
           \o AccumMax(i)

constrainTiming ==
  [i \in Item |->
    (CASE Class[i] = "seq" -> SequentialTiming(i)
       [] Class[i] = "sim" -> SimultaneousTiming(i)
       [] Class[i] = "element" -> << >>)
    \o ConstrainDuration(i)]

ToldBy(i) == {constrainTiming[i][k] : k \in DOMAIN constrainTiming[i]}

TimingConstraints == UNION {ToldBy(i) : i \in Item}

(***************************************************************************)
(* Domains.  A store maps every parameter to the set of its values.        *)
(***************************************************************************)

(* Parameter.initFD: a value that is still free becomes 0#FD.sup, a value  *)
(* or domain given to init stays; init gives offsetTime the default 0.     *)
InitFD(p) ==
  IF p \in DOMAIN InitArg THEN InitArg[p]
  ELSE IF p[2] = "offsetTime" THEN {0}
  ELSE FDRange

(* FD.reflect.size > 1, FD.reflect.min and FD.reflect.max                  *)
IsUndet(D) == Cardinality(D) > 1
ReflectMin(D) == CHOOSE m \in D : \A n \in D : m <= n
ReflectMax(D) == CHOOSE m \in D : \A n \in D : m >= n

(* What a propagator of =: sees of a domain: its bounds.                   *)
Hull(D) == {n \in FDRange : \E lo, hi \in D : lo <= n /\ n <= hi}

Scope(c) == {c.x, c.y, c.z}

(* One run of the propagator of c: in each of its parameters the values    *)
(* stay that the bounds of the others support.                             *)
Narrowed(store, c) ==
  LET X == Hull(store[c.x])
      Y == Hull(store[c.y])
      Z == Hull(store[c.z])
      supported(p) ==
        {v \in store[p] :
           \E a \in IF p = c.x THEN {v} ELSE X, b \in IF p = c.y THEN {v} ELSE Y :
             \E e \in IF p = c.z THEN {v} ELSE Z : Rel(c.rel, a, b, e)}
  IN  [p \in Param |-> IF p \in Scope(c) THEN supported(p) ELSE store[p]]

Narrows(store, c) == \E p \in Scope(c) : Narrowed(store, c)[p] # store[p]

Failed(store) == \E p \in Param : store[p] = {}

(***************************************************************************)
(* Meaning.                                                                *)
(***************************************************************************)
Holds(s, c) == Rel(c.rel, s[c.x], s[c.y], s[c.z])

InStore(s, store) == \A p \in Param : s[p] \in store[p]

IsSolution(s) ==
  /\ \A p \in Param : s[p] \in InitFD(p)
  /\ \A c \in TimingConstraints \cup Rules : Holds(s, c)
=============================================================================
