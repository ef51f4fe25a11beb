------------------------ MODULE ScoreSearch_proofs ------------------------
(***************************************************************************)
(* Theorems about ScoreSearch, for every score, every rules, every domain  *)
(* bound and every distribution: first what its invariants are, then what  *)
(* a search returns and in which order it looks for it, and last that what *)
(* it returns are the time lines of ScoreTimeline.                         *)
(***************************************************************************)
EXTENDS ScoreTimeline, FiniteSetTheorems, SequenceTheorems, WellFoundedInduction, TLAPS

----------------------------------------------------------------------------
(* The constraints are constraints over parameters of the score.           *)

(* Every time parameter of an item is a parameter of the score.            *)
LEMMA TimeParam ==
  ASSUME NEW i \in Item
  PROVE  /\ startTime(i) \in Param /\ endTime(i) \in Param
         /\ duration(i) \in Param /\ offsetTime(i) \in Param
BY DEF Param, TimeKind, startTime, endTime, duration, offsetTime

(* Concatenating sequences of constraints gives one.                       *)
LEMMA ConstraintConcat ==
  ASSUME NEW s \in Seq(Constraint), NEW t \in Seq(Constraint)
  PROVE  s \o t \in Seq(Constraint)
BY ConcatProperties

(* A function from 1 .. n into the constraints is a sequence of them.      *)
LEMMA ConstraintSeq ==
  ASSUME NEW n \in Nat, NEW f \in [1 .. n -> Constraint]
  PROVE  f \in Seq(Constraint)
OBVIOUS

(* Sequential.constrainTiming tells constraints over the score.            *)
LEMMA SequentialTyped ==
  ASSUME NEW i \in Item
  PROVE  SequentialTiming(i) \in Seq(Constraint)
<1> DEFINE its == items[i]
           n == Len(its)
           starts == [k \in 1 .. n |-> Plus(startTime(its[k]),
                        IF k = 1 THEN startTime(i) ELSE endTime(its[k - 1]),
                        offsetTime(its[k]))]
<1>1. its \in Seq(Item) /\ n \in Nat
  BY ConstantsAssumption
<1>2. ASSUME NEW k \in 1 .. n
      PROVE  its[k] \in Item
  BY <1>1
<1>3. ASSUME NEW k \in 1 .. n
      PROVE  starts[k] \in Constraint
  <2>1. k # 1 => its[k - 1] \in Item
    BY <1>1
  <2>2. (IF k = 1 THEN startTime(i) ELSE endTime(its[k - 1])) \in Param
    BY <2>1, TimeParam
  <2>. QED  BY <1>2, <2>2, TimeParam DEF Plus, Constraint
<1>4. starts \in Seq(Constraint)
  <2>1. starts \in [1 .. n -> Constraint]
    BY <1>3
  <2>. QED  BY <1>1, <2>1, ConstraintSeq
<1>5. n # 0 => <<Equal(endTime(i), endTime(its[n]))>> \in Seq(Constraint)
  <2>1. n # 0 => Equal(endTime(i), endTime(its[n])) \in Constraint
    BY <1>1, <1>2, TimeParam DEF Equal, Constraint
  <2>. QED  BY <2>1
<1>. QED  BY <1>1, <1>4, <1>5, ConstraintConcat DEF SequentialTiming

(* Simultaneous.constrainTiming tells constraints over the score, the      *)
(* intermediate variables of the accumulated maximum included.             *)
LEMMA SimultaneousTyped ==
  ASSUME NEW i \in Item, Class[i] = "sim"
  PROVE  SimultaneousTiming(i) \in Seq(Constraint)
<1> DEFINE its == items[i]
           n == Len(its)
           partial(k) ==
             IF k = 1 THEN endTime(its[1]) ELSE IF k = n THEN endTime(i) ELSE <<i, "partial", k>>
           starts == [k \in 1 .. n |-> Plus(startTime(its[k]), startTime(i), offsetTime(its[k]))]
           maxima == [k \in 1 .. n - 1 |-> Maximum(partial(k + 1), partial(k), endTime(its[k + 1]))]
<1>1. its \in Seq(Item) /\ n \in Nat
  BY ConstantsAssumption
<1>2. ASSUME NEW k \in 1 .. n
      PROVE  its[k] \in Item
  BY <1>1
<1>3. starts \in Seq(Constraint)
  <2>1. ASSUME NEW k \in 1 .. n
        PROVE  starts[k] \in Constraint
    BY <1>2, TimeParam DEF Plus, Constraint
  <2>2. starts \in [1 .. n -> Constraint]
    BY <2>1
  <2>. QED  BY <1>1, <2>2, ConstraintSeq
<1>4. ASSUME NEW k \in 1 .. n
      PROVE  partial(k) \in Param
  <2>1. CASE k = 1
    BY <2>1, <1>2, TimeParam
  <2>2. CASE k # 1 /\ k = n
    BY <2>2, TimeParam
  <2>3. CASE k # 1 /\ k # n
    <3>1. k \in Partial(i)
      BY <2>3, <1>1 DEF Partial
    <3>2. <<i, "partial", k>> \in Param
      BY <3>1 DEF Param
    <3>. QED  BY <2>3, <3>2
  <2>. QED  BY <2>1, <2>2, <2>3
<1>5. n # 0 => maxima \in Seq(Constraint)
  <2>1. ASSUME NEW k \in 1 .. n - 1
        PROVE  maxima[k] \in Constraint
    <3>1. k \in 1 .. n /\ k + 1 \in 1 .. n
      BY <1>1
    <3>2. partial(k) \in Param /\ partial(k + 1) \in Param
      BY <3>1, <1>4
    <3>3. endTime(its[k + 1]) \in Param
      BY <3>1, <1>2, TimeParam
    <3> HIDE DEF partial
    <3>. QED  BY <3>2, <3>3 DEF Maximum, Constraint
  <2>2. maxima \in [1 .. n - 1 -> Constraint]
    BY <2>1
  <2>. QED  BY <1>1, <2>2, ConstraintSeq
<1>6. n = 1 => AccumMax(i) \in Seq(Constraint)
  <2>1. n = 1 => Equal(endTime(i), endTime(its[1])) \in Constraint
    BY <1>2, TimeParam DEF Equal, Constraint
  <2>. QED  BY <2>1 DEF AccumMax
<1>7. n \notin {0, 1} => AccumMax(i) \in Seq(Constraint)
  <2>1. n # 1 => AccumMax(i) = maxima
    BY DEF AccumMax
  <2>. QED  BY <2>1, <1>5
<1>8. n = 0 => SimultaneousTiming(i) = << >>
  BY <1>1 DEF SimultaneousTiming
<1>. QED  BY <1>1, <1>3, <1>6, <1>7, <1>8, ConstraintConcat DEF SimultaneousTiming

(* What the thread of an item tells are constraints over the score.        *)
LEMMA ConstrainTimingTyped ==
  ASSUME NEW i \in Item
  PROVE  constrainTiming[i] \in Seq(Constraint)
<1>1. ConstrainDuration(i) \in Seq(Constraint)
  <2>1. Plus(endTime(i), startTime(i), duration(i)) \in Constraint
    BY TimeParam DEF Plus, Constraint
  <2>. QED  BY <2>1 DEF ConstrainDuration
<1>2. Class[i] \in {"seq", "sim", "element"}
  BY ConstantsAssumption
<1>3. CASE Class[i] = "seq"
  BY <1>1, <1>3, SequentialTyped, ConstraintConcat DEF constrainTiming
<1>4. CASE Class[i] = "sim"
  BY <1>1, <1>4, SimultaneousTyped, ConstraintConcat DEF constrainTiming
<1>5. CASE Class[i] = "element"
  BY <1>1, <1>5, ConstraintConcat DEF constrainTiming
<1>. QED  BY <1>2, <1>3, <1>4, <1>5

(* Whatever has been told is a timing constraint or a rule, over the score.*)
LEMMA ToldTyped ==
  ASSUME TypeOK
  PROVE  /\ Told \subseteq TimingConstraints \cup Rules
         /\ Told \subseteq Constraint
<1>1. ASSUME NEW i \in Item, NEW k \in 1 .. told[i]
      PROVE  /\ constrainTiming[i][k] \in TimingConstraints
             /\ constrainTiming[i][k] \in Constraint
  <2>1. constrainTiming[i] \in Seq(Constraint)
    BY ConstrainTimingTyped
  <2>2. k \in 1 .. Len(constrainTiming[i])
    BY <2>1 DEF TypeOK
  <2>3. k \in DOMAIN constrainTiming[i] /\ constrainTiming[i][k] \in Constraint
    BY <2>1, <2>2
  <2>. QED  BY <2>3 DEF TimingConstraints, ToldBy
<1>. QED  BY <1>1, ConstantsAssumption DEF Told

----------------------------------------------------------------------------
(* Domains and propagation.                                                *)

(* The initial domains lie within 0 .. FD.sup.                             *)
LEMMA InitialStore == [p \in Param |-> InitFD(p)] \in Store
<1>1. ASSUME NEW p \in Param
      PROVE  InitFD(p) \subseteq FDRange
  BY ConstantsAssumption DEF InitFD, FDRange
<1>. QED  BY <1>1 DEF Store

(* A propagator only removes values.                                       *)
LEMMA NarrowedShrinks ==
  ASSUME NEW store \in Store, NEW c
  PROVE  /\ Narrowed(store, c) \in Store
         /\ \A p \in Param : Narrowed(store, c)[p] \subseteq store[p]
BY DEF Narrowed, Store

(* A domain lies within its bounds.                                        *)
LEMMA HullContains ==
  ASSUME NEW D \in SUBSET FDRange
  PROVE  D \subseteq Hull(D)
BY DEF Hull, FDRange

(* A propagator removes no value of an assignment that satisfies its       *)
(* constraint.                                                             *)
LEMMA NarrowedSound ==
  ASSUME NEW store \in Store, NEW c \in Constraint, NEW s,
         InStore(s, store), Holds(s, c)
  PROVE  InStore(s, Narrowed(store, c))
<1>1. c.x \in Param /\ c.y \in Param /\ c.z \in Param
  BY DEF Constraint
<1>2. /\ s[c.x] \in Hull(store[c.x])
      /\ s[c.y] \in Hull(store[c.y])
      /\ s[c.z] \in Hull(store[c.z])
  <2>1. ASSUME NEW p \in Param
        PROVE  s[p] \in Hull(store[p])
    BY HullContains DEF InStore, Store
  <2>. QED  BY <1>1, <2>1
<1>3. ASSUME NEW p \in Param
      PROVE  s[p] \in Narrowed(store, c)[p]
  <2>1. s[p] \in store[p]
    BY DEF InStore
  <2>2. Rel(c.rel, s[c.x], s[c.y], s[c.z])
    BY DEF Holds
  <2>. QED  BY <1>2, <2>1, <2>2 DEF Narrowed
<1>. QED  BY <1>3 DEF InStore

----------------------------------------------------------------------------
(* The stack of alternatives.                                              *)

Alternative == [dom : Store, xs : SUBSET DOMAIN Vec]

(* Pushing an alternative.                                                 *)
LEMMA Push ==
  ASSUME NEW alt \in Alternative, NEW st \in Seq(Alternative)
  PROVE  /\ <<alt>> \o st \in Seq(Alternative)
         /\ Len(<<alt>> \o st) = Len(st) + 1
         /\ (<<alt>> \o st)[1] = alt
         /\ \A k \in 1 .. Len(st) : (<<alt>> \o st)[k + 1] = st[k]
         /\ \A k \in 1 .. Len(st) + 1 : k # 1 => (<<alt>> \o st)[k] = st[k - 1]
<1>1. <<alt>> \in Seq(Alternative) /\ Len(<<alt>>) = 1 /\ <<alt>>[1] = alt
  OBVIOUS
<1>. QED  BY <1>1, ConcatProperties

(* Taking the youngest alternative.                                        *)
LEMMA Pop ==
  ASSUME NEW st \in Seq(Alternative), st # << >>
  PROVE  /\ Head(st) \in Alternative /\ Head(st) = st[1]
         /\ Tail(st) \in Seq(Alternative)
         /\ Len(st) \in Nat \ {0} /\ Len(Tail(st)) = Len(st) - 1
         /\ \A k \in 1 .. Len(st) - 1 : Tail(st)[k] = st[k + 1]
BY HeadTailProperties

----------------------------------------------------------------------------
(* What a step may do to the spaces: TypeOK.                               *)

(* Backtracking continues with a store.                                    *)
LEMMA BacktrackTyped ==
  ASSUME TypeOK, Backtrack
  PROVE  /\ dom' \in Store
         /\ xs' \subseteq DOMAIN Vec
         /\ stack' \in Seq(Alternative)
         /\ status' \in {status, "exhausted"}
<1>1. CASE stack = << >>
  BY <1>1 DEF Backtrack, TypeOK, Alternative
<1>2. CASE stack # << >>
  <2>1. stack \in Seq(Alternative)
    BY DEF TypeOK, Alternative
  <2>2. Head(stack) \in Alternative /\ Tail(stack) \in Seq(Alternative)
    BY <1>2, <2>1, Pop
  <2>. QED  BY <1>2, <2>2 DEF Backtrack, Alternative
<1>. QED  BY <1>1, <1>2

(* A choice point: both alternatives are stores, and the two split the     *)
(* store of the space at one of its parameters.                            *)
LEMMA ChoiceTyped ==
  ASSUME TypeOK, Choose
  PROVE  \E E \in Param, alt \in Alternative : \E D :
           /\ dom' = [dom EXCEPT ![E] = @ \cap D]
           /\ alt.dom = [dom EXCEPT ![E] = @ \ D]
           /\ stack' = <<alt>> \o stack
           /\ dom' \in Store
           /\ xs' \subseteq DOMAIN Vec
           /\ xs' = Filtered /\ alt.xs = Filtered
<1>1. Filtered \subseteq DOMAIN Vec
  BY DEF Filtered, TypeOK
<1>2. PICK k \in Filtered : \E D \in SelVal(dom[Vec[k]]) :
        /\ dom' = [dom EXCEPT ![Vec[k]] = @ \cap D]
        /\ stack' = <<[dom |-> [dom EXCEPT ![Vec[k]] = @ \ D], xs |-> Filtered]>> \o stack
  BY DEF Choose
<1>3. PICK D \in SelVal(dom[Vec[k]]) :
        /\ dom' = [dom EXCEPT ![Vec[k]] = @ \cap D]
        /\ stack' = <<[dom |-> [dom EXCEPT ![Vec[k]] = @ \ D], xs |-> Filtered]>> \o stack
  BY <1>2
<1>4. Vec[k] \in Param
  BY <1>1, DistributionAssumption
<1>5. /\ [dom EXCEPT ![Vec[k]] = @ \cap D] \in Store
      /\ [dom EXCEPT ![Vec[k]] = @ \ D] \in Store
  BY <1>4 DEF TypeOK, Store
<1> DEFINE alt == [dom |-> [dom EXCEPT ![Vec[k]] = @ \ D], xs |-> Filtered]
<1>6. alt \in Alternative /\ alt.dom = [dom EXCEPT ![Vec[k]] = @ \ D]
  BY <1>1, <1>5 DEF Alternative
<1>7. xs' \subseteq DOMAIN Vec
  BY <1>1 DEF Choose
<1>8. dom' \in Store
  BY <1>3, <1>5
<1>9. stack' = <<alt>> \o stack
  BY <1>3
<1>10. /\ dom' = [dom EXCEPT ![Vec[k]] = @ \cap D]
       /\ alt.dom = [dom EXCEPT ![Vec[k]] = @ \ D]
       /\ stack' = <<alt>> \o stack
  BY <1>6, <1>9, <1>3
<1>11. xs' = Filtered /\ alt.xs = Filtered
  BY DEF Choose
<1> HIDE DEF alt
<1>. QED  BY <1>10, <1>11, <1>4, <1>6, <1>7, <1>8

----------------------------------------------------------------------------
(* TypeOK is inductive.                                                    *)
LEMMA TypeOKStep == TypeOK /\ [Next]_vars => TypeOK'
<1> SUFFICES ASSUME TypeOK, [Next]_vars
             PROVE  TypeOK'
  OBVIOUS
<1> USE DEF TypeOK
<1>1. CASE UNCHANGED vars
  BY <1>1 DEF vars
<1>2. CASE Terminated
  BY <1>2 DEF Terminated, vars
<1>3. CASE Step /\ UNCHANGED distro
  <2>1. ASSUME NEW i \in Item, InitDomains(i)
        PROVE  TypeOK'
    BY <1>3, <2>1 DEF InitDomains
  <2>2. ASSUME NEW i \in Item, Tell(i)
        PROVE  TypeOK'
    <3>1. Len(constrainTiming[i]) \in Nat
      BY ConstrainTimingTyped
    <3>2. /\ told' \in [Item -> Nat]
          /\ \A j \in Item : told'[j] <= Len(constrainTiming[j])
      BY <2>2, <3>1 DEF Tell
    <3>. QED  BY <1>3, <2>2, <3>2 DEF Tell
  <2>3. CASE Distribute
    BY <1>3, <2>3 DEF Distribute
  <2>4. ASSUME NEW c \in Told, Propagate(c)
        PROVE  TypeOK'
    BY <1>3, <2>4, NarrowedShrinks DEF Propagate
  <2>5. CASE Choose
    <3>1. PICK alt \in Alternative : stack' = <<alt>> \o stack
      BY <2>5, ChoiceTyped
    <3>2. stack' \in Seq(Alternative)
      BY <3>1, Push DEF Alternative
    <3>3. dom' \in Store /\ xs' \subseteq DOMAIN Vec
      BY <2>5, ChoiceTyped
    <3>. QED  BY <1>3, <2>5, <3>2, <3>3 DEF Choose, Alternative
  <2>6. CASE Fail
    BY <1>3, <2>6, BacktrackTyped DEF Fail, Alternative
  <2>7. CASE Succeed
    <3>1. found' \in Seq(Store)
      BY <2>7, AppendProperties DEF Succeed
    <3>2. CASE Len(found') = Wanted
      BY <1>3, <2>7, <3>1, <3>2 DEF Succeed
    <3>3. CASE Len(found') # Wanted
      BY <1>3, <2>7, <3>1, <3>3, BacktrackTyped DEF Succeed, Alternative
    <3>. QED  BY <3>2, <3>3
  <2>. QED  BY <1>3, <2>1, <2>2, <2>3, <2>4, <2>5, <2>6, <2>7 DEF Step
<1>. QED  BY <1>1, <1>2, <1>3 DEF Next

(* Type correctness: every store maps the parameters of the score into     *)
(* 0 .. FD.sup, no thread tells more than its constraints, and the list of *)
(* remaining parameters only refers to the vector given to FdDistribute.   *)
THEOREM TypeCorrect == Spec => []TypeOK
<1>1. Init => TypeOK
  <2> SUFFICES ASSUME Init
               PROVE  TypeOK
    OBVIOUS
  <2>1. dom \in Store
    BY InitialStore DEF Init
  <2>2. \A i \in Item : told[i] <= Len(constrainTiming[i])
    BY ConstrainTimingTyped DEF Init
  <2>. QED  BY <2>1, <2>2 DEF Init, TypeOK
<1>. QED  BY <1>1, TypeOKStep, PTL DEF Spec

----------------------------------------------------------------------------
(* Completeness.                                                           *)

(* A space that holds a solution has not failed.                           *)
LEMMA SolutionSpaceAlive ==
  ASSUME NEW store, NEW s, InStore(s, store)
  PROVE  ~Failed(store)
BY DEF InStore, Failed

(* Backtracking gives no open space up, except the one explored so far.    *)
LEMMA BacktrackKeeps ==
  ASSUME TypeOK, Backtrack, status \in {"building", "searching"},
         NEW k \in DOMAIN stack
  PROVE  stack[k].dom \in Open'
<1>1. stack \in Seq(Alternative) /\ stack # << >>
  BY DEF TypeOK, Alternative
<1>2. /\ dom' = Head(stack).dom
      /\ stack' = Tail(stack)
      /\ status' = status
  BY <1>1 DEF Backtrack
<1>3. k \in 1 .. Len(stack)
  BY <1>1
<1>4. CASE k = 1
  BY <1>1, <1>2, <1>4, Pop DEF Open
<1>5. CASE k # 1
  <2>1. k - 1 \in DOMAIN stack' /\ stack'[k - 1] = stack[k]
    BY <1>1, <1>2, <1>3, <1>5, Pop
  <2>. QED  BY <2>1 DEF Open
<1>. QED  BY <1>4, <1>5

(* A solution is in the store of one of the alternatives of a choice.      *)
LEMMA ChoiceKeeps ==
  ASSUME TypeOK, Choose, NEW s, NEW store \in Open, InStore(s, store)
  PROVE  \E next \in Open' : InStore(s, next)
<1>1. PICK E \in Param, alt \in Alternative : \E D :
        /\ dom' = [dom EXCEPT ![E] = @ \cap D]
        /\ alt.dom = [dom EXCEPT ![E] = @ \ D]
        /\ stack' = <<alt>> \o stack
  BY ChoiceTyped
<1>2. PICK D :
        /\ dom' = [dom EXCEPT ![E] = @ \cap D]
        /\ alt.dom = [dom EXCEPT ![E] = @ \ D]
        /\ stack' = <<alt>> \o stack
  BY <1>1
<1>3. stack \in Seq(Alternative) /\ dom \in [Param -> SUBSET FDRange]
  BY DEF TypeOK, Alternative, Store
<1>4. status = "searching" /\ status' = status
  BY DEF Choose, Stable
<1>5. /\ 1 \in DOMAIN stack' /\ stack'[1] = alt
      /\ \A k \in DOMAIN stack : k + 1 \in DOMAIN stack' /\ stack'[k + 1] = stack[k]
  BY <1>2, <1>3, Push
<1>6. dom' \in Open' /\ alt.dom \in Open'
  BY <1>4, <1>5 DEF Open
<1>7. CASE store = dom
  <2>1. CASE s[E] \in D
    BY <1>2, <1>3, <1>6, <1>7, <2>1 DEF InStore
  <2>2. CASE s[E] \notin D
    BY <1>2, <1>3, <1>6, <1>7, <2>2 DEF InStore
  <2>. QED  BY <2>1, <2>2
<1>8. ASSUME NEW k \in DOMAIN stack, store = stack[k].dom
      PROVE  store \in Open'
  BY <1>5, <1>8 DEF Open
<1>. QED  BY <1>4, <1>7, <1>8 DEF Open

(* Every step keeps each solution in a store, open or found.               *)
LEMMA CompletenessStep == TypeOK /\ NoSolutionLost /\ [Next]_vars => NoSolutionLost'
<1> SUFFICES ASSUME TypeOK, NoSolutionLost, [Next]_vars,
                    NEW s \in Solutions
             PROVE  \/ \E k \in DOMAIN found' : InStore(s, found'[k])
                    \/ \E store \in Open' : InStore(s, store)
  BY DEF NoSolutionLost, Solutions
<1> DEFINE Goal == \/ \E k \in DOMAIN found' : InStore(s, found'[k])
                   \/ \E store \in Open' : InStore(s, store)
<1>1. \/ \E k \in DOMAIN found : InStore(s, found[k])
      \/ \E store \in Open : InStore(s, store)
  BY DEF NoSolutionLost
<1>2. ASSUME UNCHANGED <<dom, stack, found>>,
             status' = status \/ (status = "building" /\ status' = "searching")
      PROVE  Goal
  BY <1>1, <1>2 DEF Open
<1>3. CASE UNCHANGED vars
  BY <1>2, <1>3 DEF vars
<1>4. CASE Terminated
  BY <1>2, <1>4 DEF Terminated, vars
<1>5. CASE Step
  <2>1. ASSUME NEW i \in Item, InitDomains(i)
        PROVE  Goal
    BY <1>2, <2>1 DEF InitDomains
  <2>2. ASSUME NEW i \in Item, Tell(i)
        PROVE  Goal
    BY <1>2, <2>2 DEF Tell
  <2>3. CASE Distribute
    BY <1>2, <2>3 DEF Distribute
  <2>4. ASSUME NEW c \in Told, Propagate(c)
        PROVE  Goal
    <3>1. c \in Constraint /\ c \in TimingConstraints \cup Rules
      BY <2>4, ToldTyped
    <3>2. Holds(s, c)
      BY <3>1 DEF Solutions, IsSolution
    <3>3. dom \in Store
      BY DEF TypeOK
    <3>4. InStore(s, dom) => InStore(s, dom')
      BY <2>4, <3>1, <3>2, <3>3, NarrowedSound DEF Propagate
    <3>. QED  BY <1>1, <2>4, <3>4 DEF Propagate, Open
  <2>5. CASE Choose
    <3>1. UNCHANGED found
      BY <2>5 DEF Choose
    <3>. QED  BY <1>1, <2>5, <3>1, ChoiceKeeps
  <2>6. CASE Fail
    <3>1. ~InStore(s, dom)
      BY <2>6, SolutionSpaceAlive DEF Fail
    <3>2. \A k \in DOMAIN stack : stack[k].dom \in Open'
      BY <2>6, BacktrackKeeps DEF Fail
    <3>. QED  BY <1>1, <2>6, <3>1, <3>2 DEF Fail, Open
  <2>7. CASE Succeed
    <3>1. /\ \A k \in DOMAIN found : k \in DOMAIN found' /\ found'[k] = found[k]
          /\ Len(found) + 1 \in DOMAIN found' /\ found'[Len(found) + 1] = dom
      BY <2>7, AppendProperties DEF Succeed, TypeOK
    <3>2. ASSUME NEW k \in DOMAIN stack
          PROVE  stack[k].dom \in Open'
      <4>1. CASE Len(found') = Wanted
        BY <2>7, <4>1 DEF Succeed, Open
      <4>2. CASE Len(found') # Wanted
        BY <2>7, <4>2, BacktrackKeeps DEF Succeed, Stable
      <4>. QED  BY <4>1, <4>2
    <3>. QED  BY <1>1, <3>1, <3>2 DEF Open
  <2>. QED  BY <1>5, <2>1, <2>2, <2>3, <2>4, <2>5, <2>6, <2>7 DEF Step
<1>. QED  BY <1>3, <1>4, <1>5 DEF Next

(* Completeness: neither propagation nor distribution, with any order,     *)
(* value ordering and vector of parameters, loses a solution of the score. *)
THEOREM Completeness == Spec => []NoSolutionLost
<1>1. Init => NoSolutionLost
  <2> SUFFICES ASSUME Init, NEW s \in Solutions
               PROVE  \E store \in Open : InStore(s, store)
    BY DEF NoSolutionLost
  <2>1. InStore(s, dom)
    BY DEF Init, Solutions, IsSolution, InStore
  <2>2. dom \in Open
    BY DEF Init, Open
  <2>. QED  BY <2>1, <2>2
<1>. QED  BY <1>1, CompletenessStep, TypeCorrect, PTL DEF Spec

----------------------------------------------------------------------------
(* Disjointness.                                                           *)

(* Spaces that are apart stay apart when one of them shrinks.              *)
LEMMA ApartShrinks ==
  ASSUME NEW d, NEW e, NEW f, Apart(d, e),
         \A p \in Param : f[p] \subseteq d[p]
  PROVE  Apart(f, e) /\ Apart(e, f)
BY DEF Apart

(* The space that backtracking turns to was an alternative, and the others *)
(* are still the alternatives; nothing is said of a search that ends.      *)
LEMMA BacktrackApart ==
  ASSUME TypeOK, Backtrack, status \in {"building", "searching"},
         \A j, k \in DOMAIN found' : j # k => Apart(found'[j], found'[k]),
         \A j, k \in DOMAIN stack : j # k => Apart(stack[j].dom, stack[k].dom),
         \A j \in DOMAIN found', k \in DOMAIN stack : Apart(found'[j], stack[k].dom)
  PROVE  SpacesDisjoint'
<1>1. stack \in Seq(Alternative)
  BY DEF TypeOK, Alternative
<1>2. CASE stack = << >>
  BY <1>2 DEF Backtrack, SpacesDisjoint
<1>3. CASE stack # << >>
  <2>1. /\ 1 \in DOMAIN stack /\ dom' = stack[1].dom
        /\ \A k \in DOMAIN stack' :
             k \in Nat /\ k + 1 \in DOMAIN stack /\ k + 1 # 1 /\ stack'[k] = stack[k + 1]
    BY <1>1, <1>3, Pop DEF Backtrack
  <2>2. ASSUME NEW j \in DOMAIN stack', NEW k \in DOMAIN stack', j # k
        PROVE  Apart(stack'[j].dom, stack'[k].dom)
    <3>1. j + 1 # k + 1
      BY <2>1, <2>2
    <3>. QED  BY <2>1, <3>1
  <2>3. ASSUME NEW j \in DOMAIN found', NEW k \in DOMAIN stack'
        PROVE  Apart(found'[j], stack'[k].dom)
    BY <2>1
  <2>4. ASSUME NEW j \in DOMAIN found'
        PROVE  Apart(dom', found'[j])
    BY <2>1 DEF Apart
  <2>5. ASSUME NEW k \in DOMAIN stack'
        PROVE  Apart(dom', stack'[k].dom)
    BY <2>1
  <2>. QED  BY <2>2, <2>3, <2>4, <2>5 DEF SpacesDisjoint
<1>. QED  BY <1>2, <1>3

(* The alternatives of a choice are apart from each other and, as parts of *)
(* the space that is split, from every other space.                        *)
LEMMA ChoiceApart ==
  ASSUME TypeOK, SpacesDisjoint, Choose
  PROVE  SpacesDisjoint'
<1>1. PICK E \in Param, alt \in Alternative : \E D :
        /\ dom' = [dom EXCEPT ![E] = @ \cap D]
        /\ alt.dom = [dom EXCEPT ![E] = @ \ D]
        /\ stack' = <<alt>> \o stack
  BY ChoiceTyped
<1>2. PICK D :
        /\ dom' = [dom EXCEPT ![E] = @ \cap D]
        /\ alt.dom = [dom EXCEPT ![E] = @ \ D]
        /\ stack' = <<alt>> \o stack
  BY <1>1
<1>3. stack \in Seq(Alternative) /\ dom \in [Param -> SUBSET FDRange]
  BY DEF TypeOK, Alternative, Store
<1>4. UNCHANGED <<found, status>> /\ status = "searching"
  BY DEF Choose, Stable
<1>5. /\ stack'[1] = alt
      /\ \A k \in DOMAIN stack' : k # 1 => k - 1 \in DOMAIN stack /\ stack'[k] = stack[k - 1]
      /\ DOMAIN stack' \subseteq Nat
  BY <1>2, <1>3, Push
<1>6. \A p \in Param : dom'[p] \subseteq dom[p] /\ alt.dom[p] \subseteq dom[p]
  BY <1>2, <1>3
<1>7. Apart(dom', alt.dom) /\ Apart(alt.dom, dom')
  BY <1>2, <1>3 DEF Apart
<1>8. ASSUME NEW k \in DOMAIN stack
      PROVE  Apart(dom', stack[k].dom) /\ Apart(alt.dom, stack[k].dom)
             /\ Apart(stack[k].dom, alt.dom)
  <2>1. Apart(dom, stack[k].dom)
    BY <1>4 DEF SpacesDisjoint
  <2>. QED  BY <1>6, <2>1, ApartShrinks
<1>9. ASSUME NEW j \in DOMAIN found'
      PROVE  Apart(dom', found'[j]) /\ Apart(found'[j], alt.dom)
  <2>1. Apart(dom, found'[j])
    BY <1>4 DEF SpacesDisjoint
  <2>. QED  BY <1>6, <2>1, ApartShrinks
<1>10. ASSUME NEW j \in DOMAIN stack', NEW k \in DOMAIN stack', j # k
       PROVE  Apart(stack'[j].dom, stack'[k].dom)
  <2>1. CASE j = 1
    BY <1>5, <1>8, <1>10, <2>1
  <2>2. CASE k = 1
    BY <1>5, <1>8, <1>10, <2>2
  <2>3. CASE j # 1 /\ k # 1
    <3>1. j - 1 \in DOMAIN stack /\ k - 1 \in DOMAIN stack /\ j - 1 # k - 1
      BY <1>5, <1>10, <2>3
    <3>. QED  BY <1>5, <2>3, <3>1 DEF SpacesDisjoint
  <2>. QED  BY <2>1, <2>2, <2>3
<1>11. ASSUME NEW j \in DOMAIN found', NEW k \in DOMAIN stack'
       PROVE  Apart(found'[j], stack'[k].dom)
  BY <1>4, <1>5, <1>9 DEF SpacesDisjoint
<1>12. ASSUME NEW k \in DOMAIN stack'
       PROVE  Apart(dom', stack'[k].dom)
  BY <1>5, <1>7, <1>8
<1>13. \A j, k \in DOMAIN found' : j # k => Apart(found'[j], found'[k])
  BY <1>4 DEF SpacesDisjoint
<1>. QED  BY <1>9, <1>10, <1>11, <1>12, <1>13 DEF SpacesDisjoint

(* Every step keeps the open stores and the solutions found apart.         *)
LEMMA DisjointStep == TypeOK /\ SpacesDisjoint /\ [Next]_vars => SpacesDisjoint'
<1> SUFFICES ASSUME TypeOK, SpacesDisjoint, [Next]_vars
             PROVE  SpacesDisjoint'
  OBVIOUS
<1>1. ASSUME UNCHANGED <<stack, found>>,
             \A p \in Param : dom'[p] \subseteq dom[p],
             status' = status \/ (status = "building" /\ status' = "searching")
      PROVE  SpacesDisjoint'
  <2>1. ASSUME status' \in {"building", "searching"}
        PROVE  /\ \A j \in DOMAIN found : Apart(dom', found[j])
               /\ \A k \in DOMAIN stack : Apart(dom', stack[k].dom)
    <3>1. status \in {"building", "searching"}
      BY <1>1, <2>1
    <3>. QED  BY <1>1, <3>1, ApartShrinks DEF SpacesDisjoint
  <2>. QED  BY <1>1, <2>1 DEF SpacesDisjoint
<1>2. CASE UNCHANGED vars
  BY <1>1, <1>2 DEF vars
<1>3. CASE Terminated
  BY <1>1, <1>3 DEF Terminated, vars
<1>4. CASE Step
  <2>1. ASSUME NEW i \in Item, InitDomains(i) \/ Tell(i)
        PROVE  SpacesDisjoint'
    BY <1>1, <2>1 DEF InitDomains, Tell
  <2>2. CASE Distribute
    BY <1>1, <2>2 DEF Distribute
  <2>3. ASSUME NEW c \in Told, Propagate(c)
        PROVE  SpacesDisjoint'
    <3>1. \A p \in Param : dom'[p] \subseteq dom[p]
      BY <2>3, NarrowedShrinks DEF Propagate, TypeOK
    <3>. QED  BY <1>1, <2>3, <3>1 DEF Propagate
  <2>4. CASE Choose
    BY <2>4, ChoiceApart
  <2>5. CASE Fail
    BY <2>5, BacktrackApart DEF Fail, SpacesDisjoint
  <2>6. CASE Succeed
    <3>1. status = "searching"
      BY <2>6 DEF Succeed, Stable
    <3>2. /\ \A k \in DOMAIN found' : k # Len(found) + 1 =>
                 k \in DOMAIN found /\ found'[k] = found[k]
          /\ found'[Len(found) + 1] = dom
      BY <2>6, AppendProperties DEF Succeed, TypeOK
    <3>3. \A k \in DOMAIN found : Apart(dom, found[k]) /\ Apart(found[k], dom)
      BY <3>1 DEF SpacesDisjoint, Apart
    <3>4. \A j, k \in DOMAIN found' : j # k => Apart(found'[j], found'[k])
      BY <3>2, <3>3 DEF SpacesDisjoint
    <3>5. \A j \in DOMAIN found', k \in DOMAIN stack : Apart(found'[j], stack[k].dom)
      BY <3>1, <3>2 DEF SpacesDisjoint
    <3>6. CASE Len(found') = Wanted
      BY <2>6, <3>4, <3>5, <3>6 DEF Succeed, SpacesDisjoint
    <3>7. CASE Len(found') # Wanted
      BY <2>6, <3>1, <3>4, <3>5, <3>7, BacktrackApart DEF Succeed, SpacesDisjoint
    <3>. QED  BY <3>6, <3>7
  <2>. QED  BY <1>4, <2>1, <2>2, <2>3, <2>4, <2>5, <2>6 DEF Step
<1>. QED  BY <1>2, <1>3, <1>4 DEF Next

(* No assignment is explored twice: the solutions found and the spaces     *)
(* still to be explored are pairwise apart.                                *)
THEOREM Disjointness == Spec => []SpacesDisjoint
<1>1. Init => SpacesDisjoint
  BY DEF Init, SpacesDisjoint
<1>. QED  BY <1>1, DisjointStep, TypeCorrect, PTL DEF Spec
----------------------------------------------------------------------------
(* Progress of a choice point.                                             *)

(* A measure has a least value.                                            *)
LEMMA LeastMeasure ==
  ASSUME NEW D, D # {}, NEW f \in [D -> Nat]
  PROVE  \E m \in D : \A n \in D : f[m] <= f[n]
<1> DEFINE T == {f[n] : n \in D}
<1>1. T \subseteq Nat /\ T # {}
  OBVIOUS
<1>2. PICK t \in T : \A u \in T : ~ (<<u, t>> \in OpToRel(<, Nat))
  BY <1>1, WFMin, NatLessThanWellFounded
<1>3. \A u \in T : ~ (u < t)
  BY <1>1, <1>2 DEF OpToRel
<1>4. PICK m \in D : t = f[m]
  OBVIOUS
<1>. QED  BY <1>1, <1>3, <1>4

(* A domain that is not empty has a smallest and a largest element, and    *)
(* FD.reflect.min and FD.reflect.max are these.                            *)
LEMMA ReflectBounds ==
  ASSUME NEW D \in SUBSET FDRange, D # {}
  PROVE  /\ ReflectMin(D) \in D /\ \A n \in D : ReflectMin(D) <= n
         /\ ReflectMax(D) \in D /\ \A n \in D : ReflectMax(D) >= n
<1>1. Sup \in Nat /\ \A n \in D : n \in Nat /\ n <= Sup
  BY ConstantsAssumption DEF FDRange
<1>2. \E m \in D : \A n \in D : m <= n
  <2> DEFINE f == [n \in D |-> n]
  <2>1. f \in [D -> Nat]
    BY <1>1
  <2>2. PICK m \in D : \A n \in D : f[m] <= f[n]
    BY <2>1, LeastMeasure
  <2>. QED  BY <2>2
<1>3. \E m \in D : \A n \in D : m >= n
  <2> DEFINE f == [n \in D |-> Sup - n]
  <2>1. f \in [D -> Nat]
    BY <1>1
  <2>2. PICK m \in D : \A n \in D : f[m] <= f[n]
    BY <2>1, LeastMeasure
  <2>. QED  BY <1>1, <2>2
<1>. QED  BY <1>2, <1>3 DEF ReflectMin, ReflectMax

(* FD.reflect.mid is an element of the domain, and below the largest when  *)
(* there are several: ties go to the smaller one.                          *)
LEMMA ReflectMidBelowMax ==
  ASSUME NEW D \in SUBSET FDRange, D # {}
  PROVE  /\ ReflectMid(D) \in D
         /\ ReflectMin(D) # ReflectMax(D) => ReflectMid(D) < ReflectMax(D)
<1> DEFINE lo == ReflectMin(D)
           hi == ReflectMax(D)
           dist(v) == MidDistance(D, v)
           mid(m) == \A v \in D : dist(m) < dist(v) \/ (dist(m) = dist(v) /\ m <= v)
<1>1. /\ lo \in D /\ \A n \in D : lo <= n
      /\ hi \in D /\ \A n \in D : hi >= n
  BY ReflectBounds
<1>2. \A n \in D : n \in Nat
  BY DEF FDRange
<1> HIDE DEF lo, hi
<1>3. \A v \in D :
        dist(v) = IF 2 * v >= lo + hi THEN 2 * v - (lo + hi) ELSE lo + hi - 2 * v
  BY <1>1, <1>2 DEF MidDistance, lo, hi
<1> HIDE DEF dist
<1>4. \E m \in D : mid(m)
  <2> DEFINE f == [v \in D |-> dist(v)]
  <2>1. f \in [D -> Nat]
    BY <1>1, <1>2, <1>3
  <2>2. PICK b \in D : \A v \in D : f[b] <= f[v]
    BY <2>1, LeastMeasure
  <2> DEFINE E == {v \in D : f[v] = f[b]}
  <2>3. E # {} /\ [v \in E |-> v] \in [E -> Nat]
    BY <1>2
  <2>4. PICK m \in E : \A v \in E : [w \in E |-> w][m] <= [w \in E |-> w][v]
    BY <2>3, LeastMeasure
  <2>5. \A v \in E : m <= v
    BY <2>4
  <2>6. ASSUME NEW v \in D
        PROVE  f[m] < f[v] \/ (f[m] = f[v] /\ m <= v)
    <3>1. f[m] \in Nat /\ f[v] \in Nat /\ f[m] = f[b] /\ f[b] <= f[v]
      BY <2>1, <2>2, <2>4
    <3>2. f[v] = f[b] => v \in E
      OBVIOUS
    <3>. QED  BY <2>5, <3>1, <3>2
  <2>7. m \in D /\ \A v \in D : f[v] = dist(v)
    BY <2>4
  <2> HIDE DEF f, E
  <2>8. \A v \in D : dist(m) < dist(v) \/ (dist(m) = dist(v) /\ m <= v)
    BY <2>6, <2>7
  <2>. QED  BY <2>7, <2>8
<1>5. ReflectMid(D) \in D /\ mid(ReflectMid(D))
  BY <1>4 DEF ReflectMid, dist
<1>6. lo # hi => ReflectMid(D) # hi
  <2>1. dist(lo) = hi - lo /\ dist(hi) = hi - lo
    BY <1>1, <1>2, <1>3
  <2>2. dist(ReflectMid(D)) < dist(lo) \/ (dist(ReflectMid(D)) = dist(lo) /\ ReflectMid(D) <= lo)
    BY <1>1, <1>5
  <2>3. ASSUME ReflectMid(D) = hi, lo # hi
        PROVE  FALSE
    BY <1>1, <1>2, <2>1, <2>2, <2>3
  <2>. QED  BY <2>3
<1>7. lo # hi => ReflectMid(D) < hi
  BY <1>1, <1>2, <1>5, <1>6
<1>. QED  BY <1>5, <1>7 DEF lo, hi

(* A domain with several elements has two different bounds.                *)
LEMMA UndetBounds ==
  ASSUME NEW D \in SUBSET FDRange, IsUndet(D)
  PROVE  D # {} /\ ReflectMin(D) < ReflectMax(D)
<1>1. D # {}
  BY FS_EmptySet DEF IsUndet
<1>2. D # {ReflectMin(D)}
  BY FS_Singleton DEF IsUndet
<1>3. PICK n \in D : n # ReflectMin(D)
  BY <1>1, <1>2, ReflectBounds
<1>4. /\ ReflectMin(D) \in Nat /\ ReflectMax(D) \in Nat /\ n \in Nat
      /\ ReflectMin(D) <= n /\ n <= ReflectMax(D)
  <2>1. \A m \in D : m \in Nat
    BY DEF FDRange
  <2>. QED  BY <1>1, <2>1, ReflectBounds
<1>. QED  BY <1>1, <1>3, <1>4

(* Every value ordering splits a domain with several elements into two     *)
(* parts that are not empty.                                               *)
LEMMA SelValSplits ==
  ASSUME TypeOK, NEW V \in SUBSET FDRange, IsUndet(V), NEW D \in SelVal(V)
  PROVE  V \cap D # {} /\ V \ D # {}
<1> DEFINE lo == ReflectMin(V)
           hi == ReflectMax(V)
           mid == ReflectMid(V)
<1>1. /\ lo \in V /\ hi \in V /\ mid \in V /\ lo < hi /\ mid < hi
      /\ \A n \in V : n \in Nat /\ n <= Sup
      /\ Sup \in Nat
  <2>1. V # {} /\ lo < hi
    BY UndetBounds
  <2>2. lo \in V /\ hi \in V
    BY <2>1, ReflectBounds
  <2>3. \A n \in V : n \in Nat /\ n <= Sup
    BY ConstantsAssumption DEF FDRange
  <2>4. mid \in V /\ mid < hi
    BY <2>1, <2>2, <2>3, ReflectMidBelowMax
  <2>. QED  BY <2>1, <2>2, <2>3, <2>4, ConstantsAssumption
<1>2. distro.value \in {"min", "max", "mid", "splitMin", "splitMax", "random", "heuristic"}
  BY DistributionAssumption DEF TypeOK
<1> HIDE DEF lo, hi, mid
<1>3. CASE distro.value = "min"
  BY <1>1, <1>3 DEF SelVal, lo
<1>4. CASE distro.value = "max"
  BY <1>1, <1>4 DEF SelVal, hi
<1>5. CASE distro.value = "mid"
  BY <1>1, <1>5 DEF SelVal, mid
<1>6. CASE distro.value = "splitMin"
  <2>1. D = 0 .. mid
    BY <1>6 DEF SelVal, mid
  <2>. QED  BY <1>1, <2>1
<1>7. CASE distro.value = "splitMax"
  <2>1. D = mid + 1 .. Sup
    BY <1>7 DEF SelVal, mid
  <2>. QED  BY <1>1, <2>1
<1>8. CASE distro.value \in {"random", "heuristic"}
  <2>1. PICK v \in V : D = {v}
    BY <1>8 DEF SelVal
  <2>. QED  BY <1>1, <2>1
<1>. QED  BY <1>2, <1>3, <1>4, <1>5, <1>6, <1>7, <1>8

(* Only a choice point adds an alternative.                                *)
LEMMA OnlyChoiceGrows ==
  ASSUME TypeOK, [Next]_vars, Len(stack') > Len(stack)
  PROVE  Choose
<1>1. stack \in Seq(Alternative) /\ Len(stack) \in Nat
  BY DEF TypeOK, Alternative
<1>2. stack' # stack
  BY <1>1
<1>3. ~ Backtrack
  <2>1. Backtrack => stack # << >> /\ stack' = Tail(stack)
    BY <1>2 DEF Backtrack
  <2>2. stack # << >> => Len(Tail(stack)) < Len(stack)
    BY <1>1, Pop
  <2>. QED  BY <1>1, <2>1, <2>2
<1>4. CASE Step
  BY <1>2, <1>3, <1>4 DEF Step, InitDomains, Tell, Distribute, Propagate, Fail, Succeed
<1>. QED  BY <1>2, <1>4 DEF Next, Terminated, vars

(* With every variable ordering and every value ordering both alternatives *)
(* of a choice point are smaller than the space that is split, and neither *)
(* is empty: the search makes progress in both.                            *)
THEOREM ChoiceProgress == Spec => ChoiceSplits
<1>1. ASSUME TypeOK, [Next]_vars, Len(stack') > Len(stack)
      PROVE  \E p \in Param :
               /\ dom'[p] # {} /\ Head(stack').dom[p] # {}
               /\ dom'[p] \cap Head(stack').dom[p] = {}
               /\ dom'[p] \cup Head(stack').dom[p] = dom[p]
  <2>1. Choose
    BY <1>1, OnlyChoiceGrows
  <2>2. PICK k \in Filtered : \E D \in SelVal(dom[Vec[k]]) :
          /\ dom' = [dom EXCEPT ![Vec[k]] = @ \cap D]
          /\ stack' = <<[dom |-> [dom EXCEPT ![Vec[k]] = @ \ D], xs |-> Filtered]>> \o stack
    BY <2>1 DEF Choose
  <2>3. PICK D \in SelVal(dom[Vec[k]]) :
          /\ dom' = [dom EXCEPT ![Vec[k]] = @ \cap D]
          /\ stack' = <<[dom |-> [dom EXCEPT ![Vec[k]] = @ \ D], xs |-> Filtered]>> \o stack
    BY <2>2
  <2>4. Filtered \subseteq DOMAIN Vec /\ IsUndet(dom[Vec[k]])
    BY <1>1 DEF Filtered, TypeOK
  <2>5. Vec[k] \in Param /\ dom \in Store /\ dom[Vec[k]] \in SUBSET FDRange
    BY <1>1, <2>4, DistributionAssumption DEF TypeOK, Store
  <2> DEFINE E == Vec[k]
             alt == [dom |-> [dom EXCEPT ![E] = @ \ D], xs |-> Filtered]
  <2>6. alt \in Alternative /\ stack \in Seq(Alternative)
    BY <1>1, <2>4, <2>5 DEF Alternative, Store, TypeOK
  <2>7. Head(stack') = alt
    <3>1. stack' = <<alt>> \o stack
      BY <2>3
    <3> HIDE DEF alt
    <3>2. stack' \in Seq(Alternative) /\ stack' # << >> /\ stack'[1] = alt
      BY <2>6, <3>1, Push
    <3>. QED  BY <3>2, Pop
  <2>8. Head(stack').dom[E] = dom[E] \ D /\ dom'[E] = dom[E] \cap D
    BY <2>3, <2>5, <2>7 DEF Store
  <2>9. dom[E] \cap D # {} /\ dom[E] \ D # {}
    BY <1>1, <2>4, <2>5, SelValSplits
  <2> HIDE DEF alt
  <2>. QED  BY <2>5, <2>8, <2>9
<1>2. TypeOK /\ [Next]_vars =>
        [Len(stack') > Len(stack) =>
           \E p \in Param : LET alt == Head(stack').dom[p] IN
             dom'[p] # {} /\ alt # {} /\ dom'[p] \cap alt = {} /\ dom'[p] \cup alt = dom[p]]_vars
  BY <1>1
<1>. QED  BY <1>2, TypeCorrect, PTL DEF Spec, ChoiceSplits

----------------------------------------------------------------------------
(* The conditions.                                                         *)

(* The propagators determine every parameter once those in Vec are         *)
(* determined: in every store below the initial domains that has not       *)
(* failed and that no propagator narrows.                                  *)
VecDetermines ==
  \A store \in Store :
    /\ ~Failed(store)
    /\ \A p \in Param : store[p] \subseteq InitFD(p)
    /\ \A c \in TimingConstraints \cup Rules : ~Narrows(store, c)
    /\ \A k \in DOMAIN Vec : ~IsUndet(store[Vec[k]])
    => \A p \in Param : ~IsUndet(store[p])

(* The assignments spoken about are assignments, the solutions among them. *)
CandidatesSuffice ==
  /\ Candidate \subseteq [Param -> FDRange]
  /\ \A s \in [Param -> FDRange] : IsSolution(s) => s \in Candidate

----------------------------------------------------------------------------
(* Determined domains.                                                     *)

(* A domain is finite.                                                     *)
LEMMA FiniteDomain ==
  ASSUME NEW D \in SUBSET FDRange
  PROVE  IsFiniteSet(D)
<1>1. Sup \in Int /\ 0 \in Int
  BY ConstantsAssumption
<1>2. IsFiniteSet(0 .. Sup)
  BY <1>1, FS_Interval
<1>. QED  BY <1>2, FS_Subset DEF FDRange

(* A domain that is neither empty nor undetermined has one element.        *)
LEMMA DeterminedIsSingle ==
  ASSUME NEW D \in SUBSET FDRange, D # {}, ~IsUndet(D)
  PROVE  \E v \in FDRange : D = {v}
<1>1. IsFiniteSet(D)
  BY FiniteDomain
<1>2. Cardinality(D) \in Nat /\ Cardinality(D) # 0
  BY <1>1, FS_EmptySet, FS_CardinalityType
<1>3. Cardinality(D) = 1
  BY <1>2 DEF IsUndet
<1>4. \E v : D = {v}
  BY <1>1, <1>3, FS_Singleton
<1>. QED  BY <1>4

(* One element is not undetermined.                                        *)
LEMMA SingleIsDetermined ==
  ASSUME NEW v
  PROVE  ~IsUndet({v})
<1>1. Cardinality({v}) = 1
  BY FS_Singleton
<1>. QED  BY <1>1 DEF IsUndet

(* A part of a determined domain is determined.                            *)
LEMMA UndetGrows ==
  ASSUME NEW D \in SUBSET FDRange, NEW E \in SUBSET D, IsUndet(E)
  PROVE  IsUndet(D)
<1>1. IsFiniteSet(D)
  BY FiniteDomain
<1>2. /\ IsFiniteSet(E) /\ Cardinality(E) <= Cardinality(D)
      /\ Cardinality(D) \in Nat /\ Cardinality(E) \in Nat
  BY <1>1, FS_Subset, FS_CardinalityType
<1>. QED  BY <1>2 DEF IsUndet

(* The bounds of a single value.                                           *)
LEMMA HullOfSingle == \A v \in FDRange : Hull({v}) = {v}
BY ConstantsAssumption DEF Hull, FDRange

(* In a store without empty domains that the propagator of a constraint    *)
(* does not narrow, determined parameters satisfy the constraint.          *)
LEMMA StableHolds ==
  ASSUME NEW c \in Constraint, NEW store \in Store, ~Narrows(store, c),
         NEW s, \A p \in Param : s[p] \in FDRange /\ store[p] = {s[p]}
  PROVE  Holds(s, c)
<1>1. c.x \in Param /\ c.y \in Param /\ c.z \in Param
  BY DEF Constraint
<1>2. /\ Hull(store[c.x]) = {s[c.x]}
      /\ Hull(store[c.y]) = {s[c.y]}
      /\ Hull(store[c.z]) = {s[c.z]}
  BY <1>1, HullOfSingle
<1>3. s[c.x] \in Narrowed(store, c)[c.x]
  BY <1>1 DEF Narrows, Scope
<1>4. \E a \in {s[c.x]}, b \in {s[c.x], s[c.y]} : TRUE
  OBVIOUS
<1>5. PICK a \in {s[c.x]} :
        \E b \in IF c.x = c.y THEN {s[c.x]} ELSE {s[c.y]} :
          \E e \in IF c.x = c.z THEN {s[c.x]} ELSE {s[c.z]} : Rel(c.rel, a, b, e)
  BY <1>1, <1>2, <1>3 DEF Narrowed, Scope
<1>6. Rel(c.rel, s[c.x], s[c.y], s[c.z])
  BY <1>5
<1>. QED  BY <1>6 DEF Holds

----------------------------------------------------------------------------
(* Soundness.                                                              *)

(* A store within the initial domains; a list of places that names all     *)
(* parameters in Vec that the store leaves undetermined.                   *)
Below(store) == \A p \in Param : store[p] \subseteq InitFD(p)
Lists(places, store) == \A k \in DOMAIN Vec : IsUndet(store[Vec[k]]) => k \in places

(* Every open space lies within the initial domains, and its list names    *)
(* what FdDistribute has yet to determine.                                 *)
ListInv ==
  /\ Below(dom)
  /\ \A j \in DOMAIN stack : Below(stack[j].dom) /\ Lists(stack[j].xs, stack[j].dom)
  /\ status = "searching" => Lists(xs, dom)
  /\ status = "building" => stack = << >>

(* What is listed stays listed while the store shrinks.                    *)
LEMMA StaysListed ==
  ASSUME NEW store \in Store, NEW smaller \in Store, NEW places,
         \A p \in Param : smaller[p] \subseteq store[p],
         Below(store)
  PROVE  /\ Below(smaller)
         /\ Lists(places, store) => Lists(places, smaller)
<1>1. \A k \in DOMAIN Vec : Vec[k] \in Param
  BY DistributionAssumption
<1>2. ASSUME NEW k \in DOMAIN Vec, IsUndet(smaller[Vec[k]])
      PROVE  IsUndet(store[Vec[k]])
  BY <1>1, <1>2, UndetGrows DEF Store
<1>. QED  BY <1>2 DEF Below, Lists

(* In a stable space all constraints are told, and none of their           *)
(* propagators narrows the store.                                          *)
LEMMA StableStore ==
  ASSUME TypeOK, Stable
  PROVE  \A c \in TimingConstraints \cup Rules : ~Narrows(dom, c) /\ c \in Constraint
<1>1. ASSUME NEW i \in Item, NEW c \in ToldBy(i)
      PROVE  c \in Told
  <2>1. constrainTiming[i] \in Seq(Constraint) /\ told[i] = Len(constrainTiming[i])
    BY ConstrainTimingTyped DEF Stable
  <2>2. PICK k \in DOMAIN constrainTiming[i] : c = constrainTiming[i][k]
    BY DEF ToldBy
  <2>3. k \in 1 .. told[i]
    BY <2>1
  <2>. QED  BY <2>2, <2>3 DEF Told
<1>2. status = "searching"
  BY DEF Stable
<1>3. \A c \in TimingConstraints \cup Rules : c \in Told
  BY <1>1, <1>2 DEF Told, TimingConstraints
<1>. QED  BY <1>3, ToldTyped DEF Stable

(* Backtracking turns to a space of which everything is known.             *)
LEMMA BacktrackListed ==
  ASSUME TypeOK, ListInv, Backtrack,
         status \in {"building", "searching"}
  PROVE  ListInv'
<1>1. stack \in Seq(Alternative)
  BY DEF TypeOK, Alternative
<1>2. CASE stack = << >>
  BY <1>2 DEF Backtrack, ListInv
<1>3. CASE stack # << >>
  <2>1. /\ 1 \in DOMAIN stack /\ dom' = stack[1].dom /\ xs' = stack[1].xs
        /\ \A k \in DOMAIN stack' :
             k + 1 \in DOMAIN stack /\ stack'[k] = stack[k + 1]
    BY <1>1, <1>3, Pop DEF Backtrack
  <2>2. status' = "searching"
    BY <1>3 DEF Backtrack, ListInv
  <2>3. Below(dom') /\ Lists(xs', dom')
    BY <2>1 DEF ListInv
  <2>4. \A j \in DOMAIN stack' : Below(stack'[j].dom) /\ Lists(stack'[j].xs, stack'[j].dom)
    BY <2>1 DEF ListInv
  <2>. QED  BY <2>2, <2>3, <2>4 DEF ListInv, Below, Lists
<1>. QED  BY <1>2, <1>3

(* ListInv is inductive.                                                   *)
LEMMA ListStep == TypeOK /\ ListInv /\ [Next]_vars => ListInv'
<1> SUFFICES ASSUME TypeOK, ListInv, [Next]_vars
             PROVE  ListInv'
  OBVIOUS
<1>1. ASSUME UNCHANGED <<dom, xs, stack, found, status>>
      PROVE  ListInv'
  BY <1>1 DEF ListInv, Below, Lists
<1>2. CASE UNCHANGED vars \/ Terminated
  BY <1>1, <1>2 DEF Terminated, vars
<1>3. CASE Step
  <2>1. ASSUME NEW i \in Item, InitDomains(i) \/ Tell(i)
        PROVE  ListInv'
    BY <1>1, <2>1 DEF InitDomains, Tell
  <2>2. CASE Distribute
    BY <2>2 DEF Distribute, ListInv, Below, Lists
  <2>3. ASSUME NEW c \in Told, Propagate(c)
        PROVE  ListInv'
    <3>1. dom' \in Store /\ \A p \in Param : dom'[p] \subseteq dom[p]
      BY <2>3, NarrowedShrinks DEF Propagate, TypeOK
    <3>2. Below(dom') /\ (Lists(xs, dom) => Lists(xs, dom'))
      BY <3>1, StaysListed DEF ListInv, TypeOK
    <3>. QED  BY <2>3, <3>2 DEF Propagate, ListInv, Below, Lists
  <2>4. CASE Choose
    <3>1. PICK E \in Param, alt \in Alternative : \E D :
            /\ dom' = [dom EXCEPT ![E] = @ \cap D]
            /\ alt.dom = [dom EXCEPT ![E] = @ \ D]
            /\ stack' = <<alt>> \o stack
            /\ xs' = Filtered /\ alt.xs = Filtered
            /\ dom' \in Store
      BY <2>4, ChoiceTyped
    <3>2. status = "searching" /\ status' = "searching" /\ found' = found /\ dom \in Store
      BY <2>4 DEF Choose, Stable, TypeOK
    <3>3. /\ \A p \in Param : dom'[p] \subseteq dom[p] /\ alt.dom[p] \subseteq dom[p]
          /\ alt.dom \in Store
      BY <3>1, <3>2 DEF Store, Alternative
    <3>4. Lists(Filtered, dom)
      BY <3>2 DEF ListInv, Lists, Filtered
    <3>5. Below(dom') /\ Lists(Filtered, dom') /\ Below(alt.dom) /\ Lists(Filtered, alt.dom)
      BY <3>1, <3>2, <3>3, <3>4, StaysListed DEF ListInv
    <3>6. stack \in Seq(Alternative)
      BY DEF TypeOK, Alternative
    <3>7. /\ stack'[1] = alt
          /\ \A k \in DOMAIN stack' : k # 1 => k - 1 \in DOMAIN stack /\ stack'[k] = stack[k - 1]
      BY <3>1, <3>6, Push
    <3>8. ASSUME NEW j \in DOMAIN stack'
          PROVE  Below(stack'[j].dom) /\ Lists(stack'[j].xs, stack'[j].dom)
      <4>1. CASE j = 1
        BY <4>1, <3>1, <3>5, <3>7
      <4>2. CASE j # 1
        BY <4>2, <3>7 DEF ListInv
      <4>. QED  BY <4>1, <4>2
    <3>9. Below(dom') /\ Lists(xs', dom')
      BY <3>1, <3>5
    <3>. QED  BY <3>2, <3>8, <3>9 DEF ListInv, Below, Lists
  <2>5. CASE Fail
    BY <2>5, BacktrackListed DEF Fail
  <2>6. CASE Succeed
    <3>1. status = "searching"
      BY <2>6 DEF Succeed, Stable
    <3>2. CASE Len(found') = Wanted
      BY <2>6, <3>2 DEF Succeed, ListInv, Below, Lists
    <3>3. CASE Len(found') # Wanted
      BY <2>6, <3>1, <3>3, BacktrackListed DEF Succeed
    <3>. QED  BY <3>2, <3>3
  <2>. QED  BY <1>3, <2>1, <2>2, <2>3, <2>4, <2>5, <2>6 DEF Step
<1>. QED  BY <1>2, <1>3 DEF Next

(* What FdDistribute has yet to determine is always listed.                *)
LEMMA ListAlways == Spec => []ListInv
<1>1. Init => ListInv
  BY DEF Init, ListInv, Below, Lists
<1>. QED  BY <1>1, ListStep, TypeCorrect, PTL DEF Spec

(* The store of a space in which nothing is left to distribute is one      *)
(* assignment, and a solution.                                             *)
LEMMA SucceedSound ==
  ASSUME VecDetermines, CandidatesSuffice, TypeOK, ListInv, Stable, Filtered = {}
  PROVE  \E s \in Solutions : \A p \in Param : dom[p] = {s[p]}
<1>1. /\ dom \in Store /\ ~Failed(dom) /\ status = "searching"
      /\ \A p \in Param : dom[p] \subseteq InitFD(p)
  BY DEF TypeOK, ListInv, Below, Stable, Running
<1>2. \A c \in TimingConstraints \cup Rules : ~Narrows(dom, c) /\ c \in Constraint
  BY StableStore
<1>3. \A k \in DOMAIN Vec : ~IsUndet(dom[Vec[k]])
  BY <1>1 DEF Filtered, ListInv, Lists
<1>4. \A p \in Param : ~IsUndet(dom[p])
  BY <1>1, <1>2, <1>3 DEF VecDetermines
<1>5. \A p \in Param : \E v \in FDRange : dom[p] = {v}
  BY <1>1, <1>4, DeterminedIsSingle DEF Failed, Store
<1> DEFINE s == [p \in Param |-> CHOOSE v \in FDRange : dom[p] = {v}]
<1>6. s \in [Param -> FDRange] /\ \A p \in Param : dom[p] = {s[p]}
  BY <1>5
<1> HIDE DEF s
<1>7. \A c \in TimingConstraints \cup Rules : Holds(s, c)
  BY <1>1, <1>2, <1>6, StableHolds
<1>8. IsSolution(s)
  BY <1>1, <1>6, <1>7 DEF IsSolution
<1>. QED  BY <1>6, <1>8 DEF Solutions, CandidatesSuffice

(* SolutionSound is inductive under the conditions.                        *)
LEMMA SoundStep ==
  ASSUME VecDetermines, CandidatesSuffice
  PROVE  TypeOK /\ ListInv /\ SolutionSound /\ [Next]_vars => SolutionSound'
<1> SUFFICES ASSUME TypeOK, ListInv, SolutionSound, [Next]_vars
             PROVE  SolutionSound'
  OBVIOUS
<1>1. CASE UNCHANGED found
  BY <1>1 DEF SolutionSound
<1>2. CASE Succeed
  <2>1. /\ Stable /\ Filtered = {} /\ found' = Append(found, dom)
        /\ found \in Seq(Store) /\ dom \in Store
    BY <1>2 DEF Succeed, TypeOK
  <2>2. PICK s \in Solutions : \A p \in Param : dom[p] = {s[p]}
    BY <2>1, SucceedSound
  <2>3. /\ \A k \in DOMAIN found' : k # Len(found) + 1 =>
               k \in DOMAIN found /\ found'[k] = found[k]
        /\ found'[Len(found) + 1] = dom
    BY <2>1, AppendProperties
  <2>4. \A k \in DOMAIN found' : \E t \in Solutions : \A p \in Param : found'[k][p] = {t[p]}
    BY <2>2, <2>3 DEF SolutionSound
  <2>. QED  BY <2>4 DEF SolutionSound, Solutions
<1>. QED  BY <1>1, <1>2 DEF Next, Step, Terminated, vars, InitDomains, Tell, Distribute,
                           Propagate, Choose, Fail

(* Under the conditions the search is sound.                               *)
LEMMA SoundAlways ==
  ASSUME VecDetermines, CandidatesSuffice
  PROVE  Spec => []SolutionSound
<1>1. Init => SolutionSound
  BY DEF Init, SolutionSound
<1>2. TypeOK /\ ListInv /\ SolutionSound /\ [Next]_vars => SolutionSound'
  BY SoundStep
<1>. QED  BY <1>1, <1>2, TypeCorrect, ListAlways, PTL DEF Spec

----------------------------------------------------------------------------
(* The conditions hold for scores whose elements are distributed.          *)

Fixed(store, p) == \E v \in FDRange : store[p] = {v}

(* A store that has not failed and that the propagator of c does not       *)
(* narrow: when all other parameters of c are determined, each value left  *)
(* for p satisfies c together with them.                                   *)
LEMMA StableSupports ==
  ASSUME NEW c \in Constraint, NEW store \in Store, ~Narrows(store, c),
         NEW p \in Scope(c), NEW s \in [Param -> FDRange],
         \A q \in Scope(c) \ {p} : store[q] = {s[q]},
         NEW v \in store[p]
  PROVE  Rel(c.rel, IF p = c.x THEN v ELSE s[c.x],
                    IF p = c.y THEN v ELSE s[c.y],
                    IF p = c.z THEN v ELSE s[c.z])
<1>1. c.x \in Param /\ c.y \in Param /\ c.z \in Param
  BY DEF Constraint
<1>2. \A q \in Scope(c) \ {p} : Hull(store[q]) = {s[q]}
  BY <1>1, HullOfSingle DEF Scope
<1>3. v \in Narrowed(store, c)[p]
  BY DEF Narrows
<1>4. PICK a \in IF p = c.x THEN {v} ELSE Hull(store[c.x]),
           b \in IF p = c.y THEN {v} ELSE Hull(store[c.y]) :
        \E e \in IF p = c.z THEN {v} ELSE Hull(store[c.z]) : Rel(c.rel, a, b, e)
  BY <1>1, <1>3 DEF Narrowed, Scope
<1>5. PICK e \in IF p = c.z THEN {v} ELSE Hull(store[c.z]) : Rel(c.rel, a, b, e)
  BY <1>4
<1>6. /\ a = IF p = c.x THEN v ELSE s[c.x]
      /\ b = IF p = c.y THEN v ELSE s[c.y]
      /\ e = IF p = c.z THEN v ELSE s[c.z]
  BY <1>2, <1>4, <1>5 DEF Scope
<1>. QED  BY <1>5, <1>6

(* Propagation of x = y + z, of x = max(y, z) and of x = y: two determined *)
(* parameters of a sum determine the third, and the arguments of a maximum *)
(* or an equation determine its result.                                    *)
LEMMA PropagationDetermines ==
  ASSUME NEW c \in Constraint, NEW store \in Store, ~Narrows(store, c), ~Failed(store)
  PROVE  /\ c.rel = "plus" /\ Fixed(store, c.x) /\ Fixed(store, c.z) => Fixed(store, c.y)
         /\ c.rel = "plus" /\ Fixed(store, c.x) /\ Fixed(store, c.y) => Fixed(store, c.z)
         /\ c.rel \in {"plus", "max", "eq"} /\ Fixed(store, c.y) /\ Fixed(store, c.z)
              => Fixed(store, c.x)
<1>1. /\ c.x \in Param /\ c.y \in Param /\ c.z \in Param
      /\ \A p \in Param : store[p] \subseteq FDRange /\ store[p] # {}
      /\ \A n \in FDRange : n \in Nat
  BY DEF Constraint, Store, Failed, FDRange
<1> DEFINE s == [q \in Param |-> CHOOSE v \in FDRange : v \in store[q]]
<1>2. s \in [Param -> FDRange] /\ \A q \in Param : Fixed(store, q) => store[q] = {s[q]}
  BY <1>1 DEF Fixed
<1> HIDE DEF s
<1>3. ASSUME NEW p \in Param, NEW w, \A v \in store[p] : v = w
      PROVE  Fixed(store, p)
  BY <1>1, <1>3 DEF Fixed
<1>4. ASSUME c.rel = "plus", Fixed(store, c.x), Fixed(store, c.z)
      PROVE  Fixed(store, c.y)
  <2>1. CASE c.y \in {c.x, c.z}
    BY <1>4, <2>1
  <2>2. CASE c.y \notin {c.x, c.z}
    <3>1. ASSUME NEW v \in store[c.y]
          PROVE  s[c.x] = v + s[c.z]
      BY <1>1, <1>2, <1>4, <2>2, StableSupports DEF Scope, Rel
    <3>2. \A v \in store[c.y] : v = s[c.x] - s[c.z]
      BY <1>1, <1>2, <3>1
    <3>. QED  BY <1>1, <1>3, <3>2
  <2>. QED  BY <2>1, <2>2
<1>5. ASSUME c.rel = "plus", Fixed(store, c.x), Fixed(store, c.y)
      PROVE  Fixed(store, c.z)
  <2>1. CASE c.z \in {c.x, c.y}
    BY <1>5, <2>1
  <2>2. CASE c.z \notin {c.x, c.y}
    <3>1. ASSUME NEW v \in store[c.z]
          PROVE  s[c.x] = s[c.y] + v
      BY <1>1, <1>2, <1>5, <2>2, StableSupports DEF Scope, Rel
    <3>2. \A v \in store[c.z] : v = s[c.x] - s[c.y]
      BY <1>1, <1>2, <3>1
    <3>. QED  BY <1>1, <1>3, <3>2
  <2>. QED  BY <2>1, <2>2
<1>6. ASSUME c.rel \in {"plus", "max", "eq"}, Fixed(store, c.y), Fixed(store, c.z)
      PROVE  Fixed(store, c.x)
  <2>1. CASE c.x \in {c.y, c.z}
    BY <1>6, <2>1
  <2>2. CASE c.x \notin {c.y, c.z}
    <3>1. ASSUME NEW v \in store[c.x]
          PROVE  Rel(c.rel, v, s[c.y], s[c.z])
      BY <1>1, <1>2, <1>6, <2>2, StableSupports DEF Scope
    <3>2. CASE c.rel = "eq"
      BY <1>1, <1>3, <3>1, <3>2 DEF Rel
    <3>3. CASE c.rel = "max"
      <4>1. \A v \in store[c.x] : v = IF s[c.y] >= s[c.z] THEN s[c.y] ELSE s[c.z]
        BY <1>1, <1>2, <3>1, <3>3 DEF Rel
      <4>. QED  BY <1>1, <1>3, <4>1
    <3>4. CASE c.rel = "plus"
      <4>1. \A v \in store[c.x] : v = s[c.y] + s[c.z]
        BY <3>1, <3>4 DEF Rel
      <4>. QED  BY <1>1, <1>3, <4>1
    <3>. QED  BY <1>6, <3>2, <3>3, <3>4
  <2>. QED  BY <2>1, <2>2
<1>. QED  BY <1>4, <1>5, <1>6

(* The elements of a concatenation.                                        *)
LEMMA ConcatElements ==
  ASSUME NEW s \in Seq(Constraint), NEW t \in Seq(Constraint)
  PROVE  /\ \A k \in DOMAIN s : \E l \in DOMAIN (s \o t) : (s \o t)[l] = s[k]
         /\ \A k \in DOMAIN t : \E l \in DOMAIN (s \o t) : (s \o t)[l] = t[k]
<1>1. /\ s \o t \in Seq(Constraint) /\ Len(s \o t) = Len(s) + Len(t)
      /\ Len(s) \in Nat /\ Len(t) \in Nat
      /\ \A l \in 1 .. Len(s) + Len(t) :
           (s \o t)[l] = IF l <= Len(s) THEN s[l] ELSE t[l - Len(s)]
  BY ConcatProperties
<1>2. ASSUME NEW k \in DOMAIN s
      PROVE  \E l \in DOMAIN (s \o t) : (s \o t)[l] = s[k]
  <2>1. k \in 1 .. Len(s)
    OBVIOUS
  <2>. QED  BY <1>1, <2>1
<1>3. ASSUME NEW k \in DOMAIN t
      PROVE  \E l \in DOMAIN (s \o t) : (s \o t)[l] = t[k]
  <2>1. k \in 1 .. Len(t)
    OBVIOUS
  <2>2. Len(s) + k \in 1 .. Len(s) + Len(t) /\ (s \o t)[Len(s) + k] = t[k]
    BY <1>1, <2>1
  <2>. QED  BY <1>1, <2>2
<1>. QED  BY <1>2, <1>3

(* What the thread of every item tells of its duration.                    *)
LEMMA DurationTold ==
  ASSUME NEW i \in Item
  PROVE  Plus(endTime(i), startTime(i), duration(i)) \in ToldBy(i)
<1> DEFINE body == CASE Class[i] = "seq" -> SequentialTiming(i)
                     [] Class[i] = "sim" -> SimultaneousTiming(i)
                     [] Class[i] = "element" -> << >>
           dur == Plus(endTime(i), startTime(i), duration(i))
<1>1. Class[i] \in {"seq", "sim", "element"}
  BY ConstantsAssumption
<1>2. body \in Seq(Constraint)
  <2>1. Class[i] = "sim" => SimultaneousTiming(i) \in Seq(Constraint)
    BY SimultaneousTyped
  <2>2. SequentialTiming(i) \in Seq(Constraint)
    BY SequentialTyped
  <2>. QED  BY <1>1, <2>1, <2>2
<1>3. dur \in Constraint
  BY TimeParam DEF Plus, Constraint
<1>4. constrainTiming[i] = body \o <<dur>>
  BY DEF constrainTiming, ConstrainDuration
<1> HIDE DEF body, dur
<1>5. \E l \in DOMAIN (body \o <<dur>>) : (body \o <<dur>>)[l] = dur
  <2>1. <<dur>> \in Seq(Constraint) /\ 1 \in DOMAIN <<dur>> /\ <<dur>>[1] = dur
    BY <1>3
  <2>. QED  BY <1>2, <2>1, ConcatElements
<1>. QED  BY <1>4, <1>5 DEF ToldBy, dur

(* What the thread of a container tells of its items is told by it.        *)
LEMMA BodyTold ==
  ASSUME NEW i \in Item, NEW body \in Seq(Constraint),
         constrainTiming[i] = body \o ConstrainDuration(i),
         NEW k \in DOMAIN body
  PROVE  body[k] \in ToldBy(i)
<1>1. ConstrainDuration(i) \in Seq(Constraint)
  <2>1. Plus(endTime(i), startTime(i), duration(i)) \in Constraint
    BY TimeParam DEF Plus, Constraint
  <2>. QED  BY <2>1 DEF ConstrainDuration
<1>2. PICK l \in DOMAIN constrainTiming[i] : constrainTiming[i][l] = body[k]
  BY <1>1, ConcatElements
<1>. QED  BY <1>2 DEF ToldBy

(* The point in time that the start of the k-th item of i is offset from.  *)
Anchor(i, k) ==
  IF Class[i] = "seq" /\ k # 1 THEN endTime(items[i][k - 1]) ELSE startTime(i)

StartOfItem(i, k) == Plus(startTime(items[i][k]), Anchor(i, k), offsetTime(items[i][k]))

(* The items of a Sequential follow each other from its start, each after  *)
(* its offset, and it ends with the last.                                  *)
LEMMA SequentialTold ==
  ASSUME NEW i \in Item, Class[i] = "seq", items[i] # << >>
  PROVE  /\ \A k \in DOMAIN items[i] : StartOfItem(i, k) \in ToldBy(i)
         /\ Equal(endTime(i), endTime(items[i][Len(items[i])])) \in ToldBy(i)
<1> DEFINE its == items[i]
           n == Len(its)
           starts == [k \in 1 .. n |-> Plus(startTime(its[k]),
                        IF k = 1 THEN startTime(i) ELSE endTime(its[k - 1]),
                        offsetTime(its[k]))]
           last == Equal(endTime(i), endTime(its[n]))
<1>1. its \in Seq(Item) /\ n \in Nat /\ n # 0
  BY ConstantsAssumption
<1>2. ASSUME NEW k \in 1 .. n
      PROVE  its[k] \in Item
  BY <1>1
<1>3. ASSUME NEW k \in 1 .. n
      PROVE  starts[k] \in Constraint
  <2>1. k # 1 => its[k - 1] \in Item
    BY <1>1
  <2>2. (IF k = 1 THEN startTime(i) ELSE endTime(its[k - 1])) \in Param
    BY <2>1, TimeParam
  <2>. QED  BY <1>2, <2>2, TimeParam DEF Plus, Constraint
<1>4. starts \in Seq(Constraint) /\ 1 \in DOMAIN starts
  <2>1. starts \in [1 .. n -> Constraint]
    BY <1>3
  <2>. QED  BY <1>1, <2>1, ConstraintSeq
<1>5. <<last>> \in Seq(Constraint) /\ 1 \in DOMAIN <<last>> /\ <<last>>[1] = last
  <2>1. last \in Constraint
    BY <1>1, <1>2, TimeParam DEF Equal, Constraint
  <2> HIDE DEF last
  <2>. QED  BY <2>1
<1>6. SequentialTiming(i) = starts \o <<last>>
  BY <1>1 DEF SequentialTiming
<1>7. \A k \in DOMAIN its : k \in DOMAIN starts /\ starts[k] = StartOfItem(i, k)
  BY <1>1 DEF StartOfItem, Anchor
<1>8. constrainTiming[i] = SequentialTiming(i) \o ConstrainDuration(i)
  BY DEF constrainTiming
<1>9. SequentialTiming(i) \in Seq(Constraint)
  BY SequentialTyped
<1> HIDE DEF starts, last
<1>10. ASSUME NEW k \in DOMAIN starts
       PROVE  starts[k] \in ToldBy(i)
  <2>1. PICK j \in DOMAIN SequentialTiming(i) : SequentialTiming(i)[j] = starts[k]
    BY <1>4, <1>5, <1>6, ConcatElements
  <2>2. SequentialTiming(i)[j] \in ToldBy(i)
    BY <1>8, <1>9, BodyTold
  <2>. QED  BY <2>1, <2>2
<1>11. last \in ToldBy(i)
  <2> DEFINE end == <<last>>
  <2>1. end \in Seq(Constraint) /\ 1 \in DOMAIN end /\ SequentialTiming(i) = starts \o end
    BY <1>5, <1>6
  <2> HIDE DEF end
  <2>2. PICK j \in DOMAIN SequentialTiming(i) : SequentialTiming(i)[j] = end[1]
    BY <1>4, <2>1, ConcatElements
  <2>3. SequentialTiming(i)[j] \in ToldBy(i)
    BY <1>8, <1>9, BodyTold
  <2>. QED  BY <1>5, <2>2, <2>3 DEF end
<1>. QED  BY <1>7, <1>10, <1>11 DEF last

(* The end time of the first k items of a Simultaneous.                    *)
PartialMax(i, k) ==
  IF k = 1 THEN endTime(items[i][1])
  ELSE IF k = Len(items[i]) THEN endTime(i) ELSE <<i, "partial", k>>

(* The items of a Simultaneous start with it, each after its offset, and   *)
(* it ends with the latest of them.                                        *)
LEMMA SimultaneousTold ==
  ASSUME NEW i \in Item, Class[i] = "sim", items[i] # << >>
  PROVE  /\ \A k \in DOMAIN items[i] : StartOfItem(i, k) \in ToldBy(i)
         /\ Len(items[i]) = 1 => Equal(endTime(i), endTime(items[i][1])) \in ToldBy(i)
         /\ Len(items[i]) # 1 =>
              \A k \in 1 .. Len(items[i]) - 1 :
                Maximum(PartialMax(i, k + 1), PartialMax(i, k), endTime(items[i][k + 1]))
                  \in ToldBy(i)
<1> DEFINE its == items[i]
           n == Len(its)
           starts == [k \in 1 .. n |-> Plus(startTime(its[k]), startTime(i), offsetTime(its[k]))]
           max(k) == Maximum(PartialMax(i, k + 1), PartialMax(i, k), endTime(its[k + 1]))
<1>1. its \in Seq(Item) /\ n \in Nat /\ n # 0
  BY ConstantsAssumption
<1>2. ASSUME NEW k \in 1 .. n
      PROVE  its[k] \in Item
  BY <1>1
<1>3. ASSUME NEW k \in 1 .. n
      PROVE  starts[k] \in Constraint
  BY <1>2, <1>3, TimeParam DEF Plus, Constraint
<1>4. starts \in Seq(Constraint)
  <2>1. starts \in [1 .. n -> Constraint]
    BY <1>3
  <2>. QED  BY <1>1, <2>1, ConstraintSeq
<1>5. n = 1 => AccumMax(i) = <<Equal(endTime(i), endTime(its[1]))>>
  BY DEF AccumMax
<1>6. n # 1 => AccumMax(i) = [k \in 1 .. n - 1 |-> max(k)]
  BY DEF AccumMax, PartialMax
<1>7. AccumMax(i) \in Seq(Constraint)
  <2>1. ASSUME NEW k \in 1 .. n
        PROVE  PartialMax(i, k) \in Param
    <3>1. CASE k = 1 \/ k = n
      BY <1>1, <1>2, <3>1, TimeParam DEF PartialMax
    <3>2. CASE k # 1 /\ k # n
      <4>1. k \in Partial(i)
        BY <3>2, <1>1 DEF Partial
      <4>2. <<i, "partial", k>> \in Param
        BY <4>1 DEF Param
      <4>. QED  BY <3>2, <4>2 DEF PartialMax
    <3>. QED  BY <3>1, <3>2
  <2>2. ASSUME NEW k \in 1 .. n - 1
        PROVE  max(k) \in Constraint
    <3>1. k \in 1 .. n /\ k + 1 \in 1 .. n
      BY <1>1
    <3>2. /\ PartialMax(i, k) \in Param /\ PartialMax(i, k + 1) \in Param
          /\ endTime(its[k + 1]) \in Param
      BY <3>1, <2>1, <1>2, TimeParam
    <3>. QED  BY <3>2 DEF Maximum, Constraint
  <2>3. CASE n = 1
    <3> DEFINE eq == Equal(endTime(i), endTime(its[1]))
    <3>1. eq \in Constraint
      BY <1>1, <1>2, TimeParam DEF Equal, Constraint
    <3>2. AccumMax(i) = <<eq>>
      BY <1>5, <2>3
    <3> HIDE DEF eq
    <3>. QED  BY <3>1, <3>2
  <2>4. CASE n # 1
    <3>1. [k \in 1 .. n - 1 |-> max(k)] \in [1 .. n - 1 -> Constraint]
      BY <2>2
    <3>2. n - 1 \in Nat
      BY <1>1
    <3>. QED  BY <1>6, <2>4, <3>1, <3>2, ConstraintSeq
  <2>. QED  BY <2>3, <2>4
<1>8. SimultaneousTiming(i) = starts \o AccumMax(i)
  BY DEF SimultaneousTiming
<1>9. constrainTiming[i] = SimultaneousTiming(i) \o ConstrainDuration(i)
  BY DEF constrainTiming
<1>10. SimultaneousTiming(i) \in Seq(Constraint)
  BY SimultaneousTyped
<1>11. \A k \in DOMAIN its : k \in DOMAIN starts /\ starts[k] = StartOfItem(i, k)
  BY <1>1 DEF StartOfItem, Anchor
<1>12. ASSUME NEW k \in DOMAIN starts
       PROVE  starts[k] \in ToldBy(i)
  <2> DEFINE maxima == AccumMax(i)
  <2>1. /\ starts \in Seq(Constraint) /\ maxima \in Seq(Constraint)
        /\ SimultaneousTiming(i) = starts \o maxima
    BY <1>4, <1>7, <1>8
  <2> HIDE DEF maxima, starts
  <2>2. PICK j \in DOMAIN SimultaneousTiming(i) : SimultaneousTiming(i)[j] = starts[k]
    BY <2>1, ConcatElements
  <2>3. SimultaneousTiming(i)[j] \in ToldBy(i)
    BY <1>9, <1>10, BodyTold
  <2>. QED  BY <2>2, <2>3
<1>13. \A k \in DOMAIN AccumMax(i) : AccumMax(i)[k] \in ToldBy(i)
  <2> HIDE DEF starts
  <2>1. ASSUME NEW k \in DOMAIN AccumMax(i)
        PROVE  \E j \in DOMAIN SimultaneousTiming(i) : SimultaneousTiming(i)[j] = AccumMax(i)[k]
    BY <1>4, <1>7, <1>8, ConcatElements
  <2>. QED  BY <1>9, <1>10, <2>1, BodyTold
<1>14. n = 1 => Equal(endTime(i), endTime(its[1])) \in ToldBy(i)
  <2> DEFINE eq == Equal(endTime(i), endTime(its[1]))
  <2>1. n = 1 => AccumMax(i) = <<eq>>
    BY <1>5
  <2> HIDE DEF eq
  <2>2. n = 1 => 1 \in DOMAIN AccumMax(i) /\ AccumMax(i)[1] = eq
    BY <2>1
  <2>3. n = 1 => eq \in ToldBy(i)
    BY <1>13, <2>2
  <2>. QED  BY <2>3 DEF eq
<1>15. n # 1 => \A k \in 1 .. n - 1 : max(k) \in ToldBy(i)
  <2> HIDE DEF max
  <2>. QED  BY <1>6, <1>13
<1>. QED  BY <1>12, <1>11, <1>14, <1>15

(* The conditions on a score under which propagation determines all of it: *)
(* the items form a tree, no container is empty, the offset of a container *)
(* is given (by default 0), only elements have a pitch, and FdDistribute   *)
(* is given every parameter of every element, as MakeSearchScript collects *)
(* them with its default test.                                             *)
WellFormedScore ==
  /\ \E height \in [Item -> Nat] :
       \A i \in Item : \A k \in DOMAIN items[i] : height[items[i][k]] < height[i]
  /\ \A i \in Item : IsContainer(i) => items[i] # << >>
  /\ \A i \in Item : IsContainer(i) => \E v : InitFD(offsetTime(i)) \subseteq {v}
  /\ \A i \in Pitched : ~IsContainer(i)
  /\ \A p \in Param : ~IsContainer(p[1]) => \E k \in DOMAIN Vec : Vec[k] = p

(* The timing constraints determine a container once all its items are     *)
(* determined.                                                             *)
LEMMA ContainerDetermined ==
  ASSUME WellFormedScore, NEW store \in Store, ~Failed(store), Below(store),
         \A c \in TimingConstraints : ~Narrows(store, c),
         NEW i \in Item, IsContainer(i),
         \A k \in DOMAIN items[i] : \A p \in Param : p[1] = items[i][k] => Fixed(store, p)
  PROVE  \A p \in Param : p[1] = i => Fixed(store, p)
<1> DEFINE its == items[i]
           n == Len(its)
<1>1. its \in Seq(Item) /\ n \in Nat /\ n # 0 /\ its # << >>
  BY ConstantsAssumption DEF WellFormedScore
<1>2. ASSUME NEW k \in 1 .. n
      PROVE  /\ its[k] \in Item
             /\ Fixed(store, startTime(its[k])) /\ Fixed(store, endTime(its[k]))
             /\ Fixed(store, offsetTime(its[k]))
  <2>1. its[k] \in Item /\ k \in DOMAIN its
    BY <1>1
  <2>2. /\ startTime(its[k]) \in Param /\ startTime(its[k])[1] = its[k]
        /\ endTime(its[k]) \in Param /\ endTime(its[k])[1] = its[k]
        /\ offsetTime(its[k]) \in Param /\ offsetTime(its[k])[1] = its[k]
    BY <2>1, TimeParam DEF startTime, endTime, offsetTime
  <2>. QED  BY <2>1, <2>2
<1>3. ASSUME NEW c \in ToldBy(i)
      PROVE  c \in Constraint /\ ~Narrows(store, c)
  <2>1. constrainTiming[i] \in Seq(Constraint)
    BY ConstrainTimingTyped
  <2>. QED  BY <2>1 DEF ToldBy, TimingConstraints
<1>4. Class[i] \in {"seq", "sim"}
  BY ConstantsAssumption DEF IsContainer
<1>5. Fixed(store, startTime(i))
  <2> DEFINE c == Plus(startTime(its[1]), startTime(i), offsetTime(its[1]))
  <2>1. c \in ToldBy(i)
    <3>1. 1 \in DOMAIN its /\ c = StartOfItem(i, 1)
      BY <1>1 DEF StartOfItem, Anchor
    <3>. QED  BY <1>1, <1>4, <3>1, SequentialTold, SimultaneousTold
  <2>2. /\ c.rel = "plus" /\ c.x = startTime(its[1]) /\ c.y = startTime(i)
        /\ c.z = offsetTime(its[1])
    BY DEF Plus
  <2>3. Fixed(store, c.x) /\ Fixed(store, c.z)
    BY <1>1, <1>2, <2>2
  <2> HIDE DEF c
  <2>4. Fixed(store, c.y)
    BY <1>3, <2>1, <2>2, <2>3, PropagationDetermines
  <2>. QED  BY <2>2, <2>4
<1>6. Fixed(store, endTime(i)) /\ \A k \in Partial(i) : Fixed(store, <<i, "partial", k>>)
  <2>1. ASSUME NEW k \in 1 .. n, Equal(endTime(i), endTime(its[k])) \in ToldBy(i)
        PROVE  Fixed(store, endTime(i))
    <3> DEFINE c == Equal(endTime(i), endTime(its[k]))
    <3>1. c.rel = "eq" /\ c.x = endTime(i) /\ c.y = endTime(its[k]) /\ c.z = endTime(its[k])
      BY DEF Equal
    <3>2. Fixed(store, c.y) /\ Fixed(store, c.z)
      BY <1>2, <3>1
    <3>3. c \in ToldBy(i)
      BY <2>1
    <3> HIDE DEF c
    <3>4. Fixed(store, c.x)
      BY <1>3, <3>1, <3>2, <3>3, PropagationDetermines
    <3>. QED  BY <3>1, <3>4
  <2>2. CASE Class[i] = "seq"
    <3>1. Fixed(store, endTime(i))
      BY <1>1, <2>1, <2>2, SequentialTold
    <3>. QED  BY <2>2, <3>1 DEF Partial
  <2>3. CASE Class[i] = "sim" /\ n = 1
    <3>1. Fixed(store, endTime(i))
      BY <1>1, <2>1, <2>3, SimultaneousTold
    <3>. QED  BY <2>3, <3>1 DEF Partial
  <2>4. CASE Class[i] = "sim" /\ n # 1
    <3> DEFINE K == {k \in 1 .. n : ~Fixed(store, PartialMax(i, k))}
    <3>1. ASSUME K # {}
          PROVE  FALSE
      <4>1. [k \in K |-> k] \in [K -> Nat]
        OBVIOUS
      <4>2. PICK k \in K : \A l \in K : [j \in K |-> j][k] <= [j \in K |-> j][l]
        BY <3>1, <4>1, LeastMeasure
      <4>3. k \in 1 .. n /\ ~Fixed(store, PartialMax(i, k)) /\ \A l \in K : k <= l
        BY <4>2
      <4>4. k # 1
        BY <1>1, <1>2, <4>3 DEF PartialMax
      <4>5. k - 1 \in 1 .. n - 1 /\ k - 1 \in 1 .. n /\ k - 1 \notin K /\ (k - 1) + 1 = k
        BY <1>1, <4>3, <4>4
      <4> DEFINE c == Maximum(PartialMax(i, k), PartialMax(i, k - 1), endTime(its[k]))
      <4>6. c \in ToldBy(i)
        BY <1>1, <2>4, <4>5, SimultaneousTold
      <4>7. /\ c.rel = "max" /\ c.x = PartialMax(i, k) /\ c.y = PartialMax(i, k - 1)
            /\ c.z = endTime(its[k])
        BY DEF Maximum
      <4>8. Fixed(store, c.y) /\ Fixed(store, c.z)
        BY <1>2, <4>3, <4>5, <4>7
      <4> HIDE DEF c
      <4>9. Fixed(store, c.x)
        BY <1>3, <4>6, <4>7, <4>8, PropagationDetermines
      <4>. QED  BY <4>3, <4>7, <4>9
    <3>2. \A k \in 1 .. n : Fixed(store, PartialMax(i, k))
      BY <3>1
    <3>3. PartialMax(i, n) = endTime(i)
      BY <2>4 DEF PartialMax
    <3>4. \A k \in Partial(i) : k \in 1 .. n /\ PartialMax(i, k) = <<i, "partial", k>>
      BY <1>1, <2>4 DEF Partial, PartialMax
    <3>. QED  BY <1>1, <3>2, <3>3, <3>4
  <2>. QED  BY <1>4, <2>2, <2>3, <2>4
<1>7. Fixed(store, duration(i))
  <2> DEFINE c == Plus(endTime(i), startTime(i), duration(i))
  <2>1. c \in ToldBy(i)
    BY DurationTold
  <2>2. c.rel = "plus" /\ c.x = endTime(i) /\ c.y = startTime(i) /\ c.z = duration(i)
    BY DEF Plus
  <2> HIDE DEF c
  <2>3. Fixed(store, c.z)
    BY <1>3, <1>5, <1>6, <2>1, <2>2, PropagationDetermines
  <2>. QED  BY <2>2, <2>3
<1>8. Fixed(store, offsetTime(i))
  <2>1. PICK v : InitFD(offsetTime(i)) \subseteq {v}
    BY DEF WellFormedScore
  <2>2. /\ store[offsetTime(i)] \subseteq {v} /\ store[offsetTime(i)] # {}
        /\ store[offsetTime(i)] \subseteq FDRange
    BY <2>1, TimeParam DEF Below, Failed, Store
  <2>. QED  BY <2>2 DEF Fixed
<1>9. ASSUME NEW p \in Param, p[1] = i
      PROVE  \/ p \in {startTime(i), endTime(i), duration(i), offsetTime(i)}
             \/ \E k \in Partial(i) : p = <<i, "partial", k>>
  <2>1. CASE p \in Item \X TimeKind
    BY <1>9, <2>1 DEF TimeKind, startTime, endTime, duration, offsetTime
  <2>2. CASE p \in Pitched \X {"pitch"}
    BY <1>9, <2>2 DEF WellFormedScore
  <2>3. ASSUME NEW j \in Item, p \in {j} \X {"partial"} \X Partial(j)
        PROVE  \E k \in Partial(i) : p = <<i, "partial", k>>
    BY <1>9, <2>3
  <2>. QED  BY <2>1, <2>2, <2>3 DEF Param
<1>. QED  BY <1>5, <1>6, <1>7, <1>8, <1>9

(* Distributing the parameters of the elements is enough: whatever the     *)
(* score and the rules, propagation determines all other parameters, those *)
(* of the containers and the partial maxima of the Simultaneous ones.      *)
THEOREM ElementsDetermine == WellFormedScore => VecDetermines
<1> SUFFICES ASSUME WellFormedScore, NEW store \in Store,
                    ~Failed(store), Below(store),
                    \A c \in TimingConstraints \cup Rules : ~Narrows(store, c),
                    \A k \in DOMAIN Vec : ~IsUndet(store[Vec[k]])
             PROVE  \A p \in Param : ~IsUndet(store[p])
  BY DEF VecDetermines, Below
<1>1. \A p \in Param : store[p] \in SUBSET FDRange /\ store[p] # {}
  BY DEF Store, Failed
<1> DEFINE loose(i) == \E p \in Param : p[1] = i /\ ~Fixed(store, p)
           U == {i \in Item : loose(i)}
<1>2. ASSUME U # {}
      PROVE  FALSE
  <2>1. PICK height \in [Item -> Nat] :
          \A i \in Item : \A k \in DOMAIN items[i] : height[items[i][k]] < height[i]
    BY DEF WellFormedScore
  <2>2. [i \in U |-> height[i]] \in [U -> Nat]
    OBVIOUS
  <2>3. PICK i \in U : \A j \in U : [l \in U |-> height[l]][i] <= [l \in U |-> height[l]][j]
    BY <1>2, <2>2, LeastMeasure
  <2>4. i \in Item /\ \A j \in U : height[i] <= height[j]
    BY <2>3
  <2>5. IsContainer(i)
    <3>1. PICK p \in Param : p[1] = i /\ ~Fixed(store, p)
      OBVIOUS
    <3>2. ~IsContainer(i) => \E k \in DOMAIN Vec : Vec[k] = p
      BY <3>1 DEF WellFormedScore
    <3>. QED  BY <1>1, <3>1, <3>2, DeterminedIsSingle DEF Fixed
  <2>6. ASSUME NEW k \in DOMAIN items[i], NEW p \in Param, p[1] = items[i][k]
        PROVE  Fixed(store, p)
    <3>1. items[i][k] \in Item
      BY <2>4, ConstantsAssumption
    <3>2. height[items[i][k]] < height[i] /\ height[items[i][k]] \in Nat /\ height[i] \in Nat
      BY <2>1, <2>4, <3>1
    <3>3. items[i][k] \notin U
      BY <2>4, <3>2
    <3>. QED  BY <2>6, <3>1, <3>3
  <2>7. ~loose(i)
    BY <2>4, <2>5, <2>6, ContainerDetermined
  <2>. QED  BY <2>7
<1>3. ASSUME NEW p \in Param
      PROVE  p[1] \in Item
  BY ConstantsAssumption DEF Param
<1>4. \A p \in Param : Fixed(store, p)
  BY <1>2, <1>3
<1>. QED  BY <1>4, SingleIsDetermined DEF Fixed

(* What a search returns is a solution: every parameter of the score is    *)
(* determined, its value lies in its domain, and all timing constraints    *)
(* and rules hold, although FdDistribute only looks at those of elements.  *)
THEOREM Soundness ==
  ASSUME WellFormedScore, CandidatesSuffice
  PROVE  Spec => []SolutionSound
BY ElementsDetermine, SoundAlways

----------------------------------------------------------------------------
(* The search implements the abstract solver, step by step.                *)

Delivered == {Assignment(found[k]) : k \in DOMAIN found}

(* As many solutions have been delivered as stores were found, fewer than  *)
(* wanted as long as the engine runs.                                      *)
CountInv ==
  /\ IsFiniteSet(Delivered)
  /\ Cardinality(Delivered) = Len(found)
  /\ status \in {"building", "searching"} => Len(found) < Wanted

(* A store of singletons stands for the assignment of their elements.      *)
LEMMA AssignmentOfSolution ==
  ASSUME CandidatesSuffice, NEW s \in Solutions, NEW store,
         \A p \in Param : store[p] = {s[p]}
  PROVE  Assignment(store) = s
<1>1. s \in [Param -> FDRange]
  BY DEF Solutions, CandidatesSuffice
<1>2. \A p \in Param : (CHOOSE v \in store[p] : TRUE) = s[p]
  OBVIOUS
<1>. QED  BY <1>1, <1>2 DEF Assignment

(* Stores that are solutions and hold all solutions stand for all of them. *)
LEMMA AllDelivered ==
  ASSUME CandidatesSuffice, NEW stores,
         \A k \in DOMAIN stores : \E s \in Solutions : \A p \in Param : stores[k][p] = {s[p]},
         \A s \in Solutions : \E k \in DOMAIN stores : InStore(s, stores[k])
  PROVE  {Assignment(stores[k]) : k \in DOMAIN stores} = Solutions
<1>1. ASSUME NEW k \in DOMAIN stores
      PROVE  Assignment(stores[k]) \in Solutions
  BY AssignmentOfSolution
<1>2. ASSUME NEW s \in Solutions
      PROVE  \E k \in DOMAIN stores : s = Assignment(stores[k])
  <2>1. PICK k \in DOMAIN stores : InStore(s, stores[k])
    OBVIOUS
  <2>2. PICK t \in Solutions : \A p \in Param : stores[k][p] = {t[p]}
    OBVIOUS
  <2>3. s \in [Param -> FDRange] /\ t \in [Param -> FDRange]
    BY DEF Solutions, CandidatesSuffice
  <2>4. s = t
    BY <2>1, <2>2, <2>3 DEF InStore
  <2>. QED  BY <2>2, <2>4, AssignmentOfSolution
<1>. QED  BY <1>1, <1>2

(* A search without open spaces has delivered all solutions.               *)
LEMMA DeliveredIsAll ==
  ASSUME CandidatesSuffice, SolutionSound', NoSolutionLost', Open' = {}
  PROVE  Delivered' = Solutions
<1>1. \A k \in DOMAIN found' : \E s \in Solutions : \A p \in Param : found'[k][p] = {s[p]}
  BY DEF SolutionSound, Solutions
<1>2. \A s \in Solutions : \E k \in DOMAIN found' : InStore(s, found'[k])
  BY DEF NoSolutionLost, InStore, Solutions
<1>3. {Assignment(found'[k]) : k \in DOMAIN found'} = Solutions
  BY <1>1, <1>2, AllDelivered
<1>. QED  BY <1>3 DEF Delivered, Assignment

(* The engine stops exhausted only when no alternative is left.            *)
LEMMA ExhaustedIsEmpty ==
  ASSUME TypeOK, Backtrack, status \in {"building", "searching"}, status' # status
  PROVE  status' = "exhausted" /\ Open' = {}
<1>1. stack = << >> /\ status' = "exhausted" /\ stack' = << >>
  BY DEF Backtrack
<1>. QED  BY <1>1 DEF Open

(* A success delivers a solution that was not delivered before.            *)
LEMMA SuccessDelivers ==
  ASSUME VecDetermines, CandidatesSuffice, TypeOK, ListInv, SolutionSound, SpacesDisjoint,
         CountInv, Succeed
  PROVE  /\ \E s \in Solutions \ Delivered : Delivered' = Delivered \cup {s}
         /\ IsFiniteSet(Delivered') /\ Cardinality(Delivered') = Len(found')
         /\ Len(found') = Len(found) + 1 /\ Len(found) < Wanted /\ Len(found) \in Nat
         /\ status = "searching"
<1>1. /\ Stable /\ Filtered = {} /\ found' = Append(found, dom)
      /\ status = "searching" /\ found \in Seq(Store) /\ dom \in Store
  BY DEF Succeed, Stable, TypeOK
<1>2. PICK s \in Solutions : \A p \in Param : dom[p] = {s[p]}
  BY <1>1, SucceedSound
<1>3. Assignment(dom) = s
  BY <1>2, AssignmentOfSolution
<1>4. /\ Len(found') = Len(found) + 1 /\ Len(found) \in Nat
      /\ DOMAIN found' = DOMAIN found \cup {Len(found) + 1}
      /\ \A k \in DOMAIN found : found'[k] = found[k]
      /\ found'[Len(found) + 1] = dom
  BY <1>1, AppendProperties
<1>5. Delivered' = Delivered \cup {s}
  <2>1. \A k \in DOMAIN found : Assignment(found'[k]) = Assignment(found[k])
    BY <1>4
  <2>2. Delivered' = {Assignment(found'[k]) : k \in DOMAIN found'}
    BY DEF Delivered, Assignment
  <2>. QED  BY <1>3, <1>4, <2>1, <2>2 DEF Delivered
<1>6. s \notin Delivered
  <2>1. ASSUME NEW k \in DOMAIN found, s = Assignment(found[k])
        PROVE  FALSE
    <3>1. PICK p \in Param : dom[p] \cap found[k][p] = {}
      BY <1>1 DEF SpacesDisjoint, Apart
    <3>2. PICK t \in Solutions : \A q \in Param : found[k][q] = {t[q]}
      BY DEF SolutionSound
    <3>3. t = s
      BY <2>1, <3>2, AssignmentOfSolution
    <3>. QED  BY <1>2, <3>1, <3>2, <3>3
  <2>. QED  BY <2>1 DEF Delivered
<1>7. IsFiniteSet(Delivered') /\ Cardinality(Delivered') = Len(found')
  BY <1>4, <1>5, <1>6, FS_AddElement DEF CountInv
<1>. QED  BY <1>1, <1>2, <1>4, <1>5, <1>6, <1>7 DEF CountInv

(* CountInv is inductive together with the invariants proved before.       *)
LEMMA CountStep ==
  ASSUME VecDetermines, CandidatesSuffice, TypeOK, ListInv, SolutionSound, SpacesDisjoint,
         CountInv, [Next]_vars
  PROVE  CountInv'
<1>1. ASSUME UNCHANGED found, status' \in {"building", "searching"} =>
                                status \in {"building", "searching"}
      PROVE  CountInv'
  <2>1. Delivered' = Delivered
    BY <1>1 DEF Delivered, Assignment
  <2>. QED  BY <1>1, <2>1 DEF CountInv
<1>2. CASE UNCHANGED vars \/ Terminated
  BY <1>1, <1>2 DEF Terminated, vars
<1>3. CASE Step
  <2>1. CASE ~Succeed
    <3>1. UNCHANGED found /\ status \in {"building", "searching"}
      BY <1>3, <2>1
         DEF Step, InitDomains, Tell, Distribute, Propagate, Choose, Fail, Stable, Running
    <3>. QED  BY <1>1, <3>1
  <2>2. CASE Succeed
    <3>1. /\ IsFiniteSet(Delivered') /\ Cardinality(Delivered') = Len(found')
          /\ Len(found') = Len(found) + 1 /\ Len(found) < Wanted /\ Len(found) \in Nat
      BY <2>2, SuccessDelivers
    <3>2. Len(found') = Wanted => status' = "enough"
      BY <2>2 DEF Succeed
    <3>3. status' \in {"building", "searching"} => Len(found') < Wanted
      BY <3>1, <3>2, DistributionAssumption
    <3>. QED  BY <3>1, <3>3 DEF CountInv
  <2>. QED  BY <2>1, <2>2
<1>. QED  BY <1>2, <1>3 DEF Next

(* Every step of the search is a step of the abstract solver or changes    *)
(* nothing it can see: a success delivers a solution not delivered before, *)
(* and the engine stops with as many solutions as were wanted or with all  *)
(* there are.                                                              *)
LEMMA SolverStep ==
  ASSUME VecDetermines, CandidatesSuffice, TypeOK, ListInv, SolutionSound, SpacesDisjoint,
         CountInv, [Next]_vars, SolutionSound', NoSolutionLost'
  PROVE  [Abstract!Next]_(Abstract!vars)
<1> DEFINE finished == status \in {"enough", "exhausted"}
<1>1. /\ Abstract!vars = <<Delivered, finished>>
      /\ (Abstract!vars)' = <<Delivered', finished'>>
  BY DEF Abstract!vars, Delivered
<1>2. ASSUME UNCHANGED found, finished' = finished
      PROVE  UNCHANGED Abstract!vars
  <2>1. Delivered' = Delivered
    BY <1>2 DEF Delivered, Assignment
  <2>. QED  BY <1>1, <1>2, <2>1
<1>3. CASE UNCHANGED vars \/ Terminated
  BY <1>2, <1>3 DEF Terminated, vars
<1>4. CASE Step /\ ~Fail /\ ~Succeed
  <2>1. UNCHANGED found /\ finished' = finished
    BY <1>4
       DEF Step, InitDomains, Tell, Distribute, Propagate, Choose, Stable, Running
  <2>. QED  BY <1>2, <2>1
<1>5. CASE Fail
  <2>1. CASE status' = status
    BY <1>2, <1>5, <2>1 DEF Fail
  <2>2. CASE status' # status
    <3>1. /\ status \in {"building", "searching"} /\ status' = "exhausted"
          /\ found' = found /\ Open' = {}
      BY <1>5, <2>2, ExhaustedIsEmpty DEF Fail
    <3>2. Delivered' = Solutions
      BY <3>1, DeliveredIsAll
    <3>3. Delivered' = Delivered
      BY <3>1 DEF Delivered, Assignment
    <3>. QED  BY <3>1, <3>2, <3>3 DEF Abstract!Next, Abstract!Finish, Delivered
  <2>. QED  BY <2>1, <2>2
<1>6. CASE Succeed
  <2>1. PICK s \in Solutions \ Delivered : Delivered' = Delivered \cup {s}
    BY <1>6, SuccessDelivers
  <2>2. /\ Cardinality(Delivered') = Len(found') /\ Len(found) < Wanted
        /\ Cardinality(Delivered) = Len(found) /\ status = "searching"
    BY <1>6, SuccessDelivers DEF CountInv
  <2>3. finished' \in {FALSE, Cardinality(Delivered') = Wanted \/ Delivered' = Solutions}
    <3>1. CASE Len(found') = Wanted
      BY <1>6, <2>2, <3>1 DEF Succeed
    <3>2. CASE Len(found') # Wanted /\ status' = status
      <4>1. status' = "searching"
        BY <2>2, <3>2
      <4>2. finished' = FALSE
        BY <4>1
      <4>. QED  BY <4>2
    <3>3. CASE Len(found') # Wanted /\ status' # status
      <4>1. status' = "exhausted" /\ Open' = {}
        BY <1>6, <2>2, <3>3, ExhaustedIsEmpty DEF Succeed
      <4>2. Delivered' = Solutions
        BY <4>1, DeliveredIsAll
      <4>. QED  BY <4>1, <4>2
    <3>. QED  BY <3>1, <3>2, <3>3
  <2>4. ~finished
    BY <2>2
  <2>5. Cardinality(Delivered) < Wanted
    BY <2>2
  <2>6. \A S : Abstract!Cardinality(S) = Cardinality(S)
    BY DEF Abstract!Cardinality, Cardinality
  <2>7. Abstract!Deliver(s)
    BY <2>1, <2>3, <2>4, <2>5, <2>6 DEF Abstract!Deliver, Delivered
  <2>. QED  BY <2>7 DEF Abstract!Next
<1>. QED  BY <1>3, <1>4, <1>5, <1>6 DEF Next

(* The search implements the abstract solver as far as safety goes: it     *)
(* delivers solutions only, none of them twice and never more than were    *)
(* wanted, and it stops only with as many as wanted or with all there are. *)
THEOREM SolverImplemented ==
  ASSUME WellFormedScore, CandidatesSuffice
  PROVE  Spec => Abstract!Init /\ [][Abstract!Next]_(Abstract!vars)
<1>1. VecDetermines
  BY ElementsDetermine
<1>2. Init => Abstract!Init
  BY DEF Init, Abstract!Init
<1>3. Init => CountInv
  <2>1. ASSUME Init
        PROVE  Delivered = {} /\ Len(found) = 0
    BY <2>1 DEF Init, Delivered
  <2>2. IsFiniteSet({}) /\ Cardinality({}) = 0 /\ 0 < Wanted
    BY FS_EmptySet, DistributionAssumption
  <2>. QED  BY <2>1, <2>2 DEF CountInv
<1>4. TypeOK /\ ListInv /\ SolutionSound /\ SpacesDisjoint /\ CountInv /\ [Next]_vars => CountInv'
  BY <1>1, CountStep
<1>5. TypeOK /\ ListInv /\ SolutionSound /\ SpacesDisjoint /\ CountInv /\ [Next]_vars
        /\ SolutionSound' /\ NoSolutionLost' => [Abstract!Next]_(Abstract!vars)
  BY <1>1, SolverStep
<1>6. Spec => []SolutionSound
  BY <1>1, SoundAlways
<1>. QED  BY <1>2, <1>3, <1>4, <1>5, <1>6, TypeCorrect, ListAlways,
             Completeness, Disjointness, PTL DEF Spec

----------------------------------------------------------------------------
(* The order in which leftToRight visits the parameters.                   *)

(* A function on 0 .. N that takes at every number that number or keeps    *)
(* what it has, as a relation R demands, exists.                           *)
LEMMA RunExists ==
  ASSUME NEW N \in Nat, NEW R
  PROVE  \E f \in [0 .. N -> 0 .. N] :
           f = [k \in 0 .. N |-> IF k = 0 THEN 0
                                 ELSE IF <<k, f[k - 1]>> \in R THEN k ELSE f[k - 1]]
<1> DEFINE Run(f, n) ==
             /\ f \in [0 .. n -> 0 .. n] 
             /\ f = [k \in 0 .. n |-> IF k = 0 THEN 0
                                 ELSE IF <<k, f[k - 1]>> \in R THEN k ELSE f[k - 1]]
           bad == {n \in 0 .. N : ~ \E f : Run(f, n)}
<1>1. ASSUME bad # {}
      PROVE  FALSE
  <2>1. [n \in bad |-> n] \in [bad -> Nat]
    OBVIOUS
  <2>2. PICK n \in bad : \A m \in bad : [l \in bad |-> l][n] <= [l \in bad |-> l][m]
    BY <1>1, <2>1, LeastMeasure
  <2>3. n \in 0 .. N /\ (~ \E f : Run(f, n)) /\ \A m \in bad : n <= m
    BY <2>2
  <2>4. n # 0
    <3>1. Run([k \in 0 .. 0 |-> 0], 0)
      OBVIOUS
    <3>. QED  BY <2>3, <3>1
  <2>5. n - 1 \in 0 .. N /\ n - 1 \notin bad
    <3> HIDE DEF bad, Run
    <3>. QED  BY <2>3, <2>4
  <2>6. PICK g : Run(g, n - 1)
    BY <2>5
  <2>7. n \in Nat /\ n - 1 \in 0 .. n - 1
    BY <2>3, <2>4
  <2>8. ASSUME NEW k \in 0 .. n, k # n
        PROVE  k \in 0 .. n - 1 /\ (k # 0 => k - 1 \in 0 .. n - 1)
    BY <2>7, <2>8
  <2>9. g \in [0 .. n - 1 -> 0 .. n - 1] /\ g[n - 1] \in 0 .. n
    BY <2>6, <2>7
  <2> DEFINE f == [k \in 0 .. n |-> IF k = n THEN IF <<n, g[n - 1]>> \in R THEN n ELSE g[n - 1]
                                   ELSE g[k]]
  <2>10. /\ g \in [0 .. n - 1 -> 0 .. n - 1]
         /\ \A k \in 0 .. n - 1 :
              g[k] = IF k = 0 THEN 0 ELSE IF <<k, g[k - 1]>> \in R THEN k ELSE g[k - 1]
    BY <2>6
  <2>11. f \in [0 .. n -> 0 .. n]
    <3>1. ASSUME NEW k \in 0 .. n
          PROVE  f[k] \in 0 .. n
      BY <2>10, <2>7, <2>8, <2>9
    <3>. QED  BY <3>1
  <2>12. ASSUME NEW k \in 0 .. n
        PROVE f[k] = IF k = 0 THEN 0 ELSE IF <<k, f[k - 1]>> \in R THEN k ELSE f[k - 1]
    <3>1. CASE k = n
      <4>1. f[n] = IF <<n, g[n - 1]>> \in R THEN n ELSE g[n - 1]
        BY <2>7, <2>8
      <4>2. f[n - 1] = g[n - 1]
        BY <2>7
      <4>. QED  BY <3>1, <4>1, <4>2, <2>4
    <3>2. CASE k # n
      <4>1. f[k] = g[k] /\ (k # 0 => f[k - 1] = g[k - 1])
        BY <3>2, <2>7, <2>8
      <4>. QED  BY <3>2, <4>1, <2>10, <2>7, <2>8, <2>9
    <3>. QED  BY <3>1, <3>2
  <2>13. Run(f, n)
    BY <2>11, <2>12
  <2>. QED  BY <2>3, <2>13
<1>2. N \in 0 .. N
  OBVIOUS
<1>. QED  BY <1>1, <1>2

(* ChooseAndRetFiltVars goes through the list one parameter at a time.     *)
LEMMA PreferredStep ==
  \A k \in 0 .. Len(Vec) :
    Preferred[k] = IF k = 0 THEN 0
                   ELSE IF k \in Filtered
                           /\ (Preferred[k - 1] = 0 \/ Order(Vec[k], Vec[Preferred[k - 1]]))
                        THEN k ELSE Preferred[k - 1]
<1> DEFINE N == Len(Vec)
           R == {q \in (0 .. N) \X (0 .. N) :
                   q[1] \in Filtered /\ (q[2] = 0 \/ Order(Vec[q[1]], Vec[q[2]]))}
           F(f) == [k \in 0 .. N |-> IF k = 0 THEN 0
                   ELSE IF k \in Filtered
                           /\ (f[k - 1] = 0 \/ Order(Vec[k], Vec[f[k - 1]]))
                        THEN k ELSE f[k - 1]]
<1>1. N \in Nat
  BY DistributionAssumption
<1>2. PICK f \in [0 .. N -> 0 .. N] :
           f = [k \in 0 .. N |-> IF k = 0 THEN 0
                                 ELSE IF <<k, f[k - 1]>> \in R THEN k ELSE f[k - 1]]
  <2> HIDE DEF R, N
  <2>. QED BY <1>1, RunExists
<1>3. f = F(f)
  <2>1. ASSUME NEW k \in 0 .. N
        PROVE  f[k] = F(f)[k]
    <3>1. k # 0 => k - 1 \in 0 .. N /\ f[k - 1] \in 0 .. N
      BY <1>1, <1>2
    <3>2. k # 0 => (<<k, f[k - 1]>> \in R <=> k \in Filtered
                           /\ (f[k - 1] = 0 \/ Order(Vec[k], Vec[f[k - 1]])))
      BY <3>1
    <3>3. f[k] = IF k = 0 THEN 0 ELSE IF <<k, f[k - 1]>> \in R THEN k ELSE f[k - 1]
      BY <1>2
    <3> HIDE DEF R
    <3>. QED  BY <3>2, <3>3
  <2>. QED  BY <1>2, <2>1
<1>4. Preferred = CHOOSE g : g = F(g)
  BY DEF Preferred
<1>5. Preferred = F(Preferred)
  BY <1>3, <1>4
<1>. QED  BY <1>5

(* Position l of the vector is not to the left of a.                       *)
StartOf(k) == dom[startTime(Vec[k][1])]

NotBefore(l, a) ==
  ~IsUndet(StartOf(l)) =>
    /\ ~IsUndet(StartOf(a))
    /\ ReflectMin(StartOf(a)) <= ReflectMin(StartOf(l))
    /\ StartOf(a) = StartOf(l) /\ IsTimeParameter(Vec[l]) => IsTimeParameter(Vec[a])

(* A determined start time is a number.                                    *)
LEMMA StartKnown ==
  ASSUME TypeOK, ~Failed(dom), NEW k \in DOMAIN Vec, ~IsUndet(StartOf(k))
  PROVE  \E v \in Nat : StartOf(k) = {v} /\ ReflectMin(StartOf(k)) = v
<1>1. startTime(Vec[k][1]) \in Param
  <2>1. Vec[k] \in Param
    BY DistributionAssumption
  <2>2. Vec[k][1] \in Item
    BY <2>1, ConstantsAssumption DEF Param
  <2>. QED  BY <2>2, TimeParam
<1>2. StartOf(k) \in SUBSET FDRange /\ StartOf(k) # {}
  BY <1>1 DEF StartOf, TypeOK, Store, Failed
<1>3. PICK v \in FDRange : StartOf(k) = {v}
  BY <1>2, DeterminedIsSingle
<1>4. ReflectMin(StartOf(k)) = v
  BY <1>2, <1>3, ReflectBounds
<1>. QED  BY <1>3, <1>4 DEF FDRange

(* One step of ChooseAndRetFiltVars under the ordering leftToRight.        *)
LEMMA LeftToRightStep ==
  ASSUME TypeOK, ~Failed(dom), distro.order = "leftToRight",
         NEW k \in DOMAIN Vec, NEW a \in DOMAIN Vec
  PROVE  /\ Order(Vec[k], Vec[a]) =>
              /\ NotBefore(a, k)
              /\ \A l \in DOMAIN Vec : NotBefore(l, a) => NotBefore(l, k)
         /\ ~Order(Vec[k], Vec[a]) => NotBefore(k, a)
<1>1. Order(Vec[k], Vec[a]) <=>
        IF ~IsUndet(StartOf(k)) /\ ~IsUndet(StartOf(a))
        THEN \/ ReflectMin(StartOf(k)) < ReflectMin(StartOf(a))
             \/ StartOf(k) = StartOf(a) /\ IsTimeParameter(Vec[k])
        ELSE ~IsUndet(StartOf(k))
  BY DEF Order, MakeLeftToRight, TimeParams, StartOf
<1>2. \A l \in DOMAIN Vec : ~IsUndet(StartOf(l)) =>
        \E v \in Nat : StartOf(l) = {v} /\ ReflectMin(StartOf(l)) = v
  BY StartKnown
<1>3. ASSUME Order(Vec[k], Vec[a]), NEW l \in DOMAIN Vec, NotBefore(l, a)
      PROVE  NotBefore(l, k)
  BY <1>1, <1>2, <1>3 DEF NotBefore
<1>4. Order(Vec[k], Vec[a]) => NotBefore(a, k)
  BY <1>1, <1>2 DEF NotBefore
<1>5. ~Order(Vec[k], Vec[a]) => NotBefore(k, a)
  BY <1>1, <1>2 DEF NotBefore
<1>. QED  BY <1>3, <1>4, <1>5

(* The parameter chosen under leftToRight is not to the right of any other *)
(* that is left to distribute.                                             *)
LEMMA ChosenIsLeftmost ==
  ASSUME TypeOK, ~Failed(dom), distro.order = "leftToRight", Filtered # {}
  PROVE  Chosen \in Filtered /\ \A l \in Filtered : NotBefore(l, Chosen)
<1> DEFINE N == Len(Vec)
           good(k) == IF Preferred[k] = 0 THEN \A l \in Filtered : l > k
                      ELSE /\ Preferred[k] \in Filtered
                           /\ \A l \in Filtered : l <= k => NotBefore(l, Preferred[k])
           bad == {k \in 0 .. N : ~good(k)}
<1>1. /\ N \in Nat /\ DOMAIN Vec = 1 .. N /\ Filtered \subseteq DOMAIN Vec
      /\ \A l \in Filtered : l \in 1 .. N
  BY DistributionAssumption DEF Filtered, TypeOK
<1>2. ASSUME bad # {}
      PROVE  FALSE
  <2>1. [n \in bad |-> n] \in [bad -> Nat]
    OBVIOUS
  <2>2. PICK n \in bad : \A m \in bad : [l \in bad |-> l][n] <= [l \in bad |-> l][m]
    BY <1>2, <2>1, LeastMeasure
  <2>3. n \in 0 .. N /\ ~good(n) /\ \A m \in bad : n <= m
    BY <2>2
  <2>4. n # 0
    <3>1. Preferred[0] = 0
      BY <1>1, PreferredStep
    <3>2. good(0)
      BY <1>1, <3>1
    <3>. QED  BY <2>3, <3>2
  <2>5. n - 1 \in 0 .. N /\ n \in 1 .. N
    BY <1>1, <2>3, <2>4
  <2>6. good(n - 1)
    <3>1. n - 1 \notin bad
      <4> HIDE DEF bad
      <4>. QED  BY <2>3, <2>5
    <3>. QED  BY <2>5, <3>1
  <2> DEFINE a == Preferred[n - 1]
  <2>7. Preferred[n] = IF n \in Filtered /\ (a = 0 \/ Order(Vec[n], Vec[a])) THEN n ELSE a
    BY <2>3, <2>4, PreferredStep
  <2>8. /\ a = 0 => \A l \in Filtered : l > n - 1
        /\ a # 0 => a \in Filtered /\ \A l \in Filtered : l <= n - 1 => NotBefore(l, a)
    BY <2>6
  <2>9. \A l \in Filtered : l <= n <=> (l <= n - 1 \/ l = n)
    BY <1>1, <2>5
  <2>10. \A l \in Filtered : l > n - 1 <=> ~(l <= n - 1)
    BY <1>1, <2>5
  <2> HIDE DEF a
  <2>11. NotBefore(n, n)
    <3>1. ~IsUndet(StartOf(n)) => ReflectMin(StartOf(n)) \in Nat
      BY <1>1, <2>5, StartKnown
    <3>. QED  BY <3>1 DEF NotBefore
  <2>12. CASE n \in Filtered /\ a = 0
    <3>1. \A l \in Filtered : l <= n => l = n
      BY <2>8, <2>9, <2>10, <2>12
    <3>. QED  BY <2>3, <2>4, <2>7, <2>11, <2>12, <3>1
  <2>13. CASE n \in Filtered /\ a # 0 /\ Order(Vec[n], Vec[a])
    <3>1. \A l \in Filtered : l <= n => NotBefore(l, n)
      BY <1>1, <2>8, <2>9, <2>11, <2>13, LeftToRightStep
    <3>. QED  BY <2>3, <2>4, <2>7, <2>13, <3>1
  <2>14. CASE n \in Filtered /\ a # 0 /\ ~Order(Vec[n], Vec[a])
    <3>1. \A l \in Filtered : l <= n => NotBefore(l, a)
      BY <1>1, <2>8, <2>9, <2>14, LeftToRightStep
    <3>. QED  BY <2>3, <2>7, <2>8, <2>14, <3>1
  <2>15. CASE n \notin Filtered
    <3>1. \A l \in Filtered : l <= n <=> l <= n - 1
      BY <2>9, <2>15
    <3>2. \A l \in Filtered : l > n - 1 => l > n
      BY <1>1, <2>5, <2>15
    <3>. QED  BY <2>3, <2>7, <2>8, <2>15, <3>1, <3>2
  <2>. QED  BY <2>12, <2>13, <2>14, <2>15
<1>3. good(N)
  BY <1>1, <1>2
<1>4. \A l \in Filtered : l <= N /\ ~(l > N)
  BY <1>1
<1>. QED  BY <1>3, <1>4 DEF Chosen

(* The value is determined, or no smaller than m.                          *)
Ok(store, m, p) == Fixed(store, p) \/ \A v \in store[p] : v >= m

(* A sum starting from a known or late value is known, if what is added    *)
(* is, or late; so is the maximum of two and what equals one.              *)
LEMMA PropagationKeepsOk ==
  ASSUME NEW c \in Constraint, NEW store \in Store, ~Narrows(store, c), ~Failed(store),
         NEW m \in Nat, Ok(store, m, c.y)
  PROVE  /\ c.rel = "plus" /\ Fixed(store, c.z) => Ok(store, m, c.x)
         /\ c.rel = "plus" /\ (\A v \in store[c.y] : v >= m) => Ok(store, m, c.x)
         /\ c.rel = "max" /\ Ok(store, m, c.z) => Ok(store, m, c.x)
         /\ c.rel = "eq" /\ c.z = c.y => Ok(store, m, c.x)
<1>1. /\ c.x \in Param /\ c.y \in Param /\ c.z \in Param
      /\ \A p \in Param : store[p] \subseteq FDRange /\ store[p] # {}
      /\ \A n \in FDRange : n \in Nat
  BY DEF Constraint, Store, Failed, FDRange
<1>2. ASSUME NEW v \in store[c.x]
      PROVE  \E b \in Hull(store[c.y]), e \in Hull(store[c.z]) : Rel(c.rel, v, b, e)
  <2>1. v \in Narrowed(store, c)[c.x]
    BY <1>1 DEF Narrows, Scope
  <2>2. PICK a \in {v}, b \in IF c.x = c.y THEN {v} ELSE Hull(store[c.y]) :
          \E e \in IF c.x = c.z THEN {v} ELSE Hull(store[c.z]) : Rel(c.rel, a, b, e)
    BY <1>1, <2>1 DEF Narrowed, Scope
  <2>3. PICK e \in IF c.x = c.z THEN {v} ELSE Hull(store[c.z]) : Rel(c.rel, a, b, e)
    BY <2>2
  <2>4. v \in Hull(store[c.x])
    BY <1>1, HullContains
  <2>5. b \in Hull(store[c.y]) /\ e \in Hull(store[c.z]) /\ a = v
    BY <2>2, <2>3, <2>4
  <2>. QED  BY <2>3, <2>5
<1>3. ASSUME NEW p \in Param, \A v \in store[p] : v >= m, NEW b \in Hull(store[p])
      PROVE  b >= m
  BY <1>1, <1>3 DEF Hull
<1>4. \A p \in Param : \A b \in Hull(store[p]) : b \in Nat
  BY <1>1 DEF Hull
<1>5. ASSUME c.rel = "plus", \A v \in store[c.y] : v >= m
      PROVE  Ok(store, m, c.x)
  <2>1. ASSUME NEW v \in store[c.x]
        PROVE  v >= m
    <3>1. PICK b \in Hull(store[c.y]), e \in Hull(store[c.z]) : Rel(c.rel, v, b, e)
      BY <1>2
    <3>2. b >= m /\ b \in Nat /\ e \in Nat
      BY <1>1, <1>3, <1>4, <1>5
    <3>. QED  BY <1>5, <3>1, <3>2 DEF Rel
  <2>. QED  BY <2>1 DEF Ok
<1>6. ASSUME c.rel = "plus", Fixed(store, c.z)
      PROVE  Ok(store, m, c.x)
  BY <1>5, <1>6, PropagationDetermines DEF Ok
<1>7. ASSUME c.rel = "max", Ok(store, m, c.z)
      PROVE  Ok(store, m, c.x)
  <2>1. CASE Fixed(store, c.y) /\ Fixed(store, c.z)
    BY <1>7, <2>1, PropagationDetermines DEF Ok
  <2>2. CASE ~Fixed(store, c.y) \/ ~Fixed(store, c.z)
    <3>1. ASSUME NEW v \in store[c.x]
          PROVE  v >= m
      <4>1. PICK b \in Hull(store[c.y]), e \in Hull(store[c.z]) : Rel(c.rel, v, b, e)
        BY <1>2
      <4>2. v >= b /\ v >= e /\ v \in Nat /\ b \in Nat /\ e \in Nat
        BY <1>1, <1>4, <1>7, <4>1 DEF Rel
      <4>3. b >= m \/ e >= m
        BY <1>1, <1>3, <1>7, <2>2 DEF Ok
      <4>. QED  BY <4>2, <4>3
    <3>. QED  BY <3>1 DEF Ok
  <2>. QED  BY <2>1, <2>2
<1>8. ASSUME c.rel = "eq", c.z = c.y
      PROVE  Ok(store, m, c.x)
  <2>1. CASE Fixed(store, c.y)
    BY <1>8, <2>1, PropagationDetermines DEF Ok
  <2>2. CASE ~Fixed(store, c.y)
    <3>1. ASSUME NEW v \in store[c.x]
          PROVE  v >= m
      <4>1. PICK b \in Hull(store[c.y]), e \in Hull(store[c.z]) : Rel(c.rel, v, b, e)
        BY <1>2
      <4>. QED  BY <1>1, <1>3, <1>8, <2>2, <4>1 DEF Rel, Ok
    <3>. QED  BY <3>1 DEF Ok
  <2>. QED  BY <2>1, <2>2
<1>. QED  BY <1>5, <1>6, <1>7, <1>8

(* The conditions under which leftToRight can work: the time line starts   *)
(* at a given time, all offsets are given, and every item is contained in  *)
(* the top-level item, directly or in another item.                        *)
LeftToRightScore ==
  /\ WellFormedScore
  /\ \A i \in Item : \E v : InitFD(offsetTime(i)) \subseteq {v}
  /\ \E v : InitFD(startTime(top)) \subseteq {v}
  /\ \E depth \in [Item -> Nat] : \A i \in Item \ {top} :
       \E j \in Item : /\ IsContainer(j) /\ depth[j] < depth[i]
                       /\ \E k \in DOMAIN items[j] : items[j][k] = i

(* In a container that starts at a known or late time, whose items end at  *)
(* such a time if they start at one, all items start and end at one.       *)
LEMMA ContainerOk ==
  ASSUME LeftToRightScore, NEW store \in Store, ~Failed(store), Below(store),
         \A c \in TimingConstraints : ~Narrows(store, c),
         NEW m \in Nat, NEW i \in Item, IsContainer(i), Ok(store, m, startTime(i)),
         \A k \in DOMAIN items[i] :
           Ok(store, m, startTime(items[i][k])) => Ok(store, m, endTime(items[i][k]))
  PROVE  /\ Ok(store, m, endTime(i))
         /\ \A k \in DOMAIN items[i] : Ok(store, m, startTime(items[i][k]))
<1> DEFINE its == items[i]
           n == Len(its)
<1>1. its \in Seq(Item) /\ n \in Nat /\ n # 0 /\ its # << >> /\ DOMAIN its = 1 .. n
  BY ConstantsAssumption DEF LeftToRightScore, WellFormedScore
<1>2. Class[i] \in {"seq", "sim"}
  BY ConstantsAssumption DEF IsContainer
<1>3. ASSUME NEW c \in ToldBy(i)
      PROVE  c \in Constraint /\ ~Narrows(store, c)
  <2>1. constrainTiming[i] \in Seq(Constraint)
    BY ConstrainTimingTyped
  <2>. QED  BY <2>1 DEF ToldBy, TimingConstraints
<1>4. ASSUME NEW k \in 1 .. n
      PROVE  its[k] \in Item /\ Fixed(store, offsetTime(its[k]))
  <2>1. its[k] \in Item
    BY <1>1
  <2>2. PICK v : InitFD(offsetTime(its[k])) \subseteq {v}
    BY <2>1 DEF LeftToRightScore
  <2>3. /\ store[offsetTime(its[k])] \subseteq {v} /\ store[offsetTime(its[k])] # {}
        /\ store[offsetTime(its[k])] \subseteq FDRange
    BY <2>1, <2>2, TimeParam DEF Below, Failed, Store
  <2>. QED  BY <2>1, <2>3 DEF Fixed
<1>5. ASSUME NEW k \in 1 .. n, Ok(store, m, Anchor(i, k))
      PROVE  Ok(store, m, startTime(its[k]))
  <2> DEFINE c == StartOfItem(i, k)
  <2>1. c \in ToldBy(i)
    BY <1>1, <1>2, SequentialTold, SimultaneousTold
  <2>2. /\ c.rel = "plus" /\ c.x = startTime(its[k]) /\ c.y = Anchor(i, k)
        /\ c.z = offsetTime(its[k])
    BY DEF StartOfItem, Plus
  <2> HIDE DEF c
  <2>3. Ok(store, m, c.x)
    BY <1>3, <1>4, <1>5, <2>1, <2>2, PropagationKeepsOk
  <2>. QED  BY <2>2, <2>3
<1>6. \A k \in 1 .. n : Ok(store, m, startTime(its[k]))
  <2> DEFINE K == {k \in 1 .. n : ~Ok(store, m, startTime(its[k]))}
  <2>1. ASSUME K # {}
        PROVE  FALSE
    <3>1. [k \in K |-> k] \in [K -> Nat]
      OBVIOUS
    <3>2. PICK k \in K : \A l \in K : [j \in K |-> j][k] <= [j \in K |-> j][l]
      BY <2>1, <3>1, LeastMeasure
    <3>3. k \in 1 .. n /\ ~Ok(store, m, startTime(its[k])) /\ \A l \in K : k <= l
      BY <3>2
    <3>4. Class[i] = "seq" /\ k # 1
      BY <1>5, <3>3 DEF Anchor
    <3>5. k - 1 \in 1 .. n /\ k - 1 \notin K
      BY <1>1, <3>3, <3>4
    <3>6. Ok(store, m, startTime(its[k - 1])) /\ k - 1 \in DOMAIN its
      BY <1>1, <3>5
    <3>7. Ok(store, m, endTime(its[k - 1]))
      BY <3>6
    <3>8. Ok(store, m, Anchor(i, k))
      BY <3>4, <3>7 DEF Anchor
    <3>. QED  BY <1>5, <3>3, <3>8
  <2>. QED  BY <2>1
<1>7. \A k \in 1 .. n : Ok(store, m, endTime(its[k]))
  BY <1>1, <1>6
<1>8. ASSUME NEW k \in 1 .. n, Equal(endTime(i), endTime(its[k])) \in ToldBy(i)
      PROVE  Ok(store, m, endTime(i))
  <2> DEFINE c == Equal(endTime(i), endTime(its[k]))
  <2>1. c.rel = "eq" /\ c.x = endTime(i) /\ c.y = endTime(its[k]) /\ c.z = c.y
    BY DEF Equal
  <2>2. c \in ToldBy(i)
    BY <1>8
  <2> HIDE DEF c
  <2>3. Ok(store, m, c.x)
    BY <1>3, <1>7, <2>1, <2>2, PropagationKeepsOk
  <2>. QED  BY <2>1, <2>3
<1>9. Ok(store, m, endTime(i))
  <2>1. CASE Class[i] = "seq"
    BY <1>1, <1>8, <2>1, SequentialTold
  <2>2. CASE Class[i] = "sim" /\ n = 1
    BY <1>1, <1>8, <2>2, SimultaneousTold
  <2>3. CASE Class[i] = "sim" /\ n # 1
    <3> DEFINE K == {k \in 1 .. n : ~Ok(store, m, PartialMax(i, k))}
    <3>1. ASSUME K # {}
          PROVE  FALSE
      <4>1. [k \in K |-> k] \in [K -> Nat]
        OBVIOUS
      <4>2. PICK k \in K : \A l \in K : [j \in K |-> j][k] <= [j \in K |-> j][l]
        BY <3>1, <4>1, LeastMeasure
      <4>3. k \in 1 .. n /\ ~Ok(store, m, PartialMax(i, k)) /\ \A l \in K : k <= l
        BY <4>2
      <4>4. k # 1
        BY <1>1, <1>7, <4>3 DEF PartialMax
      <4>5. k - 1 \in 1 .. n - 1 /\ k - 1 \in 1 .. n /\ k - 1 \notin K /\ (k - 1) + 1 = k
        BY <1>1, <4>3, <4>4
      <4> DEFINE c == Maximum(PartialMax(i, k), PartialMax(i, k - 1), endTime(its[k]))
      <4>6. c \in ToldBy(i)
        BY <1>1, <2>3, <4>5, SimultaneousTold
      <4>7. /\ c.rel = "max" /\ c.x = PartialMax(i, k) /\ c.y = PartialMax(i, k - 1)
            /\ c.z = endTime(its[k])
        BY DEF Maximum
      <4>8. Ok(store, m, c.y) /\ Ok(store, m, c.z)
        BY <1>7, <4>3, <4>5, <4>7
      <4> HIDE DEF c
      <4>9. Ok(store, m, c.x)
        BY <1>3, <4>6, <4>7, <4>8, PropagationKeepsOk
      <4>. QED  BY <4>3, <4>7, <4>9
    <3>2. Ok(store, m, PartialMax(i, n))
      BY <1>1, <3>1
    <3>3. PartialMax(i, n) = endTime(i)
      BY <2>3 DEF PartialMax
    <3>. QED  BY <3>2, <3>3
  <2>. QED  BY <1>2, <2>1, <2>2, <2>3
<1>. QED  BY <1>1, <1>6, <1>9

(* In a stable store: when no element with undetermined parameters starts  *)
(* at a known time before m, every item starts at a known time or not      *)
(* before m.                                                               *)
LEMMA EarliestFirst ==
  ASSUME LeftToRightScore, NEW store \in Store, ~Failed(store), Below(store),
         \A c \in TimingConstraints : ~Narrows(store, c),
         NEW m \in Nat,
         \A p \in Param : ~IsContainer(p[1]) /\ IsUndet(store[p]) =>
           (Fixed(store, startTime(p[1])) => \A v \in store[startTime(p[1])] : v >= m)
  PROVE  \A i \in Item : Ok(store, m, startTime(i))
<1> DEFINE carries(i) == Ok(store, m, startTime(i)) => Ok(store, m, endTime(i))
           stuck == {i \in Item : ~carries(i)}
           lost == {i \in Item : ~Ok(store, m, startTime(i))}
<1>1. ASSUME NEW i \in Item, ~IsContainer(i)
      PROVE  carries(i)
  <2> DEFINE c == Plus(endTime(i), startTime(i), duration(i))
  <2>1. c \in Constraint /\ ~Narrows(store, c)
    <3>1. c \in ToldBy(i)
      BY DurationTold
    <3>2. constrainTiming[i] \in Seq(Constraint)
      BY ConstrainTimingTyped
    <3> HIDE DEF c
    <3>. QED  BY <3>1, <3>2 DEF ToldBy, TimingConstraints
  <2>2. c.rel = "plus" /\ c.x = endTime(i) /\ c.y = startTime(i) /\ c.z = duration(i)
    BY DEF Plus
  <2> HIDE DEF c
  <2>3. ASSUME Ok(store, m, startTime(i)), ~Fixed(store, duration(i))
        PROVE  \A v \in store[startTime(i)] : v >= m
    <3>1. duration(i) \in Param /\ duration(i)[1] = i
      BY TimeParam DEF duration
    <3>2. IsUndet(store[duration(i)])
      BY <2>3, <3>1, DeterminedIsSingle DEF Store, Failed, Fixed
    <3>. QED  BY <1>1, <2>3, <3>1, <3>2 DEF Ok
  <2>4. ASSUME Ok(store, m, startTime(i))
        PROVE  Ok(store, m, endTime(i))
    BY <2>1, <2>2, <2>3, <2>4, PropagationKeepsOk
  <2>. QED  BY <2>4
<1>2. ASSUME stuck # {}
      PROVE  FALSE
  <2>1. PICK height \in [Item -> Nat] :
          \A i \in Item : \A k \in DOMAIN items[i] : height[items[i][k]] < height[i]
    BY DEF LeftToRightScore, WellFormedScore
  <2>2. [i \in stuck |-> height[i]] \in [stuck -> Nat]
    OBVIOUS
  <2>3. PICK i \in stuck :
          \A j \in stuck : [l \in stuck |-> height[l]][i] <= [l \in stuck |-> height[l]][j]
    BY <1>2, <2>2, LeastMeasure
  <2>4. i \in Item /\ ~carries(i) /\ \A j \in stuck : height[i] <= height[j]
    BY <2>3
  <2>5. IsContainer(i)
    BY <1>1, <2>4
  <2>6. ASSUME NEW k \in DOMAIN items[i]
        PROVE  carries(items[i][k])
    <3>1. items[i][k] \in Item
      BY <2>4, ConstantsAssumption
    <3>2. height[items[i][k]] < height[i] /\ height[items[i][k]] \in Nat /\ height[i] \in Nat
      BY <2>1, <2>4, <3>1
    <3>3. items[i][k] \notin stuck
      BY <2>4, <3>2
    <3>. QED  BY <3>1, <3>3
  <2>. QED  BY <2>4, <2>5, <2>6, ContainerOk
<1>3. \A i \in Item : carries(i)
  BY <1>2
<1>4. ASSUME lost # {}
      PROVE  FALSE
  <2>1. PICK depth \in [Item -> Nat] : \A i \in Item \ {top} :
          \E j \in Item : /\ IsContainer(j) /\ depth[j] < depth[i]
                          /\ \E k \in DOMAIN items[j] : items[j][k] = i
    BY DEF LeftToRightScore
  <2>2. [i \in lost |-> depth[i]] \in [lost -> Nat]
    OBVIOUS
  <2>3. PICK i \in lost :
          \A j \in lost : [l \in lost |-> depth[l]][i] <= [l \in lost |-> depth[l]][j]
    BY <1>4, <2>2, LeastMeasure
  <2>4. i \in Item /\ ~Ok(store, m, startTime(i)) /\ \A j \in lost : depth[i] <= depth[j]
    BY <2>3
  <2>5. i # top
    <3>1. PICK v : InitFD(startTime(top)) \subseteq {v}
      BY DEF LeftToRightScore
    <3>2. /\ store[startTime(top)] \subseteq {v} /\ store[startTime(top)] # {}
          /\ store[startTime(top)] \subseteq FDRange
      BY <3>1, TimeParam, ConstantsAssumption DEF Below, Failed, Store
    <3>3. Fixed(store, startTime(top))
      BY <3>2 DEF Fixed
    <3>. QED  BY <2>4, <3>3 DEF Ok
  <2>6. PICK j \in Item : /\ IsContainer(j) /\ depth[j] < depth[i]
                          /\ \E k \in DOMAIN items[j] : items[j][k] = i
    BY <2>1, <2>4, <2>5
  <2>7. Ok(store, m, startTime(j))
    <3>1. depth[i] \in Nat /\ depth[j] \in Nat
      BY <2>4
    <3>2. j \notin lost
      BY <2>4, <2>6, <3>1
    <3>. QED  BY <3>2
  <2>8. \A k \in DOMAIN items[j] : carries(items[j][k])
    <3>1. \A k \in DOMAIN items[j] : items[j][k] \in Item
      BY ConstantsAssumption
    <3>. QED  BY <1>3, <3>1
  <2>9. \A k \in DOMAIN items[j] : Ok(store, m, startTime(items[j][k]))
    BY <2>6, <2>7, <2>8, ContainerOk
  <2>. QED  BY <2>4, <2>6, <2>9
<1>. QED  BY <1>4

(* leftToRight visits the parameters in the order of the start times of    *)
(* their items: as long as there are parameters to distribute, it finds    *)
(* one whose item starts at a known time, and no item with undetermined    *)
(* parameters can start earlier.                                           *)
THEOREM LeftToRight ==
  ASSUME LeftToRightScore
  PROVE  Spec => []VisitsLeftToRight
<1>1. ASSUME TypeOK, ListInv, distro.order = "leftToRight", Stable, Filtered # {}
      PROVE  /\ ~IsUndet(StartOf(Chosen))
             /\ \A k \in Filtered :
                  /\ ReflectMin(StartOf(Chosen)) <= ReflectMin(StartOf(k))
                  /\ StartOf(k) = StartOf(Chosen) /\ IsTimeParameter(Vec[k])
                       => IsTimeParameter(Vec[Chosen])
  <2>1. /\ dom \in Store /\ ~Failed(dom) /\ Below(dom) /\ Lists(xs, dom)
        /\ Filtered \subseteq DOMAIN Vec
    BY <1>1 DEF TypeOK, ListInv, Stable, Running, Filtered
  <2>2. \A c \in TimingConstraints : ~Narrows(dom, c)
    BY <1>1, StableStore
  <2>3. Chosen \in Filtered /\ \A k \in Filtered : NotBefore(k, Chosen)
    BY <1>1, <2>1, ChosenIsLeftmost
  <2>4. ASSUME NEW k \in DOMAIN Vec
        PROVE  /\ Vec[k] \in Param /\ Vec[k][1] \in Item
               /\ StartOf(k) \in SUBSET FDRange /\ StartOf(k) # {}
    <3>1. Vec[k] \in Param
      BY DistributionAssumption
    <3>2. Vec[k][1] \in Item
      BY <3>1, ConstantsAssumption DEF Param
    <3>. QED  BY <2>1, <3>1, <3>2, TimeParam DEF StartOf, Store, Failed
  <2>5. ASSUME NEW p \in Param, ~IsContainer(p[1]), IsUndet(dom[p])
        PROVE  \E k \in Filtered : Vec[k] = p /\ StartOf(k) = dom[startTime(p[1])]
    <3>1. PICK k \in DOMAIN Vec : Vec[k] = p
      BY <2>5 DEF LeftToRightScore, WellFormedScore
    <3>2. k \in Filtered
      BY <2>1, <2>5, <3>1 DEF Filtered, Lists
    <3>. QED  BY <3>1, <3>2 DEF StartOf
  <2>6. \A p : Fixed(dom, p) => ~IsUndet(dom[p])
    BY SingleIsDetermined DEF Fixed
  <2>7. Sup \in Nat
    BY ConstantsAssumption
  <2>8. ASSUME IsUndet(StartOf(Chosen))
        PROVE  FALSE
    <3>1. ASSUME NEW p \in Param, ~IsContainer(p[1]), IsUndet(dom[p]),
                 Fixed(dom, startTime(p[1]))
          PROVE  FALSE
      BY <2>3, <2>5, <2>6, <2>8, <3>1 DEF NotBefore
    <3>2. \A i \in Item : Ok(dom, Sup + 1, startTime(i))
      BY <2>1, <2>2, <2>7, <3>1, EarliestFirst
    <3>3. Ok(dom, Sup + 1, startTime(Vec[Chosen][1]))
      BY <2>1, <2>3, <2>4, <3>2
    <3>4. Fixed(dom, startTime(Vec[Chosen][1]))
      <4>1. \A v \in StartOf(Chosen) : ~(v >= Sup + 1)
        BY <2>1, <2>3, <2>4, <2>7 DEF FDRange
      <4>. QED  BY <2>1, <2>3, <2>4, <3>3, <4>1 DEF Ok, StartOf
    <3>. QED  BY <2>6, <2>8, <3>4 DEF StartOf
  <2>9. PICK m \in Nat : StartOf(Chosen) = {m} /\ ReflectMin(StartOf(Chosen)) = m
    BY <1>1, <2>1, <2>3, <2>8, StartKnown
  <2>10. ASSUME NEW k \in Filtered, Fixed(dom, startTime(Vec[k][1]))
         PROVE  m <= ReflectMin(StartOf(k)) /\ \A v \in StartOf(k) : v >= m
    <3>1. ~IsUndet(StartOf(k))
      BY <2>6, <2>10 DEF StartOf
    <3>2. m <= ReflectMin(StartOf(k))
      BY <2>3, <2>9, <3>1 DEF NotBefore
    <3>3. PICK v \in Nat : StartOf(k) = {v} /\ ReflectMin(StartOf(k)) = v
      BY <1>1, <2>1, <3>1, StartKnown
    <3>. QED  BY <3>2, <3>3
  <2>11. ASSUME NEW p \in Param, ~IsContainer(p[1]), IsUndet(dom[p]),
                Fixed(dom, startTime(p[1]))
         PROVE  \A v \in dom[startTime(p[1])] : v >= m
    BY <2>5, <2>10, <2>11
  <2>12. \A i \in Item : Ok(dom, m, startTime(i))
    BY <2>1, <2>2, <2>11, EarliestFirst
  <2>13. ASSUME NEW k \in Filtered
         PROVE  m <= ReflectMin(StartOf(k))
    <3>1. ReflectMin(StartOf(k)) \in StartOf(k) /\ ReflectMin(StartOf(k)) \in Nat
      <4>1. ReflectMin(StartOf(k)) \in StartOf(k)
        BY <2>1, <2>4, ReflectBounds
      <4>. QED  BY <2>1, <2>4, <4>1 DEF FDRange
    <3>2. CASE Fixed(dom, startTime(Vec[k][1]))
      BY <2>10, <3>2
    <3>3. CASE ~Fixed(dom, startTime(Vec[k][1]))
      BY <2>1, <2>4, <2>12, <3>1, <3>3 DEF Ok, StartOf
    <3>. QED  BY <3>2, <3>3
  <2>14. ASSUME NEW k \in Filtered, StartOf(k) = StartOf(Chosen), IsTimeParameter(Vec[k])
         PROVE  IsTimeParameter(Vec[Chosen])
    BY <2>3, <2>8, <2>14 DEF NotBefore
  <2>. QED  BY <2>8, <2>9, <2>13, <2>14
<1>2. TypeOK /\ ListInv => VisitsLeftToRight
  BY <1>1 DEF VisitsLeftToRight, StartOf
<1>. QED  BY <1>2, ListAlways, TypeCorrect, PTL

----------------------------------------------------------------------------
(* What the constraints mean.                                              *)

(* A set that holds 0, and with a number the next one, up to n.            *)
LEMMA Upwards ==
  ASSUME NEW n \in Nat, NEW T, 0 \in T,
         \A k \in 1 .. n : k - 1 \in T => k \in T
  PROVE  \A k \in 0 .. n : k \in T
<1> DEFINE missing == {k \in 0 .. n : k \notin T}
<1>1. ASSUME missing # {}
      PROVE  FALSE
  <2>1. [k \in missing |-> k] \in [missing -> Nat]
    OBVIOUS
  <2>2. PICK k \in missing : \A l \in missing : [j \in missing |-> j][k] <= [j \in missing |-> j][l]
    BY <1>1, <2>1, LeastMeasure
  <2>3. k \in 0 .. n /\ k \notin T /\ \A l \in missing : k <= l
    BY <2>2
  <2>4. k \in 1 .. n /\ k - 1 \in 0 .. n
    BY <2>3
  <2>5. k - 1 \in T
    <3>1. k - 1 \notin missing
      BY <2>3, <2>4
    <3>. QED  BY <2>4, <3>1
  <2>. QED  BY <2>3, <2>4, <2>5
<1>. QED  BY <1>1

(* What is in a concatenation is in one of its parts.                      *)
LEMMA ConcatParts ==
  ASSUME NEW s \in Seq(Constraint), NEW t \in Seq(Constraint), NEW l \in DOMAIN (s \o t)
  PROVE  \/ \E k \in DOMAIN s : (s \o t)[l] = s[k]
         \/ \E k \in DOMAIN t : (s \o t)[l] = t[k]
<1>1. /\ Len(s) \in Nat /\ Len(t) \in Nat /\ DOMAIN s = 1 .. Len(s) /\ DOMAIN t = 1 .. Len(t)
      /\ DOMAIN (s \o t) = 1 .. Len(s) + Len(t)
      /\ (s \o t)[l] = IF l <= Len(s) THEN s[l] ELSE t[l - Len(s)]
  BY ConcatProperties
<1>2. CASE l <= Len(s)
  <2>1. l \in DOMAIN s
    BY <1>1, <1>2
  <2>. QED  BY <1>1, <1>2, <2>1
<1>3. CASE ~(l <= Len(s))
  <2>1. l - Len(s) \in DOMAIN t
    BY <1>1, <1>3
  <2>. QED  BY <1>1, <1>3, <2>1
<1>. QED  BY <1>2, <1>3

(* The value m is the latest end of the first k items of i.                *)
LatestEnd(s, i, k, m) ==
  /\ \E j \in 1 .. k : m = s[endTime(items[i][j])]
  /\ \A j \in 1 .. k : s[endTime(items[i][j])] <= m

(* The assignment s is a time line: an item ends after its duration, the   *)
(* items of a container start after their offsets, those of a Sequential   *)
(* one after the other and those of a Simultaneous together, and it ends   *)
(* with the last or with the latest of them.                               *)
IsTimeline(s) ==
  \A i \in Item :
    /\ s[endTime(i)] = s[startTime(i)] + s[duration(i)]
    /\ IsContainer(i) =>
         \A k \in 1 .. Len(items[i]) :
           s[startTime(items[i][k])] = s[Anchor(i, k)] + s[offsetTime(items[i][k])]
    /\ Class[i] = "seq" => s[endTime(i)] = s[endTime(items[i][Len(items[i])])]
    /\ Class[i] = "sim" =>
         /\ LatestEnd(s, i, Len(items[i]), s[endTime(i)])
         /\ \A k \in Partial(i) : LatestEnd(s, i, k, s[<<i, "partial", k>>])

(* The items of a container, and what their number is.                     *)
LEMMA ItemsOf ==
  ASSUME WellFormedScore, NEW i \in Item, IsContainer(i)
  PROVE  /\ items[i] \in Seq(Item) /\ items[i] # << >>
         /\ Len(items[i]) \in Nat \ {0} /\ DOMAIN items[i] = 1 .. Len(items[i])
         /\ \A k \in 1 .. Len(items[i]) : items[i][k] \in Item
         /\ Class[i] \in {"seq", "sim"}
BY ConstantsAssumption DEF WellFormedScore, IsContainer

(* Constraints that hold make a time line.                                 *)
LEMMA HoldingIsTimeline ==
  ASSUME WellFormedScore, NEW s \in [Param -> Nat],
         \A c \in TimingConstraints : Holds(s, c)
  PROVE  IsTimeline(s)
<1>1. ASSUME NEW i \in Item, NEW c \in ToldBy(i)
      PROVE  Holds(s, c)
  BY <1>1 DEF TimingConstraints
<1>2. ASSUME NEW i \in Item
      PROVE  s[endTime(i)] = s[startTime(i)] + s[duration(i)]
  <2>1. Holds(s, Plus(endTime(i), startTime(i), duration(i)))
    BY <1>1, DurationTold
  <2>. QED  BY <2>1 DEF Holds, Rel, Plus
<1>3. ASSUME NEW i \in Item, IsContainer(i), NEW k \in 1 .. Len(items[i])
      PROVE  s[startTime(items[i][k])] = s[Anchor(i, k)] + s[offsetTime(items[i][k])]
  <2>1. StartOfItem(i, k) \in ToldBy(i)
    BY <1>3, ItemsOf, SequentialTold, SimultaneousTold
  <2>2. Holds(s, StartOfItem(i, k))
    BY <1>1, <2>1
  <2>. QED  BY <2>2 DEF Holds, Rel, Plus, StartOfItem
<1>4. ASSUME NEW i \in Item, Class[i] = "seq"
      PROVE  s[endTime(i)] = s[endTime(items[i][Len(items[i])])]
  <2>1. items[i] # << >>
    BY <1>4, ItemsOf DEF IsContainer
  <2>2. Holds(s, Equal(endTime(i), endTime(items[i][Len(items[i])])))
    BY <1>1, <1>4, <2>1, SequentialTold
  <2>. QED  BY <2>2 DEF Holds, Rel, Equal
<1>5. ASSUME NEW i \in Item, Class[i] = "sim"
      PROVE  /\ LatestEnd(s, i, Len(items[i]), s[endTime(i)])
             /\ \A k \in Partial(i) : LatestEnd(s, i, k, s[<<i, "partial", k>>])
  <2> DEFINE its == items[i]
             n == Len(its)
             e(k) == s[endTime(its[k])]
  <2>1. /\ n \in Nat \ {0} /\ its # << >> /\ \A k \in 1 .. n : its[k] \in Item
        /\ IsContainer(i)
    BY <1>5, ItemsOf DEF IsContainer
  <2>2. \A k \in 1 .. n : e(k) \in Nat
    BY <2>1, TimeParam
  <2>3. CASE n = 1
    <3>1. Holds(s, Equal(endTime(i), endTime(its[1])))
      BY <1>1, <1>5, <2>1, <2>3, SimultaneousTold
    <3>2. s[endTime(i)] = e(1)
      BY <3>1 DEF Holds, Rel, Equal
    <3>3. Partial(i) = {}
      BY <2>3 DEF Partial
    <3>4. LatestEnd(s, i, n, s[endTime(i)])
      BY <2>2, <2>3, <3>2 DEF LatestEnd
    <3>. QED  BY <3>3, <3>4
  <2>4. CASE n # 1
    <3> DEFINE p(k) == s[PartialMax(i, k)]
               good == {k \in 0 .. n - 1 : LatestEnd(s, i, k + 1, p(k + 1))}
    <3>1. 0 \in good
      <4>1. p(1) = e(1)
        BY DEF PartialMax
      <4>2. LatestEnd(s, i, 0 + 1, p(0 + 1))
        BY <2>1, <2>2, <4>1 DEF LatestEnd
      <4>. QED  BY <2>1, <4>2
    <3>2. ASSUME NEW k \in 1 .. n - 1, k - 1 \in good
          PROVE  k \in good
      <4>1. LatestEnd(s, i, k, p(k)) /\ k \in Nat \ {0} /\ k + 1 \in 1 .. n
        BY <2>1, <3>2
      <4>2. Holds(s, Maximum(PartialMax(i, k + 1), PartialMax(i, k), endTime(its[k + 1])))
        BY <1>1, <1>5, <2>1, <2>4, SimultaneousTold
      <4>3. p(k + 1) >= p(k) /\ p(k + 1) >= e(k + 1) /\ p(k + 1) \in {p(k), e(k + 1)}
        BY <4>2 DEF Holds, Rel, Maximum
      <4>4. e(k + 1) \in Nat /\ p(k) \in Nat
        BY <2>2, <4>1 DEF LatestEnd
      <4> HIDE DEF p, e
      <4>5. \E j \in 1 .. k + 1 : p(k + 1) = e(j)
        <5>1. CASE p(k + 1) = e(k + 1)
          BY <4>1, <5>1
        <5>2. CASE p(k + 1) = p(k)
          <6>1. PICK j \in 1 .. k : p(k) = e(j)
            BY <4>1 DEF LatestEnd, e, p
          <6>. QED  BY <4>1, <5>2, <6>1
        <5>. QED  BY <4>3, <5>1, <5>2
      <4>6. \A j \in 1 .. k + 1 : e(j) <= p(k + 1)
        <5>1. \A j \in 1 .. k : e(j) <= p(k)
          BY <4>1 DEF LatestEnd, e, p
        <5>2. ASSUME NEW j \in 1 .. k + 1
              PROVE  e(j) <= p(k + 1)
          <6>1. CASE j = k + 1
            BY <4>3, <4>4, <6>1
          <6>2. CASE j \in 1 .. k
            <7>1. e(j) \in Nat /\ e(j) <= p(k)
              BY <2>2, <4>1, <5>1, <6>2 DEF e
            <7>. QED  BY <4>3, <4>4, <7>1
          <6>. QED  BY <4>1, <6>1, <6>2
        <5>. QED  BY <5>2
      <4>7. LatestEnd(s, i, k + 1, p(k + 1))
        BY <4>5, <4>6 DEF LatestEnd, e, p
      <4>. QED  BY <4>7 DEF p
    <3> HIDE DEF good
    <3>3. \A k \in 0 .. n - 1 : k \in good
      <4>1. n - 1 \in Nat
        BY <2>1
      <4>. QED  BY <3>1, <3>2, <4>1, Upwards
    <3>4. ASSUME NEW k \in 1 .. n
          PROVE  LatestEnd(s, i, k, p(k))
      <4>1. k - 1 \in good /\ k - 1 + 1 = k
        BY <2>1, <3>3
      <4>. QED  BY <4>1 DEF good
    <3>5. p(n) = s[endTime(i)] /\ n \in 1 .. n
      BY <2>1, <2>4 DEF PartialMax
    <3>6. \A k \in Partial(i) : k \in 1 .. n /\ p(k) = s[<<i, "partial", k>>]
      BY <1>5, <2>1 DEF Partial, PartialMax
    <3> HIDE DEF p
    <3>7. LatestEnd(s, i, n, s[endTime(i)])
      BY <3>4, <3>5
    <3>8. \A k \in Partial(i) : LatestEnd(s, i, k, s[<<i, "partial", k>>])
      BY <3>4, <3>6
    <3>. QED  BY <3>7, <3>8
  <2>. QED  BY <2>3, <2>4
<1>. QED  BY <1>2, <1>3, <1>4, <1>5 DEF IsTimeline

(* Nothing else is told: the duration, where the items start, and where    *)
(* the container ends.                                                     *)
LEMMA ToldParts ==
  ASSUME WellFormedScore, NEW i \in Item, NEW c \in ToldBy(i)
  PROVE  \/ c = Plus(endTime(i), startTime(i), duration(i))
         \/ IsContainer(i) /\ \E k \in 1 .. Len(items[i]) : c = StartOfItem(i, k)
         \/ /\ Class[i] = "seq" \/ (Class[i] = "sim" /\ Len(items[i]) = 1)
            /\ c = Equal(endTime(i), endTime(items[i][Len(items[i])]))
         \/ /\ Class[i] = "sim" /\ Len(items[i]) # 1
            /\ \E k \in 1 .. Len(items[i]) - 1 :
                 c = Maximum(PartialMax(i, k + 1), PartialMax(i, k), endTime(items[i][k + 1]))
<1> DEFINE its == items[i]
           n == Len(its)
           dur == Plus(endTime(i), startTime(i), duration(i))
           last == Equal(endTime(i), endTime(its[n]))
           max(k) == Maximum(PartialMax(i, k + 1), PartialMax(i, k), endTime(its[k + 1]))
           body == CASE Class[i] = "seq" -> SequentialTiming(i)
                     [] Class[i] = "sim" -> SimultaneousTiming(i)
                     [] Class[i] = "element" -> << >>
<1>1. Class[i] \in {"seq", "sim", "element"}
  BY ConstantsAssumption
<1>2. body \in Seq(Constraint)
  BY <1>1, SequentialTyped, SimultaneousTyped
<1>3. <<dur>> \in Seq(Constraint) /\ constrainTiming[i] = body \o <<dur>>
  <2>1. dur \in Constraint
    BY TimeParam DEF Plus, Constraint
  <2>2. constrainTiming[i] = body \o <<dur>>
    BY DEF constrainTiming, ConstrainDuration
  <2> HIDE DEF dur, body
  <2>. QED  BY <2>1, <2>2
<1>4. c = dur \/ \E k \in DOMAIN body : c = body[k]
  <2> DEFINE end == <<dur>>
  <2>1. /\ end \in Seq(Constraint) /\ constrainTiming[i] = body \o end
        /\ \A k \in DOMAIN end : end[k] = dur
    BY <1>3
  <2> HIDE DEF end, body, dur
  <2>2. PICK l \in DOMAIN (body \o end) : c = (body \o end)[l]
    BY <2>1 DEF ToldBy
  <2>3. (\E k \in DOMAIN body : (body \o end)[l] = body[k])
          \/ \E k \in DOMAIN end : (body \o end)[l] = end[k]
    BY <1>2, <2>1, ConcatParts
  <2>. QED  BY <2>1, <2>2, <2>3
<1>5. CASE Class[i] = "element"
  BY <1>4, <1>5
<1>6. CASE Class[i] = "seq"
  <2> DEFINE starts == [k \in 1 .. n |-> Plus(startTime(its[k]),
                          IF k = 1 THEN startTime(i) ELSE endTime(its[k - 1]),
                          offsetTime(its[k]))]
             end == <<last>>
  <2>1. IsContainer(i)
    BY <1>6 DEF IsContainer
  <2>2. /\ its \in Seq(Item) /\ n \in Nat /\ n # 0 /\ \A k \in 1 .. n : its[k] \in Item
    BY <2>1, ItemsOf
  <2>3. body = starts \o end
    BY <1>6, <2>2 DEF SequentialTiming
  <2>4. \A k \in 1 .. n : starts[k] = StartOfItem(i, k)
    BY <1>6 DEF StartOfItem, Anchor
  <2>5. starts \in Seq(Constraint) /\ DOMAIN starts = 1 .. n
    <3>1. ASSUME NEW k \in 1 .. n
          PROVE  starts[k] \in Constraint
      <4>1. k # 1 => its[k - 1] \in Item
        BY <2>2
      <4>2. (IF k = 1 THEN startTime(i) ELSE endTime(its[k - 1])) \in Param
        BY <4>1, TimeParam
      <4>. QED  BY <2>2, <4>2, TimeParam DEF Plus, Constraint
    <3>2. starts \in [1 .. n -> Constraint]
      BY <3>1
    <3>. QED  BY <2>2, <3>2, ConstraintSeq
  <2>6. end \in Seq(Constraint) /\ \A k \in DOMAIN end : end[k] = last
    <3>1. last \in Constraint
      BY <2>2, TimeParam DEF Equal, Constraint
    <3> HIDE DEF last
    <3>. QED  BY <3>1
  <2> HIDE DEF body, starts, end, last, dur
  <2>7. ASSUME NEW k \in DOMAIN body
        PROVE  body[k] = last \/ \E l \in 1 .. n : body[k] = StartOfItem(i, l)
    <3>1. (\E l \in DOMAIN starts : body[k] = starts[l]) \/ \E l \in DOMAIN end : body[k] = end[l]
      BY <2>3, <2>5, <2>6, ConcatParts
    <3>. QED  BY <2>4, <2>5, <2>6, <3>1
  <2>8. c = dur \/ c = last \/ \E l \in 1 .. n : c = StartOfItem(i, l)
    BY <1>4, <2>7
  <2>9. CASE c = dur
    BY <2>9 DEF dur
  <2>10. CASE c = last
    BY <1>6, <2>10 DEF last
  <2>11. CASE \E l \in 1 .. n : c = StartOfItem(i, l)
    BY <2>1, <2>11
  <2>. QED  BY <2>8, <2>9, <2>10, <2>11
<1>7. CASE Class[i] = "sim"
  <2> DEFINE starts == [k \in 1 .. n |-> Plus(startTime(its[k]), startTime(i), offsetTime(its[k]))]
             maxima == AccumMax(i)
  <2>1. IsContainer(i)
    BY <1>7 DEF IsContainer
  <2>2. /\ its \in Seq(Item) /\ n \in Nat /\ n # 0 /\ its # << >>
        /\ \A k \in 1 .. n : its[k] \in Item
    BY <2>1, ItemsOf
  <2>3. body = starts \o maxima
    BY <1>7, <2>2 DEF SimultaneousTiming
  <2>4. \A k \in 1 .. n : starts[k] = StartOfItem(i, k)
    BY <1>7 DEF StartOfItem, Anchor
  <2>5. starts \in Seq(Constraint) /\ DOMAIN starts = 1 .. n
    <3>1. ASSUME NEW k \in 1 .. n
          PROVE  starts[k] \in Constraint
      BY <2>2, TimeParam DEF Plus, Constraint
    <3>2. starts \in [1 .. n -> Constraint]
      BY <3>1
    <3>. QED  BY <2>2, <3>2, ConstraintSeq
  <2>6. CASE n = 1
    <3> DEFINE eq == Equal(endTime(i), endTime(its[1]))
    <3>1. maxima = <<eq>> /\ eq \in Constraint /\ eq = last
      BY <2>2, <2>6, TimeParam DEF AccumMax, Equal, Constraint
    <3> HIDE DEF eq, last, maxima
    <3>2. maxima \in Seq(Constraint) /\ \A k \in DOMAIN maxima : maxima[k] = last
      BY <3>1
    <3> HIDE DEF body, starts, dur
    <3>3. ASSUME NEW k \in DOMAIN body
          PROVE  body[k] = last \/ \E l \in 1 .. n : body[k] = StartOfItem(i, l)
      <4>1. (\E l \in DOMAIN starts : body[k] = starts[l])
              \/ \E l \in DOMAIN maxima : body[k] = maxima[l]
        BY <2>3, <2>5, <3>2, ConcatParts
      <4>. QED  BY <2>4, <2>5, <3>2, <4>1
    <3>4. c = dur \/ c = last \/ \E l \in 1 .. n : c = StartOfItem(i, l)
      BY <1>4, <3>3
    <3>. QED  BY <1>7, <2>1, <2>6, <3>4 DEF dur, last
  <2>7. CASE n # 1
    <3>1. maxima = [k \in 1 .. n - 1 |-> max(k)]
      BY <2>7 DEF AccumMax, PartialMax
    <3>2. ASSUME NEW k \in 1 .. n
          PROVE  PartialMax(i, k) \in Param
      <4>1. CASE k = 1 \/ k = n
        BY <2>2, <4>1, TimeParam DEF PartialMax
      <4>2. CASE k # 1 /\ k # n
        <5>1. k \in Partial(i)
          BY <1>7, <4>2, <2>2 DEF Partial
        <5>2. <<i, "partial", k>> \in Param
          BY <5>1 DEF Param
        <5>. QED  BY <4>2, <5>2 DEF PartialMax
      <4>. QED  BY <4>1, <4>2
    <3>3. ASSUME NEW k \in 1 .. n - 1
          PROVE  max(k) \in Constraint
      <4>1. k \in 1 .. n /\ k + 1 \in 1 .. n
        BY <2>2
      <4>2. /\ PartialMax(i, k) \in Param /\ PartialMax(i, k + 1) \in Param
            /\ endTime(its[k + 1]) \in Param
        BY <2>2, <3>2, <4>1, TimeParam
      <4>. QED  BY <4>2 DEF Maximum, Constraint
    <3>4. maxima \in Seq(Constraint) /\ DOMAIN maxima = 1 .. n - 1
          /\ \A k \in 1 .. n - 1 : maxima[k] = max(k)
      <4> HIDE DEF max, maxima
      <4>1. maxima \in [1 .. n - 1 -> Constraint] /\ n - 1 \in Nat
        BY <2>2, <3>1, <3>3
      <4>. QED  BY <3>1, <4>1, ConstraintSeq
    <3> HIDE DEF body, starts, dur, last, maxima, max
    <3>5. ASSUME NEW k \in DOMAIN body
          PROVE  \/ \E l \in 1 .. n - 1 : body[k] = max(l)
                 \/ \E l \in 1 .. n : body[k] = StartOfItem(i, l)
      <4>1. (\E l \in DOMAIN starts : body[k] = starts[l])
              \/ \E l \in DOMAIN maxima : body[k] = maxima[l]
        BY <2>3, <2>5, <3>4, ConcatParts
      <4>. QED  BY <2>4, <2>5, <3>4, <4>1
    <3>6. \/ c = dur
          \/ \E l \in 1 .. n - 1 : c = max(l)
          \/ \E l \in 1 .. n : c = StartOfItem(i, l)
      BY <1>4, <3>5
    <3>. QED  BY <1>7, <2>1, <2>7, <3>6 DEF dur, max
  <2>. QED  BY <2>6, <2>7
<1>. QED  BY <1>1, <1>5, <1>6, <1>7

(* The constraints hold for a time line.                                   *)
LEMMA TimelineHolds ==
  ASSUME WellFormedScore, NEW s \in [Param -> Nat], IsTimeline(s), NEW c \in TimingConstraints
  PROVE  Holds(s, c)
<1>1. PICK i \in Item : c \in ToldBy(i)
  BY DEF TimingConstraints
<1> DEFINE its == items[i]
           n == Len(its)
           e(k) == s[endTime(its[k])]
           p(k) == s[PartialMax(i, k)]
<1>2. CASE c = Plus(endTime(i), startTime(i), duration(i))
  BY <1>2 DEF IsTimeline, Holds, Rel, Plus
<1>3. ASSUME IsContainer(i), NEW k \in 1 .. n, c = StartOfItem(i, k)
      PROVE  Holds(s, c)
  BY <1>3 DEF IsTimeline, Holds, Rel, Plus, StartOfItem
<1>4. CASE /\ Class[i] = "seq" \/ (Class[i] = "sim" /\ n = 1)
           /\ c = Equal(endTime(i), endTime(its[n]))
  <2>1. s[endTime(i)] = e(n)
    <3>1. CASE Class[i] = "seq"
      BY <3>1 DEF IsTimeline
    <3>2. CASE Class[i] = "sim" /\ n = 1
      <4>1. LatestEnd(s, i, n, s[endTime(i)])
        BY <3>2 DEF IsTimeline
      <4>2. PICK j \in 1 .. n : s[endTime(i)] = s[endTime(items[i][j])]
        BY <4>1 DEF LatestEnd
      <4>3. j = n
        BY <3>2, <4>2
      <4>. QED  BY <4>2, <4>3
    <3>. QED  BY <1>4, <3>1, <3>2
  <2>. QED  BY <1>4, <2>1 DEF Holds, Rel, Equal
<1>5. ASSUME Class[i] = "sim", n # 1, NEW k \in 1 .. n - 1,
             c = Maximum(PartialMax(i, k + 1), PartialMax(i, k), endTime(its[k + 1]))
      PROVE  Holds(s, c)
  <2>1. n \in Nat \ {0} /\ \A j \in 1 .. n : its[j] \in Item
    BY <1>5, ItemsOf DEF IsContainer
  <2>2. \A j \in 1 .. n : e(j) \in Nat
    BY <2>1, TimeParam
  <2>3. ASSUME NEW j \in 1 .. n
        PROVE  LatestEnd(s, i, j, p(j))
    <3>1. CASE j = 1
      <4>1. p(j) = e(1)
        BY <3>1 DEF PartialMax
      <4>. QED  BY <2>1, <2>2, <3>1, <4>1 DEF LatestEnd
    <3>2. CASE j # 1 /\ j = n
      <4>1. PartialMax(i, j) = endTime(i)
        BY <3>2 DEF PartialMax
      <4>. QED  BY <1>5, <3>2, <4>1 DEF IsTimeline
    <3>3. CASE j # 1 /\ j # n
      <4>1. j \in Partial(i)
        BY <1>5, <2>1, <3>3 DEF Partial
      <4>2. PartialMax(i, j) = <<i, "partial", j>>
        BY <3>3 DEF PartialMax
      <4>. QED  BY <1>5, <4>1, <4>2 DEF IsTimeline
    <3>. QED  BY <3>1, <3>2, <3>3
  <2>4. k \in 1 .. n /\ k + 1 \in 1 .. n /\ k \in 1 .. k + 1 /\ k + 1 \in 1 .. k + 1
        /\ \A j \in 1 .. k : j \in 1 .. k + 1 /\ j \in 1 .. n
        /\ \A h \in 1 .. k + 1 : h \in 1 .. k \/ h = k + 1
    BY <2>1
  <2>5. LatestEnd(s, i, k, p(k)) /\ LatestEnd(s, i, k + 1, p(k + 1))
    BY <2>3, <2>4
  <2> HIDE DEF p
  <2>6. PICK j \in 1 .. k : p(k) = e(j)
    BY <2>5 DEF LatestEnd
  <2>7. PICK l \in 1 .. k + 1 : p(k + 1) = e(l)
    BY <2>5 DEF LatestEnd
  <2>8. e(j) <= p(k + 1) /\ e(k + 1) <= p(k + 1) /\ (l \in 1 .. k => e(l) <= p(k))
    BY <2>4, <2>5 DEF LatestEnd
  <2>9. p(k) \in Nat /\ p(k + 1) \in Nat /\ e(k + 1) \in Nat
    BY <2>2, <2>4, <2>6, <2>7
  <2>10. p(k + 1) >= p(k) /\ p(k + 1) >= e(k + 1) /\ p(k + 1) \in {p(k), e(k + 1)}
    <3>1. CASE l = k + 1
      BY <2>6, <2>7, <2>8, <2>9, <3>1
    <3>2. CASE l \in 1 .. k
      BY <2>6, <2>7, <2>8, <2>9, <3>2
    <3>. QED  BY <2>4, <3>1, <3>2
  <2>. QED  BY <1>5, <2>10 DEF p, Holds, Rel, Maximum
<1>. QED  BY <1>1, <1>2, <1>3, <1>4, <1>5, ToldParts

----------------------------------------------------------------------------
(* Sums and maxima.                                                        *)

(* Sums exist.                                                             *)
LEMMA SumExists ==
  ASSUME NEW m \in Nat, NEW lengths \in [1 .. m -> Nat]
  PROVE  \E f \in [0 .. m -> Nat] :
           f = [k \in 0 .. m |-> IF k = 0 THEN 0 ELSE f[k - 1] + lengths[k]]
<1> DEFINE Upto(j, f) == f \in [0 .. j -> Nat] /\ f[0] = 0
                           /\ \A k \in 1 .. j : f[k] = f[k - 1] + lengths[k]
           defined == {j \in 0 .. m : \E f : Upto(j, f)}
<1>1. 0 \in defined
  <2>1. Upto(0, [k \in 0 .. 0 |-> 0])
    OBVIOUS
  <2> HIDE DEF Upto
  <2>. QED  BY <2>1
<1>2. ASSUME NEW j \in 1 .. m, j - 1 \in defined
      PROVE  j \in defined
  <2>1. PICK f : Upto(j - 1, f)
    BY <1>2
  <2> DEFINE g == [k \in 0 .. j |-> IF k < j THEN f[k] ELSE f[j - 1] + lengths[j]]
  <2>2. f[j - 1] \in Nat /\ lengths[j] \in Nat
    BY <2>1
  <2>3. g \in [0 .. j -> Nat] /\ g[0] = 0
    BY <2>1, <2>2
  <2>4. \A k \in 1 .. j : g[k] = g[k - 1] + lengths[k]
    BY <2>1
  <2>5. Upto(j, g)
    BY <2>3, <2>4
  <2> HIDE DEF Upto, g
  <2>. QED  BY <2>5
<1> HIDE DEF defined
<1>3. \A j \in 0 .. m : j \in defined
  <2>1. \A j \in 1 .. m : j - 1 \in defined => j \in defined
    BY <1>2
  <2>. QED  BY <1>1, <2>1, Upwards
<1>4. PICK f : Upto(m, f)
  <2>1. m \in 0 .. m
    OBVIOUS
  <2> HIDE DEF Upto
  <2>. QED  BY <1>3, <2>1 DEF defined
<1>5. f = [k \in 0 .. m |-> IF k = 0 THEN 0 ELSE f[k - 1] + lengths[k]]
  <2>1. f = [k \in 0 .. m |-> f[k]]
    BY <1>4
  <2>2. \A k \in 0 .. m : f[k] = IF k = 0 THEN 0 ELSE f[k - 1] + lengths[k]
    BY <1>4
  <2>. QED  BY <2>1, <2>2
<1>. QED  BY <1>4, <1>5

(* What Elapsed computes.                                                  *)
LEMMA ElapsedSums ==
  ASSUME NEW m \in Nat, NEW lengths \in [1 .. m -> Nat]
  PROVE  /\ Elapsed(lengths, 0) = 0
         /\ \A k \in 0 .. m : Elapsed(lengths, k) \in Nat
         /\ \A k \in 1 .. m : Elapsed(lengths, k) = Elapsed(lengths, k - 1) + lengths[k]
<1> DEFINE Sum(f) == f = [k \in 0 .. Len(lengths) |->
                            IF k = 0 THEN 0 ELSE f[k - 1] + lengths[k]]
           sum == CHOOSE f : Sum(f)
<1>1. Len(lengths) = m
  OBVIOUS
<1>2. PICK f \in [0 .. m -> Nat] : Sum(f)
  BY <1>1, SumExists
<1>3. Sum(sum)
  <2> HIDE DEF Sum
  <2>. QED  BY <1>2
<1>4. \A k : Elapsed(lengths, k) = sum[k]
  BY DEF Elapsed
<1> HIDE DEF sum
<1>5. \A k \in 0 .. m : sum[k] = IF k = 0 THEN 0 ELSE sum[k - 1] + lengths[k]
  BY <1>1, <1>3
<1> DEFINE same == {k \in 0 .. m : sum[k] = f[k]}
<1>6. \A k \in 0 .. m : k \in same
  <2>1. 0 \in same
    BY <1>1, <1>2, <1>5
  <2>2. \A k \in 1 .. m : k - 1 \in same => k \in same
    BY <1>1, <1>2, <1>5
  <2> HIDE DEF same
  <2>. QED  BY <2>1, <2>2, Upwards
<1>7. \A k \in 0 .. m : sum[k] \in Nat
  BY <1>2, <1>6
<1>8. sum[0] = 0
  BY <1>5
<1>9. \A k \in 1 .. m : sum[k] = sum[k - 1] + lengths[k]
  BY <1>5
<1>. QED  BY <1>4, <1>7, <1>8, <1>9

(* A maximum is what it should be.                                         *)
LEMMA LatestIs ==
  ASSUME NEW T \in SUBSET Nat, NEW m \in {0} \cup T, \A t \in T : t <= m
  PROVE  Latest(T) = m
<1> DEFINE D == {0} \cup T
<1>1. m \in D /\ \A t \in D : t \in Nat /\ m >= t
  OBVIOUS
<1>2. \A l \in D : (\A t \in D : l >= t) => l = m
  BY <1>1
<1>3. Latest(T) = CHOOSE l \in D : \A t \in D : l >= t
  BY DEF Latest, ReflectMax
<1> HIDE DEF D
<1>. QED  BY <1>1, <1>2, <1>3

LEMMA LatestOf ==
  ASSUME NEW n \in Nat, NEW f \in [1 .. n -> Nat]
  PROVE  /\ Latest({f[l] : l \in 1 .. n}) \in Nat
         /\ \A k \in 1 .. n : f[k] <= Latest({f[l] : l \in 1 .. n})
         /\ n # 0 => \E k \in 1 .. n : Latest({f[l] : l \in 1 .. n}) = f[k]
<1> DEFINE upto(j) == {f[h] : h \in 1 .. j}
           good == {j \in 0 .. n : \E m \in {0} \cup upto(j) : \A l \in 1 .. j : f[l] <= m}
<1>1. 0 \in good
  OBVIOUS
<1>2. ASSUME NEW j \in 1 .. n, j - 1 \in good
      PROVE  j \in good
  <2>1. PICK m \in {0} \cup upto(j - 1) : \A k \in 1 .. j - 1 : f[k] <= m
    BY <1>2
  <2>2. m \in Nat /\ f[j] \in Nat /\ m \in {0} \cup upto(j) /\ f[j] \in upto(j)
    BY <2>1
  <2>3. \A k \in 1 .. j : f[k] \in Nat /\ (k \in 1 .. j - 1 \/ k = j)
    OBVIOUS
  <2> HIDE DEF upto
  <2>4. CASE f[j] <= m
    <3>1. \A k \in 1 .. j : f[k] <= m
      BY <2>1, <2>3, <2>4
    <3>. QED  BY <2>2, <3>1
  <2>5. CASE m < f[j]
    <3>1. \A k \in 1 .. j : f[k] <= f[j]
      BY <2>1, <2>2, <2>3, <2>5
    <3>. QED  BY <2>2, <3>1
  <2>. QED  BY <2>2, <2>4, <2>5
<1>3. n \in good
  <2> HIDE DEF good
  <2>1. \A j \in 0 .. n : j \in good
    BY <1>1, <1>2, Upwards
  <2>. QED  BY <2>1
<1>4. PICK m \in {0} \cup upto(n) : \A k \in 1 .. n : f[k] <= m
  BY <1>3
<1>5. Latest(upto(n)) = m /\ m \in Nat
  <2>1. upto(n) \in SUBSET Nat /\ \A t \in upto(n) : t <= m
    BY <1>4
  <2> HIDE DEF upto
  <2>. QED  BY <1>4, <2>1, LatestIs
<1>6. n # 0 => \E k \in 1 .. n : m = f[k]
  <2>1. CASE m = 0 /\ n # 0
    BY <1>4, <2>1
  <2>2. CASE m # 0
    BY <1>4, <2>2
  <2>. QED  BY <2>1, <2>2
<1>. QED  BY <1>4, <1>5, <1>6

----------------------------------------------------------------------------
(* Recursion along the tree.                                               *)

(* Values that are computed from those at places of smaller measure exist. *)
LEMMA TreeRecursion ==
  ASSUME NEW D, NEW measure \in [D -> Nat],
         NEW E \in [[D -> Nat] -> [D -> Nat]],
         \A f, g \in [D -> Nat] : \A i \in D :
           (\A j \in D : measure[j] < measure[i] => f[j] = g[j]) => E[f][i] = E[g][i]
  PROVE  \E f \in [D -> Nat] : f = E[f]
<1> DEFINE Upto(n, f) == f \in [D -> Nat] /\ \A i \in D : measure[i] < n => f[i] = E[f][i]
<1>1. ASSUME NEW n \in Nat
      PROVE  \E f : Upto(n, f)
  <2> DEFINE defined == {k \in 0 .. n : \E f : Upto(k, f)}
  <2>1. 0 \in defined
    <3>1. Upto(0, [i \in D |-> 0])
      OBVIOUS
    <3> HIDE DEF Upto
    <3>. QED  BY <3>1
  <2>2. ASSUME NEW k \in 1 .. n, k - 1 \in defined
        PROVE  k \in defined
    <3>1. PICK f : Upto(k - 1, f)
      BY <2>2
    <3> DEFINE g == E[f]
    <3>2. g \in [D -> Nat]
      BY <3>1
    <3>3. ASSUME NEW i \in D, measure[i] < k
          PROVE  g[i] = E[g][i]
      <4>1. \A j \in D : measure[j] < measure[i] => f[j] = g[j]
        BY <3>1, <3>3
      <4>. QED  BY <3>1, <3>2, <4>1
    <3>4. Upto(k, g)
      BY <3>2, <3>3
    <3> HIDE DEF Upto, g
    <3>. QED  BY <3>4
  <2> HIDE DEF defined
  <2>3. \A k \in 1 .. n : k - 1 \in defined => k \in defined
    BY <2>2
  <2>4. n \in defined
    <3>1. \A k \in 0 .. n : k \in defined
      BY <2>1, <2>3, Upwards
    <3>. QED  BY <3>1
  <2>. QED  BY <2>4 DEF defined
<1>2. ASSUME NEW n \in Nat, NEW m \in Nat, n <= m, NEW f, Upto(n, f), NEW g, Upto(m, g),
             NEW i \in D, measure[i] < n
      PROVE  f[i] = g[i]
  <2> DEFINE same == {k \in 0 .. n : \A j \in D : measure[j] < k => f[j] = g[j]}
  <2>1. 0 \in same
    OBVIOUS
  <2>2. ASSUME NEW k \in 1 .. n, k - 1 \in same
        PROVE  k \in same
    <3>1. ASSUME NEW j \in D, measure[j] < k
          PROVE  f[j] = g[j]
      <4>1. \A l \in D : measure[l] < measure[j] => f[l] = g[l]
        BY <2>2, <3>1
      <4>2. E[f][j] = E[g][j]
        BY <1>2, <4>1
      <4>3. f[j] = E[f][j] /\ g[j] = E[g][j]
        BY <1>2, <3>1
      <4>. QED  BY <4>2, <4>3
    <3>. QED  BY <3>1
  <2>3. n \in same
    <3> HIDE DEF same
    <3>1. \A k \in 0 .. n : k \in same
      BY <2>1, <2>2, Upwards
    <3>. QED  BY <3>1
  <2>. QED  BY <1>2, <2>3
<1> DEFINE part(i) == CHOOSE f : Upto(measure[i] + 1, f)
           g == [i \in D |-> part(i)[i]]
<1>3. ASSUME NEW i \in D
      PROVE  Upto(measure[i] + 1, part(i))
  <2>1. measure[i] + 1 \in Nat
    OBVIOUS
  <2> HIDE DEF Upto
  <2>. QED  BY <1>1, <2>1
<1> HIDE DEF part
<1>4. g \in [D -> Nat]
  BY <1>3
<1>5. ASSUME NEW i \in D
      PROVE  g[i] = E[g][i]
  <2>1. ASSUME NEW j \in D, measure[j] < measure[i]
        PROVE  part(i)[j] = g[j]
    <3>1. /\ measure[j] + 1 \in Nat /\ measure[i] + 1 \in Nat
          /\ measure[j] + 1 <= measure[i] + 1 /\ measure[j] < measure[j] + 1
      BY <2>1
    <3>2. Upto(measure[j] + 1, part(j)) /\ Upto(measure[i] + 1, part(i))
      BY <1>3
    <3>3. part(j)[j] = part(i)[j]
      <4> HIDE DEF Upto
      <4>. QED  BY <1>2, <3>1, <3>2
    <3>. QED  BY <3>3
  <2>2. part(i) \in [D -> Nat] /\ part(i)[i] = E[part(i)][i]
    BY <1>3
  <2> HIDE DEF g
  <2>3. E[part(i)][i] = E[g][i]
    BY <1>4, <2>1, <2>2
  <2>. QED  BY <2>2, <2>3 DEF g
<1>6. g = E[g]
  <2>1. E[g] \in [D -> Nat]
    BY <1>4
  <2> HIDE DEF g
  <2>. QED  BY <1>4, <1>5, <2>1
<1>. QED  BY <1>4, <1>6

(* The score is a tree: the top-level item is in no container, every other *)
(* item is at one place in one container, one level deeper than that, and  *)
(* only containers have items.                                             *)
TreeScore ==
  /\ \E depth \in [Item -> Nat] :
       /\ depth[top] = 0
       /\ \A i \in Item : \A k \in DOMAIN items[i] : depth[items[i][k]] = depth[i] + 1
  /\ \A i \in Item \ {top} : \E c \in Item : \E k \in DOMAIN items[c] : items[c][k] = i
  /\ \A c, d \in Item : \A k \in DOMAIN items[c], l \in DOMAIN items[d] :
       items[c][k] = items[d][l] => c = d /\ k = l
  /\ \A i \in Item : IsContainer(i) \/ items[i] = << >>

(* The place of an item.                                                   *)
LEMMA Place ==
  ASSUME TreeScore, NEW i \in Item, i # top
  PROVE  /\ Container(i) \in Item /\ Index(i) \in 1 .. Len(items[Container(i)])
         /\ items[Container(i)][Index(i)] = i /\ IsContainer(Container(i))
<1>1. \E c \in Item : \E k \in DOMAIN items[c] : items[c][k] = i
  BY DEF TreeScore
<1> DEFINE c == Container(i)
<1>2. c \in Item /\ \E k \in DOMAIN items[c] : items[c][k] = i
  BY <1>1 DEF Container
<1>3. Index(i) \in DOMAIN items[c] /\ items[c][Index(i)] = i
  BY <1>2 DEF Index
<1>4. items[c] \in Seq(Item) /\ DOMAIN items[c] = 1 .. Len(items[c])
  BY <1>2, ConstantsAssumption
<1>5. IsContainer(c)
  BY <1>2, <1>3, <1>4 DEF TreeScore
<1>. QED  BY <1>2, <1>3, <1>4, <1>5

LEMMA PlaceOf ==
  ASSUME TreeScore, NEW c \in Item, NEW k \in 1 .. Len(items[c])
  PROVE  /\ items[c][k] \in Item \ {top} /\ IsContainer(c)
         /\ Container(items[c][k]) = c /\ Index(items[c][k]) = k
<1>1. items[c] \in Seq(Item) /\ k \in DOMAIN items[c] /\ items[c][k] \in Item
  BY ConstantsAssumption
<1>2. items[c][k] # top
  <2>1. PICK depth \in [Item -> Nat] :
          /\ depth[top] = 0
          /\ \A i \in Item : \A l \in DOMAIN items[i] : depth[items[i][l]] = depth[i] + 1
    BY DEF TreeScore
  <2>2. depth[items[c][k]] = depth[c] + 1 /\ depth[c] \in Nat
    BY <1>1, <2>1
  <2>. QED  BY <2>1, <2>2
<1>3. Container(items[c][k]) \in Item /\ Index(items[c][k]) \in DOMAIN items[Container(items[c][k])]
      /\ items[Container(items[c][k])][Index(items[c][k])] = items[c][k]
  <2>1. \A i \in Item : items[i] \in Seq(Item)
    BY ConstantsAssumption
  <2>. QED  BY <1>1, <1>2, <2>1, Place
<1>4. Container(items[c][k]) = c /\ Index(items[c][k]) = k
  BY <1>1, <1>3 DEF TreeScore
<1>5. IsContainer(c)
  BY <1>1 DEF TreeScore
<1>. QED  BY <1>1, <1>2, <1>4, <1>5

----------------------------------------------------------------------------
(* What a time line is computed from, and how.                             *)

(* The parameters that are free and those that are not.                    *)
LEMMA FreeOnes ==
  ASSUME NEW i \in Item
  PROVE  /\ offsetTime(i) \in FreeParam /\ endTime(i) \notin FreeParam
         /\ startTime(i) \in FreeParam <=> i = top
         /\ duration(i) \in FreeParam <=> ~IsContainer(i)
         /\ \A k : <<i, "partial", k>> \notin FreeParam
<1>1. offsetTime(i) \in FreeParam
  BY TimeParam DEF FreeParam, offsetTime
<1>2. endTime(i) \notin FreeParam
  BY DEF FreeParam, endTime, duration, startTime
<1>3. startTime(i) \in FreeParam <=> i = top
  BY DEF FreeParam, duration, startTime
<1>4. duration(i) \in FreeParam <=> ~IsContainer(i)
  BY DEF FreeParam, duration, startTime
<1>5. ASSUME NEW k
      PROVE  <<i, "partial", k>> \notin FreeParam
  <2> DEFINE p == <<i, "partial", k>>
  <2>1. p[2] = "partial" /\ \A j : duration(j)[2] = "duration" /\ startTime(j)[2] = "startTime"
    BY DEF duration, startTime
  <2> HIDE DEF p
  <2>2. p \notin FreeParam
    <3>1. \A j : p # duration(j) /\ p # startTime(j)
      BY <2>1
    <3>. QED  BY <2>1, <3>1 DEF FreeParam
  <2>. QED  BY <2>2 DEF p
<1>. QED  BY <1>1, <1>2, <1>3, <1>4, <1>5

LEMMA BoundOnes ==
  ASSUME NEW p \in Param, p \notin FreeParam
  PROVE  \E i \in Item : \/ p = startTime(i) /\ i # top
                         \/ p = duration(i) /\ IsContainer(i)
                         \/ p = endTime(i)
                         \/ \E k \in Partial(i) : p = <<i, "partial", k>>
<1>1. CASE p \in Item \X TimeKind
  <2>1. PICK i \in Item, kind \in TimeKind : p = <<i, kind>>
    BY <1>1
  <2>2. kind # "offsetTime"
    <3>1. kind = "offsetTime" => p = offsetTime(i)
      BY <2>1 DEF offsetTime
    <3>. QED  BY <3>1, FreeOnes
  <2>3. p = startTime(i) \/ p = duration(i) \/ p = endTime(i)
    BY <2>1, <2>2 DEF TimeKind, startTime, duration, endTime
  <2>. QED  BY <2>3, FreeOnes
<1>2. CASE p \in Pitched \X {"pitch"}
  BY <1>2 DEF FreeParam
<1>3. ASSUME NEW i \in Item, p \in {i} \X {"partial"} \X Partial(i)
      PROVE  \E k \in Partial(i) : p = <<i, "partial", k>>
  BY <1>3
<1>. QED  BY <1>1, <1>2, <1>3 DEF Param

(* Spans and lengths are numbers, and those of a container are computed    *)
(* from the lengths of its items only.                                     *)
LEMMA SpansTyped ==
  ASSUME NEW ch \in [FreeParam -> Nat], NEW len \in [Item -> Nat], NEW i \in Item
  PROVE  /\ Len(items[i]) \in Nat
         /\ Spans(ch, len, i) \in [1 .. Len(items[i]) -> Nat]
         /\ \A k \in 1 .. Len(items[i]) : items[i][k] \in Item
<1>1. items[i] \in Seq(Item)
  BY ConstantsAssumption
<1>2. ASSUME NEW k \in 1 .. Len(items[i])
      PROVE  items[i][k] \in Item /\ ch[offsetTime(items[i][k])] + len[items[i][k]] \in Nat
  BY <1>1, FreeOnes
<1>. QED  BY <1>1, <1>2 DEF Spans

LEMMA LengthTyped ==
  ASSUME NEW ch \in [FreeParam -> Nat], NEW len \in [Item -> Nat], NEW i \in Item
  PROVE  LengthOf(ch, len, i) \in Nat
<1> DEFINE n == Len(items[i])
           spans == Spans(ch, len, i)
<1>1. n \in Nat /\ spans \in [1 .. n -> Nat]
  BY SpansTyped
<1> HIDE DEF spans
<1>2. CASE Class[i] = "seq"
  <2>1. n \in 0 .. n
    BY <1>1
  <2>2. Elapsed(spans, n) \in Nat
    BY <1>1, <2>1, ElapsedSums
  <2>. QED  BY <1>2, <2>2 DEF LengthOf, spans
<1>3. CASE Class[i] = "sim"
  <2>1. Latest({spans[k] : k \in 1 .. n}) \in Nat
    BY <1>1, LatestOf
  <2>2. LengthOf(ch, len, i) = Latest({spans[k] : k \in 1 .. n})
    BY <1>3 DEF LengthOf, spans
  <2>. QED  BY <2>1, <2>2
<1>4. CASE ~IsContainer(i)
  <2>1. duration(i) \in FreeParam
    BY <1>4, FreeOnes
  <2>2. LengthOf(ch, len, i) = ch[duration(i)]
    BY <1>4 DEF LengthOf, IsContainer
  <2>. QED  BY <2>1, <2>2
<1>. QED  BY <1>2, <1>3, <1>4, ConstantsAssumption DEF IsContainer

LEMMA LengthLocal ==
  ASSUME NEW ch, NEW f, NEW g, NEW i \in Item,
         \A k \in 1 .. Len(items[i]) : f[items[i][k]] = g[items[i][k]]
  PROVE  LengthOf(ch, f, i) = LengthOf(ch, g, i) /\ Spans(ch, f, i) = Spans(ch, g, i)
<1>1. Spans(ch, f, i) = Spans(ch, g, i)
  BY DEF Spans
<1>. QED  BY <1>1 DEF LengthOf

(* The lengths are what the recursion says, and nothing else is.           *)
LEMMA LengthsExist ==
  ASSUME WellFormedScore, NEW ch \in [FreeParam -> Nat]
  PROVE  \E f \in [Item -> Nat] : f = [i \in Item |-> LengthOf(ch, f, i)]
<1>1. PICK height \in [Item -> Nat] :
        \A i \in Item : \A k \in DOMAIN items[i] : height[items[i][k]] < height[i]
  BY DEF WellFormedScore
<1> DEFINE E == [f \in [Item -> Nat] |-> [i \in Item |-> LengthOf(ch, f, i)]]
<1>2. E \in [[Item -> Nat] -> [Item -> Nat]]
  BY LengthTyped
<1>3. ASSUME NEW f \in [Item -> Nat], NEW g \in [Item -> Nat], NEW i \in Item,
             \A j \in Item : height[j] < height[i] => f[j] = g[j]
      PROVE  E[f][i] = E[g][i]
  <2>1. items[i] \in Seq(Item)
    BY ConstantsAssumption
  <2>2. \A k \in 1 .. Len(items[i]) : items[i][k] \in Item /\ height[items[i][k]] < height[i]
    BY <1>1, <2>1
  <2>3. \A k \in 1 .. Len(items[i]) : f[items[i][k]] = g[items[i][k]]
    BY <1>3, <2>2
  <2>4. LengthOf(ch, f, i) = LengthOf(ch, g, i)
    BY <2>3, LengthLocal
  <2>. QED  BY <2>4
<1>4. \A f \in [Item -> Nat] : E[f] = [i \in Item |-> LengthOf(ch, f, i)]
  OBVIOUS
<1> HIDE DEF E
<1>5. \E f \in [Item -> Nat] : f = E[f]
  BY <1>1, <1>2, <1>3, TreeRecursion, ZenonT(40)
<1>. QED  BY <1>4, <1>5

LEMMA LengthsUnique ==
  ASSUME WellFormedScore, NEW ch, NEW f, NEW g,
         f = [i \in Item |-> LengthOf(ch, f, i)],
         g = [i \in Item |-> LengthOf(ch, g, i)]
  PROVE  f = g
<1>1. PICK height \in [Item -> Nat] :
        \A i \in Item : \A k \in DOMAIN items[i] : height[items[i][k]] < height[i]
  BY DEF WellFormedScore
<1>2. (\A i \in Item : f[i] = LengthOf(ch, f, i)) /\ \A i \in Item : g[i] = LengthOf(ch, g, i)
  OBVIOUS
<1>3. ASSUME NEW i \in Item
      PROVE  f[i] = g[i]
  <2> DEFINE n == height[i]
             same == {k \in 0 .. n + 1 : \A j \in Item : height[j] < k => f[j] = g[j]}
  <2>1. n \in Nat /\ n + 1 \in Nat
    BY <1>1
  <2>2. 0 \in same
    BY <1>1, <2>1
  <2>3. ASSUME NEW k \in 1 .. n + 1, k - 1 \in same
        PROVE  k \in same
    <3>1. ASSUME NEW j \in Item, height[j] < k
          PROVE  f[j] = g[j]
      <4>1. items[j] \in Seq(Item)
        BY ConstantsAssumption
      <4>2. ASSUME NEW l \in 1 .. Len(items[j])
            PROVE  f[items[j][l]] = g[items[j][l]]
        <5>1. items[j][l] \in Item /\ height[items[j][l]] < height[j]
          BY <1>1, <4>1
        <5>2. height[items[j][l]] < k - 1
          BY <1>1, <3>1, <5>1
        <5>. QED  BY <2>3, <5>1, <5>2
      <4>3. LengthOf(ch, f, j) = LengthOf(ch, g, j)
        BY <4>2, LengthLocal
      <4>. QED  BY <1>2, <4>3
    <3>2. k \in 0 .. n + 1
      BY <2>1
    <3>. QED  BY <3>1, <3>2
  <2>4. n + 1 \in same
    <3> HIDE DEF same
    <3>1. \A k \in 0 .. n + 1 : k \in same
      BY <2>1, <2>2, <2>3, Upwards
    <3>. QED  BY <2>1, <3>1
  <2>. QED  BY <2>1, <2>4
<1> DEFINE F(i) == LengthOf(ch, f, i)
           G(i) == LengthOf(ch, g, i)
<1>4. f = [i \in Item |-> f[i]] /\ g = [i \in Item |-> g[i]]
  <2>1. f = [i \in Item |-> F(i)] /\ g = [i \in Item |-> G(i)]
    OBVIOUS
  <2> HIDE DEF F, G
  <2>. QED  BY <2>1
<1>. QED  BY <1>3, <1>4

LEMMA LengthsAre ==
  ASSUME WellFormedScore, NEW ch \in [FreeParam -> Nat]
  PROVE  /\ Lengths(ch) \in [Item -> Nat]
         /\ Lengths(ch) = [i \in Item |-> LengthOf(ch, Lengths(ch), i)]
         /\ \A i \in Item : Lengths(ch)[i] = LengthOf(ch, Lengths(ch), i)
<1> DEFINE Is(f) == f = [i \in Item |-> LengthOf(ch, f, i)]
           len == CHOOSE f : Is(f)
<1>1. PICK f \in [Item -> Nat] : Is(f)
  BY LengthsExist
<1>2. Lengths(ch) = len
  BY DEF Lengths
<1>3. Is(len)
  <2> HIDE DEF Is
  <2>. QED  BY <1>1
<1> HIDE DEF len
<1>4. len = f
  BY <1>1, <1>3, LengthsUnique
<1>5. \A i \in Item : len[i] = LengthOf(ch, len, i)
  BY <1>3
<1>. QED  BY <1>1, <1>2, <1>3, <1>4, <1>5

(* Start times are numbers and computed from that of the container.        *)
LEMMA BeginTyped ==
  ASSUME TreeScore, NEW ch \in [FreeParam -> Nat], NEW len \in [Item -> Nat],
         NEW begin \in [Item -> Nat], NEW i \in Item
  PROVE  BeginOf(ch, len, begin, i) \in Nat
<1>1. CASE i = top
  <2>1. startTime(top) \in FreeParam
    BY <1>1, FreeOnes
  <2>. QED  BY <1>1, <2>1 DEF BeginOf
<1>2. CASE i # top
  <2> DEFINE c == Container(i)
             spans == Spans(ch, len, c)
             n == Index(i) - 1
             before == IF Class[c] = "seq" THEN Elapsed(spans, n) ELSE 0
  <2>1. c \in Item /\ Index(i) \in 1 .. Len(items[c])
    BY <1>2, Place
  <2>2. Len(items[c]) \in Nat /\ spans \in [1 .. Len(items[c]) -> Nat]
    BY <2>1, SpansTyped
  <2>3. n \in 0 .. Len(items[c])
    BY <2>1, <2>2
  <2> HIDE DEF n, spans
  <2>4. Elapsed(spans, n) \in Nat
    BY <2>2, <2>3, ElapsedSums
  <2>5. before \in Nat
    BY <2>4
  <2>6. begin[c] \in Nat /\ ch[offsetTime(i)] \in Nat
    BY <2>1, FreeOnes
  <2>7. BeginOf(ch, len, begin, i) = begin[c] + ch[offsetTime(i)] + before
    BY <1>2 DEF BeginOf, n, spans
  <2> HIDE DEF before
  <2>. QED  BY <2>5, <2>6, <2>7
<1>. QED  BY <1>1, <1>2

LEMMA BeginLocal ==
  ASSUME NEW ch, NEW len, NEW f, NEW g, NEW i \in Item,
         i # top => f[Container(i)] = g[Container(i)]
  PROVE  BeginOf(ch, len, f, i) = BeginOf(ch, len, g, i)
BY DEF BeginOf

LEMMA BeginsExist ==
  ASSUME TreeScore, NEW ch \in [FreeParam -> Nat], NEW len \in [Item -> Nat]
  PROVE  \E f \in [Item -> Nat] : f = [i \in Item |-> BeginOf(ch, len, f, i)]
<1>1. PICK depth \in [Item -> Nat] :
        \A i \in Item : \A k \in DOMAIN items[i] : depth[items[i][k]] = depth[i] + 1
  BY DEF TreeScore
<1> DEFINE E == [f \in [Item -> Nat] |-> [i \in Item |-> BeginOf(ch, len, f, i)]]
<1>2. E \in [[Item -> Nat] -> [Item -> Nat]]
  BY BeginTyped
<1>3. ASSUME NEW f \in [Item -> Nat], NEW g \in [Item -> Nat], NEW i \in Item,
             \A j \in Item : depth[j] < depth[i] => f[j] = g[j]
      PROVE  E[f][i] = E[g][i]
  <2>1. ASSUME i # top
        PROVE  f[Container(i)] = g[Container(i)]
    <3>1. /\ Container(i) \in Item /\ Index(i) \in 1 .. Len(items[Container(i)])
          /\ items[Container(i)][Index(i)] = i
      BY <2>1, Place
    <3>2. items[Container(i)] \in Seq(Item)
      BY <3>1, ConstantsAssumption
    <3>3. Index(i) \in DOMAIN items[Container(i)]
      BY <3>1, <3>2
    <3> HIDE DEF E
    <3>4. depth[i] = depth[Container(i)] + 1
      BY <1>1, <3>1, <3>3
    <3>. QED  BY <1>1, <1>3, <3>1, <3>4
  <2>2. BeginOf(ch, len, f, i) = BeginOf(ch, len, g, i)
    BY <2>1, BeginLocal
  <2>. QED  BY <2>2
<1>4. \A f \in [Item -> Nat] : E[f] = [i \in Item |-> BeginOf(ch, len, f, i)]
  OBVIOUS
<1> HIDE DEF E
<1>5. \A f, g \in [Item -> Nat] : \A i \in Item :
        (\A j \in Item : depth[j] < depth[i] => f[j] = g[j]) => E[f][i] = E[g][i]
  BY <1>3
<1>6. \E f \in [Item -> Nat] : f = E[f]
  BY <1>2, <1>5, TreeRecursion, ZenonT(40)
<1>. QED  BY <1>4, <1>6

LEMMA BeginsUnique ==
  ASSUME TreeScore, NEW ch, NEW len, NEW f, NEW g,
         f = [i \in Item |-> BeginOf(ch, len, f, i)],
         g = [i \in Item |-> BeginOf(ch, len, g, i)]
  PROVE  f = g
<1>1. PICK depth \in [Item -> Nat] :
        \A i \in Item : \A k \in DOMAIN items[i] : depth[items[i][k]] = depth[i] + 1
  BY DEF TreeScore
<1>2. (\A i \in Item : f[i] = BeginOf(ch, len, f, i)) /\ \A i \in Item : g[i] = BeginOf(ch, len, g, i)
  OBVIOUS
<1>3. ASSUME NEW i \in Item
      PROVE  f[i] = g[i]
  <2> DEFINE n == depth[i]
             same == {k \in 0 .. n + 1 : \A j \in Item : depth[j] < k => f[j] = g[j]}
  <2>1. n \in Nat /\ n + 1 \in Nat
    BY <1>1
  <2>2. 0 \in same
    BY <1>1, <2>1
  <2>3. ASSUME NEW k \in 1 .. n + 1, k - 1 \in same
        PROVE  k \in same
    <3>1. ASSUME NEW j \in Item, depth[j] < k
          PROVE  f[j] = g[j]
      <4>1. ASSUME j # top
            PROVE  f[Container(j)] = g[Container(j)]
        <5>1. /\ Container(j) \in Item /\ Index(j) \in 1 .. Len(items[Container(j)])
              /\ items[Container(j)][Index(j)] = j
          BY <4>1, Place
        <5>2. items[Container(j)] \in Seq(Item)
          BY <5>1, ConstantsAssumption
        <5>3. depth[j] = depth[Container(j)] + 1 /\ depth[Container(j)] \in Nat
          BY <1>1, <5>1, <5>2
        <5>4. depth[Container(j)] < k - 1
          BY <1>1, <3>1, <5>3
        <5>. QED  BY <2>3, <5>1, <5>4
      <4>2. BeginOf(ch, len, f, j) = BeginOf(ch, len, g, j)
        BY <4>1, BeginLocal
      <4>. QED  BY <1>2, <4>2
    <3>2. k \in 0 .. n + 1
      BY <2>1
    <3>. QED  BY <3>1, <3>2
  <2>4. n + 1 \in same
    <3> HIDE DEF same
    <3>1. \A k \in 0 .. n + 1 : k \in same
      BY <2>1, <2>2, <2>3, Upwards
    <3>. QED  BY <2>1, <3>1
  <2>. QED  BY <2>1, <2>4
<1> DEFINE F(i) == BeginOf(ch, len, f, i)
           G(i) == BeginOf(ch, len, g, i)
<1>4. f = [i \in Item |-> f[i]] /\ g = [i \in Item |-> g[i]]
  <2>1. f = [i \in Item |-> F(i)] /\ g = [i \in Item |-> G(i)]
    OBVIOUS
  <2> HIDE DEF F, G
  <2>. QED  BY <2>1
<1>. QED  BY <1>3, <1>4

LEMMA BeginsAre ==
  ASSUME WellFormedScore, TreeScore, NEW ch \in [FreeParam -> Nat]
  PROVE  /\ Begins(ch) \in [Item -> Nat]
         /\ \A i \in Item : Begins(ch)[i] = BeginOf(ch, Lengths(ch), Begins(ch), i)
         /\ \A g : g = [i \in Item |-> BeginOf(ch, Lengths(ch), g, i)] => g = Begins(ch)
<1> DEFINE len == Lengths(ch)
           Is(f) == f = [i \in Item |-> BeginOf(ch, len, f, i)]
           begin == CHOOSE f : Is(f)
<1>1. len \in [Item -> Nat]
  BY LengthsAre
<1>2. Begins(ch) = begin
  BY DEF Begins
<1> HIDE DEF len
<1>3. PICK f \in [Item -> Nat] : Is(f)
  BY <1>1, BeginsExist
<1>4. Is(begin)
  <2> HIDE DEF Is
  <2>. QED  BY <1>3
<1> HIDE DEF begin
<1>5. \A g : Is(g) => g = begin
  BY <1>4, BeginsUnique
<1>6. begin = f
  BY <1>3, <1>5
<1>7. \A i \in Item : begin[i] = BeginOf(ch, len, begin, i)
  BY <1>4
<1>. QED  BY <1>2, <1>3, <1>5, <1>6, <1>7 DEF len

(* What Layout is, parameter by parameter.                                 *)
LEMMA LayoutIs ==
  ASSUME WellFormedScore, TreeScore, NEW ch \in [FreeParam -> Nat], NEW s, s = Layout(ch)
  PROVE  /\ \A p \in FreeParam : p \in Param => s[p] = ch[p]
         /\ \A i \in Item : /\ s[startTime(i)] = Begins(ch)[i]
                            /\ s[duration(i)] = Lengths(ch)[i]
                            /\ s[endTime(i)] = Begins(ch)[i] + Lengths(ch)[i]
                            /\ s[offsetTime(i)] = ch[offsetTime(i)]
         /\ \A i \in Item : \A k \in Partial(i) :
              s[<<i, "partial", k>>]
                = Latest({Begins(ch)[items[i][j]] + Lengths(ch)[items[i][j]] : j \in 1 .. k})
<1> DEFINE len == Lengths(ch)
           begin == Begins(ch)
<1>1. \A p \in Param : s[p] = ValueOf(ch, len, begin, p)
  BY DEF Layout
<1>2. (\A i \in Item : len[i] = LengthOf(ch, len, i)) /\ \A i \in Item : begin[i] = BeginOf(ch, len, begin, i)
  BY LengthsAre, BeginsAre
<1>3. \A p \in FreeParam : p \in Param => s[p] = ch[p]
  <2>1. \A p \in FreeParam : p[2] # "endTime" /\ p[2] # "partial"
    BY DEF FreeParam, startTime, duration
  <2>. QED  BY <1>1, <2>1 DEF ValueOf
<1>4. ASSUME NEW i \in Item
      PROVE  s[startTime(i)] = begin[i] /\ s[duration(i)] = len[i]
  <2>1. s[startTime(i)] = begin[i]
    <3>1. CASE i = top
      BY <1>2, <1>3, <3>1, FreeOnes, TimeParam DEF BeginOf
    <3>2. CASE i # top
      <4>1. startTime(i) \in Param /\ startTime(i) \notin FreeParam
            /\ startTime(i)[2] = "startTime" /\ startTime(i)[1] = i
        BY <3>2, FreeOnes, TimeParam DEF startTime
      <4>. QED  BY <1>1, <4>1 DEF ValueOf
    <3>. QED  BY <3>1, <3>2
  <2>2. s[duration(i)] = len[i]
    <3>1. CASE ~IsContainer(i)
      <4>1. LengthOf(ch, len, i) = ch[duration(i)]
        BY <3>1 DEF LengthOf, IsContainer
      <4>. QED  BY <1>2, <1>3, <3>1, <4>1, FreeOnes, TimeParam
    <3>2. CASE IsContainer(i)
      <4>1. duration(i) \in Param /\ duration(i) \notin FreeParam
            /\ duration(i)[2] = "duration" /\ duration(i)[1] = i
        BY <3>2, FreeOnes, TimeParam DEF duration
      <4>. QED  BY <1>1, <4>1 DEF ValueOf
    <3>. QED  BY <3>1, <3>2
  <2>. QED  BY <2>1, <2>2
<1>5. ASSUME NEW i \in Item
      PROVE  s[endTime(i)] = begin[i] + len[i] /\ s[offsetTime(i)] = ch[offsetTime(i)]
  <2>1. endTime(i) \in Param /\ endTime(i) \notin FreeParam
        /\ endTime(i)[2] = "endTime" /\ endTime(i)[1] = i
    BY FreeOnes, TimeParam DEF endTime
  <2>2. s[endTime(i)] = begin[i] + len[i]
    BY <1>1, <2>1 DEF ValueOf
  <2>. QED  BY <1>3, <2>2, FreeOnes, TimeParam
<1>6. ASSUME NEW i \in Item, NEW k \in Partial(i)
      PROVE  s[<<i, "partial", k>>] = Latest({begin[items[i][j]] + len[items[i][j]] : j \in 1 .. k})
  <2> DEFINE p == <<i, "partial", k>>
  <2>1. p \in Param /\ p \notin FreeParam /\ p[1] = i /\ p[2] = "partial" /\ p[3] = k
    BY FreeOnes DEF Param
  <2> HIDE DEF p
  <2>2. s[p] = Latest({begin[items[p[1]][j]] + len[items[p[1]][j]] : j \in 1 .. p[3]})
    BY <1>1, <2>1 DEF ValueOf
  <2>. QED  BY <2>1, <2>2 DEF p
<1>. QED  BY <1>3, <1>4, <1>5, <1>6

(* A layout is a time line.                                                *)
LEMMA LayoutIsTimeline ==
  ASSUME WellFormedScore, TreeScore, NEW ch \in [FreeParam -> Nat]
  PROVE  Layout(ch) \in [Param -> Nat] /\ IsTimeline(Layout(ch))
<1> DEFINE s == Layout(ch)
           len == Lengths(ch)
           begin == Begins(ch)
           spans(i) == Spans(ch, len, i)
           e(i) == begin[i] + len[i]
<1>1. len \in [Item -> Nat] /\ \A i \in Item : len[i] = LengthOf(ch, len, i)
  BY LengthsAre
<1>2. begin \in [Item -> Nat] /\ \A i \in Item : begin[i] = BeginOf(ch, len, begin, i)
  BY BeginsAre
<1>3. /\ \A i \in Item : /\ s[startTime(i)] = begin[i] /\ s[duration(i)] = len[i]
                         /\ s[endTime(i)] = begin[i] + len[i]
                         /\ s[offsetTime(i)] = ch[offsetTime(i)]
      /\ \A p \in FreeParam : p \in Param => s[p] = ch[p]
      /\ \A i \in Item : \A k \in Partial(i) :
           s[<<i, "partial", k>>] = Latest({e(items[i][j]) : j \in 1 .. k})
  BY LayoutIs
<1>4. s = [p \in Param |-> s[p]]
  BY DEF Layout
<1> HIDE DEF s, len, begin
<1>5. ASSUME NEW i \in Item, IsContainer(i)
      PROVE  /\ Len(items[i]) \in Nat \ {0} /\ spans(i) \in [1 .. Len(items[i]) -> Nat]
             /\ \A k \in 1 .. Len(items[i]) :
                  /\ items[i][k] \in Item /\ e(items[i][k]) \in Nat
                  /\ spans(i)[k] = ch[offsetTime(items[i][k])] + len[items[i][k]]
                  /\ ch[offsetTime(items[i][k])] \in Nat /\ spans(i)[k] \in Nat
  <2>1. Len(items[i]) \in Nat \ {0} /\ \A k \in 1 .. Len(items[i]) : items[i][k] \in Item
    BY <1>5, ItemsOf
  <2>2. spans(i) \in [1 .. Len(items[i]) -> Nat]
    BY <1>1, SpansTyped
  <2>3. \A k \in 1 .. Len(items[i]) : spans(i)[k] = ch[offsetTime(items[i][k])] + len[items[i][k]]
    BY DEF Spans
  <2>4. \A k \in 1 .. Len(items[i]) : ch[offsetTime(items[i][k])] \in Nat /\ e(items[i][k]) \in Nat
    BY <1>1, <1>2, <2>1, FreeOnes
  <2> HIDE DEF spans
  <2>. QED  BY <2>1, <2>2, <2>3, <2>4
<1>6. ASSUME NEW i \in Item, NEW k \in Partial(i)
      PROVE  /\ k \in 1 .. Len(items[i]) /\ k \in Nat \ {0} /\ Class[i] = "sim" /\ IsContainer(i)
             /\ [j \in 1 .. k |-> e(items[i][j])] \in [1 .. k -> Nat]
             /\ \A j \in 1 .. k : j \in 1 .. Len(items[i])
  <2>1. Class[i] = "sim" /\ IsContainer(i) /\ k \in 2 .. Len(items[i]) - 1
    BY <1>6 DEF Partial, IsContainer
  <2>2. Len(items[i]) \in Nat /\ \A j \in 1 .. Len(items[i]) : e(items[i][j]) \in Nat
    BY <1>5, <2>1
  <2>3. k \in 1 .. Len(items[i]) /\ \A j \in 1 .. k : j \in 1 .. Len(items[i])
    BY <2>1, <2>2
  <2>. QED  BY <2>1, <2>2, <2>3
<1>7. ASSUME NEW i \in Item, NEW k \in Partial(i)
      PROVE  /\ s[<<i, "partial", k>>] \in Nat
             /\ LatestEnd(s, i, k, s[<<i, "partial", k>>])
  <2> DEFINE f == [j \in 1 .. k |-> e(items[i][j])]
             m == Latest({f[j] : j \in 1 .. k})
  <2>1. f \in [1 .. k -> Nat] /\ k \in Nat \ {0} /\ IsContainer(i)
    BY <1>6
  <2>2. s[<<i, "partial", k>>] = m
    <3>1. {f[j] : j \in 1 .. k} = {e(items[i][j]) : j \in 1 .. k}
      OBVIOUS
    <3>. QED  BY <1>3, <3>1
  <2>3. \A j \in 1 .. k : f[j] = s[endTime(items[i][j])]
    BY <1>3, <1>5, <1>6, <2>1
  <2> HIDE DEF f
  <2>4. m \in Nat /\ (\A j \in 1 .. k : f[j] <= m) /\ \E j \in 1 .. k : m = f[j]
    BY <2>1, LatestOf
  <2>. QED  BY <2>2, <2>3, <2>4 DEF LatestEnd
<1>8. ASSUME NEW p \in Param
      PROVE  s[p] \in Nat
  <2>1. CASE p \in FreeParam
    BY <1>3, <2>1
  <2>2. CASE p \notin FreeParam
    <3>1. PICK i \in Item : \/ p = startTime(i) /\ i # top
                            \/ p = duration(i) /\ IsContainer(i)
                            \/ p = endTime(i)
                            \/ \E k \in Partial(i) : p = <<i, "partial", k>>
      BY <2>2, BoundOnes
    <3>2. begin[i] \in Nat /\ len[i] \in Nat
      BY <1>1, <1>2
    <3>. QED  BY <1>3, <1>7, <3>1, <3>2
  <2>. QED  BY <2>1, <2>2
<1>9. s \in [Param -> Nat]
  <2> DEFINE v(p) == s[p]
  <2>1. s = [p \in Param |-> v(p)] /\ \A p \in Param : v(p) \in Nat
    BY <1>4, <1>8
  <2> HIDE DEF v
  <2>. QED  BY <2>1
<1>10. ASSUME NEW i \in Item, IsContainer(i), NEW k \in 1 .. Len(items[i])
       PROVE  begin[items[i][k]] = begin[i] + ch[offsetTime(items[i][k])]
                + (IF Class[i] = "seq" THEN Elapsed(spans(i), k - 1) ELSE 0)
  <2> DEFINE j == items[i][k]
  <2>1. j \in Item /\ j # top /\ Container(j) = i /\ Index(j) = k
    BY <1>10, PlaceOf
  <2>2. begin[j] = BeginOf(ch, len, begin, j)
    BY <1>2, <2>1
  <2> HIDE DEF j
  <2>3. begin[j] = begin[i] + ch[offsetTime(j)]
                + (IF Class[i] = "seq" THEN Elapsed(Spans(ch, len, i), k - 1) ELSE 0)
    BY <2>1, <2>2 DEF BeginOf
  <2>. QED  BY <2>3 DEF j
<1>11. ASSUME NEW i \in Item, Class[i] = "seq"
       PROVE  /\ IsContainer(i) /\ len[i] = Elapsed(spans(i), Len(items[i]))
              /\ \A k \in 1 .. Len(items[i]) :
                   /\ Elapsed(spans(i), k - 1) \in Nat
                   /\ e(items[i][k]) = begin[i] + Elapsed(spans(i), k)
                   /\ begin[items[i][k]] = begin[i] + Elapsed(spans(i), k - 1)
                                             + ch[offsetTime(items[i][k])]
  <2> DEFINE n == Len(items[i])
             sp == spans(i)
  <2>1. IsContainer(i)
    BY <1>11 DEF IsContainer
  <2>2. len[i] = Elapsed(sp, n)
    BY <1>1, <1>11 DEF LengthOf
  <2>3. n \in Nat \ {0} /\ sp \in [1 .. n -> Nat]
    BY <1>5, <2>1
  <2>4. ASSUME NEW k \in 1 .. n
        PROVE  /\ Elapsed(sp, k - 1) \in Nat
               /\ e(items[i][k]) = begin[i] + Elapsed(sp, k)
               /\ begin[items[i][k]] = begin[i] + Elapsed(sp, k - 1) + ch[offsetTime(items[i][k])]
    <3>1. /\ sp[k] = ch[offsetTime(items[i][k])] + len[items[i][k]]
          /\ ch[offsetTime(items[i][k])] \in Nat /\ items[i][k] \in Item
      BY <1>5, <2>1
    <3>2. begin[items[i][k]] = begin[i] + ch[offsetTime(items[i][k])] + Elapsed(sp, k - 1)
      BY <1>10, <1>11, <2>1
    <3> HIDE DEF n, sp
    <3>3. n \in Nat
      BY <2>3
    <3>4. k - 1 \in 0 .. n
      BY <3>3
    <3>5. Elapsed(sp, k - 1) \in Nat /\ Elapsed(sp, k) = Elapsed(sp, k - 1) + sp[k]
      BY <2>3, <3>3, <3>4, ElapsedSums
    <3>6. begin[i] \in Nat /\ len[items[i][k]] \in Nat
      BY <1>1, <1>2, <3>1
    <3>. QED  BY <3>1, <3>2, <3>5, <3>6
  <2>. QED  BY <2>1, <2>2, <2>4
<1>12. ASSUME NEW i \in Item, IsContainer(i), NEW k \in 1 .. Len(items[i])
       PROVE  s[startTime(items[i][k])] = s[Anchor(i, k)] + s[offsetTime(items[i][k])]
  <2>1. /\ items[i][k] \in Item /\ ch[offsetTime(items[i][k])] \in Nat /\ begin[i] \in Nat
        /\ Len(items[i]) \in Nat
    BY <1>2, <1>5, <1>12
  <2>2. s[startTime(items[i][k])] = begin[items[i][k]]
        /\ s[offsetTime(items[i][k])] = ch[offsetTime(items[i][k])]
    BY <1>3, <2>1
  <2>3. CASE Class[i] # "seq"
    <3>1. s[Anchor(i, k)] = begin[i]
      BY <1>3, <2>3 DEF Anchor
    <3>2. begin[items[i][k]] = begin[i] + ch[offsetTime(items[i][k])] + 0
      BY <1>10, <1>12, <2>3
    <3>. QED  BY <2>1, <2>2, <3>1, <3>2
  <2>4. CASE Class[i] = "seq"
    <3> DEFINE before == Elapsed(spans(i), k - 1)
    <3>1. /\ begin[items[i][k]] = begin[i] + before + ch[offsetTime(items[i][k])]
          /\ before \in Nat
      BY <1>11, <2>4
    <3>2. s[Anchor(i, k)] = begin[i] + before
      <4>1. CASE k = 1
        <5>1. before = 0
          <6> DEFINE sp == spans(i)
                     n == Len(items[i])
          <6>1. n \in Nat /\ sp \in [1 .. n -> Nat]
            BY <1>5, <1>12
          <6> HIDE DEF sp, n
          <6>2. Elapsed(sp, 0) = 0
            BY <6>1, ElapsedSums
          <6>. QED  BY <4>1, <6>2 DEF sp
        <5>. QED  BY <1>3, <2>1, <4>1, <5>1 DEF Anchor
      <4>2. CASE k # 1
        <5>1. k - 1 \in 1 .. Len(items[i])
          BY <2>1, <4>2
        <5>2. items[i][k - 1] \in Item /\ e(items[i][k - 1]) = begin[i] + before
          BY <1>5, <1>11, <1>12, <2>4, <5>1
        <5>3. Anchor(i, k) = endTime(items[i][k - 1])
          BY <2>4, <4>2 DEF Anchor
        <5>. QED  BY <1>3, <5>2, <5>3
      <4>. QED  BY <4>1, <4>2
    <3>. QED  BY <2>2, <3>1, <3>2
  <2>. QED  BY <2>3, <2>4
<1>13. ASSUME NEW i \in Item, Class[i] = "seq"
       PROVE  s[endTime(i)] = s[endTime(items[i][Len(items[i])])]
  <2>1. IsContainer(i) /\ len[i] = Elapsed(spans(i), Len(items[i]))
    BY <1>11, <1>13
  <2>2. Len(items[i]) \in 1 .. Len(items[i]) /\ items[i][Len(items[i])] \in Item
    BY <1>5, <2>1
  <2>3. e(items[i][Len(items[i])]) = begin[i] + len[i]
    BY <1>11, <1>13, <2>1, <2>2
  <2>. QED  BY <1>3, <2>2, <2>3
<1>14. ASSUME NEW i \in Item, Class[i] = "sim"
       PROVE  LatestEnd(s, i, Len(items[i]), s[endTime(i)])
  <2> DEFINE n == Len(items[i])
             sp == spans(i)
             m == Latest({sp[k] : k \in 1 .. n})
  <2>1. IsContainer(i)
    BY <1>14 DEF IsContainer
  <2>2. n \in Nat \ {0} /\ sp \in [1 .. n -> Nat]
    BY <1>5, <2>1
  <2>3. len[i] = m
    BY <1>1, <1>14 DEF LengthOf
  <2>4. ASSUME NEW k \in 1 .. n
        PROVE  s[endTime(items[i][k])] = begin[i] + sp[k] /\ sp[k] \in Nat
    <3>1. /\ items[i][k] \in Item /\ sp[k] = ch[offsetTime(items[i][k])] + len[items[i][k]]
          /\ ch[offsetTime(items[i][k])] \in Nat /\ sp[k] \in Nat
      BY <1>5, <2>1
    <3>2. begin[items[i][k]] = begin[i] + ch[offsetTime(items[i][k])] + 0
      BY <1>10, <1>14, <2>1
    <3>3. begin[i] \in Nat /\ len[items[i][k]] \in Nat
      BY <1>1, <1>2, <3>1
    <3>4. s[endTime(items[i][k])] = begin[items[i][k]] + len[items[i][k]]
      BY <1>3, <3>1
    <3> HIDE DEF sp
    <3>. QED  BY <3>1, <3>2, <3>3, <3>4
  <2>5. s[endTime(i)] = begin[i] + m /\ begin[i] \in Nat
    BY <1>2, <1>3, <2>3
  <2> HIDE DEF sp
  <2>6. m \in Nat /\ (\A k \in 1 .. n : sp[k] <= m) /\ \E k \in 1 .. n : m = sp[k]
    BY <2>2, LatestOf
  <2> HIDE DEF m
  <2> DEFINE end == s[endTime(i)]
  <2>7. ASSUME NEW k \in 1 .. n
        PROVE  s[endTime(items[i][k])] <= end /\ (m = sp[k] => end = s[endTime(items[i][k])])
    BY <2>4, <2>5, <2>6
  <2> HIDE DEF end
  <2>8. LatestEnd(s, i, n, end)
    BY <2>6, <2>7 DEF LatestEnd
  <2>. QED  BY <2>8 DEF end
<1>15. IsTimeline(s)
  BY <1>3, <1>7, <1>12, <1>13, <1>14 DEF IsTimeline
<1>. QED  BY <1>9, <1>15 DEF s

LEMMA FreeAreParams == FreeParam \subseteq Param
BY TimeParam, ConstantsAssumption DEF FreeParam

(* A time line is the layout of what it gives the free parameters.         *)
LEMMA TimelineIsLayout ==
  ASSUME WellFormedScore, TreeScore, NEW s \in [Param -> Nat], IsTimeline(s),
         NEW ch, ch = [p \in FreeParam |-> s[p]]
  PROVE  ch \in [FreeParam -> Nat] /\ s = Layout(ch)
<1>1. ch \in [FreeParam -> Nat] /\ \A p \in FreeParam : ch[p] = s[p]
  BY FreeAreParams
<1>2. \A i \in Item : ch[offsetTime(i)] = s[offsetTime(i)]
  BY <1>1, FreeOnes
<1> DEFINE len == [i \in Item |-> s[duration(i)]]
           begin == [i \in Item |-> s[startTime(i)]]
           spans(i) == Spans(ch, len, i)
<1>3. len \in [Item -> Nat] /\ begin \in [Item -> Nat]
  BY TimeParam
<1>4. ASSUME NEW i \in Item
      PROVE  /\ s[startTime(i)] = begin[i] /\ begin[i] \in Nat
             /\ s[duration(i)] = len[i] /\ len[i] \in Nat
             /\ s[endTime(i)] = begin[i] + len[i]
             /\ s[offsetTime(i)] \in Nat
  BY <1>3, TimeParam DEF IsTimeline
<1>5. /\ len = [i \in Item |-> len[i]] /\ begin = [i \in Item |-> begin[i]]
  OBVIOUS
<1> HIDE DEF len, begin
<1>6. ASSUME NEW i \in Item, IsContainer(i)
      PROVE  /\ Len(items[i]) \in Nat \ {0} /\ spans(i) \in [1 .. Len(items[i]) -> Nat]
             /\ \A k \in 1 .. Len(items[i]) :
                  /\ items[i][k] \in Item
                  /\ spans(i)[k] = s[offsetTime(items[i][k])] + len[items[i][k]]
                  /\ s[startTime(items[i][k])] = s[Anchor(i, k)] + s[offsetTime(items[i][k])]
  <2>1. Len(items[i]) \in Nat \ {0} /\ \A k \in 1 .. Len(items[i]) : items[i][k] \in Item
    BY <1>6, ItemsOf
  <2>2. spans(i) \in [1 .. Len(items[i]) -> Nat]
    BY <1>1, <1>3, SpansTyped
  <2>3. \A k \in 1 .. Len(items[i]) : spans(i)[k] = s[offsetTime(items[i][k])] + len[items[i][k]]
    BY <1>2, <2>1 DEF Spans
  <2>4. \A k \in 1 .. Len(items[i]) :
          s[startTime(items[i][k])] = s[Anchor(i, k)] + s[offsetTime(items[i][k])]
    BY <1>6 DEF IsTimeline
  <2> HIDE DEF spans
  <2>. QED  BY <2>1, <2>2, <2>3, <2>4
(* In a Sequential the items follow each other.                            *)
<1>7. ASSUME NEW i \in Item, Class[i] = "seq", NEW k \in 1 .. Len(items[i])
      PROVE  /\ s[Anchor(i, k)] = begin[i] + Elapsed(spans(i), k - 1)
             /\ s[endTime(items[i][k])] = begin[i] + Elapsed(spans(i), k)
             /\ Elapsed(spans(i), k - 1) \in Nat /\ Elapsed(spans(i), k) \in Nat
  <2> DEFINE n == Len(items[i])
             sp == spans(i)
             at(l) == s[Anchor(i, l)]
             good == {l \in 0 .. n - 1 : at(l + 1) = begin[i] + Elapsed(sp, l)}
  <2>1. IsContainer(i)
    BY <1>7 DEF IsContainer
  <2>2. n \in Nat \ {0} /\ n - 1 \in Nat /\ sp \in [1 .. n -> Nat] /\ begin[i] \in Nat
    BY <1>4, <1>6, <2>1
  <2>3. /\ Elapsed(sp, 0) = 0
        /\ \A l \in 0 .. n : Elapsed(sp, l) \in Nat
        /\ \A l \in 1 .. n : Elapsed(sp, l) = Elapsed(sp, l - 1) + sp[l]
    <3> HIDE DEF sp, n
    <3>1. n \in Nat
      BY <2>2
    <3>. QED  BY <2>2, <3>1, ElapsedSums
  <2>4. ASSUME NEW l \in 1 .. n, at(l) = begin[i] + Elapsed(sp, l - 1)
        PROVE  s[endTime(items[i][l])] = begin[i] + Elapsed(sp, l)
    <3> DEFINE j == items[i][l]
    <3>1. /\ j \in Item /\ sp[l] = s[offsetTime(j)] + len[j]
          /\ s[startTime(j)] = at(l) + s[offsetTime(j)]
      BY <1>6, <2>1
    <3> HIDE DEF j, sp, at
    <3>2. s[endTime(j)] = s[startTime(j)] + len[j] /\ len[j] \in Nat /\ s[offsetTime(j)] \in Nat
      BY <1>4, <3>1
    <3>3. Elapsed(sp, l - 1) \in Nat /\ Elapsed(sp, l) = Elapsed(sp, l - 1) + sp[l]
      <4>1. l - 1 \in 0 .. n
        BY <2>2
      <4>. QED  BY <2>3, <4>1
    <3>4. s[endTime(j)] = begin[i] + Elapsed(sp, l)
      BY <2>2, <2>4, <3>1, <3>2, <3>3
    <3>. QED  BY <3>4 DEF j
  <2>5. 0 \in good
    <3>1. at(0 + 1) = begin[i]
      BY <1>4 DEF Anchor
    <3> HIDE DEF at, sp
    <3>. QED  BY <2>2, <2>3, <3>1
  <2>6. ASSUME NEW l \in 1 .. n - 1, l - 1 \in good
        PROVE  l \in good
    <3>1. at(l - 1 + 1) = begin[i] + Elapsed(sp, l - 1) /\ l - 1 + 1 = l /\ l \in 1 .. n
      BY <2>2, <2>6
    <3>2. s[endTime(items[i][l])] = begin[i] + Elapsed(sp, l)
      <4> HIDE DEF sp, at
      <4>1. at(l) = begin[i] + Elapsed(sp, l - 1)
        BY <3>1
      <4>. QED  BY <2>4, <3>1, <4>1
    <3>3. Anchor(i, l + 1) = endTime(items[i][l])
      BY <1>7, <2>2 DEF Anchor
    <3>4. at(l + 1) = begin[i] + Elapsed(sp, l)
      BY <3>2, <3>3
    <3> HIDE DEF at, sp
    <3>. QED  BY <2>2, <3>4
  <2>7. k - 1 \in good
    <3> HIDE DEF good
    <3>1. \A l \in 0 .. n - 1 : l \in good
      BY <2>2, <2>5, <2>6, Upwards
    <3>. QED  BY <2>2, <3>1
  <2>8. at(k) = begin[i] + Elapsed(sp, k - 1)
    <3>1. k - 1 + 1 = k
      BY <2>2
    <3> HIDE DEF at, sp
    <3>. QED  BY <2>7, <3>1
  <2>9. k - 1 \in 0 .. n /\ k \in 0 .. n
    BY <2>2
  <2>. QED  BY <2>3, <2>4, <2>8, <2>9
<1>8. ASSUME NEW i \in Item, IsContainer(i), Class[i] # "seq", NEW k \in 1 .. Len(items[i])
      PROVE  /\ s[Anchor(i, k)] = begin[i]
             /\ s[endTime(items[i][k])] = begin[i] + spans(i)[k]
  <2> DEFINE j == items[i][k]
             span == spans(i)[k]
  <2>1. s[Anchor(i, k)] = begin[i] /\ begin[i] \in Nat
    BY <1>4, <1>8 DEF Anchor
  <2>2. /\ j \in Item /\ span = s[offsetTime(j)] + len[j]
        /\ s[startTime(j)] = begin[i] + s[offsetTime(j)]
    BY <1>6, <1>8, <2>1
  <2> HIDE DEF j, span
  <2>3. s[endTime(j)] = s[startTime(j)] + len[j] /\ len[j] \in Nat /\ s[offsetTime(j)] \in Nat
    BY <1>4, <2>2
  <2>4. s[endTime(j)] = begin[i] + span
    BY <2>1, <2>2, <2>3
  <2>. QED  BY <2>1, <2>4 DEF j, span
<1>9. ASSUME NEW i \in Item
      PROVE  len[i] = LengthOf(ch, len, i)
  <2> DEFINE n == Len(items[i])
             sp == spans(i)
  <2>1. CASE Class[i] = "seq"
    <3>1. IsContainer(i) /\ s[endTime(i)] = s[endTime(items[i][n])]
      BY <2>1 DEF IsContainer, IsTimeline
    <3>2. n \in 1 .. n
      <4>1. n \in Nat \ {0}
        BY <1>6, <3>1
      <4> HIDE DEF n
      <4>. QED  BY <4>1
    <3>3. s[endTime(i)] = begin[i] + Elapsed(sp, n) /\ Elapsed(sp, n) \in Nat
      BY <1>7, <2>1, <3>1, <3>2
    <3>4. LengthOf(ch, len, i) = Elapsed(sp, n)
      BY <2>1 DEF LengthOf
    <3>5. s[endTime(i)] = begin[i] + len[i] /\ begin[i] \in Nat /\ len[i] \in Nat
      BY <1>4
    <3> HIDE DEF sp, n
    <3>. QED  BY <3>3, <3>4, <3>5
  <2>2. CASE Class[i] = "sim"
    <3> DEFINE T == {sp[k] : k \in 1 .. n}
    <3>1. IsContainer(i) /\ LatestEnd(s, i, n, s[endTime(i)])
      BY <2>2 DEF IsContainer, IsTimeline
    <3>2. n \in Nat \ {0} /\ sp \in [1 .. n -> Nat]
      BY <1>6, <3>1
    <3>3. \A k \in 1 .. n : s[endTime(items[i][k])] = begin[i] + sp[k]
      BY <1>8, <2>2, <3>1
    <3>4. s[endTime(i)] = begin[i] + len[i] /\ begin[i] \in Nat /\ len[i] \in Nat
      BY <1>4
    <3>5. LengthOf(ch, len, i) = Latest(T)
      BY <2>2 DEF LengthOf
    <3> HIDE DEF sp
    <3>6. \A k \in 1 .. n : sp[k] \in Nat
      BY <3>2
    <3>7. PICK k \in 1 .. n : s[endTime(i)] = s[endTime(items[i][k])]
      BY <3>1 DEF LatestEnd
    <3>8. len[i] = sp[k]
      BY <3>3, <3>4, <3>6, <3>7
    <3>9. \A l \in 1 .. n : sp[l] <= len[i]
      <4>1. \A l \in 1 .. n : s[endTime(items[i][l])] <= s[endTime(i)]
        BY <3>1 DEF LatestEnd
      <4>. QED  BY <3>3, <3>4, <3>6, <4>1
    <3>10. T \in SUBSET Nat /\ len[i] \in {0} \cup T /\ \A t \in T : t <= len[i]
      BY <3>6, <3>8, <3>9
    <3>11. Latest(T) = len[i]
      <4> HIDE DEF T
      <4> DEFINE m == len[i]
      <4>1. m \in {0} \cup T /\ \A t \in T : t <= m
        BY <3>10
      <4> HIDE DEF m
      <4>2. Latest(T) = m
        BY <3>10, <4>1, LatestIs
      <4>. QED  BY <4>2 DEF m
    <3>. QED  BY <3>5, <3>11
  <2>3. CASE ~IsContainer(i)
    <3>1. LengthOf(ch, len, i) = ch[duration(i)]
      BY <2>3 DEF LengthOf, IsContainer
    <3>. QED  BY <1>1, <1>4, <2>3, <3>1, FreeOnes
  <2>. QED  BY <2>1, <2>2, <2>3, ConstantsAssumption DEF IsContainer
<1>10. Lengths(ch) = len
  <2> DEFINE F(i) == LengthOf(ch, len, i)
             v(i) == len[i]
  <2>1. len = [i \in Item |-> v(i)] /\ \A i \in Item : v(i) = F(i)
    BY <1>5, <1>9
  <2>2. len = [i \in Item |-> F(i)]
    <3> HIDE DEF F, v
    <3>. QED  BY <2>1
  <2>3. Lengths(ch) = [i \in Item |-> LengthOf(ch, Lengths(ch), i)]
    BY <1>1, LengthsAre
  <2>. QED  BY <2>2, <2>3, LengthsUnique
<1>11. ASSUME NEW i \in Item
       PROVE  begin[i] = BeginOf(ch, len, begin, i)
  <2>1. CASE i = top
    <3>1. ch[startTime(top)] = s[startTime(top)]
      BY <1>1, <2>1, FreeOnes
    <3>. QED  BY <1>4, <2>1, <3>1 DEF BeginOf
  <2>2. CASE i # top
    <3> DEFINE c == Container(i)
               k == Index(i)
    <3>1. /\ c \in Item /\ k \in 1 .. Len(items[c]) /\ items[c][k] = i /\ IsContainer(c)
      BY <2>2, Place
    <3> HIDE DEF c, k
    <3>2. begin[i] = s[Anchor(c, k)] + s[offsetTime(i)]
      BY <1>4, <1>6, <3>1
    <3>3. begin[c] \in Nat /\ s[offsetTime(i)] \in Nat /\ s[offsetTime(i)] = ch[offsetTime(i)]
      BY <1>2, <1>4, <3>1
    <3>4. BeginOf(ch, len, begin, i) = begin[c] + ch[offsetTime(i)]
            + (IF Class[c] = "seq" THEN Elapsed(spans(c), k - 1) ELSE 0)
      BY <2>2 DEF BeginOf, c, k
    <3> HIDE DEF spans
    <3>5. CASE Class[c] = "seq"
      <4>1. s[Anchor(c, k)] = begin[c] + Elapsed(spans(c), k - 1) /\ Elapsed(spans(c), k - 1) \in Nat
        BY <1>7, <3>1, <3>5 DEF spans
      <4>. QED  BY <3>2, <3>3, <3>4, <3>5, <4>1
    <3>6. CASE Class[c] # "seq"
      <4>1. s[Anchor(c, k)] = begin[c]
        BY <1>8, <3>1, <3>6
      <4>. QED  BY <3>2, <3>3, <3>4, <3>6, <4>1
    <3>. QED  BY <3>5, <3>6
  <2>. QED  BY <2>1, <2>2
<1>12. Begins(ch) = begin
  <2> DEFINE F(i) == BeginOf(ch, len, begin, i)
             v(i) == begin[i]
  <2>1. begin = [i \in Item |-> v(i)] /\ \A i \in Item : v(i) = F(i)
    BY <1>5, <1>11
  <2>2. begin = [i \in Item |-> F(i)]
    <3> HIDE DEF F, v
    <3>. QED  BY <2>1
  <2>3. \A g : g = [i \in Item |-> BeginOf(ch, len, g, i)] => g = Begins(ch)
    BY <1>1, <1>10, BeginsAre
  <2>. QED  BY <2>2, <2>3
<1> DEFINE t == Layout(ch)
<1>13. /\ \A i \in Item : /\ t[startTime(i)] = begin[i] /\ t[duration(i)] = len[i]
                          /\ t[endTime(i)] = begin[i] + len[i]
       /\ \A p \in FreeParam : p \in Param => t[p] = ch[p]
       /\ \A i \in Item : \A k \in Partial(i) :
            t[<<i, "partial", k>>] = Latest({begin[items[i][j]] + len[items[i][j]] : j \in 1 .. k})
  BY <1>1, <1>10, <1>12, LayoutIs
<1>14. t \in [Param -> Nat]
  BY <1>1, LayoutIsTimeline
<1> HIDE DEF t
<1>15. ASSUME NEW i \in Item, NEW k \in Partial(i)
       PROVE  t[<<i, "partial", k>>] = s[<<i, "partial", k>>]
  <2> DEFINE m == s[<<i, "partial", k>>]
             T == {begin[items[i][j]] + len[items[i][j]] : j \in 1 .. k}
  <2>1. Class[i] = "sim" /\ IsContainer(i) /\ k \in 2 .. Len(items[i]) - 1
    BY <1>15 DEF Partial, IsContainer
  <2>2. LatestEnd(s, i, k, m)
    BY <2>1 DEF IsTimeline
  <2>3. Len(items[i]) \in Nat
    BY <1>6, <2>1
  <2>4. \A j \in 1 .. k : j \in 1 .. Len(items[i])
    BY <2>1, <2>3
  <2>5. \A j \in 1 .. k : /\ items[i][j] \in Item
                          /\ s[endTime(items[i][j])] = begin[items[i][j]] + len[items[i][j]]
                          /\ begin[items[i][j]] + len[items[i][j]] \in Nat
    <3>1. \A j \in 1 .. k : items[i][j] \in Item
      BY <1>6, <2>1, <2>4
    <3>. QED  BY <1>4, <3>1
  <2> HIDE DEF m
  <2>6. PICK j \in 1 .. k : m = s[endTime(items[i][j])]
    BY <2>2 DEF LatestEnd
  <2>7. T \in SUBSET Nat /\ m \in {0} \cup T /\ \A u \in T : u <= m
    BY <2>2, <2>5, <2>6 DEF LatestEnd
  <2>8. Latest(T) = m
    <3> HIDE DEF T
    <3>. QED  BY <2>7, LatestIs
  <2>. QED  BY <1>13, <2>8 DEF m
<1>16. ASSUME NEW p \in Param
       PROVE  t[p] = s[p]
  <2>1. CASE p \in FreeParam
    BY <1>1, <1>13, <2>1
  <2>2. CASE p \notin FreeParam
    <3>1. PICK i \in Item : \/ p = startTime(i) /\ i # top
                            \/ p = duration(i) /\ IsContainer(i)
                            \/ p = endTime(i)
                            \/ \E k \in Partial(i) : p = <<i, "partial", k>>
      BY <2>2, BoundOnes
    <3>. QED  BY <1>4, <1>13, <1>15, <3>1
  <2>. QED  BY <2>1, <2>2
<1>17. s = t
  BY <1>14, <1>16
<1>. QED  BY <1>1, <1>17 DEF t

(* The choices are the values that the initial domains leave.              *)
LEMMA InitFDTyped ==
  ASSUME NEW p \in Param
  PROVE  InitFD(p) \in SUBSET FDRange
<1>1. [q \in Param |-> InitFD(q)] \in [Param -> SUBSET FDRange]
  BY InitialStore DEF Store
<1> DEFINE d(q) == InitFD(q)
<1>2. [q \in Param |-> d(q)][p] \in SUBSET FDRange
  BY <1>1
<1> HIDE DEF d
<1>3. d(p) \in SUBSET FDRange
  BY <1>2
<1>. QED  BY <1>3 DEF d

LEMMA GivenIsSingle ==
  ASSUME NEW p \in Given
  PROVE  InitFD(p) = {ReflectMin(InitFD(p))}
<1> DEFINE D == InitFD(p)
<1>1. D \in SUBSET FDRange /\ Cardinality(D) = 1
  BY FreeAreParams, InitFDTyped DEF Given
<1> HIDE DEF D
<1>2. IsFiniteSet(D)
  BY <1>1, FiniteDomain
<1>3. PICK v : D = {v}
  BY <1>1, <1>2, FS_Singleton
<1>4. D # {}
  BY <1>3
<1>5. ReflectMin(D) \in D
  BY <1>1, <1>4, ReflectBounds
<1>6. D = {ReflectMin(D)}
  BY <1>3, <1>5
<1>. QED  BY <1>6 DEF D

LEMMA ChoicesAre ==
  /\ \A ch \in FreeChoices : /\ ch \in [FreeParam -> Nat]
                             /\ \A p \in FreeParam : ch[p] \in InitFD(p)
  /\ \A ch \in [FreeParam -> Nat] :
       (\A p \in FreeParam : ch[p] \in InitFD(p)) => ch \in FreeChoices
<1> DEFINE loose == FreeParam \ Given
           all == UNION {InitFD(p) : p \in loose}
           choices == {ch \in [loose -> all] : \A p \in loose : ch[p] \in InitFD(p)}
           full(ch) == [p \in FreeParam |-> IF p \in loose THEN ch[p] ELSE ReflectMin(InitFD(p))]
<1>1. FreeChoices = {full(ch) : ch \in choices}
  BY DEF FreeChoices
<1>2. FDRange \subseteq Nat
  BY ConstantsAssumption DEF FDRange
<1>3. ASSUME NEW p \in FreeParam
      PROVE  InitFD(p) \subseteq Nat
  BY <1>2, <1>3, FreeAreParams, InitFDTyped
<1>4. \A p \in Given : InitFD(p) = {ReflectMin(InitFD(p))}
  BY GivenIsSingle
<1>5. ASSUME NEW ch \in FreeChoices
      PROVE  ch \in [FreeParam -> Nat] /\ \A p \in FreeParam : ch[p] \in InitFD(p)
  <2>1. PICK some \in choices : ch = full(some)
    BY <1>1
  <2>2. \A p \in FreeParam : (IF p \in loose THEN some[p] ELSE ReflectMin(InitFD(p))) \in InitFD(p)
    BY <1>4, <2>1
  <2> DEFINE v(p) == IF p \in loose THEN some[p] ELSE ReflectMin(InitFD(p))
  <2>3. ch = [p \in FreeParam |-> v(p)] /\ \A p \in FreeParam : v(p) \in InitFD(p)
    BY <2>1, <2>2
  <2> HIDE DEF v
  <2>. QED  BY <1>3, <2>3
<1>6. ASSUME NEW ch \in [FreeParam -> Nat], \A p \in FreeParam : ch[p] \in InitFD(p)
      PROVE  ch \in FreeChoices
  <2> DEFINE some == [p \in loose |-> ch[p]]
  <2>1. some \in choices
    <3>1. \A p \in loose : some[p] \in InitFD(p) /\ some[p] \in all
      BY <1>6
    <3> HIDE DEF all
    <3>2. some \in [loose -> all]
      BY <3>1
    <3>. QED  BY <3>1, <3>2
  <2>2. \A p \in FreeParam : ch[p] = IF p \in loose THEN some[p] ELSE ReflectMin(InitFD(p))
    BY <1>4, <1>6
  <2> DEFINE v(p) == IF p \in loose THEN some[p] ELSE ReflectMin(InitFD(p))
  <2>3. ch = [p \in FreeParam |-> v(p)]
    <3>1. \A p \in FreeParam : ch[p] = v(p)
      BY <2>2
    <3> HIDE DEF v
    <3>. QED  BY <3>1
  <2>4. ch = full(some)
    BY <2>3
  <2> HIDE DEF full, choices, some
  <2>. QED  BY <1>1, <2>1, <2>4
<1>. QED  BY <1>5, <1>6

(* The assignments that solve the problem of the score are the time lines  *)
(* in the initial domains that obey the rules, no more and no fewer: what  *)
(* constrainTiming tells means what the classes promise.  In particular    *)
(* the layouts may serve as the candidates of the properties.              *)
THEOREM SolutionsAreTimelines ==
  ASSUME WellFormedScore, TreeScore
  PROVE  {s \in [Param -> FDRange] : IsSolution(s)}
           = {s \in Layouts : /\ \A p \in Param : s[p] \in InitFD(p)
                              /\ \A c \in Rules : Holds(s, c)}
<1>1. FDRange \subseteq Nat
  BY ConstantsAssumption DEF FDRange
<1>2. ASSUME NEW s \in [Param -> FDRange], IsSolution(s)
      PROVE  s \in Layouts
  <2> DEFINE ch == [p \in FreeParam |-> s[p]]
  <2>1. s \in [Param -> Nat]
    BY <1>1
  <2>2. IsTimeline(s)
    BY <1>2, <2>1, HoldingIsTimeline DEF IsSolution
  <2>3. ch \in [FreeParam -> Nat] /\ s = Layout(ch)
    BY <2>1, <2>2, TimelineIsLayout
  <2>4. \A p \in FreeParam : ch[p] \in InitFD(p)
    BY <1>2, FreeAreParams DEF IsSolution
  <2> HIDE DEF ch
  <2>5. ch \in FreeChoices
    BY <2>3, <2>4, ChoicesAre
  <2>. QED  BY <2>3, <2>5 DEF Layouts
<1>3. ASSUME NEW s \in Layouts, \A p \in Param : s[p] \in InitFD(p),
             \A c \in Rules : Holds(s, c)
      PROVE  s \in [Param -> FDRange] /\ IsSolution(s)
  <2>1. PICK ch \in FreeChoices : s = Layout(ch)
    BY DEF Layouts
  <2>2. ch \in [FreeParam -> Nat]
    BY ChoicesAre
  <2>3. s \in [Param -> Nat] /\ IsTimeline(s)
    BY <2>1, <2>2, LayoutIsTimeline
  <2>4. \A c \in TimingConstraints : Holds(s, c)
    BY <2>3, TimelineHolds
  <2>5. \A p \in Param : s[p] \in FDRange
    BY <1>3, InitFDTyped
  <2>. QED  BY <1>3, <2>3, <2>4, <2>5 DEF IsSolution
<1>4. ASSUME NEW s, IsSolution(s)
      PROVE  (\A p \in Param : s[p] \in InitFD(p)) /\ \A c \in Rules : Holds(s, c)
  BY <1>4 DEF IsSolution
<1>. QED  BY <1>2, <1>3, <1>4

(* The engine stops exhausted only when no alternative is left.            *)
LEMMA ExhaustedStep ==
  ASSUME status = "exhausted" => stack = << >>, [Next]_vars
  PROVE  status' = "exhausted" => stack' = << >>
<1>1. CASE Fail \/ Succeed
  BY <1>1 DEF Fail, Succeed, Backtrack, Stable
<1>2. CASE ~Fail /\ ~Succeed
  BY <1>2 DEF Next, Step, Terminated, vars, InitDomains, Tell, Distribute, Propagate, Choose,
              Stable, Running
<1>. QED  BY <1>1, <1>2

(* An exhausted search has found exactly the time lines of the score that  *)
(* lie in the initial domains and obey the rules: it has lost none of them *)
(* to propagation or to a choice, and what it returns is one of them.      *)
THEOREM TimelinesFound ==
  ASSUME WellFormedScore, TreeScore, CandidatesSuffice
  PROVE  Spec => []FindsAllTimelines
<1> SUFFICES Spec => []FindsAllTimelines
  OBVIOUS
<1> DEFINE Inv == status = "exhausted" => stack = << >>
<1>1. Init => Inv
  BY DEF Init
<1>2. Inv /\ [Next]_vars => Inv'
  BY ExhaustedStep
<1>3. Spec => []SolutionSound
  BY Soundness
<1>4. Inv /\ SolutionSound /\ NoSolutionLost => FindsAllTimelines
  <2> DEFINE delivered == {Assignment(found[k]) : k \in DOMAIN found}
             timelines == {s \in Layouts : /\ \A p \in Param : s[p] \in InitFD(p)
                                           /\ \A c \in Rules : Holds(s, c)}
  <2>0. FindsAllTimelines <=> (status = "exhausted" => delivered = timelines)
    BY DEF FindsAllTimelines
  <2> SUFFICES ASSUME status = "exhausted", Inv, SolutionSound, NoSolutionLost
               PROVE  delivered = timelines
    <3> HIDE DEF delivered, timelines
    <3>. QED  BY <2>0
  <2>1. \A s \in Solutions : \E k \in DOMAIN found : InStore(s, found[k])
    BY DEF NoSolutionLost, Open
  <2>2. \A k \in DOMAIN found : \E s \in Solutions : \A p \in Param : found[k][p] = {s[p]}
    BY DEF SolutionSound
  <2>3. delivered = Solutions
    BY <2>1, <2>2, AllDelivered
  <2>4. Solutions = {s \in [Param -> FDRange] : IsSolution(s)}
    BY DEF Solutions, CandidatesSuffice
  <2>5. timelines = {s \in [Param -> FDRange] : IsSolution(s)}
    BY SolutionsAreTimelines
  <2>. QED  BY <2>3, <2>4, <2>5
<1>. QED  BY <1>1, <1>2, <1>3, <1>4, Completeness, PTL DEF Spec
=============================================================================
