--------------------------- MODULE OscKit_proofs ---------------------------
(***************************************************************************)
(* Theorems about three parts of the OSC kit: OscAddressSpace, for any     *)
(* names and any sizes of its pools and lists, OscTimeTag, for words of    *)
(* any width, any clock and any offsets, and OscStrings, for any bytes.    *)
(***************************************************************************)
EXTENDS OscAddressSpace, OscTimeTag, OscStringBlocks, FiniteSetTheorems, SequenceTheorems, WellFoundedInduction, TLAPS

-----------------------------------------------------------------------------
(* Numbers: the least one of a set, induction, and recursion.              *)

(* A set of numbers that is not empty has a least one.                     *)
LEMMA LeastNatural ==
  ASSUME NEW T \in SUBSET Nat, T # {}
  PROVE  \E x \in T : \A y \in T : x <= y
<1>. DEFINE R == OpToRel(<, Nat)
<1>1. \E x \in T : \A y \in T : <<y, x>> \notin R
  <2>. HIDE DEF R
  <2>1. IsWellFoundedOn(R, Nat)
    BY NatLessThanWellFounded DEF R
  <2>. QED  BY <2>1, WFMin
<1>2. R = {p \in Nat \X Nat : p[1] < p[2]}
  BY DEF OpToRel
<1>. HIDE DEF R
<1>3. ASSUME NEW x \in T, NEW y \in T, <<y, x>> \notin R
      PROVE  x <= y
  BY <1>2, <1>3
<1>. QED  BY <1>1, <1>3

(* A set that holds 0, and with a number the next one, up to n.            *)
LEMMA Upwards ==
  ASSUME NEW n \in Nat, NEW T, 0 \in T,
         \A k \in 1 .. n : k - 1 \in T => k \in T
  PROVE  \A k \in 0 .. n : k \in T
<1>. SUFFICES ASSUME NEW m \in 0 .. n, m \notin T
              PROVE  FALSE
  OBVIOUS
<1>. DEFINE Missing == {k \in 0 .. n : k \notin T}
<1>1. Missing \in SUBSET Nat /\ m \in Missing
  OBVIOUS
<1>. HIDE DEF Missing
<1>2. PICK k \in Missing : \A j \in Missing : k <= j
  BY <1>1, LeastNatural
<1>3. k \in 0 .. n /\ k \notin T
  BY <1>2 DEF Missing
<1>4. k # 0 /\ k - 1 \in 0 .. n
  BY <1>3
<1>5. k - 1 \in T
  BY <1>2, <1>3, <1>4 DEF Missing
<1>. QED  BY <1>3, <1>4, <1>5

(* There is a function that starts with base and goes on with step.        *)
GoesOn(f, n, base, step) ==
    f[0] = base /\ \A k \in 1 .. n : f[k] = step[k][f[k - 1]]

LEMMA Recursion ==
  ASSUME NEW n \in Nat, NEW S, NEW base \in S, NEW step \in [1 .. n -> [S -> S]]
  PROVE  \E f \in [0 .. n -> S] : GoesOn(f, n, base, step)
<1>. DEFINE Upto(m, f) ==
              f \in [0 .. m -> S] /\ f[0] = base /\ \A k \in 1 .. m : f[k] = step[k][f[k - 1]]
            Defined == {m \in 0 .. n : \E f : Upto(m, f)}
<1>1. 0 \in Defined
  <2>1. Upto(0, [k \in 0 .. 0 |-> base])
    OBVIOUS
  <2>. HIDE DEF Upto
  <2>. QED  BY <2>1
<1>2. ASSUME NEW k \in 1 .. n, k - 1 \in Defined
      PROVE  k \in Defined
  <2>1. PICK f : Upto(k - 1, f)
    BY <1>2
  <2>. DEFINE g == [j \in 0 .. k |-> IF j < k THEN f[j] ELSE step[k][f[k - 1]]]
  <2>2. f[k - 1] \in S /\ step[k][f[k - 1]] \in S
    BY <2>1
  <2>3. g \in [0 .. k -> S] /\ g[0] = base
    BY <2>1, <2>2
  <2>4. \A j \in 1 .. k : g[j] = step[j][g[j - 1]]
    BY <2>1
  <2>5. Upto(k, g)
    BY <2>3, <2>4
  <2>. HIDE DEF Upto, g
  <2>. QED  BY <2>5
<1>. HIDE DEF Defined
<1>3. \A k \in 0 .. n : k \in Defined
  <2>1. \A k \in 1 .. n : k - 1 \in Defined => k \in Defined
    BY <1>2
  <2>. QED  BY <1>1, <2>1, Upwards
<1>4. n \in Defined
  BY <1>3
<1>. QED  BY <1>4 DEF Defined, GoesOn

-----------------------------------------------------------------------------
(* The inductive invariant of the address space.                           *)

ContainerEntry == [name : Names, child : Container]
MethodEntry == [name : Names, method : Method]

\* Pools are numbered from 1, in the order of their batches.
Numbered(all) == Cardinality(all) \in Nat /\ all = 1 .. Cardinality(all)

PoolsOK ==
    /\ containers \subseteq Container /\ Numbered(containers) /\ extraContainers \in Nat
    /\ allMethods \subseteq Method /\ Numbered(allMethods) /\ extraMethods \in Nat
    /\ freeContainers \subseteq containers /\ freeMethods \subseteq allMethods

ListsOK ==
    /\ children \in [Container -> Seq(ContainerEntry)]
    /\ methods \in [Container -> Seq(MethodEntry)]
    /\ \A c \in Container : /\ Len(children[c]) <= MAX_CHILDREN_PER_CONTAINER
                            /\ Len(methods[c]) <= MAX_METHODS_PER_CONTAINER

(* The tree has been set up from the root with containers that are not     *)
(* free, and what has not been set up has no children yet.                 *)
Rooted ==
    /\ Top \in DOMAIN parent /\ DOMAIN parent \subseteq containers \cup {Top}
    /\ DOMAIN parent \cap freeContainers = {}
    /\ \A c \in DOMAIN parent \ {Top} : parent[c] \in DOMAIN parent
    /\ \A c \in Container \ DOMAIN parent : children[c] = <<>>

ChildrenOf(c) == {e \in ContainerEntry : e.child \in DOMAIN parent /\ parent[e.child] = c}

Hangs == \A c \in DOMAIN parent : children[c] \in Seq(ChildrenOf(c))

Owned ==
    \A c \in Container : \A i \in DOMAIN methods[c] :
        methods[c][i].method \in allMethods \ freeMethods

Once ==
    \A c, d \in Container : \A i \in DOMAIN methods[c], j \in DOMAIN methods[d] :
        methods[c][i].method = methods[d][j].method => c = d /\ i = j

SpaceInv == PoolsOK /\ ListsOK /\ Rooted /\ Hangs /\ Owned /\ Once

(* The parts say what the two properties ask for.                          *)
LEMMA SpaceInvTells ==
  ASSUME SpaceInv
  PROVE  SpaceTypeOK /\ NothingShared
<1>1. SpaceTypeOK
  BY DEF SpaceInv, PoolsOK, ListsOK, Rooted, SpaceTypeOK
<1>2. \A c \in DOMAIN parent : \A i \in DOMAIN children[c] :
        children[c][i].child \in DOMAIN parent /\ parent[children[c][i].child] = c
  <2>. SUFFICES ASSUME NEW c \in DOMAIN parent, NEW i \in DOMAIN children[c]
                PROVE  children[c][i] \in ChildrenOf(c)
    BY DEF ChildrenOf
  <2>1. children[c] \in Seq(ChildrenOf(c))
    BY DEF SpaceInv, Hangs
  <2>. QED  BY <2>1, ElementOfSeq
<1>3. \A c, d \in Container : \A i \in DOMAIN methods[c], j \in DOMAIN methods[d] :
          /\ methods[c][i].method \notin freeMethods
          /\ methods[c][i].method = methods[d][j].method => c = d /\ i = j
  <2>1. Owned /\ Once
    BY DEF SpaceInv
  <2>. QED  BY <2>1 DEF Owned, Once
<1>4. DOMAIN parent \cap freeContainers = {}
  BY DEF SpaceInv, Rooted
<1>. QED  BY <1>1, <1>2, <1>3, <1>4 DEF NothingShared

(* It holds initially.                                                     *)
LEMMA SpaceInvInit ==
  ASSUME SpaceAssumption, SpaceInit
  PROVE  SpaceInv
<1>. USE DEF SpaceInit, OSCInitAddressSpace, SpaceAssumption
<1>1. Cardinality(1 .. InitContainers) = InitContainers /\ Cardinality(1 .. InitMethods) = InitMethods
  BY FS_Interval
<1>2. PoolsOK
  BY <1>1 DEF PoolsOK, Numbered, Container, Method
<1>3. ListsOK
  BY DEF ListsOK
<1>4. Rooted
  BY DEF Rooted, Top, Container
<1>5. Hangs
  BY DEF Hangs, Top, Container
<1>6. Owned /\ Once
  BY DEF Owned, Once
<1>. QED  BY <1>2, <1>3, <1>4, <1>5, <1>6 DEF SpaceInv

-----------------------------------------------------------------------------
(* The allocators.                                                         *)

(* Least chooses an element.                                               *)
LEMMA LeastIsElement ==
  ASSUME NEW T \in SUBSET Nat, T # {}
  PROVE  Least(T) \in T
BY LeastNatural DEF Least

(* A batch is not empty, has numbers that were not there, and goes on      *)
(* where the others end.                                                   *)
LEMMA BatchGoesOn ==
  ASSUME SpaceAssumption, NEW all, Numbered(all), NEW extra \in Nat
  PROVE  /\ Batch(all, extra) # {} /\ Batch(all, extra) \subseteq Nat \ {0}
         /\ Batch(all, extra) \cap all = {}
         /\ Numbered(all \cup Batch(all, extra))
<1>. DEFINE n == Cardinality(all)
            m == BASE_NUM_TO_REALLOCATE * (extra + 1)
<1>1. m \in Nat /\ m > 0
  BY DEF SpaceAssumption
<1>2. n \in Nat /\ all = 1 .. n
  BY DEF Numbered
<1>3. Batch(all, extra) = n + 1 .. n + m
  BY DEF Batch
<1>. HIDE DEF n, m
<1>4. all \cup (n + 1 .. n + m) = 1 .. n + m
  BY <1>1, <1>2
<1>5. Cardinality(1 .. n + m) = n + m
  BY <1>1, <1>2, FS_Interval
<1>6. Numbered(1 .. n + m)
  <2>. DEFINE A == 1 .. n + m
  <2>1. Cardinality(A) = n + m /\ A = 1 .. n + m /\ n + m \in Nat
    BY <1>1, <1>2, <1>5
  <2>. HIDE DEF A
  <2>2. Numbered(A)
    BY <2>1 DEF Numbered
  <2>. QED  BY <2>2 DEF A
<1>7. Numbered(all \cup Batch(all, extra))
  <2>1. all \cup Batch(all, extra) = 1 .. n + m
    BY <1>3, <1>4
  <2>. QED  BY <1>6, <2>1
<1>8. (n + 1 .. n + m) # {} /\ (n + 1 .. n + m) \subseteq Nat \ {0} /\ (n + 1 .. n + m) \cap all = {}
  BY <1>1, <1>2
<1>. QED  BY <1>3, <1>7, <1>8

(* AllocContainer hands out a container that is not in the tree.           *)
LEMMA ContainerAllocated ==
  ASSUME SpaceAssumption, PoolsOK, Rooted, NEW me, AllocContainer(me)
  PROVE  /\ me \in containers' \ freeContainers' /\ me # Top /\ me \notin DOMAIN parent
         /\ containers \subseteq containers' /\ containers' \subseteq Container
         /\ Numbered(containers') /\ extraContainers' \in Nat
         /\ freeContainers' \subseteq containers'
         /\ DOMAIN parent \cap freeContainers' = {}
<1>1. containers \subseteq Nat \ {0} /\ 0 \notin containers
  BY DEF PoolsOK, Numbered
<1>2. CASE freeContainers # {}
  <2>1. me = Least(freeContainers) /\ freeContainers' = freeContainers \ {me}
        /\ UNCHANGED <<containers, extraContainers>>
    BY <1>2 DEF AllocContainer
  <2>2. me \in freeContainers
    BY <1>1, <1>2, <2>1, LeastIsElement DEF PoolsOK
  <2>. QED  BY <1>1, <2>1, <2>2 DEF PoolsOK, Rooted, Top
<1>3. CASE freeContainers = {}
  <2>. DEFINE B == Batch(containers, extraContainers)
  <2>1. /\ B \subseteq Container /\ me = Least(B) /\ containers' = containers \cup B
        /\ freeContainers' = B \ {me} /\ extraContainers' = extraContainers + 1
    BY <1>3 DEF AllocContainer
  <2>2. /\ B # {} /\ B \subseteq Nat \ {0} /\ B \cap containers = {}
        /\ Numbered(containers \cup B)
    BY BatchGoesOn DEF PoolsOK
  <2>. HIDE DEF B
  <2>3. me \in B
    BY <2>1, <2>2, LeastIsElement
  <2>4. Numbered(containers')
    BY <2>1, <2>2
  <2>. QED  BY <1>1, <2>1, <2>2, <2>3, <2>4 DEF PoolsOK, Rooted, Top
<1>. QED  BY <1>2, <1>3

(* AllocMethod hands out a method that belongs to no container.            *)
LEMMA MethodAllocated ==
  ASSUME SpaceAssumption, PoolsOK, NEW m, AllocMethod(m)
  PROVE  /\ m \in allMethods' \ freeMethods' /\ m \notin allMethods \ freeMethods
         /\ allMethods \ freeMethods \subseteq allMethods' \ freeMethods'
         /\ allMethods' \subseteq Method /\ Numbered(allMethods') /\ extraMethods' \in Nat
         /\ freeMethods' \subseteq allMethods'
<1>1. allMethods \subseteq Nat
  BY DEF PoolsOK, Numbered
<1>2. CASE freeMethods # {}
  <2>1. m = Least(freeMethods) /\ freeMethods' = freeMethods \ {m}
        /\ UNCHANGED <<allMethods, extraMethods>>
    BY <1>2 DEF AllocMethod
  <2>2. m \in freeMethods
    BY <1>1, <1>2, <2>1, LeastIsElement DEF PoolsOK
  <2>. QED  BY <2>1, <2>2 DEF PoolsOK
<1>3. CASE freeMethods = {}
  <2>. DEFINE B == Batch(allMethods, extraMethods)
  <2>1. /\ B \subseteq Method /\ m = Least(B) /\ allMethods' = allMethods \cup B
        /\ freeMethods' = B \ {m} /\ extraMethods' = extraMethods + 1
    BY <1>3 DEF AllocMethod
  <2>2. /\ B # {} /\ B \subseteq Nat \ {0} /\ B \cap allMethods = {}
        /\ Numbered(allMethods \cup B)
    BY BatchGoesOn DEF PoolsOK
  <2>. HIDE DEF B
  <2>3. m \in B
    BY <2>1, <2>2, LeastIsElement
  <2>4. Numbered(allMethods')
    BY <2>1, <2>2
  <2>. QED  BY <1>3, <2>1, <2>2, <2>3, <2>4 DEF PoolsOK
<1>. QED  BY <1>2, <1>3

-----------------------------------------------------------------------------
(* The loop of OSCRemoveContainerAlias.                                    *)

(* An entry less, or half of them, but none that was not in the list.      *)
LEMMA RemovedAt ==
  ASSUME NEW S, NEW list \in Seq(S), NEW i \in DOMAIN list
  PROVE  RemovalAt(list, i) \in Seq(S) /\ Len(RemovalAt(list, i)) <= Len(list)
<1>. DEFINE turns == (Len(list) - i + 1) \div 2
            m == Len(list) - turns
<1>1. Len(list) \in Nat /\ i \in 1 .. Len(list) /\ \A k \in 1 .. Len(list) : list[k] \in S
  BY ElementOfSeq
<1>2. turns \in Nat /\ turns <= Len(list) - i + 1 /\ (turns = 0 => i = Len(list))
  BY <1>1
<1>3. turns <= Len(list) - i \/ turns = 0
  BY <1>1
<1>. HIDE DEF turns
<1>4. m \in Nat /\ m <= Len(list)
  BY <1>1, <1>2
<1>5. ASSUME NEW k \in 1 .. m
      PROVE  (IF k \in i .. i + turns - 1 THEN list[k + 1] ELSE list[k]) \in S
  <2>1. CASE k \in i .. i + turns - 1
    <3>1. k + 1 \in 1 .. Len(list)
      BY <1>1, <1>2, <1>4, <2>1
    <3>. QED  BY <1>1, <2>1, <3>1
  <2>2. CASE k \notin i .. i + turns - 1
    <3>1. k \in 1 .. Len(list)
      BY <1>1, <1>4
    <3>. QED  BY <1>1, <2>2, <3>1
  <2>. QED  BY <2>1, <2>2
<1>6. RemovalAt(list, i) = [k \in 1 .. m |-> IF k \in i .. i + turns - 1 THEN list[k + 1] ELSE list[k]]
  BY DEF RemovalAt, turns
<1>. HIDE DEF m
<1>7. RemovalAt(list, i) \in [1 .. m -> S]
  BY <1>5, <1>6
<1>. QED  BY <1>4, <1>7

\* What a turn of the loop leaves of a list with n entries.
Left(S, n) == [list : {l \in Seq(S) : Len(l) <= n}, fatal : BOOLEAN]

LEMMA TurnTaken ==
  ASSUME NEW S, NEW n \in Nat, NEW r \in Left(S, n), NEW i, NEW c, NEW otherName
  PROVE  AtSlot(r, i, c, otherName) \in Left(S, n)
<1>. DEFINE l == r.list
<1>1. l \in Seq(S) /\ Len(l) <= n /\ Len(l) \in Nat
  BY DEF Left
<1>2. CASE r.fatal \/ i \notin DOMAIN r.list \/ r.list[i].name # otherName
  BY <1>2 DEF AtSlot
<1>3. CASE ~(r.fatal \/ i \notin DOMAIN r.list \/ r.list[i].name # otherName) /\ r.list[i].child = c
  <2>1. AtSlot(r, i, c, otherName) = [r EXCEPT !.list = RemovalAt(l, i)] /\ i \in DOMAIN l
    BY <1>3 DEF AtSlot, Left
  <2>. DEFINE v == RemovalAt(l, i)
  <2>. HIDE DEF l
  <2>2. v \in Seq(S) /\ Len(v) <= Len(l) /\ Len(v) \in Nat
    BY <1>1, <2>1, RemovedAt
  <2>. HIDE DEF v
  <2>3. [r EXCEPT !.list = v] \in Left(S, n)
    BY <1>1, <2>2 DEF Left
  <2>. QED  BY <2>1, <2>3 DEF v
<1>4. CASE ~(r.fatal \/ i \notin DOMAIN r.list \/ r.list[i].name # otherName) /\ r.list[i].child # c
  <2>1. AtSlot(r, i, c, otherName) = [r EXCEPT !.fatal = TRUE]
    BY <1>4 DEF AtSlot
  <2>. QED  BY <2>1 DEF Left
<1>. QED  BY <1>2, <1>3, <1>4

(* What is left is a shorter list of what was there.                       *)
LEMMA OnlyRemoved ==
  ASSUME NEW S, NEW list \in Seq(S), NEW c, NEW otherName
  PROVE  /\ AliasRemoved(list, c, otherName).list \in Seq(S)
         /\ Len(AliasRemoved(list, c, otherName).list) <= Len(list)
<1>. DEFINE n == Len(list)
            R == Left(S, n)
            One(r, k) == AtSlot(r, k, c, otherName)
            base == [list |-> list, fatal |-> FALSE]
            Loop(g) == g = [k \in 0 .. n |-> IF k = 0 THEN base ELSE One(g[k - 1], k)]
            upTo == CHOOSE g : Loop(g)
<1>1. AliasRemoved(list, c, otherName) = upTo[n]
  BY DEF AliasRemoved
<1>2. n \in Nat
  OBVIOUS
<1>3. base \in R
  BY DEF Left
<1>4. ASSUME NEW k \in 1 .. n, NEW r \in R
      PROVE  One(r, k) \in R
  BY <1>2, TurnTaken
<1>. HIDE DEF R, base, One, n
<1>5. Loop(upTo)
  <2>. DEFINE step == [k \in 1 .. n |-> [r \in R |-> One(r, k)]]
  <2>1. step \in [1 .. n -> [R -> R]]
    BY <1>4
  <2>. HIDE DEF step
  <2>2. PICK g \in [0 .. n -> R] : GoesOn(g, n, base, step)
    BY <1>2, <1>3, <2>1, Recursion
  <2>3. \A k \in 1 .. n : g[k] = One(g[k - 1], k)
    <3>1. ASSUME NEW k \in 1 .. n
          PROVE  g[k - 1] \in R
      <4>1. k - 1 \in 0 .. n
        BY <1>2
      <4>. QED  BY <2>2, <4>1
    <3>. QED  BY <2>2, <3>1 DEF step, GoesOn
  <2>4. Loop(g)
    BY <2>2, <2>3 DEF GoesOn
  <2>. HIDE DEF Loop
  <2>. QED  BY <2>4
<1>. HIDE DEF upTo
<1>6. upTo[0] = base /\ \A k \in 1 .. n : upTo[k] = One(upTo[k - 1], k)
  BY <1>2, <1>5
<1>7. upTo[n] \in R
  <2>. DEFINE T == {k \in 0 .. n : upTo[k] \in R}
  <2>1. 0 \in T
    BY <1>2, <1>3, <1>6
  <2>2. \A k \in 1 .. n : k - 1 \in T => k \in T
    BY <1>2, <1>4, <1>6
  <2>. HIDE DEF T
  <2>3. n \in T
    BY <1>2, <2>1, <2>2, Upwards, SMTT(20)
  <2>. QED  BY <2>3 DEF T
<1>. QED  BY <1>1, <1>7 DEF R, Left, n

-----------------------------------------------------------------------------
(* The calls keep the invariant.                                           *)

(* Wider sets have the sequences of the narrower ones.                     *)
LEMMA WiderSeq ==
  ASSUME NEW A, NEW B, A \subseteq B, NEW l \in Seq(A)
  PROVE  l \in Seq(B)
OBVIOUS

(* The containers of the tree are containers.                              *)
LEMMA TreeOfContainers ==
  ASSUME PoolsOK, Rooted, SpaceAssumption
  PROVE  DOMAIN parent \subseteq Container
BY DEF PoolsOK, Rooted, Container, Top, SpaceAssumption

LEMMA NewContainerKeeps ==
  ASSUME SpaceAssumption, SpaceInv, NEW p \in DOMAIN parent, NEW me \in Container \ {Top},
         NEW name \in Names, OSCNewContainer(name, p, me)
  PROVE  SpaceInv'
<1>. DEFINE entry == [name |-> name, child |-> me]
<1>1. PoolsOK /\ ListsOK /\ Rooted /\ Hangs /\ Owned /\ Once
  BY DEF SpaceInv
<1>2. /\ AllocContainer(me) /\ RoomFor(p)
      /\ children' = [children EXCEPT ![p] = Append(@, entry)]
      /\ parent' = [c \in DOMAIN parent \union {me} |-> IF c = me THEN p ELSE parent[c]]
      /\ UNCHANGED <<methods, allMethods, freeMethods, extraMethods>>
  BY DEF OSCNewContainer, AddSubContainer
<1>3. /\ me \in containers' \ freeContainers' /\ me # Top /\ me \notin DOMAIN parent
      /\ containers \subseteq containers' /\ containers' \subseteq Container
      /\ Numbered(containers') /\ extraContainers' \in Nat
      /\ freeContainers' \subseteq containers'
      /\ DOMAIN parent \cap freeContainers' = {}
  BY <1>1, <1>2, ContainerAllocated
<1>4. DOMAIN parent \subseteq Container /\ p \in Container /\ p # me
  BY <1>1, <1>3, TreeOfContainers
<1>5. entry \in ContainerEntry /\ entry.child = me
  BY DEF ContainerEntry
<1>. HIDE DEF entry
<1>6. DOMAIN parent' = DOMAIN parent \cup {me} /\ parent'[me] = p
      /\ \A c \in DOMAIN parent : parent'[c] = parent[c]
  BY <1>2, <1>3
<1>7. /\ children' \in [Container -> Seq(ContainerEntry)]
      /\ children'[p] = Append(children[p], entry)
      /\ \A c \in Container : c # p => children'[c] = children[c]
      /\ children[p] \in Seq(ContainerEntry)
  BY <1>1, <1>2, <1>4, <1>5 DEF ListsOK
<1>8. PoolsOK'
  BY <1>1, <1>2, <1>3 DEF PoolsOK, Numbered
<1>9. ListsOK'
  <2>1. Len(children'[p]) <= MAX_CHILDREN_PER_CONTAINER
    BY <1>2, <1>7, SpaceAssumption DEF RoomFor, SpaceAssumption
  <2>2. \A c \in Container : Len(children'[c]) <= MAX_CHILDREN_PER_CONTAINER
    BY <1>1, <1>7, <2>1 DEF ListsOK
  <2>. QED  BY <1>1, <1>2, <1>7, <2>2 DEF ListsOK
<1>10. Rooted'
  <2>1. \A c \in DOMAIN parent' \ {Top} : parent'[c] \in DOMAIN parent'
    BY <1>1, <1>3, <1>6 DEF Rooted
  <2>2. \A c \in Container \ DOMAIN parent' : children'[c] = <<>>
    BY <1>1, <1>6, <1>7 DEF Rooted
  <2>. QED  BY <1>1, <1>3, <1>6, <2>1, <2>2 DEF Rooted
<1>11. Hangs'
  <2>1. ASSUME NEW c \in DOMAIN parent
        PROVE  ChildrenOf(c) \subseteq ChildrenOf(c)'
    BY <1>6 DEF ChildrenOf
  <2>2. ASSUME NEW c \in DOMAIN parent
        PROVE  children[c] \in Seq(ChildrenOf(c)')
    BY <1>1, <2>1, WiderSeq DEF Hangs
  <2>3. entry \in ChildrenOf(p)'
    BY <1>5, <1>6 DEF ChildrenOf
  <2>4. children'[p] \in Seq(ChildrenOf(p)')
    <3>. DEFINE l == children[p]
                C == ChildrenOf(p)'
    <3>1. l \in Seq(C) /\ entry \in C
      BY <2>2, <2>3
    <3>. HIDE DEF l, C
    <3>2. Append(l, entry) \in Seq(C)
      BY <3>1
    <3>. QED  BY <1>7, <3>2 DEF l, C
  <2>5. children'[me] \in Seq(ChildrenOf(me)')
    <3>1. children'[me] = <<>>
      BY <1>1, <1>3, <1>4, <1>7 DEF Rooted
    <3>. QED  BY <3>1
  <2>6. ASSUME NEW c \in DOMAIN parent'
        PROVE  children'[c] \in Seq(ChildrenOf(c)')
    <3>1. CASE c = p
      BY <2>4, <3>1
    <3>2. CASE c = me
      BY <2>5, <3>2
    <3>3. CASE c # p /\ c # me
      <4>1. c \in DOMAIN parent /\ children'[c] = children[c]
        BY <1>4, <1>6, <1>7, <3>3
      <4>. QED  BY <2>2, <4>1
    <3>. QED  BY <3>1, <3>2, <3>3
  <2>. QED  BY <2>6 DEF Hangs
<1>12. Owned' /\ Once'
  BY <1>1, <1>2 DEF Owned, Once
<1>. QED  BY <1>8, <1>9, <1>10, <1>11, <1>12 DEF SpaceInv

(* The container that is lost stays out of the tree.                       *)
LEMMA SlashKeeps ==
  ASSUME SpaceAssumption, SpaceInv, NEW p, NEW me, NEW name,
         OSCNewContainer_Slash(name, p, me)
  PROVE  SpaceInv'
<1>1. PoolsOK /\ ListsOK /\ Rooted /\ Hangs /\ Owned /\ Once
  BY DEF SpaceInv
<1>2. /\ AllocContainer(me)
      /\ UNCHANGED <<parent, children, methods, allMethods, freeMethods, extraMethods>>
  BY DEF OSCNewContainer_Slash, tree
<1>3. /\ containers \subseteq containers' /\ containers' \subseteq Container
      /\ Numbered(containers') /\ extraContainers' \in Nat
      /\ freeContainers' \subseteq containers'
      /\ DOMAIN parent \cap freeContainers' = {}
  BY <1>1, <1>2, ContainerAllocated
<1>4. PoolsOK'
  BY <1>1, <1>2, <1>3 DEF PoolsOK, Numbered
<1>5. Rooted'
  BY <1>1, <1>2, <1>3 DEF Rooted
<1>6. ListsOK' /\ Owned' /\ Once'
  BY <1>1, <1>2 DEF ListsOK, Owned, Once
<1>7. Hangs'
  BY <1>1, <1>2 DEF Hangs, ChildrenOf
<1>. QED  BY <1>4, <1>5, <1>6, <1>7 DEF SpaceInv

LEMMA NoMemoryKeeps ==
  ASSUME SpaceInv, OSCNewContainer_NoMemory
  PROVE  SpaceInv'
<1>1. PoolsOK /\ ListsOK /\ Rooted /\ Hangs /\ Owned /\ Once
  BY DEF SpaceInv
<1>2. /\ extraContainers' = IF extraContainers < 3 THEN extraContainers + 1 ELSE 3
      /\ UNCHANGED <<parent, children, methods, containers, freeContainers,
                     allMethods, freeMethods, extraMethods>>
  BY DEF OSCNewContainer_NoMemory, tree
<1>3. PoolsOK'
  BY <1>1, <1>2 DEF PoolsOK, Numbered
<1>4. ListsOK' /\ Rooted' /\ Owned' /\ Once'
  BY <1>1, <1>2 DEF ListsOK, Rooted, Owned, Once
<1>5. Hangs'
  BY <1>1, <1>2 DEF Hangs, ChildrenOf
<1>. QED  BY <1>3, <1>4, <1>5 DEF SpaceInv

(* A change of one list of children that leaves only children in it.       *)
LEMMA ListChangeKeeps ==
  ASSUME SpaceAssumption, SpaceInv, NEW p \in DOMAIN parent, NEW l \in Seq(ChildrenOf(p)),
         Len(l) <= MAX_CHILDREN_PER_CONTAINER,
         children' = [children EXCEPT ![p] = l],
         UNCHANGED <<parent, methods, store>>
  PROVE  SpaceInv'
<1>1. PoolsOK /\ ListsOK /\ Rooted /\ Hangs /\ Owned /\ Once
  BY DEF SpaceInv
<1>2. UNCHANGED <<parent, methods, containers, freeContainers, allMethods, freeMethods,
                  extraContainers, extraMethods>>
  BY DEF store
<1>3. p \in Container /\ DOMAIN parent \subseteq Container
  BY <1>1, TreeOfContainers
<1>4. l \in Seq(ContainerEntry)
  <2>1. ChildrenOf(p) \subseteq ContainerEntry
    BY DEF ChildrenOf
  <2>. QED  BY <2>1, WiderSeq
<1>5. /\ children' \in [Container -> Seq(ContainerEntry)]
      /\ children'[p] = l
      /\ \A c \in Container : c # p => children'[c] = children[c]
  BY <1>1, <1>3, <1>4 DEF ListsOK
<1>6. PoolsOK' /\ Owned' /\ Once'
  BY <1>1, <1>2 DEF PoolsOK, Numbered, Owned, Once
<1>7. ListsOK'
  BY <1>1, <1>2, <1>5 DEF ListsOK
<1>8. Rooted'
  BY <1>1, <1>2, <1>5 DEF Rooted
<1>9. Hangs'
  <2>1. \A c \in DOMAIN parent : ChildrenOf(c)' = ChildrenOf(c)
    BY <1>2 DEF ChildrenOf
  <2>2. ASSUME NEW c \in DOMAIN parent
        PROVE  children'[c] \in Seq(ChildrenOf(c))
    <3>1. CASE c = p
      BY <1>5, <3>1
    <3>2. CASE c # p
      BY <1>1, <1>3, <1>5, <3>2 DEF Hangs
    <3>. QED  BY <3>1, <3>2
  <2>3. \A c \in DOMAIN parent : children'[c] \in Seq(ChildrenOf(c)')
    BY <2>1, <2>2
  <2>. QED  BY <1>2, <2>3 DEF Hangs
<1>. QED  BY <1>6, <1>7, <1>8, <1>9 DEF SpaceInv

LEMMA UnchangedKeeps ==
  ASSUME SpaceInv, UNCHANGED <<tree, store>>
  PROVE  SpaceInv'
<1>1. UNCHANGED <<parent, children, methods, containers, freeContainers, allMethods,
                  freeMethods, extraContainers, extraMethods>>
  BY DEF tree, store
<1>2. PoolsOK' /\ ListsOK' /\ Rooted' /\ Owned' /\ Once'
  BY <1>1 DEF SpaceInv, PoolsOK, Numbered, ListsOK, Rooted, Owned, Once
<1>3. Hangs'
  BY <1>1 DEF SpaceInv, Hangs, ChildrenOf
<1>. QED  BY <1>2, <1>3 DEF SpaceInv

LEMMA AddAliasKeeps ==
  ASSUME SpaceAssumption, SpaceInv, NEW c \in DOMAIN parent, NEW name \in Names,
         OSCAddContainerAlias(c, name)
  PROVE  SpaceInv'
<1>. DEFINE p == parent[c]
            entry == [name |-> name, child |-> c]
            old == children[p]
            C == ChildrenOf(p)
            l == Append(old, entry)
<1>1. PoolsOK /\ ListsOK /\ Rooted /\ Hangs
  BY DEF SpaceInv
<1>2. p \in DOMAIN parent /\ c \in Container /\ p \in Container
  BY <1>1, TreeOfContainers DEF OSCAddContainerAlias, Rooted
<1>3. CASE RoomFor(p)
  <2>1. children' = [children EXCEPT ![p] = l] /\ UNCHANGED <<parent, methods, store>>
    BY <1>1, <1>2, <1>3 DEF OSCAddContainerAlias, AddSubContainer, ListsOK
  <2>2. entry \in C /\ old \in Seq(C)
    BY <1>1, <1>2 DEF ChildrenOf, ContainerEntry, Hangs
  <2>3. Len(old) < MAX_CHILDREN_PER_CONTAINER /\ MAX_CHILDREN_PER_CONTAINER \in Nat
    BY <1>3 DEF RoomFor, SpaceAssumption
  <2>. HIDE DEF entry, old, C
  <2>4. l \in Seq(C) /\ Len(l) <= MAX_CHILDREN_PER_CONTAINER
    BY <2>2, <2>3
  <2>. HIDE DEF l, p
  <2>. QED  BY <1>2, <2>1, <2>4, ListChangeKeeps DEF C
<1>4. CASE ~RoomFor(p)
  BY <1>4, UnchangedKeeps DEF OSCAddContainerAlias, tree
<1>. QED  BY <1>3, <1>4

LEMMA RemoveAliasKeeps ==
  ASSUME SpaceAssumption, SpaceInv, NEW c \in DOMAIN parent, NEW name,
         OSCRemoveContainerAlias(c, name)
  PROVE  SpaceInv'
<1>. DEFINE p == parent[c]
            old == children[p]
            C == ChildrenOf(p)
            l == AliasRemoved(old, c, name).list
<1>1. PoolsOK /\ ListsOK /\ Rooted /\ Hangs
  BY DEF SpaceInv
<1>2. p \in DOMAIN parent /\ p \in Container
  BY <1>1, TreeOfContainers DEF OSCRemoveContainerAlias, Rooted
<1>3. children' = [children EXCEPT ![p] = l] /\ UNCHANGED <<parent, methods, store>>
  BY <1>1, <1>2 DEF OSCRemoveContainerAlias, ListsOK
<1>4. old \in Seq(C)
  BY <1>1, <1>2 DEF Hangs
<1>5. Len(old) <= MAX_CHILDREN_PER_CONTAINER /\ MAX_CHILDREN_PER_CONTAINER \in Nat
  BY <1>1, <1>2 DEF ListsOK, SpaceAssumption
<1>. HIDE DEF old, C
<1>6. l \in Seq(C) /\ Len(l) <= Len(old)
  BY <1>4, OnlyRemoved
<1>. HIDE DEF l
<1>7. Len(l) <= MAX_CHILDREN_PER_CONTAINER
  BY <1>4, <1>5, <1>6
<1>. HIDE DEF p
<1>. QED  BY <1>2, <1>3, <1>6, <1>7, ListChangeKeeps DEF C

LEMMA NewMethodKeeps ==
  ASSUME SpaceAssumption, SpaceInv, NEW me \in DOMAIN parent, NEW name \in Names, NEW m,
         OSCNewMethod(name, me, m)
  PROVE  SpaceInv'
<1>. DEFINE entry == [name |-> name, method |-> m]
            old == methods[me]
            n == Len(old)
<1>1. PoolsOK /\ ListsOK /\ Rooted /\ Hangs /\ Owned /\ Once
  BY DEF SpaceInv
<1>2. /\ n < MAX_METHODS_PER_CONTAINER /\ AllocMethod(m)
      /\ methods' = [methods EXCEPT ![me] = Append(@, entry)]
      /\ UNCHANGED <<parent, children, containers, freeContainers, extraContainers>>
  BY DEF OSCNewMethod
<1>3. /\ m \in allMethods' \ freeMethods' /\ m \notin allMethods \ freeMethods
      /\ allMethods \ freeMethods \subseteq allMethods' \ freeMethods'
      /\ allMethods' \subseteq Method /\ Numbered(allMethods') /\ extraMethods' \in Nat
      /\ freeMethods' \subseteq allMethods'
  BY <1>1, <1>2, MethodAllocated
<1>4. me \in Container
  BY <1>1, TreeOfContainers
<1>5. entry \in MethodEntry /\ entry.method = m
  BY <1>3 DEF MethodEntry
<1>6. old \in Seq(MethodEntry) /\ n \in Nat
  BY <1>1, <1>4 DEF ListsOK
<1>. HIDE DEF entry
<1>7. /\ methods' \in [Container -> Seq(MethodEntry)]
      /\ methods'[me] = Append(old, entry)
      /\ \A c \in Container : c # me => methods'[c] = methods[c]
  BY <1>1, <1>2, <1>4, <1>5 DEF ListsOK
<1>. HIDE DEF old
<1>8. /\ DOMAIN methods'[me] = 1 .. n + 1 /\ Len(methods'[me]) = n + 1
      /\ methods'[me][n + 1].method = m
      /\ \A i \in 1 .. n : methods'[me][i] = old[i] /\ i \in DOMAIN old
  BY <1>5, <1>6, <1>7
<1>9. PoolsOK'
  BY <1>1, <1>2, <1>3 DEF PoolsOK, Numbered
<1>10. ListsOK'
  <2>1. Len(methods'[me]) <= MAX_METHODS_PER_CONTAINER
    BY <1>2, <1>6, <1>8 DEF SpaceAssumption
  <2>2. \A c \in Container : Len(methods'[c]) <= MAX_METHODS_PER_CONTAINER
    BY <1>1, <1>7, <2>1 DEF ListsOK
  <2>. QED  BY <1>1, <1>2, <1>7, <2>2 DEF ListsOK
<1>11. Rooted'
  BY <1>1, <1>2 DEF Rooted
<1>12. Hangs'
  BY <1>1, <1>2 DEF Hangs, ChildrenOf
<1>13. ASSUME NEW c \in Container, NEW i \in DOMAIN methods'[c]
       PROVE  \/ c = me /\ i = n + 1 /\ methods'[c][i].method = m
              \/ i \in DOMAIN methods[c] /\ methods'[c][i] = methods[c][i]
  <2>1. CASE c = me
    BY <1>6, <1>8, <2>1 DEF old
  <2>2. CASE c # me
    BY <1>7, <2>2
  <2>. QED  BY <2>1, <2>2
<1>14. Owned'
  <2>. SUFFICES ASSUME NEW c \in Container, NEW i \in DOMAIN methods'[c]
                PROVE  methods'[c][i].method \in allMethods' \ freeMethods'
    BY DEF Owned
  <2>. QED  BY <1>1, <1>3, <1>13 DEF Owned
<1>15. Once'
  <2>. SUFFICES ASSUME NEW c \in Container, NEW d \in Container,
                       NEW i \in DOMAIN methods'[c], NEW j \in DOMAIN methods'[d],
                       methods'[c][i].method = methods'[d][j].method
                PROVE  c = d /\ i = j
    BY DEF Once
  <2>1. \A a \in Container : \A k \in DOMAIN methods[a] : methods[a][k].method # m
    BY <1>1, <1>3 DEF Owned
  <2>. QED  BY <1>1, <1>13, <2>1 DEF Once
<1>. QED  BY <1>9, <1>10, <1>11, <1>12, <1>14, <1>15 DEF SpaceInv

(* Every step of the address space keeps the invariant.                    *)
LEMMA SpaceInvNext ==
  ASSUME SpaceAssumption, SpaceInv, [SpaceNext]_spaceVars
  PROVE  SpaceInv'
<1>1. ASSUME NEW p \in DOMAIN parent, NEW me \in Container \ {Top}, NEW name \in Names,
             OSCNewContainer(name, p, me)
      PROVE  SpaceInv'
  BY <1>1, NewContainerKeeps
<1>2. ASSUME NEW p \in DOMAIN parent, NEW me \in Container \ {Top}, NEW name \in Slashed,
             OSCNewContainer_Slash(name, p, me)
      PROVE  SpaceInv'
  BY <1>2, SlashKeeps
<1>3. CASE OSCNewContainer_NoMemory
  BY <1>3, NoMemoryKeeps
<1>4. ASSUME NEW c \in DOMAIN parent, NEW name \in Names, OSCAddContainerAlias(c, name)
      PROVE  SpaceInv'
  BY <1>4, AddAliasKeeps
<1>5. ASSUME NEW me \in DOMAIN parent, NEW name \in Names \union Slashed, NEW m \in Method,
             OSCNewMethod(name, me, m)
      PROVE  SpaceInv'
  <2>1. name \in Names
    BY <1>5 DEF OSCNewMethod
  <2>. QED  BY <1>5, <2>1, NewMethodKeeps
<1>6. ASSUME NEW me \in DOMAIN parent, NEW name \in Names \union Slashed,
             OSCNewMethod_Refused(name, me)
      PROVE  SpaceInv'
  BY <1>6, UnchangedKeeps DEF OSCNewMethod_Refused
<1>7. ASSUME NEW c \in DOMAIN parent, NEW name \in Names, OSCRemoveContainerAlias(c, name)
      PROVE  SpaceInv'
  BY <1>7, RemoveAliasKeeps
<1>8. CASE UNCHANGED spaceVars
  BY <1>8, UnchangedKeeps DEF spaceVars
<1>. QED  BY <1>1, <1>2, <1>3, <1>4, <1>5, <1>6, <1>7, <1>8 DEF SpaceNext, Build, RemoveAlias

LEMMA SpaceInvHolds == SpaceAssumption => (SpaceSpec => []SpaceInv)
<1>. SUFFICES ASSUME SpaceAssumption
              PROVE  SpaceSpec => []SpaceInv
  OBVIOUS
<1>1. SpaceInit => SpaceInv
  BY SpaceInvInit
<1>2. SpaceInv /\ [SpaceNext]_spaceVars => SpaceInv'
  BY SpaceInvNext
<1>. QED  BY <1>1, <1>2, PTL DEF SpaceSpec

(* The pools and lists of the address space stay within their bounds, and  *)
(* only containers that were handed out are in the tree                    *)
(* (OSC-address-space.c).                                                  *)
THEOREM SpaceTypeCorrect == SpaceAssumption => (SpaceSpec => []SpaceTypeOK)
<1>. SUFFICES ASSUME SpaceAssumption
              PROVE  SpaceSpec => []SpaceTypeOK
  OBVIOUS
<1>1. SpaceInv => SpaceTypeOK
  BY SpaceInvTells
<1>. QED  BY <1>1, SpaceInvHolds, PTL

(* No container is handed out twice, each one hangs below its parent only, *)
(* and no method belongs to two containers: for pools that are refilled in *)
(* batches of any size, whatever is refused, and although the loop of      *)
(* OSCRemoveContainerAlias takes out more than it should                   *)
(* (AllocContainer, AllocMethod and their callers).                        *)
THEOREM NothingSharedTheorem == SpaceAssumption => (SpaceSpec => []NothingShared)
<1>. SUFFICES ASSUME SpaceAssumption
              PROVE  SpaceSpec => []NothingShared
  OBVIOUS
<1>1. SpaceInv => NothingShared
  BY SpaceInvTells
<1>. QED  BY <1>1, SpaceInvHolds, PTL

-----------------------------------------------------------------------------
(* Time tags.                                                              *)

(* The seconds of the clock, and what the client adds to them, fit into a  *)
(* word.                                                                   *)
NoWrap ==
    /\ FirstSecond <= LastSecond
    /\ \A offset \in Offsets : LastSecond + 1 + offset < Words
    /\ LastSecond + 1 < Words

(* Numbers with two digits are ordered by the first, then the second.      *)
LEMMA TwoDigits ==
  ASSUME NEW F \in Nat \ {0}, NEW a \in Nat, NEW b \in Nat, NEW x \in 0 .. F - 1, NEW y \in 0 .. F - 1
  PROVE  a * F + x <= b * F + y <=> a < b \/ (a = b /\ x <= y)
<1>1. ASSUME NEW k \in Nat, NEW m \in Nat, k < m
      PROVE  k * F + F <= m * F
  <2>1. PICK d \in Nat : m = k + 1 + d
    <3>1. m - k - 1 \in Nat /\ m = k + 1 + (m - k - 1)
      BY <1>1
    <3>. QED  BY <3>1
  <2>2. m * F = k * F + F + d * F
    BY <2>1
  <2>3. d * F \in Nat /\ k * F \in Nat
    OBVIOUS
  <2>. QED  BY <2>2, <2>3
<1>2. a * F \in Nat /\ b * F \in Nat
  OBVIOUS
<1>3. CASE a < b
  BY <1>1, <1>2, <1>3
<1>4. CASE b < a
  BY <1>1, <1>2, <1>4
<1>5. CASE a = b
  BY <1>2, <1>5
<1>. QED  BY <1>3, <1>4, <1>5

(* The digits are found again by division.                                 *)
LEMMA Digits ==
  ASSUME NEW F \in Nat \ {0}, NEW a \in Nat, NEW x \in 0 .. F - 1
  PROVE  (a * F + x) \div F = a /\ (a * F + x) % F = x
<1>. DEFINE v == a * F + x
            q == v \div F
            r == v % F
<1>1. v \in Nat
  OBVIOUS
<1>. HIDE DEF v
<1>2. q \in Nat /\ r \in 0 .. F - 1 /\ v = q * F + r
  BY <1>1
<1>. HIDE DEF q, r
<1>3. a * F + x <= q * F + r /\ q * F + r <= a * F + x
  BY <1>2 DEF v
<1>4. a < q \/ (a = q /\ x <= r)
  BY <1>2, <1>3, TwoDigits
<1>5. q < a \/ (q = a /\ r <= x)
  BY <1>2, <1>3, TwoDigits
<1>6. q = a /\ r = x
  BY <1>2, <1>4, <1>5
<1>. QED  BY <1>6 DEF q, r, v

-----------------------------------------------------------------------------
(* What the clock shows, and what is scheduled.                            *)

Reading == [seconds : 0 .. LastSecond + 1, microseconds : 0 .. Second - 1]

TimeInv ==
    /\ watch \in Reading
    /\ \/ alarm = Never
       \/ /\ alarm.set = TRUE /\ alarm.offset \in Offsets /\ alarm.asked \in Reading
          /\ alarm.tag = OSCTT_PlusSeconds(OSCTT_CurrentTime(alarm.asked), alarm.offset)

LEMMA TimeInvHolds == TimeTagAssumption /\ NoWrap => (TimeSpec => []TimeInv)
<1>. SUFFICES ASSUME TimeTagAssumption, NoWrap
              PROVE  TimeSpec => []TimeInv
  OBVIOUS
<1>. USE DEF TimeTagAssumption, NoWrap
<1>1. TimeInit => TimeInv
  BY DEF TimeInit, TimeInv, Reading
<1>2. TimeInv /\ [TimeNext]_timeVars => TimeInv'
  <2>. SUFFICES ASSUME TimeInv, [TimeNext]_timeVars
                PROVE  TimeInv'
    OBVIOUS
  <2>1. CASE Pass
    <3>1. watch' \in Reading
      BY <2>1 DEF Pass, TimeInv, Reading
    <3>. QED  BY <2>1, <3>1 DEF Pass, TimeInv, OSCTT_PlusSeconds, OSCTT_CurrentTime,
                OSCTT_PlusSeconds_Struct, OSCTT_CurrentTime_Struct, OSCTT_Immediately,
                TagOf, Tag, Value, Never
  <2>2. CASE Run
    BY <2>2 DEF Run, TimeInv, Never
  <2>3. ASSUME NEW offset \in Offsets, SetAlarm(offset)
        PROVE  TimeInv'
    BY <2>3 DEF SetAlarm, TimeInv
  <2>4. CASE UNCHANGED timeVars
    BY <2>4 DEF timeVars, TimeInv
  <2>. QED  BY <2>1, <2>2, <2>3, <2>4 DEF TimeNext
<1>. QED  BY <1>1, <1>2, PTL DEF TimeSpec

(* The tag of a reading in which the microseconds fit has the seconds and  *)
(* the fraction of the reading as its digits.                              *)
LEMMA TagOfReading ==
  ASSUME TimeTagAssumption, NoWrap, HAS8BYTEINT, NEW c \in Reading, Fits(c)
  PROVE  /\ OSCTT_CurrentTime(c) = [seconds |-> c.seconds, fraction |-> c.microseconds * PerMicrosecond]
         /\ c.microseconds * PerMicrosecond \in 0 .. Fractions - 1
<1>1. c.seconds \in 0 .. Words - 1 /\ c.microseconds \in Nat
  BY DEF Reading, NoWrap, TimeTagAssumption
<1>. DEFINE x == c.microseconds * PerMicrosecond
<1>2. x \in Nat /\ x < Fractions
  BY <1>1 DEF TimeTagAssumption, Fits
<1>. HIDE DEF x
<1>3. c.seconds % Words = c.seconds /\ x % Fractions = x
  BY <1>1, <1>2 DEF TimeTagAssumption
<1>4. OSCTT_CurrentTime(c) = Tag(c.seconds, x)
  BY DEF OSCTT_CurrentTime, x
<1>5. Tag(c.seconds, x) = [seconds |-> c.seconds, fraction |-> x]
  BY <1>3 DEF Tag
<1>6. x \in 0 .. Fractions - 1
  BY <1>2 DEF TimeTagAssumption
<1>. QED  BY <1>4, <1>5, <1>6 DEF x

(* The tag that is some seconds later.                                     *)
LEMMA LaterTag ==
  ASSUME TimeTagAssumption, NoWrap, HAS8BYTEINT, NEW a \in Nat, NEW x \in 0 .. Fractions - 1,
         NEW d \in Nat, a + d < Words
  PROVE  OSCTT_PlusSeconds([seconds |-> a, fraction |-> x], d) = [seconds |-> a + d, fraction |-> x]
<1>. DEFINE F == Fractions
            v == a * F + x + d * F
<1>1. F \in Nat \ {0} /\ Words \in Nat \ {0}
  BY DEF TimeTagAssumption
<1>2. OSCTT_PlusSeconds([seconds |-> a, fraction |-> x], d)
        = [seconds |-> (v \div F) % Words, fraction |-> v % F]
  BY DEF OSCTT_PlusSeconds, TagOf, Tag, Value
<1>. HIDE DEF F
<1>3. v = (a + d) * F + x
  BY <1>1 DEF F
<1>. HIDE DEF v
<1>4. a + d \in Nat /\ x \in 0 .. F - 1
  BY DEF F
<1>5. v \div F = a + d /\ v % F = x
  BY <1>1, <1>3, <1>4, Digits
<1>6. (a + d) % Words = a + d
  BY <1>1, <1>4
<1>. QED  BY <1>2, <1>5, <1>6

(* A tag is not later than another one when its digits are not.            *)
LEMMA ComparesDigits ==
  ASSUME TimeTagAssumption, HAS8BYTEINT, NEW a \in Nat, NEW b \in Nat,
         NEW x \in 0 .. Fractions - 1, NEW y \in 0 .. Fractions - 1
  PROVE  OSCTT_Compare([seconds |-> a, fraction |-> x], [seconds |-> b, fraction |-> y]) <= 0
           <=> a < b \/ (a = b /\ x <= y)
<1>. DEFINE left == [seconds |-> a, fraction |-> x]
            right == [seconds |-> b, fraction |-> y]
            v == a * Fractions + x
            w == b * Fractions + y
<1>1. v \in Nat /\ w \in Nat
  BY DEF TimeTagAssumption
<1>2. v <= w <=> a < b \/ (a = b /\ x <= y)
  BY TwoDigits DEF TimeTagAssumption
<1>3. w <= v <=> b < a \/ (b = a /\ y <= x)
  BY TwoDigits DEF TimeTagAssumption
<1>4. Value(left) = v /\ Value(right) = w
  BY DEF Value
<1>5. left = right <=> a = b /\ x = y
  OBVIOUS
<1>. HIDE DEF left, right, v, w
<1>6. OSCTT_Compare(left, right) = IF v < w THEN -1 ELSE IF left = right THEN 0 ELSE 1
  BY <1>4 DEF OSCTT_Compare
<1>7. v = w <=> left = right
  BY <1>1, <1>2, <1>3, <1>5
<1>8. OSCTT_Compare(left, right) <= 0 <=> v <= w
  BY <1>1, <1>6, <1>7
<1>. QED  BY <1>2, <1>8 DEF left, right

(* The order of the microseconds on the clock.                             *)
LEMMA OrderOfReadings ==
  ASSUME TimeTagAssumption, NEW c \in Reading, NEW e \in Reading, NEW d \in Nat
  PROVE  Microseconds(e) >= Microseconds(c) + d * Second
           <=> c.seconds + d < e.seconds \/ (c.seconds + d = e.seconds /\ c.microseconds <= e.microseconds)
<1>. DEFINE a == c.seconds + d
            b == e.seconds
            x == c.microseconds
            y == e.microseconds
<1>1. a \in Nat /\ b \in Nat /\ x \in 0 .. Second - 1 /\ y \in 0 .. Second - 1
      /\ Second \in Nat \ {0} /\ c.seconds \in Nat
  BY DEF Reading, TimeTagAssumption
<1>2. Microseconds(c) + d * Second = a * Second + x /\ Microseconds(e) = b * Second + y
  BY <1>1 DEF Microseconds
<1>. HIDE DEF a, b, x, y
<1>3. a * Second + x <= b * Second + y <=> a < b \/ (a = b /\ x <= y)
  BY <1>1, TwoDigits
<1>4. a * Second + x \in Nat /\ b * Second + y \in Nat
  BY <1>1
<1>. QED  BY <1>2, <1>3, <1>4 DEF a, b, x, y

(* With 8-byte integers, and as long as the seconds fit into a word, what  *)
(* is scheduled is due when its seconds have passed, to the microsecond,   *)
(* and no earlier: for every clock, every width and every offset, but for  *)
(* the microseconds at the end of a second whose product does not fit; and *)
(* the special tags are before and after all others (OSCTT_PlusSeconds,    *)
(* OSCTT_Compare, OSCTT_CurrentTime).                                      *)
THEOREM DueOnTimeTheorem ==
  TimeTagAssumption /\ NoWrap /\ HAS8BYTEINT => (TimeSpec => []DueOnTime)
<1>. SUFFICES ASSUME TimeTagAssumption, NoWrap, HAS8BYTEINT
              PROVE  TimeSpec => []DueOnTime
  OBVIOUS
<1>1. ASSUME TimeInv, alarm.set, Fits(alarm.asked), Fits(watch)
      PROVE  Due <=> Microseconds(watch) >= Microseconds(alarm.asked) + alarm.offset * Second
  <2>. DEFINE c == alarm.asked
              d == alarm.offset
              a == c.seconds
              x == c.microseconds * PerMicrosecond
              b == watch.seconds
              y == watch.microseconds * PerMicrosecond
  <2>1. /\ watch \in Reading /\ c \in Reading /\ d \in Offsets
        /\ alarm.tag = OSCTT_PlusSeconds(OSCTT_CurrentTime(c), d)
    BY <1>1 DEF TimeInv, Never
  <2>2. d \in Nat /\ a \in Nat /\ b \in Nat /\ a + d < Words
    <3>1. d \in Nat /\ LastSecond \in Nat /\ Words \in Nat /\ LastSecond + 1 + d < Words
      BY <2>1 DEF TimeTagAssumption, NoWrap
    <3>2. a \in 0 .. LastSecond + 1 /\ b \in 0 .. LastSecond + 1
      BY <2>1 DEF Reading
    <3>. QED  BY <3>1, <3>2
  <2>3. /\ OSCTT_CurrentTime(c) = [seconds |-> a, fraction |-> x] /\ x \in 0 .. Fractions - 1
        /\ OSCTT_CurrentTime(watch) = [seconds |-> b, fraction |-> y] /\ y \in 0 .. Fractions - 1
    BY <1>1, <2>1, TagOfReading
  <2>4. x <= y <=> c.microseconds <= watch.microseconds
    <3>1. c.microseconds \in Nat /\ watch.microseconds \in Nat
      BY <2>1 DEF Reading, TimeTagAssumption
    <3>2. PerMicrosecond \in Nat \ {0}
      BY DEF TimeTagAssumption
    <3>3. x = c.microseconds * PerMicrosecond + 0 /\ y = watch.microseconds * PerMicrosecond + 0
      BY <3>1, <3>2
    <3>4. 0 \in 0 .. PerMicrosecond - 1
      BY <3>2
    <3>. QED  BY <3>1, <3>2, <3>3, <3>4, TwoDigits
  <2>5. c.seconds = a /\ watch.seconds = b
    OBVIOUS
  <2>6. Microseconds(watch) >= Microseconds(c) + d * Second
          <=> a + d < b \/ (a + d = b /\ c.microseconds <= watch.microseconds)
    BY <2>1, <2>2, OrderOfReadings
  <2>. HIDE DEF c, d, a, b, x, y
  <2>7. alarm.tag = [seconds |-> a + d, fraction |-> x]
    BY <2>1, <2>2, <2>3, LaterTag
  <2>8. a + d \in Nat
    BY <2>2
  <2>9. OSCTT_Compare(alarm.tag, OSCTT_CurrentTime(watch)) <= 0 <=> a + d < b \/ (a + d = b /\ x <= y)
    BY <2>2, <2>3, <2>7, <2>8, ComparesDigits
  <2>10. Due <=> a + d < b \/ (a + d = b /\ x <= y)
    BY <2>9 DEF Due
  <2>. QED  BY <2>4, <2>6, <2>10 DEF c, d
<1>2. CompareTellsEarlier
  BY DEF CompareTellsEarlier, OSCTT_Compare
<1>3. TimeInv => DueOnTime
  BY <1>1, <1>2 DEF DueOnTime
<1>. QED  BY <1>3, TimeInvHolds, PTL

-----------------------------------------------------------------------------
(* Strings in packets.                                                     *)

LEMMA AlignedIs ==
  ASSUME NEW i \in Nat
  PROVE  /\ Aligned(i) \in Nat /\ Aligned(i) % 4 = 0
         /\ i <= Aligned(i) /\ Aligned(i) < i + 4
         /\ \A l \in Nat : l % 4 = 0 /\ i <= l => Aligned(i) <= l
BY DEF Aligned

(* A padded string, byte by byte.                                          *)
LEMMA PaddedIs ==
  ASSUME NEW T, NEW str \in Seq(T)
  PROVE  OSCPaddedStrcpy(str) =
           [k \in 1 .. Aligned(Len(str) + 1) |-> IF k <= Len(str) THEN str[k] ELSE Nul]
<1>. DEFINE l == Len(str)
            pad == [i \in 1 .. 4 - (l % 4) |-> Nul]
            all == [k \in 1 .. Aligned(l + 1) |-> IF k <= l THEN str[k] ELSE Nul]
<1>1. l \in Nat /\ 4 - (l % 4) \in 1 .. 4 /\ Aligned(l + 1) = l + (4 - (l % 4))
  BY DEF Aligned
<1>2. str \in Seq(T \cup {Nul}) /\ pad \in Seq(T \cup {Nul}) /\ Len(pad) = 4 - (l % 4)
  BY <1>1
<1>3. str \o pad = [k \in 1 .. l + Len(pad) |-> IF k <= l THEN str[k] ELSE pad[k - l]]
  BY <1>2
<1>4. \A k \in 1 .. l + Len(pad) : k > l => pad[k - l] = Nul
  BY <1>1, <1>2
<1>5. str \o pad = all
  BY <1>1, <1>2, <1>3, <1>4
<1>. QED  BY <1>5 DEF OSCPaddedStrcpy

LEMMA WrittenIs ==
  ASSUME NEW T, NEW x \in Seq(T), NEW i \in 1 .. Len(x), NEW j \in i .. Len(x)
  PROVE  Written(x, i, j) <=>
           \E n \in i .. j : /\ \A k \in i .. n - 1 : x[k] # Nul
                             /\ j - i + 1 = Aligned(n - i + 1)
                             /\ \A k \in n .. j : x[k] = Nul
<1>1. ASSUME NEW n \in i .. j
      PROVE  SubSeq(x, i, j) = OSCPaddedStrcpy(SubSeq(x, i, n - 1)) <=>
               j - i + 1 = Aligned(n - i + 1) /\ \A k \in n .. j : x[k] = Nul
  <2>. DEFINE part == SubSeq(x, i, j)
              str == SubSeq(x, i, n - 1)
              padded == OSCPaddedStrcpy(str)
  <2>1. part = [k \in 1 .. j - i + 1 |-> x[i + k - 1]]
    OBVIOUS
  <2>2. str = [k \in 1 .. n - i |-> x[i + k - 1]] /\ str \in Seq(T) /\ Len(str) = n - i
    OBVIOUS
  <2>3. padded = [k \in 1 .. Aligned(n - i + 1) |-> IF k <= n - i THEN str[k] ELSE Nul]
    <3>. HIDE DEF str
    <3>1. padded = [k \in 1 .. Aligned(Len(str) + 1) |-> IF k <= Len(str) THEN str[k] ELSE Nul]
      BY <2>2, PaddedIs
    <3>. QED  BY <2>2, <3>1
  <2>4. n - i \in Nat /\ Aligned(n - i + 1) \in Nat /\ Aligned(n - i + 1) >= n - i + 1
    <3>1. n - i \in Nat /\ n - i + 1 \in Nat
      OBVIOUS
    <3>. QED  BY <3>1, AlignedIs
  <2>. HIDE DEF part, str, padded
  <2>5. ASSUME part = padded
        PROVE  j - i + 1 = Aligned(n - i + 1) /\ \A k \in n .. j : x[k] = Nul
    <3>1. 1 .. j - i + 1 = 1 .. Aligned(n - i + 1)
      BY <2>1, <2>3, <2>5
    <3>2. j - i + 1 = Aligned(n - i + 1)
      <4>1. j - i + 1 \in 1 .. Aligned(n - i + 1) /\ Aligned(n - i + 1) \in 1 .. j - i + 1
        BY <2>4, <3>1
      <4>. QED  BY <2>4, <4>1
    <3>3. ASSUME NEW k \in n .. j
          PROVE  x[k] = Nul
      <4>1. k - i + 1 \in 1 .. j - i + 1 /\ ~ (k - i + 1 <= n - i) /\ i + (k - i + 1) - 1 = k
        OBVIOUS
      <4>2. part[k - i + 1] = x[i + (k - i + 1) - 1]
        BY <2>1, <4>1
      <4>3. padded[k - i + 1] = Nul
        BY <2>3, <3>1, <4>1
      <4>. QED  BY <2>5, <4>1, <4>2, <4>3
    <3>. QED  BY <3>2, <3>3
  <2>6. ASSUME j - i + 1 = Aligned(n - i + 1), \A k \in n .. j : x[k] = Nul
        PROVE  part = padded
    <3>1. ASSUME NEW k \in 1 .. j - i + 1
          PROVE  x[i + k - 1] = IF k <= n - i THEN str[k] ELSE Nul
      <4>1. i + k - 1 \in i .. j /\ (~ (k <= n - i) => i + k - 1 \in n .. j)
        OBVIOUS
      <4>2. k <= n - i => str[k] = x[i + k - 1]
        BY <2>2
      <4>. QED  BY <2>6, <4>1, <4>2
    <3>. QED  BY <2>1, <2>3, <2>6, <3>1
  <2>. QED  BY <2>5, <2>6 DEF part, padded, str
<1>. QED  BY <1>1 DEF Written

First(m, n) == n \in DOMAIN m /\ m[n] = Nul /\ \A k \in 1 .. n - 1 : m[k] # Nul

LEMMA FirstNulIs ==
  ASSUME NEW T, NEW m \in Seq(T)
  PROVE  /\ \A n : First(m, n) => HasNul(m) /\ FirstNul(m) = n
         /\ HasNul(m) => First(m, FirstNul(m))
<1>1. ASSUME NEW n, NEW k, First(m, n), First(m, k)
      PROVE  n = k
  <2>1. n \in Nat \ {0} /\ k \in Nat \ {0} /\ m[n] = Nul /\ m[k] = Nul
    BY <1>1 DEF First
  <2>2. ~ (k \in 1 .. n - 1) /\ ~ (n \in 1 .. k - 1)
    BY <1>1, <2>1 DEF First
  <2>. QED  BY <2>1, <2>2
<1>2. FirstNul(m) = CHOOSE n : First(m, n)
  BY DEF FirstNul, First
<1>3. ASSUME HasNul(m)
      PROVE  \E n : First(m, n)
  <2>. DEFINE nuls == {k \in DOMAIN m : m[k] = Nul}
  <2>1. nuls \in SUBSET Nat /\ nuls # {}
    BY <1>3 DEF HasNul
  <2>2. PICK n \in nuls : \A k \in nuls : n <= k
    BY <2>1, LeastNatural
  <2>3. \A k \in 1 .. n - 1 : k \in DOMAIN m /\ ~ (n <= k)
    BY <2>2
  <2>4. First(m, n)
    BY <2>2, <2>3 DEF First
  <2>. QED  BY <2>4
<1>4. ASSUME NEW n, First(m, n)
      PROVE  HasNul(m)
  BY <1>4 DEF First, HasNul
<1>. QED  BY <1>1, <1>2, <1>3, <1>4

\* What a string at a place in the block x, with y behind it, takes.
Skip(x, y, at) == DataAfterAlignedString(SubSeq(x \o y, at + 1, Len(x \o y)), Len(x) - at)

LEMMA StringSkipped ==
  ASSUME NEW T, NEW x \in Seq(T), NEW y \in Seq(T), Len(x) % 4 = 0,
         NEW at \in 0 .. Len(x), at % 4 = 0
  PROVE  /\ \A j \in at + 1 .. Len(x) : Written(x, at + 1, j) => Skip(x, y, at) = j - at
         /\ Skip(x, y, at) # 0 =>
              /\ Skip(x, y, at) \in 1 .. Len(x) - at /\ Skip(x, y, at) % 4 = 0
              /\ Written(x, at + 1, at + Skip(x, y, at))
              /\ \E n \in 1 .. Len(x) - at :
                    First(SubSeq(x, at + 1, Len(x)), n) /\ Skip(x, y, at) = Aligned(n)
<1>. DEFINE m == x \o y
            after == Skip(x, y, at)
            t == SubSeq(m, at + 1, Len(m))
            l == Len(x) - at
<1>1. l \in Nat /\ l % 4 = 0 /\ Len(x) \in Nat /\ at \in Nat
  OBVIOUS
<1>2. /\ m \in Seq(T) /\ Len(m) = Len(x) + Len(y) /\ Len(y) \in Nat
      /\ \A k \in 1 .. Len(x) : m[k] = x[k]
  OBVIOUS
<1>3. /\ t \in Seq(T) /\ Len(t) = l + Len(y) /\ DOMAIN t = 1 .. Len(t)
      /\ \A k \in 1 .. Len(t) : t[k] = m[at + k]
  BY <1>1, <1>2
<1>4. after = IF ~HasNul(t) \/ FirstNul(t) > l THEN 0
              ELSE IF NulFrom(t, FirstNul(t) + 1, Aligned(FirstNul(t))) THEN Aligned(FirstNul(t))
              ELSE 0
  BY DEF DataAfterAlignedString, Skip
<1>. HIDE DEF m, t, after
<1>5. \A k \in 1 .. l : k \in DOMAIN t /\ t[k] = x[at + k]
  <2>1. ASSUME NEW k \in 1 .. l
        PROVE  k \in DOMAIN t /\ t[k] = x[at + k]
    <3>1. k \in 1 .. Len(t) /\ at + k \in 1 .. Len(x)
      BY <1>1, <1>2, <1>3
    <3>. QED  BY <1>2, <1>3, <3>1
  <2>. QED  BY <2>1
<1>. HIDE DEF l
<1>6. ASSUME NEW j \in at + 1 .. Len(x), Written(x, at + 1, j)
      PROVE  after = j - at
  <2>1. at + 1 \in 1 .. Len(x) /\ j \in at + 1 .. Len(x)
    BY <1>1
  <2>2. PICK n \in at + 1 .. j : /\ \A k \in at + 1 .. n - 1 : x[k] # Nul
                                /\ j - (at + 1) + 1 = Aligned(n - (at + 1) + 1)
                                /\ \A k \in n .. j : x[k] = Nul
    BY <1>6, <2>1, WrittenIs
  <2>3. n - at \in 1 .. l /\ j - at = Aligned(n - at) /\ j - at \in 1 .. l
    <3>1. j - (at + 1) + 1 = j - at /\ n - (at + 1) + 1 = n - at
      BY <1>1
    <3>. QED  BY <1>1, <2>2, <3>1 DEF l
  <2>4. First(t, n - at)
    <3>1. n - at \in DOMAIN t /\ t[n - at] = x[n]
      <4>1. at + (n - at) = n
        BY <1>1
      <4>. QED  BY <1>5, <2>3, <4>1
    <3>2. \A k \in 1 .. (n - at) - 1 : k \in 1 .. l /\ at + k \in at + 1 .. n - 1
      BY <1>1, <2>3
    <3>3. \A k \in 1 .. (n - at) - 1 : t[k] # Nul
      BY <1>5, <2>2, <3>2
    <3>4. x[n] = Nul
      <4>1. n \in n .. j
        OBVIOUS
      <4>. QED  BY <2>2, <4>1
    <3>. QED  BY <3>1, <3>3, <3>4 DEF First
  <2>5. HasNul(t) /\ FirstNul(t) = n - at
    BY <1>3, <2>4, FirstNulIs
  <2>6. NulFrom(t, (n - at) + 1, j - at)
    <3>1. ASSUME NEW k \in (n - at) + 1 .. j - at
          PROVE  k \in DOMAIN t /\ t[k] = Nul
      <4>1. k \in 1 .. l /\ at + k \in n .. j
        BY <1>1, <2>3
      <4>. QED  BY <1>5, <2>2, <4>1
    <3>. QED  BY <3>1 DEF NulFrom
  <2>. QED  BY <1>1, <1>4, <2>3, <2>5, <2>6
<1>7. ASSUME after # 0
      PROVE  /\ after \in 1 .. l /\ after % 4 = 0 /\ Written(x, at + 1, at + after)
             /\ \E n \in 1 .. l : First(SubSeq(x, at + 1, Len(x)), n) /\ after = Aligned(n)
  <2>. DEFINE p == FirstNul(t)
  <2>1. HasNul(t) /\ ~ (p > l) /\ NulFrom(t, p + 1, Aligned(p)) /\ after = Aligned(p)
    BY <1>4, <1>7
  <2>2. First(t, p)
    BY <1>3, <2>1, FirstNulIs
  <2>. HIDE DEF p
  <2>3. p \in 1 .. l
    <3>1. p \in 1 .. Len(t) /\ Len(t) \in Nat
      BY <1>1, <1>2, <1>3, <2>2 DEF First
    <3>. QED  BY <1>1, <2>1, <3>1
  <2>4. after \in p .. l /\ after % 4 = 0
    <3>1. p \in Nat /\ p <= l
      BY <1>1, <2>3
    <3>2. /\ Aligned(p) \in Nat /\ Aligned(p) % 4 = 0 /\ p <= Aligned(p)
          /\ l % 4 = 0 /\ p <= l => Aligned(p) <= l
      BY <1>1, <3>1, AlignedIs
    <3>. QED  BY <1>1, <2>1, <3>1, <3>2
  <2>5. \A k \in at + 1 .. (at + p) - 1 : x[k] # Nul
    <3>1. ASSUME NEW k \in at + 1 .. (at + p) - 1
          PROVE  x[k] # Nul
      <4>1. k - at \in 1 .. p - 1 /\ k - at \in 1 .. l /\ at + (k - at) = k
        BY <1>1, <2>3
      <4>. QED  BY <1>5, <2>2, <4>1 DEF First
    <3>. QED  BY <3>1
  <2>6. \A k \in at + p .. at + after : x[k] = Nul
    <3>1. ASSUME NEW k \in at + p .. at + after
          PROVE  x[k] = Nul
      <4>1. k - at \in 1 .. l /\ at + (k - at) = k /\ (k - at = p \/ k - at \in p + 1 .. after)
        BY <1>1, <2>3, <2>4
      <4>2. t[k - at] = Nul
        BY <2>1, <2>2, <4>1 DEF First, NulFrom
      <4>. QED  BY <1>5, <4>1, <4>2
    <3>. QED  BY <3>1
  <2>7. Written(x, at + 1, at + after)
    <3>1. /\ at + 1 \in 1 .. Len(x) /\ at + after \in at + 1 .. Len(x)
          /\ at + p \in at + 1 .. at + after
          /\ (at + after) - (at + 1) + 1 = after /\ (at + p) - (at + 1) + 1 = p
      BY <1>1, <2>3, <2>4 DEF l
    <3>2. \E n \in at + 1 .. at + after :
            /\ \A k \in at + 1 .. n - 1 : x[k] # Nul
            /\ (at + after) - (at + 1) + 1 = Aligned(n - (at + 1) + 1)
            /\ \A k \in n .. at + after : x[k] = Nul
      BY <2>1, <2>5, <2>6, <3>1
    <3>. QED  BY <3>1, <3>2, WrittenIs
  <2>8. First(SubSeq(x, at + 1, Len(x)), p)
    <3>. DEFINE rest == SubSeq(x, at + 1, Len(x))
    <3>1. DOMAIN rest = 1 .. l /\ \A k \in 1 .. l : rest[k] = x[at + k]
      BY <1>1 DEF l
    <3>. HIDE DEF rest
    <3>2. \A k \in 1 .. l : rest[k] = t[k]
      BY <1>5, <3>1
    <3>3. First(rest, p)
      <4>1. p \in 1 .. l /\ \A k \in 1 .. p - 1 : k \in 1 .. l
        BY <1>1, <2>3
      <4>2. t[p] = Nul /\ \A k \in 1 .. p - 1 : t[k] # Nul
        BY <2>2 DEF First
      <4>. QED  BY <3>1, <3>2, <4>1, <4>2 DEF First
    <3>. QED  BY <3>3 DEF rest
  <2>. QED  BY <1>1, <2>1, <2>3, <2>4, <2>7, <2>8
<1>. QED  BY <1>6, <1>7 DEF l, after

\* The rounds of OSCParseStringList.
Round == [found : Seq(Nat), at : Nat, status : {"on", "done", "failed"}]
Start == [found |-> <<>>, at |-> 0, status |-> "on"]
Rounds(m, boundary, max) ==
    CHOOSE round : round = [k \in 0 .. max |->
        IF k = 0 THEN Start ELSE ParseString(m, boundary, round[k - 1])]

LEMMA ParseStringTyped ==
  ASSUME NEW T, NEW m \in Seq(T), NEW boundary \in Nat, NEW r \in Round
  PROVE  ParseString(m, boundary, r) \in Round
<1>. DEFINE rest == SubSeq(m, r.at + 1, Len(m))
            after == DataAfterAlignedString(rest, boundary - r.at)
<1>1. r.found \in Seq(Nat) /\ r.at \in Nat
  BY DEF Round
<1>2. rest \in Seq(T)
  <2>1. r.at + 1 \in Nat \ {0}
    BY <1>1
  <2>. QED  BY <2>1
<1>. HIDE DEF rest
<1>3. HasNul(rest) => FirstNul(rest) \in Nat
  BY <1>2, FirstNulIs DEF First
<1>4. after \in Nat
  BY <1>3, AlignedIs DEF DataAfterAlignedString
<1>5. ParseString(m, boundary, r) =
        IF r.status # "on" THEN r
        ELSE IF r.at = boundary THEN [r EXCEPT !.status = "done"]
        ELSE IF after = 0 THEN [r EXCEPT !.status = "failed"]
        ELSE [found |-> Append(r.found, r.at + 1), at |-> r.at + after, status |-> "on"]
  BY DEF ParseString, rest
<1>. HIDE DEF after
<1>6. Append(r.found, r.at + 1) \in Seq(Nat) /\ r.at + after \in Nat
  BY <1>1, <1>4
<1>. QED  BY <1>5, <1>6 DEF Round

LEMMA RoundsAre ==
  ASSUME NEW T, NEW m \in Seq(T), NEW boundary \in Nat, NEW max \in Nat
  PROVE  /\ Rounds(m, boundary, max) \in [0 .. max -> Round]
         /\ Rounds(m, boundary, max)[0] = Start
         /\ \A k \in 1 .. max :
              Rounds(m, boundary, max)[k] = ParseString(m, boundary, Rounds(m, boundary, max)[k - 1])
<1>. DEFINE step == [k \in 1 .. max |-> [r \in Round |-> ParseString(m, boundary, r)]]
            Is(round) == round = [k \in 0 .. max |->
                IF k = 0 THEN Start ELSE ParseString(m, boundary, round[k - 1])]
            R == Rounds(m, boundary, max)
<1>1. Start \in Round
  BY DEF Start, Round
<1>2. step \in [1 .. max -> [Round -> Round]]
  BY ParseStringTyped
<1>3. \A k \in 1 .. max, r \in Round : step[k][r] = ParseString(m, boundary, r)
  OBVIOUS
<1>. HIDE DEF step
<1>4. PICK h \in [0 .. max -> Round] : GoesOn(h, max, Start, step)
  BY <1>1, <1>2, Recursion
<1>5. Is(h)
  <2>1. ASSUME NEW k \in 0 .. max
        PROVE  h[k] = IF k = 0 THEN Start ELSE ParseString(m, boundary, h[k - 1])
    <3>1. CASE k = 0
      BY <1>4, <3>1 DEF GoesOn
    <3>2. CASE k # 0
      <4>1. k \in 1 .. max /\ k - 1 \in 0 .. max
        BY <3>2
      <4>2. h[k - 1] \in Round
        BY <4>1
      <4>. QED  BY <1>3, <1>4, <3>2, <4>1, <4>2 DEF GoesOn
    <3>. QED  BY <3>1, <3>2
  <2>. QED  BY <2>1
<1>. HIDE DEF Is
<1>6. Is(R)
  BY <1>5 DEF Rounds, Is
<1>. HIDE DEF R
<1>7. \A k \in 0 .. max : R[k] = IF k = 0 THEN Start ELSE ParseString(m, boundary, R[k - 1])
  BY <1>6 DEF Is
<1>8. R[0] = Start /\ \A k \in 1 .. max : R[k] = ParseString(m, boundary, R[k - 1])
  <2>1. 0 \in 0 .. max /\ \A k \in 1 .. max : k \in 0 .. max /\ k # 0
    OBVIOUS
  <2>. QED  BY <1>7, <2>1
<1>. DEFINE Typed == {k \in 0 .. max : R[k] \in Round}
<1>9. 0 \in Typed
  BY <1>1, <1>8
<1>10. ASSUME NEW k \in 1 .. max, k - 1 \in Typed
       PROVE  k \in Typed
  <2>1. R[k - 1] \in Round
    BY <1>10
  <2>2. R[k] \in Round
    BY <1>8, <2>1, ParseStringTyped
  <2>. QED  BY <2>2
<1>. HIDE DEF Typed
<1>11. \A k \in 0 .. max : k \in Typed
  BY <1>9, <1>10, Upwards
<1>12. R \in [0 .. max -> Round]
  <2>1. \A k \in 0 .. max : R[k] \in Round
    BY <1>11 DEF Typed
  <2>2. R = [k \in 0 .. max |-> R[k]]
    BY <1>6 DEF Is
  <2>. QED  BY <2>1, <2>2
<1>. QED  BY <1>8, <1>12 DEF R

Places(x) == {4 * k : k \in 0 .. Len(x) \div 4}

\* The first n strings of x end at e.
Begins(x, n, e) ==
    /\ e \in [0 .. n -> Places(x)] /\ e[0] = 0
    /\ \A i \in 1 .. n : Written(x, e[i - 1] + 1, e[i])

LEMMA PlacesAre ==
  ASSUME NEW T, NEW x \in Seq(T), Len(x) % 4 = 0
  PROVE  \A p : p \in Places(x) <=> p \in 0 .. Len(x) /\ p % 4 = 0
<1>1. Len(x) \in Nat
  OBVIOUS
<1>2. ASSUME NEW p \in Places(x)
      PROVE  p \in 0 .. Len(x) /\ p % 4 = 0
  BY <1>1 DEF Places
<1>3. ASSUME NEW p \in 0 .. Len(x), p % 4 = 0
      PROVE  p \in Places(x)
  <2>1. p \div 4 \in 0 .. Len(x) \div 4 /\ 4 * (p \div 4) = p
    BY <1>1, <1>3
  <2>. QED  BY <2>1 DEF Places
<1>. QED  BY <1>2, <1>3

(* A list of strings that was written is found, one string in each round.  *)
LEMMA WrittenIsFound ==
  ASSUME NEW T, NEW x \in Seq(T), NEW y \in Seq(T), Len(x) % 4 = 0,
         NEW max \in Nat, NEW n \in 0 .. max - 1, NEW e, Begins(x, n, e), e[n] = Len(x)
  PROVE  OSCParseStringList(x \o y, Len(x), max)
           = [ok |-> TRUE, found |-> [i \in 1 .. n |-> e[i - 1] + 1]]
<1>. DEFINE m == x \o y
            R == Rounds(m, Len(x), max)
            Starts(k) == [i \in 1 .. k |-> e[i - 1] + 1]
            Found(k) == [found |-> Starts(k), at |-> e[k], status |-> "on"]
            End == [found |-> Starts(n), at |-> Len(x), status |-> "done"]
            On == {k \in 0 .. n : R[k] = Found(k)}
            Done == {k \in 0 .. max - (n + 1) : R[n + 1 + k] = End}
<1>1. m \in Seq(T) /\ Len(x) \in Nat
  OBVIOUS
<1>2. /\ R[0] = Start
      /\ \A k \in 1 .. max : R[k] = ParseString(m, Len(x), R[k - 1])
  BY <1>1, RoundsAre
<1>3. /\ e \in [0 .. n -> Places(x)] /\ e[0] = 0
      /\ \A i \in 1 .. n : Written(x, e[i - 1] + 1, e[i])
  BY DEF Begins
<1>4. \A k \in 0 .. n : e[k] \in 0 .. Len(x) /\ e[k] % 4 = 0
  <2>1. \A k \in 0 .. n : e[k] \in Places(x)
    BY <1>3
  <2>. QED  BY <2>1, PlacesAre
<1>5. OSCParseStringList(m, Len(x), max) =
        IF R[max].status = "done" THEN [ok |-> TRUE, found |-> R[max].found]
        ELSE [ok |-> FALSE, found |-> <<>>]
  BY DEF OSCParseStringList, Rounds, Start
<1>. HIDE DEF R, m
<1>6. 0 \in On
  <2>1. Starts(0) = <<>>
    OBVIOUS
  <2>2. Found(0) = Start
    BY <1>3, <2>1 DEF Start
  <2>. QED  BY <1>2, <2>2
<1>7. ASSUME NEW k \in 1 .. n, k - 1 \in On
      PROVE  k \in On
  <2>. DEFINE at == e[k - 1]
              after == DataAfterAlignedString(SubSeq(m, at + 1, Len(m)), Len(x) - at)
  <2>1. k - 1 \in 0 .. n /\ k \in 0 .. n /\ k \in 1 .. max
    OBVIOUS
  <2>2. at \in 0 .. Len(x) /\ at % 4 = 0 /\ e[k] \in 0 .. Len(x) /\ Written(x, at + 1, e[k])
    BY <1>3, <1>4, <2>1
  <2>. HIDE DEF at
  <2>3. e[k] \in at + 1 .. Len(x)
    <3>1. PICK j \in at + 1 .. e[k] : TRUE
      BY <2>2 DEF Written
    <3>. QED  BY <2>2, <3>1
  <2>4. after = e[k] - at
    <3>1. after = Skip(x, y, at)
      BY DEF m, Skip
    <3>. HIDE DEF after
    <3>2. \A j \in at + 1 .. Len(x) : Written(x, at + 1, j) => Skip(x, y, at) = j - at
      BY <2>2, StringSkipped
    <3>. QED  BY <2>2, <2>3, <3>1, <3>2
  <2>5. R[k] = ParseString(m, Len(x), R[k - 1]) /\ R[k - 1] = Found(k - 1)
    BY <1>2, <1>7, <2>1
  <2>6. R[k - 1].status = "on" /\ R[k - 1].at = at /\ R[k - 1].found = Starts(k - 1)
    BY <2>5 DEF at
  <2>7. ParseString(m, Len(x), R[k - 1]) =
          IF at = Len(x) THEN [R[k - 1] EXCEPT !.status = "done"]
          ELSE IF after = 0 THEN [R[k - 1] EXCEPT !.status = "failed"]
          ELSE [found |-> Append(Starts(k - 1), at + 1), at |-> at + after, status |-> "on"]
    BY <2>6 DEF ParseString
  <2>8. at # Len(x) /\ after # 0 /\ at + after = e[k]
    BY <1>1, <2>2, <2>3, <2>4
  <2>9. Append(Starts(k - 1), at + 1) = Starts(k)
    <3>1. Starts(k - 1) \in Seq(Nat) /\ Len(Starts(k - 1)) = k - 1
      <4>1. \A i \in 1 .. k - 1 : e[i - 1] + 1 \in Nat
        BY <1>4
      <4>. QED  BY <4>1
    <3>. DEFINE before == Starts(k - 1)
    <3>2. \A i \in 1 .. k - 1 : before[i] = e[i - 1] + 1
      OBVIOUS
    <3>. HIDE DEF before
    <3>3. Append(before, at + 1) = [i \in 1 .. k |-> IF i = k THEN at + 1 ELSE before[i]]
      BY <3>1 DEF before
    <3>4. \A i \in 1 .. k : (IF i = k THEN at + 1 ELSE before[i]) = e[i - 1] + 1
      BY <3>2 DEF at
    <3>. QED  BY <3>3, <3>4 DEF before
  <2>. HIDE DEF after
  <2>10. R[k] = Found(k)
    BY <2>5, <2>7, <2>8, <2>9
  <2>. QED  BY <2>1, <2>10
<1>. HIDE DEF On
<1>8. n \in On
  <2>1. n \in Nat /\ \A k \in 1 .. n : k - 1 \in On => k \in On
    BY <1>7
  <2>2. \A k \in 0 .. n : k \in On
    BY <1>6, <2>1, Upwards
  <2>. QED  BY <2>1, <2>2
<1>9. 0 \in Done
  <2>1. /\ R[n] = [found |-> Starts(n), at |-> Len(x), status |-> "on"]
        /\ n + 1 \in 1 .. max /\ (n + 1) - 1 = n /\ n + 1 + 0 = n + 1
    <3>1. R[n] = Found(n)
      BY <1>8 DEF On
    <3>2. n + 1 \in 1 .. max /\ (n + 1) - 1 = n /\ n + 1 + 0 = n + 1
      OBVIOUS
    <3>. QED  BY <3>1, <3>2
  <2>2. R[n].status = "on" /\ R[n].at = Len(x)
    BY <2>1
  <2>3. R[n + 1] = [R[n] EXCEPT !.status = "done"]
    BY <1>2, <2>1, <2>2 DEF ParseString
  <2>4. R[n + 1] = End
    <3>1. \A a, b : [[found |-> a, at |-> b, status |-> "on"] EXCEPT !.status = "done"]
                       = [found |-> a, at |-> b, status |-> "done"]
      OBVIOUS
    <3>. QED  BY <2>1, <2>3, <3>1
  <2>. QED  BY <2>1, <2>4
<1>10. ASSUME NEW k \in 1 .. max - (n + 1), k - 1 \in Done
       PROVE  k \in Done
  <2>1. n + 1 + k \in 1 .. max /\ (n + 1 + k) - 1 = n + 1 + (k - 1)
    OBVIOUS
  <2>2. R[n + 1 + (k - 1)] = End
    BY <1>10
  <2>3. R[n + 1 + k] = ParseString(m, Len(x), End)
    BY <1>2, <2>1, <2>2
  <2>4. ParseString(m, Len(x), End) = End
    BY DEF ParseString
  <2>. QED  BY <2>3, <2>4
<1>. HIDE DEF Done
<1>11. max - (n + 1) \in Done
  <2>1. max - (n + 1) \in Nat /\ \A k \in 1 .. max - (n + 1) : k - 1 \in Done => k \in Done
    BY <1>10
  <2>2. \A k \in 0 .. max - (n + 1) : k \in Done
    BY <1>9, <2>1, Upwards
  <2>. QED  BY <2>1, <2>2
<1>12. R[max] = End
  <2>1. n + 1 + (max - (n + 1)) = max
    OBVIOUS
  <2>. QED  BY <1>11, <2>1 DEF Done
<1>. QED  BY <1>5, <1>12 DEF m

(* And what is found was written.                                          *)
LEMMA FoundIsWritten ==
  ASSUME NEW T, NEW x \in Seq(T), NEW y \in Seq(T), Len(x) % 4 = 0, NEW max \in Nat,
         OSCParseStringList(x \o y, Len(x), max).ok
  PROVE  \E n \in 0 .. max - 1 : \E e : Begins(x, n, e) /\ e[n] = Len(x)
<1>. DEFINE m == x \o y
            R == Rounds(m, Len(x), max)
            On(k) == R[k].status = "on" => \E e : Begins(x, k, e) /\ e[k] = R[k].at
            Done(k) == R[k].status = "done" =>
                         \E n \in 0 .. k - 1 : \E e : Begins(x, n, e) /\ e[n] = Len(x)
            Fine == {k \in 0 .. max : On(k) /\ Done(k)}
<1>1. m \in Seq(T) /\ Len(x) \in Nat
  OBVIOUS
<1>2. /\ R \in [0 .. max -> Round] /\ R[0] = Start
      /\ \A k \in 1 .. max : R[k] = ParseString(m, Len(x), R[k - 1])
  BY <1>1, RoundsAre
<1>3. R[max].status = "done"
  <2>1. OSCParseStringList(m, Len(x), max) =
          IF R[max].status = "done" THEN [ok |-> TRUE, found |-> R[max].found]
          ELSE [ok |-> FALSE, found |-> <<>>]
    BY DEF OSCParseStringList, Rounds, Start
  <2>. QED  BY <2>1
<1>. HIDE DEF R, m
<1>4. 0 \in Fine
  <2>1. R[0].status = "on" /\ R[0].at = 0
    BY <1>2 DEF Start
  <2>. DEFINE none == [i \in 0 .. 0 |-> 0]
  <2>2. 0 \in Places(x)
    BY <1>1, PlacesAre
  <2>3. Begins(x, 0, none) /\ none[0] = 0
    BY <2>2 DEF Begins
  <2>. HIDE DEF none
  <2>. QED  BY <2>1, <2>3
<1>5. ASSUME NEW k \in 1 .. max, k - 1 \in Fine
      PROVE  k \in Fine
  <2>. DEFINE r == R[k - 1]
              after == DataAfterAlignedString(SubSeq(m, r.at + 1, Len(m)), Len(x) - r.at)
  <2>1. k - 1 \in 0 .. max /\ k \in 0 .. max /\ On(k - 1) /\ Done(k - 1)
    BY <1>5
  <2>2. R[k] = IF r.status # "on" THEN r
               ELSE IF r.at = Len(x) THEN [r EXCEPT !.status = "done"]
               ELSE IF after = 0 THEN [r EXCEPT !.status = "failed"]
               ELSE [found |-> Append(r.found, r.at + 1), at |-> r.at + after, status |-> "on"]
    BY <1>2 DEF ParseString
  <2>3. r \in Round
    BY <1>2, <2>1
  <2>. HIDE DEF r, after
  <2>4. CASE r.status # "on"
    <3>1. R[k] = r
      BY <2>2, <2>4
    <3>2. \A n \in 0 .. (k - 1) - 1 : n \in 0 .. k - 1
      OBVIOUS
    <3>3. On(k) /\ Done(k)
      BY <2>1, <2>4, <3>1, <3>2 DEF r
    <3>. QED  BY <2>1, <3>3
  <2>5. CASE r.status = "on"
    <3>1. PICK e : Begins(x, k - 1, e) /\ e[k - 1] = r.at
      BY <2>1, <2>5 DEF r
    <3>2. /\ e \in [0 .. k - 1 -> Places(x)] /\ e[0] = 0
          /\ \A i \in 1 .. k - 1 : Written(x, e[i - 1] + 1, e[i])
      BY <3>1 DEF Begins
    <3>3. r.at \in 0 .. Len(x) /\ r.at % 4 = 0
      <4>1. e[k - 1] \in Places(x)
        BY <2>1, <3>2
      <4>. QED  BY <3>1, <4>1, PlacesAre
    <3>4. CASE r.at = Len(x)
      <4>1. R[k].status = "done"
        BY <2>2, <2>3, <2>5, <3>4 DEF Round
      <4>2. k - 1 \in 0 .. k - 1
        OBVIOUS
      <4>3. On(k) /\ Done(k)
        BY <3>1, <3>4, <4>1, <4>2
      <4>. QED  BY <2>1, <4>3
    <3>5. CASE r.at # Len(x) /\ after = 0
      <4>1. R[k].status = "failed"
        BY <2>2, <2>3, <2>5, <3>5 DEF Round
      <4>2. On(k) /\ Done(k)
        BY <4>1
      <4>. QED  BY <2>1, <4>2
    <3>6. CASE r.at # Len(x) /\ after # 0
      <4>1. R[k].status = "on" /\ R[k].at = r.at + after
        BY <2>2, <2>3, <2>5, <3>6 DEF Round
      <4>2. /\ after \in 1 .. Len(x) - r.at /\ after % 4 = 0
            /\ Written(x, r.at + 1, r.at + after)
        <5>1. after = Skip(x, y, r.at)
          BY DEF after, m, Skip
        <5>2. Skip(x, y, r.at) # 0 =>
                /\ Skip(x, y, r.at) \in 1 .. Len(x) - r.at /\ Skip(x, y, r.at) % 4 = 0
                /\ Written(x, r.at + 1, r.at + Skip(x, y, r.at))
          BY <3>3, StringSkipped
        <5>. QED  BY <3>6, <5>1, <5>2
      <4>3. r.at + after \in Places(x)
        <5>1. r.at + after \in 0 .. Len(x) /\ (r.at + after) % 4 = 0
          <6>1. \A p, q, n \in Nat : p % 4 = 0 /\ q % 4 = 0 /\ q \in 1 .. n - p
                                     => p + q \in 0 .. n /\ (p + q) % 4 = 0
            OBVIOUS
          <6>2. r.at \in Nat /\ after \in Nat
            BY <1>1, <3>3, <4>2
          <6>. QED  BY <1>1, <3>3, <4>2, <6>1, <6>2
        <5>. QED  BY <5>1, PlacesAre
      <4>. DEFINE d == [i \in 0 .. k |-> IF i = k THEN r.at + after ELSE e[i]]
      <4>4. d \in [0 .. k -> Places(x)] /\ d[0] = 0 /\ d[k] = r.at + after
        <5>1. \A i \in 0 .. k : i # k => i \in 0 .. k - 1
          OBVIOUS
        <5>2. 0 \in 0 .. k /\ 0 # k /\ k \in 0 .. k
          OBVIOUS
        <5>. QED  BY <3>2, <4>3, <5>1, <5>2
      <4>5. ASSUME NEW i \in 1 .. k
            PROVE  Written(x, d[i - 1] + 1, d[i])
        <5>1. i - 1 \in 0 .. k /\ i - 1 # k /\ i \in 0 .. k /\ d[i - 1] = e[i - 1]
          OBVIOUS
        <5>2. CASE i = k
          BY <3>1, <4>2, <4>4, <5>1, <5>2
        <5>3. CASE i # k
          <6>1. i \in 1 .. k - 1 /\ d[i] = e[i]
            BY <5>1, <5>3
          <6>. QED  BY <3>2, <5>1, <6>1
        <5>. QED  BY <5>2, <5>3
      <4>6. Begins(x, k, d)
        BY <4>4, <4>5 DEF Begins
      <4>. HIDE DEF d
      <4>7. On(k) /\ Done(k)
        BY <4>1, <4>4, <4>6
      <4>. QED  BY <2>1, <4>7
    <3>. QED  BY <3>4, <3>5, <3>6
  <2>. QED  BY <2>4, <2>5
<1>. HIDE DEF Fine
<1>6. \A k \in 0 .. max : k \in Fine
  <2>1. \A k \in 1 .. max : k - 1 \in Fine => k \in Fine
    BY <1>5
  <2>. QED  BY <1>4, <2>1, Upwards
<1>. QED  BY <1>3, <1>6 DEF Fine

LEMMA ListsParsed ==
  ASSUME NEW T, NEW x \in Seq(T), NEW y \in Seq(T), Len(x) % 4 = 0, NEW max \in Nat
  PROVE  /\ OSCParseStringList(x \o y, Len(x), max).ok => \E n \in 0 .. max - 1 : Ends(x, n) # {}
         /\ \A n \in 0 .. max - 1 : \A e \in Ends(x, n) :
              OSCParseStringList(x \o y, Len(x), max)
                = [ok |-> TRUE, found |-> [i \in 1 .. n |-> e[i - 1] + 1]]
<1>1. \A n, e : e \in Ends(x, n) <=> Begins(x, n, e) /\ e[n] = Len(x)
  BY DEF Ends, Begins, Places
<1>2. ASSUME OSCParseStringList(x \o y, Len(x), max).ok
      PROVE  \E n \in 0 .. max - 1 : Ends(x, n) # {}
  <2>1. PICK n \in 0 .. max - 1 : \E e : Begins(x, n, e) /\ e[n] = Len(x)
    BY <1>2, FoundIsWritten
  <2>2. PICK e : Begins(x, n, e) /\ e[n] = Len(x)
    BY <2>1
  <2>. QED  BY <1>1, <2>2
<1>3. ASSUME NEW n \in 0 .. max - 1, NEW e \in Ends(x, n)
      PROVE  OSCParseStringList(x \o y, Len(x), max)
               = [ok |-> TRUE, found |-> [i \in 1 .. n |-> e[i - 1] + 1]]
  BY <1>1, <1>3, WrittenIsFound
<1>. QED  BY <1>2, <1>3

LEMMA FirstStringSkipped ==
  ASSUME NEW T, NEW x \in Seq(T), NEW y \in Seq(T), Len(x) % 4 = 0
  PROVE  LET after == DataAfterAlignedString(x \o y, Len(x))
         IN  /\ \A j \in 1 .. Len(x) : Written(x, 1, j) => after = j
             /\ after # 0 => /\ after \in 1 .. Len(x) /\ Written(x, 1, after)
                             /\ after = OSCPaddedStrlen(SubSeq(x, 1, FirstNul(x) - 1))
<1>. DEFINE after == DataAfterAlignedString(x \o y, Len(x))
<1>1. Len(x) \in Nat /\ SubSeq(x, 1, Len(x)) = x
  OBVIOUS
<1>2. PICK at \in 0 .. Len(x) : at = 0 /\ at % 4 = 0
  BY <1>1
<1>2a. at + 1 = 1 /\ Len(x) - at = Len(x) /\ \A j \in Nat : at + j = j /\ j - at = j
  BY <1>1, <1>2
<1>2b. after = Skip(x, y, at)
  <2>1. x \o y \in Seq(T) /\ SubSeq(x \o y, 1, Len(x \o y)) = x \o y
    OBVIOUS
  <2>. QED  BY <1>2a, <2>1 DEF Skip, after
<1>. HIDE DEF after
<1>3. /\ \A j \in 1 .. Len(x) : Written(x, 1, j) => after = j
      /\ after # 0 => /\ after \in 1 .. Len(x) /\ Written(x, 1, after)
                      /\ \E n \in 1 .. Len(x) : First(x, n) /\ after = Aligned(n)
  <2>1. /\ \A j \in at + 1 .. Len(x) : Written(x, at + 1, j) => Skip(x, y, at) = j - at
        /\ Skip(x, y, at) # 0 =>
              /\ Skip(x, y, at) \in 1 .. Len(x) - at /\ Skip(x, y, at) % 4 = 0
              /\ Written(x, at + 1, at + Skip(x, y, at))
              /\ \E n \in 1 .. Len(x) - at :
                    First(SubSeq(x, at + 1, Len(x)), n) /\ Skip(x, y, at) = Aligned(n)
    BY <1>2, StringSkipped
  <2>2. \A j \in 1 .. Len(x) : j \in Nat
    BY <1>1
  <2>. QED  BY <1>1, <1>2a, <1>2b, <2>1, <2>2
<1>4. ASSUME after # 0
      PROVE  after = OSCPaddedStrlen(SubSeq(x, 1, FirstNul(x) - 1))
  <2>1. PICK n \in 1 .. Len(x) : First(x, n) /\ after = Aligned(n)
    BY <1>1, <1>3, <1>4
  <2>2. FirstNul(x) = n
    BY <2>1, FirstNulIs
  <2>3. Len(SubSeq(x, 1, n - 1)) = n - 1
    BY <1>1
  <2>. QED  BY <1>1, <2>1, <2>2, <2>3 DEF OSCPaddedStrlen, Aligned
<1>. QED  BY <1>1, <1>3, <1>4 DEF after

LEMMA NiceStringSkipped ==
  ASSUME NEW T, NEW x \in Seq(T), NEW y \in Seq(T), Len(x) % 4 = 0,
         IsNiceString(x \o y, Len(x)), ~ NulFrom(y, 1, 4)
  PROVE  /\ DataAfterAlignedString(x \o y, Len(x)) # 0
         /\ \A i \in 1 .. FirstNul(x) - 1 : x[i] \notin NotPrinting
<1>. DEFINE m == x \o y
            p == FirstNul(m)
            l == Len(x)
<1>1. /\ m \in Seq(T) /\ l \in Nat /\ Len(y) \in Nat /\ DOMAIN m = 1 .. l + Len(y)
      /\ \A k \in 1 .. l : m[k] = x[k]
      /\ \A k \in 1 .. Len(y) : m[l + k] = y[k]
  OBVIOUS
<1>2. /\ HasNul(m) /\ p <= l + 1 /\ NulFrom(m, p + 1, Aligned(p))
      /\ \A i \in 1 .. p - 1 : m[i] \notin NotPrinting
  BY DEF IsNiceString
<1>3. First(m, p)
  BY <1>1, <1>2, FirstNulIs
<1>4. DataAfterAlignedString(m, l) = IF ~HasNul(m) \/ p > l THEN 0
                                     ELSE IF NulFrom(m, p + 1, Aligned(p)) THEN Aligned(p) ELSE 0
  BY DEF DataAfterAlignedString
<1>. HIDE DEF m, p, l
<1>5. p \in 1 .. l + Len(y)
  BY <1>1, <1>3 DEF First
<1>6. p <= l
  <2>1. SUFFICES ASSUME p = l + 1
                 PROVE  FALSE
    BY <1>1, <1>2, <1>5
  <2>2. Aligned(p) = l + 4
    BY <1>1, <2>1 DEF Aligned, l
  <2>3. ASSUME NEW k \in 1 .. 4
        PROVE  k \in DOMAIN y /\ y[k] = Nul
    <3>1. l + k \in DOMAIN m /\ m[l + k] = Nul
      <4>1. l + k = p \/ l + k \in p + 1 .. Aligned(p)
        BY <1>1, <2>1, <2>2
      <4>. QED  BY <1>2, <1>3, <4>1 DEF First, NulFrom
    <3>2. k \in 1 .. Len(y) /\ m[l + k] = y[k]
      <4>1. l + k \in 1 .. l + Len(y)
        BY <1>1, <3>1
      <4>2. l \in Nat /\ Len(y) \in Nat /\ k \in Nat \ {0}
        BY <1>1
      <4>3. k \in 1 .. Len(y)
        BY <4>1, <4>2
      <4>. QED  BY <1>1, <4>3
    <3>3. DOMAIN y = 1 .. Len(y)
      OBVIOUS
    <3>. QED  BY <3>1, <3>2, <3>3
  <2>. QED  BY <2>3 DEF NulFrom
<1>7. DataAfterAlignedString(m, l) # 0
  <2>1. Aligned(p) \in Nat /\ p <= Aligned(p)
    BY <1>1, <1>5, AlignedIs
  <2>. QED  BY <1>1, <1>2, <1>4, <1>5, <1>6, <2>1
<1>8. First(x, p)
  <2>1. p \in 1 .. l /\ \A k \in 1 .. p - 1 : k \in 1 .. l
    BY <1>1, <1>5, <1>6
  <2>2. m[p] = Nul /\ \A k \in 1 .. p - 1 : m[k] # Nul
    BY <1>3 DEF First
  <2>3. x[p] = Nul /\ \A k \in 1 .. p - 1 : x[k] # Nul
    BY <1>1, <2>1, <2>2
  <2>4. p \in DOMAIN x
    BY <2>1 DEF l
  <2>. QED  BY <2>3, <2>4 DEF First
<1>9. FirstNul(x) = p
  BY <1>8, FirstNulIs
<1>10. ASSUME NEW i \in 1 .. p - 1
       PROVE  x[i] \notin NotPrinting
  <2>1. i \in 1 .. l
    BY <1>1, <1>5, <1>6
  <2>. QED  BY <1>1, <1>2, <2>1
<1>. QED  BY <1>7, <1>9, <1>10 DEF m, l

BlocksInv == block \in Seq(Bytes) /\ behind \in Behind

LEMMA BlocksInvHolds == BlocksSpec => []BlocksInv
<1>1. BlocksInit => BlocksInv
  BY DEF BlocksInit, BlocksInv
<1>2. BlocksInv /\ [BlocksNext]_blockVars => BlocksInv'
  BY DEF BlocksInv, BlocksNext, Write, blockVars
<1>. QED  BY <1>1, <1>2, PTL DEF BlocksSpec

(* A string in a packet is skipped exactly when OSCPaddedStrcpy could have *)
(* written it, and OSCParseStringList is the inverse of writing strings    *)
(* one after the other, for any bytes in the block and behind it.          *)
THEOREM StringsReadAsWrittenTheorem ==
    BlocksAssumption => (BlocksSpec => []StringsReadAsWritten)
<1>. SUFFICES ASSUME BlocksAssumption
              PROVE  BlocksSpec => []StringsReadAsWritten
  OBVIOUS
<1>1. BlocksInv => StringsReadAsWritten
  <2>. SUFFICES ASSUME BlocksInv
                PROVE  StringsReadAsWritten
    OBVIOUS
  <2>1. block \in Seq(Bytes) /\ behind \in Seq(Bytes)
    BY DEF BlocksInv, BlocksAssumption
  <2>2. ReadsWhatIsWritten
    BY <2>1, FirstStringSkipped DEF ReadsWhatIsWritten, Memory, Whole
  <2>3. ParsesLists
    <3>1. ASSUME Whole, NEW max \in 0 .. MaxStrings
          PROVE  LET parsed == OSCParseStringList(Memory, Len(block), max)
                 IN  /\ parsed.ok => \E n \in 0 .. max - 1 : Ends(block, n) # {}
                     /\ \A n \in 0 .. max - 1 : \A e \in Ends(block, n) :
                           parsed = [ok |-> TRUE, found |-> [i \in 1 .. n |-> e[i - 1] + 1]]
      <4>1. max \in Nat
        BY DEF BlocksAssumption
      <4>. QED  BY <2>1, <3>1, <4>1, ListsParsed DEF Memory, Whole
    <3>. QED  BY <3>1 DEF ParsesLists
  <2>4. NiceStringsEnd
    BY <2>1, NiceStringSkipped DEF NiceStringsEnd, Memory, Whole
  <2>. QED  BY <2>2, <2>3, <2>4 DEF StringsReadAsWritten
<1>. QED  BY <1>1, BlocksInvHolds, PTL
=============================================================================
