------------------------- MODULE OscReceive_proofs -------------------------
(***************************************************************************)
(* Theorems about OscReceive, for pools of any size, packets of any depth, *)
(* any number of packets and any times: queued data, packet buffers and    *)
(* callback nodes are neither lost nor given out twice; the messages of a  *)
(* bundle take effect in their order and atomically, and each as often as  *)
(* asked, unless the memory was too short for it.                          *)
(***************************************************************************)
EXTENDS OscReceive, WellFoundedInduction, FiniteSetTheorems, SequenceTheorems, TLAPS

-----------------------------------------------------------------------------
(* The elements of packets: a set that is closed under taking a bundle     *)
(* apart, and has the bundles of OSCScheduleInternalMessages.  There is    *)
(* such a set for any packets that are trees.                              *)
WellFormed(E) ==
    /\ \A el \in E : el.kind \in {"message", "bundle", "short", "bad", "odd"}
    /\ \A el \in E : el.kind = "message" =>
         el.methods \in Nat /\ (el.schedules # NoTime => el.schedules \in Nat)
    /\ \A el \in E : el.kind = "bundle" => el.timetag \in Nat /\ el.elems \in Seq(E)
    /\ \A t \in Nat : /\ InternalBundle(t, <<InternalMessage>>) \in E
                      /\ InternalBundle(t, <<InternalMessage, InternalMessage>>) \in E

PacketsWellFormed == \E E : WellFormed(E) /\ Packets \subseteq E /\ InternalMessage \in E

Elements == CHOOSE E : WellFormed(E) /\ Packets \subseteq E /\ InternalMessage \in E

(* None, which stands for a null pointer, is no record.                    *)
NoneIsNoRecord ==
    /\ \A x, y, z : None # [qd |-> x, next |-> y, idle |-> z]
    /\ \A w, x, y, z : None # [now |-> w, tag |-> x, all |-> y, qd |-> z]
    /\ \A v, w, x, y, z : None # [timetag |-> v, buf |-> w, path |-> x, el |-> y, callbacks |-> z]

Assumptions == ReceiveAssumption /\ PacketsWellFormed /\ NoneIsNoRecord

-----------------------------------------------------------------------------
(* The inductive invariant.                                                *)
QueuedData == [timetag : Nat, buf : Buffers, path : Seq(Nat), el : Elements, callbacks : Int]

(* What a sequence holds, of queued data or of free buffers.               *)
Queued(list) == {list[i] : i \in DOMAIN list}

CallTypes == [now : Nat, tag : Nat, all : BOOLEAN, qd : QueuedData \cup {None}]
ParseTypes == [qd : QueuedData, next : Nat \ {0}, idle : BOOLEAN]

Types ==
    /\ q \in [list : Seq(QueuedData), scanIndex : Nat]
    /\ freePackets \in Seq(Buffers) /\ refcount \in [Buffers -> Nat]
    /\ freeQDs \in Nat /\ freeNodes \in Nat
    /\ lastTimeTag \in Nat /\ timePassed \in BOOLEAN /\ clock \in Nat
    /\ held \in Buffers \cup {NoBuffer}
    /\ call \in CallTypes \cup {None} /\ parse \in ParseTypes \cup {None}
    /\ accepted \in Seq([el : Elements, timetag : Nat])

InQueueOK(x) ==
    \/ x.el.kind = "bundle" /\ x.callbacks = NotDispatched
    \/ x.el.kind = "message" /\ (x.callbacks = NotDispatched \/ x.callbacks \in Nat \ {0})

(* Where queued data are: each in one place.                               *)
Distinct(list) == \A i, j \in DOMAIN list : list[i] = list[j] => i = j

Places ==
    /\ Distinct(q.list) /\ \A x \in Queued(q.list) : InQueueOK(x)
    /\ \A x \in InHand : x \notin Queued(q.list)
    /\ call # None /\ call.qd # None =>
         parse = None /\ call.qd.el.kind = "message" /\ call.qd.callbacks \in Nat
    /\ parse # None =>
         /\ parse.qd.el.kind = "bundle" /\ parse.qd.callbacks = NotDispatched
         /\ parse.next <= Len(parse.qd.el.elems) + 1
         /\ parse.idle => call = None /\ q.scanIndex \in DOMAIN q.list /\ q.list[q.scanIndex] = parse.qd

(* The pools, for any set of live queued data.                             *)
Accounts(live, qds, refs, nodes) ==
    /\ IsFiniteSet(live) /\ qds + Cardinality(live) = NumQD
    /\ \A b \in Buffers : refs[b] = Cardinality({x \in live : x.buf = b})
    /\ IsFiniteSet(NodesInUse(live)) /\ nodes + Cardinality(NodesInUse(live)) = NumNodes

FreeListOf(free, refs, h) ==
    /\ Distinct(free)
    /\ \A b \in Buffers : b \in Queued(free) => refs[b] = 0 /\ h # b
    /\ h # NoBuffer => refs[h] = 0
    /\ ~OddCame => \A b \in Buffers : refs[b] = 0 /\ h # b => b \in Queued(free)

FreeList == FreeListOf(freePackets, refcount, held)

(* No live object is inside of another one, but for the elements of the    *)
(* bundle that is parsed; so no two have the same path.                    *)
Apart(live, top, next) ==
    \A x, y \in live : x # y /\ Leads(x.path, y.path) =>
        x.path = top /\ \E k \in 1 .. next - 1 : y.path = Append(top, k)

Rooted(live, n) == \A x \in live : x.path # <<>> /\ x.path[1] <= n

Top == IF parse = None THEN <<>> ELSE parse.qd.path
NextPart == IF parse = None THEN 1 ELSE parse.next

Paths == Apart(Live, Top, NextPart) /\ Rooted(Live, Len(accepted))

ReceiveInv ==
    /\ Types /\ Places /\ FreeList /\ Paths
    /\ Accounts(Live, freeQDs, refcount, freeNodes)

-----------------------------------------------------------------------------
(* Lemmas about the pools, for any set of queued data.                     *)
UniquePaths(live) == \A x, y \in live : x.path = y.path => x = y

LEMMA NodesOfOne ==
  ASSUME NEW p, NEW n \in Int
  PROVE  /\ IsFiniteSet({p} \X (1 .. n))
         /\ Cardinality({p} \X (1 .. n)) = Max2(n, 0)
<1>. DEFINE f == [k \in 1 .. n |-> <<p, k>>]
<1>1. IsFiniteSet(1 .. n) /\ Cardinality(1 .. n) = Max2(n, 0)
  BY FS_Interval DEF Max2
<1>2. f \in Bijection(1 .. n, {p} \X (1 .. n))
  <2>1. f \in [1 .. n -> {p} \X (1 .. n)] /\ \A k \in 1 .. n : f[k] = <<p, k>>
    OBVIOUS
  <2>. HIDE DEF f
  <2>2. \A k, m \in 1 .. n : f[k] = f[m] => k = m
    BY <2>1
  <2>3. ASSUME NEW e \in {p} \X (1 .. n) PROVE \E k \in 1 .. n : f[k] = e
    <3>1. PICK k \in 1 .. n : e = <<p, k>>
      OBVIOUS
    <3>. QED  BY <2>1, <3>1
  <2>4. f \in Injection(1 .. n, {p} \X (1 .. n))
    BY <2>1, <2>2 DEF Injection, IsInjective
  <2>5. f \in Surjection(1 .. n, {p} \X (1 .. n))
    BY <2>1, <2>3 DEF Surjection
  <2>. QED  BY <2>4, <2>5 DEF Bijection
<1>3. ExistsBijection(1 .. n, {p} \X (1 .. n))
  BY <1>2 DEF ExistsBijection
<1>. QED  BY <1>1, <1>3, FS_Bijection

LEMMA NodesAdd ==
  ASSUME NEW L \in SUBSET QueuedData, IsFiniteSet(NodesInUse(L)),
         NEW x \in QueuedData, \A y \in L : y.path # x.path
  PROVE  /\ IsFiniteSet(NodesInUse(L \cup {x}))
         /\ Cardinality(NodesInUse(L \cup {x})) = Cardinality(NodesInUse(L)) + Max2(x.callbacks, 0)
<1>. DEFINE N == {x.path} \X (1 .. x.callbacks)
            M == NodesInUse(L)
<1>1. IsFiniteSet(N) /\ Cardinality(N) = Max2(x.callbacks, 0)
  BY NodesOfOne DEF QueuedData
<1>2. NodesInUse(L \cup {x}) = M \cup N
  BY DEF NodesInUse
<1>3. M \cap N = {}
  <2>1. \A e \in N : e[1] = x.path
    OBVIOUS
  <2>2. \A e \in M : e[1] # x.path
    BY DEF NodesInUse
  <2>. QED  BY <2>1, <2>2
<1>. HIDE DEF M, N
<1>4. Cardinality(M \cap N) = 0
  BY <1>3, FS_EmptySet
<1>5. IsFiniteSet(M) /\ Cardinality(M) \in Nat /\ Cardinality(N) \in Nat
  BY <1>1, FS_CardinalityType DEF M
<1>6. IsFiniteSet(M \cup N) /\ Cardinality(M \cup N) = Cardinality(M) + Cardinality(N) - Cardinality(M \cap N)
  BY <1>1, <1>5, FS_Union
<1>7. Cardinality(M \cup N) = Cardinality(M) + Max2(x.callbacks, 0)
  BY <1>1, <1>4, <1>5, <1>6
<1>. QED  BY <1>2, <1>6, <1>7 DEF M

(* One more live object.                                                   *)
LEMMA AddLive ==
  ASSUME NEW L \in SUBSET QueuedData, NEW qds \in Int, NEW refs \in [Buffers -> Nat], NEW nodes \in Int,
         Accounts(L, qds, refs, nodes), NEW x \in QueuedData, \A y \in L : y.path # x.path
  PROVE  Accounts(L \cup {x}, qds - 1, [refs EXCEPT ![x.buf] = @ + 1], nodes - Max2(x.callbacks, 0))
<1>1. IsFiniteSet(L) /\ x \notin L /\ Cardinality(L) \in Nat
  BY FS_CardinalityType DEF Accounts
<1>2. IsFiniteSet(L \cup {x}) /\ Cardinality(L \cup {x}) = Cardinality(L) + 1
  BY <1>1, FS_AddElement
<1>3. /\ IsFiniteSet(NodesInUse(L \cup {x}))
      /\ Cardinality(NodesInUse(L \cup {x})) = Cardinality(NodesInUse(L)) + Max2(x.callbacks, 0)
  BY NodesAdd DEF Accounts
<1>4. Cardinality(NodesInUse(L)) \in Nat /\ Max2(x.callbacks, 0) \in Nat
  BY FS_CardinalityType DEF Accounts, Max2, QueuedData
<1>5. x.buf \in Buffers
  BY DEF QueuedData
<1>6. ASSUME NEW b \in Buffers
      PROVE  [refs EXCEPT ![x.buf] = @ + 1][b] = Cardinality({y \in L \cup {x} : y.buf = b})
  <2>. DEFINE S == {y \in L : y.buf = b}
  <2>1. IsFiniteSet(S) /\ refs[b] = Cardinality(S) /\ x \notin S
    BY <1>1, FS_Subset DEF Accounts
  <2>2. CASE b = x.buf
    <3>1. {y \in L \cup {x} : y.buf = b} = S \cup {x}
      BY <2>2
    <3>2. Cardinality(S \cup {x}) = Cardinality(S) + 1
      BY <2>1, FS_AddElement
    <3>. QED  BY <1>5, <2>1, <2>2, <3>1, <3>2
  <2>3. CASE b # x.buf
    <3>1. {y \in L \cup {x} : y.buf = b} = S
      BY <2>3
    <3>. QED  BY <1>5, <2>1, <2>3, <3>1
  <2>. QED  BY <2>2, <2>3
<1>7. /\ qds - 1 + Cardinality(L \cup {x}) = NumQD
      /\ nodes - Max2(x.callbacks, 0) + Cardinality(NodesInUse(L \cup {x})) = NumNodes
  BY <1>1, <1>2, <1>3, <1>4 DEF Accounts
<1>. QED  BY <1>2, <1>3, <1>6, <1>7 DEF Accounts

(* One live object less.                                                   *)
LEMMA RemoveLive ==
  ASSUME NEW L \in SUBSET QueuedData, NEW qds \in Int, NEW refs \in [Buffers -> Nat], NEW nodes \in Int,
         Accounts(L, qds, refs, nodes), UniquePaths(L), NEW x \in L
  PROVE  /\ Accounts(L \ {x}, qds + 1, [refs EXCEPT ![x.buf] = @ - 1], nodes + Max2(x.callbacks, 0))
         /\ refs[x.buf] > 0 /\ [refs EXCEPT ![x.buf] = @ - 1] \in [Buffers -> Nat]
<1>1. IsFiniteSet(L) /\ Cardinality(L) \in Nat
  BY FS_CardinalityType DEF Accounts
<1>2. IsFiniteSet(L \ {x}) /\ Cardinality(L \ {x}) = Cardinality(L) - 1
  BY <1>1, FS_RemoveElement
<1>. DEFINE R == L \ {x}
<1>3. R \in SUBSET QueuedData /\ x \in QueuedData /\ L = R \cup {x} /\ \A y \in R : y.path # x.path
  BY DEF UniquePaths
<1>4. IsFiniteSet(NodesInUse(R))
  <2>1. NodesInUse(R) \subseteq NodesInUse(L)
    BY DEF NodesInUse
  <2>. QED  BY <2>1, FS_Subset DEF Accounts
<1>5. Cardinality(NodesInUse(L)) = Cardinality(NodesInUse(R)) + Max2(x.callbacks, 0)
  <2>. HIDE DEF R
  <2>1. Cardinality(NodesInUse(R \cup {x})) = Cardinality(NodesInUse(R)) + Max2(x.callbacks, 0)
    BY <1>3, <1>4, NodesAdd
  <2>. QED  BY <1>3, <2>1
<1>6. Cardinality(NodesInUse(R)) \in Nat /\ Max2(x.callbacks, 0) \in Nat
  BY <1>3, <1>4, FS_CardinalityType DEF Max2, QueuedData
<1>7. x.buf \in Buffers
  BY DEF QueuedData
<1>8. ASSUME NEW b \in Buffers
      PROVE  /\ [refs EXCEPT ![x.buf] = @ - 1][b] = Cardinality({y \in R : y.buf = b})
             /\ b = x.buf => refs[b] > 0
  <2>. DEFINE S == {y \in L : y.buf = b}
  <2>1. IsFiniteSet(S) /\ refs[b] = Cardinality(S) /\ Cardinality(S) \in Nat
    BY <1>1, FS_Subset DEF Accounts
  <2>2. CASE b = x.buf
    <3>1. {y \in R : y.buf = b} = S \ {x} /\ x \in S
      BY <2>2
    <3>2. Cardinality(S \ {x}) = Cardinality(S) - 1
      BY <2>1, <3>1, FS_RemoveElement
    <3>3. Cardinality(S \ {x}) \in Nat
      BY <2>1, FS_RemoveElement, FS_CardinalityType
    <3>4. [refs EXCEPT ![x.buf] = @ - 1][b] = refs[b] - 1
      BY <1>7, <2>2
    <3>. HIDE DEF S
    <3>5. refs[b] - 1 = Cardinality(S \ {x}) /\ refs[b] > 0
      BY <2>1, <3>2, <3>3
    <3>6. Cardinality({y \in R : y.buf = b}) = Cardinality(S \ {x})
      BY <3>1
    <3>. HIDE DEF R
    <3>. QED  BY <3>4, <3>5, <3>6
  <2>3. CASE b # x.buf
    <3>1. {y \in R : y.buf = b} = S
      BY <2>3
    <3>. QED  BY <1>7, <2>1, <2>3, <3>1
  <2>. QED  BY <2>2, <2>3
<1>9. refs[x.buf] > 0 /\ [refs EXCEPT ![x.buf] = @ - 1] \in [Buffers -> Nat]
  <2>1. refs[x.buf] > 0
    BY <1>7, <1>8
  <2>2. refs[x.buf] - 1 \in Nat
    BY <1>7, <2>1
  <2>. QED  BY <1>7, <2>1, <2>2
<1>10. /\ qds + 1 + Cardinality(R) = NumQD
       /\ nodes + Max2(x.callbacks, 0) + Cardinality(NodesInUse(R)) = NumNodes
  BY <1>1, <1>2, <1>5, <1>6 DEF Accounts
<1>. QED  BY <1>2, <1>4, <1>8, <1>9, <1>10 DEF Accounts

(* The number of callbacks of an object changes.                           *)
LEMMA ChangeLive ==
  ASSUME NEW L \in SUBSET QueuedData, NEW qds \in Int, NEW refs \in [Buffers -> Nat], NEW nodes \in Int,
         Accounts(L, qds, refs, nodes), UniquePaths(L), NEW x \in L,
         NEW y \in QueuedData, y.path = x.path, y.buf = x.buf
  PROVE  Accounts((L \ {x}) \cup {y}, qds, refs, nodes + Max2(x.callbacks, 0) - Max2(y.callbacks, 0))
<1>. DEFINE R == L \ {x}
            less == [refs EXCEPT ![x.buf] = @ - 1]
            free == nodes + Max2(x.callbacks, 0)
<1>1. Accounts(R, qds + 1, less, free) /\ less \in [Buffers -> Nat]
  BY RemoveLive
<1>2. R \in SUBSET QueuedData /\ \A z \in R : z.path # y.path
  BY DEF UniquePaths
<1>3. free \in Int /\ x.buf \in Buffers
  BY DEF QueuedData, Max2
<1>4. [less EXCEPT ![y.buf] = @ + 1] = refs
  <2>1. \A b \in Buffers : [less EXCEPT ![x.buf] = @ + 1][b] = refs[b]
    BY <1>3
  <2>2. [less EXCEPT ![x.buf] = @ + 1] \in [Buffers -> Int]
    BY <1>1, <1>3
  <2>. QED  BY <2>1, <2>2
<1>. DEFINE more == qds + 1
<1>5. more \in Int /\ more - 1 = qds /\ Accounts(R, more, less, free)
  BY <1>1
<1>. HIDE DEF R, less, free, more
<1>6. Accounts(R \cup {y}, more - 1, [less EXCEPT ![y.buf] = @ + 1], free - Max2(y.callbacks, 0))
  BY <1>1, <1>2, <1>3, <1>5, AddLive
<1>7. Accounts(R \cup {y}, qds, refs, free - Max2(y.callbacks, 0))
  BY <1>4, <1>5, <1>6
<1>8. R \cup {y} = (L \ {x}) \cup {y}
  BY DEF R
<1>9. free - Max2(y.callbacks, 0) = nodes + Max2(x.callbacks, 0) - Max2(y.callbacks, 0)
  <2>1. Max2(x.callbacks, 0) \in Int /\ Max2(y.callbacks, 0) \in Int
    BY DEF Max2, QueuedData
  <2>. QED  BY <2>1 DEF free
<1>. QED  BY <1>7, <1>8, <1>9

-----------------------------------------------------------------------------
(* Lemmas about paths.                                                     *)
LEMMA PathType == ASSUME NEW x \in QueuedData PROVE x.path \in Seq(Nat)
BY DEF QueuedData

LEMMA ApartUnique ==
  ASSUME NEW L \in SUBSET QueuedData, NEW top, NEW next, Apart(L, top, next)
  PROVE  UniquePaths(L)
<1> SUFFICES ASSUME NEW x \in L, NEW y \in L, x.path = y.path, x # y PROVE FALSE
  BY DEF UniquePaths
<1>1. x.path \in Seq(Nat) /\ y.path \in Seq(Nat)
  BY PathType
<1>2. Leads(x.path, y.path)
  BY <1>1 DEF Leads
<1>3. PICK k \in 1 .. next - 1 : y.path = Append(x.path, k)
  BY <1>2 DEF Apart
<1>4. Len(Append(x.path, k)) = Len(x.path) + 1
  BY <1>1
<1>. QED  BY <1>1, <1>3, <1>4

(* An element of the bundle that is parsed.                                *)
LEMMA ApartElement ==
  ASSUME NEW L \in SUBSET QueuedData, NEW t \in L, NEW k \in Nat \ {0}, Apart(L, t.path, k),
         NEW c \in QueuedData, c.path = Append(t.path, k)
  PROVE  Apart(L \cup {c}, t.path, k + 1) /\ \A x \in L : x.path # c.path
<1>. DEFINE p == t.path
<1>1. p \in Seq(Nat) /\ Len(p) \in Nat /\ p = t.path
  BY PathType
<1>2. UniquePaths(L)
  BY ApartUnique
<1>3. /\ c.path \in Seq(Nat) /\ Len(c.path) = Len(p) + 1 /\ c.path[Len(p) + 1] = k
      /\ \A i \in 1 .. Len(p) : c.path[i] = p[i]
  BY <1>1, PathType
<1>. HIDE DEF p
<1>4. ASSUME NEW x \in L, Leads(c.path, x.path) PROVE FALSE
  <2>1. x.path \in Seq(Nat) /\ Len(p) + 1 <= Len(x.path) /\ \A i \in 1 .. Len(p) + 1 : x.path[i] = c.path[i]
    BY <1>3, <1>4, PathType DEF Leads
  <2>2. Len(x.path) \in Nat /\ Len(p) <= Len(x.path) /\ Len(p) + 1 \in 1 .. Len(p) + 1
    BY <1>1, <2>1
  <2>3. \A i \in 1 .. Len(p) : i \in 1 .. Len(p) + 1
    BY <1>1
  <2>4. Leads(p, x.path) /\ x # t
    <3>1. \A i \in 1 .. Len(p) : x.path[i] = p[i]
      BY <1>3, <2>1, <2>3
    <3>2. Len(x.path) # Len(p)
      BY <1>1, <2>1, <2>2
    <3>. QED  BY <1>1, <2>2, <3>1, <3>2 DEF Leads
  <2>5. PICK j \in 1 .. k - 1 : x.path = Append(p, j)
    BY <1>1, <2>4 DEF Apart
  <2>6. x.path[Len(p) + 1] = j
    BY <1>1, <2>5
  <2>7. x.path[Len(p) + 1] = k
    BY <1>3, <2>1, <2>2
  <2>. QED  BY <2>6, <2>7
<1>5. ASSUME NEW x \in L, Leads(x.path, c.path) PROVE x.path = p
  <2>1. x.path \in Seq(Nat) /\ Len(x.path) \in Nat /\ Len(x.path) <= Len(p) + 1
    BY <1>3, <1>5, PathType DEF Leads
  <2>2. CASE Len(x.path) = Len(p) + 1
    <3>1. Leads(c.path, x.path)
      BY <1>3, <1>5, <2>1, <2>2 DEF Leads
    <3>. QED  BY <1>4, <3>1
  <2>3. CASE Len(x.path) <= Len(p)
    <3>1. Leads(x.path, p)
      BY <1>1, <1>3, <1>5, <2>1, <2>3 DEF Leads
    <3>2. x # t => x.path = p
      BY <1>1, <3>1 DEF Apart
    <3>. QED  BY <1>1, <3>2
  <2>. QED  BY <1>1, <2>1, <2>2, <2>3
<1>6. \A x \in L : x.path # c.path
  BY <1>4, <1>3, SMTT(20) DEF Leads
<1>7. ASSUME NEW x \in L \cup {c}, NEW y \in L \cup {c}, x # y, Leads(x.path, y.path)
      PROVE  x.path = p /\ \E j \in 1 .. (k + 1) - 1 : y.path = Append(p, j)
  <2>1. CASE x \in L /\ y \in L
    <3>1. x.path = p /\ \E j \in 1 .. k - 1 : y.path = Append(p, j)
      BY <1>1, <1>7, <2>1 DEF Apart
    <3>. QED  BY <3>1
  <2>2. CASE x \in L /\ y = c
    <3>1. Leads(x.path, c.path)
      BY <1>7, <2>2
    <3>2. x.path = p
      BY <1>5, <2>2, <3>1
    <3>3. c.path = Append(p, k) /\ k \in 1 .. (k + 1) - 1
      BY <1>1
    <3>. QED  BY <2>2, <3>2, <3>3
  <2>3. CASE x = c
    BY <1>4, <1>7, <2>3
  <2>. QED  BY <2>1, <2>2, <2>3
<1>8. Apart(L \cup {c}, p, k + 1)
  BY <1>7 DEF Apart
<1>. QED  BY <1>1, <1>6, <1>8

(* A packet that comes in.                                                 *)
LEMMA ApartPacket ==
  ASSUME NEW L \in SUBSET QueuedData, NEW top, NEW next, Apart(L, top, next),
         NEW n \in Nat, Rooted(L, n), NEW c \in QueuedData, c.path = <<n + 1>>
  PROVE  /\ Apart(L \cup {c}, top, next) /\ Rooted(L \cup {c}, n + 1)
         /\ \A x \in L : x.path # c.path
<1>1. ASSUME NEW x \in L
      PROVE  x.path \in Seq(Nat) /\ Len(x.path) >= 1 /\ x.path[1] <= n /\ x.path[1] \in Nat
  <2>1. x.path \in Seq(Nat) /\ x.path # <<>> /\ x.path[1] <= n
    BY PathType DEF Rooted
  <2>2. 1 \in 1 .. Len(x.path)
    BY <2>1
  <2>. QED  BY <2>1, <2>2
<1>2. Len(c.path) = 1 /\ c.path[1] = n + 1 /\ c.path # <<>>
  OBVIOUS
<1>3. \A x \in L : ~Leads(x.path, c.path) /\ ~Leads(c.path, x.path)
  BY <1>1, <1>2 DEF Leads
<1>4. Apart(L \cup {c}, top, next)
  BY <1>3 DEF Apart
<1>5. Rooted(L \cup {c}, n + 1)
  BY <1>1, <1>2 DEF Rooted
<1>. QED  BY <1>1, <1>2, <1>4, <1>5

LEMMA ApartLess ==
  ASSUME NEW L, NEW M \in SUBSET L, NEW top, NEW next, Apart(L, top, next), NEW n, Rooted(L, n)
  PROVE  Apart(M, top, next) /\ Rooted(M, n)
BY DEF Apart, Rooted

LEMMA RootedMore ==
  ASSUME NEW L \in SUBSET QueuedData, NEW n \in Nat, Rooted(L, n) PROVE Rooted(L, n + 1)
<1> SUFFICES ASSUME NEW x \in L PROVE x.path # <<>> /\ x.path[1] <= n + 1
  BY DEF Rooted
<1>1. x.path \in Seq(Nat) /\ x.path # <<>> /\ x.path[1] <= n
  BY PathType DEF Rooted
<1>2. 1 \in 1 .. Len(x.path)
  BY <1>1
<1>. QED  BY <1>1, <1>2

(* The next element of the bundle is dropped.                              *)
LEMMA ApartSkip ==
  ASSUME NEW L, NEW top, NEW k \in Nat \ {0}, Apart(L, top, k) PROVE Apart(L, top, k + 1)
<1>1. 1 .. k - 1 \subseteq 1 .. (k + 1) - 1
  OBVIOUS
<1>. QED  BY <1>1 DEF Apart

(* Between two bundles nothing leads to anything.                          *)
LEMMA ApartBegin ==
  ASSUME NEW L, NEW top, NEW p, Apart(L, top, 1) PROVE Apart(L, p, 1)
BY DEF Apart

LEMMA ApartEnd ==
  ASSUME NEW L \in SUBSET QueuedData, NEW t \in L, NEW k, Apart(L, t.path, k)
  PROVE  Apart(L \ {t}, <<>>, 1)
<1>1. UniquePaths(L)
  BY ApartUnique
<1>. QED  BY <1>1 DEF Apart, UniquePaths

(* The number of callbacks changes.                                        *)
LEMMA ApartChange ==
  ASSUME NEW L, NEW x \in L, NEW y, y.path = x.path, NEW top, NEW next, Apart(L, top, next),
         UniquePaths(L), NEW n, Rooted(L, n)
  PROVE  Apart((L \ {x}) \cup {y}, top, next) /\ Rooted((L \ {x}) \cup {y}, n)
<1>1. Rooted((L \ {x}) \cup {y}, n)
  BY DEF Rooted
<1>2. ASSUME NEW u \in (L \ {x}) \cup {y}, NEW v \in (L \ {x}) \cup {y}, u # v, Leads(u.path, v.path)
      PROVE  u.path = top /\ \E k \in 1 .. next - 1 : v.path = Append(top, k)
  <2>. DEFINE a == IF u = y THEN x ELSE u
              b == IF v = y THEN x ELSE v
  <2>1. a \in L /\ b \in L /\ a.path = u.path /\ b.path = v.path
    OBVIOUS
  <2>2. a # b
    BY <1>2
  <2>. QED  BY <1>2, <2>1, <2>2 DEF Apart
<1>. QED  BY <1>1, <1>2 DEF Apart

-----------------------------------------------------------------------------
(* Lemmas about the queue.                                                 *)
LEMMA QueuedAppend ==
  ASSUME NEW list \in Seq(QueuedData), Distinct(list), NEW x \in QueuedData, x \notin Queued(list)
  PROVE  /\ Append(list, x) \in Seq(QueuedData) /\ Distinct(Append(list, x))
         /\ Queued(Append(list, x)) = Queued(list) \cup {x}
         /\ \A i \in DOMAIN list : i \in DOMAIN Append(list, x) /\ Append(list, x)[i] = list[i]
<1>. DEFINE more == Append(list, x)
<1>1. /\ more \in Seq(QueuedData) /\ Len(list) \in Nat /\ DOMAIN list = 1 .. Len(list)
      /\ DOMAIN more = 1 .. Len(list) + 1
      /\ \A i \in 1 .. Len(list) : more[i] = list[i]
      /\ more[Len(list) + 1] = x
  BY AppendProperties
<1>. HIDE DEF more
<1>2. Queued(more) = Queued(list) \cup {x}
  <2>1. \A i \in DOMAIN more : i \in DOMAIN list \/ i = Len(list) + 1
    BY <1>1
  <2>2. \A i \in DOMAIN list : i \in DOMAIN more
    BY <1>1
  <2>3. Len(list) + 1 \in DOMAIN more
    BY <1>1
  <2>4. ASSUME NEW e \in Queued(more) PROVE e \in Queued(list) \cup {x}
    BY <1>1, <2>1 DEF Queued
  <2>5. ASSUME NEW e \in Queued(list) \cup {x} PROVE e \in Queued(more)
    BY <1>1, <2>2, <2>3 DEF Queued
  <2>. QED  BY <2>4, <2>5
<1>3. Distinct(more)
  <2> SUFFICES ASSUME NEW i \in DOMAIN more, NEW j \in DOMAIN more, more[i] = more[j] PROVE i = j
    BY DEF Distinct
  <2>1. CASE i \in DOMAIN list /\ j \in DOMAIN list
    BY <1>1, <2>1 DEF Distinct
  <2>2. CASE i \in DOMAIN list /\ j = Len(list) + 1
    BY <1>1, <2>2 DEF Queued
  <2>3. CASE i = Len(list) + 1 /\ j \in DOMAIN list
    BY <1>1, <2>3 DEF Queued
  <2>. QED  BY <1>1, <2>1, <2>2, <2>3
<1>4. \A i \in DOMAIN list : i \in DOMAIN more /\ more[i] = list[i]
  BY <1>1
<1>. QED  BY <1>1, <1>2, <1>3, <1>4 DEF more

LEMMA QueuedRemove ==
  ASSUME NEW list \in Seq(QueuedData), Distinct(list), NEW g \in DOMAIN list
  PROVE  /\ RemoveElement(g, list) \in Seq(QueuedData) /\ Distinct(RemoveElement(g, list))
         /\ Queued(RemoveElement(g, list)) = Queued(list) \ {list[g]}
<1>. DEFINE less == RemoveElement(g, list)
            Was(k) == IF k < g THEN k ELSE k + 1
            Now(k) == IF k < g THEN k ELSE k - 1
<1>1. /\ less \in Seq(QueuedData) /\ Len(less) = Len(list) - 1 /\ Len(list) \in Nat /\ g \in Nat
      /\ DOMAIN list = 1 .. Len(list) /\ DOMAIN less = 1 .. Len(list) - 1
      /\ \A i \in 1 .. Len(list) - 1 : less[i] = IF i < g THEN list[i] ELSE list[i + 1]
  BY DEF RemoveElement
<1>. HIDE DEF less
<1>2. ASSUME NEW i \in DOMAIN less PROVE Was(i) \in DOMAIN list /\ Was(i) # g /\ less[i] = list[Was(i)]
  BY <1>1
<1>3. ASSUME NEW i \in DOMAIN list, i # g PROVE Now(i) \in DOMAIN less /\ Was(Now(i)) = i
  BY <1>1, <1>3
<1>4. ASSUME NEW i \in DOMAIN less, NEW j \in DOMAIN less, Was(i) = Was(j) PROVE i = j
  BY <1>1, <1>4
<1>. HIDE DEF Was, Now
<1>5. Distinct(less)
  BY <1>2, <1>4 DEF Distinct
<1>6. Queued(less) \subseteq Queued(list) \ {list[g]}
  BY <1>2 DEF Queued, Distinct
<1>7. ASSUME NEW e \in Queued(list) \ {list[g]} PROVE e \in Queued(less)
  <2>1. PICK i \in DOMAIN list : e = list[i]
    BY DEF Queued
  <2>2. i # g
    BY <2>1
  <2>3. Now(i) \in DOMAIN less /\ less[Now(i)] = e
    BY <1>2, <1>3, <2>1, <2>2
  <2>. QED  BY <2>3 DEF Queued
<1>. QED  BY <1>1, <1>5, <1>6, <1>7 DEF less

LEMMA QueuedChange ==
  ASSUME NEW list \in Seq(QueuedData), Distinct(list), NEW i \in DOMAIN list,
         NEW y \in QueuedData, y \notin Queued(list)
  PROVE  /\ [list EXCEPT ![i] = y] \in Seq(QueuedData) /\ Distinct([list EXCEPT ![i] = y])
         /\ Queued([list EXCEPT ![i] = y]) = (Queued(list) \ {list[i]}) \cup {y}
<1>. DEFINE new == [list EXCEPT ![i] = y]
<1>1. /\ new \in Seq(QueuedData) /\ DOMAIN new = DOMAIN list /\ new[i] = y
      /\ \A j \in DOMAIN list : j # i => new[j] = list[j]
  BY ExceptSeq
<1>. HIDE DEF new
<1>2. \A j \in DOMAIN list : list[j] # y
  BY DEF Queued
<1>3. Distinct(new)
  BY <1>1, <1>2 DEF Distinct
<1>4. Queued(new) \subseteq (Queued(list) \ {list[i]}) \cup {y}
  BY <1>1 DEF Queued, Distinct
<1>5. ASSUME NEW e \in (Queued(list) \ {list[i]}) \cup {y} PROVE e \in Queued(new)
  BY <1>1 DEF Queued
<1>. QED  BY <1>1, <1>3, <1>4, <1>5 DEF new

LEMMA QueuedCard ==
  ASSUME NEW list \in Seq(QueuedData), Distinct(list)
  PROVE  IsFiniteSet(Queued(list)) /\ Cardinality(Queued(list)) = Len(list)
<1>1. Len(list) \in Nat /\ DOMAIN list = 1 .. Len(list)
  OBVIOUS
<1>2. IsFiniteSet(1 .. Len(list)) /\ Cardinality(1 .. Len(list)) = Len(list)
  BY <1>1, FS_Interval
<1>3. list \in [1 .. Len(list) -> Queued(list)]
  BY <1>1 DEF Queued
<1>4. list \in Injection(1 .. Len(list), Queued(list))
  BY <1>1, <1>3 DEF Injection, IsInjective, Distinct
<1>5. list \in Surjection(1 .. Len(list), Queued(list))
  BY <1>1, <1>3 DEF Surjection, Queued
<1>6. ExistsBijection(1 .. Len(list), Queued(list))
  BY <1>4, <1>5 DEF Bijection, ExistsBijection
<1>. QED  BY <1>2, <1>6, FS_Bijection

LEMMA RoomForMore ==
  ASSUME ReceiveAssumption, NEW list \in Seq(QueuedData), Distinct(list), NEW L, Queued(list) \subseteq L,
         NEW qds \in Nat, qds > 0, NEW refs, NEW nodes, Accounts(L, qds, refs, nodes)
  PROVE  Len(list) < CAPACITY
<1>1. IsFiniteSet(L) /\ Cardinality(L) \in Nat /\ qds + Cardinality(L) = NumQD
  BY FS_CardinalityType DEF Accounts
<1>2. Len(list) <= Cardinality(L) /\ Len(list) \in Nat
  BY <1>1, QueuedCard, FS_Subset
<1>3. NumQD \in Nat /\ NumQD <= CAPACITY /\ CAPACITY \in Nat
  BY QueueAssumption DEF ReceiveAssumption
<1>. QED  BY <1>1, <1>2, <1>3

(* A set of numbers that is not empty has a least one.                     *)
LEMMA LeastNatural ==
  ASSUME NEW T \in SUBSET Nat, T # {}
  PROVE  \E x \in T : \A y \in T : x <= y
<1>. DEFINE R == OpToRel(<, Nat)
<1>1. \E x \in T : \A y \in T : <<y, x>> \notin R
  <2>. HIDE DEF R
  <2>1. IsWellFoundedOn(R, Nat)
    BY NatLessThanWellFounded DEF R
  <2>. QED  BY <2>1, WFMin
<1>2. R = {ss \in Nat \X Nat : ss[1] < ss[2]}
  BY DEF OpToRel
<1>. HIDE DEF R
<1>3. ASSUME NEW x \in T, NEW y \in T, <<y, x>> \notin R
      PROVE  x <= y
  BY <1>2, <1>3
<1>. QED  BY <1>1, <1>3

(* There is an earliest object, the first of those with its time tag.      *)
LEMMA SmallestIndexInDomain ==
  ASSUME NEW list \in Seq(QueuedData), list # <<>>
  PROVE  /\ SmallestIndex(list) \in DOMAIN list
         /\ \A j \in DOMAIN list :
              /\ list[SmallestIndex(list)].timetag <= list[j].timetag
              /\ j < SmallestIndex(list) => list[SmallestIndex(list)].timetag < list[j].timetag
<1>. DEFINE First(i) == \A j \in DOMAIN list :
                           /\ list[i].timetag <= list[j].timetag
                           /\ j < i => list[i].timetag < list[j].timetag
<1>1. DOMAIN list \in SUBSET Nat /\ DOMAIN list # {}
  OBVIOUS
<1>2. ASSUME NEW i \in DOMAIN list PROVE list[i].timetag \in Nat
  <2>1. list[i] \in QueuedData
    OBVIOUS
  <2>. QED  BY <2>1 DEF QueuedData
<1>3. PICK t \in TagsOf(list) : \A u \in TagsOf(list) : t <= u
  <2>1. TagsOf(list) \in SUBSET Nat
    BY <1>2 DEF TagsOf
  <2>2. TagsOf(list) # {}
    BY <1>1 DEF TagsOf
  <2>. QED  BY <2>1, <2>2, LeastNatural
<1>. DEFINE I == {i \in DOMAIN list : list[i].timetag = t}
<1>4. PICK i \in I : \A j \in I : i <= j
  <2>1. I \in SUBSET Nat /\ I # {}
    BY <1>1, <1>3 DEF TagsOf
  <2>. QED  BY <2>1, LeastNatural
<1>5. First(i)
  <2>. SUFFICES ASSUME NEW j \in DOMAIN list
                PROVE  /\ list[i].timetag <= list[j].timetag
                       /\ j < i => list[i].timetag < list[j].timetag
    OBVIOUS
  <2>1. t <= list[j].timetag
    BY <1>3 DEF TagsOf
  <2>2. j < i => list[j].timetag # t
    BY <1>1, <1>4
  <2>. QED  BY <2>1, <2>2, <1>2, <1>4
<1>. HIDE DEF First
<1>6. SmallestIndex(list) = CHOOSE k \in DOMAIN list : First(k)
  BY DEF SmallestIndex, First
<1>7. SmallestIndex(list) \in DOMAIN list /\ First(SmallestIndex(list))
  BY <1>4, <1>5, <1>6
<1>. QED  BY <1>7 DEF First

LEMMA EarliestTagType ==
  ASSUME NEW queue, queue.list \in Seq(QueuedData)
  PROVE  /\ OSCQueueEarliestTimeTag(queue) \in TagsOf(queue.list) \cup {Biggest}
         /\ OSCQueueEarliestTimeTag(queue) \in Nat
         /\ \A u \in TagsOf(queue.list) \cup {Biggest} : OSCQueueEarliestTimeTag(queue) <= u
<1>. DEFINE T == TagsOf(queue.list) \cup {Biggest}
<1>1. T \in SUBSET Nat /\ T # {}
  <2>1. \A i \in DOMAIN queue.list : queue.list[i] \in QueuedData
    OBVIOUS
  <2>2. TagsOf(queue.list) \in SUBSET Nat
    BY <2>1 DEF TagsOf, QueuedData
  <2>. QED  BY <2>2, QueueAssumption
<1>. HIDE DEF T
<1>2. PICK t \in T : \A u \in T : t <= u
  BY <1>1, LeastNatural
<1>3. OSCQueueEarliestTimeTag(queue) = CHOOSE x \in T : \A u \in T : x <= u
  BY DEF OSCQueueEarliestTimeTag, T
<1>4. OSCQueueEarliestTimeTag(queue) \in T /\ \A u \in T : OSCQueueEarliestTimeTag(queue) <= u
  BY <1>2, <1>3
<1>. QED  BY <1>1, <1>4 DEF T

-----------------------------------------------------------------------------
(* Lemmas about the free packet buffers.                                   *)
LEMMA QueuedPush ==
  ASSUME NEW free \in Seq(Buffers), Distinct(free), NEW b \in Buffers, b \notin Queued(free)
  PROVE  /\ <<b>> \o free \in Seq(Buffers) /\ Distinct(<<b>> \o free)
         /\ Queued(<<b>> \o free) = Queued(free) \cup {b}
<1>. DEFINE more == <<b>> \o free
<1>1. /\ more \in Seq(Buffers) /\ Len(free) \in Nat
      /\ DOMAIN free = 1 .. Len(free) /\ DOMAIN more = 1 .. Len(free) + 1
      /\ more[1] = b /\ \A i \in 1 .. Len(free) : more[i + 1] = free[i]
  OBVIOUS
<1>. HIDE DEF more
<1>2. ASSUME NEW i \in DOMAIN more
      PROVE  i \in Nat /\ (i # 1 => i - 1 \in DOMAIN free /\ more[i] = free[i - 1])
  <2>1. i \in Nat /\ i >= 1 /\ i <= Len(free) + 1 /\ (i - 1) + 1 = i
    BY <1>1
  <2>2. i # 1 => i - 1 \in 1 .. Len(free)
    BY <1>1, <2>1
  <2>3. i # 1 => more[(i - 1) + 1] = free[i - 1]
    BY <1>1, <2>2
  <2>4. i # 1 => more[i] = free[i - 1]
    BY <2>1, <2>3
  <2>5. i - 1 \in 1 .. Len(free) => i - 1 \in DOMAIN free
    BY <1>1
  <2>. QED  BY <2>1, <2>2, <2>4, <2>5
<1>3. Queued(more) \subseteq Queued(free) \cup {b}
  BY <1>1, <1>2 DEF Queued
<1>4. ASSUME NEW e \in Queued(free) \cup {b} PROVE e \in Queued(more)
  <2>1. CASE e = b
    BY <1>1, <2>1 DEF Queued
  <2>2. CASE e \in Queued(free)
    <3>1. PICK i \in DOMAIN free : e = free[i]
      BY <2>2 DEF Queued
    <3>2. i + 1 \in DOMAIN more /\ more[i + 1] = e
      BY <1>1, <3>1
    <3>. QED  BY <3>2 DEF Queued
  <2>. QED  BY <2>1, <2>2
<1>5. Distinct(more)
  <2> SUFFICES ASSUME NEW i \in DOMAIN more, NEW j \in DOMAIN more, more[i] = more[j] PROVE i = j
    BY DEF Distinct
  <2>1. CASE i = 1 /\ j = 1
    BY <2>1
  <2>2. CASE i = 1 /\ j # 1
    BY <1>1, <1>2, <2>2 DEF Queued
  <2>3. CASE i # 1 /\ j = 1
    BY <1>1, <1>2, <2>3 DEF Queued
  <2>4. CASE i # 1 /\ j # 1
    <3>1. i - 1 = j - 1 /\ i \in Nat /\ j \in Nat
      BY <1>2, <2>4 DEF Distinct
    <3>. QED  BY <3>1
  <2>. QED  BY <2>1, <2>2, <2>3, <2>4
<1>. QED  BY <1>1, <1>3, <1>4, <1>5 DEF more

LEMMA QueuedTail ==
  ASSUME NEW free \in Seq(Buffers), Distinct(free), free # <<>>
  PROVE  /\ Tail(free) \in Seq(Buffers) /\ Distinct(Tail(free)) /\ Head(free) \in Buffers
         /\ Head(free) \in Queued(free) /\ Queued(Tail(free)) = Queued(free) \ {Head(free)}
<1>. DEFINE less == Tail(free)
<1>1. /\ less \in Seq(Buffers) /\ Len(free) \in Nat /\ Len(free) >= 1
      /\ DOMAIN free = 1 .. Len(free) /\ DOMAIN less = 1 .. Len(free) - 1
      /\ Head(free) = free[1] /\ \A i \in 1 .. Len(free) - 1 : less[i] = free[i + 1]
  BY HeadTailProperties
<1>. HIDE DEF less
<1>2. ASSUME NEW i \in DOMAIN less PROVE i + 1 \in DOMAIN free /\ i + 1 # 1 /\ less[i] = free[i + 1] /\ i \in Nat
  BY <1>1
<1>3. Distinct(less)
  <2> SUFFICES ASSUME NEW i \in DOMAIN less, NEW j \in DOMAIN less, less[i] = less[j] PROVE i = j
    BY DEF Distinct
  <2>1. i + 1 = j + 1 /\ i \in Nat /\ j \in Nat
    BY <1>2 DEF Distinct
  <2>. QED  BY <2>1
<1>4. 1 \in DOMAIN free /\ free[1] \in Buffers
  BY <1>1
<1>5. Queued(less) \subseteq Queued(free) \ {free[1]}
  BY <1>2, <1>4 DEF Queued, Distinct
<1>6. ASSUME NEW e \in Queued(free) \ {free[1]} PROVE e \in Queued(less)
  <2>1. PICK i \in DOMAIN free : e = free[i]
    BY DEF Queued
  <2>2. i - 1 \in DOMAIN less /\ less[i - 1] = e
    BY <1>1, <2>1
  <2>. QED  BY <2>2 DEF Queued
<1>7. free[1] \in Queued(free)
  BY <1>4 DEF Queued
<1>. QED  BY <1>1, <1>3, <1>4, <1>5, <1>6, <1>7 DEF less

(* The buffer that is held goes back.                                      *)
LEMMA FreeListReturn ==
  ASSUME ReceiveAssumption, NEW free \in Seq(Buffers), NEW refs \in [Buffers -> Nat], NEW h \in Buffers,
         FreeListOf(free, refs, h)
  PROVE  <<h>> \o free \in Seq(Buffers) /\ FreeListOf(<<h>> \o free, refs, NoBuffer) /\ refs[h] = 0
<1>1. h # NoBuffer /\ refs[h] = 0 /\ h \notin Queued(free) /\ \A b \in Buffers : NoBuffer # b
  BY DEF FreeListOf, ReceiveAssumption
<1>2. /\ <<h>> \o free \in Seq(Buffers) /\ Distinct(<<h>> \o free)
      /\ Queued(<<h>> \o free) = Queued(free) \cup {h}
  BY <1>1, QueuedPush DEF FreeListOf
<1>. DEFINE more == <<h>> \o free
<1>. HIDE DEF more
<1>3. FreeListOf(more, refs, NoBuffer)
  BY <1>1, <1>2 DEF FreeListOf, more
<1>. QED  BY <1>1, <1>2, <1>3 DEF more

(* The first free buffer is taken, by the client or for a message.         *)
LEMMA FreeListTake ==
  ASSUME ReceiveAssumption, NEW free \in Seq(Buffers), NEW refs \in [Buffers -> Nat],
         NEW h \in Buffers \cup {NoBuffer}, FreeListOf(free, refs, h), free # <<>>
  PROVE  /\ Tail(free) \in Seq(Buffers) /\ Head(free) \in Buffers /\ refs[Head(free)] = 0
         /\ h = NoBuffer => FreeListOf(Tail(free), refs, Head(free))
         /\ FreeListOf(Tail(free), [refs EXCEPT ![Head(free)] = @ + 1], h)
<1>. DEFINE less == Tail(free)
            b == Head(free)
            new == [refs EXCEPT ![b] = @ + 1]
<1>1. /\ less \in Seq(Buffers) /\ Distinct(less) /\ b \in Buffers
      /\ b \in Queued(free) /\ Queued(less) = Queued(free) \ {b}
  BY QueuedTail DEF FreeListOf
<1>2. refs[b] = 0 /\ h # b /\ b # NoBuffer /\ \A c \in Buffers : NoBuffer # c
  BY <1>1 DEF FreeListOf, ReceiveAssumption
<1>. HIDE DEF less, b
<1>3. \A c \in Buffers : new[c] = IF c = b THEN 1 ELSE refs[c]
  BY <1>1, <1>2
<1>. HIDE DEF new
<1>4. h = NoBuffer => FreeListOf(less, refs, b)
  BY <1>1, <1>2 DEF FreeListOf
<1>5. FreeListOf(less, new, h)
  BY <1>1, <1>2, <1>3 DEF FreeListOf
<1>. QED  BY <1>1, <1>2, <1>4, <1>5 DEF less, b, new

(* One reference more to a buffer that is held or in use.                  *)
LEMMA FreeListAddRef ==
  ASSUME NEW free \in Seq(Buffers), NEW refs \in [Buffers -> Nat], NEW h \in Buffers \cup {NoBuffer},
         FreeListOf(free, refs, h), NEW b \in Buffers, h = b \/ refs[b] > 0,
         NEW next \in {h, NoBuffer}, next # b, h = b \/ next = h, NoBuffer \notin Buffers
  PROVE  /\ FreeListOf(free, [refs EXCEPT ![b] = @ + 1], next)
         /\ [refs EXCEPT ![b] = @ + 1] \in [Buffers -> Nat]
<1>. DEFINE new == [refs EXCEPT ![b] = @ + 1]
<1>1. \A c \in Buffers : new[c] = IF c = b THEN refs[c] + 1 ELSE refs[c]
  OBVIOUS
<1>2. new \in [Buffers -> Nat] /\ \A c \in Buffers : refs[c] \in Nat
  OBVIOUS
<1>. HIDE DEF new
<1>3. b \notin Queued(free) /\ new[b] # 0
  BY <1>1, <1>2 DEF FreeListOf
<1>4. \A c \in Buffers : c # b => (c # next <=> c # h)
  OBVIOUS
<1>5. \A c \in Buffers : c \in Queued(free) => new[c] = 0 /\ next # c
  BY <1>1, <1>3, <1>4 DEF FreeListOf
<1>6. next # NoBuffer => new[next] = 0
  BY <1>1 DEF FreeListOf
<1>7. ~OddCame => \A c \in Buffers : new[c] = 0 /\ next # c => c \in Queued(free)
  BY <1>1, <1>3, <1>4 DEF FreeListOf
<1>8. FreeListOf(free, new, next)
  BY <1>5, <1>6, <1>7 DEF FreeListOf
<1>. QED  BY <1>2, <1>8 DEF new

(* One reference less (PacketRemoveRef).                                   *)
LEMMA FreeListRemoveRef ==
  ASSUME NEW free \in Seq(Buffers), NEW refs \in [Buffers -> Nat], NEW h \in Buffers \cup {NoBuffer},
         FreeListOf(free, refs, h), NEW b \in Buffers, refs[b] > 0, NoBuffer \notin Buffers,
         NEW next, next = IF refs[b] = 1 THEN <<b>> \o free ELSE free
  PROVE  next \in Seq(Buffers) /\ FreeListOf(next, [refs EXCEPT ![b] = @ - 1], h)
<1>. DEFINE new == [refs EXCEPT ![b] = @ - 1]
<1>1. \A c \in Buffers : refs[c] \in Nat /\ new[c] = IF c = b THEN refs[c] - 1 ELSE refs[c]
  OBVIOUS
<1>2. b \notin Queued(free) /\ b # h /\ refs[b] # 0
  BY DEF FreeListOf
<1>. HIDE DEF new
<1>3. /\ next \in Seq(Buffers) /\ Distinct(next)
      /\ Queued(next) = IF refs[b] = 1 THEN Queued(free) \cup {b} ELSE Queued(free)
  BY <1>2, QueuedPush DEF FreeListOf
<1>4. new[b] = 0 <=> refs[b] = 1
  BY <1>1
<1>5. \A c \in Buffers : c \in Queued(next) => new[c] = 0 /\ h # c
  BY <1>1, <1>2, <1>3, <1>4 DEF FreeListOf
<1>6. h # NoBuffer => new[h] = 0
  BY <1>1, <1>2 DEF FreeListOf
<1>7. ~OddCame => \A c \in Buffers : new[c] = 0 /\ h # c => c \in Queued(next)
  BY <1>1, <1>2, <1>3, <1>4 DEF FreeListOf
<1>8. FreeListOf(next, new, h)
  BY <1>3, <1>5, <1>6, <1>7 DEF FreeListOf
<1>. QED  BY <1>3, <1>8 DEF new

-----------------------------------------------------------------------------
(* Lemmas about the state.                                                 *)

\* Packets that were accepted are not forgotten.
Grows == accepted' = accepted \/ \E e : accepted' = Append(accepted, e)

LEMMA OddStays == ASSUME ReceiveInv, Grows PROVE OddCame => OddCame'
<1>1. accepted \in Seq([el : Elements, timetag : Nat])
  BY DEF ReceiveInv, Types
<1>2. \A n \in DOMAIN accepted : n \in DOMAIN accepted' /\ accepted'[n] = accepted[n]
  BY <1>1 DEF Grows
<1>. QED  BY <1>2 DEF OddCame

LEMMA FreeListKept ==
  ASSUME FreeListOf(freePackets', refcount', held'), OddCame => OddCame'
  PROVE  FreeList'
BY DEF FreeList, FreeListOf

HandOf(c, p) ==
    {x \in {IF c = None THEN None ELSE c.qd, IF p = None \/ p.idle THEN None ELSE p.qd} : x # None}

LEMMA ElementsAre ==
  ASSUME PacketsWellFormed
  PROVE  WellFormed(Elements) /\ Packets \subseteq Elements /\ InternalMessage \in Elements
BY DEF PacketsWellFormed, Elements

LEMMA NoneIsNone ==
  ASSUME NoneIsNoRecord
  PROVE  None \notin QueuedData /\ None \notin CallTypes /\ None \notin ParseTypes
<1>1. \A x \in QueuedData : x = [timetag |-> x.timetag, buf |-> x.buf, path |-> x.path, el |-> x.el, callbacks |-> x.callbacks]
  BY DEF QueuedData
<1>2. \A x \in CallTypes : x = [now |-> x.now, tag |-> x.tag, all |-> x.all, qd |-> x.qd]
  BY DEF CallTypes
<1>3. \A x \in ParseTypes : x = [qd |-> x.qd, next |-> x.next, idle |-> x.idle]
  BY DEF ParseTypes
<1>. QED  BY <1>1, <1>2, <1>3 DEF NoneIsNoRecord

(* What is in hand: nothing, the message of the call or the bundle that is *)
(* parsed.                                                                 *)
LEMMA HandIs ==
  ASSUME NEW c \in CallTypes \cup {None}, NEW p \in ParseTypes \cup {None}, NoneIsNoRecord
  PROVE  /\ c = None \/ c.qd = None => (p = None => HandOf(c, p) = {})
         /\ c = None \/ c.qd = None => (p # None => HandOf(c, p) = IF p.idle THEN {} ELSE {p.qd})
         /\ c # None /\ c.qd # None => (p = None => HandOf(c, p) = {c.qd})
<1>1. p # None => p.idle \in BOOLEAN /\ p.qd # None
  BY NoneIsNone DEF ParseTypes
<1>. QED  BY <1>1 DEF HandOf

LEMMA InvFacts ==
  ASSUME Assumptions, ReceiveInv
  PROVE  /\ InHand = HandOf(call, parse) /\ Live = InHand \cup Queued(q.list)
         /\ Live \in SUBSET QueuedData /\ UniquePaths(Live) /\ Queued(q.list) \subseteq Live
         /\ \A x \in Live : x.path \in Seq(Nat) /\ x.buf \in Buffers /\ x.timetag \in Nat /\ x.el \in Elements
         /\ AtClient => InHand = {} /\ Live = Queued(q.list) /\ call = None /\ parse = None
         /\ call # None /\ call.qd # None => InHand = {call.qd} /\ call.qd \in Live /\ call \in CallTypes
         /\ parse # None => /\ parse.qd \in Live /\ InHand = IF parse.idle THEN {} ELSE {parse.qd}
                           /\ parse \in ParseTypes /\ (call = None \/ call.qd = None)
<1>. USE DEF ReceiveInv
<1>1. InHand = HandOf(call, parse)
  BY DEF InHand, HandOf
<1>2. Live = InHand \cup Queued(q.list)
  BY DEF Live, Queued
<1>3. call \in CallTypes \cup {None} /\ parse \in ParseTypes \cup {None} /\ q.list \in Seq(QueuedData)
  BY DEF Types
<1>4. AtClient => InHand = {} /\ call = None /\ parse = None
  BY <1>1, <1>3, HandIs DEF AtClient, Assumptions
<1>5. call # None /\ call.qd # None => InHand = {call.qd} /\ call \in CallTypes /\ call.qd \in QueuedData
  <2>1. call # None /\ call.qd # None => parse = None
    BY DEF Places
  <2>. QED  BY <1>1, <1>3, <2>1, HandIs DEF Assumptions, CallTypes
<1>6. parse # None => /\ InHand = IF parse.idle THEN {} ELSE {parse.qd}
                      /\ parse \in ParseTypes /\ (call = None \/ call.qd = None)
  <2>1. parse # None => call = None \/ call.qd = None
    BY DEF Places
  <2>. QED  BY <1>1, <1>3, <2>1, HandIs DEF Assumptions
<1>7. parse # None => parse.qd \in Live
  <2>1. parse # None /\ parse.idle => parse.qd \in Queued(q.list)
    BY DEF Places, Queued
  <2>. QED  BY <1>2, <1>6, <2>1
<1>8. Queued(q.list) \subseteq QueuedData
  BY <1>3 DEF Queued
<1>9. InHand \subseteq QueuedData
  <2>1. InHand \subseteq {IF call = None THEN None ELSE call.qd, IF parse = None \/ parse.idle THEN None ELSE parse.qd} \ {None}
    BY DEF InHand
  <2>2. call # None => call.qd \in QueuedData \cup {None}
    BY <1>3 DEF CallTypes
  <2>3. parse # None => parse.qd \in QueuedData
    BY <1>3 DEF ParseTypes
  <2>. QED  BY <2>1, <2>2, <2>3
<1>10. UniquePaths(Live)
  BY <1>2, <1>8, <1>9, ApartUnique DEF Paths
<1>11. \A x \in Live : x.path \in Seq(Nat) /\ x.buf \in Buffers /\ x.timetag \in Nat /\ x.el \in Elements
  BY <1>2, <1>8, <1>9 DEF QueuedData
<1>. HIDE DEF ReceiveInv
<1>. QED  BY <1>1, <1>2, <1>4, <1>5, <1>6, <1>7, <1>8, <1>9, <1>10, <1>11

LEMMA NewQDIs ==
  ASSUME PacketsWellFormed, NEW el \in Elements, el.kind \in {"message", "bundle"},
         NEW b \in Buffers, NEW enclosing \in Nat, NEW path \in Seq(Nat)
  PROVE  /\ NewQD(el, b, enclosing, path) \in QueuedData /\ InQueueOK(NewQD(el, b, enclosing, path))
         /\ NewQD(el, b, enclosing, path).path = path /\ NewQD(el, b, enclosing, path).buf = b
         /\ Max2(NewQD(el, b, enclosing, path).callbacks, 0) = 0
<1>1. TimeOf(el, enclosing) \in Nat
  BY ElementsAre DEF WellFormed, TimeOf
<1>. QED  BY <1>1 DEF NewQD, QueuedData, InQueueOK, NotDispatched, Max2

(* One more object in the queue.                                           *)
NewPath(L, x) == \A y \in L : y.path # x.path

LEMMA InsertOne ==
  ASSUME Assumptions, NEW list \in Seq(QueuedData), Distinct(list),
         NEW L \in SUBSET QueuedData, Queued(list) \subseteq L,
         NEW qds \in Nat, qds > 0, NEW refs \in [Buffers -> Nat], NEW nodes \in Nat,
         Accounts(L, qds, refs, nodes),
         NEW x \in QueuedData, Max2(x.callbacks, 0) = 0, NewPath(L, x)
  PROVE  /\ Len(list) # CAPACITY
         /\ Append(list, x) \in Seq(QueuedData) /\ Distinct(Append(list, x))
         /\ Queued(Append(list, x)) = Queued(list) \cup {x} /\ x \notin L
         /\ \A i \in DOMAIN list : i \in DOMAIN Append(list, x) /\ Append(list, x)[i] = list[i]
         /\ Accounts(L \cup {x}, qds - 1, [refs EXCEPT ![x.buf] = @ + 1], nodes)
<1>1. x \notin L /\ \A y \in L : y.path # x.path
  BY DEF NewPath
<1>2. Len(list) < CAPACITY /\ Len(list) \in Nat /\ CAPACITY \in Nat
  BY <1>1, RoomForMore, QueueAssumption DEF Assumptions
<1>3. /\ Append(list, x) \in Seq(QueuedData) /\ Distinct(Append(list, x))
      /\ Queued(Append(list, x)) = Queued(list) \cup {x}
      /\ \A i \in DOMAIN list : i \in DOMAIN Append(list, x) /\ Append(list, x)[i] = list[i]
  BY <1>1, QueuedAppend
<1>4. qds \in Int /\ nodes \in Int /\ nodes - Max2(x.callbacks, 0) = nodes
  OBVIOUS
<1>5. Accounts(L \cup {x}, qds - 1, [refs EXCEPT ![x.buf] = @ + 1], nodes - Max2(x.callbacks, 0))
  BY <1>1, <1>4, AddLive
<1>6. Accounts(L \cup {x}, qds - 1, [refs EXCEPT ![x.buf] = @ + 1], nodes)
  BY <1>4, <1>5
<1>. QED  BY <1>1, <1>2, <1>3, <1>6

-----------------------------------------------------------------------------
(* The invariant holds initially.                                          *)
LEMMA InvInit == ASSUME Assumptions, Init PROVE ReceiveInv
<1>. USE DEF Init, OSCInitReceive
<1>1. q.list = <<>> /\ q.scanIndex = 0 /\ q \in [list : Seq(QueuedData), scanIndex : Nat]
  BY DEF OSCNewQueue
<1>2. InHand = {} /\ Live = {} /\ Queued(q.list) = {}
  <2>1. InHand = {}
    BY DEF InHand
  <2>. QED  BY <1>1, <2>1 DEF Live, Queued
<1>. DEFINE N == Cardinality(Buffers)
<1>3. IsFiniteSet(Buffers) /\ N \in Nat
  BY FS_CardinalityType DEF Assumptions, ReceiveAssumption
<1>4. /\ freePackets \in [1 .. N -> Buffers]
      /\ \A i, j \in 1 .. N : freePackets[i] = freePackets[j] => i = j
      /\ refcount = [b \in Buffers |-> 0]
  BY DEF InitPackets
<1>. HIDE DEF N
<1>5. freePackets \in Seq(Buffers) /\ DOMAIN freePackets = 1 .. N
  BY <1>3, <1>4
<1>6. Types
  BY <1>1, <1>4, <1>5 DEF Types, Assumptions, ReceiveAssumption, InitQueuedData, InitCallbackListNodes
<1>7. Places
  BY <1>1, <1>2 DEF Places, Distinct
<1>8. Queued(freePackets) = Buffers
  <2>1. freePackets \in Injection(1 .. N, Buffers)
    BY <1>4 DEF Injection, IsInjective
  <2>2. Cardinality(1 .. N) = N
    BY <1>3, FS_Interval
  <2>3. freePackets \in Surjection(1 .. N, Buffers)
    BY <1>3, <2>1, <2>2, FS_Injection DEF N
  <2>. QED  BY <1>4, <1>5, <2>3 DEF Surjection, Queued
<1>9. FreeList
  BY <1>4, <1>5, <1>8 DEF FreeList, FreeListOf, Distinct, Assumptions, ReceiveAssumption
<1>10. Paths
  BY <1>2 DEF Paths, Apart, Rooted
<1>11. Accounts(Live, freeQDs, refcount, freeNodes)
  <2>1. IsFiniteSet(Live) /\ Cardinality(Live) = 0
    BY <1>2, FS_EmptySet
  <2>2. NodesInUse(Live) = {}
    BY <1>2 DEF NodesInUse
  <2>3. IsFiniteSet(NodesInUse(Live)) /\ Cardinality(NodesInUse(Live)) = 0
    BY <2>2, FS_EmptySet
  <2>4. \A b \in Buffers : refcount[b] = Cardinality({x \in Live : x.buf = b})
    <3>1. \A b \in Buffers : {x \in Live : x.buf = b} = {}
      BY <1>2
    <3>. QED  BY <1>4, <3>1, FS_EmptySet
  <2>5. freeQDs = NumQD /\ NumQD \in Nat /\ freeNodes = NumNodes /\ NumNodes \in Nat
    BY DEF InitQueuedData, InitCallbackListNodes, Assumptions, ReceiveAssumption
  <2>. QED
  <3>1. freeQDs + Cardinality(Live) = NumQD /\ freeNodes + Cardinality(NodesInUse(Live)) = NumNodes
    BY <2>1, <2>3, <2>5
  <3>. QED  BY <2>1, <2>3, <2>4, <3>1 DEF Accounts
<1>. QED  BY <1>6, <1>7, <1>9, <1>10, <1>11 DEF ReceiveInv

-----------------------------------------------------------------------------
(* Each action preserves it.                                               *)
LEMMA InvokeType ==
  ASSUME NEW queue, queue.list \in Seq(QueuedData), NEW now \in Nat, NEW all \in BOOLEAN
  PROVE  /\ Invoke(queue, now, all) \in CallTypes \cup {None}
         /\ Invoke(queue, now, all) # None => Invoke(queue, now, all).qd = None
<1>1. OSCQueueEarliestTimeTag(queue) \in Nat
  BY EarliestTagType
<1>. QED  BY <1>1 DEF Invoke, CallTypes

(* A call begins or ends with nothing in hand.                             *)
LEMMA InvNewCall ==
  ASSUME Assumptions, ReceiveInv, UNCHANGED <<q, pools, held, parse, accepted>>,
         parse = None, call = None \/ call.qd = None,
         call' \in CallTypes \cup {None}, call' # None => call'.qd = None,
         lastTimeTag' \in Nat, timePassed' \in BOOLEAN, clock' \in Nat
  PROVE  ReceiveInv'
<1>. USE DEF ReceiveInv
<1>1. InHand = {} /\ InHand' = {} /\ Live' = Live
  <2>1. call \in CallTypes \cup {None} /\ parse \in ParseTypes \cup {None}
    BY DEF Types
  <2>2. HandOf(call, parse) = {} /\ HandOf(call', parse) = {}
    BY <2>1, HandIs DEF Assumptions
  <2>. QED  BY <2>2 DEF InHand, HandOf, Live
<1>2. Types'
  BY DEF Types, pools
<1>3. Places'
  BY <1>1 DEF Places
<1>4. FreeList' /\ Accounts(Live, freeQDs, refcount, freeNodes)'
  BY <1>1 DEF FreeList, FreeListOf, OddCame, pools
<1>5. Paths'
  BY <1>1 DEF Paths, Top, NextPart
<1>. QED  BY <1>2, <1>3, <1>4, <1>5

LEMMA InvInvoke ==
  ASSUME Assumptions, ReceiveInv, NEW all \in BOOLEAN, OSCInvokeMessagesThatAreReady(all)
  PROVE  ReceiveInv'
<1>. USE DEF OSCInvokeMessagesThatAreReady
<1>1. clock + Lookahead \in Nat /\ clock \in Nat /\ q.list \in Seq(QueuedData)
  BY DEF ReceiveInv, Types, Assumptions, ReceiveAssumption
<1>2. /\ call' \in CallTypes \cup {None} /\ (call' # None => call'.qd = None)
      /\ lastTimeTag' \in Nat /\ timePassed' \in BOOLEAN /\ clock' \in Nat
  BY <1>1, InvokeType
<1>3. parse = None /\ call = None
  BY DEF AtClient
<1>4. UNCHANGED <<q, pools, held, parse, accepted>>
  OBVIOUS
<1>. HIDE DEF OSCInvokeMessagesThatAreReady
<1>. QED  BY <1>2, <1>3, <1>4, InvNewCall

LEMMA InvLoopDone ==
  ASSUME Assumptions, ReceiveInv, LoopDone
  PROVE  ReceiveInv'
<1>. USE DEF LoopDone
<1>1. /\ q.list \in Seq(QueuedData) /\ call \in CallTypes /\ parse = None /\ call.qd = None
      /\ lastTimeTag \in Nat /\ clock \in Nat
  BY DEF ReceiveInv, Types, InLoop
<1>2. call.now \in Nat /\ call.all \in BOOLEAN
  BY <1>1 DEF CallTypes
<1>3. /\ call' \in CallTypes \cup {None} /\ (call' # None => call'.qd = None)
      /\ lastTimeTag' \in Nat /\ timePassed' \in BOOLEAN /\ clock' \in Nat
  BY <1>1, <1>2, InvokeType
<1>4. UNCHANGED <<q, pools, held, parse, accepted>>
  OBVIOUS
<1>. HIDE DEF LoopDone
<1>. QED  BY <1>1, <1>3, <1>4, InvNewCall

LEMMA InvTick ==
  ASSUME Assumptions, ReceiveInv, Tick
  PROVE  ReceiveInv'
<1>. USE DEF ReceiveInv, Tick, pools
<1>1. InHand' = InHand /\ Live' = Live
  BY DEF InHand, Live
<1>2. Types'
  BY DEF Types
<1>. QED  BY <1>1, <1>2 DEF Places, FreeList, FreeListOf, OddCame, Paths, Top, NextPart

LEMMA InvAlloc ==
  ASSUME Assumptions, ReceiveInv, OSCAllocPacketBuffer
  PROVE  ReceiveInv'
<1>. USE DEF ReceiveInv, OSCAllocPacketBuffer
<1>1. InHand' = InHand /\ Live' = Live
  BY DEF InHand, Live
<1>2. /\ freePackets \in Seq(Buffers) /\ refcount \in [Buffers -> Nat] /\ held = NoBuffer
      /\ FreeListOf(freePackets, refcount, NoBuffer)
  BY DEF Types, FreeList
<1>3. /\ freePackets' \in Seq(Buffers) /\ held' \in Buffers /\ refcount[held'] = 0
      /\ FreeListOf(freePackets', refcount, held')
  BY <1>2, FreeListTake DEF Assumptions
<1>4. refcount' = refcount
  BY <1>2, <1>3
<1>5. Types'
  BY <1>2, <1>3, <1>4 DEF Types, times
<1>6. FreeList'
  BY <1>3, <1>4, FreeListKept, OddStays DEF Grows
<1>. QED  BY <1>1, <1>4, <1>5, <1>6 DEF Places, Paths, Top, NextPart

LEMMA InvFreePacket ==
  ASSUME Assumptions, ReceiveInv, OSCFreePacket
  PROVE  ReceiveInv'
<1>. USE DEF ReceiveInv, OSCFreePacket
<1>1. InHand' = InHand /\ Live' = Live
  BY DEF InHand, Live
<1>2. /\ freePackets \in Seq(Buffers) /\ refcount \in [Buffers -> Nat] /\ held \in Buffers
      /\ FreeListOf(freePackets, refcount, held)
  BY DEF Types, FreeList
<1>3. freePackets' \in Seq(Buffers) /\ FreeListOf(freePackets', refcount, NoBuffer)
  BY <1>2, FreeListReturn DEF Assumptions
<1>4. Types'
  BY <1>2, <1>3 DEF Types, times
<1>5. FreeList'
  BY <1>3, FreeListKept, OddStays DEF Grows
<1>. QED  BY <1>1, <1>4, <1>5 DEF Places, Paths, Top, NextPart

(* A packet comes in.                                                      *)
LEMMA InvAccept ==
  ASSUME Assumptions, ReceiveInv, NEW el \in Packets, OSCAcceptPacket(el)
  PROVE  ReceiveInv'
<1>. USE DEF OSCAcceptPacket
<1>1. /\ UNCHANGED <<freeNodes, lastTimeTag, clock, parse>>
      /\ accepted' = Append(accepted, [el |-> el, timetag |-> Immediately])
  OBVIOUS
<1>2. /\ call = None /\ parse = None /\ held \in Buffers /\ held' = NoBuffer /\ parse' = None
      /\ InHand = {} /\ Live = Queued(q.list)
  BY InvFacts DEF ReceiveInv, Types, AtClient
<1>. HIDE DEF OSCAcceptPacket
<1>3. /\ q \in [list : Seq(QueuedData), scanIndex : Nat] /\ q.list \in Seq(QueuedData) /\ q.scanIndex \in Nat
      /\ freePackets \in Seq(Buffers) /\ refcount \in [Buffers -> Nat] /\ freeQDs \in Nat /\ freeNodes \in Nat
      /\ lastTimeTag \in Nat /\ timePassed \in BOOLEAN /\ clock \in Nat
      /\ accepted \in Seq([el : Elements, timetag : Nat])
  BY DEF ReceiveInv, Types
<1>4. el \in Elements /\ Immediately \in Nat /\ NoBuffer \notin Buffers
  BY ElementsAre DEF Assumptions, ReceiveAssumption
<1>5. /\ accepted' \in Seq([el : Elements, timetag : Nat]) /\ Len(accepted) \in Nat
      /\ Len(accepted') = Len(accepted) + 1
  BY <1>1, <1>3, <1>4
<1>6. /\ Distinct(q.list) /\ \A y \in Queued(q.list) : InQueueOK(y)
      /\ FreeListOf(freePackets, refcount, held)
      /\ Apart(Live, <<>>, 1) /\ Rooted(Live, Len(accepted))
      /\ Accounts(Live, freeQDs, refcount, freeNodes)
  BY <1>2 DEF ReceiveInv, Places, FreeList, Paths, Top, NextPart
<1>7. Live \in SUBSET QueuedData
  BY InvFacts
<1>8. CASE /\ el.kind # "odd"
           /\ InsertBundleOrMessage(el, held, Immediately, <<Len(accepted) + 1>>)
           /\ call' = Invoke(q', lastTimeTag, TRUE) /\ timePassed' = TRUE
  <2>1. SUFFICES ASSUME /\ q' \in [list : Seq(QueuedData), scanIndex : Nat]
                        /\ freePackets' \in Seq(Buffers) /\ refcount' \in [Buffers -> Nat] /\ freeQDs' \in Nat,
                        Distinct(q'.list), \A y \in Queued(q'.list) : InQueueOK(y),
                        FreeListOf(freePackets', refcount', NoBuffer),
                        Apart(Queued(q'.list), <<>>, 1), Rooted(Queued(q'.list), Len(accepted) + 1),
                        Accounts(Queued(q'.list), freeQDs', refcount', freeNodes)
                 PROVE  ReceiveInv'
    <3>1. CASE Acceptable(el, Immediately)
      <4>. DEFINE x == NewQD(el, held, Immediately, <<Len(accepted) + 1>>)
                  more == Append(q.list, x)
      <4>1. el.kind \in {"message", "bundle"} /\ freeQDs > 0
        BY <3>1 DEF Acceptable
      <4>2. <<Len(accepted) + 1>> \in Seq(Nat)
        BY <1>5
      <4>3. /\ x \in QueuedData /\ InQueueOK(x) /\ x.path = <<Len(accepted) + 1>> /\ x.buf = held
            /\ Max2(x.callbacks, 0) = 0
        <5>. DEFINE path == <<Len(accepted) + 1>>
        <5>1. path \in Seq(Nat) /\ x = NewQD(el, held, Immediately, path) /\ PacketsWellFormed
          BY <4>2 DEF Assumptions
        <5>. HIDE DEF path, x
        <5>2. /\ x \in QueuedData /\ InQueueOK(x) /\ x.path = path /\ x.buf = held
              /\ Max2(x.callbacks, 0) = 0
          BY <1>2, <1>4, <4>1, <5>1, NewQDIs
        <5>. QED  BY <5>2 DEF path
      <4>. HIDE DEF x
      <4>4. /\ Apart(Live \cup {x}, <<>>, 1) /\ Rooted(Live \cup {x}, Len(accepted) + 1)
            /\ \A y \in Live : y.path # x.path
        BY <1>5, <1>6, <1>7, <4>3, ApartPacket
      <4>. DEFINE list == q.list
      <4>5. /\ list \in Seq(QueuedData) /\ Distinct(list) /\ Queued(list) \subseteq Live
            /\ freeQDs \in Nat /\ freeQDs > 0 /\ refcount \in [Buffers -> Nat] /\ freeNodes \in Nat
            /\ NewPath(Live, x)
        BY <1>2, <1>3, <1>6, <4>1, <4>4 DEF NewPath
      <4>. HIDE DEF list, more
      <4>6. /\ Len(list) # CAPACITY
             /\ Append(list, x) \in Seq(QueuedData) /\ Distinct(Append(list, x))
             /\ Queued(Append(list, x)) = Queued(list) \cup {x}
             /\ Accounts(Live \cup {x}, freeQDs - 1, [refcount EXCEPT ![x.buf] = @ + 1], freeNodes)
        BY <1>6, <1>7, <4>3, <4>5, InsertOne
      <4>7. /\ Len(q.list) # CAPACITY
            /\ more \in Seq(QueuedData) /\ Distinct(more) /\ Queued(more) = Queued(q.list) \cup {x}
            /\ Accounts(Queued(more), freeQDs - 1, [refcount EXCEPT ![x.buf] = @ + 1], freeNodes)
        BY <1>2, <4>6 DEF more, list
      <4>8. /\ q' = [q EXCEPT !.list = more] /\ freeQDs' = freeQDs - 1
            /\ refcount' = [refcount EXCEPT ![held] = @ + 1] /\ freePackets' = freePackets
        BY <1>8, <3>1, <4>7 DEF InsertBundleOrMessage, OSCQueueFull, OSCQueueInsert, AllocQD, PacketAddRef, x, more
      <4>9. q' \in [list : Seq(QueuedData), scanIndex : Nat] /\ q'.list = more
        BY <1>3, <4>7, <4>8
      <4>10. freeQDs' \in Nat
        BY <1>3, <4>1, <4>8
      <4>11. FreeListOf(freePackets', refcount', NoBuffer) /\ refcount' \in [Buffers -> Nat]
        BY <1>2, <1>3, <1>4, <1>6, <4>8, FreeListAddRef
      <4>12. Accounts(Queued(more), freeQDs', refcount', freeNodes)
        BY <4>3, <4>7, <4>8
      <4>13. Queued(more) = Live \cup {x} /\ \A y \in Queued(more) : InQueueOK(y)
        BY <1>2, <1>6, <4>3, <4>7
      <4>14. Distinct(q'.list) /\ Queued(q'.list) = Queued(more)
        BY <4>7, <4>9
      <4>. QED  BY <1>3, <2>1, <4>4, <4>8, <4>9, <4>10, <4>11, <4>12, <4>13, <4>14
    <3>2. CASE ~Acceptable(el, Immediately)
      <4>1. <<held>> \o freePackets \in Seq(Buffers) /\ FreeListOf(<<held>> \o freePackets, refcount, NoBuffer) /\ refcount[held] = 0
        BY <1>2, <1>3, <1>6, FreeListReturn DEF Assumptions
      <4>2. UNCHANGED <<q, freeQDs, refcount>> /\ freePackets' = <<held>> \o freePackets
        BY <1>8, <3>2, <4>1 DEF InsertBundleOrMessage
      <4>3. Rooted(Live, Len(accepted) + 1)
        BY <1>5, <1>6, <1>7, RootedMore
      <4>. QED  BY <1>2, <1>3, <1>6, <2>1, <4>1, <4>2, <4>3
    <3>. QED  BY <3>1, <3>2
  <2>2. q'.list \in Seq(QueuedData)
    BY <2>1
  <2>3. call' \in CallTypes \cup {None} /\ (call' # None => call'.qd = None)
    BY <1>3, <1>8, <2>2, InvokeType
  <2>4. InHand' = {} /\ Live' = Queued(q'.list)
    <3>1. InHand' = {}
      BY <1>2, <2>3 DEF InHand
    <3>. QED  BY <3>1 DEF Live, Queued
  <2>5. Types'
    BY <1>1, <1>2, <1>3, <1>5, <1>8, <2>1, <2>3 DEF Types
  <2>6. Places'
    BY <1>2, <2>1, <2>3, <2>4 DEF Places
  <2>7. FreeList'
    BY <1>1, <1>2, <2>1, FreeListKept, OddStays DEF Grows
  <2>8. Paths'
    BY <1>2, <1>5, <2>1, <2>4 DEF Paths, Top, NextPart
  <2>9. Accounts(Live, freeQDs, refcount, freeNodes)'
    BY <1>1, <2>1, <2>4
  <2>. QED  BY <2>5, <2>6, <2>7, <2>8, <2>9 DEF ReceiveInv
<1>9. CASE el.kind = "odd" /\ UNCHANGED <<q, freeQDs, refcount, freePackets, call, timePassed>>
  <2>1. InHand' = InHand /\ Live' = Live
    BY <1>2, <1>9 DEF InHand, Live
  <2>2. OddCame'
    <3>1. /\ Len(accepted) + 1 \in DOMAIN accepted'
          /\ accepted'[Len(accepted) + 1] = [el |-> el, timetag |-> Immediately]
      BY <1>1, <1>3
    <3>. QED  BY <1>9, <3>1 DEF OddCame
  <2>3. FreeList'
    BY <1>2, <1>4, <1>6, <1>9, <2>2 DEF FreeList, FreeListOf
  <2>4. Rooted(Live, Len(accepted) + 1)
    BY <1>5, <1>6, <1>7, RootedMore
  <2>5. Paths'
    BY <1>2, <1>5, <1>6, <2>1, <2>4 DEF Paths, Top, NextPart
  <2>6. Types'
    BY <1>1, <1>2, <1>3, <1>5, <1>9 DEF ReceiveInv, Types
  <2>7. Places'
    BY <1>2, <1>9, <2>1 DEF ReceiveInv, Places
  <2>8. Accounts(Live, freeQDs, refcount, freeNodes)'
    BY <1>1, <1>6, <1>9, <2>1
  <2>. QED  BY <2>3, <2>5, <2>6, <2>7, <2>8 DEF ReceiveInv
<1>. QED  BY <1>8, <1>9 DEF OSCAcceptPacket

(* What the state says of the bundle that is parsed.                       *)
LEMMA ParseFacts ==
  ASSUME Assumptions, ReceiveInv, parse # None
  PROVE  /\ parse \in ParseTypes /\ parse.qd \in Live /\ parse.qd \in QueuedData
         /\ parse.qd.el.kind = "bundle" /\ parse.qd.el.elems \in Seq(Elements)
         /\ parse.next \in Nat \ {0} /\ parse.next <= Len(parse.qd.el.elems) + 1
         /\ parse.qd.timetag \in Nat /\ parse.qd.path \in Seq(Nat) /\ parse.qd.buf \in Buffers
         /\ parse.qd.callbacks = NotDispatched
         /\ call = None \/ call.qd = None
         /\ InHand = IF parse.idle THEN {} ELSE {parse.qd}
         /\ parse.idle => call = None /\ q.scanIndex \in DOMAIN q.list /\ q.list[q.scanIndex] = parse.qd
         /\ parse.idle \in BOOLEAN
         /\ Apart(Live, parse.qd.path, parse.next)
<1>1. /\ parse \in ParseTypes /\ parse.qd \in Live /\ parse.qd \in QueuedData
      /\ call = None \/ call.qd = None
      /\ InHand = IF parse.idle THEN {} ELSE {parse.qd}
  BY InvFacts
<1>2. parse.idle \in BOOLEAN /\ parse.next \in Nat \ {0}
  BY <1>1 DEF ParseTypes
<1>3. /\ parse.qd.el.kind = "bundle" /\ parse.qd.callbacks = NotDispatched
      /\ parse.next <= Len(parse.qd.el.elems) + 1
      /\ parse.idle => call = None /\ q.scanIndex \in DOMAIN q.list /\ q.list[q.scanIndex] = parse.qd
  BY DEF ReceiveInv, Places
<1>4. /\ parse.qd.timetag \in Nat /\ parse.qd.path \in Seq(Nat) /\ parse.qd.buf \in Buffers
      /\ parse.qd.el \in Elements
  BY <1>1 DEF QueuedData
<1>5. parse.qd.el.elems \in Seq(Elements)
  BY <1>3, <1>4, ElementsAre DEF WellFormed, Assumptions
<1>6. Apart(Live, parse.qd.path, parse.next)
  BY DEF ReceiveInv, Paths, Top, NextPart
<1>. QED  BY <1>1, <1>2, <1>3, <1>4, <1>5, <1>6

(* The buffer of a live object has a reference.                            *)
LEMMA RefOfLive ==
  ASSUME Assumptions, ReceiveInv, NEW x \in Live
  PROVE  refcount[x.buf] > 0
<1>1. /\ Live \in SUBSET QueuedData /\ UniquePaths(Live)
  BY InvFacts
<1>2. /\ freeQDs \in Int /\ refcount \in [Buffers -> Nat] /\ freeNodes \in Int
      /\ Accounts(Live, freeQDs, refcount, freeNodes)
  BY DEF ReceiveInv, Types
<1>. QED  BY <1>1, <1>2, RemoveLive

LEMMA InvParseElement ==
  ASSUME Assumptions, ReceiveInv, ParseElement
  PROVE  ReceiveInv'
<1>. DEFINE t == parse.qd
            k == parse.next
            el == parse.qd.el.elems[parse.next]
            path == Append(t.path, k)
            list == q.list
<1>1. /\ parse # None /\ k <= Len(t.el.elems)
      /\ InsertBundleOrMessage(el, t.buf, t.timetag, path)
      /\ parse' = [parse EXCEPT !.next = @ + 1]
      /\ UNCHANGED <<freeNodes, lastTimeTag, timePassed, clock, held, call, accepted>>
  BY DEF ParseElement, times
<1>2. /\ parse \in ParseTypes /\ t \in Live /\ t \in QueuedData
      /\ t.el.kind = "bundle" /\ t.el.elems \in Seq(Elements) /\ t.callbacks = NotDispatched
      /\ k \in Nat \ {0} /\ t.timetag \in Nat /\ t.path \in Seq(Nat) /\ t.buf \in Buffers
      /\ call = None \/ call.qd = None
      /\ InHand = (IF parse.idle THEN {} ELSE {t}) /\ parse.idle \in BOOLEAN
      /\ parse.idle => call = None /\ q.scanIndex \in DOMAIN list /\ list[q.scanIndex] = t
      /\ Apart(Live, t.path, k)
  BY <1>1, ParseFacts
<1>3. el \in Elements /\ path \in Seq(Nat) /\ path = Append(t.path, k)
  BY <1>1, <1>2
<1>4. /\ parse' \in ParseTypes /\ parse'.qd = t /\ parse'.next = k + 1 /\ parse'.idle = parse.idle
      /\ parse' # None
  BY <1>1, <1>2, NoneIsNone DEF ParseTypes, Assumptions
<1>5. k + 1 <= Len(t.el.elems) + 1
  BY <1>1, <1>2
<1>6. /\ q \in [list : Seq(QueuedData), scanIndex : Nat] /\ list \in Seq(QueuedData) /\ Distinct(list)
      /\ Live = InHand \cup Queued(list) /\ \A y \in Queued(list) : InQueueOK(y)
      /\ \A y \in InHand : y \notin Queued(list)
      /\ freePackets \in Seq(Buffers) /\ refcount \in [Buffers -> Nat] /\ freeQDs \in Nat /\ freeNodes \in Nat
      /\ held \in Buffers \cup {NoBuffer} /\ FreeListOf(freePackets, refcount, held)
      /\ Rooted(Live, Len(accepted)) /\ Accounts(Live, freeQDs, refcount, freeNodes)
      /\ Live \in SUBSET QueuedData
  BY InvFacts DEF ReceiveInv, Types, Places, FreeList, Paths
<1>7. refcount[t.buf] > 0 /\ held # t.buf
  BY <1>2, <1>6, RefOfLive DEF FreeListOf, Assumptions, ReceiveAssumption
<1>8. SUFFICES ASSUME /\ q' \in [list : Seq(QueuedData), scanIndex : Nat]
                      /\ freePackets' \in Seq(Buffers) /\ refcount' \in [Buffers -> Nat] /\ freeQDs' \in Nat,
                      Distinct(q'.list), \A y \in Queued(q'.list) : InQueueOK(y),
                      \A y \in InHand : y \notin Queued(q'.list),
                      \A i \in DOMAIN list : i \in DOMAIN q'.list /\ q'.list[i] = list[i],
                      q'.scanIndex = q.scanIndex,
                      FreeListOf(freePackets', refcount', held),
                      Apart(InHand \cup Queued(q'.list), t.path, k + 1),
                      Rooted(InHand \cup Queued(q'.list), Len(accepted)),
                      Accounts(InHand \cup Queued(q'.list), freeQDs', refcount', freeNodes)
               PROVE  ReceiveInv'
  <2>1. CASE Acceptable(el, t.timetag)
    <3>. DEFINE x == NewQD(el, t.buf, t.timetag, path)
                more == Append(list, x)
    <3>1. el.kind \in {"message", "bundle"} /\ freeQDs > 0
      BY <2>1 DEF Acceptable
    <3>2. /\ q' = (IF Len(list) = CAPACITY THEN q ELSE [q EXCEPT !.list = more]) /\ freeQDs' = freeQDs - 1
          /\ refcount' = [refcount EXCEPT ![t.buf] = @ + 1] /\ freePackets' = freePackets
      BY <1>1, <2>1 DEF InsertBundleOrMessage, OSCQueueFull, OSCQueueInsert, AllocQD, PacketAddRef
    <3>. HIDE DEF x, t, k, el, path, list
    <3>3. /\ x \in QueuedData /\ InQueueOK(x) /\ x.path = path /\ x.buf = t.buf
          /\ Max2(x.callbacks, 0) = 0
      <4>1. x = NewQD(el, t.buf, t.timetag, path) /\ PacketsWellFormed
        BY DEF x, Assumptions
      <4>2. /\ t.buf \in Buffers /\ t.timetag \in Nat /\ el \in Elements /\ path \in Seq(Nat)
            /\ el.kind \in {"message", "bundle"}
        BY <1>2, <1>3, <3>1
      <4>. QED  BY <4>1, <4>2, NewQDIs
    <3>4. Apart(Live \cup {x}, t.path, k + 1) /\ NewPath(Live, x)
      <4>1. Apart(Live \cup {x}, t.path, k + 1) /\ \A y \in Live : y.path # x.path
        BY <1>2, <1>3, <1>6, <3>3, ApartElement, ZenonT(40)
      <4>. QED  BY <4>1 DEF NewPath
    <3>5. Queued(list) \subseteq Live
      BY <1>6
    <3>6. /\ Len(list) # CAPACITY
          /\ more \in Seq(QueuedData) /\ Distinct(more) /\ Queued(more) = Queued(list) \cup {x} /\ x \notin Live
          /\ \A i \in DOMAIN list : i \in DOMAIN more /\ more[i] = list[i]
          /\ Accounts(Live \cup {x}, freeQDs - 1, [refcount EXCEPT ![x.buf] = @ + 1], freeNodes)
      <4>1. /\ list \in Seq(QueuedData) /\ Distinct(list) /\ Live \in SUBSET QueuedData
            /\ freeQDs \in Nat /\ refcount \in [Buffers -> Nat] /\ freeNodes \in Nat
            /\ Accounts(Live, freeQDs, refcount, freeNodes)
        BY <1>6
      <4>2. x \in QueuedData /\ Max2(x.callbacks, 0) = 0 /\ NewPath(Live, x) /\ freeQDs > 0
        BY <3>1, <3>3, <3>4
      <4>. QED  BY <3>5, <4>1, <4>2, InsertOne, ZenonT(40) DEF more
    <3>. HIDE DEF more
    <3>7. q' \in [list : Seq(QueuedData), scanIndex : Nat] /\ q'.list = more /\ q'.scanIndex = q.scanIndex
      BY <1>6, <3>2, <3>6
    <3>8. freeQDs' \in Nat
      BY <1>6, <3>1, <3>2
    <3>9. FreeListOf(freePackets', refcount', held) /\ refcount' \in [Buffers -> Nat]
      BY <1>2, <1>6, <1>7, <3>2, FreeListAddRef DEF Assumptions, ReceiveAssumption
    <3>10. InHand \cup Queued(more) = Live \cup {x} /\ \A y \in Queued(more) : InQueueOK(y)
      BY <1>6, <3>3, <3>6
    <3>11. \A y \in InHand : y \notin Queued(more)
      BY <1>6, <3>6
    <3>12. Rooted(Live \cup {x}, Len(accepted))
      <4>1. t.path # <<>> /\ t.path[1] <= Len(accepted) /\ t.path \in Seq(Nat)
        BY <1>2, <1>6 DEF Rooted
      <4>2. path # <<>> /\ path[1] = t.path[1]
        <5>1. Len(t.path) \in Nat /\ Len(t.path) >= 1
          BY <4>1
        <5>. QED  BY <1>2, <1>3, <4>1, <5>1
      <4>. QED  BY <1>6, <3>3, <4>1, <4>2 DEF Rooted
    <3>13. Accounts(Live \cup {x}, freeQDs', refcount', freeNodes)
      BY <3>2, <3>3, <3>6
    <3>14. freePackets' \in Seq(Buffers)
      BY <1>6, <3>2
    <3>. QED  BY <1>8, <3>4, <3>6, <3>7, <3>8, <3>9, <3>10, <3>11, <3>12, <3>13, <3>14
  <2>2. CASE ~Acceptable(el, t.timetag)
    <3>1. UNCHANGED <<q, freeQDs, refcount, freePackets>>
      BY <1>1, <1>7, <2>2 DEF InsertBundleOrMessage
    <3>2. Apart(Live, t.path, k + 1)
      BY <1>2, ApartSkip
    <3>. QED  BY <1>6, <1>8, <3>1, <3>2
  <2>. QED  BY <2>1, <2>2
<1>. HIDE DEF t, k, el, path
<1>9. InHand' = InHand
  <2>1. InHand = HandOf(call, parse) /\ InHand' = HandOf(call', parse')
    BY DEF InHand, HandOf
  <2>2. HandOf(call, parse) = HandOf(call, parse')
    BY <1>1, <1>4 DEF HandOf, t
  <2>. QED  BY <1>1, <2>1, <2>2
<1>10. Live' = InHand \cup Queued(q'.list)
  BY <1>9 DEF Live, Queued
<1>11. Types'
  BY <1>1, <1>4, <1>8 DEF ReceiveInv, Types
<1>12. Places'
  <2>1. parse'.idle => call' = None /\ q'.scanIndex \in DOMAIN q'.list /\ q'.list[q'.scanIndex] = parse'.qd
    BY <1>1, <1>2, <1>4, <1>8
  <2>2. ~(call' # None /\ call'.qd # None)
    BY <1>1, <1>2
  <2>3. parse'.qd.el.kind = "bundle" /\ parse'.qd.callbacks = NotDispatched /\ parse'.next <= Len(parse'.qd.el.elems) + 1
    BY <1>2, <1>4, <1>5
  <2>. QED  BY <1>8, <1>9, <2>1, <2>2, <2>3 DEF Places
<1>13. FreeList'
  BY <1>1, <1>8, FreeListKept, OddStays DEF Grows
<1>14. Paths'
  BY <1>1, <1>4, <1>8, <1>10 DEF Paths, Top, NextPart
<1>15. Accounts(Live, freeQDs, refcount, freeNodes)'
  BY <1>1, <1>8, <1>10
<1>. QED  BY <1>11, <1>12, <1>13, <1>14, <1>15 DEF ReceiveInv

(* An object is freed, with its reference to its buffer.                   *)
LEMMA FreeOne ==
  ASSUME Assumptions, ReceiveInv, NEW x \in Live, x.callbacks \in {0, NotDispatched},
         PacketRemoveRef(x.buf), FreeQD
  PROVE  /\ freePackets' \in Seq(Buffers) /\ refcount' \in [Buffers -> Nat] /\ freeQDs' \in Nat
         /\ FreeListOf(freePackets', refcount', held)
         /\ Accounts(Live \ {x}, freeQDs', refcount', freeNodes)
         /\ Rooted(Live \ {x}, Len(accepted))
<1>1. /\ Live \in SUBSET QueuedData /\ UniquePaths(Live) /\ x.buf \in Buffers
  BY InvFacts
<1>2. /\ freeQDs \in Nat /\ freeQDs \in Int /\ refcount \in [Buffers -> Nat] /\ freeNodes \in Int
      /\ freePackets \in Seq(Buffers) /\ held \in Buffers \cup {NoBuffer}
      /\ Accounts(Live, freeQDs, refcount, freeNodes) /\ FreeListOf(freePackets, refcount, held)
      /\ Rooted(Live, Len(accepted)) /\ NoBuffer \notin Buffers
  BY DEF ReceiveInv, Types, FreeList, Paths, Assumptions, ReceiveAssumption
<1>3. /\ Accounts(Live \ {x}, freeQDs + 1, [refcount EXCEPT ![x.buf] = @ - 1], freeNodes + Max2(x.callbacks, 0))
      /\ refcount[x.buf] > 0 /\ [refcount EXCEPT ![x.buf] = @ - 1] \in [Buffers -> Nat]
  BY <1>1, <1>2, RemoveLive
<1>4. freeNodes + Max2(x.callbacks, 0) = freeNodes
  BY <1>2 DEF Max2, NotDispatched
<1>5. /\ refcount' = [refcount EXCEPT ![x.buf] = @ - 1] /\ freeQDs' = freeQDs + 1
      /\ freePackets' = IF refcount[x.buf] = 1 THEN <<x.buf>> \o freePackets ELSE freePackets
  BY DEF PacketRemoveRef, FreeQD
<1>6. freePackets' \in Seq(Buffers) /\ FreeListOf(freePackets', [refcount EXCEPT ![x.buf] = @ - 1], held)
  BY <1>1, <1>2, <1>3, <1>5, FreeListRemoveRef
<1>7. Rooted(Live \ {x}, Len(accepted))
  BY <1>2 DEF Rooted
<1>8. Accounts(Live \ {x}, freeQDs', refcount', freeNodes)
  BY <1>3, <1>4, <1>5
<1>9. freeQDs' \in Nat
  BY <1>2, <1>5
<1>. QED  BY <1>3, <1>5, <1>6, <1>7, <1>8, <1>9

LEMMA InvParseDone ==
  ASSUME Assumptions, ReceiveInv, ParseDone
  PROVE  ReceiveInv'
<1>. DEFINE t == parse.qd
<1>1. /\ parse # None /\ PacketRemoveRef(t.buf) /\ FreeQD
      /\ q' = (IF parse.idle THEN OSCQueueRemoveCurrentScanItem(q) ELSE q) /\ parse' = None
      /\ UNCHANGED <<freeNodes, lastTimeTag, timePassed, clock, held, call, accepted>>
  BY DEF ParseDone, times
<1>2. /\ t \in Live /\ t.callbacks = NotDispatched /\ (call = None \/ call.qd = None)
      /\ InHand = (IF parse.idle THEN {} ELSE {t}) /\ parse.idle \in BOOLEAN
      /\ parse.idle => call = None /\ q.scanIndex \in DOMAIN q.list /\ q.list[q.scanIndex] = t
      /\ Apart(Live, t.path, parse.next)
  BY <1>1, ParseFacts
<1>3. /\ q \in [list : Seq(QueuedData), scanIndex : Nat] /\ q.list \in Seq(QueuedData) /\ Distinct(q.list)
      /\ Live = InHand \cup Queued(q.list) /\ \A y \in Queued(q.list) : InQueueOK(y)
      /\ \A y \in InHand : y \notin Queued(q.list)
      /\ Live \in SUBSET QueuedData /\ call \in CallTypes \cup {None}
  BY InvFacts DEF ReceiveInv, Types, Places
<1>4. /\ freePackets' \in Seq(Buffers) /\ refcount' \in [Buffers -> Nat] /\ freeQDs' \in Nat
      /\ FreeListOf(freePackets', refcount', held)
      /\ Accounts(Live \ {t}, freeQDs', refcount', freeNodes)
      /\ Rooted(Live \ {t}, Len(accepted))
  <2>1. t.callbacks \in {0, NotDispatched}
    BY <1>2
  <2>. HIDE DEF t
  <2>. QED  BY <1>1, <1>2, <2>1, FreeOne
<1>. HIDE DEF t
<1>5. Apart(Live \ {t}, <<>>, 1)
  BY <1>2, <1>3, ApartEnd
<1>6. /\ q' \in [list : Seq(QueuedData), scanIndex : Nat] /\ Distinct(q'.list)
      /\ Queued(q'.list) = Live \ {t}
  <2>1. CASE parse.idle
    <3>. DEFINE less == RemoveElement(q.scanIndex, q.list)
    <3>1. /\ less \in Seq(QueuedData) /\ Distinct(less) /\ Queued(less) = Queued(q.list) \ {t}
      BY <1>2, <1>3, <2>1, QueuedRemove
    <3>2. q' = [list |-> less, scanIndex |-> q.scanIndex - 1]
      BY <1>1, <2>1 DEF OSCQueueRemoveCurrentScanItem
    <3>. HIDE DEF less
    <3>3. q.scanIndex - 1 \in Nat
      BY <1>2, <1>3, <2>1
    <3>4. Queued(q.list) = Live
      BY <1>2, <1>3, <2>1
    <3>. QED  BY <3>1, <3>2, <3>3, <3>4
  <2>2. CASE ~parse.idle
    <3>1. q' = q /\ Live = {t} \cup Queued(q.list) /\ t \notin Queued(q.list)
      BY <1>1, <1>2, <1>3, <2>2
    <3>. QED  BY <1>3, <3>1
  <2>. QED  BY <2>1, <2>2
<1>7. InHand' = {} /\ Live' = Queued(q'.list)
  <2>1. InHand' = HandOf(call', parse')
    BY DEF InHand, HandOf
  <2>2. HandOf(call', parse') = {}
    BY <1>1, <1>2, <1>3, HandIs DEF Assumptions
  <2>. QED  BY <2>1, <2>2 DEF Live, Queued
<1>8. Types'
  BY <1>1, <1>4, <1>6 DEF ReceiveInv, Types
<1>9. Places'
  BY <1>1, <1>2, <1>3, <1>6, <1>7 DEF Places
<1>10. FreeList'
  BY <1>1, <1>4, FreeListKept, OddStays DEF Grows
<1>11. Paths'
  BY <1>1, <1>4, <1>5, <1>6, <1>7 DEF Paths, Top, NextPart
<1>12. Accounts(Live, freeQDs, refcount, freeNodes)'
  BY <1>1, <1>4, <1>6, <1>7
<1>. QED  BY <1>8, <1>9, <1>10, <1>11, <1>12 DEF ReceiveInv

LEMMA InvMessageDone ==
  ASSUME Assumptions, ReceiveInv, MessageDone
  PROVE  ReceiveInv'
<1>. DEFINE t == call.qd
<1>1. /\ call # None /\ t # None /\ t.callbacks = 0 /\ PacketRemoveRef(t.buf) /\ FreeQD
      /\ call' = [call EXCEPT !.qd = None]
      /\ UNCHANGED <<q, freeNodes, lastTimeTag, timePassed, clock, held, parse, accepted>>
  BY DEF MessageDone, times
<1>2. /\ t \in Live /\ InHand = {t} /\ parse = None /\ call \in CallTypes
      /\ Apart(Live, <<>>, 1)
  BY <1>1, InvFacts DEF ReceiveInv, Places, Paths, Top, NextPart
<1>3. /\ Distinct(q.list) /\ Live = {t} \cup Queued(q.list) /\ \A y \in Queued(q.list) : InQueueOK(y)
      /\ t \notin Queued(q.list) /\ Live \in SUBSET QueuedData
  BY <1>2, InvFacts DEF ReceiveInv, Places
<1>4. /\ freePackets' \in Seq(Buffers) /\ refcount' \in [Buffers -> Nat] /\ freeQDs' \in Nat
      /\ FreeListOf(freePackets', refcount', held)
      /\ Accounts(Live \ {t}, freeQDs', refcount', freeNodes)
      /\ Rooted(Live \ {t}, Len(accepted))
  <2>1. t.callbacks \in {0, NotDispatched}
    BY <1>1
  <2>. HIDE DEF t
  <2>. QED  BY <1>1, <1>2, <2>1, FreeOne
<1>5. call' \in CallTypes /\ call'.qd = None
  BY <1>1, <1>2 DEF CallTypes
<1>. HIDE DEF t
<1>6. Queued(q.list) = Live \ {t}
  BY <1>3
<1>7. InHand' = {} /\ Live' = Queued(q.list)
  <2>1. InHand' = HandOf(call', parse')
    BY DEF InHand, HandOf
  <2>2. HandOf(call', parse') = {}
    BY <1>1, <1>2, <1>5, HandIs DEF Assumptions
  <2>. QED  BY <1>1, <2>1, <2>2 DEF Live, Queued
<1>8. Types'
  BY <1>1, <1>4, <1>5 DEF ReceiveInv, Types
<1>9. Places'
  BY <1>1, <1>2, <1>3, <1>5, <1>7 DEF Places
<1>10. FreeList'
  BY <1>1, <1>4, FreeListKept, OddStays DEF Grows
<1>11. Paths'
  <2>1. Apart(Live \ {t}, <<>>, 1)
    BY <1>2 DEF Apart
  <2>. QED  BY <1>1, <1>2, <1>4, <1>6, <1>7, <2>1 DEF Paths, Top, NextPart
<1>12. Accounts(Live, freeQDs, refcount, freeNodes)'
  BY <1>1, <1>4, <1>6, <1>7
<1>. QED  BY <1>8, <1>9, <1>10, <1>11, <1>12 DEF ReceiveInv

LEMMA InvTakeBundle ==
  ASSUME Assumptions, ReceiveInv, TakeBundle
  PROVE  ReceiveInv'
<1>. DEFINE t == Earliest(q)
            g == SmallestIndex(q.list)
            less == RemoveElement(g, q.list)
<1>1. /\ call # None /\ parse = None /\ call.qd = None /\ q.list # <<>> /\ t.el.kind = "bundle"
      /\ parse' = [qd |-> t, next |-> 1, idle |-> FALSE]
      /\ UNCHANGED <<freePackets, refcount, freeQDs, freeNodes, lastTimeTag, timePassed, clock, held, call, accepted>>
  BY DEF TakeBundle, InLoop, pools, times
<1>. HIDE DEF t, g, less
<1>2. /\ q \in [list : Seq(QueuedData), scanIndex : Nat] /\ q.list \in Seq(QueuedData) /\ Distinct(q.list)
      /\ \A y \in Queued(q.list) : InQueueOK(y)
      /\ call \in CallTypes \cup {None}
      /\ Apart(Live, <<>>, 1) /\ Rooted(Live, Len(accepted))
  BY <1>1 DEF ReceiveInv, Types, Places, Paths, Top, NextPart
<1>3. InHand = {} /\ Live = Queued(q.list) /\ InHand = HandOf(call, parse)
  <2>1. InHand = HandOf(call, parse) /\ Live = InHand \cup Queued(q.list)
    BY InvFacts
  <2>2. parse \in ParseTypes \cup {None} /\ NoneIsNoRecord
    BY <1>1 DEF Assumptions
  <2>3. HandOf(call, parse) = {}
    BY <1>1, <1>2, <2>2, HandIs
  <2>. QED  BY <2>1, <2>3
<1>4. g \in DOMAIN q.list /\ t = q.list[g] /\ t \in QueuedData /\ t \in Queued(q.list)
  BY <1>1, <1>2, SmallestIndexInDomain DEF Earliest, Queued, t, g
<1>5. /\ less \in Seq(QueuedData) /\ Distinct(less) /\ Queued(less) = Queued(q.list) \ {t}
  BY <1>2, <1>4, QueuedRemove DEF less
<1>6. q' = [q EXCEPT !.list = less]
  BY DEF TakeBundle, OSCQueueRemoveEarliest, less, g
<1>7. q' \in [list : Seq(QueuedData), scanIndex : Nat] /\ q'.list = less
  BY <1>2, <1>5, <1>6
<1>8. parse' \in ParseTypes /\ parse' # None /\ parse'.qd = t /\ parse'.next = 1 /\ ~parse'.idle
  <2>1. parse'.qd = t /\ parse'.next = 1 /\ parse'.idle = FALSE
    BY <1>1
  <2>2. [qd |-> t, next |-> 1, idle |-> FALSE] \in ParseTypes
    BY <1>4 DEF ParseTypes
  <2>3. parse' \in ParseTypes
    BY <1>1, <2>2
  <2>. QED  BY <2>1, <2>3, NoneIsNone DEF Assumptions
<1>9. InHand' = {t} /\ Live' = Live
  <2>1. InHand' = HandOf(call', parse')
    BY DEF InHand, HandOf
  <2>2. HandOf(call', parse') = {t}
    <3>1. /\ call' \in CallTypes \cup {None} /\ call'.qd = None /\ NoneIsNoRecord
          /\ parse' \in ParseTypes \cup {None} /\ parse' # None /\ ~parse'.idle /\ parse'.qd = t
      BY <1>1, <1>2, <1>8 DEF Assumptions
    <3>2. HandOf(call', parse') = IF parse'.idle THEN {} ELSE {parse'.qd}
      BY <3>1, HandIs
    <3>. QED  BY <3>1, <3>2
  <2>3. Live' = InHand' \cup Queued(less)
    BY <1>7 DEF Live, Queued
  <2>. QED  BY <1>3, <1>4, <1>5, <2>1, <2>2, <2>3
<1>10. Types'
  BY <1>1, <1>7, <1>8 DEF ReceiveInv, Types
<1>11. Places'
  <2>1. t.callbacks = NotDispatched
    BY <1>1, <1>2, <1>4 DEF InQueueOK
  <2>2. t.el.elems \in Seq(Elements)
    BY <1>1, <1>4, ElementsAre DEF QueuedData, WellFormed, Assumptions
  <2>3. parse'.next <= Len(parse'.qd.el.elems) + 1
    BY <1>8, <2>2
  <2>4. parse'.qd.el.kind = "bundle" /\ parse'.qd.callbacks = NotDispatched
    BY <1>1, <1>8, <2>1
  <2>. QED  BY <1>1, <1>2, <1>5, <1>7, <1>8, <1>9, <2>3, <2>4 DEF Places
<1>12. FreeList'
  BY <1>1 DEF ReceiveInv, FreeList, FreeListOf, OddCame
<1>13. Paths'
  <2>1. Apart(Live, t.path, 1)
    BY <1>2, ApartBegin
  <2>. QED  BY <1>1, <1>2, <1>8, <1>9, <2>1 DEF Paths, Top, NextPart
<1>14. Accounts(Live, freeQDs, refcount, freeNodes)'
  BY <1>1, <1>9 DEF ReceiveInv
<1>. QED  BY <1>10, <1>11, <1>12, <1>13, <1>14 DEF ReceiveInv

LEMMA ScheduleGrows == ASSUME NEW when, NEW msgs, Schedule(when, msgs) PROVE Grows
BY DEF Schedule, Grows

(* OSCScheduleInternalMessages, called by the client or by a callback.     *)
LEMMA ScheduleOne ==
  ASSUME Assumptions, ReceiveInv, NEW when \in Nat, NEW msgs, InternalBundle(when, msgs) \in Elements,
         Schedule(when, msgs), UNCHANGED held
  PROVE  /\ q' \in [list : Seq(QueuedData), scanIndex : Nat]
         /\ freePackets' \in Seq(Buffers) /\ refcount' \in [Buffers -> Nat] /\ freeQDs' \in Nat
         /\ accepted' \in Seq([el : Elements, timetag : Nat])
         /\ Distinct(q'.list)
         /\ \A y \in Queued(q'.list) : InQueueOK(y)
         /\ \A y \in InHand : y \notin Queued(q'.list)
         /\ FreeListOf(freePackets', refcount', held')
         /\ Apart(InHand \cup Queued(q'.list), Top, NextPart)
         /\ Rooted(InHand \cup Queued(q'.list), Len(accepted'))
         /\ Accounts(InHand \cup Queued(q'.list), freeQDs', refcount', freeNodes)
<1>. DEFINE list == q.list
<1>1. /\ q \in [list : Seq(QueuedData), scanIndex : Nat] /\ list \in Seq(QueuedData) /\ Distinct(list)
      /\ Live = InHand \cup Queued(list)
      /\ \A y \in Queued(list) : InQueueOK(y)
      /\ \A y \in InHand : y \notin Queued(list)
      /\ freePackets \in Seq(Buffers) /\ refcount \in [Buffers -> Nat] /\ freeQDs \in Nat /\ freeNodes \in Nat
      /\ accepted \in Seq([el : Elements, timetag : Nat]) /\ Len(accepted) \in Nat
      /\ held \in Buffers \cup {NoBuffer} /\ FreeListOf(freePackets, refcount, held)
      /\ Apart(Live, Top, NextPart) /\ Rooted(Live, Len(accepted))
      /\ Accounts(Live, freeQDs, refcount, freeNodes)
      /\ Live \in SUBSET QueuedData
  BY InvFacts DEF ReceiveInv, Types, Places, FreeList, Paths
<1>2. CASE freeQDs > 0 /\ freePackets # <<>>
  <2>. DEFINE p == Head(freePackets)
              el == InternalBundle(when, msgs)
              path == <<Len(accepted) + 1>>
              x == NewQD(el, p, when, path)
              more == Append(list, x)
  <2>1. /\ freeQDs' = freeQDs - 1 /\ freePackets' = Tail(freePackets)
        /\ refcount' = [refcount EXCEPT ![p] = 1]
        /\ q' = (IF Len(list) = CAPACITY THEN q ELSE [q EXCEPT !.list = more])
        /\ accepted' = Append(accepted, [el |-> el, timetag |-> when])
    BY <1>2 DEF Schedule, OSCQueueFull, OSCQueueInsert
  <2>2. path \in Seq(Nat) /\ path = <<Len(accepted) + 1>>
    BY <1>1
  <2>3. el \in Elements /\ el.kind = "bundle"
    BY DEF InternalBundle
  <2>4. x = NewQD(el, p, when, path) /\ PacketsWellFormed /\ ReceiveAssumption
    BY DEF Assumptions
  <2>. HIDE DEF list, p, el, path, x
  <2>5. /\ freePackets' \in Seq(Buffers) /\ p \in Buffers /\ refcount[p] = 0
        /\ FreeListOf(freePackets', [refcount EXCEPT ![p] = @ + 1], held)
    BY <1>1, <1>2, <2>1, <2>4, FreeListTake DEF p
  <2>6. /\ x \in QueuedData /\ InQueueOK(x) /\ x.path = path /\ x.buf = p
        /\ Max2(x.callbacks, 0) = 0
    <3>1. el.kind \in {"message", "bundle"} /\ el \in Elements /\ path \in Seq(Nat) /\ p \in Buffers
      BY <2>2, <2>3, <2>5
    <3>. QED  BY <2>4, <3>1, NewQDIs
  <2>7. [refcount EXCEPT ![p] = @ + 1] = refcount' /\ refcount' \in [Buffers -> Nat]
    BY <1>1, <2>1, <2>5
  <2>8. /\ Apart(Live \cup {x}, Top, NextPart) /\ Rooted(Live \cup {x}, Len(accepted) + 1)
        /\ NewPath(Live, x)
    <3>1. /\ Apart(Live \cup {x}, Top, NextPart) /\ Rooted(Live \cup {x}, Len(accepted) + 1)
          /\ \A y \in Live : y.path # x.path
      BY <1>1, <2>2, <2>6, ApartPacket
    <3>. QED  BY <3>1 DEF NewPath
  <2>9. /\ Len(list) # CAPACITY
        /\ more \in Seq(QueuedData) /\ Distinct(more) /\ Queued(more) = Queued(list) \cup {x} /\ x \notin Live
        /\ Accounts(Live \cup {x}, freeQDs - 1, [refcount EXCEPT ![x.buf] = @ + 1], freeNodes)
    <3>1. /\ list \in Seq(QueuedData) /\ Distinct(list) /\ Live \in SUBSET QueuedData
          /\ Queued(list) \subseteq Live
          /\ freeQDs \in Nat /\ refcount \in [Buffers -> Nat] /\ freeNodes \in Nat
          /\ Accounts(Live, freeQDs, refcount, freeNodes)
      BY <1>1
    <3>2. x \in QueuedData /\ Max2(x.callbacks, 0) = 0 /\ NewPath(Live, x) /\ freeQDs > 0
      BY <1>2, <2>6, <2>8
    <3>. QED  BY <3>1, <3>2, InsertOne DEF more
  <2>. HIDE DEF more
  <2>10. q' \in [list : Seq(QueuedData), scanIndex : Nat] /\ q'.list = more
    BY <1>1, <2>1, <2>9
  <2>11. freeQDs' \in Nat
    BY <1>1, <1>2, <2>1
  <2>12. InHand \cup Queued(q'.list) = Live \cup {x}
    BY <1>1, <2>9, <2>10
  <2>13. \A y \in Queued(q'.list) : InQueueOK(y)
    BY <1>1, <2>6, <2>9, <2>10
  <2>14. \A y \in InHand : y \notin Queued(q'.list)
    BY <1>1, <2>9, <2>10
  <2>15. /\ accepted' \in Seq([el : Elements, timetag : Nat]) /\ Len(accepted') = Len(accepted) + 1
    BY <1>1, <2>1, <2>3
  <2>16. Accounts(Live \cup {x}, freeQDs', refcount', freeNodes)
    BY <2>1, <2>6, <2>7, <2>9
  <2>17. Distinct(q'.list)
    BY <2>9, <2>10
  <2>18. FreeListOf(freePackets', refcount', held')
    BY <2>5, <2>7
  <2>. QED  BY <2>5, <2>7, <2>8, <2>10, <2>11, <2>12, <2>13, <2>14, <2>15, <2>16, <2>17, <2>18
<1>3. CASE ~(freeQDs > 0 /\ freePackets # <<>>)
  <2>1. UNCHANGED <<q, freeQDs, freePackets, refcount, accepted, held>>
    BY <1>3 DEF Schedule
  <2>. QED  BY <1>1, <2>1
<1>. QED  BY <1>2, <1>3

LEMMA InvClientSchedules ==
  ASSUME Assumptions, ReceiveInv, ClientSchedules(1)
  PROVE  ReceiveInv'
<1>. DEFINE when == clock + 1
            msgs == <<InternalMessage, InternalMessage>>
<1>1. /\ call = None /\ parse = None /\ InHand = {} /\ clock \in Nat
  BY InvFacts DEF ClientSchedules, ReceiveInv, Types
<1>2. /\ Schedule(when, msgs) /\ UNCHANGED held
      /\ UNCHANGED <<freeNodes, lastTimeTag, timePassed, clock, held, call, parse>>
  BY DEF ClientSchedules, times
<1>3. when \in Nat /\ InternalBundle(when, msgs) \in Elements
  <2>1. when \in Nat
    BY <1>1
  <2>. HIDE DEF when
  <2>. QED  BY <2>1, ElementsAre DEF WellFormed, Assumptions
<1>. HIDE DEF when, msgs
<1>4. /\ q' \in [list : Seq(QueuedData), scanIndex : Nat]
      /\ freePackets' \in Seq(Buffers) /\ refcount' \in [Buffers -> Nat] /\ freeQDs' \in Nat
      /\ accepted' \in Seq([el : Elements, timetag : Nat])
      /\ Distinct(q'.list)
      /\ \A y \in Queued(q'.list) : InQueueOK(y)
      /\ FreeListOf(freePackets', refcount', held')
      /\ Apart(InHand \cup Queued(q'.list), Top, NextPart)
      /\ Rooted(InHand \cup Queued(q'.list), Len(accepted'))
      /\ Accounts(InHand \cup Queued(q'.list), freeQDs', refcount', freeNodes)
  BY <1>2, <1>3, ScheduleOne
<1>5. InHand' = {} /\ Live' = Queued(q'.list) /\ InHand \cup Queued(q'.list) = Queued(q'.list)
  BY <1>1, <1>2 DEF InHand, Live, Queued
<1>6. Types'
  BY <1>2, <1>4 DEF ReceiveInv, Types
<1>7. Places'
  BY <1>1, <1>2, <1>4, <1>5 DEF Places
<1>8. FreeList'
  BY <1>2, <1>4, ScheduleGrows, FreeListKept, OddStays
<1>9. Paths'
  BY <1>2, <1>4, <1>5 DEF Paths, Top, NextPart
<1>10. Accounts(Live, freeQDs, refcount, freeNodes)'
  BY <1>2, <1>4, <1>5
<1>. QED  BY <1>6, <1>7, <1>8, <1>9, <1>10 DEF ReceiveInv

(* A callback is called: its node is free again.                           *)
LEMMA InvCallCallback ==
  ASSUME Assumptions, ReceiveInv, CallCallback
  PROVE  ReceiveInv'
<1>. DEFINE x == call.qd
            y == [x EXCEPT !.callbacks = @ - 1]
            L == InHand \cup Queued(q'.list)
<1>1. /\ call # None /\ x # None /\ x.callbacks > 0
      /\ call' = [call EXCEPT !.qd.callbacks = @ - 1] /\ freeNodes' = freeNodes + 1
      /\ UNCHANGED <<lastTimeTag, timePassed, clock, held, parse>> /\ UNCHANGED held
  BY DEF CallCallback, times, FreeCallbackListNode
<1>2. /\ InHand = {x} /\ parse = None /\ x.el.kind = "message" /\ x.callbacks \in Nat
      /\ call \in CallTypes /\ x \in QueuedData
      /\ Live = InHand \cup Queued(q.list) /\ Live \in SUBSET QueuedData
      /\ clock \in Nat /\ freeNodes \in Nat /\ Top = <<>> /\ NextPart = 1
  BY <1>1, InvFacts DEF ReceiveInv, Places, Types, Top, NextPart
<1>3. /\ q' \in [list : Seq(QueuedData), scanIndex : Nat]
      /\ freePackets' \in Seq(Buffers) /\ refcount' \in [Buffers -> Nat] /\ freeQDs' \in Nat
      /\ accepted' \in Seq([el : Elements, timetag : Nat])
      /\ Distinct(q'.list)
      /\ \A z \in Queued(q'.list) : InQueueOK(z)
      /\ \A z \in InHand : z \notin Queued(q'.list)
      /\ FreeListOf(freePackets', refcount', held')
      /\ Apart(L, Top, NextPart)
      /\ Rooted(L, Len(accepted'))
      /\ Accounts(L, freeQDs', refcount', freeNodes)
  <2>1. CASE x.el.schedules # NoTime
    <3>. DEFINE when == clock + x.el.schedules
                msgs == <<InternalMessage>>
    <3>1. Schedule(when, msgs)
      BY <1>1, <2>1 DEF CallCallback
    <3>2. when \in Nat
      <4>1. x.el \in Elements
        BY <1>2 DEF QueuedData
      <4>2. x.el.schedules \in Nat
        BY <1>2, <2>1, <4>1, ElementsAre DEF WellFormed, Assumptions
      <4>. QED  BY <1>2, <4>2
    <3>3. InternalBundle(when, msgs) \in Elements
      <4>. HIDE DEF when
      <4>. QED  BY <3>2, ElementsAre DEF WellFormed, Assumptions
    <3>. HIDE DEF when, msgs, x
    <3>. QED  BY <1>1, <3>1, <3>2, <3>3, ScheduleOne
  <2>2. CASE x.el.schedules = NoTime
    <3>1. UNCHANGED <<q, freeQDs, freePackets, refcount, accepted>>
      BY <1>1, <2>2 DEF CallCallback
    <3>2. L = Live
      BY <1>2, <3>1
    <3>. QED  BY <1>1, <1>2, <3>1, <3>2 DEF ReceiveInv, Types, Places, FreeList, Paths
  <2>. QED  BY <2>1, <2>2
<1>4. /\ y \in QueuedData /\ y.path = x.path /\ y.buf = x.buf /\ y.el = x.el
      /\ y.callbacks = x.callbacks - 1 /\ y.callbacks \in Nat
  BY <1>1, <1>2 DEF QueuedData
<1>5. call' \in CallTypes /\ call' # None /\ call'.qd = y /\ y # None
  <2>1. call' = [call EXCEPT !.qd = y]
    BY <1>1, <1>2 DEF CallTypes
  <2>. HIDE DEF y
  <2>2. call' \in CallTypes /\ call'.qd = y
    BY <1>2, <1>4, <2>1 DEF CallTypes
  <2>. QED  BY <1>4, <2>2, NoneIsNone DEF Assumptions
<1>6. L \in SUBSET QueuedData /\ x \in L /\ L \ {x} = Queued(q'.list)
  <2>1. Queued(q'.list) \subseteq QueuedData
    BY <1>3 DEF Queued
  <2>. QED  BY <1>2, <1>3, <2>1
<1>. HIDE DEF x, y, L
<1>7. UniquePaths(L)
  BY <1>3, <1>6, ApartUnique
<1>8. Apart((L \ {x}) \cup {y}, Top, NextPart) /\ Rooted((L \ {x}) \cup {y}, Len(accepted'))
  BY <1>3, <1>4, <1>6, <1>7, ApartChange
<1>9. Accounts((L \ {x}) \cup {y}, freeQDs', refcount', freeNodes')
  <2>1. freeQDs' \in Int /\ refcount' \in [Buffers -> Nat] /\ freeNodes \in Int
    BY <1>2, <1>3
  <2>2. Accounts((L \ {x}) \cup {y}, freeQDs', refcount', freeNodes + Max2(x.callbacks, 0) - Max2(y.callbacks, 0))
    BY <1>3, <1>4, <1>6, <1>7, <2>1, ChangeLive
  <2>3. freeNodes + Max2(x.callbacks, 0) - Max2(y.callbacks, 0) = freeNodes'
    BY <1>1, <1>2, <1>4 DEF Max2
  <2>. QED  BY <2>2, <2>3
<1>10. y \notin Queued(q'.list)
  BY <1>4, <1>6, <1>7 DEF UniquePaths
<1>11. InHand' = {y} /\ Live' = (L \ {x}) \cup {y}
  <2>1. InHand' = HandOf(call', parse')
    BY DEF InHand, HandOf
  <2>2. HandOf(call', parse') = {y}
    <3>1. parse' = None /\ call' \in CallTypes \cup {None} /\ parse' \in ParseTypes \cup {None} /\ NoneIsNoRecord
      BY <1>1, <1>2, <1>5 DEF Assumptions
    <3>. QED  BY <1>5, <3>1, HandIs
  <2>3. Live' = InHand' \cup Queued(q'.list)
    BY DEF Live, Queued
  <2>. QED  BY <1>6, <2>1, <2>2, <2>3
<1>12. Types'
  <2>1. freeNodes' \in Nat
    BY <1>1, <1>2
  <2>. QED  BY <1>1, <1>2, <1>3, <1>5, <2>1 DEF ReceiveInv, Types
<1>13. Places'
  BY <1>1, <1>2, <1>3, <1>4, <1>5, <1>10, <1>11 DEF Places
<1>14. FreeList'
  BY <1>1, <1>3, ScheduleGrows, FreeListKept, OddStays DEF CallCallback, Grows
<1>15. Paths'
  BY <1>1, <1>2, <1>8, <1>11 DEF Paths, Top, NextPart
<1>16. Accounts(Live, freeQDs, refcount, freeNodes)'
  BY <1>9, <1>11
<1>. QED  BY <1>12, <1>13, <1>14, <1>15, <1>16 DEF ReceiveInv

(* A message is dispatched: its object notes the nodes it gets.            *)
LEMMA DispatchNodes ==
  ASSUME Assumptions, NEW el \in Elements, el.kind = "message", freeNodes \in Nat
  PROVE  OSCDispatchMessage(el) \in Nat /\ OSCDispatchMessage(el) <= freeNodes
<1>1. el.methods \in Nat
  BY ElementsAre DEF WellFormed, Assumptions
<1>. QED  BY <1>1 DEF OSCDispatchMessage, Min2

LEMMA DispatchOne ==
  ASSUME Assumptions, ReceiveInv, NEW x \in Live, NEW n \in Nat \ {0}, x.callbacks = NotDispatched => n <= freeNodes,
         InQueueOK(x), x.el.kind = "message", UNCHANGED <<refcount, freeQDs, accepted>>,
         freeNodes' = freeNodes - (IF x.callbacks = NotDispatched THEN n ELSE 0),
         x.callbacks # NotDispatched => n = x.callbacks
  PROVE  /\ [x EXCEPT !.callbacks = n] \in QueuedData /\ [x EXCEPT !.callbacks = n].callbacks = n
         /\ [x EXCEPT !.callbacks = n].el = x.el /\ InQueueOK([x EXCEPT !.callbacks = n])
         /\ freeNodes' \in Nat
         /\ Accounts((Live \ {x}) \cup {[x EXCEPT !.callbacks = n]}, freeQDs', refcount', freeNodes')
         /\ Apart((Live \ {x}) \cup {[x EXCEPT !.callbacks = n]}, Top, NextPart)
         /\ Rooted((Live \ {x}) \cup {[x EXCEPT !.callbacks = n]}, Len(accepted'))
         /\ \A z \in Live : z = [x EXCEPT !.callbacks = n] => z = x
<1>. DEFINE y == [x EXCEPT !.callbacks = n]
<1>1. /\ Live \in SUBSET QueuedData /\ x \in QueuedData /\ UniquePaths(Live)
      /\ freeQDs \in Int /\ refcount \in [Buffers -> Nat] /\ freeNodes \in Nat /\ freeNodes \in Int
      /\ Apart(Live, Top, NextPart) /\ Rooted(Live, Len(accepted))
      /\ Accounts(Live, freeQDs, refcount, freeNodes)
  BY InvFacts DEF ReceiveInv, Types, Paths
<1>2. y \in QueuedData /\ y.path = x.path /\ y.buf = x.buf /\ y.el = x.el /\ y.callbacks = n
  <2>1. n \in Int /\ x \in [timetag : Nat, buf : Buffers, path : Seq(Nat), el : Elements, callbacks : Int]
    BY <1>1 DEF QueuedData
  <2>2. y \in [timetag : Nat, buf : Buffers, path : Seq(Nat), el : Elements, callbacks : Int]
    BY <2>1
  <2>3. y.path = x.path /\ y.buf = x.buf /\ y.el = x.el /\ y.callbacks = n
    BY <2>1
  <2>. QED  BY <2>2, <2>3 DEF QueuedData
<1>3. InQueueOK(y)
  BY <1>2 DEF InQueueOK
<1>. HIDE DEF y
<1>4. Apart((Live \ {x}) \cup {y}, Top, NextPart) /\ Rooted((Live \ {x}) \cup {y}, Len(accepted))
  BY <1>1, <1>2, ApartChange
<1>5. Accounts((Live \ {x}) \cup {y}, freeQDs, refcount, freeNodes + Max2(x.callbacks, 0) - Max2(y.callbacks, 0))
  BY <1>1, <1>2, ChangeLive
<1>6. freeNodes + Max2(x.callbacks, 0) - Max2(y.callbacks, 0) = freeNodes' /\ freeNodes' \in Nat
  <2>1. CASE x.callbacks = NotDispatched
    BY <1>1, <1>2, <2>1 DEF Max2, NotDispatched
  <2>2. CASE x.callbacks # NotDispatched
    BY <1>1, <1>2, <2>2 DEF Max2
  <2>. QED  BY <2>1, <2>2
<1>7. Accounts((Live \ {x}) \cup {y}, freeQDs', refcount', freeNodes')
  BY <1>5, <1>6
<1>8. \A z \in Live : z = y => z = x
  BY <1>1, <1>2 DEF UniquePaths
<1>. QED  BY <1>2, <1>3, <1>4, <1>6, <1>7, <1>8 DEF y

LEMMA InvTakeMessage ==
  ASSUME Assumptions, ReceiveInv, TakeMessage
  PROVE  ReceiveInv'
<1>. DEFINE x == Earliest(q)
            g == SmallestIndex(q.list)
            less == RemoveElement(g, q.list)
            n == IF x.callbacks = NotDispatched THEN OSCDispatchMessage(x.el) ELSE x.callbacks
            y == [x EXCEPT !.callbacks = n]
<1>1. /\ call # None /\ parse = None /\ call.qd = None /\ q.list # <<>> /\ x.el.kind = "message"
      /\ UNCHANGED <<lastTimeTag, timePassed, clock, held, parse, accepted>>
  BY DEF TakeMessage, InLoop, times
<1>2. /\ q' = [q EXCEPT !.list = less]
      /\ freeNodes' = freeNodes - (IF x.callbacks = NotDispatched THEN n ELSE 0)
  BY DEF TakeMessage, OSCQueueRemoveEarliest, AllocCallbackListNodes
<1>3. \/ n > 0 /\ call' = [call EXCEPT !.qd = y] /\ UNCHANGED <<refcount, freePackets, freeQDs>>
      \/ n = 0 /\ PacketRemoveRef(x.buf) /\ FreeQD /\ UNCHANGED call
  BY DEF TakeMessage
<1>. HIDE DEF x, g, less, y
<1>4. /\ q \in [list : Seq(QueuedData), scanIndex : Nat] /\ q.list \in Seq(QueuedData) /\ Distinct(q.list)
      /\ \A z \in Queued(q.list) : InQueueOK(z)
      /\ call \in CallTypes \cup {None} /\ freeNodes \in Nat
      /\ Apart(Live, <<>>, 1) /\ Rooted(Live, Len(accepted)) /\ Top = <<>> /\ NextPart = 1
      /\ freePackets \in Seq(Buffers) /\ refcount \in [Buffers -> Nat] /\ freeQDs \in Nat
      /\ FreeListOf(freePackets, refcount, held)
  BY <1>1 DEF ReceiveInv, Types, Places, Paths, Top, NextPart, FreeList
<1>5. InHand = {} /\ Live = Queued(q.list)
  <2>1. InHand = HandOf(call, parse) /\ Live = InHand \cup Queued(q.list)
    BY InvFacts
  <2>2. parse \in ParseTypes \cup {None} /\ NoneIsNoRecord
    BY <1>1 DEF Assumptions
  <2>3. HandOf(call, parse) = {}
    BY <1>1, <1>4, <2>2, HandIs
  <2>. QED  BY <2>1, <2>3
<1>6. g \in DOMAIN q.list /\ x = q.list[g] /\ x \in QueuedData /\ x \in Queued(q.list)
  BY <1>1, <1>4, SmallestIndexInDomain DEF Earliest, Queued, x, g
<1>7. /\ less \in Seq(QueuedData) /\ Distinct(less) /\ Queued(less) = Queued(q.list) \ {x}
  BY <1>4, <1>6, QueuedRemove DEF less
<1>8. /\ q' \in [list : Seq(QueuedData), scanIndex : Nat] /\ q'.list = less
      /\ \A z \in Queued(less) : InQueueOK(z)
  BY <1>2, <1>4, <1>7
<1>9. /\ x.el \in Elements /\ InQueueOK(x) /\ x \in Live
  BY <1>4, <1>5, <1>6 DEF QueuedData
<1>10. n \in Nat /\ (x.callbacks # NotDispatched => n = x.callbacks) /\ (x.callbacks = NotDispatched => n <= freeNodes)
  <2>1. x.callbacks # NotDispatched => x.callbacks \in Nat
    BY <1>1, <1>9 DEF InQueueOK
  <2>2. OSCDispatchMessage(x.el) \in Nat /\ OSCDispatchMessage(x.el) <= freeNodes
    BY <1>1, <1>4, <1>9, DispatchNodes
  <2>. QED  BY <2>1, <2>2
<1>11. n = 0 => x.callbacks = NotDispatched
  BY <1>1, <1>9, <1>10 DEF InQueueOK
<1>. HIDE DEF n
<1>12. CASE n > 0 /\ call' = [call EXCEPT !.qd = y] /\ UNCHANGED <<refcount, freePackets, freeQDs>>
  <2>1. /\ y \in QueuedData /\ y.callbacks = n /\ y.el = x.el /\ freeNodes' \in Nat
        /\ Accounts((Live \ {x}) \cup {y}, freeQDs', refcount', freeNodes')
        /\ Apart((Live \ {x}) \cup {y}, Top, NextPart)
        /\ Rooted((Live \ {x}) \cup {y}, Len(accepted'))
        /\ \A z \in Live : z = y => z = x
    <3>1. /\ x \in Live /\ n \in Nat \ {0} /\ (x.callbacks = NotDispatched => n <= freeNodes)
          /\ InQueueOK(x) /\ x.el.kind = "message" /\ UNCHANGED <<refcount, freeQDs, accepted>>
          /\ freeNodes' = freeNodes - (IF x.callbacks = NotDispatched THEN n ELSE 0)
          /\ (x.callbacks # NotDispatched => n = x.callbacks)
      BY <1>1, <1>2, <1>9, <1>10, <1>12
    <3>. QED  BY <3>1, DispatchOne DEF y
  <2>2. /\ call' \in CallTypes /\ call'.qd = y /\ call' # None /\ y # None
    <3>1. call' \in CallTypes /\ call'.qd = y
      BY <1>1, <1>4, <1>12, <2>1 DEF CallTypes
    <3>. QED  BY <2>1, <3>1, NoneIsNone DEF Assumptions
  <2>3. InHand' = {y} /\ Live' = (Live \ {x}) \cup {y}
    <3>1. InHand' = HandOf(call', parse')
      BY DEF InHand, HandOf
    <3>2. parse' = None /\ call' \in CallTypes \cup {None} /\ parse' \in ParseTypes \cup {None} /\ NoneIsNoRecord
      BY <1>1, <2>2 DEF Assumptions
    <3>3. HandOf(call', parse') = {y}
      BY <2>2, <3>2, HandIs
    <3>4. Live' = InHand' \cup Queued(less)
      BY <1>8 DEF Live, Queued
    <3>. QED  BY <1>5, <1>7, <3>1, <3>3, <3>4
  <2>4. y \notin Queued(less)
    BY <1>5, <1>7, <2>1
  <2>5. Types'
    BY <1>1, <1>8, <1>12, <2>1, <2>2 DEF ReceiveInv, Types
  <2>6. Places'
    BY <1>1, <1>7, <1>8, <1>10, <2>1, <2>2, <2>3, <2>4 DEF Places
  <2>7. FreeList'
    BY <1>1, <1>4, <1>12, FreeListKept, OddStays DEF Grows
  <2>8. Paths'
    BY <1>1, <1>4, <2>1, <2>3 DEF Paths, Top, NextPart
  <2>9. Accounts(Live, freeQDs, refcount, freeNodes)'
    BY <2>1, <2>3
  <2>. QED  BY <2>5, <2>6, <2>7, <2>8, <2>9 DEF ReceiveInv
<1>13. CASE n = 0 /\ PacketRemoveRef(x.buf) /\ FreeQD /\ UNCHANGED call
  <2>1. x.callbacks = NotDispatched /\ freeNodes' = freeNodes
    BY <1>2, <1>4, <1>11, <1>13
  <2>2. /\ freePackets' \in Seq(Buffers) /\ refcount' \in [Buffers -> Nat] /\ freeQDs' \in Nat
        /\ FreeListOf(freePackets', refcount', held')
        /\ Accounts(Live \ {x}, freeQDs', refcount', freeNodes)
        /\ Rooted(Live \ {x}, Len(accepted))
    <3>1. x.callbacks \in {0, NotDispatched} /\ held' = held
      BY <1>1, <2>1
    <3>. QED  BY <1>9, <1>13, <3>1, FreeOne
  <2>3. InHand' = {} /\ Live' = Live \ {x}
    <3>1. InHand' = InHand
      BY <1>1, <1>13 DEF InHand
    <3>2. Live' = InHand' \cup Queued(less)
      BY <1>8 DEF Live, Queued
    <3>. QED  BY <1>5, <1>7, <3>1, <3>2
  <2>4. Types'
    BY <1>1, <1>4, <1>8, <1>13, <2>1, <2>2 DEF ReceiveInv, Types
  <2>5. Places'
    BY <1>1, <1>7, <1>8, <1>13, <2>3 DEF Places
  <2>6. FreeList'
    BY <1>1, <2>2, FreeListKept, OddStays DEF Grows
  <2>7. Paths'
    <3>1. Apart(Live \ {x}, <<>>, 1)
      BY <1>4 DEF Apart
    <3>. QED  BY <1>1, <2>2, <2>3, <3>1 DEF Paths, Top, NextPart
  <2>8. Accounts(Live, freeQDs, refcount, freeNodes)'
    BY <2>1, <2>2, <2>3
  <2>. QED  BY <2>4, <2>5, <2>6, <2>7, <2>8 DEF ReceiveInv
<1>. QED  BY <1>3, <1>12, <1>13

(* What the state says between two calls of the client.                    *)
LEMMA IdleFacts ==
  ASSUME Assumptions, ReceiveInv, AtClient
  PROVE  /\ call = None /\ parse = None /\ InHand = {} /\ Live = Queued(q.list)
         /\ q \in [list : Seq(QueuedData), scanIndex : Nat] /\ q.list \in Seq(QueuedData) /\ q.scanIndex \in Nat
         /\ Distinct(q.list)
         /\ \A z \in Queued(q.list) : InQueueOK(z)
         /\ Apart(Live, <<>>, 1) /\ Rooted(Live, Len(accepted)) /\ Top = <<>> /\ NextPart = 1
         /\ freePackets \in Seq(Buffers) /\ refcount \in [Buffers -> Nat] /\ freeQDs \in Nat /\ freeNodes \in Nat
         /\ FreeListOf(freePackets, refcount, held)
         /\ Accounts(Live, freeQDs, refcount, freeNodes)
BY InvFacts DEF ReceiveInv, Types, Places, Paths, Top, NextPart, FreeList

LEMMA InvBeginIdleParse ==
  ASSUME Assumptions, ReceiveInv, AtClient, NEW i \in DOMAIN q.list, BeginIdleParse(i),
         UNCHANGED <<times, held, call, accepted, log>>
  PROVE  ReceiveInv'
<1>. DEFINE t == q.list[i]
<1>1. /\ t.el.kind = "bundle" /\ parse' = [qd |-> t, next |-> 1, idle |-> TRUE]
      /\ q' = [q EXCEPT !.scanIndex = i]
      /\ UNCHANGED <<freePackets, refcount, freeQDs, freeNodes, lastTimeTag, timePassed, clock, held, call, accepted>>
  BY DEF BeginIdleParse, pools, times
<1>2. /\ call = None /\ parse = None /\ InHand = {} /\ Live = Queued(q.list)
      /\ q \in [list : Seq(QueuedData), scanIndex : Nat] /\ q.list \in Seq(QueuedData)
      /\ Distinct(q.list)
      /\ \A z \in Queued(q.list) : InQueueOK(z)
      /\ Apart(Live, <<>>, 1) /\ Rooted(Live, Len(accepted))
  BY IdleFacts
<1>3. t \in QueuedData /\ t \in Queued(q.list) /\ t = q.list[i] /\ i \in Nat
  BY <1>2 DEF Queued
<1>. HIDE DEF t
<1>4. q' \in [list : Seq(QueuedData), scanIndex : Nat] /\ q'.list = q.list /\ q'.scanIndex = i
  BY <1>1, <1>2, <1>3
<1>5. parse' \in ParseTypes /\ parse'.qd = t /\ parse'.next = 1 /\ parse'.idle = TRUE /\ parse' # None
  <2>1. [qd |-> t, next |-> 1, idle |-> TRUE] \in ParseTypes
    BY <1>3 DEF ParseTypes
  <2>2. parse' \in ParseTypes
    BY <1>1, <2>1
  <2>. QED  BY <1>1, <2>2, NoneIsNone DEF Assumptions
<1>6. InHand' = {} /\ Live' = Live
  <2>1. InHand' = {}
    BY <1>1, <1>2, <1>5 DEF InHand
  <2>. QED  BY <1>2, <1>4, <2>1 DEF Live, Queued
<1>7. Types'
  BY <1>1, <1>4, <1>5 DEF ReceiveInv, Types
<1>8. Places'
  <2>1. t.callbacks = NotDispatched
    BY <1>1, <1>2, <1>3 DEF InQueueOK
  <2>2. t.el.elems \in Seq(Elements)
    BY <1>1, <1>3, ElementsAre DEF QueuedData, WellFormed, Assumptions
  <2>3. parse'.next <= Len(parse'.qd.el.elems) + 1
    BY <1>5, <2>2
  <2>4. parse'.qd.el.kind = "bundle" /\ parse'.qd.callbacks = NotDispatched
    BY <1>1, <1>5, <2>1
  <2>5. call' = None /\ q'.scanIndex \in DOMAIN q'.list /\ q'.list[q'.scanIndex] = parse'.qd
    BY <1>1, <1>2, <1>3, <1>4, <1>5
  <2>. QED  BY <1>2, <1>4, <1>6, <2>3, <2>4, <2>5 DEF Places
<1>9. FreeList'
  BY <1>1 DEF ReceiveInv, FreeList, FreeListOf, OddCame
<1>10. Paths'
  <2>1. Apart(Live, t.path, 1)
    BY <1>2, ApartBegin
  <2>. QED  BY <1>1, <1>2, <1>5, <1>6, <2>1 DEF Paths, Top, NextPart
<1>11. Accounts(Live, freeQDs, refcount, freeNodes)'
  BY <1>1, <1>6 DEF ReceiveInv
<1>. QED  BY <1>7, <1>8, <1>9, <1>10, <1>11 DEF ReceiveInv

LEMMA InvDispatchEarly ==
  ASSUME Assumptions, ReceiveInv, AtClient, NEW i \in DOMAIN q.list, HasWork(q.list[i]), DispatchEarly(i),
         UNCHANGED <<times, held, call, accepted, log>>
  PROVE  ReceiveInv'
<1>. DEFINE x == q.list[i]
            n == OSCDispatchMessage(x.el)
            y == [x EXCEPT !.callbacks = n]
            less == RemoveElement(i, q.list)
            changed == [q.list EXCEPT ![i] = y]
<1>1. /\ x.el.kind = "message" /\ freeNodes' = freeNodes - n
      /\ UNCHANGED <<lastTimeTag, timePassed, clock, held, call, parse, accepted>>
  BY DEF DispatchEarly, AllocCallbackListNodes, times
<1>2. \/ /\ n > 0
         /\ q' = [list |-> [q.list EXCEPT ![i].callbacks = n], scanIndex |-> i]
         /\ UNCHANGED <<freeQDs, refcount, freePackets>>
      \/ /\ n = 0
         /\ q' = [list |-> less, scanIndex |-> i - 1] /\ PacketRemoveRef(x.buf) /\ FreeQD
  <2>1. OSCQueueRemoveCurrentScanItem([q EXCEPT !.scanIndex = i]) = [list |-> less, scanIndex |-> i - 1]
    <3>1. q \in [list : Seq(QueuedData), scanIndex : Nat]
      BY IdleFacts
    <3>2. [q EXCEPT !.scanIndex = i].list = q.list /\ [q EXCEPT !.scanIndex = i].scanIndex = i
      BY <3>1
    <3>. QED  BY <3>2 DEF OSCQueueRemoveCurrentScanItem
  <2>. HIDE DEF less
  <2>. QED  BY <2>1 DEF DispatchEarly
<1>3. /\ call = None /\ parse = None /\ InHand = {} /\ Live = Queued(q.list)
      /\ q \in [list : Seq(QueuedData), scanIndex : Nat] /\ q.list \in Seq(QueuedData)
      /\ Distinct(q.list)
      /\ \A z \in Queued(q.list) : InQueueOK(z)
      /\ Apart(Live, <<>>, 1) /\ Rooted(Live, Len(accepted)) /\ Top = <<>> /\ NextPart = 1
      /\ freePackets \in Seq(Buffers) /\ refcount \in [Buffers -> Nat] /\ freeQDs \in Nat /\ freeNodes \in Nat
      /\ FreeListOf(freePackets, refcount, held)
  BY IdleFacts
<1>4. x \in QueuedData /\ x \in Live /\ x.el \in Elements /\ x = q.list[i] /\ i \in Nat /\ i >= 1
  <2>1. x \in QueuedData /\ x \in Live /\ x = q.list[i] /\ i \in Nat /\ i >= 1
    BY <1>3 DEF Queued
  <2>. QED  BY <2>1 DEF QueuedData
<1>5. x.callbacks = NotDispatched /\ InQueueOK(x)
  BY <1>1, <1>3, <1>4 DEF HasWork
<1>6. n \in Nat /\ n <= freeNodes
  BY <1>1, <1>3, <1>4, DispatchNodes
<1>7. InHand' = {} /\ Live' = Queued(q'.list)
  <2>1. InHand' = {}
    BY <1>1, <1>3 DEF InHand
  <2>. QED  BY <2>1 DEF Live, Queued
<1>8. CASE /\ n > 0
           /\ q' = [list |-> [q.list EXCEPT ![i].callbacks = n], scanIndex |-> i]
           /\ UNCHANGED <<freeQDs, refcount, freePackets>>
  <2>1. [q.list EXCEPT ![i].callbacks = n] = changed
    OBVIOUS
  <2>. HIDE DEF x, n, changed
  <2>2. /\ y \in QueuedData /\ InQueueOK(y) /\ freeNodes' \in Nat
        /\ Accounts((Live \ {x}) \cup {y}, freeQDs', refcount', freeNodes')
        /\ Apart((Live \ {x}) \cup {y}, Top, NextPart)
        /\ Rooted((Live \ {x}) \cup {y}, Len(accepted'))
        /\ \A z \in Live : z = y => z = x
        /\ y.callbacks = n
    <3>1. /\ x \in Live /\ n \in Nat \ {0} /\ (x.callbacks = NotDispatched => n <= freeNodes)
          /\ InQueueOK(x) /\ x.el.kind = "message" /\ UNCHANGED <<refcount, freeQDs, accepted>>
          /\ freeNodes' = freeNodes - (IF x.callbacks = NotDispatched THEN n ELSE 0)
          /\ (x.callbacks # NotDispatched => n = x.callbacks)
      BY <1>1, <1>4, <1>5, <1>6, <1>8
    <3>. QED  BY <3>1, DispatchOne
  <2>. HIDE DEF y
  <2>3. y \notin Queued(q.list)
    <3>1. y # x
      BY <1>5, <1>6, <2>2 DEF NotDispatched
    <3>. QED  BY <1>3, <2>2, <3>1
  <2>4. /\ changed \in Seq(QueuedData) /\ Distinct(changed)
        /\ Queued(changed) = (Queued(q.list) \ {x}) \cup {y}
    BY <1>3, <1>4, <2>2, <2>3, QueuedChange, SMTT(20) DEF changed
  <2>5. q' \in [list : Seq(QueuedData), scanIndex : Nat] /\ q'.list = changed
    BY <1>4, <1>8, <2>1, <2>4
  <2>6. Types'
    BY <1>1, <1>3, <1>8, <2>2, <2>5 DEF ReceiveInv, Types
  <2>7. Places'
    BY <1>1, <1>3, <1>7, <2>2, <2>4, <2>5 DEF Places
  <2>8. FreeList'
    BY <1>1, <1>3, <1>8, FreeListKept, OddStays DEF Grows
  <2>9. Live' = (Live \ {x}) \cup {y}
    BY <1>3, <1>7, <2>4, <2>5
  <2>10. Paths'
    BY <1>1, <1>3, <2>2, <2>9 DEF Paths, Top, NextPart
  <2>. QED  BY <2>2, <2>6, <2>7, <2>8, <2>9, <2>10 DEF ReceiveInv
<1>9. CASE n = 0 /\ q' = [list |-> less, scanIndex |-> i - 1] /\ PacketRemoveRef(x.buf) /\ FreeQD
  <2>. HIDE DEF x, n
  <2>1. freeNodes' = freeNodes
    BY <1>1, <1>3, <1>9
  <2>2. /\ freePackets' \in Seq(Buffers) /\ refcount' \in [Buffers -> Nat] /\ freeQDs' \in Nat
        /\ FreeListOf(freePackets', refcount', held')
        /\ Accounts(Live \ {x}, freeQDs', refcount', freeNodes)
        /\ Rooted(Live \ {x}, Len(accepted))
    <3>1. x.callbacks \in {0, NotDispatched} /\ held' = held
      BY <1>1, <1>5
    <3>. QED  BY <1>4, <1>9, <3>1, FreeOne
  <2>3. /\ less \in Seq(QueuedData) /\ Distinct(less) /\ Queued(less) = Queued(q.list) \ {x}
    BY <1>3, <1>4, QueuedRemove
  <2>. HIDE DEF less
  <2>4. i - 1 \in Nat
    BY <1>4
  <2>5. q' \in [list : Seq(QueuedData), scanIndex : Nat] /\ q'.list = less
    BY <1>9, <2>3, <2>4
  <2>6. Live' = Live \ {x}
    BY <1>3, <1>7, <2>3, <2>5
  <2>7. Types'
    BY <1>1, <1>3, <2>1, <2>2, <2>5 DEF ReceiveInv, Types
  <2>8. Places'
    BY <1>1, <1>3, <1>7, <2>3, <2>5 DEF Places
  <2>9. FreeList'
    BY <2>2, FreeListKept, OddStays DEF Grows
  <2>10. Paths'
    <3>1. Apart(Live \ {x}, <<>>, 1)
      BY <1>3 DEF Apart
    <3>. QED  BY <1>1, <1>3, <2>2, <2>6, <3>1 DEF Paths, Top, NextPart
  <2>11. Accounts(Live, freeQDs, refcount, freeNodes)'
    BY <2>1, <2>2, <2>6
  <2>. QED  BY <2>7, <2>8, <2>9, <2>10, <2>11 DEF ReceiveInv
<1>. QED  BY <1>2, <1>8, <1>9

LEMMA InvIdle ==
  ASSUME Assumptions, ReceiveInv, OSCBeProductiveWhileWaiting
  PROVE  ReceiveInv'
<1>1. AtClient /\ UNCHANGED <<times, held, call, accepted, log>>
  BY DEF OSCBeProductiveWhileWaiting
<1>2. CASE \E i \in DOMAIN q.list : WorkAt(i) /\ (BeginIdleParse(i) \/ DispatchEarly(i))
  <2>1. PICK i \in DOMAIN q.list : WorkAt(i) /\ (BeginIdleParse(i) \/ DispatchEarly(i))
    BY <1>2
  <2>2. HasWork(q.list[i])
    BY <2>1 DEF WorkAt
  <2>. QED  BY <1>1, <2>1, <2>2, InvBeginIdleParse, InvDispatchEarly
<1>3. CASE UNCHANGED <<pools, parse>> /\ q' = [q EXCEPT !.scanIndex = Max2(ScanFrom, Len(q.list))]
  <2>1. /\ call = None /\ parse = None /\ InHand = {} /\ Live = Queued(q.list)
        /\ q \in [list : Seq(QueuedData), scanIndex : Nat] /\ q.list \in Seq(QueuedData) /\ q.scanIndex \in Nat
    BY <1>1, IdleFacts
  <2>2. Max2(ScanFrom, Len(q.list)) \in Nat
    BY <2>1 DEF Max2, ScanFrom
  <2>3. q' \in [list : Seq(QueuedData), scanIndex : Nat] /\ q'.list = q.list
    BY <1>3, <2>1, <2>2
  <2>4. /\ UNCHANGED <<freePackets, refcount, freeQDs, freeNodes, lastTimeTag, timePassed, clock>>
        /\ UNCHANGED <<held, call, parse, accepted>>
    BY <1>1, <1>3 DEF pools, times
  <2>5. InHand' = InHand /\ Live' = Live
    BY <2>1, <2>3, <2>4 DEF InHand, Live, Queued
  <2>6. Types' /\ Places'
    BY <2>1, <2>3, <2>4, <2>5 DEF ReceiveInv, Types, Places
  <2>7. FreeList' /\ Paths' /\ Accounts(Live, freeQDs, refcount, freeNodes)'
    BY <2>4, <2>5 DEF ReceiveInv, FreeList, FreeListOf, OddCame, Paths, Top, NextPart
  <2>. QED  BY <2>6, <2>7 DEF ReceiveInv
<1>. QED  BY <1>2, <1>3 DEF OSCBeProductiveWhileWaiting

-----------------------------------------------------------------------------
(* What is wanted follows from the invariant.                              *)
LEMMA InvNext == ASSUME Assumptions, ReceiveInv, [Next]_vars PROVE ReceiveInv'
<1>1. CASE OSCAllocPacketBuffer
  BY <1>1, InvAlloc
<1>2. CASE OSCFreePacket
  BY <1>2, InvFreePacket
<1>3. CASE \E el \in Packets : OSCAcceptPacket(el)
  BY <1>3, InvAccept
<1>4. CASE OSCBeProductiveWhileWaiting
  BY <1>4, InvIdle
<1>5. CASE \E all \in BOOLEAN : OSCInvokeMessagesThatAreReady(all)
  BY <1>5, InvInvoke
<1>6. CASE ClientSchedules(1)
  BY <1>6, InvClientSchedules
<1>7. CASE Tick
  BY <1>7, InvTick
<1>8. CASE ParseElement
  BY <1>8, InvParseElement
<1>9. CASE ParseDone
  BY <1>9, InvParseDone
<1>10. CASE TakeBundle
  BY <1>10, InvTakeBundle
<1>11. CASE TakeMessage
  BY <1>11, InvTakeMessage
<1>12. CASE CallCallback
  BY <1>12, InvCallCallback
<1>13. CASE MessageDone
  BY <1>13, InvMessageDone
<1>14. CASE LoopDone
  BY <1>14, InvLoopDone
<1>15. CASE UNCHANGED vars
  <2>1. InHand' = InHand /\ Live' = Live
    BY <1>15 DEF vars, InHand, Live
  <2>2. Types' /\ Places' /\ FreeList' /\ Paths' /\ Accounts(Live, freeQDs, refcount, freeNodes)'
    BY <1>15, <2>1 DEF ReceiveInv, vars, pools, times, Types, Places, FreeList, FreeListOf, OddCame, Paths, Top, NextPart
  <2>. QED  BY <2>2 DEF ReceiveInv
<1>. QED
  BY <1>1, <1>2, <1>3, <1>4, <1>5, <1>6, <1>7, <1>8, <1>9, <1>10, <1>11, <1>12, <1>13, <1>14, <1>15
  DEF Next, InCall

(* A live object holds no more nodes than there are.                       *)
LEMMA NodesOfLive ==
  ASSUME Assumptions, ReceiveInv, NEW x \in Live
  PROVE  x.callbacks \in Int /\ x.callbacks <= NumNodes
<1>1. x \in QueuedData /\ x.callbacks \in Int
  <2>1. x \in QueuedData
    BY InvFacts
  <2>. QED  BY <2>1 DEF QueuedData
<1>. DEFINE N == {x.path} \X (1 .. x.callbacks)
<1>2. IsFiniteSet(N) /\ Cardinality(N) = Max2(x.callbacks, 0)
  BY <1>1, NodesOfOne
<1>3. N \subseteq NodesInUse(Live)
  BY DEF NodesInUse
<1>4. /\ IsFiniteSet(NodesInUse(Live)) /\ freeNodes + Cardinality(NodesInUse(Live)) = NumNodes
      /\ freeNodes \in Nat
  BY DEF ReceiveInv, Accounts, Types
<1>. HIDE DEF N
<1>5. Cardinality(N) <= Cardinality(NodesInUse(Live)) /\ Cardinality(NodesInUse(Live)) \in Nat
  BY <1>3, <1>4, FS_Subset, FS_CardinalityType
<1>6. NumNodes \in Nat
  BY DEF Assumptions, ReceiveAssumption
<1>. QED  BY <1>1, <1>2, <1>4, <1>5, <1>6 DEF Max2

LEMMA InvQDs == ASSUME Assumptions, ReceiveInv PROVE QDsConserved /\ Len(q.list) <= CAPACITY
<1>1. Live = InHand \cup Queued(q.list) /\ InHand \subseteq Live
  BY InvFacts
<1>2. /\ q.list \in Seq(QueuedData) /\ Distinct(q.list) /\ \A x \in InHand : x \notin Queued(q.list)
  BY DEF ReceiveInv, Types, Places
<1>3. IsFiniteSet(Live) /\ freeQDs + Cardinality(Live) = NumQD /\ freeQDs \in Nat
  BY DEF ReceiveInv, Types, Accounts
<1>4. IsFiniteSet(Queued(q.list)) /\ Cardinality(Queued(q.list)) = Len(q.list)
  BY <1>2, QueuedCard
<1>5. IsFiniteSet(InHand) /\ Cardinality(InHand) \in Nat /\ Len(q.list) \in Nat
  BY <1>1, <1>2, <1>3, FS_Subset, FS_CardinalityType
<1>6. InHand \cap Queued(q.list) = {}
  BY <1>2
<1>7. Cardinality(InHand \cap Queued(q.list)) = 0
  BY <1>6, FS_EmptySet
<1>8. Cardinality(Live) = Cardinality(InHand) + Len(q.list)
  <2>1. Cardinality(InHand \cup Queued(q.list)) =
          Cardinality(InHand) + Cardinality(Queued(q.list)) - Cardinality(InHand \cap Queued(q.list))
    BY <1>4, <1>5, FS_Union
  <2>. QED  BY <1>1, <1>4, <1>5, <1>7, <2>1
<1>9. NumQD \in Nat /\ NumQD <= CAPACITY /\ CAPACITY \in Nat
  BY QueueAssumption DEF Assumptions, ReceiveAssumption
<1>. QED  BY <1>3, <1>5, <1>8, <1>9 DEF QDsConserved, QDs

WithinPools ==
    /\ Len(q.list) <= CAPACITY /\ freeQDs <= NumQD /\ freeNodes <= NumNodes
    /\ \A qd \in Live : qd.callbacks <= NumNodes

LEMMA InvTypeOK == ASSUME Assumptions, ReceiveInv PROVE TypeOK /\ WithinPools
<1>1. /\ q \in [list : Seq(QueuedData), scanIndex : Nat] /\ refcount \in [Buffers -> Nat]
      /\ held \in Buffers \union {NoBuffer} /\ lastTimeTag \in Nat /\ timePassed \in BOOLEAN /\ clock \in Nat
      /\ call \in CallTypes \cup {None} /\ freeQDs \in Nat /\ freeNodes \in Nat
  BY DEF ReceiveInv, Types
<1>2. freeQDs \in 0 .. NumQD /\ freeNodes \in 0 .. NumNodes
  <2>1. /\ IsFiniteSet(Live) /\ freeQDs + Cardinality(Live) = NumQD
        /\ IsFiniteSet(NodesInUse(Live)) /\ freeNodes + Cardinality(NodesInUse(Live)) = NumNodes
    BY DEF ReceiveInv, Accounts
  <2>2. Cardinality(Live) \in Nat /\ Cardinality(NodesInUse(Live)) \in Nat
    BY <2>1, FS_CardinalityType
  <2>3. NumQD \in Nat /\ NumNodes \in Nat
    BY DEF Assumptions, ReceiveAssumption
  <2>. QED  BY <1>1, <2>1, <2>2, <2>3
<1>3. ASSUME NEW qd \in Live
      PROVE  /\ qd.timetag \in Nat /\ qd.buf \in Buffers
             /\ \/ qd.callbacks \in {NotDispatched} \union 1 .. NumNodes
                \/ qd.callbacks = 0 /\ qd \in InHand
             /\ qd.el.kind \in {"message", "bundle"}
  <2>1. qd.timetag \in Nat /\ qd.buf \in Buffers /\ (qd \in InHand \/ qd \in Queued(q.list))
    BY InvFacts
  <2>2. qd.callbacks \in Int /\ qd.callbacks <= NumNodes /\ NumNodes \in Nat
    BY NodesOfLive DEF Assumptions, ReceiveAssumption
  <2>3. CASE qd \in Queued(q.list)
    <3>1. InQueueOK(qd)
      BY <2>3 DEF ReceiveInv, Places
    <3>2. qd.callbacks # NotDispatched => qd.callbacks \in 1 .. NumNodes
      BY <2>2, <3>1 DEF InQueueOK
    <3>. QED  BY <2>1, <3>1, <3>2 DEF InQueueOK
  <2>4. CASE qd \in InHand /\ call # None /\ call.qd # None
    <3>1. qd = call.qd
      BY <2>4, InvFacts
    <3>2. qd.el.kind = "message" /\ qd.callbacks \in Nat
      BY <2>4, <3>1 DEF ReceiveInv, Places
    <3>3. qd.callbacks = 0 \/ qd.callbacks \in 1 .. NumNodes
      BY <2>2, <3>2
    <3>. QED  BY <2>1, <2>4, <3>2, <3>3
  <2>5. CASE qd \in InHand /\ ~(call # None /\ call.qd # None)
    <3>1. parse # None
      <4>1. InHand = HandOf(call, parse) /\ NoneIsNoRecord
        BY InvFacts DEF Assumptions
      <4>2. parse = None => HandOf(call, parse) = {}
        BY <1>1, <2>5, <4>1, HandIs
      <4>. QED  BY <2>5, <4>1, <4>2
    <3>2. InHand = IF parse.idle THEN {} ELSE {parse.qd}
      BY <3>1, ParseFacts
    <3>3. qd = parse.qd
      BY <2>5, <3>2
    <3>4. qd.el.kind = "bundle" /\ qd.callbacks = NotDispatched
      BY <3>1, <3>3, ParseFacts
    <3>. QED  BY <2>1, <3>4
  <2>. QED  BY <2>1, <2>3, <2>4, <2>5
<1>4. call # None => call.tag \in Nat /\ call.now \in Nat /\ call.all \in BOOLEAN
  BY <1>1 DEF CallTypes
<1>5. parse # None => parse.next \in 1 .. Len(parse.qd.el.elems) + 1
  <2>1. parse # None => /\ parse.qd.el.elems \in Seq(Elements)
                       /\ parse.next \in Nat \ {0} /\ parse.next <= Len(parse.qd.el.elems) + 1
    BY ParseFacts
  <2>. QED  BY <2>1
<1>6. Len(q.list) <= CAPACITY /\ q.scanIndex \in Nat
  BY <1>1, InvQDs
<1>7. TypeOK
  BY <1>1, <1>3, <1>4, <1>5, <1>6 DEF TypeOK
<1>8. WithinPools
  BY <1>2, <1>6, NodesOfLive, InvFacts DEF WithinPools
<1>. QED  BY <1>7, <1>8

LEMMA InvBuffers == ASSUME Assumptions, ReceiveInv PROVE BuffersConserved
<1>1. \A b \in Buffers : refcount[b] = Cardinality({x \in Live : x.buf = b})
  BY DEF ReceiveInv, Accounts
<1>2. \A b \in Buffers : IsFree(b) <=> b \in Queued(freePackets)
  BY DEF IsFree, Queued
<1>3. \A b \in Buffers : /\ IsFree(b) => refcount[b] = 0 /\ held # b
                         /\ ~OddCame /\ refcount[b] = 0 /\ held # b => IsFree(b)
  BY <1>2 DEF ReceiveInv, FreeList, FreeListOf
<1>4. \A i, j \in DOMAIN freePackets : freePackets[i] = freePackets[j] => i = j
  BY DEF ReceiveInv, FreeList, FreeListOf, Distinct
<1>. QED  BY <1>1, <1>3, <1>4 DEF BuffersConserved

(* The invariant is one of the specification.                              *)
THEOREM Invariant == ASSUME Assumptions PROVE Spec => []ReceiveInv
<1>1. Init => ReceiveInv
  BY InvInit
<1>2. ReceiveInv /\ [Next]_vars => ReceiveInv'
  BY InvNext
<1>. QED  BY <1>1, <1>2, PTL DEF Spec

(* The state of the receiver is well-typed; the queue never holds more     *)
(* than its array has room for (OSC-priority-queue.c, OSCQueueInsert), no  *)
(* pool has more than it began with, and no message has more callbacks     *)
(* than there are nodes.                                                   *)
THEOREM TypeCorrect == ASSUME Assumptions PROVE Spec => [](TypeOK /\ WithinPools)
<1>1. ReceiveInv => TypeOK /\ WithinPools
  BY InvTypeOK
<1>. QED  BY <1>1, Invariant, PTL

(* No queued data are lost, whatever is dropped, parsed early or scheduled *)
(* by a callback (AllocQD, FreeQD at all their callers in OSC-receive.c).  *)
THEOREM QueuedDataConserved == ASSUME Assumptions PROVE Spec => []QDsConserved
<1>1. ReceiveInv => QDsConserved
  BY InvQDs
<1>. QED  BY <1>1, Invariant, PTL

(* Callback nodes are given back, also those of messages that were         *)
(* dispatched in idle time (OSC-callbacklist.c, CallWholeCallbackList).    *)
THEOREM CallbackNodesConserved == ASSUME Assumptions PROVE Spec => []NodesConserved
<1>1. ReceiveInv => NodesConserved
  BY DEF ReceiveInv, Accounts, NodesConserved, Nodes
<1>. QED  BY <1>1, Invariant, PTL

(* A packet buffer is freed exactly when nothing refers to it any more,    *)
(* and only once, as long as no packet of an odd size has come             *)
(* (PacketAddRef, PacketRemoveRef, OSCAcceptPacket of OSC-receive.c).      *)
THEOREM PacketBuffersConserved == ASSUME Assumptions PROVE Spec => []BuffersConserved
<1>1. ReceiveInv => BuffersConserved
  BY InvBuffers
<1>. QED  BY <1>1, Invariant, PTL

(* The three pools, as the runs check them: what is free, waits and is in  *)
(* hand adds up to the same number ever after (OSC-receive.c,              *)
(* OSC-callbacklist.c).                                                    *)
THEOREM PoolsConservedTheorem == ASSUME Assumptions PROVE Spec => PoolsConserved
<1>1. ReceiveInv => TypeOK /\ BuffersConserved
  BY InvTypeOK, InvBuffers
<1>2. ReceiveInv => QDs = NumQD /\ Nodes = NumNodes
  BY InvQDs DEF QDsConserved, ReceiveInv, Accounts, Nodes
<1>3. /\ QDs = NumQD /\ Nodes = NumNodes
      /\ (QDs = NumQD /\ Nodes = NumNodes)'
      => QDs' = QDs /\ Nodes' = Nodes
  OBVIOUS
<1>. QED  BY <1>1, <1>2, <1>3, Invariant, PTL DEF PoolsConserved

-----------------------------------------------------------------------------
(* The order of effects.  It depends on where queued data come from, not   *)
(* on their callbacks.                                                     *)
Last(p) == p[Len(p)]
IsMessage(x) == x.el.kind = "message"
Siblings(x, y) == IsMessage(x) /\ IsMessage(y) /\ Parent(x.path) = Parent(y.path)

\* The callbacks of a message that are still to come, if all its methods are called.
Owed(x) == IF x.callbacks = NotDispatched THEN x.el.methods ELSE x.callbacks

(* The same element, with no more callbacks to come.                       *)
Same(x, y) ==
    /\ x.path = y.path /\ x.el = y.el /\ x.timetag = y.timetag
    /\ IsMessage(x) => Owed(y) = Owed(x) \/ Owed(y) < Owed(x)

Covered(live, more) == \A y \in live : \E x \in more : Same(x, y)

(* A list without some of its objects, the others in their order.          *)
Thinned(less, list) ==
    \E m \in [DOMAIN less -> DOMAIN list] :
        /\ \A i \in DOMAIN less : Same(list[m[i]], less[i])
        /\ \A i, j \in DOMAIN less : i < j => m[i] < m[j]

(* The log is about packets that were accepted; what took effect is gone,  *)
(* with all around it, but for the message in hand.                        *)
Entry == [path : Seq(Nat), tag : Nat]

Logged(lg, n) ==
    /\ lg \in Seq(Entry)
    /\ \A k \in DOMAIN lg : lg[k].path # <<>> /\ lg[k].path[1] <= n

Behind(lg, live, hand) ==
    \A k \in DOMAIN lg : \A x \in live : Leads(x.path, lg[k].path) => x.path = hand

(* Messages of one bundle wait in their order, for the same time, and come *)
(* after those that took effect; those without a bundle are for at once.   *)
Ordered(list) ==
    \A i, j \in DOMAIN list :
        i < j /\ Siblings(list[i], list[j]) =>
            Last(list[i].path) < Last(list[j].path) /\ list[i].timetag = list[j].timetag

LogFirst(lg, live) ==
    \A k \in DOMAIN lg : \A x \in live :
        IsMessage(x) /\ Parent(x.path) = Parent(lg[k].path) => Last(lg[k].path) <= Last(x.path)

Outermost(live) == \A x \in live : IsMessage(x) /\ Parent(x.path) = <<>> => x.timetag = Immediately

InOrder(lg) ==
    \A i, j \in DOMAIN lg :
        i < j /\ Parent(lg[i].path) = Parent(lg[j].path) => Last(lg[i].path) <= Last(lg[j].path)

OrderOf(list, live, lg, n, hand) ==
    /\ Logged(lg, n) /\ Behind(lg, live, hand)
    /\ Ordered(list) /\ LogFirst(lg, live) /\ Outermost(live) /\ InOrder(lg)

(* The message in hand is the first of its bundle; of the bundle that is   *)
(* parsed, the messages up to the next element are there.                  *)
Hand == IF call = None \/ call.qd = None THEN <<>> ELSE call.qd.path

HandFirst ==
    call # None /\ call.qd # None =>
        \A y \in Queued(q.list) : Siblings(call.qd, y) => Last(call.qd.path) < Last(y.path)

Parsed ==
    parse # None =>
        \A x \in Live : IsMessage(x) /\ Parent(x.path) = parse.qd.path =>
            Last(x.path) < parse.next /\ x.timetag = parse.qd.timetag

OrderInv == OrderOf(q.list, Live, log, Len(accepted), Hand) /\ HandFirst /\ Parsed

-----------------------------------------------------------------------------
LEMMA ParentOfElement ==
  ASSUME NEW p \in Seq(Nat), NEW k \in Nat
  PROVE  Parent(Append(p, k)) = p /\ Last(Append(p, k)) = k
<1>1. /\ Append(p, k) \in Seq(Nat) /\ Len(Append(p, k)) = Len(p) + 1 /\ Len(p) \in Nat
      /\ Append(p, k)[Len(p) + 1] = k /\ \A i \in 1 .. Len(p) : Append(p, k)[i] = p[i]
  OBVIOUS
<1>2. Parent(Append(p, k)) = SubSeq(Append(p, k), 1, Len(p))
  BY <1>1 DEF Parent
<1>. DEFINE a == Append(p, k)
<1>. HIDE DEF a
<1>3. SubSeq(a, 1, Len(p)) = p
  BY <1>1 DEF a
<1>. QED  BY <1>1, <1>2, <1>3 DEF Last, a

LEMMA ParentLeads ==
  ASSUME NEW p \in Seq(Nat), p # <<>>
  PROVE  /\ Leads(Parent(p), p) /\ Leads(p, p)
         /\ Last(p) \in Nat /\ p[1] \in Nat /\ Len(p) \in Nat \ {0}
         /\ Parent(p) = <<>> => p = <<p[1]>> /\ Last(p) = p[1]
<1>1. Len(p) \in Nat /\ Len(p) >= 1 /\ DOMAIN p = 1 .. Len(p) /\ \A i \in 1 .. Len(p) : p[i] \in Nat
  OBVIOUS
<1>2. /\ Len(Parent(p)) = Len(p) - 1
      /\ \A i \in 1 .. Len(p) - 1 : Parent(p)[i] = p[i]
  BY <1>1 DEF Parent
<1>3. Leads(Parent(p), p) /\ Leads(p, p)
  BY <1>1, <1>2 DEF Leads
<1>4. ASSUME Parent(p) = <<>> PROVE p = <<p[1]>> /\ Last(p) = p[1]
  <2>1. Len(Parent(p)) = 0
    BY <1>4
  <2>2. Len(p) - 1 = 0
    BY <1>2, <2>1
  <2>3. Len(p) = 1
    <3>1. Len(p) \in Nat
      OBVIOUS
    <3>. QED  BY <2>2, <3>1
  <2>. QED  BY <1>1, <2>3 DEF Last
<1>. QED  BY <1>1, <1>3, <1>4 DEF Last

LEMMA ParentOfPacket ==
  ASSUME NEW n \in Nat
  PROVE  <<n>> \in Seq(Nat) /\ Parent(<<n>>) = <<>> /\ Last(<<n>>) = n /\ <<n>>[1] = n /\ <<n>> # <<>>
BY ParentOfElement DEF Parent, Last

LEMMA LeadsFirst ==
  ASSUME NEW p, NEW r \in Seq(Nat), p \in Seq(Nat), p # <<>>, Leads(p, r)
  PROVE  p[1] = r[1]
BY DEF Leads

LEMMA LeadsTransitive ==
  ASSUME NEW p \in Seq(Nat), NEW r \in Seq(Nat), NEW s \in Seq(Nat), Leads(p, r), Leads(r, s)
  PROVE  Leads(p, s)
BY DEF Leads

-----------------------------------------------------------------------------
(* Fewer objects.                                                          *)
LEMMA ThinnedSame ==
  ASSUME NEW list PROVE Thinned(list, list)
<1>. DEFINE m == [i \in DOMAIN list |-> i]
<1>1. m \in [DOMAIN list -> DOMAIN list] /\ \A i \in DOMAIN list : m[i] = i
  OBVIOUS
<1>. HIDE DEF m
<1>. QED  BY <1>1 DEF Thinned, Same

LEMMA ThinnedChange ==
  ASSUME NEW list \in Seq(QueuedData), NEW i \in DOMAIN list, NEW y, Same(list[i], y)
  PROVE  Thinned([list EXCEPT ![i] = y], list)
<1>. DEFINE m == [k \in DOMAIN list |-> k]
            new == [list EXCEPT ![i] = y]
<1>1. m \in [DOMAIN list -> DOMAIN list] /\ \A k \in DOMAIN list : m[k] = k
  OBVIOUS
<1>2. DOMAIN new = DOMAIN list /\ \A k \in DOMAIN list : new[k] = IF k = i THEN y ELSE list[k]
  OBVIOUS
<1>. HIDE DEF m, new
<1>3. \A k \in DOMAIN new : Same(list[m[k]], new[k])
  BY <1>1, <1>2 DEF Same
<1>4. m \in [DOMAIN new -> DOMAIN list] /\ \A k, j \in DOMAIN new : k < j => m[k] < m[j]
  BY <1>1, <1>2
<1>5. Thinned(new, list)
  BY <1>3, <1>4 DEF Thinned
<1>. QED  BY <1>5 DEF new

LEMMA ThinnedRemove ==
  ASSUME NEW list \in Seq(QueuedData), NEW g \in DOMAIN list
  PROVE  Thinned(RemoveElement(g, list), list)
<1>. DEFINE less == RemoveElement(g, list)
            m == [i \in 1 .. Len(list) - 1 |-> IF i < g THEN i ELSE i + 1]
<1>1. /\ Len(list) \in Nat /\ g \in 1 .. Len(list) /\ DOMAIN list = 1 .. Len(list)
      /\ DOMAIN less = 1 .. Len(list) - 1
      /\ \A i \in 1 .. Len(list) - 1 : less[i] = IF i < g THEN list[i] ELSE list[i + 1]
  BY DEF RemoveElement
<1>2. \A i \in 1 .. Len(list) - 1 : m[i] = IF i < g THEN i ELSE i + 1
  OBVIOUS
<1>3. m \in [1 .. Len(list) - 1 -> 1 .. Len(list)]
  BY <1>1
<1>. HIDE DEF less, m
<1>4. \A i \in DOMAIN less : Same(list[m[i]], less[i])
  BY <1>1, <1>2 DEF Same
<1>5. \A i, j \in DOMAIN less : i < j => m[i] < m[j]
  BY <1>1, <1>2
<1>6. Thinned(less, list)
  BY <1>1, <1>3, <1>4, <1>5 DEF Thinned
<1>. QED  BY <1>6 DEF less

LEMMA ThinnedCovered ==
  ASSUME NEW less, NEW list, Thinned(less, list)
  PROVE  Covered(Queued(less), Queued(list))
BY DEF Thinned, Covered, Queued

(* Nothing new waits: the order remains.                                   *)
LEMMA OrderLess ==
  ASSUME NEW list, NEW less, Thinned(less, list), NEW live, NEW fewer, Covered(fewer, live),
         NEW lg, NEW n \in Nat, NEW hand, OrderOf(list, live, lg, n, hand)
  PROVE  OrderOf(less, fewer, lg, n, hand) /\ OrderOf(less, fewer, lg, n + 1, hand)
<1>1. Logged(lg, n) /\ Logged(lg, n + 1)
  <2>1. Logged(lg, n)
    BY DEF OrderOf
  <2>2. SUFFICES ASSUME NEW k \in DOMAIN lg PROVE lg[k].path[1] <= n + 1
    BY <2>1 DEF Logged
  <2>3. lg[k].path \in Seq(Nat) /\ lg[k].path # <<>> /\ lg[k].path[1] <= n
    <3>1. lg[k] \in Entry
      BY <2>1 DEF Logged
    <3>. QED  BY <2>1, <3>1 DEF Logged, Entry
  <2>4. lg[k].path[1] \in Nat
    BY <2>3, ParentLeads
  <2>. QED  BY <2>3, <2>4
<1>2. Behind(lg, fewer, hand)
  BY DEF OrderOf, Behind, Covered, Same
<1>3. Ordered(less)
  <2>1. PICK m \in [DOMAIN less -> DOMAIN list] :
          /\ \A i \in DOMAIN less : Same(list[m[i]], less[i])
          /\ \A i, j \in DOMAIN less : i < j => m[i] < m[j]
    BY DEF Thinned
  <2>2. SUFFICES ASSUME NEW i \in DOMAIN less, NEW j \in DOMAIN less, i < j, Siblings(less[i], less[j])
                 PROVE  Last(less[i].path) < Last(less[j].path) /\ less[i].timetag = less[j].timetag
    BY DEF Ordered
  <2>3. m[i] < m[j] /\ Same(list[m[i]], less[i]) /\ Same(list[m[j]], less[j])
        /\ m[i] \in DOMAIN list /\ m[j] \in DOMAIN list
    BY <2>1, <2>2
  <2>4. Siblings(list[m[i]], list[m[j]])
    BY <2>2, <2>3 DEF Same, Siblings, IsMessage
  <2>5. /\ Last(list[m[i]].path) < Last(list[m[j]].path)
        /\ list[m[i]].timetag = list[m[j]].timetag
    BY <2>3, <2>4 DEF OrderOf, Ordered
  <2>. QED  BY <2>3, <2>5 DEF Same
<1>4. LogFirst(lg, fewer) /\ Outermost(fewer)
  <2>1. LogFirst(lg, fewer)
    BY DEF OrderOf, LogFirst, Covered, Same, IsMessage
  <2>2. Outermost(fewer)
    BY DEF OrderOf, Outermost, Covered, Same, IsMessage
  <2>. QED  BY <2>1, <2>2
<1>. QED  BY <1>1, <1>2, <1>3, <1>4 DEF OrderOf

(* An object is queued.  A message must come after its siblings.           *)
Follows(x, live, lg) ==
    IsMessage(x) =>
        /\ \A y \in live : Siblings(y, x) => Last(y.path) < Last(x.path) /\ y.timetag = x.timetag
        /\ \A k \in DOMAIN lg : Parent(x.path) = Parent(lg[k].path) => Last(lg[k].path) <= Last(x.path)
        /\ Parent(x.path) = <<>> => x.timetag = Immediately

LEMMA OrderMore ==
  ASSUME NEW list \in Seq(QueuedData), NEW live, Queued(list) \subseteq live,
         NEW lg, NEW n, NEW hand, OrderOf(list, live, lg, n, hand),
         NEW x \in QueuedData, Follows(x, live, lg),
         \A k \in DOMAIN lg : ~Leads(x.path, lg[k].path)
  PROVE  OrderOf(Append(list, x), live \cup {x}, lg, n, hand)
<1>. DEFINE more == Append(list, x)
<1>1. /\ Len(list) \in Nat /\ DOMAIN list = 1 .. Len(list) /\ DOMAIN more = 1 .. Len(list) + 1
      /\ more[Len(list) + 1] = x /\ \A i \in 1 .. Len(list) : more[i] = list[i]
  OBVIOUS
<1>. HIDE DEF more
<1>2. Behind(lg, live \cup {x}, hand)
  BY DEF OrderOf, Behind
<1>3. Ordered(more)
  <2>1. SUFFICES ASSUME NEW i \in DOMAIN more, NEW j \in DOMAIN more, i < j, Siblings(more[i], more[j])
                 PROVE  Last(more[i].path) < Last(more[j].path) /\ more[i].timetag = more[j].timetag
    BY DEF Ordered
  <2>2. i \in 1 .. Len(list) /\ more[i] = list[i]
    BY <1>1, <2>1
  <2>3. CASE j \in 1 .. Len(list)
    <3>1. more[j] = list[j] /\ i \in DOMAIN list /\ j \in DOMAIN list
      BY <1>1, <2>2, <2>3
    <3>. QED  BY <2>1, <2>2, <3>1 DEF OrderOf, Ordered
  <2>4. CASE j = Len(list) + 1
    <3>1. more[j] = x /\ more[i] \in live
      BY <1>1, <2>2, <2>4 DEF Queued
    <3>. QED  BY <2>1, <3>1 DEF Follows, Siblings
  <2>. QED  BY <1>1, <2>3, <2>4
<1>4. LogFirst(lg, live \cup {x})
  BY DEF OrderOf, LogFirst, Follows
<1>5. Outermost(live \cup {x})
  BY DEF OrderOf, Outermost, Follows
<1>. QED  BY <1>2, <1>3, <1>4, <1>5 DEF OrderOf, more

(* The message in hand takes effect.                                       *)
LEMMA OrderLogged ==
  ASSUME NEW list, NEW live \in SUBSET QueuedData, NEW lg, NEW n \in Nat, Rooted(live, n),
         NEW x \in live, OrderOf(list, live, lg, n, x.path), Apart(live, <<>>, 1), IsMessage(x),
         \A y \in live : Siblings(x, y) => Last(x.path) <= Last(y.path), NEW t \in Nat
  PROVE  OrderOf(list, live, Append(lg, [path |-> x.path, tag |-> t]), n, x.path)
<1>. DEFINE new == [path |-> x.path, tag |-> t]
            more == Append(lg, new)
<1>1. x.path \in Seq(Nat) /\ x.path # <<>> /\ x.path[1] <= n /\ \A y \in live : y.path \in Seq(Nat) /\ y.path # <<>>
  BY DEF Rooted, QueuedData
<1>2. lg \in Seq(Entry)
  BY DEF OrderOf, Logged
<1>3. /\ more \in Seq(Entry) /\ Len(lg) \in Nat /\ DOMAIN lg = 1 .. Len(lg)
      /\ DOMAIN more = 1 .. Len(lg) + 1 /\ more[Len(lg) + 1].path = x.path
      /\ \A k \in 1 .. Len(lg) : more[k] = lg[k]
  <2>1. new \in Entry /\ new.path = x.path
    BY <1>1 DEF Entry
  <2>. HIDE DEF new
  <2>. QED  BY <1>2, <2>1
<1>. HIDE DEF more, new
<1>4. ASSUME NEW k \in DOMAIN more
      PROVE  (k \in DOMAIN lg /\ more[k] = lg[k]) \/ (k = Len(lg) + 1 /\ more[k].path = x.path)
  BY <1>3
<1>5. Logged(more, n)
  BY <1>1, <1>3, <1>4 DEF OrderOf, Logged
<1>6. Behind(more, live, x.path)
  <2>1. SUFFICES ASSUME NEW k \in DOMAIN more, NEW y \in live, Leads(y.path, more[k].path)
                 PROVE  y.path = x.path
    BY DEF Behind
  <2>2. CASE k \in DOMAIN lg /\ more[k] = lg[k]
    BY <2>1, <2>2 DEF OrderOf, Behind
  <2>3. CASE more[k].path = x.path
    <3>1. y # x => y.path = <<>>
      BY <2>1, <2>3 DEF Apart
    <3>. QED  BY <1>1, <3>1
  <2>. QED  BY <1>4, <2>2, <2>3
<1>7. LogFirst(more, live)
  <2>1. SUFFICES ASSUME NEW k \in DOMAIN more, NEW y \in live, IsMessage(y), Parent(y.path) = Parent(more[k].path)
                 PROVE  Last(more[k].path) <= Last(y.path)
    BY DEF LogFirst
  <2>2. CASE k \in DOMAIN lg /\ more[k] = lg[k]
    BY <2>1, <2>2 DEF OrderOf, LogFirst
  <2>3. CASE more[k].path = x.path
    BY <2>1, <2>3 DEF Siblings
  <2>. QED  BY <1>4, <2>2, <2>3
<1>8. InOrder(more)
  <2>1. SUFFICES ASSUME NEW i \in DOMAIN more, NEW j \in DOMAIN more, i < j,
                        Parent(more[i].path) = Parent(more[j].path)
                 PROVE  Last(more[i].path) <= Last(more[j].path)
    BY DEF InOrder
  <2>2. i \in DOMAIN lg /\ more[i] = lg[i]
    BY <1>3, <2>1
  <2>3. CASE j \in DOMAIN lg /\ more[j] = lg[j]
    BY <2>1, <2>2, <2>3 DEF OrderOf, InOrder
  <2>4. CASE more[j].path = x.path
    BY <2>1, <2>2, <2>4 DEF OrderOf, LogFirst
  <2>. QED  BY <1>4, <2>3, <2>4
<1>. QED  BY <1>5, <1>6, <1>7, <1>8 DEF OrderOf, more, new

-----------------------------------------------------------------------------
(* Steps of the receiver.                                                  *)
Loose(p) == IF p = None \/ p.idle THEN {} ELSE {p.qd}

LEMMA LiveFacts ==
  ASSUME Assumptions, ReceiveInv
  PROVE  /\ q.list \in Seq(QueuedData) /\ Distinct(q.list) /\ Queued(q.list) \subseteq Live
         /\ call \in CallTypes \cup {None} /\ parse \in ParseTypes \cup {None}
         /\ Len(accepted) \in Nat /\ Live \in SUBSET QueuedData /\ Rooted(Live, Len(accepted))
         /\ \A x \in Live : x.path \in Seq(Nat) /\ x.path # <<>> /\ x.path[1] <= Len(accepted)
         /\ call = None \/ call.qd = None => Live = Loose(parse) \cup Queued(q.list) /\ Hand = <<>>
         /\ parse = None => Apart(Live, <<>>, 1)
<1>1. /\ q.list \in Seq(QueuedData) /\ Distinct(q.list) /\ Len(accepted) \in Nat
      /\ call \in CallTypes \cup {None} /\ parse \in ParseTypes \cup {None}
      /\ Rooted(Live, Len(accepted)) /\ (parse = None => Apart(Live, <<>>, 1))
  BY DEF ReceiveInv, Types, Places, Paths, Top, NextPart
<1>2. /\ Queued(q.list) \subseteq Live /\ Live \in SUBSET QueuedData /\ InHand = HandOf(call, parse)
      /\ Live = InHand \cup Queued(q.list)
  BY InvFacts
<1>3. \A x \in Live : x.path \in Seq(Nat) /\ x.path # <<>> /\ x.path[1] <= Len(accepted)
  BY <1>1, <1>2, PathType DEF Rooted
<1>4. call = None \/ call.qd = None => InHand = Loose(parse) /\ Hand = <<>>
  <2>1. call = None \/ call.qd = None => (parse = None => HandOf(call, parse) = {})
    BY <1>1, HandIs DEF Assumptions
  <2>2. call = None \/ call.qd = None => (parse # None => HandOf(call, parse) = Loose(parse))
    BY <1>1, HandIs DEF Assumptions, Loose
  <2>. QED  BY <1>2, <2>1, <2>2 DEF Loose, Hand
<1>. QED  BY <1>1, <1>2, <1>3, <1>4

LEMMA NextLive ==
  ASSUME Assumptions, ReceiveInv'
  PROVE  /\ call' = None \/ call'.qd = None => Live' = Loose(parse') \cup Queued(q'.list)
         /\ call' # None /\ call'.qd # None => parse' = None /\ Live' = {call'.qd} \cup Queued(q'.list)
         /\ \A x \in Live' : x.path # <<>>
<1>1. /\ call' \in CallTypes \cup {None} /\ parse' \in ParseTypes \cup {None}
      /\ Rooted(Live', Len(accepted'))
      /\ (call' # None /\ call'.qd # None => parse' = None)
  BY DEF ReceiveInv, Types, Paths, Places
<1>2. InHand' = HandOf(call', parse') /\ Live' = InHand' \cup Queued(q'.list)
  BY DEF InHand, HandOf, Live, Queued
<1>3. call' = None \/ call'.qd = None => (parse' = None => HandOf(call', parse') = {})
  BY <1>1, HandIs DEF Assumptions
<1>4. call' = None \/ call'.qd = None => (parse' # None => HandOf(call', parse') = Loose(parse'))
  BY <1>1, HandIs DEF Assumptions, Loose
<1>5. call' # None /\ call'.qd # None => HandOf(call', parse') = {call'.qd}
  BY <1>1, HandIs DEF Assumptions
<1>. QED  BY <1>1, <1>2, <1>3, <1>4, <1>5 DEF Loose, Rooted

LEMMA NotFull ==
  ASSUME Assumptions, ReceiveInv, freeQDs > 0
  PROVE  ~OSCQueueFull(q)
<1>1. /\ q.list \in Seq(QueuedData) /\ Distinct(q.list) /\ Queued(q.list) \subseteq Live /\ ReceiveAssumption
      /\ freeQDs \in Nat /\ Accounts(Live, freeQDs, refcount, freeNodes)
  BY LiveFacts DEF ReceiveInv, Types, Assumptions
<1>2. Len(q.list) < CAPACITY
  BY <1>1, RoomForMore
<1>3. Len(q.list) \in Nat /\ CAPACITY \in Nat
  BY <1>1, QueueAssumption
<1>. QED  BY <1>2, <1>3 DEF OSCQueueFull

(* No message of a bundle is there before the bundle is parsed.            *)
LEMMA NothingInside ==
  ASSUME Assumptions, ReceiveInv, parse = None, NEW t \in Live, t.el.kind = "bundle",
         NEW x \in Live, IsMessage(x)
  PROVE  Parent(x.path) # t.path
<1>1. x.path \in Seq(Nat) /\ x.path # <<>> /\ t.path # <<>> /\ Apart(Live, <<>>, 1)
  BY LiveFacts
<1>2. x # t
  BY DEF IsMessage
<1>3. Leads(Parent(x.path), x.path)
  BY <1>1, ParentLeads
<1>. QED  BY <1>1, <1>2, <1>3 DEF Apart

(* With nothing in hand, only what is gone has taken effect.               *)
LEMMA OrderIdle ==
  ASSUME Assumptions, ReceiveInv, OrderInv, call = None \/ call.qd = None
  PROVE  /\ OrderOf(q.list, Live, log, Len(accepted), <<>>)
         /\ \A k \in DOMAIN log : \A x \in Live : ~Leads(x.path, log[k].path)
<1>1. OrderOf(q.list, Live, log, Len(accepted), <<>>) /\ \A x \in Live : x.path # <<>>
  BY LiveFacts DEF OrderInv
<1>. QED  BY <1>1 DEF OrderOf, Behind

More == Len(accepted') \in {Len(accepted), Len(accepted) + 1}

LEMMA AnyHand ==
  ASSUME Assumptions, ReceiveInv', OrderOf(q'.list, Live', log', Len(accepted'), <<>>)
  PROVE  OrderOf(q.list, Live, log, Len(accepted), Hand)'
<1>1. \A x \in Live' : x.path # <<>>
  BY NextLive
<1>2. Behind(log', Live', Hand')
  BY <1>1 DEF OrderOf, Behind
<1>. QED  BY <1>2 DEF OrderOf

LEMMA OrderQuiet ==
  ASSUME Assumptions, ReceiveInv, ReceiveInv', OrderInv, call = None \/ call.qd = None,
         Thinned(q'.list, q.list), Covered(Live', Live), log' = log, More, HandFirst', Parsed'
  PROVE  OrderInv'
<1>1. OrderOf(q.list, Live, log, Len(accepted), <<>>) /\ Len(accepted) \in Nat
  BY OrderIdle, LiveFacts
<1>2. OrderOf(q'.list, Live', log, Len(accepted'), <<>>)
  BY <1>1, OrderLess DEF More
<1>3. OrderOf(q.list, Live, log, Len(accepted), Hand)'
  BY <1>2, AnyHand
<1>. QED  BY <1>3 DEF OrderInv

LEMMA OrderInsert ==
  ASSUME Assumptions, ReceiveInv, ReceiveInv', OrderInv, call = None \/ call.qd = None,
         NEW x \in QueuedData, q'.list = Append(q.list, x), Live' = Live \cup {x}, log' = log, More,
         Follows(x, Live, log), \A k \in DOMAIN log : ~Leads(x.path, log[k].path),
         call' = None \/ call'.qd = None, Parsed'
  PROVE  OrderInv'
<1>1. /\ OrderOf(q.list, Live, log, Len(accepted), <<>>) /\ Len(accepted) \in Nat
      /\ q.list \in Seq(QueuedData) /\ Queued(q.list) \subseteq Live
  BY OrderIdle, LiveFacts
<1>2. OrderOf(q'.list, Live', log, Len(accepted), <<>>)
  BY <1>1, OrderMore
<1>3. Thinned(q'.list, q'.list) /\ Covered(Live', Live')
  BY ThinnedSame DEF Covered, Same
<1>4. OrderOf(q'.list, Live', log, Len(accepted'), <<>>)
  BY <1>1, <1>2, <1>3, OrderLess DEF More
<1>5. OrderOf(q.list, Live, log, Len(accepted), Hand)'
  BY <1>4, AnyHand
<1>6. HandFirst'
  BY DEF HandFirst
<1>. QED  BY <1>5, <1>6 DEF OrderInv

LEMMA OrderStill ==
  ASSUME OrderInv, UNCHANGED <<q, call, parse, accepted, log>>
  PROVE  OrderInv'
BY DEF OrderInv, Live, InHand, Hand, HandFirst, Parsed, Queued

(* What is new in the queue after a step: nothing, or x as the last.       *)
Fewer == Thinned(q'.list, q.list) /\ Covered(Live', Live)
Adds(x) == x \in QueuedData /\ q'.list = Append(q.list, x) /\ Live' = Live \cup {x}

(* It is the element of the packet that comes in.                          *)
OfPacket(x) ==
    \E tag \in Nat :
        /\ accepted' = Append(accepted, [el |-> x.el, timetag |-> tag])
        /\ x.timetag = TimeOf(x.el, tag) /\ x.timetag >= tag /\ x.callbacks = NotDispatched

LEMMA FewerSame ==
  ASSUME q'.list = q.list, Live' = Live PROVE Fewer
BY ThinnedSame DEF Fewer, Covered, Same

(* The calls that begin and end, with the queue as it is.                  *)
LEMMA OrderCall ==
  ASSUME Assumptions, ReceiveInv, ReceiveInv', OrderInv, UNCHANGED <<parse, log>>, q'.list = q.list, More,
         parse = None, call = None \/ call.qd = None, call' = None \/ call'.qd = None
  PROVE  OrderInv'
<1>1. Live' = Live
  BY LiveFacts, NextLive
<1>2. Thinned(q'.list, q.list) /\ Covered(Live', Live)
  BY <1>1, ThinnedSame DEF Covered, Same
<1>3. HandFirst' /\ Parsed'
  BY DEF HandFirst, Parsed
<1>. QED  BY <1>2, <1>3, OrderQuiet

(* A packet comes in, from outside or from a callback.                     *)
LEMMA OrderPacket ==
  ASSUME Assumptions, ReceiveInv, ReceiveInv', OrderInv, parse = None, UNCHANGED <<parse, log>>,
         call = None \/ call.qd = None, call' = None \/ call'.qd = None,
         NEW x, Adds(x), x.path = <<Len(accepted) + 1>>, IsMessage(x) => x.timetag = Immediately,
         Len(accepted') = Len(accepted) + 1
  PROVE  OrderInv'
<1>1. /\ Len(accepted) \in Nat /\ x \in QueuedData
      /\ \A y \in Live : y.path \in Seq(Nat) /\ y.path # <<>> /\ y.path[1] <= Len(accepted)
  BY LiveFacts DEF Adds
<1>2. /\ x.path \in Seq(Nat) /\ x.path # <<>> /\ x.path[1] = Len(accepted) + 1
      /\ Parent(x.path) = <<>> /\ Last(x.path) = Len(accepted) + 1
  BY <1>1, ParentOfPacket
<1>3. /\ OrderOf(q.list, Live, log, Len(accepted), <<>>)
      /\ Logged(log, Len(accepted))
  BY OrderIdle DEF OrderOf
<1>4. ASSUME NEW k \in DOMAIN log
      PROVE  /\ log[k].path \in Seq(Nat) /\ log[k].path # <<>> /\ log[k].path[1] <= Len(accepted)
             /\ log[k].path[1] \in Nat
  <2>1. log[k] \in Entry
    BY <1>3 DEF Logged
  <2>. QED  BY <1>3, <2>1, ParentLeads DEF Logged, Entry
<1>5. \A k \in DOMAIN log : ~Leads(x.path, log[k].path)
  <2>1. SUFFICES ASSUME NEW k \in DOMAIN log, Leads(x.path, log[k].path) PROVE FALSE
    OBVIOUS
  <2>2. x.path[1] = log[k].path[1]
    BY <1>2, <1>4, <2>1, LeadsFirst
  <2>. QED  BY <1>1, <1>2, <1>4, <2>2
<1>6. Follows(x, Live, log)
  <2>1. SUFFICES ASSUME IsMessage(x)
                 PROVE  /\ \A y \in Live : Siblings(y, x) => Last(y.path) < Last(x.path) /\ y.timetag = x.timetag
                        /\ \A k \in DOMAIN log : Parent(x.path) = Parent(log[k].path) => Last(log[k].path) <= Last(x.path)
    BY DEF Follows
  <2>2. ASSUME NEW y \in Live, Siblings(y, x)
        PROVE  Last(y.path) < Last(x.path) /\ y.timetag = x.timetag
    <3>1. IsMessage(y) /\ Parent(y.path) = <<>>
      BY <1>2, <2>2 DEF Siblings
    <3>2. Last(y.path) = y.path[1] /\ y.path[1] \in Nat
      BY <1>1, <3>1, ParentLeads
    <3>3. y.timetag = Immediately
      BY <1>3, <3>1 DEF OrderOf, Outermost
    <3>. QED  BY <1>1, <1>2, <2>1, <3>2, <3>3
  <2>3. ASSUME NEW k \in DOMAIN log, Parent(x.path) = Parent(log[k].path)
        PROVE  Last(log[k].path) <= Last(x.path)
    <3>1. Last(log[k].path) = log[k].path[1]
      BY <1>2, <1>4, <2>3, ParentLeads
    <3>. QED  BY <1>1, <1>2, <1>4, <3>1
  <2>. QED  BY <2>2, <2>3
<1>7. Parsed' /\ More
  BY DEF Parsed, More
<1>. QED  BY <1>1, <1>5, <1>6, <1>7, OrderInsert DEF Adds

(* An element that is not scheduled is none that could be, or is dropped   *)
(* for lack of memory.                                                     *)
Refused(el, enclosing, path) ==
    Admitted(el, enclosing).kind \in {"message", "bundle"} => path \in lost'

LEMMA RefusedIs ==
  ASSUME Assumptions, ReceiveInv, NEW el, NEW b, NEW enclosing, NEW path,
         ~Acceptable(el, enclosing), InsertBundleOrMessage(el, b, enclosing, path)
  PROVE  q' = q /\ Refused(el, enclosing, path)
<1>1. q' = q /\ Dropping(path, freeQDs = 0)
  BY DEF InsertBundleOrMessage
<1>2. freeQDs \in Nat
  BY DEF ReceiveInv, Types
<1>3. CASE freeQDs = 0
  BY <1>1, <1>3 DEF Dropping, Refused
<1>4. CASE freeQDs # 0
  <2>1. freeQDs > 0
    BY <1>2, <1>4
  <2>2. el.kind \notin {"message", "bundle"} \/ ~(TimeOf(el, enclosing) >= enclosing)
    BY <2>1 DEF Acceptable
  <2>. QED  BY <1>1, <2>2 DEF Refused, Admitted, NoElement
<1>. QED  BY <1>3, <1>4

LEMMA AcceptAdds ==
  ASSUME Assumptions, ReceiveInv, ReceiveInv', NEW el \in Packets, OSCAcceptPacket(el)
  PROVE  /\ call = None /\ parse = None /\ (call' = None \/ call'.qd = None) /\ UNCHANGED <<parse, log>>
         /\ Len(accepted) \in Nat /\ Len(accepted') = Len(accepted) + 1
         /\ \/ q'.list = q.list /\ Live' = Live /\ Refused(el, Immediately, <<Len(accepted) + 1>>)
            \/ \E x : /\ Adds(x) /\ x.path = <<Len(accepted) + 1>> /\ OfPacket(x)
                      /\ IsMessage(x) => x.timetag = Immediately
<1>1. /\ AtClient /\ held \in Buffers /\ UNCHANGED <<parse, log>>
      /\ accepted' = Append(accepted, [el |-> el, timetag |-> Immediately])
  BY DEF OSCAcceptPacket, ReceiveInv, Types
<1>2. /\ call = None /\ parse = None /\ Len(accepted) \in Nat /\ q \in [list : Seq(QueuedData), scanIndex : Nat]
      /\ accepted \in Seq([el : Elements, timetag : Nat]) /\ Live = Queued(q.list)
      /\ Distinct(q.list) /\ \A y \in Live : y.path \in Seq(Nat) /\ y.path[1] <= Len(accepted)
  BY <1>1, LiveFacts DEF AtClient, ReceiveInv, Types, Loose
<1>3. Len(accepted') = Len(accepted) + 1
  BY <1>1, <1>2
<1>4. call' = None \/ call'.qd = None
  BY <1>2 DEF OSCAcceptPacket, Invoke
<1>5. Live' = Queued(q'.list)
  BY <1>1, <1>2, <1>4, NextLive DEF Loose
<1>6. CASE Acceptable(el, Immediately) /\ InsertBundleOrMessage(el, held, Immediately, <<Len(accepted) + 1>>)
  <2>. DEFINE x == NewQD(el, held, Immediately, <<Len(accepted) + 1>>)
  <2>1. el \in Elements /\ Immediately \in Nat /\ PacketsWellFormed
    BY ElementsAre DEF Assumptions, ReceiveAssumption
  <2>2. el.kind \in {"message", "bundle"} /\ ~OSCQueueFull(q) /\ TimeOf(el, Immediately) >= Immediately
    BY <1>6, NotFull DEF Acceptable
  <2>3. q'.list = Append(q.list, x)
    BY <1>2, <1>6, <2>2 DEF InsertBundleOrMessage, OSCQueueInsert
  <2>4. /\ x.el = el /\ x.timetag = TimeOf(el, Immediately) /\ x.path = <<Len(accepted) + 1>>
        /\ x.callbacks = NotDispatched
    BY DEF NewQD
  <2>5. x \in QueuedData
    <3>1. <<Len(accepted) + 1>> \in Seq(Nat)
      BY <1>2
    <3>. QED  BY <1>1, <2>1, <2>2, <3>1, NewQDIs
  <2>6. IsMessage(x) => x.timetag = Immediately
    BY <2>4 DEF IsMessage, TimeOf
  <2>7. x.path[1] = Len(accepted) + 1
    BY <2>4
  <2>. HIDE DEF x
  <2>8. Live' = Live \cup {x}
    BY <1>2, <1>5, <2>3, <2>5, <2>7, QueuedAppend
  <2>9. OfPacket(x)
    BY <1>1, <2>1, <2>2, <2>4 DEF OfPacket
  <2>. QED  BY <1>1, <1>2, <1>3, <1>4, <2>3, <2>4, <2>5, <2>6, <2>8, <2>9 DEF Adds
<1>7. CASE ~Acceptable(el, Immediately) /\ InsertBundleOrMessage(el, held, Immediately, <<Len(accepted) + 1>>)
  <2>1. q' = q /\ Refused(el, Immediately, <<Len(accepted) + 1>>)
    BY <1>7, RefusedIs
  <2>. QED  BY <1>1, <1>2, <1>3, <1>4, <1>5, <2>1
<1>8. CASE el.kind = "odd" /\ q' = q
  <2>1. Refused(el, Immediately, <<Len(accepted) + 1>>)
    BY <1>8 DEF Refused, Admitted, NoElement
  <2>. QED  BY <1>1, <1>2, <1>3, <1>4, <1>5, <1>8, <2>1
<1>. QED  BY <1>6, <1>7, <1>8 DEF OSCAcceptPacket

LEMMA OrderAccept ==
  ASSUME Assumptions, ReceiveInv, ReceiveInv', OrderInv, NEW el \in Packets, OSCAcceptPacket(el)
  PROVE  OrderInv'
<1>1. /\ call = None /\ parse = None /\ (call' = None \/ call'.qd = None) /\ UNCHANGED <<parse, log>>
      /\ Len(accepted) \in Nat /\ Len(accepted') = Len(accepted) + 1
      /\ \/ q'.list = q.list /\ Live' = Live
         \/ \E x : /\ Adds(x) /\ x.path = <<Len(accepted) + 1>>
                   /\ IsMessage(x) => x.timetag = Immediately
  BY AcceptAdds
<1>2. CASE q'.list = q.list
  BY <1>1, <1>2, OrderCall DEF More
<1>3. ASSUME NEW x, Adds(x), x.path = <<Len(accepted) + 1>>, IsMessage(x) => x.timetag = Immediately
      PROVE  OrderInv'
  BY <1>1, <1>3, OrderPacket
<1>. QED  BY <1>1, <1>2, <1>3

(* The element x of a bundle t, the k-th, is for its time or later.        *)
ElementOf(x, t, k) ==
    /\ x.path = Append(t.path, k) /\ x.timetag >= t.timetag
    /\ IsMessage(x) => x.timetag = t.timetag
    /\ x.el = t.el.elems[k] /\ x.timetag = TimeOf(x.el, t.timetag) /\ x.callbacks = NotDispatched

LEMMA ParseElementAdds ==
  ASSUME Assumptions, ReceiveInv, ReceiveInv', ParseElement
  PROVE  /\ parse' # None /\ parse'.qd = parse.qd /\ parse'.next = parse.next + 1 /\ parse # None
         /\ call = None \/ call.qd = None
         /\ UNCHANGED <<call, accepted, log, times>>
         /\ \/ /\ q'.list = q.list /\ Live' = Live
               /\ Refused(parse.qd.el.elems[parse.next], parse.qd.timetag, Append(parse.qd.path, parse.next))
            \/ \E x : Adds(x) /\ ElementOf(x, parse.qd, parse.next)
         /\ parse.next <= Len(parse.qd.el.elems) /\ parse.qd.el.elems[parse.next].kind # "bad"
<1>. DEFINE t == parse.qd
            k == parse.next
            el == parse.qd.el.elems[parse.next]
            path == Append(t.path, k)
<1>1. /\ parse # None /\ k <= Len(t.el.elems) /\ el.kind # "bad"
      /\ InsertBundleOrMessage(el, t.buf, t.timetag, path)
      /\ parse' = [parse EXCEPT !.next = @ + 1]
      /\ UNCHANGED <<call, accepted, log, times>>
  BY DEF ParseElement
<1>2. /\ parse \in ParseTypes /\ t \in Live /\ t.el.elems \in Seq(Elements)
      /\ k \in Nat \ {0} /\ t.timetag \in Nat /\ t.path \in Seq(Nat) /\ t.buf \in Buffers
      /\ call = None \/ call.qd = None
  BY <1>1, ParseFacts
<1>3. el \in Elements /\ path \in Seq(Nat)
  BY <1>1, <1>2
<1>4. parse'.qd = t /\ parse'.next = k + 1 /\ parse'.idle = parse.idle /\ parse' # None
  BY <1>1, <1>2, NoneIsNone DEF ParseTypes, Assumptions
<1>5. /\ q \in [list : Seq(QueuedData), scanIndex : Nat] /\ Live = Loose(parse) \cup Queued(q.list)
      /\ Distinct(q.list) /\ Live \in SUBSET QueuedData
  BY <1>2, LiveFacts DEF ReceiveInv, Types
<1>6. Live' = Loose(parse) \cup Queued(q'.list)
  BY <1>1, <1>2, <1>4, NextLive DEF Loose
<1>7. CASE ~Acceptable(el, t.timetag)
  <2>1. q' = q /\ Refused(el, t.timetag, path)
    <3>. HIDE DEF t, el, path
    <3>. QED  BY <1>1, <1>7, RefusedIs
  <2>. QED  BY <1>1, <1>2, <1>4, <1>5, <1>6, <2>1
<1>8. CASE Acceptable(el, t.timetag)
  <2>. DEFINE x == NewQD(el, t.buf, t.timetag, path)
  <2>1. el.kind \in {"message", "bundle"} /\ ~OSCQueueFull(q) /\ TimeOf(el, t.timetag) >= t.timetag
    BY <1>8, NotFull DEF Acceptable
  <2>2. q'.list = Append(q.list, x)
    BY <1>1, <1>5, <1>8, <2>1 DEF InsertBundleOrMessage, OSCQueueInsert
  <2>3. x.el = el /\ x.timetag = TimeOf(el, t.timetag) /\ x.path = path /\ x.callbacks = NotDispatched
    BY DEF NewQD
  <2>. HIDE DEF t, k, el, path
  <2>4. x \in QueuedData
    BY <1>2, <1>3, <2>1, NewQDIs DEF Assumptions
  <2>. HIDE DEF x
  <2>5. ElementOf(x, t, k)
    <3>1. x.el = t.el.elems[k]
      BY <2>3 DEF el, t, k
    <3>. QED  BY <2>1, <2>3, <3>1 DEF ElementOf, IsMessage, TimeOf, path
  <2>6. x \notin Queued(q.list)
    <3>1. Apart(Live, t.path, k)
      BY <1>1, ParseFacts DEF t, k
    <3>2. \A y \in Live : y.path # x.path
      BY <1>2, <1>5, <2>3, <2>4, <3>1, ApartElement DEF path
    <3>. QED  BY <1>5, <3>2
  <2>7. Live' = Live \cup {x}
    BY <1>5, <1>6, <2>2, <2>4, <2>6, QueuedAppend
  <2>8. Adds(x) /\ ElementOf(x, parse.qd, parse.next)
    BY <2>2, <2>4, <2>5, <2>7 DEF Adds, t, k
  <2>. QED  BY <1>1, <1>2, <1>4, <2>8 DEF t, k, el
<1>. QED  BY <1>7, <1>8

LEMMA OrderParseElement ==
  ASSUME Assumptions, ReceiveInv, ReceiveInv', OrderInv, ParseElement
  PROVE  OrderInv'
<1>. DEFINE t == parse.qd
            k == parse.next
<1>1. /\ parse' # None /\ parse'.qd = t /\ parse'.next = k + 1 /\ parse # None
      /\ call = None \/ call.qd = None
      /\ UNCHANGED <<call, accepted, log>>
      /\ (q'.list = q.list /\ Live' = Live) \/ \E x : Adds(x) /\ ElementOf(x, t, k)
  BY ParseElementAdds
<1>2. /\ t \in Live /\ k \in Nat \ {0} /\ t.path \in Seq(Nat) /\ t.path # <<>>
      /\ \A y \in Live : y.path \in Seq(Nat) /\ y.path # <<>> /\ Last(y.path) \in Nat
  BY <1>1, ParseFacts, LiveFacts, ParentLeads
<1>3. /\ OrderOf(q.list, Live, log, Len(accepted), <<>>) /\ Logged(log, Len(accepted))
      /\ \A j \in DOMAIN log : \A x \in Live : ~Leads(x.path, log[j].path)
  BY <1>1, OrderIdle DEF OrderOf
<1>4. \A x \in Live : IsMessage(x) /\ Parent(x.path) = t.path => Last(x.path) < k /\ x.timetag = t.timetag
  BY <1>1 DEF OrderInv, Parsed
<1>5. HandFirst' /\ More
  BY <1>1 DEF HandFirst, More
<1>. HIDE DEF t, k
<1>6. CASE q'.list = q.list /\ Live' = Live
  <2>1. \A x \in Live' : IsMessage(x) /\ Parent(x.path) = t.path => Last(x.path) < k + 1 /\ x.timetag = t.timetag
    BY <1>2, <1>4, <1>6
  <2>2. Parsed'
    BY <1>1, <2>1 DEF Parsed
  <2>. QED  BY <1>1, <1>5, <1>6, <2>2, FewerSame, OrderQuiet DEF Fewer
<1>7. ASSUME NEW x, Adds(x), ElementOf(x, t, k)
      PROVE  OrderInv'
  <2>1. /\ x \in QueuedData /\ x.path = Append(t.path, k) /\ x.path \in Seq(Nat) /\ x.path # <<>>
        /\ IsMessage(x) => x.timetag = t.timetag
        /\ Live' = Live \cup {x}
    <3>1. /\ x \in QueuedData /\ x.path = Append(t.path, k)
          /\ IsMessage(x) => x.timetag = t.timetag
          /\ Live' = Live \cup {x}
      BY <1>7 DEF Adds, ElementOf
    <3>2. ASSUME NEW p \in Seq(Nat), NEW n \in Nat
          PROVE  Append(p, n) \in Seq(Nat) /\ Append(p, n) # <<>>
      <4>1. Append(p, n) \in Seq(Nat) /\ Len(Append(p, n)) = Len(p) + 1 /\ Len(p) \in Nat
        OBVIOUS
      <4>. QED  BY <4>1
    <3>. QED  BY <1>2, <3>1, <3>2
  <2>2. Parent(x.path) = t.path /\ Last(x.path) = k /\ Leads(t.path, x.path)
    BY <1>2, <2>1, ParentOfElement, ParentLeads, ZenonT(40)
  <2>3. ASSUME NEW j \in DOMAIN log
        PROVE  log[j].path \in Seq(Nat) /\ log[j].path # <<>> /\ ~Leads(t.path, log[j].path)
    <3>1. log[j] \in Entry
      BY <1>3 DEF Logged
    <3>. QED  BY <1>2, <1>3, <3>1 DEF Logged, Entry
  <2>4. \A j \in DOMAIN log : ~Leads(x.path, log[j].path)
    BY <1>2, <2>1, <2>2, <2>3, LeadsTransitive
  <2>5. Follows(x, Live, log)
    <3>1. \A j \in DOMAIN log : Parent(x.path) # Parent(log[j].path)
      BY <2>2, <2>3, ParentLeads
    <3>. QED  BY <1>2, <1>4, <2>1, <2>2, <3>1 DEF Follows, Siblings
  <2>6. \A y \in Live' : IsMessage(y) /\ Parent(y.path) = t.path => Last(y.path) < k + 1 /\ y.timetag = t.timetag
    <3>1. IsMessage(x) => Last(x.path) < k + 1 /\ x.timetag = t.timetag
      BY <1>2, <2>1, <2>2
    <3>2. \A y \in Live : IsMessage(y) /\ Parent(y.path) = t.path => Last(y.path) < k + 1 /\ y.timetag = t.timetag
      BY <1>2, <1>4
    <3>. QED  BY <2>1, <3>1, <3>2
  <2>7. Parsed'
    BY <1>1, <2>6 DEF Parsed
  <2>. QED  BY <1>1, <1>5, <1>7, <2>4, <2>5, <2>7, OrderInsert DEF Adds
<1>. QED  BY <1>1, <1>6, <1>7 DEF t, k

LEMMA ParseDoneFewer ==
  ASSUME Assumptions, ReceiveInv, ReceiveInv', ParseDone
  PROVE  /\ Fewer /\ parse' = None /\ (call = None \/ call.qd = None)
         /\ UNCHANGED <<call, accepted, log, times>>
<1>1. /\ parse # None /\ parse' = None /\ UNCHANGED <<call, accepted, log, times>>
      /\ q' = (IF parse.idle THEN OSCQueueRemoveCurrentScanItem(q) ELSE q)
  BY DEF ParseDone
<1>2. /\ call = None \/ call.qd = None
      /\ parse.idle => q.scanIndex \in DOMAIN q.list
  BY <1>1, ParseFacts
<1>3. q.list \in Seq(QueuedData) /\ Queued(q.list) \subseteq Live /\ Live' = Queued(q'.list)
  BY <1>1, <1>2, LiveFacts, NextLive DEF Loose
<1>4. Thinned(q'.list, q.list)
  BY <1>1, <1>2, <1>3, ThinnedSame, ThinnedRemove DEF OSCQueueRemoveCurrentScanItem
<1>5. Covered(Live', Live)
  BY <1>3, <1>4, ThinnedCovered DEF Covered
<1>. QED  BY <1>1, <1>2, <1>4, <1>5 DEF Fewer

(* A message is dispatched, to no more methods than it has.                *)
LEMMA DispatchedSame ==
  ASSUME Assumptions, ReceiveInv, NEW x \in QueuedData, IsMessage(x), x.callbacks = NotDispatched
  PROVE  Same(x, [x EXCEPT !.callbacks = OSCDispatchMessage(x.el)])
<1>. DEFINE n == OSCDispatchMessage(x.el)
            y == [x EXCEPT !.callbacks = n]
<1>1. y.path = x.path /\ y.el = x.el /\ y.timetag = x.timetag /\ y.callbacks = n
  BY DEF QueuedData
<1>2. x.el.methods \in Nat /\ freeNodes \in Nat
  <2>1. x.el \in Elements
    BY DEF QueuedData
  <2>. QED  BY <2>1, ElementsAre DEF WellFormed, Assumptions, IsMessage, ReceiveInv, Types
<1>3. n \in Nat /\ n <= x.el.methods
  BY <1>2 DEF OSCDispatchMessage, Min2
<1>. HIDE DEF n, y
<1>4. Owed(y) = n /\ Owed(x) = x.el.methods
  BY <1>1, <1>3 DEF Owed, NotDispatched
<1>5. Owed(y) = Owed(x) \/ Owed(y) < Owed(x)
  BY <1>2, <1>3, <1>4
<1>. QED  BY <1>1, <1>5 DEF Same, y, n

LEMMA IdleFewer ==
  ASSUME Assumptions, ReceiveInv, ReceiveInv', OSCBeProductiveWhileWaiting
  PROVE  /\ Fewer /\ call = None /\ parse = None
         /\ UNCHANGED <<call, accepted, log, times>>
         /\ parse' = None \/ (parse'.qd \in Live /\ parse'.qd.el.kind = "bundle" /\ parse'.next = 1)
<1>1. AtClient /\ UNCHANGED <<call, accepted, log, times>>
  BY DEF OSCBeProductiveWhileWaiting
<1>2. /\ call = None /\ parse = None /\ Live = Queued(q.list) /\ q.list \in Seq(QueuedData)
      /\ q \in [list : Seq(QueuedData), scanIndex : Nat]
  BY <1>1, IdleFacts
<1>3. CASE q'.list = q.list /\ parse' = None
  <2>1. Live' = Live
    BY <1>1, <1>2, <1>3, NextLive DEF Loose
  <2>. QED  BY <1>1, <1>2, <1>3, <2>1, FewerSame
<1>4. ASSUME NEW i \in DOMAIN q.list, BeginIdleParse(i) \/ (HasWork(q.list[i]) /\ DispatchEarly(i))
      PROVE  /\ Thinned(q'.list, q.list) /\ (parse' = None \/ parse'.idle)
             /\ parse' = None \/ (parse'.qd \in Live /\ parse'.qd.el.kind = "bundle" /\ parse'.next = 1)
  <2>1. CASE BeginIdleParse(i)
    <3>1. q'.list = q.list /\ parse' = [qd |-> q.list[i], next |-> 1, idle |-> TRUE] /\ q.list[i].el.kind = "bundle"
      BY <1>2, <2>1 DEF BeginIdleParse
    <3>. QED  BY <1>2, <3>1, ThinnedSame DEF Queued
  <2>2. CASE DispatchEarly(i)
    <3>. DEFINE n == OSCDispatchMessage(q.list[i].el)
    <3>1. /\ parse' = parse
          /\ \/ q' = [list |-> [q.list EXCEPT ![i].callbacks = n], scanIndex |-> i]
             \/ q' = OSCQueueRemoveCurrentScanItem([q EXCEPT !.scanIndex = i])
      BY <2>2 DEF DispatchEarly
    <3>2. q.list[i] \in QueuedData /\ q.list[i].callbacks = NotDispatched /\ IsMessage(q.list[i])
      BY <1>2, <1>4, <2>2 DEF DispatchEarly, HasWork, IsMessage, BeginIdleParse
    <3>3. Same(q.list[i], [q.list[i] EXCEPT !.callbacks = n])
      BY <3>2, DispatchedSame
    <3>. HIDE DEF n
    <3>4. CASE q' = [list |-> [q.list EXCEPT ![i].callbacks = n], scanIndex |-> i]
      <4>1. q'.list = [q.list EXCEPT ![i] = [q.list[i] EXCEPT !.callbacks = n]]
        BY <3>4
      <4>. QED  BY <1>2, <3>1, <3>3, <4>1, ThinnedChange
    <3>5. CASE q' = OSCQueueRemoveCurrentScanItem([q EXCEPT !.scanIndex = i])
      <4>1. q'.list = RemoveElement(i, q.list)
        BY <1>2, <3>5 DEF OSCQueueRemoveCurrentScanItem
      <4>. QED  BY <1>2, <3>1, <4>1, ThinnedRemove
    <3>. QED  BY <3>1, <3>4, <3>5
  <2>. QED  BY <1>4, <2>1, <2>2
<1>5. ASSUME NEW i \in DOMAIN q.list, BeginIdleParse(i) \/ (HasWork(q.list[i]) /\ DispatchEarly(i))
      PROVE  Fewer
  <2>1. Thinned(q'.list, q.list) /\ (parse' = None \/ parse'.idle)
    BY <1>4, <1>5
  <2>2. Live' = Queued(q'.list)
    BY <1>1, <1>2, <2>1, NextLive DEF Loose
  <2>3. Covered(Live', Live)
    BY <1>2, <2>1, <2>2, ThinnedCovered
  <2>. QED  BY <2>1, <2>3 DEF Fewer
<1>6. \/ q'.list = q.list /\ parse' = None
      \/ \E i \in DOMAIN q.list : BeginIdleParse(i) \/ (HasWork(q.list[i]) /\ DispatchEarly(i))
  BY <1>2 DEF OSCBeProductiveWhileWaiting, WorkAt
<1>. QED  BY <1>1, <1>2, <1>3, <1>4, <1>5, <1>6

LEMMA TakeBundleFewer ==
  ASSUME Assumptions, ReceiveInv, ReceiveInv', TakeBundle
  PROVE  /\ Fewer /\ parse = None /\ call # None /\ call.qd = None
         /\ UNCHANGED <<call, accepted, log, times>>
         /\ parse'.qd \in Live /\ parse'.qd.el.kind = "bundle" /\ parse'.next = 1
         /\ parse'.qd = Earliest(q)
<1>. DEFINE g == SmallestIndex(q.list)
<1>1. /\ call # None /\ parse = None /\ call.qd = None /\ q.list # <<>>
      /\ Earliest(q).el.kind = "bundle"
      /\ parse' = [qd |-> Earliest(q), next |-> 1, idle |-> FALSE]
      /\ q' = OSCQueueRemoveEarliest(q)
      /\ UNCHANGED <<call, accepted, log, times>>
  BY DEF TakeBundle, InLoop
<1>2. /\ Live = Queued(q.list) /\ q.list \in Seq(QueuedData)
      /\ q \in [list : Seq(QueuedData), scanIndex : Nat]
  BY <1>1, LiveFacts DEF Loose, ReceiveInv, Types
<1>3. g \in DOMAIN q.list /\ Earliest(q) = q.list[g]
  BY <1>1, <1>2, SmallestIndexInDomain DEF Earliest
<1>4. q'.list = RemoveElement(g, q.list)
  BY <1>1, <1>2 DEF OSCQueueRemoveEarliest
<1>. HIDE DEF g
<1>5. Thinned(q'.list, q.list) /\ Earliest(q) \in Live
  BY <1>2, <1>3, <1>4, ThinnedRemove DEF Queued
<1>6. Live' \subseteq {Earliest(q)} \cup Queued(q'.list)
  BY <1>1, NextLive DEF Loose
<1>7. Covered(Queued(q'.list), Live)
  BY <1>2, <1>5, ThinnedCovered
<1>8. Covered(Live', Live)
  BY <1>5, <1>6, <1>7 DEF Covered, Same
<1>. QED  BY <1>1, <1>5, <1>8 DEF Fewer

LEMMA TakeMessageFewer ==
  ASSUME Assumptions, ReceiveInv, ReceiveInv', TakeMessage
  PROVE  /\ Fewer /\ parse = None /\ call # None /\ call.qd = None
         /\ UNCHANGED <<parse, accepted, log, times>>
         /\ q.list # <<>> /\ IsMessage(Earliest(q)) /\ q'.list = RemoveElement(SmallestIndex(q.list), q.list)
         /\ call' # None /\ call'.tag = call.tag /\ call'.now = call.now
         /\ call'.qd = None \/ Same(Earliest(q), call'.qd)
<1>. DEFINE g == SmallestIndex(q.list)
            x == Earliest(q)
            n == IF x.callbacks = NotDispatched THEN OSCDispatchMessage(x.el) ELSE x.callbacks
<1>1. /\ call # None /\ parse = None /\ call.qd = None /\ q.list # <<>>
      /\ IsMessage(x) /\ q' = OSCQueueRemoveEarliest(q)
      /\ call' = call \/ call' = [call EXCEPT !.qd = [x EXCEPT !.callbacks = n]]
      /\ UNCHANGED <<parse, accepted, log, times>>
  BY DEF TakeMessage, InLoop, IsMessage
<1>2. /\ Live = Queued(q.list) /\ q.list \in Seq(QueuedData)
      /\ q \in [list : Seq(QueuedData), scanIndex : Nat] /\ call \in CallTypes
  BY <1>1, LiveFacts DEF Loose, ReceiveInv, Types
<1>3. g \in DOMAIN q.list /\ x = q.list[g]
  BY <1>1, <1>2, SmallestIndexInDomain DEF Earliest
<1>4. q'.list = RemoveElement(g, q.list) /\ x \in QueuedData
  BY <1>1, <1>2, <1>3 DEF OSCQueueRemoveEarliest
<1>. HIDE DEF g, x, n
<1>5. Thinned(q'.list, q.list) /\ x \in Live
  BY <1>2, <1>3, <1>4, ThinnedRemove DEF Queued
<1>6. /\ call' # None /\ call'.tag = call.tag /\ call'.now = call.now
      /\ call'.qd = None \/ Same(x, call'.qd)
  <2>1. Same(x, [x EXCEPT !.callbacks = n]) /\ [x EXCEPT !.callbacks = n] \in [timetag : Nat, buf : Buffers, path : Seq(Nat), el : Elements, callbacks : {n}]
    <3>1. CASE x.callbacks = NotDispatched
      BY <1>1, <1>4, <3>1, DispatchedSame DEF n, QueuedData
    <3>2. CASE x.callbacks # NotDispatched
      <4>1. [x EXCEPT !.callbacks = n] = x /\ n = x.callbacks
        BY <1>4, <3>2 DEF n, QueuedData
      <4>. QED  BY <1>4, <4>1 DEF Same, QueuedData
    <3>. QED  BY <3>1, <3>2
  <2>2. CASE call' = call
    BY <1>1, <2>2
  <2>3. CASE call' = [call EXCEPT !.qd = [x EXCEPT !.callbacks = n]]
    <3>1. call'.qd = [x EXCEPT !.callbacks = n] /\ call'.tag = call.tag /\ call'.now = call.now
      BY <1>2, <2>3 DEF CallTypes
    <3>2. call' # None
      <4>1. call' = [now |-> call'.now, tag |-> call'.tag, all |-> call'.all, qd |-> call'.qd]
        BY <1>2, <2>3 DEF CallTypes
      <4>. QED  BY <4>1 DEF Assumptions, NoneIsNoRecord
    <3>. QED  BY <2>1, <3>1, <3>2
  <2>. QED  BY <1>1, <2>2, <2>3
<1>7. Covered(Queued(q'.list), Live)
  BY <1>2, <1>5, ThinnedCovered
<1>8. Covered(Live', Live)
  <2>1. CASE call'.qd = None
    <3>1. Live' = Queued(q'.list)
      BY <1>1, <2>1, NextLive DEF Loose
    <3>. QED  BY <1>7, <3>1
  <2>2. CASE call'.qd # None
    <3>1. Live' = {call'.qd} \cup Queued(q'.list)
      BY <1>6, <2>2, NextLive
    <3>. QED  BY <1>5, <1>6, <1>7, <2>2, <3>1 DEF Covered
  <2>. QED  BY <2>1, <2>2
<1>. QED  BY <1>1, <1>4, <1>5, <1>6, <1>8 DEF Fewer, g, x


LEMMA ParsedBegins ==
  ASSUME Assumptions, ReceiveInv, parse = None, Covered(Live', Live),
         parse' = None \/ (parse'.qd \in Live /\ parse'.qd.el.kind = "bundle")
  PROVE  Parsed'
<1>. SUFFICES ASSUME parse' # None, NEW x \in Live', IsMessage(x), Parent(x.path) = parse'.qd.path
              PROVE  FALSE
  BY DEF Parsed
<1>1. PICK y \in Live : Same(y, x)
  BY DEF Covered
<1>2. IsMessage(y) /\ Parent(y.path) = parse'.qd.path
  BY <1>1 DEF Same, IsMessage
<1>. QED  BY <1>2, NothingInside

LEMMA OrderParseDone ==
  ASSUME Assumptions, ReceiveInv, ReceiveInv', OrderInv, ParseDone
  PROVE  OrderInv'
<1>1. /\ Fewer /\ parse' = None /\ (call = None \/ call.qd = None)
      /\ UNCHANGED <<call, accepted, log>>
  BY ParseDoneFewer
<1>2. HandFirst' /\ Parsed' /\ More
  BY <1>1 DEF HandFirst, Parsed, More
<1>. QED  BY <1>1, <1>2, OrderQuiet DEF Fewer

LEMMA OrderIdleStep ==
  ASSUME Assumptions, ReceiveInv, ReceiveInv', OrderInv, OSCBeProductiveWhileWaiting
  PROVE  OrderInv'
<1>1. /\ Fewer /\ call = None /\ parse = None
      /\ UNCHANGED <<call, accepted, log>>
      /\ parse' = None \/ (parse'.qd \in Live /\ parse'.qd.el.kind = "bundle")
  BY IdleFewer
<1>2. Parsed'
  BY <1>1, ParsedBegins DEF Fewer
<1>3. HandFirst' /\ More
  BY <1>1 DEF HandFirst, More
<1>. QED  BY <1>1, <1>2, <1>3, OrderQuiet DEF Fewer

LEMMA OrderTakeBundle ==
  ASSUME Assumptions, ReceiveInv, ReceiveInv', OrderInv, TakeBundle
  PROVE  OrderInv'
<1>1. /\ Fewer /\ parse = None /\ call.qd = None
      /\ UNCHANGED <<call, accepted, log>>
      /\ parse'.qd \in Live /\ parse'.qd.el.kind = "bundle"
  BY TakeBundleFewer
<1>2. Parsed'
  BY <1>1, ParsedBegins DEF Fewer
<1>3. HandFirst' /\ More
  BY <1>1 DEF HandFirst, More
<1>. QED  BY <1>1, <1>2, <1>3, OrderQuiet DEF Fewer

(* The earliest message is the first of its siblings.                      *)
LEMMA EarliestIsFirst ==
  ASSUME NEW list \in Seq(QueuedData), list # <<>>, Ordered(list),
         NEW y \in Queued(RemoveElement(SmallestIndex(list), list)), Siblings(list[SmallestIndex(list)], y)
  PROVE  Last(list[SmallestIndex(list)].path) < Last(y.path)
<1>. DEFINE g == SmallestIndex(list)
            less == RemoveElement(g, list)
<1>1. /\ g \in DOMAIN list
      /\ \A j \in DOMAIN list : j < g => list[g].timetag < list[j].timetag
  BY SmallestIndexInDomain
<1>. HIDE DEF g
<1>2. /\ Len(list) \in Nat /\ g \in 1 .. Len(list) /\ DOMAIN list = 1 .. Len(list)
      /\ DOMAIN less = 1 .. Len(list) - 1
      /\ \A i \in 1 .. Len(list) - 1 : less[i] = IF i < g THEN list[i] ELSE list[i + 1]
  BY <1>1 DEF RemoveElement
<1>3. PICK i \in 1 .. Len(list) - 1 : y = less[i]
  BY <1>2 DEF Queued, g
<1>. DEFINE j == IF i < g THEN i ELSE i + 1
<1>4. j \in DOMAIN list /\ y = list[j] /\ j # g /\ j \in Nat /\ g \in Nat
  BY <1>2, <1>3
<1>. HIDE DEF j, less
<1>5. Siblings(list[g], list[j]) /\ Siblings(list[j], list[g])
  BY <1>4 DEF g, Siblings
<1>6. CASE j < g
  <2>1. list[j].timetag = list[g].timetag /\ list[g].timetag < list[j].timetag
    BY <1>1, <1>4, <1>5, <1>6 DEF Ordered
  <2>2. list[g] \in QueuedData
    BY <1>1
  <2>3. list[g].timetag \in Nat
    BY <2>2 DEF QueuedData
  <2>. QED  BY <2>1, <2>3
<1>7. CASE g < j
  BY <1>1, <1>4, <1>5, <1>7 DEF Ordered, g
<1>. QED  BY <1>4, <1>6, <1>7

LEMMA OrderTakeMessage ==
  ASSUME Assumptions, ReceiveInv, ReceiveInv', OrderInv, TakeMessage
  PROVE  OrderInv'
<1>1. /\ Fewer /\ parse = None /\ call.qd = None
      /\ UNCHANGED <<parse, accepted, log>>
      /\ q.list # <<>> /\ q'.list = RemoveElement(SmallestIndex(q.list), q.list)
      /\ call' # None
      /\ call'.qd = None \/ Same(Earliest(q), call'.qd)
  BY TakeMessageFewer
<1>2. q.list \in Seq(QueuedData) /\ Ordered(q.list)
  BY LiveFacts DEF OrderInv, OrderOf
<1>3. HandFirst'
  <2>1. SUFFICES ASSUME call'.qd # None, NEW y \in Queued(q'.list), Siblings(call'.qd, y)
                 PROVE  Last(call'.qd.path) < Last(y.path)
    BY DEF HandFirst
  <2>2. Same(q.list[SmallestIndex(q.list)], call'.qd)
    BY <1>1, <2>1 DEF Earliest
  <2>3. Siblings(q.list[SmallestIndex(q.list)], y)
    BY <2>1, <2>2 DEF Same, Siblings, IsMessage
  <2>4. Last(q.list[SmallestIndex(q.list)].path) < Last(y.path)
    BY <1>1, <1>2, <2>1, <2>3, EarliestIsFirst
  <2>. QED  BY <2>2, <2>4 DEF Same
<1>4. Parsed' /\ More
  BY <1>1 DEF Parsed, More
<1>. QED  BY <1>1, <1>3, <1>4, OrderQuiet DEF Fewer

(* The message in hand.                                                    *)
LEMMA InHandFacts ==
  ASSUME Assumptions, ReceiveInv, call # None, call.qd # None
  PROVE  /\ parse = None /\ call \in CallTypes /\ IsMessage(call.qd) /\ call.qd \in Live
         /\ call.qd \in QueuedData /\ Live = {call.qd} \cup Queued(q.list)
         /\ call.qd \notin Queued(q.list) /\ Hand = call.qd.path /\ UniquePaths(Live)
<1>1. /\ InHand = {call.qd} /\ call.qd \in Live /\ call \in CallTypes /\ UniquePaths(Live)
      /\ Live = InHand \cup Queued(q.list) /\ Live \in SUBSET QueuedData
  BY InvFacts
<1>. QED  BY <1>1 DEF ReceiveInv, Places, IsMessage, Hand

LEMMA OrderMessageDone ==
  ASSUME Assumptions, ReceiveInv, ReceiveInv', OrderInv, MessageDone
  PROVE  OrderInv'
<1>1. /\ call # None /\ call.qd # None /\ call' = [call EXCEPT !.qd = None]
      /\ UNCHANGED <<q, parse, accepted, log>>
  BY DEF MessageDone
<1>2. /\ parse = None /\ call \in CallTypes /\ call.qd \in Live
      /\ Live = {call.qd} \cup Queued(q.list)
      /\ call.qd \notin Queued(q.list) /\ Hand = call.qd.path /\ UniquePaths(Live)
  BY <1>1, InHandFacts
<1>3. call'.qd = None
  BY <1>1, <1>2 DEF CallTypes
<1>4. Live' = Queued(q.list)
  BY <1>1, <1>2, <1>3, NextLive DEF Loose
<1>5. Thinned(q.list, q.list) /\ Covered(Live', Live)
  BY <1>2, <1>4, ThinnedSame DEF Covered, Same
<1>6. OrderOf(q.list, Live, log, Len(accepted), call.qd.path) /\ Len(accepted) \in Nat
  BY <1>2, LiveFacts DEF OrderInv
<1>7. OrderOf(q.list, Live', log, Len(accepted), call.qd.path)
  BY <1>5, <1>6, OrderLess
<1>8. Behind(log, Live', <<>>)
  <2>1. SUFFICES ASSUME NEW k \in DOMAIN log, NEW x \in Queued(q.list), Leads(x.path, log[k].path)
                 PROVE  FALSE
    BY <1>4 DEF Behind
  <2>2. x.path = call.qd.path
    BY <1>4, <1>7, <2>1 DEF OrderOf, Behind
  <2>. QED  BY <1>2, <2>2 DEF UniquePaths
<1>9. OrderOf(q'.list, Live', log', Len(accepted'), <<>>)
  BY <1>1, <1>7, <1>8 DEF OrderOf
<1>10. OrderOf(q.list, Live, log, Len(accepted), Hand)'
  BY <1>9, AnyHand
<1>11. HandFirst' /\ Parsed'
  BY <1>1, <1>2, <1>3 DEF HandFirst, Parsed
<1>. QED  BY <1>10, <1>11 DEF OrderInv

LEMMA OrderInvoke ==
  ASSUME Assumptions, ReceiveInv, ReceiveInv', OrderInv, NEW all \in BOOLEAN, OSCInvokeMessagesThatAreReady(all)
  PROVE  OrderInv'
<1>1. /\ call = None /\ parse = None /\ UNCHANGED <<q, parse, log, accepted>>
      /\ call' = Invoke(q, clock + Lookahead, all)
  BY DEF OSCInvokeMessagesThatAreReady, AtClient
<1>2. call' = None \/ call'.qd = None
  BY <1>1 DEF Invoke
<1>. QED  BY <1>1, <1>2, OrderCall DEF More

LEMMA OrderLoopDone ==
  ASSUME Assumptions, ReceiveInv, ReceiveInv', OrderInv, LoopDone
  PROVE  OrderInv'
<1>1. /\ call.qd = None /\ parse = None /\ UNCHANGED <<q, parse, log, accepted>>
      /\ call' = IF call.all THEN Invoke(q, call.now, TRUE) ELSE None
  BY DEF LoopDone, InLoop
<1>2. call' = None \/ call'.qd = None
  BY <1>1 DEF Invoke
<1>. QED  BY <1>1, <1>2, OrderCall DEF More

(* What a call of OSCScheduleInternalMessages adds: a bundle of a packet   *)
(* of its own.                                                             *)
LEMMA ScheduleAdds ==
  ASSUME Assumptions, ReceiveInv, NEW when \in Nat, NEW msgs, InternalBundle(when, msgs) \in Elements,
         Schedule(when, msgs)
  PROVE  \/ UNCHANGED <<q, accepted>>
         \/ \E x \in QueuedData :
              /\ q'.list = Append(q.list, x) /\ x.path = <<Len(accepted) + 1>>
              /\ ~IsMessage(x) /\ x.timetag = when /\ Len(accepted') = Len(accepted) + 1
              /\ OfPacket(x)
<1>1. CASE ~(freeQDs > 0 /\ freePackets # <<>>)
  BY <1>1 DEF Schedule
<1>2. CASE freeQDs > 0 /\ freePackets # <<>>
  <2>. DEFINE el == InternalBundle(when, msgs)
              p == Head(freePackets)
              path == <<Len(accepted) + 1>>
              x == NewQD(el, p, when, path)
  <2>1. /\ q' = IF OSCQueueFull(q) THEN q ELSE OSCQueueInsert(q, x)
        /\ accepted' = Append(accepted, [el |-> el, timetag |-> when])
    BY <1>2 DEF Schedule
  <2>2. el.kind = "bundle" /\ el.timetag = when /\ el \in Elements
    BY DEF InternalBundle
  <2>. HIDE DEF el
  <2>3. /\ freePackets \in Seq(Buffers) /\ accepted \in Seq([el : Elements, timetag : Nat])
        /\ q \in [list : Seq(QueuedData), scanIndex : Nat]
    BY DEF ReceiveInv, Types
  <2>4. p \in Buffers /\ path \in Seq(Nat) /\ Len(accepted') = Len(accepted) + 1
    BY <1>2, <2>1, <2>3
  <2>5. q'.list = Append(q.list, x)
    BY <1>2, <2>1, <2>3, NotFull DEF OSCQueueInsert
  <2>6. x.el = el /\ x.timetag = when /\ x.path = path /\ x.callbacks = NotDispatched
    BY <2>2 DEF NewQD, TimeOf
  <2>7. x \in QueuedData
    <3>. HIDE DEF p, path
    <3>. QED  BY <2>2, <2>4, NewQDIs DEF Assumptions
  <2>. HIDE DEF x, p
  <2>8. ~IsMessage(x)
    BY <2>2, <2>6 DEF IsMessage
  <2>9. OfPacket(x)
    BY <2>1, <2>2, <2>6 DEF OfPacket, TimeOf
  <2>. QED  BY <2>4, <2>5, <2>6, <2>7, <2>8, <2>9
<1>. QED  BY <1>1, <1>2

LEMMA ClientSchedulesAdds ==
  ASSUME Assumptions, ReceiveInv, ReceiveInv', ClientSchedules(1)
  PROVE  /\ call = None /\ parse = None /\ UNCHANGED <<call, parse, log, times>>
         /\ \/ q'.list = q.list /\ Live' = Live /\ accepted' = accepted
            \/ \E x : /\ Adds(x) /\ x.path = <<Len(accepted) + 1>> /\ ~IsMessage(x)
                      /\ x.timetag = clock + 1 /\ Len(accepted') = Len(accepted) + 1
                      /\ OfPacket(x)
<1>. DEFINE when == clock + 1
            msgs == <<InternalMessage, InternalMessage>>
<1>1. /\ call = None /\ parse = None /\ UNCHANGED <<call, parse, log, times>>
      /\ Schedule(when, msgs)
  BY DEF ClientSchedules, AtClient
<1>2. when \in Nat
  BY DEF ReceiveInv, Types
<1>. HIDE DEF when
<1>3. InternalBundle(when, msgs) \in Elements
  BY <1>2, ElementsAre DEF WellFormed, Assumptions
<1>. HIDE DEF msgs
<1>4. \/ UNCHANGED <<q, accepted>>
      \/ \E x \in QueuedData :
           /\ q'.list = Append(q.list, x) /\ x.path = <<Len(accepted) + 1>>
           /\ ~IsMessage(x) /\ x.timetag = when /\ Len(accepted') = Len(accepted) + 1
           /\ OfPacket(x)
  BY <1>1, <1>2, <1>3, ScheduleAdds
<1>5. /\ Live = Queued(q.list) /\ Live' = Queued(q'.list) /\ q.list \in Seq(QueuedData) /\ Distinct(q.list)
      /\ Len(accepted) \in Nat /\ \A y \in Live : y.path[1] <= Len(accepted)
  BY <1>1, LiveFacts, NextLive DEF Loose
<1>6. ASSUME NEW x \in QueuedData, q'.list = Append(q.list, x), x.path = <<Len(accepted) + 1>>
      PROVE  Adds(x)
  <2>1. x \notin Queued(q.list)
    <3>1. x.path[1] = Len(accepted) + 1
      BY <1>6
    <3>2. ~(Len(accepted) + 1 <= Len(accepted))
      BY <1>5
    <3>. QED  BY <1>5, <3>1, <3>2
  <2>2. Live' = Live \cup {x}
    BY <1>5, <1>6, <2>1, QueuedAppend
  <2>. QED  BY <1>6, <2>2 DEF Adds
<1>7. CASE UNCHANGED <<q, accepted>>
  BY <1>1, <1>5, <1>7
<1>8. CASE \E x \in QueuedData :
             /\ q'.list = Append(q.list, x) /\ x.path = <<Len(accepted) + 1>>
             /\ ~IsMessage(x) /\ x.timetag = when /\ Len(accepted') = Len(accepted) + 1
             /\ OfPacket(x)
  BY <1>1, <1>6, <1>8 DEF when
<1>. QED  BY <1>4, <1>7, <1>8

LEMMA OrderClientSchedules ==
  ASSUME Assumptions, ReceiveInv, ReceiveInv', OrderInv, ClientSchedules(1)
  PROVE  OrderInv'
<1>1. /\ call = None /\ parse = None /\ UNCHANGED <<call, parse, log>>
      /\ \/ q'.list = q.list /\ accepted' = accepted
         \/ \E x : /\ Adds(x) /\ x.path = <<Len(accepted) + 1>> /\ ~IsMessage(x)
                   /\ Len(accepted') = Len(accepted) + 1
  BY ClientSchedulesAdds
<1>2. CASE q'.list = q.list /\ accepted' = accepted
  BY <1>1, <1>2, OrderCall DEF More
<1>3. ASSUME NEW x, Adds(x), x.path = <<Len(accepted) + 1>>, ~IsMessage(x), Len(accepted') = Len(accepted) + 1
      PROVE  OrderInv'
  BY <1>1, <1>3, OrderPacket
<1>. QED  BY <1>1, <1>2, <1>3

(* A callback: the message in hand, x, remains in hand; what the callback  *)
(* schedules is another packet.                                            *)
LEMMA CallbackAdds ==
  ASSUME Assumptions, ReceiveInv, ReceiveInv', CallCallback
  PROVE  /\ call # None /\ call.qd # None /\ call' # None /\ call'.qd # None /\ Same(call.qd, call'.qd)
         /\ call'.tag = call.tag /\ call'.now = call.now /\ parse = None /\ UNCHANGED <<parse, times>>
         /\ log' = Append(log, [path |-> call.qd.path, tag |-> call.tag])
         /\ Live' = {call'.qd} \cup Queued(q'.list)
         /\ \/ UNCHANGED <<q, accepted>>
            \/ \E z \in QueuedData :
                 /\ q'.list = Append(q.list, z) /\ z.path = <<Len(accepted) + 1>> /\ ~IsMessage(z)
                 /\ z.timetag \in Nat /\ z.timetag >= clock /\ Len(accepted') = Len(accepted) + 1
                 /\ OfPacket(z)
<1>. DEFINE x == call.qd
            y == [x EXCEPT !.callbacks = @ - 1]
<1>1. /\ call # None /\ x # None /\ call' = [call EXCEPT !.qd.callbacks = @ - 1]
      /\ UNCHANGED <<parse, times>> /\ x.callbacks > 0
      /\ log' = Append(log, [path |-> call.qd.path, tag |-> call.tag])
  BY DEF CallCallback
<1>2. parse = None /\ call \in CallTypes /\ IsMessage(x) /\ x \in QueuedData /\ clock \in Nat
  BY <1>1, InHandFacts DEF ReceiveInv, Types
<1>3. y \in QueuedData /\ Same(x, y)
  <2>1. y \in QueuedData /\ x.path = y.path /\ x.el = y.el /\ x.timetag = y.timetag
    BY <1>2 DEF QueuedData
  <2>2. x.callbacks \in Int /\ y.callbacks = x.callbacks - 1 /\ x.callbacks > 0
    BY <1>1, <1>2 DEF QueuedData
  <2>. HIDE DEF y
  <2>3. Owed(y) < Owed(x)
    BY <2>2 DEF Owed, NotDispatched
  <2>. QED  BY <2>1, <2>3 DEF Same
<1>4. call' \in CallTypes /\ call'.qd = y /\ call'.tag = call.tag /\ call'.now = call.now
  <2>1. call' = [call EXCEPT !.qd = y]
    BY <1>1, <1>2 DEF CallTypes
  <2>. HIDE DEF y
  <2>. QED  BY <1>2, <1>3, <2>1 DEF CallTypes
<1>5. call' # None /\ call'.qd # None
  <2>. HIDE DEF y
  <2>. QED  BY <1>3, <1>4, NoneIsNone DEF Assumptions
<1>6. Live' = {call'.qd} \cup Queued(q'.list)
  BY <1>5, NextLive
<1>7. CASE x.el.schedules = NoTime
  <2>1. UNCHANGED <<q, accepted>>
    BY <1>7 DEF CallCallback
  <2>. HIDE DEF y
  <2>. QED  BY <1>1, <1>2, <1>3, <1>4, <1>5, <1>6, <2>1
<1>8. CASE x.el.schedules # NoTime
  <2>. DEFINE when == clock + x.el.schedules
              msgs == <<InternalMessage>>
  <2>1. Schedule(when, msgs)
    BY <1>8 DEF CallCallback
  <2>2. when \in Nat /\ when >= clock
    <3>1. x.el \in Elements
      BY <1>2 DEF QueuedData
    <3>2. x.el.schedules \in Nat
      BY <1>2, <1>8, <3>1, ElementsAre DEF WellFormed, Assumptions, IsMessage
    <3>. QED  BY <1>2, <3>2
  <2>. HIDE DEF when, x, y
  <2>3. InternalBundle(when, msgs) \in Elements
    BY <2>2, ElementsAre DEF WellFormed, Assumptions
  <2>. HIDE DEF msgs
  <2>4. \/ UNCHANGED <<q, accepted>>
        \/ \E z \in QueuedData :
             /\ q'.list = Append(q.list, z) /\ z.path = <<Len(accepted) + 1>>
             /\ ~IsMessage(z) /\ z.timetag = when /\ Len(accepted') = Len(accepted) + 1
             /\ OfPacket(z)
    BY <2>1, <2>2, <2>3, ScheduleAdds
  <2>. QED  BY <1>1, <1>2, <1>3, <1>4, <1>5, <1>6, <2>2, <2>4 DEF x
<1>. QED  BY <1>7, <1>8

LEMMA OrderCallCallback ==
  ASSUME Assumptions, ReceiveInv, ReceiveInv', OrderInv, CallCallback
  PROVE  OrderInv'
<1>. DEFINE x == call.qd
            n == Len(accepted)
<1>1. /\ call # None /\ x # None /\ call' # None /\ call'.qd # None /\ Same(x, call'.qd)
      /\ parse' = None /\ log' = Append(log, [path |-> x.path, tag |-> call.tag])
      /\ Live' = {call'.qd} \cup Queued(q'.list)
      /\ \/ UNCHANGED <<q, accepted>>
         \/ \E z \in QueuedData :
              /\ q'.list = Append(q.list, z) /\ z.path = <<n + 1>> /\ ~IsMessage(z)
              /\ Len(accepted') = n + 1
  BY CallbackAdds
<1>2. /\ parse = None /\ IsMessage(x) /\ x \in Live /\ x \in QueuedData
      /\ Live = {x} \cup Queued(q.list) /\ Hand = x.path /\ call \in CallTypes
  BY <1>1, InHandFacts
<1>3. /\ q.list \in Seq(QueuedData) /\ Queued(q.list) \subseteq Live /\ n \in Nat /\ Live \in SUBSET QueuedData
      /\ Rooted(Live, n) /\ Apart(Live, <<>>, 1) /\ x.path \in Seq(Nat) /\ x.path # <<>>
      /\ OrderOf(q.list, Live, log, n, x.path)
  BY <1>2, LiveFacts DEF OrderInv
<1>4. \A y \in Queued(q.list) : Siblings(x, y) => Last(x.path) < Last(y.path)
  BY <1>1 DEF OrderInv, HandFirst
<1>. HIDE DEF x, n
<1>5. \A y \in Live : Siblings(x, y) => Last(x.path) <= Last(y.path)
  <2>1. Last(x.path) \in Nat
    BY <1>3, ParentLeads
  <2>2. ASSUME NEW y \in Queued(q.list), Siblings(x, y) PROVE Last(x.path) <= Last(y.path)
    <3>1. y.path \in Seq(Nat) /\ y.path # <<>>
      BY <1>3, LiveFacts
    <3>2. Last(y.path) \in Nat /\ Last(x.path) < Last(y.path)
      BY <1>4, <2>2, <3>1, ParentLeads
    <3>. QED  BY <2>1, <3>2
  <2>. QED  BY <1>2, <2>1, <2>2
<1>6. OrderOf(q.list, Live, log', n, x.path)
  <2>1. call.tag \in Nat
    BY <1>2 DEF CallTypes
  <2>2. OrderOf(q.list, Live, Append(log, [path |-> x.path, tag |-> call.tag]), n, x.path)
    BY <1>2, <1>3, <1>5, <2>1, OrderLogged
  <2>. QED  BY <1>1, <2>2
<1>7. Hand' = x.path /\ Parsed'
  BY <1>1 DEF Hand, Same, Parsed
<1>8. CASE UNCHANGED <<q, accepted>>
  <2>1. Covered(Live', Live) /\ Thinned(q'.list, q.list)
    BY <1>1, <1>2, <1>8, ThinnedSame DEF Covered, Same
  <2>2. OrderOf(q'.list, Live', log', n, x.path)
    BY <1>3, <1>6, <2>1, OrderLess
  <2>3. HandFirst'
    BY <1>1, <1>4, <1>8 DEF HandFirst, Same, Siblings, IsMessage
  <2>. QED  BY <1>7, <1>8, <2>2, <2>3 DEF OrderInv, n
<1>9. ASSUME NEW z \in QueuedData, q'.list = Append(q.list, z), z.path = <<n + 1>>, ~IsMessage(z),
             Len(accepted') = n + 1
      PROVE  OrderInv'
  <2>1. ASSUME NEW k \in DOMAIN log' PROVE ~Leads(z.path, log'[k].path)
    <3>1. log'[k] \in Entry /\ log'[k].path # <<>> /\ log'[k].path[1] <= n
      BY <1>6 DEF OrderOf, Logged
    <3>2. log'[k].path \in Seq(Nat) /\ log'[k].path[1] \in Nat
      BY <3>1, ParentLeads DEF Entry
    <3>3. z.path \in Seq(Nat) /\ z.path # <<>> /\ z.path[1] = n + 1
      BY <1>3, <1>9, ParentOfPacket
    <3>4. Leads(z.path, log'[k].path) => z.path[1] = log'[k].path[1]
      BY <3>2, <3>3, LeadsFirst
    <3>. QED  BY <1>3, <3>1, <3>2, <3>3, <3>4
  <2>2. OrderOf(q'.list, Live \cup {z}, log', n, x.path)
    <3>1. Follows(z, Live, log') /\ z \in QueuedData /\ q.list \in Seq(QueuedData) /\ Queued(q.list) \subseteq Live
      BY <1>3, <1>9 DEF Follows
    <3>2. OrderOf(Append(q.list, z), Live \cup {z}, log', n, x.path)
      BY <1>6, <2>1, <3>1, OrderMore
    <3>. QED  BY <1>9, <3>2
  <2>3. \A y \in Queued(q'.list) : y \in Queued(q.list) \/ y = z
    <3>1. \A i \in DOMAIN q'.list : (i \in DOMAIN q.list /\ q'.list[i] = q.list[i]) \/ q'.list[i] = z
      BY <1>3, <1>9
    <3>. QED  BY <3>1 DEF Queued
  <2>4. Covered(Live', Live \cup {z}) /\ Thinned(q'.list, q'.list)
    BY <1>1, <1>2, <2>3, ThinnedSame DEF Covered, Same
  <2>5. OrderOf(q'.list, Live', log', n + 1, x.path)
    BY <1>3, <2>2, <2>4, OrderLess
  <2>6. HandFirst'
    BY <1>1, <1>4, <1>9, <2>3 DEF HandFirst, Same, Siblings, IsMessage
  <2>. QED  BY <1>7, <1>9, <2>5, <2>6 DEF OrderInv
<1>. QED  BY <1>1, <1>8, <1>9

LEMMA OrderInit == ASSUME Assumptions, Init PROVE OrderInv
<1>1. q.list = <<>> /\ log = <<>> /\ call = None /\ parse = None /\ accepted = <<>>
  BY DEF Init, OSCInitReceive, OSCNewQueue
<1>2. Live = {}
  BY <1>1 DEF Live, InHand
<1>3. Logged(log, Len(accepted)) /\ Behind(log, Live, Hand) /\ InOrder(log)
  BY <1>1 DEF Logged, Behind, InOrder
<1>4. Ordered(q.list) /\ LogFirst(log, Live) /\ Outermost(Live)
  BY <1>1, <1>2 DEF Ordered, LogFirst, Outermost
<1>. QED  BY <1>1, <1>3, <1>4 DEF OrderInv, OrderOf, HandFirst, Parsed

LEMMA OrderNext == ASSUME Assumptions, ReceiveInv, ReceiveInv', OrderInv, [Next]_vars PROVE OrderInv'
<1>1. CASE OSCAllocPacketBuffer \/ OSCFreePacket \/ Tick \/ UNCHANGED vars
  BY <1>1, OrderStill DEF OSCAllocPacketBuffer, OSCFreePacket, Tick, vars
<1>2. CASE \E el \in Packets : OSCAcceptPacket(el)
  BY <1>2, OrderAccept
<1>3. CASE OSCBeProductiveWhileWaiting
  BY <1>3, OrderIdleStep
<1>4. CASE \E all \in BOOLEAN : OSCInvokeMessagesThatAreReady(all)
  BY <1>4, OrderInvoke
<1>5. CASE ClientSchedules(1)
  BY <1>5, OrderClientSchedules
<1>6. CASE ParseElement
  BY <1>6, OrderParseElement
<1>7. CASE ParseDone
  BY <1>7, OrderParseDone
<1>8. CASE TakeBundle
  BY <1>8, OrderTakeBundle
<1>9. CASE TakeMessage
  BY <1>9, OrderTakeMessage
<1>10. CASE CallCallback
  BY <1>10, OrderCallCallback
<1>11. CASE MessageDone
  BY <1>11, OrderMessageDone
<1>12. CASE LoopDone
  BY <1>12, OrderLoopDone
<1>. QED
  BY <1>1, <1>2, <1>3, <1>4, <1>5, <1>6, <1>7, <1>8, <1>9, <1>10, <1>11, <1>12 DEF Next, InCall

(* Whatever is parsed early, and whatever callbacks schedule, the messages *)
(* of one bundle take effect in their order (ParseBundle, OSCQueueRemove-  *)
(* Earliest and OSCInvokeMessagesThatAreReady of OSC-receive.c).           *)
THEOREM OrderKept == ASSUME Assumptions PROVE Spec => []SiblingsInOrder
<1>1. Init => ReceiveInv /\ OrderInv
  BY InvInit, OrderInit
<1>2. ReceiveInv /\ OrderInv /\ [Next]_vars => ReceiveInv' /\ OrderInv'
  BY InvNext, OrderNext
<1>3. OrderInv => SiblingsInOrder
  BY DEF OrderInv, OrderOf, InOrder, SiblingsInOrder, Last
<1>. QED  BY <1>1, <1>2, <1>3, PTL DEF Spec


-----------------------------------------------------------------------------
(* Atomicity.  While a time tag is served, nothing is due earlier.  What   *)
(* waits is due after the messages of its packet that took effect, or at   *)
(* the time that is being served since then.                               *)
Due(x) == Min2(x.timetag, Biggest)

Serving ==
    /\ lastTimeTag <= clock
    /\ call # None =>
         /\ call.tag <= call.now /\ call.now <= clock /\ call.tag <= Biggest
         /\ \A x \in Live : call.tag <= Due(x)
         /\ call.qd = None \/ Due(call.qd) = call.tag
         /\ parse = None \/ Due(parse.qd) = call.tag

Passed(lg, live) ==
    \A k \in DOMAIN lg : \A x \in live : x.path[1] = lg[k].path[1] => lg[k].tag < Due(x)

Since(lg, live, t) ==
    \A k \in DOMAIN lg : \A x \in live : x.path[1] = lg[k].path[1] =>
        lg[k].tag < Due(x) \/ (Due(x) = t /\ \A j \in k .. Len(lg) : lg[j].tag = t)

SinceServed == IF call = None THEN Passed(log, Live) ELSE Since(log, Live, call.tag)

AtomicInv == Serving /\ SinceServed /\ Atomic

(* Objects that come from others are of the same packets and not due       *)
(* before them.                                                            *)
From(new, live) == \A x \in new : \E y \in live : x.path[1] = y.path[1] /\ Due(y) <= Due(x)

LEMMA DueType ==
  ASSUME NEW x \in QueuedData
  PROVE  Due(x) \in Nat /\ Due(x) <= Biggest /\ Due(x) <= x.timetag /\ (Due(x) = Biggest \/ Due(x) = x.timetag)
<1>1. x.timetag \in Nat
  BY DEF QueuedData
<1>. QED  BY <1>1, QueueAssumption DEF Due, Min2

LEMMA DueLater ==
  ASSUME NEW x \in QueuedData, NEW y \in QueuedData, x.timetag <= y.timetag
  PROVE  Due(x) <= Due(y)
<1>1. x.timetag \in Nat /\ y.timetag \in Nat
  BY DEF QueuedData
<1>. QED  BY <1>1, QueueAssumption DEF Due, Min2

LEMMA FewerFrom ==
  ASSUME Assumptions, ReceiveInv, Covered(Live', Live) PROVE From(Live', Live)
<1>. SUFFICES ASSUME NEW x \in Live' PROVE \E y \in Live : x.path[1] = y.path[1] /\ Due(y) <= Due(x)
  BY DEF From
<1>1. PICK y \in Live : y.path = x.path /\ y.timetag = x.timetag
  BY DEF Covered, Same
<1>2. y \in QueuedData
  BY LiveFacts
<1>3. Due(x) = Due(y) /\ Due(y) \in Nat
  BY <1>1, <1>2, DueType DEF Due
<1>. QED  BY <1>1, <1>3

LEMMA EarliestDue ==
  ASSUME NEW queue, queue.list \in Seq(QueuedData)
  PROVE  /\ OSCQueueEarliestTimeTag(queue) \in Nat /\ OSCQueueEarliestTimeTag(queue) <= Biggest
         /\ \A x \in Queued(queue.list) : OSCQueueEarliestTimeTag(queue) <= Due(x)
         /\ queue.list # <<>> => Due(Earliest(queue)) = OSCQueueEarliestTimeTag(queue)
<1>. DEFINE e == OSCQueueEarliestTimeTag(queue)
            g == SmallestIndex(queue.list)
<1>1. /\ e \in Nat /\ e \in TagsOf(queue.list) \cup {Biggest}
      /\ \A u \in TagsOf(queue.list) \cup {Biggest} : e <= u
  BY EarliestTagType
<1>2. e <= Biggest /\ \A i \in DOMAIN queue.list : queue.list[i].timetag \in TagsOf(queue.list) /\ queue.list[i] \in QueuedData
  BY <1>1 DEF TagsOf
<1>. HIDE DEF e, g
<1>3. ASSUME NEW i \in DOMAIN queue.list PROVE e <= Due(queue.list[i])
  <2>1. e <= queue.list[i].timetag
    BY <1>1, <1>2
  <2>. QED  BY <1>2, <2>1 DEF Due, Min2
<1>4. \A x \in Queued(queue.list) : e <= Due(x)
  BY <1>3 DEF Queued
<1>5. ASSUME queue.list # <<>> PROVE Due(queue.list[g]) = e
  <2>1. g \in DOMAIN queue.list /\ \A j \in DOMAIN queue.list : queue.list[g].timetag <= queue.list[j].timetag
    BY <1>5, SmallestIndexInDomain DEF g
  <2>2. /\ Due(queue.list[g]) \in Nat /\ Due(queue.list[g]) <= Biggest
        /\ Due(queue.list[g]) <= queue.list[g].timetag /\ e <= Due(queue.list[g])
        /\ queue.list[g].timetag \in Nat
    <3>1. queue.list[g] \in QueuedData
      BY <1>2, <2>1
    <3>2. queue.list[g].timetag \in Nat
      BY <3>1 DEF QueuedData
    <3>. QED  BY <1>3, <2>1, <3>1, <3>2, DueType
  <2>3. CASE e = Biggest
    BY <1>1, <2>2, <2>3
  <2>4. CASE e \in TagsOf(queue.list)
    <3>1. queue.list[g].timetag <= e
      BY <2>1, <2>4 DEF TagsOf
    <3>. QED  BY <1>1, <2>2, <3>1
  <2>. QED  BY <1>1, <2>3, <2>4
<1>. QED  BY <1>1, <1>2, <1>4, <1>5 DEF e, g, Earliest

LEMMA SinceFrom ==
  ASSUME NEW lg \in Seq(Entry), NEW live \in SUBSET QueuedData, NEW new \in SUBSET QueuedData, From(new, live)
  PROVE  /\ Passed(lg, live) => Passed(lg, new)
         /\ \A t \in Nat : Since(lg, live, t) => Since(lg, new, t)
<1>1. ASSUME NEW k \in DOMAIN lg PROVE lg[k].tag \in Nat /\ k \in k .. Len(lg)
  <2>1. lg[k] \in Entry /\ k \in 1 .. Len(lg) /\ Len(lg) \in Nat
    OBVIOUS
  <2>. QED  BY <2>1 DEF Entry
<1>2. ASSUME NEW x \in new
      PROVE  /\ \E y \in live : x.path[1] = y.path[1] /\ Due(y) <= Due(x) /\ Due(y) \in Nat
             /\ Due(x) \in Nat
  BY DueType DEF From
<1>3. ASSUME Passed(lg, live) PROVE Passed(lg, new)
  <2>1. SUFFICES ASSUME NEW k \in DOMAIN lg, NEW x \in new, x.path[1] = lg[k].path[1]
                 PROVE  lg[k].tag < Due(x)
    BY DEF Passed
  <2>2. PICK y \in live : x.path[1] = y.path[1] /\ Due(y) <= Due(x) /\ Due(y) \in Nat
    BY <1>2
  <2>3. lg[k].tag < Due(y)
    BY <1>3, <2>1, <2>2 DEF Passed
  <2>. QED  BY <1>1, <1>2, <2>2, <2>3
<1>4. ASSUME NEW t \in Nat, Since(lg, live, t) PROVE Since(lg, new, t)
  <2>1. SUFFICES ASSUME NEW k \in DOMAIN lg, NEW x \in new, x.path[1] = lg[k].path[1]
                 PROVE  lg[k].tag < Due(x) \/ (Due(x) = t /\ \A j \in k .. Len(lg) : lg[j].tag = t)
    BY DEF Since
  <2>2. PICK y \in live : x.path[1] = y.path[1] /\ Due(y) <= Due(x) /\ Due(y) \in Nat
    BY <1>2
  <2>3. lg[k].tag < Due(y) \/ (Due(y) = t /\ \A j \in k .. Len(lg) : lg[j].tag = t)
    BY <1>4, <2>1, <2>2 DEF Since
  <2>4. CASE lg[k].tag < Due(y)
    BY <1>1, <1>2, <2>2, <2>4
  <2>5. CASE Due(y) = t /\ \A j \in k .. Len(lg) : lg[j].tag = t
    <3>1. lg[k].tag = t /\ t <= Due(x) /\ Due(x) \in Nat
      BY <1>1, <1>2, <2>2, <2>5
    <3>. QED  BY <2>5, <3>1
  <2>. QED  BY <2>3, <2>4, <2>5
<1>. QED  BY <1>3, <1>4

(* What the steps of the receiver read of the invariants.                  *)
LEMMA AtomicFacts ==
  ASSUME Assumptions, ReceiveInv, OrderInv
  PROVE  /\ lastTimeTag \in Nat /\ clock \in Nat /\ log \in Seq(Entry) /\ Live \in SUBSET QueuedData
         /\ call # None => call \in CallTypes /\ call.tag \in Nat /\ call.now \in Nat
         /\ q.list \in Seq(QueuedData) /\ Len(accepted) \in Nat
         /\ \A k \in DOMAIN log : /\ log[k].path[1] \in Nat /\ log[k].path[1] <= Len(accepted)
                                  /\ log[k].tag \in Nat
<1>1. Logged(log, Len(accepted))
  BY DEF OrderInv, OrderOf
<1>2. ASSUME NEW k \in DOMAIN log
      PROVE  /\ log[k].path[1] \in Nat /\ log[k].path[1] <= Len(accepted) /\ log[k].tag \in Nat
  <2>1. log[k] \in Entry
    BY <1>1 DEF Logged
  <2>. QED  BY <1>1, <2>1, ParentLeads DEF Logged, Entry
<1>3. call # None => call \in CallTypes /\ call.tag \in Nat /\ call.now \in Nat
  BY LiveFacts DEF CallTypes
<1>. QED  BY <1>1, <1>2, <1>3, LiveFacts DEF Logged, ReceiveInv, Types

LEMMA NextFacts ==
  ASSUME Assumptions, ReceiveInv'
  PROVE  /\ Live' \in SUBSET QueuedData /\ lastTimeTag' \in Nat /\ clock' \in Nat
         /\ q'.list \in Seq(QueuedData)
<1>1. /\ q' \in [list : Seq(QueuedData), scanIndex : Nat] /\ lastTimeTag' \in Nat /\ clock' \in Nat
      /\ call' \in CallTypes \cup {None} /\ parse' \in ParseTypes \cup {None}
  BY DEF ReceiveInv, Types
<1>2. Queued(q'.list) \subseteq QueuedData /\ Loose(parse') \subseteq QueuedData
  BY <1>1 DEF Queued, Loose, ParseTypes
<1>3. call' # None /\ call'.qd # None => call'.qd \in QueuedData
  BY <1>1 DEF CallTypes
<1>4. /\ call' = None \/ call'.qd = None => Live' = Loose(parse') \cup Queued(q'.list)
      /\ call' # None /\ call'.qd # None => Live' = {call'.qd} \cup Queued(q'.list)
  BY NextLive
<1>. QED  BY <1>1, <1>2, <1>3, <1>4

(* A step within a call, or outside of any, that adds no packet.           *)
LEMMA AtomicQuiet ==
  ASSUME Assumptions, ReceiveInv, ReceiveInv', OrderInv, OrderInv', AtomicInv,
         From(Live', Live), log' = log, lastTimeTag' = lastTimeTag, clock' >= clock,
         call' = None <=> call = None,
         call # None => /\ call'.tag = call.tag /\ call'.now = call.now
                        /\ call'.qd = None \/ Due(call'.qd) = call.tag
                        /\ parse' = None \/ Due(parse'.qd) = call.tag
  PROVE  AtomicInv'
<1>1. /\ lastTimeTag \in Nat /\ clock \in Nat /\ clock' \in Nat /\ log \in Seq(Entry)
      /\ Live \in SUBSET QueuedData /\ Live' \in SUBSET QueuedData
      /\ call # None => call.tag \in Nat /\ call.now \in Nat
  BY AtomicFacts, NextFacts
<1>2. Serving'
  <2>1. lastTimeTag' <= clock'
    BY <1>1 DEF AtomicInv, Serving
  <2>2. ASSUME call # None
        PROVE  /\ call.tag <= call.now /\ call.now <= clock' /\ call.tag <= Biggest
               /\ \A x \in Live' : call.tag <= Due(x)
    <3>1. /\ call.tag <= call.now /\ call.now <= clock /\ call.tag <= Biggest
          /\ \A x \in Live : call.tag <= Due(x)
      BY <2>2 DEF AtomicInv, Serving
    <3>2. ASSUME NEW x \in Live' PROVE call.tag <= Due(x)
      <4>1. PICK y \in Live : Due(y) <= Due(x)
        BY DEF From
      <4>2. Due(y) \in Nat /\ Due(x) \in Nat
        BY <1>1, DueType
      <4>. QED  BY <1>1, <2>2, <3>1, <4>1, <4>2
    <3>. QED  BY <1>1, <2>2, <3>1, <3>2
  <2>. QED  BY <2>1, <2>2 DEF Serving, Due
<1>3. SinceServed'
  <2>1. CASE call = None
    <3>1. Passed(log, Live')
      BY <1>1, <2>1, SinceFrom DEF AtomicInv, SinceServed
    <3>. QED  BY <2>1, <3>1 DEF SinceServed, Passed, Due
  <2>2. CASE call # None
    <3>1. Since(log, Live', call.tag)
      BY <1>1, <2>2, SinceFrom DEF AtomicInv, SinceServed
    <3>. QED  BY <2>2, <3>1 DEF SinceServed, Since, Due
  <2>. QED  BY <2>1, <2>2
<1>4. Atomic'
  BY DEF AtomicInv, Atomic
<1>. QED  BY <1>2, <1>3, <1>4 DEF AtomicInv

LEMMA AtomicParseElement ==
  ASSUME Assumptions, ReceiveInv, ReceiveInv', OrderInv, OrderInv', AtomicInv, ParseElement
  PROVE  AtomicInv'
<1>. DEFINE t == parse.qd
            k == parse.next
<1>1. /\ parse' # None /\ parse'.qd = t /\ parse # None
      /\ call = None \/ call.qd = None
      /\ UNCHANGED <<call, log, lastTimeTag, clock>>
      /\ (q'.list = q.list /\ Live' = Live) \/ \E x : Adds(x) /\ ElementOf(x, t, k)
  BY ParseElementAdds DEF times
<1>2. /\ t \in Live /\ k \in Nat \ {0} /\ t.path \in Seq(Nat) /\ t.path # <<>> /\ t \in QueuedData
      /\ clock \in Nat /\ Live \in SUBSET QueuedData
  BY <1>1, ParseFacts, LiveFacts, AtomicFacts
<1>3. call # None => Due(t) = call.tag
  BY <1>1 DEF AtomicInv, Serving
<1>. HIDE DEF t, k
<1>4. From(Live', Live)
  <2>1. CASE Live' = Live
    BY <2>1, FewerFrom DEF Covered, Same
  <2>2. ASSUME NEW x, Adds(x), ElementOf(x, t, k)
        PROVE  From(Live', Live)
    <3>1. x \in QueuedData /\ Live' = Live \cup {x} /\ x.path = Append(t.path, k) /\ t.timetag <= x.timetag
      <4>1. x \in QueuedData /\ x.timetag >= t.timetag /\ x.timetag \in Nat /\ t.timetag \in Nat
        BY <1>2, <2>2 DEF Adds, ElementOf, QueuedData
      <4>. QED  BY <2>2, <4>1 DEF Adds, ElementOf
    <3>2. x.path[1] = t.path[1]
      <4>1. Len(t.path) \in Nat /\ Len(t.path) >= 1
        BY <1>2
      <4>. QED  BY <1>2, <3>1, <4>1
    <3>3. Due(t) <= Due(x)
      BY <1>2, <3>1, DueLater
    <3>4. \A y \in Live : Due(y) \in Nat
      BY <1>2, DueType
    <3>. QED  BY <1>2, <3>1, <3>2, <3>3, <3>4 DEF From
  <2>. QED  BY <1>1, <2>1, <2>2
<1>5. clock' >= clock
  BY <1>1, <1>2
<1>. QED  BY <1>1, <1>3, <1>4, <1>5, AtomicQuiet

LEMMA AtomicFewer ==
  ASSUME Assumptions, ReceiveInv, ReceiveInv', OrderInv, OrderInv', AtomicInv,
         Fewer, UNCHANGED <<call, log, times>>, call # None => parse' = None \/ Due(parse'.qd) = call.tag
  PROVE  AtomicInv'
<1>1. /\ clock \in Nat /\ UNCHANGED <<call, log, lastTimeTag, clock>> /\ clock' >= clock
      /\ From(Live', Live)
  BY FewerFrom, AtomicFacts DEF Fewer, times
<1>2. call # None => call.qd = None \/ Due(call.qd) = call.tag
  BY DEF AtomicInv, Serving
<1>. QED  BY <1>1, <1>2, AtomicQuiet

LEMMA AtomicParseDone ==
  ASSUME Assumptions, ReceiveInv, ReceiveInv', OrderInv, OrderInv', AtomicInv, ParseDone
  PROVE  AtomicInv'
BY ParseDoneFewer, AtomicFewer

LEMMA AtomicIdleStep ==
  ASSUME Assumptions, ReceiveInv, ReceiveInv', OrderInv, OrderInv', AtomicInv, OSCBeProductiveWhileWaiting
  PROVE  AtomicInv'
BY IdleFewer, AtomicFewer

LEMMA AtomicTakeBundle ==
  ASSUME Assumptions, ReceiveInv, ReceiveInv', OrderInv, OrderInv', AtomicInv, TakeBundle
  PROVE  AtomicInv'
<1>1. Fewer /\ UNCHANGED <<call, log, times>> /\ parse'.qd = Earliest(q)
  BY TakeBundleFewer
<1>2. q.list # <<>> /\ OSCQueueEarliestTimeTag(q) = call.tag /\ q.list \in Seq(QueuedData)
  BY LiveFacts DEF TakeBundle, MoreOfThisTag
<1>3. Due(parse'.qd) = call.tag
  BY <1>1, <1>2, EarliestDue
<1>. QED  BY <1>1, <1>3, AtomicFewer

LEMMA AtomicTakeMessage ==
  ASSUME Assumptions, ReceiveInv, ReceiveInv', OrderInv, OrderInv', AtomicInv, TakeMessage
  PROVE  AtomicInv'
<1>1. /\ Fewer /\ parse = None /\ call # None /\ UNCHANGED <<parse, log, lastTimeTag, clock>>
      /\ call' # None /\ call'.tag = call.tag /\ call'.now = call.now
      /\ call'.qd = None \/ Same(Earliest(q), call'.qd)
  BY TakeMessageFewer DEF times
<1>2. /\ q.list # <<>> /\ OSCQueueEarliestTimeTag(q) = call.tag /\ q.list \in Seq(QueuedData)
      /\ clock \in Nat
  BY LiveFacts, AtomicFacts DEF TakeMessage, MoreOfThisTag
<1>3. call'.qd = None \/ Due(call'.qd) = call.tag
  <2>1. Due(Earliest(q)) = call.tag
    BY <1>2, EarliestDue
  <2>. QED  BY <1>1, <2>1 DEF Same, Due
<1>4. From(Live', Live) /\ clock' >= clock
  BY <1>1, <1>2, FewerFrom DEF Fewer
<1>. QED  BY <1>1, <1>3, <1>4, AtomicQuiet

LEMMA AtomicMessageDone ==
  ASSUME Assumptions, ReceiveInv, ReceiveInv', OrderInv, OrderInv', AtomicInv, MessageDone
  PROVE  AtomicInv'
<1>1. /\ call # None /\ call.qd # None /\ call' = [call EXCEPT !.qd = None]
      /\ UNCHANGED <<q, parse, log, lastTimeTag, clock>>
  BY DEF MessageDone, times
<1>2. /\ parse = None /\ call \in CallTypes /\ Live = {call.qd} \cup Queued(q.list) /\ clock \in Nat
  BY <1>1, InHandFacts, AtomicFacts
<1>3. call'.qd = None /\ call'.tag = call.tag /\ call'.now = call.now /\ call' \in CallTypes
  BY <1>1, <1>2 DEF CallTypes
<1>4. call' # None
  BY <1>3, NoneIsNone DEF Assumptions
<1>5. Live' = Queued(q.list)
  BY <1>1, <1>2, <1>3, NextLive DEF Loose
<1>6. From(Live', Live) /\ clock' >= clock
  <2>1. Covered(Live', Live)
    BY <1>2, <1>5 DEF Covered, Same
  <2>. QED  BY <1>1, <1>2, <2>1, FewerFrom
<1>. QED  BY <1>1, <1>2, <1>3, <1>4, <1>6, AtomicQuiet

LEMMA AtomicStill ==
  ASSUME Assumptions, ReceiveInv, ReceiveInv', OrderInv, OrderInv', AtomicInv,
         UNCHANGED <<q, call, parse, log, lastTimeTag>>, clock' >= clock
  PROVE  AtomicInv'
<1>1. Live' = Live
  BY DEF Live, InHand
<1>2. From(Live', Live)
  BY <1>1, FewerFrom DEF Covered, Same
<1>3. call # None => /\ call.qd = None \/ Due(call.qd) = call.tag
                     /\ parse = None \/ Due(parse.qd) = call.tag
  BY DEF AtomicInv, Serving
<1>. QED  BY <1>2, <1>3, AtomicQuiet

-----------------------------------------------------------------------------
(* The steps outside of a call, and from one time tag to the next.         *)
LEMMA PassedMore ==
  ASSUME Assumptions, ReceiveInv, OrderInv, Passed(log, Live), Rooted(Live, Len(accepted)),
         \/ Live' = Live
         \/ \E x : Adds(x) /\ x.path = <<Len(accepted) + 1>>
  PROVE  Passed(log, Live')
<1>1. ASSUME NEW x, Adds(x), x.path = <<Len(accepted) + 1>>, NEW k \in DOMAIN log
      PROVE  x.path[1] # log[k].path[1]
  <2>1. log[k].path[1] \in Nat /\ log[k].path[1] <= Len(accepted) /\ Len(accepted) \in Nat
    BY AtomicFacts
  <2>2. x.path[1] = Len(accepted) + 1
    BY <1>1
  <2>. QED  BY <2>1, <2>2
<1>. QED  BY <1>1 DEF Passed, Adds

LEMMA AtomicCall ==
  ASSUME Assumptions, ReceiveInv, ReceiveInv', OrderInv, AtomicInv, Passed(log, Live'), log' = log,
         parse' = None, lastTimeTag' <= clock',
         call' = None \/ \E now \in Nat, all \in BOOLEAN : call' = Invoke(q', now, all) /\ now <= clock'
  PROVE  AtomicInv'
<1>1. Atomic'
  BY DEF AtomicInv, Atomic
<1>2. CASE call' = None
  BY <1>1, <1>2 DEF AtomicInv, Serving, SinceServed, Passed, Due
<1>3. ASSUME NEW now \in Nat, NEW all \in BOOLEAN, call' = Invoke(q', now, all), now <= clock', call' # None
      PROVE  AtomicInv'
  <2>. DEFINE tag == OSCQueueEarliestTimeTag(q')
  <2>1. tag <= now /\ call' = [now |-> now, tag |-> tag, all |-> all, qd |-> None]
    <3>1. tag \in Nat
      BY NextFacts, EarliestDue
    <3>. QED  BY <1>3, <3>1 DEF Invoke
  <2>. HIDE DEF tag
  <2>2. call'.now = now /\ call'.tag = tag /\ call'.qd = None
    BY <2>1
  <2>3. Live' = Queued(q'.list) /\ q'.list \in Seq(QueuedData)
    BY <2>2, NextLive, NextFacts DEF Loose
  <2>4. tag <= Biggest /\ \A x \in Live' : tag <= Due(x)
    BY <2>3, EarliestDue DEF tag
  <2>5. Serving'
    BY <1>3, <2>1, <2>2, <2>4 DEF Serving, Due
  <2>6. SinceServed'
    BY <1>3 DEF SinceServed, Passed, Since, Due
  <2>. QED  BY <1>1, <2>5, <2>6 DEF AtomicInv
<1>. QED  BY <1>2, <1>3

LEMMA AtomicAccept ==
  ASSUME Assumptions, ReceiveInv, ReceiveInv', OrderInv, AtomicInv, NEW el \in Packets, OSCAcceptPacket(el)
  PROVE  AtomicInv'
<1>1. /\ call = None /\ parse' = None /\ UNCHANGED <<log, lastTimeTag, clock>>
      /\ Live' = Live \/ \E x : Adds(x) /\ x.path = <<Len(accepted) + 1>>
      /\ call' = call \/ call' = Invoke(q', lastTimeTag, TRUE)
  BY AcceptAdds DEF OSCAcceptPacket
<1>2. Passed(log, Live) /\ lastTimeTag <= clock /\ lastTimeTag \in Nat
  BY <1>1, AtomicFacts DEF AtomicInv, SinceServed, Serving
<1>3. Passed(log, Live')
  BY <1>1, <1>2, PassedMore, LiveFacts
<1>. QED  BY <1>1, <1>2, <1>3, AtomicCall

LEMMA AtomicClientSchedules ==
  ASSUME Assumptions, ReceiveInv, ReceiveInv', OrderInv, AtomicInv, ClientSchedules(1)
  PROVE  AtomicInv'
<1>1. /\ call = None /\ call' = None /\ parse' = None /\ UNCHANGED <<log, lastTimeTag, clock>>
      /\ Live' = Live \/ \E x : Adds(x) /\ x.path = <<Len(accepted) + 1>>
  BY ClientSchedulesAdds DEF times
<1>2. Passed(log, Live) /\ lastTimeTag <= clock
  BY <1>1 DEF AtomicInv, SinceServed, Serving
<1>3. Passed(log, Live')
  BY <1>1, <1>2, PassedMore, LiveFacts
<1>. QED  BY <1>1, <1>2, <1>3, AtomicCall

LEMMA AtomicInvoke ==
  ASSUME Assumptions, Lookahead = 0, ReceiveInv, ReceiveInv', OrderInv, AtomicInv,
         NEW all \in BOOLEAN, OSCInvokeMessagesThatAreReady(all)
  PROVE  AtomicInv'
<1>1. /\ call = None /\ parse = None /\ parse' = None /\ UNCHANGED <<q, log, clock>>
      /\ call' = Invoke(q, clock + Lookahead, all) /\ lastTimeTag' = clock + Lookahead
  BY DEF OSCInvokeMessagesThatAreReady, AtClient
<1>2. clock \in Nat /\ clock + Lookahead = clock
  BY AtomicFacts
<1>3. call' = Invoke(q', clock, all) /\ clock <= clock' /\ lastTimeTag' <= clock'
  BY <1>1, <1>2
<1>4. Live' = Live
  <2>1. call'.qd = None \/ call' = None
    BY <1>3 DEF Invoke
  <2>. QED  BY <1>1, <2>1, LiveFacts, NextLive
<1>5. Passed(log, Live')
  BY <1>1, <1>4 DEF AtomicInv, SinceServed
<1>. QED  BY <1>1, <1>2, <1>3, <1>5, AtomicCall

(* When the loop ends, nothing is left for the time that was served.       *)
LEMMA AtomicLoopDone ==
  ASSUME Assumptions, ReceiveInv, ReceiveInv', OrderInv, AtomicInv, LoopDone
  PROVE  AtomicInv'
<1>1. /\ call # None /\ call.qd = None /\ parse = None /\ parse' = None /\ UNCHANGED <<q, log, clock>>
      /\ OSCQueueEarliestTimeTag(q) # call.tag
      /\ call' = IF call.all THEN Invoke(q, call.now, TRUE) ELSE None
      /\ lastTimeTag' = IF call.all THEN call.now ELSE lastTimeTag
  BY DEF LoopDone, InLoop, MoreOfThisTag
<1>2. /\ lastTimeTag <= clock /\ call.now <= clock /\ call.tag <= Biggest
      /\ \A x \in Live : call.tag <= Due(x)
      /\ Since(log, Live, call.tag)
  BY <1>1 DEF AtomicInv, Serving, SinceServed
<1>3. /\ call.now \in Nat /\ call.tag \in Nat /\ q.list \in Seq(QueuedData) /\ Live = Queued(q.list)
      /\ \A x \in Live : Due(x) \in Nat
  BY <1>1, AtomicFacts, LiveFacts, DueType DEF Loose
<1>4. \A x \in Live : Due(x) # call.tag
  <2>. DEFINE e == OSCQueueEarliestTimeTag(q)
  <2>1. e \in Nat /\ \A x \in Live : e <= Due(x)
    BY <1>3, EarliestDue
  <2>2. q.list # <<>> => call.tag <= e
    <3>1. ASSUME q.list # <<>> PROVE Earliest(q) \in Live
      BY <1>3, <3>1, SmallestIndexInDomain DEF Earliest, Queued
    <3>2. q.list # <<>> => Due(Earliest(q)) = e
      BY <1>3, EarliestDue
    <3>. QED  BY <1>2, <3>1, <3>2
  <2>3. q.list = <<>> => Live = {}
    BY <1>3 DEF Queued
  <2>. HIDE DEF e
  <2>4. e # call.tag
    BY <1>1 DEF e
  <2>. QED  BY <1>3, <2>1, <2>2, <2>3, <2>4
<1>5. Passed(log, Live)
  BY <1>2, <1>4 DEF Since, Passed
<1>6. Live' = Live
  <2>1. call' = None \/ call'.qd = None
    BY <1>1 DEF Invoke
  <2>. QED  BY <1>1, <1>3, <2>1, NextLive DEF Loose
<1>7. lastTimeTag' <= clock'
  BY <1>1, <1>2
<1>. QED  BY <1>1, <1>2, <1>3, <1>5, <1>6, <1>7, AtomicCall

(* A message takes effect.                                                 *)
LEMMA SinceLogged ==
  ASSUME NEW lg \in Seq(Entry), NEW live \in SUBSET QueuedData, NEW more \in SUBSET QueuedData,
         NEW tag \in Nat, NEW p \in Seq(Nat), Since(lg, live, tag), \A x \in more : tag <= Due(x),
         \A x \in more : \/ \E y \in live : x.path[1] = y.path[1] /\ Due(x) = Due(y)
                         \/ \A k \in DOMAIN lg : x.path[1] # lg[k].path[1]
  PROVE  Since(Append(lg, [path |-> p, tag |-> tag]), more, tag)
<1>. DEFINE new == [path |-> p, tag |-> tag]
            lh == Append(lg, new)
<1>1. /\ Len(lg) \in Nat /\ DOMAIN lg = 1 .. Len(lg) /\ Len(lh) = Len(lg) + 1
      /\ DOMAIN lh = 1 .. Len(lg) + 1 /\ lh[Len(lg) + 1].tag = tag
      /\ \A k \in 1 .. Len(lg) : lh[k] = lg[k]
  BY DEF Entry
<1>. HIDE DEF lh, new
<1>2. SUFFICES ASSUME NEW k \in DOMAIN lh, NEW x \in more, x.path[1] = lh[k].path[1]
               PROVE  lh[k].tag < Due(x) \/ (Due(x) = tag /\ \A j \in k .. Len(lh) : lh[j].tag = tag)
  BY DEF Since, lh, new
<1>3. Due(x) \in Nat /\ tag <= Due(x)
  BY DueType
<1>4. CASE k = Len(lg) + 1
  BY <1>1, <1>3, <1>4
<1>5. CASE k \in 1 .. Len(lg)
  <2>1. PICK y \in live : x.path[1] = y.path[1] /\ Due(x) = Due(y)
    BY <1>1, <1>2, <1>5
  <2>2. lg[k].tag < Due(x) \/ (Due(x) = tag /\ \A j \in k .. Len(lg) : lg[j].tag = tag)
    BY <1>1, <1>2, <1>5, <2>1, ZenonT(40) DEF Since
  <2>3. CASE lg[k].tag < Due(x)
    BY <1>1, <1>5, <2>3
  <2>4. CASE Due(x) = tag /\ \A j \in k .. Len(lg) : lg[j].tag = tag
    <3>1. ASSUME NEW j \in k .. Len(lh) PROVE lh[j].tag = tag
      <4>1. j \in k .. Len(lg) \/ j = Len(lg) + 1
        BY <1>1, <1>5
      <4>2. j \in k .. Len(lg) => j \in 1 .. Len(lg)
        BY <1>1, <1>5
      <4>. QED  BY <1>1, <2>4, <4>1, <4>2
    <3>. QED  BY <2>4, <3>1
  <2>. QED  BY <2>2, <2>3, <2>4
<1>. QED  BY <1>1, <1>4, <1>5

LEMMA AtomicLogged ==
  ASSUME NEW x, x.path[1] = call.qd.path[1], AtomicInv, log \in Seq(Entry), call # None, x \in Live,
         Due(x) = call.tag, NEW p, p[1] = x.path[1],
         log' = Append(log, [path |-> p, tag |-> call.tag])
  PROVE  Atomic'
<1>1. /\ Len(log) \in Nat /\ DOMAIN log = 1 .. Len(log) /\ DOMAIN log' = 1 .. Len(log) + 1
      /\ log'[Len(log) + 1].path = p /\ log'[Len(log) + 1].tag = call.tag
      /\ \A k \in 1 .. Len(log) : log'[k] = log[k]
  OBVIOUS
<1>2. SUFFICES ASSUME NEW i \in DOMAIN log', NEW j \in DOMAIN log', NEW k \in DOMAIN log', i < j, j < k,
                      log'[i].path[1] = log'[k].path[1], log'[i].tag = log'[k].tag
               PROVE  log'[j].tag = log'[i].tag
  BY DEF Atomic
<1>3. i \in 1 .. Len(log) /\ j \in 1 .. Len(log) /\ j \in i .. Len(log)
  BY <1>1, <1>2
<1>4. CASE k \in 1 .. Len(log)
  BY <1>1, <1>2, <1>3, <1>4 DEF AtomicInv, Atomic
<1>5. CASE k = Len(log) + 1
  <2>1. log[i].path[1] = x.path[1] /\ log[i].tag = call.tag
    BY <1>1, <1>2, <1>3, <1>5
  <2>2. Since(log, Live, call.tag)
    BY DEF AtomicInv, SinceServed
  <2>3. log[i].tag < call.tag \/ \A m \in i .. Len(log) : log[m].tag = call.tag
    BY <1>1, <1>3, <2>1, <2>2 DEF Since
  <2>4. log[i].tag \in Nat
    <3>1. log[i] \in Entry
      BY <1>1, <1>3
    <3>. QED  BY <3>1 DEF Entry
  <2>5. ~(log[i].tag < call.tag)
    BY <2>1, <2>4
  <2>. QED  BY <1>1, <1>3, <2>1, <2>3, <2>5
<1>. QED  BY <1>1, <1>4, <1>5

LEMMA AtomicCallCallback ==
  ASSUME Assumptions, ReceiveInv, ReceiveInv', OrderInv, AtomicInv, CallCallback
  PROVE  AtomicInv'
<1>. DEFINE x == call.qd
            n == Len(accepted)
            tag == call.tag
<1>1. /\ call # None /\ x # None /\ call' # None /\ call'.qd # None /\ Same(x, call'.qd)
      /\ call'.tag = tag /\ call'.now = call.now /\ parse' = None /\ UNCHANGED <<lastTimeTag, clock>>
      /\ log' = Append(log, [path |-> x.path, tag |-> tag])
      /\ Live' = {call'.qd} \cup Queued(q'.list)
      /\ \/ UNCHANGED <<q, accepted>>
         \/ \E z \in QueuedData :
              /\ q'.list = Append(q.list, z) /\ z.path = <<n + 1>>
              /\ z.timetag \in Nat /\ z.timetag >= clock
  BY CallbackAdds DEF times
<1>2. /\ x \in Live /\ x \in QueuedData /\ Live = {x} \cup Queued(q.list) /\ x.path \in Seq(Nat)
      /\ Live \in SUBSET QueuedData /\ Live' \in SUBSET QueuedData /\ q.list \in Seq(QueuedData)
      /\ log \in Seq(Entry) /\ n \in Nat /\ tag \in Nat /\ call.now \in Nat /\ clock \in Nat
      /\ \A k \in DOMAIN log : log[k].path[1] \in Nat /\ log[k].path[1] <= n
  BY <1>1, InHandFacts, AtomicFacts, NextFacts, PathType
<1>3. /\ lastTimeTag <= clock /\ tag <= call.now /\ call.now <= clock /\ tag <= Biggest
      /\ \A y \in Live : tag <= Due(y)
      /\ Due(x) = tag /\ Since(log, Live, tag)
  BY <1>1 DEF AtomicInv, Serving, SinceServed
<1>4. Due(call'.qd) = tag
  BY <1>1, <1>3 DEF Same, Due
<1>5. ASSUME NEW y \in Live'
      PROVE  /\ tag <= Due(y)
             /\ \/ \E w \in Live : y.path[1] = w.path[1] /\ Due(y) = Due(w)
                \/ \A k \in DOMAIN log : y.path[1] # log[k].path[1]
  <2>1. CASE y = call'.qd
    <3>1. Due(y) = Due(x) /\ y.path[1] = x.path[1]
      BY <1>1, <1>3, <1>4, <2>1 DEF Same
    <3>. QED  BY <1>2, <1>3, <3>1
  <2>2. CASE y \in Queued(q.list)
    BY <1>2, <1>3, <2>2
  <2>3. ASSUME NEW z \in QueuedData, y = z, z.path = <<n + 1>>, z.timetag \in Nat, z.timetag >= clock
        PROVE  /\ tag <= Due(y) /\ \A k \in DOMAIN log : y.path[1] # log[k].path[1]
    <3>1. y.path[1] = n + 1 /\ tag <= z.timetag
      BY <1>2, <1>3, <2>3
    <3>2. tag <= Due(y)
      BY <1>2, <1>3, <2>3, <3>1, QueueAssumption DEF Due, Min2
    <3>. QED  BY <1>2, <3>1, <3>2
  <2>4. CASE UNCHANGED <<q, accepted>>
    BY <1>1, <2>1, <2>2, <2>4
  <2>5. ASSUME NEW z \in QueuedData, q'.list = Append(q.list, z), z.path = <<n + 1>>,
               z.timetag \in Nat, z.timetag >= clock
        PROVE  y = call'.qd \/ y \in Queued(q.list) \/ y = z
    <3>1. \A i \in DOMAIN q'.list : (i \in DOMAIN q.list /\ q'.list[i] = q.list[i]) \/ q'.list[i] = z
      BY <1>2, <2>5
    <3>. QED  BY <1>1, <3>1 DEF Queued
  <2>. QED  BY <1>1, <2>1, <2>2, <2>3, <2>4, <2>5
<1>6. Serving'
  BY <1>1, <1>3, <1>4, <1>5 DEF Serving, Due
<1>. HIDE DEF x, tag, n
<1>7. Since(log', Live', tag)
  BY <1>1, <1>2, <1>3, <1>5, SinceLogged
<1>8. SinceServed'
  BY <1>1, <1>7 DEF SinceServed, Since, Due
<1>9. Atomic'
  BY <1>1, <1>2, <1>3, AtomicLogged DEF x, tag
<1>. QED  BY <1>6, <1>8, <1>9 DEF AtomicInv

LEMMA AtomicInit == ASSUME Assumptions, Init PROVE AtomicInv
<1>1. log = <<>> /\ call = None /\ lastTimeTag = clock /\ clock \in Nat
  BY DEF Init, OSCInitReceive, Assumptions, ReceiveAssumption
<1>. QED  BY <1>1 DEF AtomicInv, Serving, SinceServed, Passed, Atomic

LEMMA AtomicNext ==
  ASSUME Assumptions, Lookahead = 0, ReceiveInv, ReceiveInv', OrderInv, OrderInv', AtomicInv, [Next]_vars
  PROVE  AtomicInv'
<1>1. CASE OSCAllocPacketBuffer \/ OSCFreePacket \/ Tick \/ UNCHANGED vars
  <2>1. UNCHANGED <<q, call, parse, log, lastTimeTag>> /\ clock' >= clock
    BY <1>1, AtomicFacts DEF OSCAllocPacketBuffer, OSCFreePacket, Tick, vars, times
  <2>. QED  BY <2>1, AtomicStill
<1>2. CASE \E el \in Packets : OSCAcceptPacket(el)
  BY <1>2, AtomicAccept
<1>3. CASE OSCBeProductiveWhileWaiting
  BY <1>3, AtomicIdleStep
<1>4. CASE \E all \in BOOLEAN : OSCInvokeMessagesThatAreReady(all)
  BY <1>4, AtomicInvoke
<1>5. CASE ClientSchedules(1)
  BY <1>5, AtomicClientSchedules
<1>6. CASE ParseElement
  BY <1>6, AtomicParseElement
<1>7. CASE ParseDone
  BY <1>7, AtomicParseDone
<1>8. CASE TakeBundle
  BY <1>8, AtomicTakeBundle
<1>9. CASE TakeMessage
  BY <1>9, AtomicTakeMessage
<1>10. CASE CallCallback
  BY <1>10, AtomicCallCallback
<1>11. CASE MessageDone
  BY <1>11, AtomicMessageDone
<1>12. CASE LoopDone
  BY <1>12, AtomicLoopDone
<1>. QED
  BY <1>1, <1>2, <1>3, <1>4, <1>5, <1>6, <1>7, <1>8, <1>9, <1>10, <1>11, <1>12 DEF Next, InCall

(* "OSC guarantees that messages with the same tag take effect             *)
(* atomically" (OSC-receive.h): so it is as long as the client invokes     *)
(* nothing before its time (OSCInvokeMessagesThatAreReady).                *)
THEOREM EffectsAtomic == ASSUME Assumptions, Lookahead = 0 PROVE Spec => []Atomic
<1>1. Init => ReceiveInv /\ OrderInv /\ AtomicInv
  BY InvInit, OrderInit, AtomicInit
<1>2. ReceiveInv /\ OrderInv /\ AtomicInv /\ [Next]_vars => ReceiveInv' /\ OrderInv' /\ AtomicInv'
  <2>. SUFFICES ASSUME ReceiveInv, OrderInv, AtomicInv, [Next]_vars
                PROVE  ReceiveInv' /\ OrderInv' /\ AtomicInv'
    OBVIOUS
  <2>1. ReceiveInv'
    BY InvNext
  <2>2. OrderInv'
    BY <2>1, OrderNext
  <2>. QED  BY <2>1, <2>2, AtomicNext
<1>3. AtomicInv => Atomic
  BY DEF AtomicInv
<1>. QED  BY <1>1, <1>2, <1>3, PTL DEF Spec

(* Order and atomicity together, as the runs check them.                   *)
THEOREM EffectsInOrderTheorem ==
  ASSUME Assumptions, Lookahead = 0 PROVE Spec => []EffectsInOrder
<1>1. SiblingsInOrder /\ Atomic => EffectsInOrder
  BY DEF EffectsInOrder
<1>. QED  BY <1>1, OrderKept, EffectsAtomic, PTL

-----------------------------------------------------------------------------
(* The elements at the places of a packet.                                 *)

(* What holds at 0 and after each number where it holds, holds up to n.    *)
LEMMA Upwards ==
  ASSUME NEW n \in Nat, NEW T, 0 \in T, \A k \in 1 .. n : k - 1 \in T => k \in T
  PROVE  \A k \in 0 .. n : k \in T
<1>. DEFINE Missing == {k \in 0 .. n : k \notin T}
<1>. SUFFICES ASSUME Missing # {} PROVE FALSE
  OBVIOUS
<1>1. Missing \in SUBSET Nat
  OBVIOUS
<1>. HIDE DEF Missing
<1>2. PICK k \in Missing : \A j \in Missing : k <= j
  BY <1>1, LeastNatural
<1>3. k \in 0 .. n /\ k \notin T
  BY <1>2 DEF Missing
<1>4. k # 0 /\ k - 1 \in 0 .. n
  BY <1>3
<1>5. k - 1 \in T
  BY <1>2, <1>3, <1>4 DEF Missing
<1>. QED  BY <1>3, <1>4, <1>5

\* The elements on the way along a path.
Way(el, path) ==
    CHOOSE along : along = [k \in 1 .. Len(path) |->
        IF k = 1 THEN el ELSE PartOf(along[k - 1], path[k])]

IsWay(f, el, path, n) ==
    /\ DOMAIN f = 1 .. n
    /\ f[1] = el /\ \A k \in 2 .. n : f[k] = PartOf(f[k - 1], path[k])

LEMMA WayBegins ==
  ASSUME NEW el, NEW path, NEW n \in Nat \ {0}
  PROVE  \E f : IsWay(f, el, path, n)
<1>. DEFINE T == {m \in 0 .. n - 1 : \E f : IsWay(f, el, path, m + 1)}
<1>1. 0 \in T
  <2>. DEFINE f == [k \in 1 .. 1 |-> el]
  <2>1. IsWay(f, el, path, 0 + 1)
    BY DEF IsWay
  <2>. QED  BY <2>1
<1>2. ASSUME NEW m \in 1 .. n - 1, m - 1 \in T PROVE m \in T
  <2>1. PICK f : IsWay(f, el, path, m)
    BY <1>2
  <2>. DEFINE g == [k \in 1 .. m + 1 |-> IF k <= m THEN f[k] ELSE PartOf(f[m], path[m + 1])]
  <2>2. DOMAIN g = 1 .. m + 1 /\ g[1] = el /\ \A k \in 1 .. m : g[k] = f[k]
    BY <2>1 DEF IsWay
  <2>3. g[m + 1] = PartOf(f[m], path[m + 1])
    OBVIOUS
  <2>. HIDE DEF g
  <2>4. ASSUME NEW k \in 2 .. m + 1 PROVE g[k] = PartOf(g[k - 1], path[k])
    <3>1. CASE k = m + 1
      BY <2>2, <2>3, <3>1
    <3>2. CASE k # m + 1
      <4>1. k \in 2 .. m /\ k - 1 \in 1 .. m /\ k \in 1 .. m
        BY <3>2
      <4>. QED  BY <2>1, <2>2, <4>1 DEF IsWay
    <3>. QED  BY <3>1, <3>2
  <2>5. IsWay(g, el, path, m + 1)
    BY <2>2, <2>4 DEF IsWay
  <2>. QED  BY <2>5
<1>. HIDE DEF T
<1>3. n - 1 \in Nat /\ n - 1 \in 0 .. n - 1
  OBVIOUS
<1>4. \A m \in 0 .. n - 1 : m \in T
  BY <1>1, <1>2, <1>3, Upwards
<1>5. n - 1 \in T
  BY <1>3, <1>4
<1>. QED  BY <1>5 DEF T

LEMMA WayIs ==
  ASSUME NEW el, NEW path \in Seq(Nat), path # <<>>
  PROVE  IsWay(Way(el, path), el, path, Len(path)) /\ ElementIn(el, path) = Way(el, path)[Len(path)]
<1>. DEFINE Is(f) == f = [k \in 1 .. Len(path) |-> IF k = 1 THEN el ELSE PartOf(f[k - 1], path[k])]
<1>1. Len(path) \in Nat \ {0}
  OBVIOUS
<1>2. PICK h : IsWay(h, el, path, Len(path))
  BY <1>1, WayBegins
<1>. DEFINE g == [k \in 1 .. Len(path) |-> h[k]]
<1>3. Is(g)
  BY <1>1, <1>2 DEF IsWay
<1>. HIDE DEF Is, g
<1>4. Is(Way(el, path))
  BY <1>3 DEF Way, Is
<1>. DEFINE w == Way(el, path)
<1>. HIDE DEF w
<1>5. w = [k \in 1 .. Len(path) |-> IF k = 1 THEN el ELSE PartOf(w[k - 1], path[k])]
  BY <1>4 DEF Is, w
<1>6. IsWay(w, el, path, Len(path))
  BY <1>1, <1>5 DEF IsWay
<1>7. ElementIn(el, path) = Way(el, path)[Len(path)]
  BY DEF ElementIn, Way
<1>. QED  BY <1>6, <1>7 DEF w

LEMMA WayUnique ==
  ASSUME NEW el, NEW p, NEW r, NEW n \in Nat \ {0}, NEW m \in Nat, n <= m,
         \A k \in 1 .. n : p[k] = r[k],
         NEW f, IsWay(f, el, p, n), NEW g, IsWay(g, el, r, m)
  PROVE  f[n] = g[n]
<1>. DEFINE T == {k \in 0 .. n - 1 : f[k + 1] = g[k + 1]}
<1>1. 0 \in T
  BY DEF IsWay
<1>2. ASSUME NEW k \in 1 .. n - 1, k - 1 \in T PROVE k \in T
  <2>1. f[k] = g[k] /\ k + 1 \in 2 .. n /\ k + 1 \in 2 .. m /\ p[k + 1] = r[k + 1] /\ (k + 1) - 1 = k
    BY <1>2
  <2>2. f[k + 1] = PartOf(f[k], p[k + 1]) /\ g[k + 1] = PartOf(g[k], r[k + 1])
    BY <2>1 DEF IsWay
  <2>. QED  BY <2>1, <2>2
<1>. HIDE DEF T
<1>3. n - 1 \in Nat /\ n - 1 \in 0 .. n - 1
  OBVIOUS
<1>4. n - 1 \in T
  <2>1. \A k \in 0 .. n - 1 : k \in T
    BY <1>1, <1>2, <1>3, Upwards
  <2>. QED  BY <1>3, <2>1
<1>. QED  BY <1>4 DEF T

(* A path leads on from where the path before its last number leads to.    *)
LEMMA ElementFirst ==
  ASSUME NEW el, NEW n \in Nat PROVE ElementIn(el, <<n>>) = el
<1>. DEFINE path == <<n>>
<1>1. path \in Seq(Nat) /\ path # <<>> /\ Len(path) = 1
  OBVIOUS
<1>. HIDE DEF path
<1>2. ElementIn(el, path) = el
  BY <1>1, WayIs DEF IsWay
<1>. QED  BY <1>2 DEF path

LEMMA ElementNext ==
  ASSUME NEW el, NEW p \in Seq(Nat), p # <<>>, NEW k \in Nat
  PROVE  ElementIn(el, Append(p, k)) = PartOf(ElementIn(el, p), k)
<1>. DEFINE r == Append(p, k)
            n == Len(p)
<1>1. /\ r \in Seq(Nat) /\ r # <<>> /\ Len(r) = n + 1 /\ n \in Nat \ {0} /\ r[n + 1] = k
      /\ \A i \in 1 .. n : p[i] = r[i]
  OBVIOUS
<1>. HIDE DEF r, n
<1>2. /\ IsWay(Way(el, p), el, p, n) /\ ElementIn(el, p) = Way(el, p)[n]
      /\ IsWay(Way(el, r), el, r, n + 1) /\ ElementIn(el, r) = Way(el, r)[n + 1]
  BY <1>1, WayIs DEF n
<1>3. Way(el, p)[n] = Way(el, r)[n]
  <2>1. n <= n + 1 /\ n + 1 \in Nat
    BY <1>1
  <2>. QED  BY <1>1, <1>2, <2>1, WayUnique
<1>4. Way(el, r)[n + 1] = PartOf(Way(el, r)[n], r[n + 1])
  <2>1. n + 1 \in 2 .. n + 1 /\ (n + 1) - 1 = n
    BY <1>1
  <2>. QED  BY <1>2, <2>1 DEF IsWay
<1>. QED  BY <1>1, <1>2, <1>3, <1>4 DEF r

-----------------------------------------------------------------------------
(* Nothing takes effect more often than asked.  What waits is an element   *)
(* of a packet at the place its path says, and a message has no more       *)
(* callbacks to come than its methods that were not called yet.            *)
Known(x) ==
    /\ x.path[1] \in DOMAIN accepted /\ ElementAt(x.path) = x.el
    /\ x.el.kind = "bundle" => x.timetag = x.el.timetag

Affords(x) == IsMessage(x) => Calls(x.path) + Owed(x) <= x.el.methods

\* ParseBundle has come to no wrong size count.
SoundSoFar ==
    parse # None => \A k \in 1 .. parse.next - 1 : parse.qd.el.elems[k].kind # "bad"

LogKnown == \A k \in DOMAIN log : log[k].path[1] \in DOMAIN accepted

OnceInv ==
    /\ \A x \in Live : Known(x) /\ Affords(x)
    /\ SoundSoFar /\ LogKnown /\ EffectsAtMostOnce

LEMMA CallsAre ==
  ASSUME NEW lg \in Seq(Entry), NEW p
  PROVE  /\ CallsIn(lg, p) \in Nat
         /\ (\A k \in DOMAIN lg : lg[k].path # p) => CallsIn(lg, p) = 0
<1>. DEFINE C == {i \in DOMAIN lg : lg[i].path = p}
<1>1. DOMAIN lg = 1 .. Len(lg) /\ Len(lg) \in Nat /\ C \subseteq DOMAIN lg
  OBVIOUS
<1>2. IsFiniteSet(C)
  <2>. HIDE DEF C
  <2>1. IsFiniteSet(1 .. Len(lg)) /\ C \subseteq 1 .. Len(lg)
    BY <1>1, FS_Interval
  <2>. QED  BY <2>1, FS_Subset
<1>3. Cardinality(C) \in Nat
  BY <1>2, FS_CardinalityType
<1>4. (\A k \in DOMAIN lg : lg[k].path # p) => C = {}
  OBVIOUS
<1>. HIDE DEF C
<1>5. CallsIn(lg, p) = Cardinality(C)
  BY DEF CallsIn, C
<1>. QED  BY <1>3, <1>4, <1>5, FS_EmptySet

LEMMA CallsMore ==
  ASSUME NEW lg \in Seq(Entry), NEW e \in Entry, NEW p
  PROVE  CallsIn(Append(lg, e), p) = CallsIn(lg, p) + (IF e.path = p THEN 1 ELSE 0)
<1>. DEFINE more == Append(lg, e)
            n == Len(lg) + 1
            C == {i \in DOMAIN lg : lg[i].path = p}
            D == {i \in DOMAIN more : more[i].path = p}
<1>1. /\ DOMAIN lg = 1 .. Len(lg) /\ Len(lg) \in Nat /\ DOMAIN more = 1 .. n
      /\ more[n] = e /\ \A i \in DOMAIN lg : more[i] = lg[i]
  OBVIOUS
<1>. HIDE DEF more
<1>2. C \subseteq DOMAIN lg
  OBVIOUS
<1>. HIDE DEF C
<1>3. IsFiniteSet(C)
  <2>1. IsFiniteSet(1 .. Len(lg)) /\ C \subseteq 1 .. Len(lg)
    BY <1>1, <1>2, FS_Interval
  <2>. QED  BY <2>1, FS_Subset
<1>4. n \notin C
  BY <1>1, <1>2 DEF n
<1>5. Cardinality(C) \in Nat
  BY <1>3, FS_CardinalityType
<1>6. D = IF e.path = p THEN C \cup {n} ELSE C
  <2>1. \A i : i \in DOMAIN more <=> i \in DOMAIN lg \/ i = n
    BY <1>1
  <2>2. \A i : i \in D <=> (i \in DOMAIN lg /\ lg[i].path = p) \/ (i = n /\ e.path = p)
    BY <1>1, <2>1 DEF C
  <2>. QED  BY <2>2 DEF C
<1>. HIDE DEF C, D, n
<1>7. Cardinality(C \cup {n}) = Cardinality(C) + 1
  BY <1>3, <1>4, FS_AddElement
<1>8. CallsIn(lg, p) = Cardinality(C) /\ CallsIn(more, p) = Cardinality(D)
  BY DEF CallsIn, C, D
<1>9. CallsIn(more, p) = CallsIn(lg, p) + (IF e.path = p THEN 1 ELSE 0)
  BY <1>5, <1>6, <1>7, <1>8
<1>. QED  BY <1>9 DEF more

LEMMA OwedIs ==
  ASSUME Assumptions, NEW x \in QueuedData, IsMessage(x)
  PROVE  Owed(x) \in Int /\ x.el.methods \in Nat
<1>1. x.el \in Elements /\ x.callbacks \in Int
  BY DEF QueuedData
<1>2. x.el.methods \in Nat
  BY <1>1, ElementsAre DEF WellFormed, Assumptions, IsMessage
<1>. QED  BY <1>1, <1>2 DEF Owed

LEMMA ElementKept ==
  ASSUME ReceiveInv, Grows, NEW p, p[1] \in DOMAIN accepted
  PROVE  /\ p[1] \in DOMAIN accepted'
         /\ ElementAt(p)' = ElementAt(p) /\ Asked(p)' = Asked(p)
<1>1. accepted \in Seq([el : Elements, timetag : Nat])
  BY DEF ReceiveInv, Types
<1>2. p[1] \in DOMAIN accepted' /\ accepted'[p[1]] = accepted[p[1]]
  BY <1>1 DEF Grows
<1>3. ElementAt(p)' = ElementAt(p)
  BY <1>2 DEF ElementAt
<1>. QED  BY <1>2, <1>3 DEF Asked

\* It is new to the log.
Fresh(y) == y.callbacks = NotDispatched /\ \A k \in DOMAIN log : log[k].path # y.path

(* A step in which no callback is called.                                  *)
LEMMA OnceQuiet ==
  ASSUME Assumptions, ReceiveInv, ReceiveInv', OrderInv, OnceInv, log' = log, Grows, SoundSoFar',
         \A y \in Live' : (\E x \in Live : Same(x, y)) \/ (Known(y)' /\ Fresh(y))
  PROVE  OnceInv'
<1>1. log \in Seq(Entry) /\ Live \in SUBSET QueuedData /\ Live' \in SUBSET QueuedData
  BY AtomicFacts, NextFacts
<1>2. ASSUME NEW y \in Live' PROVE Known(y)' /\ Affords(y)'
  <2>1. ASSUME NEW x \in Live, Same(x, y) PROVE Known(y)' /\ Affords(y)'
    <3>1. x.path = y.path /\ x.el = y.el /\ x.timetag = y.timetag
      BY <2>1 DEF Same
    <3>2. Known(x) /\ Affords(x)
      BY DEF OnceInv
    <3>3. Known(y)'
      <4>1. y.path[1] \in DOMAIN accepted' /\ ElementAt(y.path)' = y.el
        BY <3>1, <3>2, ElementKept DEF Known
      <4>. QED  BY <3>1, <3>2, <4>1 DEF Known
    <3>4. ASSUME IsMessage(y) PROVE Calls(y.path)' + Owed(y) <= y.el.methods
      <4>1. IsMessage(x) /\ (Owed(y) = Owed(x) \/ Owed(y) < Owed(x))
        BY <2>1, <3>1, <3>4 DEF Same, IsMessage
      <4>2. Owed(x) \in Int /\ Owed(y) \in Int /\ y.el.methods \in Nat
        BY <1>1, <3>4, <4>1, OwedIs
      <4>3. Calls(y.path)' = Calls(x.path) /\ Calls(x.path) \in Nat
        BY <1>1, <3>1, CallsAre DEF Calls
      <4>4. Calls(x.path) + Owed(x) <= y.el.methods
        BY <3>1, <3>2, <4>1 DEF Affords
      <4>. QED  BY <4>1, <4>2, <4>3, <4>4
    <3>5. Affords(y)'
      BY <3>4 DEF Affords
    <3>. QED  BY <3>3, <3>5
  <2>2. ASSUME Known(y)', Fresh(y) PROVE Affords(y)'
    <3>1. Calls(y.path)' = 0
      BY <1>1, <2>2, CallsAre DEF Calls, Fresh
    <3>2. ASSUME IsMessage(y) PROVE Calls(y.path)' + Owed(y) <= y.el.methods
      BY <1>1, <2>2, <3>1, <3>2, OwedIs DEF Fresh, Owed
    <3>. QED  BY <3>2 DEF Affords
  <2>. QED  BY <2>1, <2>2
<1>3. ASSUME NEW k \in DOMAIN log
      PROVE  log[k].path[1] \in DOMAIN accepted' /\ Calls(log[k].path)' <= Asked(log[k].path)'
  <2>1. log[k].path[1] \in DOMAIN accepted /\ Calls(log[k].path) <= Asked(log[k].path)
    BY DEF OnceInv, LogKnown, EffectsAtMostOnce
  <2>2. Calls(log[k].path)' = Calls(log[k].path)
    BY DEF Calls
  <2>. QED  BY <2>1, <2>2, ElementKept
<1>4. LogKnown' /\ EffectsAtMostOnce'
  <2>1. LogKnown'
    BY <1>3 DEF LogKnown
  <2>2. EffectsAtMostOnce'
    BY <1>3 DEF EffectsAtMostOnce
  <2>. QED  BY <2>1, <2>2
<1>. QED  BY <1>2, <1>4 DEF OnceInv

LEMMA OnceFewer ==
  ASSUME Assumptions, ReceiveInv, ReceiveInv', OrderInv, OnceInv, Fewer, UNCHANGED <<accepted, log>>,
         SoundSoFar'
  PROVE  OnceInv'
<1>1. Grows /\ \A y \in Live' : \E x \in Live : Same(x, y)
  BY DEF Grows, Fewer, Covered
<1>. QED  BY <1>1, OnceQuiet

LEMMA OnceStill ==
  ASSUME OnceInv, UNCHANGED <<q, call, parse, accepted, log>>
  PROVE  OnceInv'
<1>1. /\ Live' = Live /\ UNCHANGED <<parse, accepted, log>>
      /\ \A p : /\ ElementAt(p)' = ElementAt(p) /\ Asked(p)' = Asked(p)
                /\ Calls(p)' = Calls(p)
  BY DEF Live, InHand, ElementAt, Asked, Calls
<1>2. \A x : (Known(x)' <=> Known(x)) /\ (Affords(x)' <=> Affords(x))
  BY <1>1 DEF Known, Affords
<1>3. SoundSoFar' /\ LogKnown' /\ EffectsAtMostOnce'
  BY <1>1 DEF OnceInv, SoundSoFar, LogKnown, EffectsAtMostOnce
<1>. QED  BY <1>1, <1>2, <1>3 DEF OnceInv

(* The element of a packet that comes in.                                  *)
LEMMA NewPacket ==
  ASSUME Assumptions, ReceiveInv, OrderInv, NEW x \in QueuedData,
         x.path = <<Len(accepted) + 1>>, OfPacket(x)
  PROVE  Known(x)' /\ Fresh(x) /\ Grows
<1>. DEFINE n == Len(accepted) + 1
<1>1. /\ accepted \in Seq([el : Elements, timetag : Nat]) /\ Len(accepted) \in Nat
      /\ \A k \in DOMAIN log : log[k].path[1] \in Nat /\ log[k].path[1] <= Len(accepted)
  BY AtomicFacts DEF ReceiveInv, Types
<1>2. PICK tag \in Nat :
        /\ accepted' = Append(accepted, [el |-> x.el, timetag |-> tag])
        /\ x.timetag = TimeOf(x.el, tag) /\ x.timetag >= tag /\ x.callbacks = NotDispatched
  BY DEF OfPacket
<1>3. n \in DOMAIN accepted' /\ accepted'[n].el = x.el /\ accepted'[n].timetag = tag
  BY <1>1, <1>2
<1>4. x.path = <<n>> /\ x.path[1] = n /\ n \in Nat
  BY <1>1
<1>. HIDE DEF n
<1>5. ElementAt(x.path)' = ElementIn(Admitted(x.el, tag), <<n>>)
  BY <1>3, <1>4 DEF ElementAt
<1>6. Admitted(x.el, tag) = x.el
  BY <1>2 DEF Admitted
<1>7. ElementAt(x.path)' = x.el
  BY <1>4, <1>5, <1>6, ElementFirst
<1>8. x.el.kind = "bundle" => x.timetag = x.el.timetag
  BY <1>2 DEF TimeOf
<1>9. Known(x)'
  BY <1>3, <1>4, <1>7, <1>8 DEF Known
<1>10. \A k \in DOMAIN log : log[k].path # x.path
  BY <1>1, <1>4 DEF n
<1>. QED  BY <1>2, <1>9, <1>10 DEF Fresh, Grows

LEMMA OnceCall ==
  ASSUME Assumptions, ReceiveInv, ReceiveInv', OrderInv, OnceInv, UNCHANGED <<parse, log>>, q'.list = q.list,
         Grows, parse = None, call = None \/ call.qd = None, call' = None \/ call'.qd = None
  PROVE  OnceInv'
<1>1. Live' = Live
  BY LiveFacts, NextLive
<1>2. \A y \in Live' : Same(y, y)
  BY DEF Same
<1>. QED  BY <1>1, <1>2, OnceQuiet DEF SoundSoFar

LEMMA OncePacket ==
  ASSUME Assumptions, ReceiveInv, ReceiveInv', OrderInv, OnceInv, UNCHANGED <<parse, log>>, parse = None,
         NEW x, Adds(x), x.path = <<Len(accepted) + 1>>, OfPacket(x)
  PROVE  OnceInv'
<1>1. x \in QueuedData /\ Live' = Live \cup {x}
  BY DEF Adds
<1>2. Known(x)' /\ Fresh(x) /\ Grows
  BY <1>1, NewPacket
<1>3. \A y \in Live : Same(y, y)
  BY DEF Same
<1>4. \A y \in Live' : (\E z \in Live : Same(z, y)) \/ (Known(y)' /\ Fresh(y))
  BY <1>1, <1>2, <1>3
<1>. QED  BY <1>2, <1>4, OnceQuiet DEF SoundSoFar

LEMMA OnceAccept ==
  ASSUME Assumptions, ReceiveInv, ReceiveInv', OrderInv, OnceInv, NEW el \in Packets, OSCAcceptPacket(el)
  PROVE  OnceInv'
<1>1. /\ call = None /\ parse = None /\ (call' = None \/ call'.qd = None) /\ UNCHANGED <<parse, log>>
      /\ \/ q'.list = q.list /\ Live' = Live
         \/ \E x : Adds(x) /\ x.path = <<Len(accepted) + 1>> /\ OfPacket(x)
  BY AcceptAdds
<1>2. Grows
  BY DEF OSCAcceptPacket, Grows
<1>3. CASE q'.list = q.list
  BY <1>1, <1>2, <1>3, OnceCall
<1>4. ASSUME NEW x, Adds(x), x.path = <<Len(accepted) + 1>>, OfPacket(x) PROVE OnceInv'
  BY <1>1, <1>4, OncePacket
<1>. QED  BY <1>1, <1>3, <1>4

LEMMA OnceClientSchedules ==
  ASSUME Assumptions, ReceiveInv, ReceiveInv', OrderInv, OnceInv, ClientSchedules(1)
  PROVE  OnceInv'
<1>1. /\ call = None /\ parse = None /\ UNCHANGED <<call, parse, log>>
      /\ \/ q'.list = q.list /\ accepted' = accepted
         \/ \E x : Adds(x) /\ x.path = <<Len(accepted) + 1>> /\ OfPacket(x)
  BY ClientSchedulesAdds
<1>2. CASE q'.list = q.list /\ accepted' = accepted
  BY <1>1, <1>2, OnceCall DEF Grows
<1>3. ASSUME NEW x, Adds(x), x.path = <<Len(accepted) + 1>>, OfPacket(x) PROVE OnceInv'
  BY <1>1, <1>3, OncePacket
<1>. QED  BY <1>1, <1>2, <1>3

LEMMA OnceParseElement ==
  ASSUME Assumptions, ReceiveInv, ReceiveInv', OrderInv, OnceInv, ParseElement
  PROVE  OnceInv'
<1>. DEFINE t == parse.qd
            k == parse.next
<1>1. /\ parse' # None /\ parse'.qd = t /\ parse'.next = k + 1 /\ parse # None
      /\ call = None \/ call.qd = None
      /\ UNCHANGED <<call, accepted, log>>
      /\ (q'.list = q.list /\ Live' = Live) \/ \E x : Adds(x) /\ ElementOf(x, t, k)
      /\ k <= Len(t.el.elems) /\ t.el.elems[k].kind # "bad"
  BY ParseElementAdds
<1>2. /\ t \in Live /\ k \in Nat \ {0} /\ t.path \in Seq(Nat) /\ t.path # <<>>
      /\ t.el.kind = "bundle" /\ t.el.elems \in Seq(Elements)
  BY <1>1, ParseFacts, LiveFacts
<1>3. /\ log \in Seq(Entry) /\ \A j \in DOMAIN log : \A x \in Live : ~Leads(x.path, log[j].path)
  BY <1>1, OrderIdle, AtomicFacts
<1>4. \A i \in 1 .. k - 1 : t.el.elems[i].kind # "bad"
  BY <1>1 DEF OnceInv, SoundSoFar
<1>5. Known(t)
  BY <1>2 DEF OnceInv
<1>. HIDE DEF t, k
<1>6. \A i \in 1 .. k : t.el.elems[i].kind # "bad"
  BY <1>1, <1>2, <1>4
<1>7. SoundSoFar'
  <2>1. 1 .. (k + 1) - 1 = 1 .. k
    BY <1>2
  <2>. QED  BY <1>1, <1>6, <2>1 DEF SoundSoFar
<1>8. Grows
  BY <1>1 DEF Grows
<1>9. \A y \in Live : Same(y, y)
  BY DEF Same
<1>10. CASE Live' = Live
  BY <1>1, <1>7, <1>8, <1>9, <1>10, OnceQuiet
<1>11. ASSUME NEW x, Adds(x), ElementOf(x, t, k)
       PROVE  OnceInv'
  <2>1. /\ x \in QueuedData /\ x.path = Append(t.path, k) /\ Live' = Live \cup {x}
        /\ x.el = t.el.elems[k] /\ x.timetag = TimeOf(x.el, t.timetag) /\ x.timetag >= t.timetag
        /\ x.callbacks = NotDispatched
    BY <1>11 DEF Adds, ElementOf
  <2>2. x.path[1] = t.path[1] /\ Leads(t.path, x.path)
    <3>1. Parent(x.path) = t.path /\ x.path \in Seq(Nat) /\ x.path # <<>>
      BY <1>2, <2>1, ParentOfElement
    <3>2. Leads(t.path, x.path)
      BY <3>1, ParentLeads
    <3>. QED  BY <1>2, <3>1, <3>2, LeadsFirst
  <2>3. ElementAt(x.path) = PartOf(ElementAt(t.path), k)
    BY <1>2, <2>1, <2>2, ElementNext DEF ElementAt
  <2>4. PartOf(t.el, k) = x.el
    <3>1. k \in DOMAIN t.el.elems
      BY <1>1, <1>2
    <3>2. t.timetag = t.el.timetag
      BY <1>2, <1>5 DEF Known
    <3>3. Admitted(x.el, t.timetag) = x.el
      BY <2>1 DEF Admitted
    <3>. QED  BY <1>2, <1>6, <2>1, <3>1, <3>2, <3>3 DEF PartOf
  <2>5. ElementAt(x.path)' = x.el
    <3>1. ElementAt(x.path)' = ElementAt(x.path)
      BY <1>1 DEF ElementAt
    <3>. QED  BY <1>5, <2>3, <2>4, <3>1 DEF Known
  <2>6. x.el.kind = "bundle" => x.timetag = x.el.timetag
    BY <2>1 DEF TimeOf
  <2>7. Known(x)'
    BY <1>1, <1>5, <2>2, <2>5, <2>6 DEF Known
  <2>8. Fresh(x)
    BY <1>2, <1>3, <2>1, <2>2 DEF Fresh
  <2>9. \A y \in Live' : (\E z \in Live : Same(z, y)) \/ (Known(y)' /\ Fresh(y))
    BY <1>9, <2>1, <2>7, <2>8
  <2>. QED  BY <1>1, <1>7, <1>8, <2>9, OnceQuiet
<1>. QED  BY <1>1, <1>10, <1>11 DEF t, k

LEMMA OnceBegins ==
  ASSUME parse' = None \/ parse'.next = 1 PROVE SoundSoFar'
<1>1. 1 .. 1 - 1 = {}
  OBVIOUS
<1>. QED  BY <1>1 DEF SoundSoFar

LEMMA OnceMessageDone ==
  ASSUME Assumptions, ReceiveInv, ReceiveInv', OrderInv, OnceInv, MessageDone
  PROVE  OnceInv'
<1>1. /\ call # None /\ call.qd # None /\ call' = [call EXCEPT !.qd = None]
      /\ UNCHANGED <<q, parse, accepted, log>>
  BY DEF MessageDone
<1>2. parse = None /\ call \in CallTypes /\ Live = {call.qd} \cup Queued(q.list)
  BY <1>1, InHandFacts
<1>3. call'.qd = None
  BY <1>1, <1>2 DEF CallTypes
<1>4. Live' = Queued(q.list)
  BY <1>1, <1>2, <1>3, NextLive DEF Loose
<1>5. Fewer
  BY <1>1, <1>2, <1>4, ThinnedSame DEF Fewer, Covered, Same
<1>. QED  BY <1>1, <1>2, <1>5, OnceFewer, OnceBegins

LEMMA OnceInvoke ==
  ASSUME Assumptions, ReceiveInv, ReceiveInv', OrderInv, OnceInv,
         NEW all \in BOOLEAN, OSCInvokeMessagesThatAreReady(all)
  PROVE  OnceInv'
<1>1. /\ call = None /\ parse = None /\ UNCHANGED <<q, parse, log, accepted>>
      /\ call' = Invoke(q, clock + Lookahead, all)
  BY DEF OSCInvokeMessagesThatAreReady, AtClient
<1>2. call' = None \/ call'.qd = None
  BY <1>1 DEF Invoke
<1>. QED  BY <1>1, <1>2, OnceCall DEF Grows

LEMMA OnceLoopDone ==
  ASSUME Assumptions, ReceiveInv, ReceiveInv', OrderInv, OnceInv, LoopDone
  PROVE  OnceInv'
<1>1. /\ call.qd = None /\ parse = None /\ UNCHANGED <<q, parse, log, accepted>>
      /\ call' = IF call.all THEN Invoke(q, call.now, TRUE) ELSE None
  BY DEF LoopDone, InLoop
<1>2. call' = None \/ call'.qd = None
  BY <1>1 DEF Invoke
<1>. QED  BY <1>1, <1>2, OnceCall DEF Grows

(* A callback: it is logged, and the message has one less to come.         *)
LEMMA OnceLogged ==
  ASSUME Assumptions, ReceiveInv, OrderInv, OnceInv,
         NEW x \in QueuedData, NEW y \in QueuedData, NEW e \in Entry, NEW known, NEW known2,
         Live = {x} \cup known, Live' = {y} \cup known2,
         IsMessage(x), x.callbacks > 0, Same(x, y), y.callbacks = x.callbacks - 1,
         \A w \in known : w.path # x.path,
         known2 = known
         \/ \E z \in QueuedData : /\ known2 = known \cup {z}
                                  /\ z.path = <<Len(accepted) + 1>> /\ OfPacket(z),
         Grows, parse' = None, e.path = x.path, log' = Append(log, e)
  PROVE  OnceInv'
<1>3. x \in Live /\ log \in Seq(Entry) /\ known \in SUBSET QueuedData
  BY AtomicFacts
<1>4. x.callbacks \in Int /\ IsMessage(y)
  <2>1. x.callbacks \in Int
    BY DEF QueuedData
  <2>. QED  BY <2>1 DEF Same, IsMessage
<1>5. Known(x) /\ Affords(x) /\ \A w \in Live : Known(w) /\ Affords(w)
  BY <1>3 DEF OnceInv
<1>8. ASSUME NEW p
      PROVE  /\ Calls(p)' = Calls(p) + (IF p = x.path THEN 1 ELSE 0) /\ Calls(p) \in Nat
  <2>1. CallsIn(Append(log, e), p) = CallsIn(log, p) + (IF e.path = p THEN 1 ELSE 0)
    BY <1>3, CallsMore
  <2>2. CallsIn(log, p) \in Nat
    BY <1>3, CallsAre
  <2>. QED  BY <2>1, <2>2 DEF Calls
<1>9. Owed(x) = x.callbacks /\ Owed(y) = x.callbacks - 1 /\ x.el.methods \in Nat
  <2>1. Owed(x) = x.callbacks /\ Owed(y) = x.callbacks - 1
    BY <1>4 DEF Owed, NotDispatched
  <2>. QED  BY <2>1, OwedIs
<1>10. Calls(x.path) + x.callbacks <= x.el.methods
  BY <1>5, <1>9 DEF Affords
<1>11. x.path = y.path /\ x.el = y.el /\ x.timetag = y.timetag
  BY DEF Same
<1>12. Known(y)' /\ Affords(y)'
  <2>1. y.path[1] \in DOMAIN accepted' /\ ElementAt(y.path)' = y.el
    BY <1>5, <1>11, ElementKept DEF Known
  <2>2. Known(y)'
    BY <1>5, <1>11, <2>1 DEF Known
  <2>3. Calls(y.path)' = Calls(x.path) + 1 /\ Calls(x.path) \in Nat
    BY <1>8, <1>11
  <2>4. Calls(y.path)' + Owed(y) <= y.el.methods
    BY <1>4, <1>9, <1>10, <1>11, <2>3
  <2>. QED  BY <2>2, <2>4 DEF Affords
<1>13. ASSUME NEW w \in known PROVE Known(w)' /\ Affords(w)'
  <2>1. w \in Live /\ w.path # x.path
    OBVIOUS
  <2>2. Known(w) /\ Affords(w)
    BY <1>5, <2>1
  <2>3. w.path[1] \in DOMAIN accepted' /\ ElementAt(w.path)' = w.el
    BY <2>2, ElementKept DEF Known
  <2>4. Calls(w.path)' = Calls(w.path)
    BY <1>8, <2>1
  <2>. QED  BY <2>2, <2>3, <2>4 DEF Known, Affords
<1>14. ASSUME NEW z \in QueuedData, z.path = <<Len(accepted) + 1>>, OfPacket(z)
       PROVE  Known(z)' /\ Affords(z)'
  <2>1. Known(z)' /\ Fresh(z)
    BY <1>14, NewPacket
  <2>2. z.path # x.path
    <3>1. x.path[1] <= Len(accepted) /\ Len(accepted) \in Nat /\ z.path[1] = Len(accepted) + 1
      BY <1>3, <1>14, LiveFacts
    <3>. QED  BY <3>1
  <2>3. Calls(z.path) = 0
    BY <1>3, <2>1, CallsAre DEF Calls, Fresh
  <2>4. Calls(z.path)' = 0
    BY <1>8, <2>2, <2>3
  <2>5. ASSUME IsMessage(z) PROVE Calls(z.path)' + Owed(z) <= z.el.methods
    BY <2>1, <2>4, <2>5, OwedIs DEF Fresh, Owed
  <2>. QED  BY <2>1, <2>5 DEF Affords
<1>15. ASSUME NEW w \in Live' PROVE Known(w)' /\ Affords(w)'
  <2>1. CASE w = y
    BY <1>12, <2>1
  <2>2. CASE w \in known
    BY <1>13, <2>2
  <2>3. CASE w \notin known /\ w # y
    BY <1>14, <2>3
  <2>. QED  BY <2>1, <2>2, <2>3
<1>16. ASSUME NEW p, (\E k \in DOMAIN log : log[k].path = p) \/ p = x.path
       PROVE  p[1] \in DOMAIN accepted' /\ Calls(p)' <= Asked(p)'
  <2>1. p[1] \in DOMAIN accepted /\ (p # x.path => Calls(p) <= Asked(p))
    BY <1>5, <1>16 DEF OnceInv, LogKnown, EffectsAtMostOnce, Known
  <2>2. p[1] \in DOMAIN accepted' /\ Asked(p)' = Asked(p)
    BY <2>1, ElementKept
  <2>3. CASE p # x.path
    BY <1>8, <2>1, <2>2, <2>3
  <2>4. CASE p = x.path
    <3>1. Asked(p) = x.el.methods
      BY <1>5, <2>4 DEF Asked, Known, IsMessage
    <3>2. Calls(p)' = Calls(p) + 1 /\ Calls(p) \in Nat
      BY <1>8, <2>4
    <3>3. Calls(p) + x.callbacks <= x.el.methods
      BY <1>10, <2>4
    <3>. QED  BY <1>4, <1>9, <2>2, <3>1, <3>2, <3>3
  <2>. QED  BY <2>3, <2>4
<1>18. \A k \in DOMAIN log' : (k \in DOMAIN log /\ log'[k] = log[k]) \/ log'[k].path = x.path
  BY <1>3
<1>19. LogKnown' /\ EffectsAtMostOnce'
  <2>1. ASSUME NEW k \in DOMAIN log', NEW p, p = log'[k].path
        PROVE  p[1] \in DOMAIN accepted' /\ Calls(p)' <= Asked(p)'
    BY <1>16, <1>18, <2>1
  <2>2. LogKnown'
    BY <2>1 DEF LogKnown
  <2>3. EffectsAtMostOnce'
    BY <2>1 DEF EffectsAtMostOnce, Calls, Asked, ElementAt
  <2>. QED  BY <2>2, <2>3
<1>20. SoundSoFar'
  BY DEF SoundSoFar
<1>. QED  BY <1>15, <1>19, <1>20 DEF OnceInv

LEMMA OnceCallCallback ==
  ASSUME Assumptions, ReceiveInv, ReceiveInv', OrderInv, OnceInv, CallCallback
  PROVE  OnceInv'
<1>1. PICK x, y, e :
        /\ x = call.qd /\ y = call'.qd /\ e = [path |-> x.path, tag |-> call.tag]
  OBVIOUS
<1>2. /\ call # None /\ x # None /\ call' # None /\ y # None /\ Same(x, y)
      /\ parse' = None /\ log' = Append(log, e)
      /\ Live' = {y} \cup Queued(q'.list)
      /\ \/ UNCHANGED <<q, accepted>>
         \/ \E z \in QueuedData :
              q'.list = Append(q.list, z) /\ z.path = <<Len(accepted) + 1>> /\ OfPacket(z)
  BY <1>1, CallbackAdds
<1>3. x.callbacks > 0 /\ call' = [call EXCEPT !.qd.callbacks = @ - 1]
  BY <1>1 DEF CallCallback
<1>4. /\ IsMessage(x) /\ x \in Live /\ x \in QueuedData /\ Live = {x} \cup Queued(q.list)
      /\ x \notin Queued(q.list) /\ UniquePaths(Live) /\ call \in CallTypes
      /\ Live' \in SUBSET QueuedData /\ q.list \in Seq(QueuedData)
  BY <1>1, <1>2, InHandFacts, AtomicFacts, NextFacts
<1>5. y.callbacks = x.callbacks - 1
  BY <1>1, <1>3, <1>4 DEF CallTypes, QueuedData
<1>6. e \in Entry /\ e.path = x.path
  <2>1. call.tag \in Nat /\ x.path \in Seq(Nat)
    BY <1>2, <1>4, PathType DEF CallTypes
  <2>. QED  BY <1>1, <2>1 DEF Entry
<1>7. Grows
  BY <1>2 DEF Grows, OfPacket
<1>8. PICK known, known2 : known = Queued(q.list) /\ known2 = Queued(q'.list)
  OBVIOUS
<1>9. \A w \in known : w.path # x.path
  BY <1>4, <1>8 DEF UniquePaths
<1>10. \/ known2 = known
       \/ \E z \in QueuedData : /\ known2 = known \cup {z}
                                /\ z.path = <<Len(accepted) + 1>> /\ OfPacket(z)
  <2>1. CASE UNCHANGED <<q, accepted>>
    BY <1>8, <2>1
  <2>2. ASSUME NEW z \in QueuedData, q'.list = Append(q.list, z), z.path = <<Len(accepted) + 1>>, OfPacket(z)
        PROVE  known2 = known \cup {z}
    <3>1. /\ DOMAIN q'.list = DOMAIN q.list \cup {Len(q.list) + 1}
          /\ q'.list[Len(q.list) + 1] = z /\ \A i \in DOMAIN q.list : q'.list[i] = q.list[i]
      BY <1>4, <2>2
    <3>. QED  BY <1>8, <3>1 DEF Queued
  <2>. QED  BY <1>2, <2>1, <2>2
<1>11. Live = {x} \cup known /\ Live' = {y} \cup known2 /\ y \in QueuedData
  BY <1>2, <1>4, <1>8
<1>. QED  BY <1>2, <1>3, <1>4, <1>5, <1>6, <1>7, <1>9, <1>10, <1>11, OnceLogged

LEMMA OnceInit == ASSUME Assumptions, Init PROVE OnceInv
<1>1. q.list = <<>> /\ log = <<>> /\ call = None /\ parse = None
  BY DEF Init, OSCInitReceive, OSCNewQueue
<1>2. Live = {}
  BY <1>1 DEF Live, InHand
<1>. QED  BY <1>1, <1>2 DEF OnceInv, SoundSoFar, LogKnown, EffectsAtMostOnce

LEMMA OnceNext ==
  ASSUME Assumptions, ReceiveInv, ReceiveInv', OrderInv, OnceInv, [Next]_vars PROVE OnceInv'
<1>1. CASE OSCAllocPacketBuffer \/ OSCFreePacket \/ Tick \/ UNCHANGED vars
  BY <1>1, OnceStill DEF OSCAllocPacketBuffer, OSCFreePacket, Tick, vars
<1>2. CASE \E el \in Packets : OSCAcceptPacket(el)
  BY <1>2, OnceAccept
<1>3. CASE OSCBeProductiveWhileWaiting
  BY <1>3, IdleFewer, OnceFewer, OnceBegins
<1>4. CASE \E all \in BOOLEAN : OSCInvokeMessagesThatAreReady(all)
  BY <1>4, OnceInvoke
<1>5. CASE ClientSchedules(1)
  BY <1>5, OnceClientSchedules
<1>6. CASE ParseElement
  BY <1>6, OnceParseElement
<1>7. CASE ParseDone
  BY <1>7, ParseDoneFewer, OnceFewer, OnceBegins
<1>8. CASE TakeBundle
  BY <1>8, TakeBundleFewer, OnceFewer, OnceBegins
<1>9. CASE TakeMessage
  BY <1>9, TakeMessageFewer, OnceFewer, OnceBegins
<1>10. CASE CallCallback
  BY <1>10, OnceCallCallback
<1>11. CASE MessageDone
  BY <1>11, OnceMessageDone
<1>12. CASE LoopDone
  BY <1>12, OnceLoopDone
<1>. QED
  BY <1>1, <1>2, <1>3, <1>4, <1>5, <1>6, <1>7, <1>8, <1>9, <1>10, <1>11, <1>12 DEF Next, InCall

(* Whatever is dropped for lack of memory, and whatever is parsed or       *)
(* dispatched early: a method is called for a message that a packet has    *)
(* sent, and no more often than the message asks (ParseBundle,             *)
(* OSCDispatchMessage, CallWholeCallbackList).                             *)
THEOREM NothingTwice == ASSUME Assumptions PROVE Spec => []EffectsAtMostOnce
<1>1. Init => ReceiveInv /\ OrderInv /\ OnceInv
  BY InvInit, OrderInit, OnceInit
<1>2. ReceiveInv /\ OrderInv /\ OnceInv /\ [Next]_vars => ReceiveInv' /\ OrderInv' /\ OnceInv'
  BY InvNext, OrderNext, OnceNext
<1>3. OnceInv => EffectsAtMostOnce
  BY DEF OnceInv
<1>. QED  BY <1>1, <1>2, <1>3, PTL DEF Spec

-----------------------------------------------------------------------------
(* Nothing that was asked for is forgotten.  A message that did not take   *)
(* effect as often as asked was dropped for lack of memory, or waits with  *)
(* what is missing, or lies in a bundle that waits and was not parsed up   *)
(* to it.                                                                  *)
Place == Seq(Nat \ {0}) \ {<<>>}

Within(t, p) == Len(t) < Len(p) /\ Leads(t, p)

Sought(p) == p[1] \in DOMAIN accepted /\ ElementAt(p).kind = "message"

UpTo(x) == IF parse # None /\ parse.qd = x THEN parse.next ELSE 1

Waits(x, p) == IsMessage(x) /\ x.path = p /\ Calls(p) + Owed(x) = x.el.methods

Holds(x, p) == ~IsMessage(x) /\ Within(x.path, p) /\ UpTo(x) <= p[Len(x.path) + 1]

Settled(p) == Lost(p) \/ Calls(p) = Asked(p)

Kept(p) == Settled(p) \/ \E x \in Live : Waits(x, p) \/ Holds(x, p)

CompleteInv == \A p \in Place : Sought(p) => Kept(p)

(* All elements around a message are bundles.                              *)
LEMMA WayBundles ==
  ASSUME NEW el, NEW p, NEW n \in Nat \ {0}, NEW f, IsWay(f, el, p, n), f[n].kind = "message",
         NEW i \in 1 .. n - 1
  PROVE  f[i].kind = "bundle"
<1>. SUFFICES ASSUME f[i].kind # "bundle" PROVE FALSE
  OBVIOUS
<1>1. \A e, k : e.kind # "bundle" => PartOf(e, k) = NoElement
  BY DEF PartOf
<1>2. NoElement.kind = "none"
  BY DEF NoElement
<1>3. i \in Nat /\ n - i - 1 \in Nat /\ i + (n - i - 1) + 1 = n
  OBVIOUS
<1>. DEFINE T == {k \in 0 .. n - i - 1 : f[i + k + 1] = NoElement}
<1>4. 0 \in T
  <2>1. i + 1 \in 2 .. n /\ (i + 1) - 1 = i /\ i + 0 + 1 = i + 1
    OBVIOUS
  <2>2. f[i + 1] = PartOf(f[i], p[i + 1])
    BY <2>1 DEF IsWay
  <2>. QED  BY <1>1, <1>3, <2>1, <2>2
<1>5. ASSUME NEW k \in 1 .. n - i - 1, k - 1 \in T PROVE k \in T
  <2>1. f[i + k] = NoElement /\ i + k + 1 \in 2 .. n /\ (i + k + 1) - 1 = i + k
    BY <1>5
  <2>2. f[i + k + 1] = PartOf(f[i + k], p[i + k + 1])
    BY <2>1 DEF IsWay
  <2>. QED  BY <1>1, <1>2, <2>1, <2>2
<1>. HIDE DEF T
<1>6. n - i - 1 \in T
  <2>1. \A k \in 0 .. n - i - 1 : k \in T
    BY <1>3, <1>4, <1>5, Upwards
  <2>. QED  BY <1>3, <2>1
<1>7. f[n] = NoElement
  BY <1>3, <1>6 DEF T
<1>. QED  BY <1>2, <1>7

LEMMA PlaceIs ==
  ASSUME NEW p \in Place
  PROVE  /\ p \in Seq(Nat) /\ p # <<>> /\ Len(p) \in Nat \ {0} /\ Leads(p, p)
         /\ \A i \in 1 .. Len(p) : p[i] \in Nat \ {0}
<1>1. p \in Seq(Nat \ {0}) /\ p # <<>>
  BY DEF Place
<1>2. p \in Seq(Nat) /\ Len(p) \in Nat \ {0} /\ \A i \in 1 .. Len(p) : p[i] \in Nat \ {0}
  BY <1>1
<1>. QED  BY <1>1, <1>2 DEF Leads

(* The element next to a bundle on the way to a message.                   *)
LEMMA Towards ==
  ASSUME NEW p \in Place, NEW t \in Seq(Nat), t # <<>>, Within(t, p)
  PROVE  /\ p[Len(t) + 1] \in Nat \ {0}
         /\ Append(t, p[Len(t) + 1]) \in Seq(Nat) /\ Append(t, p[Len(t) + 1]) # <<>>
         /\ Append(t, p[Len(t) + 1]) = p \/ Within(Append(t, p[Len(t) + 1]), p)
<1>. DEFINE n == Len(t)
            k == p[n + 1]
            c == Append(t, k)
<1>1. /\ p \in Seq(Nat) /\ Len(p) \in Nat \ {0} /\ n \in Nat \ {0} /\ n < Len(p)
      /\ \A i \in 1 .. n : t[i] = p[i]
      /\ k \in Nat \ {0}
  BY PlaceIs DEF Within, Leads
<1>. HIDE DEF k
<1>2. c \in Seq(Nat) /\ Len(c) = n + 1 /\ c[n + 1] = k /\ \A i \in 1 .. n : c[i] = t[i]
  BY <1>1
<1>. HIDE DEF c
<1>3. c # <<>>
  <2>1. Len(c) # 0
    BY <1>1, <1>2
  <2>. QED  BY <2>1
<1>4. ASSUME NEW i \in 1 .. n + 1 PROVE c[i] = p[i]
  <2>1. CASE i = n + 1
    BY <1>2, <2>1 DEF k
  <2>2. CASE i # n + 1
    <3>1. i \in 1 .. n
      BY <1>1, <2>2
    <3>. QED  BY <1>1, <1>2, <3>1
  <2>. QED  BY <2>1, <2>2
<1>5. ASSUME n + 1 = Len(p) PROVE c = p
  BY <1>1, <1>2, <1>4, <1>5
<1>6. ASSUME n + 1 < Len(p) PROVE Within(c, p)
  BY <1>1, <1>2, <1>4, <1>6 DEF Within, Leads
<1>7. c = p \/ Within(c, p)
  <2>1. n + 1 = Len(p) \/ n + 1 < Len(p)
    BY <1>1
  <2>. QED  BY <1>5, <1>6, <2>1
<1>. HIDE DEF n
<1>. QED  BY <1>1, <1>2, <1>3, <1>7 DEF n, k, c

LEMMA InsideBundle ==
  ASSUME NEW el, NEW p \in Place, ElementIn(el, p).kind = "message",
         NEW t \in Seq(Nat), t # <<>>, Within(t, p)
  PROVE  ElementIn(el, t).kind = "bundle"
<1>. DEFINE n == Len(t)
            m == Len(p)
<1>1. /\ p \in Seq(Nat) /\ p # <<>> /\ m \in Nat \ {0} /\ n \in Nat \ {0} /\ n < m
      /\ \A i \in 1 .. n : t[i] = p[i]
  BY PlaceIs DEF Within, Leads
<1>2. /\ IsWay(Way(el, p), el, p, m) /\ ElementIn(el, p) = Way(el, p)[m]
      /\ IsWay(Way(el, t), el, t, n) /\ ElementIn(el, t) = Way(el, t)[n]
  BY <1>1, WayIs
<1>. HIDE DEF n, m
<1>3. Way(el, t)[n] = Way(el, p)[n]
  <2>1. n <= m /\ m \in Nat
    BY <1>1
  <2>. QED  BY <1>1, <1>2, <2>1, WayUnique
<1>4. n \in 1 .. m - 1
  BY <1>1
<1>5. Way(el, p)[n].kind = "bundle"
  <2>1. Way(el, p)[m].kind = "message" /\ m \in Nat \ {0} /\ IsWay(Way(el, p), el, p, m)
    BY <1>1, <1>2
  <2>. QED  BY <1>4, <2>1, WayBundles
<1>. QED  BY <1>2, <1>3, <1>5

(* The same for the packets that were accepted.                            *)
LEMMA SoughtInside ==
  ASSUME NEW p \in Place, Sought(p), NEW t \in Seq(Nat), t # <<>>, Within(t, p)
  PROVE  /\ ElementAt(t).kind = "bundle" /\ t[1] = p[1]
         /\ ElementAt(Append(t, p[Len(t) + 1])) = PartOf(ElementAt(t), p[Len(t) + 1])
         /\ ElementAt(Append(t, p[Len(t) + 1])).kind \in {"message", "bundle"}
<1>. DEFINE k == p[Len(t) + 1]
            c == Append(t, k)
            el == Admitted(accepted[p[1]].el, accepted[p[1]].timetag)
<1>1. /\ k \in Nat /\ c \in Seq(Nat) /\ c # <<>> /\ (c = p \/ Within(c, p))
  BY Towards
<1>2. t[1] = p[1] /\ c[1] = t[1]
  <2>1. Len(t) \in Nat \ {0}
    OBVIOUS
  <2>2. t[1] = p[1]
    BY <2>1 DEF Within, Leads
  <2>. QED  BY <1>1, <2>1, <2>2
<1>3. ElementAt(p) = ElementIn(el, p) /\ ElementAt(t) = ElementIn(el, t) /\ ElementAt(c) = ElementIn(el, c)
  BY <1>2 DEF ElementAt
<1>. HIDE DEF el
<1>4. ElementIn(el, p).kind = "message"
  BY <1>3 DEF Sought
<1>5. ElementIn(el, t).kind = "bundle"
  BY <1>4, InsideBundle
<1>6. ElementIn(el, c) = PartOf(ElementIn(el, t), k)
  BY <1>1, ElementNext
<1>. HIDE DEF c, k
<1>7. ElementIn(el, c).kind \in {"message", "bundle"}
  <2>1. CASE c = p
    BY <1>4, <2>1
  <2>2. CASE Within(c, p)
    BY <1>1, <1>4, <2>2, InsideBundle
  <2>. QED  BY <1>1, <2>1, <2>2
<1>. QED  BY <1>2, <1>3, <1>5, <1>6, <1>7 DEF c, k

LEMMA UpToIs == ASSUME ReceiveInv, NEW x PROVE UpTo(x) \in Nat \ {0}
<1>1. parse \in ParseTypes \cup {None}
  BY DEF ReceiveInv, Types
<1>. QED  BY <1>1 DEF UpTo, ParseTypes

LEMMA UpToNext == ASSUME ReceiveInv', NEW x PROVE UpTo(x)' \in Nat \ {0}
<1>1. parse' \in ParseTypes \cup {None}
  BY DEF ReceiveInv, Types
<1>. QED  BY <1>1 DEF UpTo, ParseTypes
(* What holds up, element by element, from a step to the next.             *)
Quiet == log' = log /\ Grows /\ lost \subseteq lost'

LEMMA LostStays ==
  ASSUME lost \subseteq lost', NEW p, Lost(p) PROVE Lost(p)'
BY DEF Lost

\* A message is still there as it was, or is over, or was dropped.
Handled(x) ==
    \/ Owed(x) = 0
    \/ x.path \in lost'
    \/ \E y \in Live' : y.path = x.path /\ y.el = x.el /\ Owed(y) = Owed(x)

LEMMA WaitsOn ==
  ASSUME Assumptions, ReceiveInv, OrderInv, OnceInv, Quiet, NEW p \in Place, Sought(p),
         NEW x \in Live, Waits(x, p), Handled(x)
  PROVE  Kept(p)'
<1>1. /\ IsMessage(x) /\ x.path = p /\ Calls(p) + Owed(x) = x.el.methods
      /\ p[1] \in DOMAIN accepted /\ ElementAt(p).kind = "message"
  BY DEF Waits, Sought
<1>2. Calls(p)' = Calls(p) /\ Asked(p)' = Asked(p) /\ Asked(p) = x.el.methods
  <2>1. Calls(p)' = Calls(p)
    BY DEF Calls, Quiet
  <2>2. ElementAt(p) = x.el
    BY <1>1 DEF OnceInv, Known
  <2>. QED  BY <1>1, <2>1, <2>2, ElementKept DEF Asked, Quiet
<1>3. CASE Owed(x) = 0
  <2>1. Calls(p) \in Nat
    BY AtomicFacts, CallsAre DEF Calls
  <2>2. Calls(p)' = Asked(p)'
    BY <1>1, <1>2, <1>3, <2>1
  <2>. QED  BY <2>2 DEF Kept, Settled
<1>4. CASE x.path \in lost'
  <2>1. Lost(p)'
    BY <1>1, <1>4, PlaceIs DEF Lost
  <2>. QED  BY <2>1 DEF Kept, Settled
<1>5. ASSUME NEW y \in Live', y.path = x.path, y.el = x.el, Owed(y) = Owed(x) PROVE Kept(p)'
  <2>1. Waits(y, p)'
    BY <1>1, <1>2, <1>5 DEF Waits, IsMessage
  <2>. QED  BY <2>1 DEF Kept
<1>. QED  BY <1>3, <1>4, <1>5 DEF Handled

LEMMA HoldsOn ==
  ASSUME NEW p, NEW x, Holds(x, p), NEW y \in Live', y.path = x.path, y.el = x.el,
         UpTo(y)' <= p[Len(x.path) + 1]
  PROVE  Kept(p)'
<1>1. Holds(y, p)'
  BY DEF Holds, IsMessage
<1>. QED  BY <1>1 DEF Kept

\* All that was sought before a step is kept by it.
Keeps ==
    /\ \A x \in Live : IsMessage(x) => Handled(x)
    /\ \A p \in Place : \A x \in Live : Sought(p) /\ Holds(x, p) => Kept(p)'

LEMMA CompleteOld ==
  ASSUME Assumptions, ReceiveInv, OrderInv, OnceInv, CompleteInv, Quiet, Keeps,
         NEW p \in Place, Sought(p)
  PROVE  Kept(p)'
<1>1. CASE Settled(p)
  <2>1. Calls(p)' = Calls(p) /\ Asked(p)' = Asked(p)
    BY ElementKept DEF Calls, Quiet, Sought
  <2>2. Settled(p)'
    BY <1>1, <2>1, LostStays DEF Settled, Quiet
  <2>. QED  BY <2>2 DEF Kept
<1>2. ASSUME NEW x \in Live, Waits(x, p) PROVE Kept(p)'
  <2>1. Handled(x)
    BY <1>2 DEF Keeps, Waits
  <2>. QED  BY <1>2, <2>1, WaitsOn
<1>3. ASSUME NEW x \in Live, Holds(x, p) PROVE Kept(p)'
  BY <1>3 DEF Keeps
<1>4. Kept(p)
  BY DEF CompleteInv
<1>. QED  BY <1>1, <1>2, <1>3, <1>4 DEF Kept

LEMMA CompleteStep ==
  ASSUME Assumptions, ReceiveInv, OrderInv, OnceInv, CompleteInv, Quiet, Keeps,
         \A p \in Place : p[1] \in DOMAIN accepted' \ DOMAIN accepted /\ Sought(p)' => Kept(p)'
  PROVE  CompleteInv'
<1>1. ASSUME NEW p \in Place, Sought(p)' PROVE Kept(p)'
  <2>1. CASE p[1] \in DOMAIN accepted
    <3>1. ElementAt(p)' = ElementAt(p)
      BY <2>1, ElementKept DEF Quiet
    <3>2. Sought(p)
      BY <1>1, <2>1, <3>1 DEF Sought
    <3>. QED  BY <3>2, CompleteOld
  <2>2. CASE p[1] \notin DOMAIN accepted
    BY <1>1, <2>2 DEF Sought
  <2>. QED  BY <2>1, <2>2
<1>. QED  BY <1>1 DEF CompleteInv

LEMMA CompleteQuiet ==
  ASSUME Assumptions, ReceiveInv, OrderInv, OnceInv, CompleteInv, Quiet, Keeps, accepted' = accepted
  PROVE  CompleteInv'
BY CompleteStep

\* Bundles stay as they are.
BundlesStay == \A x \in Live : ~IsMessage(x) => x \in Live' /\ UpTo(x)' <= UpTo(x)

LEMMA BundlesKeep ==
  ASSUME Assumptions, ReceiveInv, ReceiveInv', BundlesStay,
         NEW p \in Place, NEW x \in Live, Holds(x, p)
  PROVE  Kept(p)'
<1>1. /\ x \in Live' /\ UpTo(x)' <= UpTo(x) /\ UpTo(x) <= p[Len(x.path) + 1]
      /\ Within(x.path, p)
  BY DEF BundlesStay, Holds
<1>2. UpTo(x)' \in Nat /\ UpTo(x) \in Nat
  BY UpToIs, UpToNext
<1>3. p[Len(x.path) + 1] \in Nat
  <2>1. x.path \in Seq(Nat) /\ x.path # <<>>
    BY LiveFacts
  <2>. QED  BY <1>1, <2>1, Towards
<1>4. UpTo(x)' <= p[Len(x.path) + 1]
  BY <1>1, <1>2, <1>3
<1>. QED  BY <1>1, <1>4, HoldsOn

\* Messages stay as they are.
LEMMA MessageStays == ASSUME NEW x \in Live' PROVE Handled(x)
BY DEF Handled

LEMMA AllStay ==
  ASSUME Assumptions, ReceiveInv, ReceiveInv', Live \subseteq Live',
         \A x \in Live : UpTo(x)' <= UpTo(x)
  PROVE  Keeps
<1>1. BundlesStay
  BY DEF BundlesStay
<1>. QED  BY <1>1, BundlesKeep, MessageStays DEF Keeps

\* Nothing is parsed after the step.
LEMMA UpToFirst ==
  ASSUME ReceiveInv, parse' = None, NEW x PROVE UpTo(x)' <= UpTo(x)
<1>1. UpTo(x)' = 1 /\ UpTo(x) \in Nat \ {0}
  BY UpToIs DEF UpTo
<1>. QED  BY <1>1

LEMMA NewIndex ==
  ASSUME ReceiveInv, NEW e, accepted' = Append(accepted, e)
  PROVE  /\ \A n \in DOMAIN accepted' \ DOMAIN accepted : n = Len(accepted) + 1
         /\ accepted'[Len(accepted) + 1] = e /\ Len(accepted) + 1 \notin DOMAIN accepted
<1>1. accepted \in Seq([el : Elements, timetag : Nat])
  BY DEF ReceiveInv, Types
<1>. QED  BY <1>1

(* A packet that comes in.                                                 *)
LEMMA NewKept ==
  ASSUME Assumptions, ReceiveInv, OrderInv, parse' = None,
         NEW x \in QueuedData, x \in Live', x.path = <<Len(accepted) + 1>>, OfPacket(x),
         \A k \in DOMAIN log' : log'[k].path[1] # Len(accepted) + 1, log' \in Seq(Entry),
         NEW p \in Place, p[1] = Len(accepted) + 1, Sought(p)'
  PROVE  Kept(p)'
<1>. DEFINE el == Admitted(accepted'[p[1]].el, accepted'[p[1]].timetag)
            t == <<p[1]>>
<1>1. ElementAt(p)' = ElementIn(el, p)
  BY DEF ElementAt
<1>2. Known(x)' /\ Fresh(x) /\ p[1] \in Nat
  BY NewPacket, PlaceIs
<1>3. ElementAt(x.path)' = ElementIn(el, t) /\ x.path = t
  <2>1. x.path = t /\ x.path[1] = p[1]
    OBVIOUS
  <2>. QED  BY <2>1 DEF ElementAt
<1>. HIDE DEF el
<1>4. el = x.el
  <2>1. ElementIn(el, t) = el
    BY <1>2, ElementFirst
  <2>. QED  BY <1>2, <1>3, <2>1 DEF Known
<1>5. ElementIn(x.el, p).kind = "message"
  BY <1>1, <1>4 DEF Sought
<1>6. Calls(p)' = 0
  <2>1. \A k \in DOMAIN log' : log'[k].path # p
    OBVIOUS
  <2>. QED  BY <2>1, CallsAre DEF Calls
<1>7. CASE p = t
  <2>1. IsMessage(x)
    BY <1>2, <1>4, <1>5, <1>7, ElementFirst DEF IsMessage
  <2>2. Owed(x) = x.el.methods /\ x.el.methods \in Nat
    BY <1>2, <2>1, OwedIs DEF Owed, Fresh
  <2>3. Waits(x, p)'
    BY <1>3, <1>6, <1>7, <2>1, <2>2 DEF Waits, IsMessage
  <2>. QED  BY <2>3 DEF Kept
<1>8. CASE p # t
  <2>1. t \in Seq(Nat) /\ t # <<>> /\ Len(t) = 1 /\ t[1] = p[1]
    BY <1>2
  <2>. HIDE DEF t
  <2>2. Within(t, p)
    <3>1. p \in Seq(Nat) /\ Len(p) \in Nat \ {0}
      BY PlaceIs
    <3>2. Len(p) # 1
      BY <1>8, <2>1, <3>1
    <3>3. 1 < Len(p) /\ 1 <= Len(p)
      <4>1. \A m \in Nat \ {0} : m # 1 => 1 < m /\ 1 <= m
        OBVIOUS
      <4>. QED  BY <3>1, <3>2, <4>1
    <3>4. \A i \in 1 .. Len(t) : t[i] = p[i]
      BY <2>1
    <3>. QED  BY <2>1, <3>3, <3>4 DEF Within, Leads
  <2>3. ElementIn(x.el, t).kind = "bundle"
    BY <1>5, <2>1, <2>2, InsideBundle
  <2>4. ~IsMessage(x)
    BY <1>3, <1>4, <1>2, <2>3 DEF IsMessage, Known
  <2>5. UpTo(x)' = 1 /\ p[Len(t) + 1] \in Nat \ {0}
    BY <2>1, <2>2, Towards DEF UpTo
  <2>6. UpTo(x)' <= p[Len(t) + 1]
    BY <2>5
  <2>7. Holds(x, p)'
    BY <1>3, <2>2, <2>4, <2>6 DEF Holds, IsMessage
  <2>. QED  BY <2>7 DEF Kept
<1>. QED  BY <1>7, <1>8
LEMMA CompleteStill ==
  ASSUME CompleteInv, UNCHANGED <<q, call, parse, accepted, log, lost>>
  PROVE  CompleteInv'
<1>1. /\ Live' = Live /\ UNCHANGED <<parse, accepted, log, lost>>
      /\ \A p : /\ ElementAt(p)' = ElementAt(p) /\ Asked(p)' = Asked(p) /\ Calls(p)' = Calls(p)
                /\ Lost(p)' = Lost(p)
      /\ \A x : UpTo(x)' = UpTo(x)
  BY DEF Live, InHand, ElementAt, Asked, Calls, Lost, UpTo
<1>2. \A p : Sought(p)' = Sought(p) /\ Settled(p)' = Settled(p)
  BY <1>1 DEF Sought, Settled
<1>3. \A x, p : Waits(x, p)' = Waits(x, p) /\ Holds(x, p)' = Holds(x, p)
  BY <1>1 DEF Waits, Holds
<1>4. ASSUME NEW p \in Place, Sought(p)' PROVE Kept(p)'
  <2>1. Kept(p)
    BY <1>2, <1>4 DEF CompleteInv
  <2>. QED  BY <1>1, <1>2, <1>3, <2>1 DEF Kept
<1>. QED  BY <1>4 DEF CompleteInv

(* Steps of calls that leave the queue as it is.                           *)
LEMMA CompleteCall ==
  ASSUME Assumptions, ReceiveInv, ReceiveInv', OrderInv, OnceInv, CompleteInv,
         UNCHANGED <<parse, log, accepted, lost>>, q'.list = q.list,
         parse = None, call = None \/ call.qd = None, call' = None \/ call'.qd = None
  PROVE  CompleteInv'
<1>1. Live' = Live
  BY LiveFacts, NextLive
<1>2. Keeps
  BY <1>1, AllStay, UpToFirst
<1>. QED  BY <1>2, CompleteQuiet DEF Quiet, Grows

LEMMA CompleteInvoke ==
  ASSUME Assumptions, ReceiveInv, ReceiveInv', OrderInv, OnceInv, CompleteInv,
         NEW all \in BOOLEAN, OSCInvokeMessagesThatAreReady(all)
  PROVE  CompleteInv'
<1>1. /\ call = None /\ parse = None /\ UNCHANGED <<q, parse, log, accepted, lost>>
      /\ call' = Invoke(q, clock + Lookahead, all)
  BY DEF OSCInvokeMessagesThatAreReady, AtClient
<1>2. call' = None \/ call'.qd = None
  BY <1>1 DEF Invoke
<1>. QED  BY <1>1, <1>2, CompleteCall

LEMMA CompleteLoopDone ==
  ASSUME Assumptions, ReceiveInv, ReceiveInv', OrderInv, OnceInv, CompleteInv, LoopDone
  PROVE  CompleteInv'
<1>1. /\ call.qd = None /\ parse = None /\ UNCHANGED <<q, parse, log, accepted, lost>>
      /\ call' = IF call.all THEN Invoke(q, call.now, TRUE) ELSE None
  BY DEF LoopDone, InLoop
<1>2. call' = None \/ call'.qd = None
  BY <1>1 DEF Invoke
<1>. QED  BY <1>1, <1>2, CompleteCall

(* A packet is added.                                                      *)
LEMMA CompletePacket ==
  ASSUME Assumptions, ReceiveInv, ReceiveInv', OrderInv, OnceInv, CompleteInv,
         UNCHANGED <<parse, log>>, parse = None, lost \subseteq lost',
         NEW x, Adds(x), x.path = <<Len(accepted) + 1>>, OfPacket(x)
  PROVE  CompleteInv'
<1>1. x \in QueuedData /\ Live' = Live \cup {x} /\ Grows
  BY DEF Adds, Grows, OfPacket
<1>2. Keeps
  BY <1>1, AllStay, UpToFirst
<1>3. ASSUME NEW p \in Place, p[1] \in DOMAIN accepted' \ DOMAIN accepted, Sought(p)' PROVE Kept(p)'
  <2>1. p[1] = Len(accepted) + 1
    BY <1>3, NewIndex DEF OfPacket
  <2>2. \A k \in DOMAIN log' : log'[k].path[1] # Len(accepted) + 1
    BY NewIndex DEF OnceInv, LogKnown, OfPacket
  <2>. QED  BY <1>1, <1>3, <2>1, <2>2, NewKept, AtomicFacts
<1>. QED  BY <1>1, <1>2, <1>3, CompleteStep DEF Quiet

LEMMA CompleteAccept ==
  ASSUME Assumptions, ReceiveInv, ReceiveInv', OrderInv, OnceInv, CompleteInv,
         NEW el \in Packets, OSCAcceptPacket(el)
  PROVE  CompleteInv'
<1>1. /\ call = None /\ parse = None /\ (call' = None \/ call'.qd = None) /\ UNCHANGED <<parse, log>>
      /\ \/ q'.list = q.list /\ Live' = Live /\ Refused(el, Immediately, <<Len(accepted) + 1>>)
         \/ \E x : Adds(x) /\ x.path = <<Len(accepted) + 1>> /\ OfPacket(x)
  BY AcceptAdds
<1>2. accepted' = Append(accepted, [el |-> el, timetag |-> Immediately])
  BY DEF OSCAcceptPacket
<1>3. lost \subseteq lost'
  BY DEF OSCAcceptPacket, InsertBundleOrMessage, Dropping
<1>4. Quiet
  BY <1>1, <1>2, <1>3 DEF Quiet, Grows
<1>5. ASSUME Live' = Live, Refused(el, Immediately, <<Len(accepted) + 1>>) PROVE CompleteInv'
  <2>. DEFINE n == Len(accepted) + 1
              admitted == Admitted(el, Immediately)
  <2>1. Keeps
    BY <1>1, <1>5, AllStay, UpToFirst
  <2>2. ASSUME NEW p \in Place, p[1] \in DOMAIN accepted' \ DOMAIN accepted, Sought(p)' PROVE Kept(p)'
    <3>1. p[1] = n /\ accepted'[n] = [el |-> el, timetag |-> Immediately]
      BY <1>2, <2>2, NewIndex
    <3>2. ElementAt(p)' = ElementIn(admitted, p)
      BY <3>1 DEF ElementAt
    <3>3. ElementIn(admitted, p).kind = "message"
      BY <2>2, <3>2 DEF Sought
    <3>4. n \in Nat /\ p \in Seq(Nat) /\ Len(p) \in Nat \ {0}
      BY <3>1, PlaceIs
    <3>. DEFINE t == <<n>>
    <3>5. t \in Seq(Nat) /\ t # <<>> /\ Len(t) = 1 /\ t[1] = p[1] /\ Leads(t, p)
      BY <3>1, <3>4 DEF Leads
    <3>6. ElementIn(admitted, t) = admitted
      BY <3>4, ElementFirst
    <3>. HIDE DEF admitted, t
    <3>7. admitted.kind \in {"message", "bundle"}
      <4>1. CASE Len(p) = 1
        <5>1. p = t
          BY <3>4, <3>5, <4>1
        <5>. QED  BY <3>3, <3>6, <5>1
      <4>2. CASE Len(p) # 1
        <5>1. Within(t, p)
          BY <3>4, <3>5, <4>2 DEF Within
        <5>. QED  BY <3>3, <3>5, <3>6, <5>1, InsideBundle
      <4>. QED  BY <4>1, <4>2
    <3>8. t \in lost'
      BY <1>5, <3>7 DEF Refused, admitted, t
    <3>9. Lost(p)'
      BY <3>5, <3>8 DEF Lost
    <3>. QED  BY <3>9 DEF Kept, Settled
  <2>. QED  BY <1>4, <2>1, <2>2, CompleteStep
<1>6. ASSUME NEW x, Adds(x), x.path = <<Len(accepted) + 1>>, OfPacket(x) PROVE CompleteInv'
  BY <1>1, <1>3, <1>6, CompletePacket
<1>. QED  BY <1>1, <1>5, <1>6

LEMMA CompleteClientSchedules ==
  ASSUME Assumptions, ReceiveInv, ReceiveInv', OrderInv, OnceInv, CompleteInv, ClientSchedules(1)
  PROVE  CompleteInv'
<1>1. /\ call = None /\ parse = None /\ UNCHANGED <<call, parse, log>>
      /\ \/ q'.list = q.list /\ accepted' = accepted
         \/ \E x : Adds(x) /\ x.path = <<Len(accepted) + 1>> /\ OfPacket(x)
  BY ClientSchedulesAdds
<1>2. lost' = lost
  BY DEF ClientSchedules
<1>3. CASE q'.list = q.list /\ accepted' = accepted
  BY <1>1, <1>2, <1>3, CompleteCall
<1>4. ASSUME NEW x, Adds(x), x.path = <<Len(accepted) + 1>>, OfPacket(x) PROVE CompleteInv'
  BY <1>1, <1>2, <1>4, CompletePacket
<1>. QED  BY <1>1, <1>3, <1>4
(* An element is taken out of a bundle.                                    *)
LEMMA ElementKeeps ==
  ASSUME Assumptions, ReceiveInv, ReceiveInv', OrderInv, OnceInv, ParseElement,
         NEW p \in Place, Sought(p), Holds(parse.qd, p), p[Len(parse.qd.path) + 1] = parse.next
  PROVE  Kept(p)'
<1>. DEFINE t == parse.qd
            k == parse.next
            c == Append(t.path, k)
<1>1. /\ parse'.qd = t /\ parse'.next = k + 1 /\ parse # None /\ (call = None \/ call.qd = None)
      /\ UNCHANGED <<accepted, log>> /\ k <= Len(t.el.elems) /\ t.el.elems[k].kind # "bad"
  BY ParseElementAdds
<1>10. Refused(t.el.elems[k], t.timetag, c) \/ \E x : Adds(x) /\ ElementOf(x, t, k)
  BY ParseElementAdds
<1>2. /\ t \in Live /\ k \in Nat \ {0} /\ t.path \in Seq(Nat) /\ t.path # <<>>
      /\ t.el.kind = "bundle" /\ t.el.elems \in Seq(Elements)
  <2>1. /\ t \in Live /\ k \in Nat \ {0} /\ t.path \in Seq(Nat)
        /\ t.el.kind = "bundle" /\ t.el.elems \in Seq(Elements)
    BY <1>1, ParseFacts
  <2>. QED  BY <2>1, LiveFacts
<1>3. /\ log \in Seq(Entry) /\ \A j \in DOMAIN log : \A x \in Live : ~Leads(x.path, log[j].path)
  BY <1>1, OrderIdle, AtomicFacts
<1>4. /\ ElementAt(t.path) = t.el /\ t.timetag = t.el.timetag
      /\ \A i \in 1 .. k - 1 : t.el.elems[i].kind # "bad"
  <2>1. Known(t)
    BY <1>2 DEF OnceInv
  <2>2. \A i \in 1 .. k - 1 : t.el.elems[i].kind # "bad"
    BY <1>1 DEF OnceInv, SoundSoFar
  <2>. QED  BY <1>2, <2>1, <2>2 DEF Known
<1>5. Within(t.path, p) /\ p[Len(t.path) + 1] = k
  BY DEF Holds
<1>. HIDE DEF t, k
<1>6. PartOf(t.el, k) = Admitted(t.el.elems[k], t.timetag)
  <2>1. \A i \in 1 .. k : t.el.elems[i].kind # "bad"
    BY <1>1, <1>2, <1>4
  <2>2. k \in DOMAIN t.el.elems
    BY <1>1, <1>2
  <2>. QED  BY <1>2, <1>4, <2>1, <2>2 DEF PartOf
<1>7. /\ c \in Seq(Nat) /\ c # <<>> /\ (c = p \/ Within(c, p)) /\ Leads(c, p)
      /\ ElementAt(c) = Admitted(t.el.elems[k], t.timetag) /\ ElementAt(c).kind \in {"message", "bundle"}
  <2>1. c \in Seq(Nat) /\ c # <<>> /\ (c = p \/ Within(c, p))
    BY <1>2, <1>5, Towards
  <2>2. ElementAt(c) = PartOf(ElementAt(t.path), k) /\ ElementAt(c).kind \in {"message", "bundle"}
    BY <1>2, <1>5, SoughtInside
  <2>3. Leads(c, p)
    BY <2>1, PlaceIs DEF Within
  <2>. QED  BY <1>4, <1>6, <2>1, <2>2, <2>3
<1>8. CASE Refused(t.el.elems[k], t.timetag, c)
  <2>1. c \in lost'
    BY <1>7, <1>8 DEF Refused
  <2>2. Lost(p)'
    BY <1>7, <2>1 DEF Lost
  <2>. QED  BY <2>2 DEF Kept, Settled
<1>9. ASSUME NEW x, Adds(x), ElementOf(x, t, k) PROVE Kept(p)'
  <2>1. /\ x \in QueuedData /\ x.path = c /\ x \in Live' /\ x.el = t.el.elems[k]
        /\ x.timetag = TimeOf(x.el, t.timetag) /\ x.timetag >= t.timetag /\ x.callbacks = NotDispatched
    BY <1>9 DEF Adds, ElementOf
  <2>2. ElementAt(c) = x.el
    BY <1>7, <2>1 DEF Admitted
  <2>3. CASE c = p
    <3>1. IsMessage(x) /\ ElementAt(p).kind = "message"
      BY <2>2, <2>3 DEF Sought, IsMessage
    <3>2. Owed(x) = x.el.methods /\ x.el.methods \in Nat
      BY <2>1, <3>1, OwedIs DEF Owed
    <3>3. \A j \in DOMAIN log : log[j].path # p
      <4>1. Leads(t.path, p)
        BY <1>5 DEF Within
      <4>. QED  BY <1>2, <1>3, <4>1
    <3>4. Calls(p)' = 0
      BY <1>1, <1>3, <3>3, CallsAre DEF Calls
    <3>5. Waits(x, p)'
      BY <2>1, <2>3, <3>1, <3>2, <3>4 DEF Waits, IsMessage
    <3>. QED  BY <2>1, <3>5 DEF Kept
  <2>4. CASE Within(c, p)
    <3>1. ~IsMessage(x)
      BY <1>7, <2>2, <2>4, SoughtInside DEF IsMessage
    <3>2. x # t
      <4>1. Len(c) = Len(t.path) + 1 /\ Len(t.path) \in Nat
        BY <1>2
      <4>2. c # t.path
        BY <4>1
      <4>. QED  BY <2>1, <4>2
    <3>3. UpTo(x)' = 1
      BY <1>1, <3>2 DEF UpTo
    <3>4. p[Len(c) + 1] \in Nat \ {0}
      BY <1>7, <2>4, Towards
    <3>5. UpTo(x)' <= p[Len(c) + 1]
      BY <3>3, <3>4
    <3>6. Holds(x, p)'
      BY <2>1, <2>4, <3>1, <3>5 DEF Holds, IsMessage
    <3>. QED  BY <2>1, <3>6 DEF Kept
  <2>. QED  BY <1>7, <2>3, <2>4
<1>. QED  BY <1>8, <1>9, <1>10 DEF t, k

LEMMA CompleteParseElement ==
  ASSUME Assumptions, ReceiveInv, ReceiveInv', OrderInv, OnceInv, CompleteInv, ParseElement
  PROVE  CompleteInv'
<1>1. /\ parse' # None /\ parse'.qd = parse.qd /\ parse'.next = parse.next + 1 /\ parse # None
      /\ UNCHANGED <<call, accepted, log>>
      /\ Live' = Live \/ \E x : Adds(x)
  BY ParseElementAdds
<1>2. Live \subseteq Live' /\ lost \subseteq lost'
  BY <1>1 DEF Adds, ParseElement, InsertBundleOrMessage, Dropping
<1>3. Quiet
  BY <1>1, <1>2 DEF Quiet, Grows
<1>4. ASSUME NEW p \in Place, NEW x \in Live, Sought(p), Holds(x, p) PROVE Kept(p)'
  <2>. DEFINE j == p[Len(x.path) + 1]
  <2>1. j \in Nat \ {0} /\ UpTo(x) <= j
    <3>1. x.path \in Seq(Nat) /\ x.path # <<>> /\ Within(x.path, p)
      BY <1>4, LiveFacts DEF Holds
    <3>. QED  BY <1>4, <3>1, Towards DEF Holds
  <2>2. CASE x # parse.qd
    <3>1. UpTo(x)' = UpTo(x)
      BY <1>1, <2>2 DEF UpTo
    <3>. QED  BY <1>2, <1>4, <2>1, <3>1, HoldsOn
  <2>3. CASE x = parse.qd /\ j = parse.next
    BY <1>4, <2>3, ElementKeeps
  <2>4. CASE x = parse.qd /\ j # parse.next
    <3>1. UpTo(x) = parse.next /\ UpTo(x)' = parse.next + 1 /\ parse.next \in Nat
      BY <1>1, <2>4, ParseFacts DEF UpTo
    <3>2. UpTo(x)' <= j
      BY <2>1, <2>4, <3>1
    <3>. QED  BY <1>2, <1>4, <3>2, HoldsOn
  <2>. QED  BY <2>2, <2>3, <2>4
<1>5. Keeps
  BY <1>2, <1>4, MessageStays DEF Keeps
<1>. QED  BY <1>1, <1>3, <1>5, CompleteQuiet
LEMMA CompleteParseDone ==
  ASSUME Assumptions, ReceiveInv, ReceiveInv', OrderInv, OnceInv, CompleteInv, ParseDone
  PROVE  CompleteInv'
<1>. DEFINE t == parse.qd
            k == parse.next
<1>1. /\ parse # None /\ parse' = None /\ UNCHANGED <<call, accepted, log, lost>>
      /\ q' = (IF parse.idle THEN OSCQueueRemoveCurrentScanItem(q) ELSE q)
      /\ k <= Len(t.el.elems) => t.el.elems[k].kind = "bad"
  BY DEF ParseDone
<1>2. /\ call = None \/ call.qd = None
      /\ parse.idle => q.scanIndex \in DOMAIN q.list /\ q.list[q.scanIndex] = t
      /\ t \in Live /\ k \in Nat \ {0} /\ t.el.elems \in Seq(Elements) /\ t.el.kind = "bundle"
      /\ parse.idle \in BOOLEAN
  BY <1>1, ParseFacts
<1>3. /\ q.list \in Seq(QueuedData) /\ Distinct(q.list) /\ Live' = Queued(q'.list)
      /\ Live = Loose(parse) \cup Queued(q.list)
  BY <1>1, <1>2, LiveFacts, NextLive DEF Loose
<1>4. \A x \in Live : x # t => x \in Live'
  <2>1. CASE parse.idle
    <3>1. q'.list = RemoveElement(q.scanIndex, q.list)
      BY <1>1, <2>1 DEF OSCQueueRemoveCurrentScanItem
    <3>2. Queued(q'.list) = Queued(q.list) \ {t}
      BY <1>2, <1>3, <2>1, <3>1, QueuedRemove
    <3>. QED  BY <1>1, <1>3, <2>1, <3>2 DEF Loose
  <2>2. CASE ~parse.idle
    BY <1>1, <1>3, <2>2 DEF Loose
  <2>. QED  BY <2>1, <2>2
<1>5. UpTo(t) = k /\ t.path \in Seq(Nat) /\ t.path # <<>> /\ ElementAt(t.path) = t.el
  BY <1>1, <1>2, LiveFacts DEF UpTo, OnceInv, Known
<1>6. \A x : UpTo(x)' <= UpTo(x)
  BY <1>1, UpToFirst
<1>. HIDE DEF t, k
<1>7. ASSUME NEW p \in Place, NEW x \in Live, Sought(p), Holds(x, p) PROVE Kept(p)'
  <2>. DEFINE j == p[Len(x.path) + 1]
  <2>1. x.path \in Seq(Nat) /\ x.path # <<>> /\ Within(x.path, p)
    BY <1>7, LiveFacts DEF Holds
  <2>2. j \in Nat \ {0} /\ UpTo(x) <= j
    BY <1>7, <2>1, Towards DEF Holds
  <2>3. CASE x # t
    <3>1. UpTo(x)' <= j
      BY <1>6, <2>2, UpToIs, UpToNext
    <3>. QED  BY <1>4, <1>7, <2>3, <3>1, HoldsOn
  <2>4. CASE x = t
    <3>1. ElementAt(Append(t.path, j)) = PartOf(t.el, j) /\ ElementAt(Append(t.path, j)).kind # "none"
      BY <1>5, <1>7, <2>1, <2>4, SoughtInside
    <3>. HIDE DEF j
    <3>2. j \in DOMAIN t.el.elems /\ \A i \in 1 .. j : t.el.elems[i].kind # "bad"
      BY <3>1 DEF PartOf, NoElement
    <3>3. k <= j /\ k \in 1 .. j /\ k <= Len(t.el.elems)
      BY <1>2, <1>5, <2>2, <2>4, <3>2
    <3>. QED  BY <1>1, <3>2, <3>3
  <2>. QED  BY <2>3, <2>4
<1>8. Keeps
  BY <1>2, <1>4, <1>7, MessageStays DEF Keeps, IsMessage
<1>. QED  BY <1>1, <1>8, CompleteQuiet DEF Quiet, Grows

(* A bundle is taken up, to be parsed.                                     *)
LEMMA BeginKeeps ==
  ASSUME Assumptions, ReceiveInv, ReceiveInv', OrderInv, OnceInv, CompleteInv,
         parse = None, parse' # None, parse'.next = 1, Live \subseteq Live',
         UNCHANGED <<accepted, log, lost>>
  PROVE  CompleteInv'
<1>1. \A x : UpTo(x)' = 1 /\ UpTo(x) = 1
  BY DEF UpTo
<1>2. Keeps
  BY <1>1, AllStay
<1>. QED  BY <1>2, CompleteQuiet DEF Quiet, Grows

LEMMA CompleteTakeBundle ==
  ASSUME Assumptions, ReceiveInv, ReceiveInv', OrderInv, OnceInv, CompleteInv, TakeBundle
  PROVE  CompleteInv'
<1>. DEFINE g == SmallestIndex(q.list)
            p == [qd |-> Earliest(q), next |-> 1, idle |-> FALSE]
<1>1. /\ call # None /\ parse = None /\ call.qd = None /\ q.list # <<>>
      /\ parse' = p /\ q' = OSCQueueRemoveEarliest(q)
      /\ UNCHANGED <<call, accepted, log, lost>>
  BY DEF TakeBundle, InLoop
<1>2. /\ Live = Queued(q.list) /\ q.list \in Seq(QueuedData) /\ Distinct(q.list)
      /\ q \in [list : Seq(QueuedData), scanIndex : Nat]
  BY <1>1, LiveFacts DEF Loose, ReceiveInv, Types
<1>3. g \in DOMAIN q.list /\ Earliest(q) = q.list[g]
  BY <1>1, <1>2, SmallestIndexInDomain DEF Earliest
<1>4. q'.list = RemoveElement(g, q.list)
  BY <1>1, <1>2 DEF OSCQueueRemoveEarliest
<1>5. parse' # None /\ parse'.next = 1 /\ Loose(parse') = {Earliest(q)}
  <2>1. p # None
    BY DEF Assumptions, NoneIsNoRecord
  <2>. QED  BY <1>1, <2>1 DEF Loose
<1>. HIDE DEF g, p
<1>6. Queued(q'.list) = Queued(q.list) \ {Earliest(q)}
  BY <1>2, <1>3, <1>4, QueuedRemove
<1>7. Live \subseteq Live'
  BY <1>1, <1>2, <1>5, <1>6, NextLive
<1>. QED  BY <1>1, <1>5, <1>7, BeginKeeps

(* A message x is dispatched; all others stay.                             *)
LEMMA DispatchKeeps ==
  ASSUME Assumptions, ReceiveInv, ReceiveInv', OrderInv, OnceInv, CompleteInv,
         NEW x \in Live, IsMessage(x), \A z \in Live : z # x => z \in Live',
         Handled(x), UNCHANGED <<parse, accepted, log>>, parse = None, lost \subseteq lost'
  PROVE  CompleteInv'
<1>1. BundlesStay
  BY UpToFirst DEF BundlesStay
<1>2. Keeps
  BY <1>1, BundlesKeep, MessageStays DEF Keeps
<1>. QED  BY <1>2, CompleteQuiet DEF Quiet, Grows

(* It is dispatched to all its methods, or was dropped.                    *)
LEMMA DispatchHandles ==
  ASSUME Assumptions, ReceiveInv, NEW x \in Live, IsMessage(x), x.callbacks = NotDispatched,
         NEW n, n = OSCDispatchMessage(x.el), Dropping(x.path, n < x.el.methods),
         n > 0 => [x EXCEPT !.callbacks = n] \in Live'
  PROVE  Handled(x)
<1>1. x \in QueuedData /\ x.el.methods \in Nat /\ freeNodes \in Nat /\ Owed(x) = x.el.methods
  BY InvFacts, OwedIs DEF Owed, ReceiveInv, Types
<1>2. n \in Nat /\ n <= x.el.methods
  BY <1>1 DEF OSCDispatchMessage, Min2
<1>3. CASE n < x.el.methods
  BY <1>3 DEF Handled, Dropping
<1>4. CASE n = x.el.methods /\ n = 0
  BY <1>1, <1>4 DEF Handled
<1>5. CASE n = x.el.methods /\ n > 0
  <2>. DEFINE y == [x EXCEPT !.callbacks = n]
  <2>1. y.path = x.path /\ y.el = x.el /\ y.callbacks = n
    BY <1>1 DEF QueuedData
  <2>. HIDE DEF y
  <2>2. Owed(y) = Owed(x)
    BY <1>1, <1>2, <1>5, <2>1 DEF Owed, NotDispatched
  <2>. QED  BY <1>5, <2>1, <2>2 DEF Handled, y
<1>. QED  BY <1>1, <1>2, <1>3, <1>4, <1>5
LEMMA CompleteDispatchEarly ==
  ASSUME Assumptions, ReceiveInv, ReceiveInv', OrderInv, OnceInv, CompleteInv, AtClient,
         NEW i \in DOMAIN q.list, HasWork(q.list[i]), DispatchEarly(i),
         UNCHANGED <<call, accepted, log>>
  PROVE  CompleteInv'
<1>. DEFINE x == q.list[i]
            n == OSCDispatchMessage(x.el)
            y == [x EXCEPT !.callbacks = n]
<1>1. /\ parse' = parse /\ Dropping(x.path, n < x.el.methods) /\ IsMessage(x)
      /\ \/ n > 0 /\ q' = [list |-> [q.list EXCEPT ![i].callbacks = n], scanIndex |-> i]
         \/ n = 0 /\ q' = OSCQueueRemoveCurrentScanItem([q EXCEPT !.scanIndex = i])
  BY DEF DispatchEarly, IsMessage
<1>2. /\ call = None /\ parse = None /\ Live = Queued(q.list) /\ q.list \in Seq(QueuedData)
      /\ q \in [list : Seq(QueuedData), scanIndex : Nat] /\ Distinct(q.list)
  BY IdleFacts
<1>3. x \in Live /\ x.callbacks = NotDispatched
  <2>1. x.el.kind # "bundle"
    BY <1>1 DEF IsMessage
  <2>. QED  BY <1>2, <2>1 DEF HasWork, Queued
<1>4. Live' = Queued(q'.list)
  BY <1>1, <1>2, NextLive DEF Loose
<1>5. n = 0 => q'.list = RemoveElement(i, q.list)
  BY <1>1, <1>2 DEF OSCQueueRemoveCurrentScanItem
<1>6. n > 0 => q'.list = [q.list EXCEPT ![i] = y]
  BY <1>1
<1>. HIDE DEF x, n, y
<1>7. n > 0 => y \in Live' /\ \A z \in Live : z # x => z \in Live'
  <2>. SUFFICES ASSUME n > 0 PROVE y \in Live' /\ \A z \in Live : z # x => z \in Live'
    OBVIOUS
  <2>1. /\ DOMAIN q'.list = DOMAIN q.list /\ q'.list[i] = y
        /\ \A j \in DOMAIN q.list : j # i => q'.list[j] = q.list[j]
    BY <1>2, <1>6
  <2>2. ASSUME NEW z \in Live, z # x PROVE z \in Live'
    <3>1. PICK j \in DOMAIN q.list : z = q.list[j]
      BY <1>2 DEF Queued
    <3>2. j # i
      BY <2>2, <3>1 DEF x
    <3>. QED  BY <1>4, <2>1, <3>1, <3>2 DEF Queued
  <2>. QED  BY <1>4, <2>1, <2>2 DEF Queued
<1>8. n = 0 => \A z \in Live : z # x => z \in Live'
  BY <1>2, <1>4, <1>5, QueuedRemove DEF x
<1>9. n > 0 \/ n = 0
  BY <1>1
<1>10. Handled(x)
  BY <1>1, <1>3, <1>7, DispatchHandles DEF n, y
<1>11. lost \subseteq lost' /\ parse' = parse /\ parse = None
  BY <1>1, <1>2 DEF Dropping
<1>. QED  BY <1>1, <1>3, <1>7, <1>8, <1>9, <1>10, <1>11, DispatchKeeps

LEMMA CompleteIdle ==
  ASSUME Assumptions, ReceiveInv, ReceiveInv', OrderInv, OnceInv, CompleteInv, OSCBeProductiveWhileWaiting
  PROVE  CompleteInv'
<1>1. AtClient /\ UNCHANGED <<call, accepted, log>>
  BY DEF OSCBeProductiveWhileWaiting
<1>2. /\ call = None /\ parse = None /\ Live = Queued(q.list) /\ q.list \in Seq(QueuedData)
      /\ q \in [list : Seq(QueuedData), scanIndex : Nat]
  BY <1>1, IdleFacts
<1>3. CASE q' = [q EXCEPT !.scanIndex = Max2(ScanFrom, Len(q.list))] /\ UNCHANGED <<parse, lost>>
  <2>1. q'.list = q.list
    BY <1>2, <1>3
  <2>. QED  BY <1>1, <1>2, <1>3, <2>1, CompleteCall
<1>4. ASSUME NEW i \in DOMAIN q.list, BeginIdleParse(i) PROVE CompleteInv'
  <2>1. /\ q'.list = q.list /\ UNCHANGED lost
        /\ parse' = [qd |-> q.list[i], next |-> 1, idle |-> TRUE]
    BY <1>2, <1>4 DEF BeginIdleParse
  <2>2. parse' # None /\ parse'.next = 1 /\ Loose(parse') = {}
    BY <2>1 DEF Assumptions, NoneIsNoRecord, Loose
  <2>3. Live \subseteq Live'
    BY <1>1, <1>2, <2>1, <2>2, NextLive
  <2>. QED  BY <1>1, <1>2, <2>1, <2>2, <2>3, BeginKeeps
<1>5. ASSUME NEW i \in DOMAIN q.list, HasWork(q.list[i]), DispatchEarly(i) PROVE CompleteInv'
  BY <1>1, <1>5, CompleteDispatchEarly
<1>. QED  BY <1>3, <1>4, <1>5 DEF OSCBeProductiveWhileWaiting, WorkAt

LEMMA CompleteTakeMessage ==
  ASSUME Assumptions, ReceiveInv, ReceiveInv', OrderInv, OnceInv, CompleteInv, TakeMessage
  PROVE  CompleteInv'
<1>. DEFINE g == SmallestIndex(q.list)
            x == Earliest(q)
            n == IF x.callbacks = NotDispatched THEN OSCDispatchMessage(x.el) ELSE x.callbacks
            y == [x EXCEPT !.callbacks = n]
<1>1. /\ call # None /\ parse = None /\ call.qd = None /\ q.list # <<>>
      /\ IsMessage(x) /\ q' = OSCQueueRemoveEarliest(q)
      /\ Dropping(x.path, x.callbacks = NotDispatched /\ n < x.el.methods)
      /\ n > 0 => call' = [call EXCEPT !.qd = y]
      /\ n > 0 \/ n = 0
      /\ UNCHANGED <<parse, accepted, log>>
  BY DEF TakeMessage, InLoop, IsMessage
<1>2. /\ Live = Queued(q.list) /\ q.list \in Seq(QueuedData) /\ Distinct(q.list)
      /\ q \in [list : Seq(QueuedData), scanIndex : Nat] /\ call \in CallTypes
  BY <1>1, LiveFacts DEF Loose, ReceiveInv, Types
<1>3. g \in DOMAIN q.list /\ x = q.list[g]
  BY <1>1, <1>2, SmallestIndexInDomain DEF Earliest
<1>4. q'.list = RemoveElement(g, q.list) /\ x \in QueuedData /\ x \in Live
  BY <1>1, <1>2, <1>3 DEF OSCQueueRemoveEarliest, Queued
<1>5. x.callbacks # NotDispatched => y = x
  BY <1>4 DEF QueuedData
<1>. HIDE DEF g, x, n
<1>6. Queued(q'.list) = Queued(q.list) \ {x}
  BY <1>2, <1>3, <1>4, QueuedRemove
<1>7. Queued(q'.list) \subseteq Live'
  BY <1>1, NextLive
<1>8. \A z \in Live : z # x => z \in Live'
  BY <1>2, <1>6, <1>7
<1>9. n > 0 => y \in Live'
  <2>. SUFFICES ASSUME n > 0 PROVE y \in Live'
    OBVIOUS
  <2>1. call'.qd = y /\ call' = [now |-> call'.now, tag |-> call'.tag, all |-> call'.all, qd |-> call'.qd]
    BY <1>1, <1>2 DEF CallTypes
  <2>2. y = [timetag |-> y.timetag, buf |-> y.buf, path |-> y.path, el |-> y.el, callbacks |-> y.callbacks]
    BY <1>4 DEF QueuedData
  <2>. HIDE DEF y
  <2>3. call' # None /\ y # None
    <3>1. call' # None
      BY <2>1 DEF Assumptions, NoneIsNoRecord
    <3>2. y # None
      BY <2>2 DEF Assumptions, NoneIsNoRecord
    <3>. QED  BY <3>1, <3>2
  <2>. QED  BY <2>1, <2>3, NextLive
<1>10. Handled(x)
  <2>1. CASE x.callbacks = NotDispatched
    <3>1. n = OSCDispatchMessage(x.el) /\ Dropping(x.path, n < x.el.methods)
      BY <1>1, <2>1 DEF n
    <3>. QED  BY <1>1, <1>4, <1>9, <2>1, <3>1, DispatchHandles
  <2>2. CASE x.callbacks # NotDispatched /\ n > 0
    BY <1>5, <1>9, <2>2 DEF Handled
  <2>3. CASE x.callbacks # NotDispatched /\ n = 0
    BY <2>3 DEF Handled, Owed, n
  <2>. QED  BY <1>1, <2>1, <2>2, <2>3
<1>11. lost \subseteq lost'
  BY <1>1 DEF Dropping
<1>. QED  BY <1>1, <1>4, <1>8, <1>10, <1>11, DispatchKeeps

LEMMA CompleteMessageDone ==
  ASSUME Assumptions, ReceiveInv, ReceiveInv', OrderInv, OnceInv, CompleteInv, MessageDone
  PROVE  CompleteInv'
<1>. DEFINE x == call.qd
<1>1. /\ call # None /\ x # None /\ call' = [call EXCEPT !.qd = None] /\ x.callbacks = 0
      /\ UNCHANGED <<q, parse, accepted, log, lost>>
  BY DEF MessageDone
<1>2. /\ parse = None /\ call \in CallTypes /\ Live = {x} \cup Queued(q.list)
      /\ IsMessage(x) /\ x \in Live
  BY <1>1, InHandFacts
<1>3. call'.qd = None
  BY <1>1, <1>2 DEF CallTypes
<1>4. Live' = Queued(q.list)
  BY <1>1, <1>2, <1>3, NextLive DEF Loose
<1>5. Handled(x)
  BY <1>1 DEF Handled, Owed, NotDispatched
<1>. HIDE DEF x
<1>6. \A z \in Live : z # x => z \in Live'
  BY <1>2, <1>4
<1>. QED  BY <1>1, <1>2, <1>5, <1>6, DispatchKeeps

(* A callback is called: one more call, and one less to come.              *)
LEMMA CallbackKeeps ==
  ASSUME Assumptions, ReceiveInv, OrderInv, OnceInv,
         NEW x \in QueuedData, NEW y \in QueuedData, NEW e \in Entry,
         x \in Live, y \in Live', \A z \in Live : z # x => z \in Live',
         IsMessage(x), x.callbacks > 0, Same(x, y), y.callbacks = x.callbacks - 1,
         UniquePaths(Live), parse = None, parse' = None,
         Grows, e.path = x.path, log' = Append(log, e), lost' = lost,
         NEW p \in Place, Sought(p), Kept(p)
  PROVE  Kept(p)'
<1>1. x.path = y.path /\ x.el = y.el /\ IsMessage(y)
  BY DEF Same, IsMessage
<1>2. log \in Seq(Entry) /\ Live \in SUBSET QueuedData /\ Known(x) /\ Affords(x)
  BY AtomicFacts, LiveFacts DEF OnceInv
<1>3. Calls(p)' = Calls(p) + (IF x.path = p THEN 1 ELSE 0) /\ Calls(p) \in Nat
  <2>1. CallsIn(Append(log, e), p) = CallsIn(log, p) + (IF e.path = p THEN 1 ELSE 0)
    BY <1>2, CallsMore
  <2>2. CallsIn(log, p) \in Nat
    BY <1>2, CallsAre
  <2>. QED  BY <2>1, <2>2 DEF Calls
<1>4. Asked(p)' = Asked(p) /\ (Lost(p) => Lost(p)')
  BY ElementKept, LostStays DEF Sought
<1>5. Owed(x) = x.callbacks /\ Owed(y) = x.callbacks - 1 /\ x.callbacks \in Int /\ x.el.methods \in Nat
  <2>1. x.callbacks \in Int
    BY DEF QueuedData
  <2>2. Owed(x) = x.callbacks /\ Owed(y) = x.callbacks - 1
    BY <2>1 DEF Owed, NotDispatched
  <2>. QED  BY <2>1, <2>2, OwedIs
<1>6. CASE Settled(p)
  <2>1. CASE x.path = p
    <3>1. Asked(p) = x.el.methods
      BY <1>2, <2>1 DEF Asked, Known, IsMessage
    <3>2. Calls(p) + Owed(x) <= x.el.methods
      BY <1>2, <2>1 DEF Affords
    <3>3. Calls(p) # Asked(p)
      BY <1>3, <1>5, <3>1, <3>2
    <3>. QED  BY <1>4, <1>6, <3>3 DEF Kept, Settled
  <2>2. CASE x.path # p
    BY <1>3, <1>4, <1>6, <2>2 DEF Kept, Settled
  <2>. QED  BY <2>1, <2>2
<1>7. ASSUME NEW w \in Live, Waits(w, p) PROVE Kept(p)'
  <2>1. CASE w = x
    <3>1. x.path = p /\ Calls(p) + Owed(x) = x.el.methods
      BY <1>7, <2>1 DEF Waits
    <3>2. Calls(p)' + Owed(y) = y.el.methods
      BY <1>1, <1>3, <1>5, <3>1, SMTT(20)
    <3>3. Waits(y, p)'
      BY <1>1, <3>1, <3>2 DEF Waits, IsMessage
    <3>. QED  BY <3>3 DEF Kept
  <2>2. CASE w # x
    <3>1. w.path = p /\ x.path # p
      BY <1>7, <2>2 DEF Waits, UniquePaths
    <3>2. Calls(p)' = Calls(p)
      BY <1>3, <3>1
    <3>3. Waits(w, p)' /\ w \in Live'
      BY <1>7, <2>2, <3>2 DEF Waits, IsMessage
    <3>. QED  BY <3>3 DEF Kept
  <2>. QED  BY <2>1, <2>2
<1>8. ASSUME NEW w \in Live, Holds(w, p) PROVE Kept(p)'
  <2>1. w # x
    BY <1>8 DEF Holds
  <2>2. UpTo(w)' = UpTo(w) /\ UpTo(w) <= p[Len(w.path) + 1]
    BY <1>8 DEF UpTo, Holds
  <2>. QED  BY <1>8, <2>1, <2>2, HoldsOn
<1>. QED  BY <1>6, <1>7, <1>8 DEF Kept

LEMMA CompleteCallCallback ==
  ASSUME Assumptions, ReceiveInv, ReceiveInv', OrderInv, OnceInv, OnceInv', CompleteInv, CallCallback
  PROVE  CompleteInv'
<1>1. PICK x, y, e :
        /\ x = call.qd /\ y = call'.qd /\ e = [path |-> x.path, tag |-> call.tag]
  OBVIOUS
<1>2. /\ call # None /\ x # None /\ call' # None /\ y # None /\ Same(x, y)
      /\ parse' = None /\ log' = Append(log, e)
      /\ Live' = {y} \cup Queued(q'.list)
      /\ \/ UNCHANGED <<q, accepted>>
         \/ \E z \in QueuedData :
              q'.list = Append(q.list, z) /\ z.path = <<Len(accepted) + 1>> /\ OfPacket(z)
  BY <1>1, CallbackAdds
<1>3. x.callbacks > 0 /\ call' = [call EXCEPT !.qd.callbacks = @ - 1] /\ lost' = lost
  BY <1>1 DEF CallCallback
<1>4. /\ IsMessage(x) /\ x \in Live /\ x \in QueuedData /\ Live = {x} \cup Queued(q.list)
      /\ UniquePaths(Live) /\ call \in CallTypes /\ parse = None
      /\ Live' \in SUBSET QueuedData /\ q.list \in Seq(QueuedData)
  BY <1>1, <1>2, InHandFacts, AtomicFacts, NextFacts
<1>5. y.callbacks = x.callbacks - 1 /\ y \in QueuedData /\ y \in Live'
  BY <1>1, <1>2, <1>3, <1>4 DEF CallTypes, QueuedData
<1>6. e \in Entry /\ e.path = x.path
  <2>1. call.tag \in Nat /\ x.path \in Seq(Nat)
    BY <1>2, <1>4, PathType DEF CallTypes
  <2>. QED  BY <1>1, <2>1 DEF Entry
<1>7. Grows
  BY <1>2 DEF Grows, OfPacket
<1>8. ASSUME NEW z \in QueuedData, q'.list = Append(q.list, z)
      PROVE  z \in Live' /\ Queued(q.list) \subseteq Live'
  <2>1. /\ DOMAIN q'.list = DOMAIN q.list \cup {Len(q.list) + 1}
        /\ q'.list[Len(q.list) + 1] = z /\ \A i \in DOMAIN q.list : q'.list[i] = q.list[i]
    BY <1>4, <1>8
  <2>. QED  BY <1>2, <2>1 DEF Queued
<1>9. \A w \in Live : w # x => w \in Live'
  <2>1. Queued(q.list) \subseteq Live'
    BY <1>2, <1>8
  <2>. QED  BY <1>4, <2>1
<1>10. ASSUME NEW p \in Place, p[1] \in DOMAIN accepted, Sought(p)' PROVE Kept(p)'
  <2>1. Sought(p)
    BY <1>7, <1>10, ElementKept DEF Sought
  <2>2. Kept(p)
    BY <2>1 DEF CompleteInv
  <2>. QED  BY <1>2, <1>3, <1>4, <1>5, <1>6, <1>7, <1>9, <2>1, <2>2, CallbackKeeps
<1>11. ASSUME NEW p \in Place, p[1] \notin DOMAIN accepted, Sought(p)' PROVE Kept(p)'
  <2>1. p[1] \in DOMAIN accepted'
    BY <1>11 DEF Sought
  <2>2. PICK z \in QueuedData : q'.list = Append(q.list, z) /\ z.path = <<Len(accepted) + 1>> /\ OfPacket(z)
    BY <1>2, <1>11, <2>1
  <2>3. p[1] = Len(accepted) + 1 /\ Len(accepted) + 1 \notin DOMAIN accepted
    BY <1>11, <2>1, <2>2, NewIndex DEF OfPacket
  <2>4. log \in Seq(Entry) /\ log' \in Seq(Entry)
    BY <1>2, <1>6, AtomicFacts
  <2>5. \A k \in DOMAIN log' : log'[k].path[1] # Len(accepted) + 1
    <3>1. \A k \in DOMAIN log' : (k \in DOMAIN log /\ log'[k] = log[k]) \/ log'[k].path = x.path
      BY <1>2, <1>6, <2>4
    <3>2. x.path[1] \in DOMAIN accepted /\ \A k \in DOMAIN log : log[k].path[1] \in DOMAIN accepted
      BY <1>4 DEF OnceInv, Known, LogKnown
    <3>. QED  BY <2>3, <3>1, <3>2
  <2>6. z \in Live'
    BY <1>8, <2>2
  <2>. QED  BY <1>2, <1>11, <2>2, <2>3, <2>4, <2>5, <2>6, NewKept
<1>. QED  BY <1>10, <1>11 DEF CompleteInv

LEMMA CompleteInit == ASSUME Assumptions, Init PROVE CompleteInv
<1>1. accepted = <<>>
  BY DEF Init, OSCInitReceive
<1>. QED  BY <1>1 DEF CompleteInv, Sought

LEMMA CompleteNext ==
  ASSUME Assumptions, ReceiveInv, ReceiveInv', OrderInv, OnceInv, OnceInv', CompleteInv, [Next]_vars
  PROVE  CompleteInv'
<1>1. CASE OSCAllocPacketBuffer \/ OSCFreePacket \/ Tick \/ UNCHANGED vars
  BY <1>1, CompleteStill DEF OSCAllocPacketBuffer, OSCFreePacket, Tick, vars
<1>2. CASE \E el \in Packets : OSCAcceptPacket(el)
  BY <1>2, CompleteAccept
<1>3. CASE OSCBeProductiveWhileWaiting
  BY <1>3, CompleteIdle
<1>4. CASE \E all \in BOOLEAN : OSCInvokeMessagesThatAreReady(all)
  BY <1>4, CompleteInvoke
<1>5. CASE ClientSchedules(1)
  BY <1>5, CompleteClientSchedules
<1>6. CASE ParseElement
  BY <1>6, CompleteParseElement
<1>7. CASE ParseDone
  BY <1>7, CompleteParseDone
<1>8. CASE TakeBundle
  BY <1>8, CompleteTakeBundle
<1>9. CASE TakeMessage
  BY <1>9, CompleteTakeMessage
<1>10. CASE CallCallback
  BY <1>10, CompleteCallCallback
<1>11. CASE MessageDone
  BY <1>11, CompleteMessageDone
<1>12. CASE LoopDone
  BY <1>12, CompleteLoopDone
<1>. QED
  BY <1>1, <1>2, <1>3, <1>4, <1>5, <1>6, <1>7, <1>8, <1>9, <1>10, <1>11, <1>12 DEF Next, InCall
LEMMA CompleteEffects ==
  ASSUME Assumptions, ReceiveInv, OrderInv, OnceInv, CompleteInv
  PROVE  EffectsComplete
<1>. SUFFICES ASSUME NEW n \in DOMAIN accepted, NEW r \in Positions, Gone(n)
              PROVE  Lost(<<n>> \o r) \/ Calls(<<n>> \o r) = Asked(<<n>> \o r)
  BY DEF EffectsComplete
<1>. DEFINE p == <<n>> \o r
<1>1. p \in Place /\ p[1] = n
  <2>1. accepted \in Seq([el : Elements, timetag : Nat])
    BY DEF ReceiveInv, Types
  <2>2. n \in Nat \ {0}
    BY <2>1
  <2>3. r \in Seq(Nat \ {0})
    BY DEF Assumptions, ReceiveAssumption
  <2>4. p \in Seq(Nat \ {0}) /\ Len(p) = 1 + Len(r) /\ Len(r) \in Nat /\ p[1] = n
    BY <2>2, <2>3
  <2>. HIDE DEF p
  <2>5. p # <<>>
    <3>1. Len(p) # 0
      BY <2>4
    <3>. QED  BY <3>1
  <2>. QED  BY <2>4, <2>5 DEF Place
<1>. HIDE DEF p
<1>2. CASE Sought(p)
  <2>1. ASSUME NEW x \in Live PROVE ~Waits(x, p) /\ ~Holds(x, p)
    <3>1. x.path[1] # p[1]
      BY <1>1 DEF Gone
    <3>2. x.path \in Seq(Nat) /\ x.path # <<>>
      BY LiveFacts
    <3>3. ~Within(x.path, p)
      BY <3>1, <3>2 DEF Within, Leads
    <3>. QED  BY <3>1, <3>3 DEF Waits, Holds
  <2>2. Settled(p)
    BY <1>1, <1>2, <2>1 DEF CompleteInv, Kept
  <2>. QED  BY <2>2 DEF Settled, p
<1>3. CASE ~Sought(p)
  <2>1. Asked(p) = 0
    BY <1>1, <1>3 DEF Sought, Asked
  <2>2. Calls(p) \in Nat /\ ((\A k \in DOMAIN log : log[k].path # p) => Calls(p) = 0)
    BY AtomicFacts, CallsAre DEF Calls
  <2>3. \A k \in DOMAIN log : log[k].path = p => Calls(p) <= 0
    BY <2>1 DEF OnceInv, EffectsAtMostOnce
  <2>4. Calls(p) = Asked(p)
    BY <2>1, <2>2, <2>3
  <2>. QED  BY <2>4 DEF p
<1>. QED  BY <1>2, <1>3

(* With any memory and in any order of parsing and dispatching: a message  *)
(* takes effect no more often than asked, and when its packet has left the *)
(* scheduler exactly as often, unless it, or a bundle around it, is in the *)
(* record of what the lack of memory has done (InsertBundleOrMessage,      *)
(* ParseBundle, OSCDispatchMessage, CallWholeCallbackList).                *)
THEOREM EffectsAsAskedTheorem == ASSUME Assumptions PROVE Spec => []EffectsAsAsked
<1>1. Init => ReceiveInv /\ OrderInv /\ OnceInv /\ CompleteInv
  BY InvInit, OrderInit, OnceInit, CompleteInit
<1>2. /\ ReceiveInv /\ OrderInv /\ OnceInv /\ CompleteInv /\ [Next]_vars
      => ReceiveInv' /\ OrderInv' /\ OnceInv' /\ CompleteInv'
  <2>. SUFFICES ASSUME ReceiveInv, OrderInv, OnceInv, CompleteInv, [Next]_vars
                PROVE  ReceiveInv' /\ OrderInv' /\ OnceInv' /\ CompleteInv'
    OBVIOUS
  <2>1. ReceiveInv'
    BY InvNext
  <2>2. OrderInv' /\ OnceInv'
    BY <2>1, OrderNext, OnceNext
  <2>. QED  BY <2>1, <2>2, CompleteNext
<1>3. ReceiveInv /\ OrderInv /\ OnceInv /\ CompleteInv => EffectsAsAsked
  BY CompleteEffects DEF OnceInv, EffectsAsAsked
<1>. QED  BY <1>1, <1>2, <1>3, PTL DEF Spec
=============================================================================
