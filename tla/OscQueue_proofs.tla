-------------------------- MODULE OscQueue_proofs --------------------------
(***************************************************************************)
(* Theorems about OscQueue, for every capacity, every set of names and     *)
(* every set of time tags: what the queue holds, which object leaves it    *)
(* first, and that a scan misses nothing although objects come and go      *)
(* while it goes on.                                                       *)
(***************************************************************************)
EXTENDS OscQueue, WellFoundedInduction, FiniteSetTheorems, FunctionTheorems,
        SequenceTheorems, TLAPS

-----------------------------------------------------------------------------
(* Lemmas about the operations.                                            *)

(* A set of numbers that is not empty has a least one.                     *)
LEMMA LeastNatural ==
  ASSUME NEW T \in SUBSET Nat, T # {}
  PROVE  \E x \in T : \A y \in T : x <= y
<1>. DEFINE R == OpToRel(<, Nat)
<1>1. \E x \in T : \A y \in T : <<y, x>> \notin R
  <2>. HIDE DEF R
  <2>1. IsWellFoundedOn(R, Nat)
    BY NatLessThanWellFounded DEF R
  <2>. QED  BY <2>1, WFMin
<1>2. R = {ss \in Nat \X Nat : ss[1] < ss[2]}
  BY DEF OpToRel
<1>. HIDE DEF R
<1>3. ASSUME NEW x \in T, NEW y \in T, <<y, x>> \notin R
      PROVE  x <= y
  BY <1>2, <1>3
<1>. QED  BY <1>1, <1>3

(* The object that leaves first has the smallest time tag, and is the      *)
(* first in the array that has it (OSCQueueRemoveEarliest).                *)
LEMMA SmallestIndexIsFirst ==
  ASSUME NEW list \in Seq(Object), list # <<>>
  PROVE  /\ SmallestIndex(list) \in DOMAIN list
         /\ \A j \in DOMAIN list :
              /\ list[SmallestIndex(list)].timetag <= list[j].timetag
              /\ j < SmallestIndex(list) =>
                   list[SmallestIndex(list)].timetag < list[j].timetag
<1>. DEFINE First(i) == \A j \in DOMAIN list :
                           /\ list[i].timetag <= list[j].timetag
                           /\ j < i => list[i].timetag < list[j].timetag
<1>1. DOMAIN list \in SUBSET Nat /\ DOMAIN list # {}
  OBVIOUS
<1>2. ASSUME NEW i \in DOMAIN list
      PROVE  list[i].timetag \in Nat
  <2>1. list[i] \in Object
    OBVIOUS
  <2>2. Times \subseteq Nat
    BY OscQueueAssumption, QueueAssumption
  <2>. QED  BY <2>1, <2>2 DEF Object
<1>3. PICK t \in TagsOf(list) : \A u \in TagsOf(list) : t <= u
  <2>1. TagsOf(list) \in SUBSET Nat
    BY <1>2 DEF TagsOf
  <2>2. TagsOf(list) # {}
    BY <1>1 DEF TagsOf
  <2>. QED  BY <2>1, <2>2, LeastNatural
<1>. DEFINE I == {i \in DOMAIN list : list[i].timetag = t}
<1>4. PICK i \in I : \A j \in I : i <= j
  <2>1. I \in SUBSET Nat /\ I # {}
    BY <1>1, <1>3 DEF TagsOf
  <2>. QED  BY <2>1, LeastNatural
<1>5. First(i)
  <2>. SUFFICES ASSUME NEW j \in DOMAIN list
                PROVE  /\ list[i].timetag <= list[j].timetag
                       /\ j < i => list[i].timetag < list[j].timetag
    OBVIOUS
  <2>1. t <= list[j].timetag
    BY <1>3 DEF TagsOf
  <2>2. j < i => list[j].timetag # t
    BY <1>1, <1>4
  <2>. QED  BY <2>1, <2>2, <1>2, <1>4
<1>. HIDE DEF First
<1>6. SmallestIndex(list) = CHOOSE k \in DOMAIN list : First(k)
  BY DEF SmallestIndex, First
<1>7. SmallestIndex(list) \in DOMAIN list /\ First(SmallestIndex(list))
  BY <1>4, <1>5, <1>6
<1>. QED  BY <1>7 DEF First

(* Removing a slot leaves the other objects, in their order.               *)
LEMMA RemoveElementShifts ==
  ASSUME NEW list \in Seq(Object), NEW goner \in DOMAIN list
  PROVE  /\ RemoveElement(goner, list) \in Seq(Object)
         /\ Len(RemoveElement(goner, list)) = Len(list) - 1
         /\ \A i \in 1 .. Len(list) - 1 :
              RemoveElement(goner, list)[i] = IF i < goner THEN list[i] ELSE list[i + 1]
BY DEF RemoveElement

-----------------------------------------------------------------------------
(* The queue holds no more than fits, and no object has the name of        *)
(* another one.                                                            *)
Distinct == \A i, j \in DOMAIN queue.list : queue.list[i].id = queue.list[j].id => i = j

Held == QueueTypeOK /\ Distinct

(* What the calls do to the array, for all of them at once.                *)
LEMMA ShrinksDistinct ==
  ASSUME QueueTypeOK, Distinct, NEW goner \in DOMAIN queue.list,
         queue'.list = RemoveElement(goner, queue.list)
  PROVE  /\ queue'.list \in Seq(Object) /\ Len(queue'.list) <= CAPACITY
         /\ Distinct'
<1>1. queue.list \in Seq(Object) /\ Len(queue.list) \in Nat /\ Len(queue.list) <= CAPACITY
  BY DEF QueueTypeOK
<1>2. /\ queue'.list \in Seq(Object)
      /\ Len(queue'.list) = Len(queue.list) - 1
      /\ \A i \in 1 .. Len(queue.list) - 1 :
           queue'.list[i] = IF i < goner THEN queue.list[i] ELSE queue.list[i + 1]
  BY <1>1, RemoveElementShifts
<1>3. Len(queue'.list) <= CAPACITY
  BY <1>1, <1>2, QueueAssumption
<1>4. ASSUME NEW i \in DOMAIN queue'.list, NEW j \in DOMAIN queue'.list, queue'.list[i].id = queue'.list[j].id
      PROVE  i = j
  <2>. DEFINE Was(k) == IF k < goner THEN k ELSE k + 1
  <2>1. i \in 1 .. Len(queue.list) - 1 /\ j \in 1 .. Len(queue.list) - 1 /\ goner \in Nat
    BY <1>1, <1>2
  <2>2. Was(i) \in DOMAIN queue.list /\ Was(j) \in DOMAIN queue.list
    BY <1>1, <2>1
  <2>3. queue'.list[i] = queue.list[Was(i)] /\ queue'.list[j] = queue.list[Was(j)]
    BY <1>2, <2>1
  <2>4. Was(i) = Was(j)
    BY <1>4, <2>2, <2>3 DEF Distinct
  <2>. QED  BY <2>1, <2>4
<1>. QED  BY <1>2, <1>3, <1>4 DEF Distinct

LEMMA GrowsDistinct ==
  ASSUME Held, NEW o \in Object, Insert(o)
  PROVE  /\ queue'.list = Append(queue.list, o) /\ queue'.scanIndex = queue.scanIndex
         /\ queue'.list \in Seq(Object) /\ Len(queue'.list) <= CAPACITY
         /\ Distinct'
<1>1. /\ queue \in [list : Seq(Object), scanIndex : Nat]
      /\ Len(queue.list) \in Nat /\ Len(queue.list) <= CAPACITY /\ Len(queue.list) # CAPACITY
      /\ queue' = [queue EXCEPT !.list = Append(queue.list, o)]
  BY DEF Held, QueueTypeOK, Insert, OSCQueueInsert, OSCQueueFull
<1>2. \A i \in DOMAIN queue.list : queue.list[i].id # o.id
  BY DEF Insert, InQueue
<1>3. /\ queue'.list = Append(queue.list, o) /\ queue'.scanIndex = queue.scanIndex
      /\ queue'.list \in Seq(Object) /\ Len(queue'.list) = Len(queue.list) + 1
      /\ \A i \in 1 .. Len(queue.list) : queue'.list[i] = queue.list[i]
      /\ queue'.list[Len(queue.list) + 1] = o
  BY <1>1, AppendProperties
<1>4. Len(queue'.list) <= CAPACITY
  BY <1>1, <1>3, QueueAssumption
<1>5. ASSUME NEW i \in DOMAIN queue'.list, NEW j \in DOMAIN queue'.list, queue'.list[i].id = queue'.list[j].id
      PROVE  i = j
  <2>1. i \in 1 .. Len(queue.list) + 1 /\ j \in 1 .. Len(queue.list) + 1
    BY <1>3
  <2>2. CASE i \in DOMAIN queue.list /\ j \in DOMAIN queue.list
    BY <1>1, <1>3, <1>5, <2>2 DEF Held, Distinct
  <2>3. CASE i \in DOMAIN queue.list /\ j = Len(queue.list) + 1
    BY <1>1, <1>2, <1>3, <1>5, <2>3
  <2>4. CASE i = Len(queue.list) + 1 /\ j \in DOMAIN queue.list
    BY <1>1, <1>2, <1>3, <1>5, <2>4
  <2>. QED  BY <1>1, <2>1, <2>2, <2>3, <2>4
<1>. QED  BY <1>3, <1>4, <1>5 DEF Distinct

(* Every call keeps to the types and to the capacity.                      *)
LEMMA StepHeld == Held /\ [QueueNext]_queueVars => Held'
<1>. SUFFICES ASSUME Held, [QueueNext]_queueVars
              PROVE  Held'
  OBVIOUS
<1>. USE DEF Held
<1>1. CASE UNCHANGED queueVars
  BY <1>1 DEF queueVars, QueueTypeOK, Distinct
<1>2. ASSUME NEW o \in Object, Insert(o)
      PROVE  Held'
  <2>1. queue' \in [list : Seq(Object), scanIndex : Nat]
    BY <1>2, GrowsDistinct DEF Insert, OSCQueueInsert, QueueTypeOK
  <2>2. UNCHANGED <<scanning, removed>> /\ returned' \subseteq Object
    BY <1>2 DEF Insert, QueueTypeOK
  <2>. QED  BY <1>2, <2>1, <2>2, GrowsDistinct DEF QueueTypeOK
<1>3. CASE RemoveEarliest
  <2>1. /\ queue.list \in Seq(Object) /\ queue.list # <<>>
        /\ queue' = [queue EXCEPT !.list = RemoveElement(SmallestIndex(queue.list), queue.list)]
        /\ removed' = queue.list[SmallestIndex(queue.list)]
        /\ UNCHANGED <<scanning, returned>>
    BY <1>3 DEF RemoveEarliest, OSCQueueRemoveEarliest, Earliest, QueueTypeOK
  <2>2. SmallestIndex(queue.list) \in DOMAIN queue.list
    BY <2>1, SmallestIndexIsFirst
  <2>3. queue'.list = RemoveElement(SmallestIndex(queue.list), queue.list)
    BY <2>1 DEF QueueTypeOK
  <2>4. queue'.list \in Seq(Object) /\ Len(queue'.list) <= CAPACITY /\ Distinct'
    BY <2>2, <2>3, ShrinksDistinct
  <2>5. queue' \in [list : Seq(Object), scanIndex : Nat]
    BY <2>1, <2>4 DEF QueueTypeOK
  <2>6. removed' \in Object
    BY <2>1, <2>2
  <2>. QED  BY <2>1, <2>4, <2>5, <2>6 DEF QueueTypeOK
<1>4. CASE ScanStart
  BY <1>4 DEF ScanStart, OSCQueueScanStart, QueueTypeOK, Distinct
<1>5. CASE ScanNext
  <2>1. queue'.list = queue.list /\ queue' \in [list : Seq(Object), scanIndex : Nat]
    BY <1>5 DEF ScanNext, OSCQueueScanNext, QueueTypeOK
  <2>2. ~ScanAtEnd(queue) => Scanned(queue) \in Object
    BY DEF ScanAtEnd, Scanned, QueueTypeOK
  <2>3. scanning' \in BOOLEAN /\ returned' \subseteq Object /\ removed' = removed
    BY <1>5, <2>2 DEF ScanNext, QueueTypeOK, ScanAtEnd
  <2>. QED  BY <2>1, <2>3 DEF QueueTypeOK, Distinct
<1>6. CASE RemoveCurrentScanItem
  <2>1. /\ queue.list \in Seq(Object) /\ queue.scanIndex \in DOMAIN queue.list
        /\ queue' = [list |-> RemoveElement(queue.scanIndex, queue.list), scanIndex |-> queue.scanIndex - 1]
        /\ returned' \subseteq Object
        /\ UNCHANGED <<scanning, removed>>
    BY <1>6 DEF RemoveCurrentScanItem, OSCQueueRemoveCurrentScanItem, QueueTypeOK
  <2>2. queue'.list \in Seq(Object) /\ Len(queue'.list) <= CAPACITY /\ Distinct'
    BY <2>1, ShrinksDistinct
  <2>3. queue.scanIndex - 1 \in Nat
    BY <2>1
  <2>4. queue' \in [list : Seq(Object), scanIndex : Nat]
    BY <2>1, <2>2, <2>3
  <2>. QED  BY <2>1, <2>2, <2>4 DEF QueueTypeOK
<1>. QED  BY <1>1, <1>2, <1>3, <1>4, <1>5, <1>6 DEF QueueNext, Inserts, ScanCalls

LEMMA InitHeld == QueueInit => Held
<1>. SUFFICES ASSUME QueueInit
              PROVE  Held
  OBVIOUS
<1>1. queue = [list |-> <<>>, scanIndex |-> 0]
  BY DEF QueueInit, OSCNewQueue
<1>2. queue.list = <<>> /\ <<>> \in Seq(Object) /\ Len(<<>>) <= CAPACITY
  BY <1>1, QueueAssumption
<1>3. QueueTypeOK
  <2>1. queue \in [list : Seq(Object), scanIndex : Nat]
    BY <1>1, <1>2
  <2>2. scanning \in BOOLEAN /\ returned \subseteq Object /\ removed \in Object \union {NoObject}
    BY DEF QueueInit
  <2>. QED  BY <1>2, <2>1, <2>2 DEF QueueTypeOK
<1>4. Distinct
  BY <1>2 DEF Distinct
<1>. QED  BY <1>3, <1>4 DEF Held

(* The queue keeps to its capacity and holds objects only, whatever order  *)
(* the calls come in (OSC-priority-queue.c).                               *)
THEOREM TypeCorrect == QueueSpec => []QueueTypeOK
<1>1. Held => QueueTypeOK
  BY DEF Held
<1>. QED  BY InitHeld, StepHeld, <1>1, PTL DEF QueueSpec

-----------------------------------------------------------------------------
(* The scan, as the receiver makes it: nothing leaves from the front while *)
(* it goes on.                                                             *)
ScanHeld == Held /\ ScanInvariant

LEMMA ReceiverStep == [ReceiverNext]_queueVars => [QueueNext]_queueVars
BY DEF ReceiverNext, QueueNext

LEMMA StepScanHeld == ScanHeld /\ [ReceiverNext]_queueVars => ScanHeld'
<1>. SUFFICES ASSUME Held, ScanInvariant, [ReceiverNext]_queueVars
              PROVE  ScanInvariant'
  BY ReceiverStep, StepHeld DEF ScanHeld
<1>1. queue.list \in Seq(Object) /\ queue.scanIndex \in Nat /\ Len(queue.list) \in Nat
  BY DEF Held, QueueTypeOK
<1>2. CASE UNCHANGED queueVars
  BY <1>2 DEF queueVars, ScanInvariant
<1>3. ASSUME NEW o \in Object, Insert(o)
      PROVE  ScanInvariant'
  <2>1. queue'.list = Append(queue.list, o) /\ queue'.scanIndex = queue.scanIndex
    BY <1>3, GrowsDistinct
  <2>2. Len(queue'.list) = Len(queue.list) + 1 /\ \A i \in 1 .. Len(queue.list) : queue'.list[i] = queue.list[i]
    BY <1>1, <2>1, AppendProperties
  <2>3. \A i \in DOMAIN queue.list : queue.list[i] # o
    BY <1>3 DEF Insert, InQueue
  <2>4. scanning' = scanning /\ returned' = returned \ {o}
    BY <1>3 DEF Insert
  <2>. QED  BY <1>1, <2>1, <2>2, <2>3, <2>4 DEF ScanInvariant
<1>4. CASE RemoveEarliest /\ ~scanning
  BY <1>4 DEF RemoveEarliest, ScanInvariant
<1>5. CASE ScanStart
  <2>1. queue'.list = queue.list /\ queue'.scanIndex = 0
    BY <1>5 DEF ScanStart, OSCQueueScanStart, Held, QueueTypeOK
  <2>. QED  BY <1>1, <2>1 DEF ScanInvariant
<1>6. CASE ScanNext
  <2>1. CASE ScanAtEnd(queue)
    BY <1>6, <2>1 DEF ScanNext, ScanInvariant
  <2>2. CASE ~ScanAtEnd(queue)
    <3>1. /\ scanning /\ queue.scanIndex < Len(queue.list)
          /\ queue'.list = queue.list /\ queue'.scanIndex = queue.scanIndex + 1
          /\ returned' = returned \union {queue.list[queue.scanIndex + 1]}
      BY <1>1, <1>6, <2>2 DEF ScanNext, ScanAtEnd, Scanned, OSCQueueScanNext, Held, QueueTypeOK
    <3>. QED  BY <1>1, <3>1 DEF ScanInvariant
  <2>. QED  BY <2>1, <2>2
<1>7. CASE RemoveCurrentScanItem
  <2>. DEFINE k == queue.scanIndex
  <2>1. /\ scanning /\ k \in DOMAIN queue.list
        /\ queue'.list = RemoveElement(k, queue.list) /\ queue'.scanIndex = k - 1
        /\ returned' = returned \ {queue.list[k]}
    BY <1>7 DEF RemoveCurrentScanItem, OSCQueueRemoveCurrentScanItem
  <2>2. /\ Len(queue'.list) = Len(queue.list) - 1
        /\ \A i \in 1 .. Len(queue.list) - 1 :
             queue'.list[i] = IF i < k THEN queue.list[i] ELSE queue.list[i + 1]
    BY <1>1, <2>1, RemoveElementShifts
  <2>3. k <= Len(queue.list) /\ \A i \in 1 .. k : queue.list[i] \in returned
    BY <2>1 DEF ScanInvariant
  <2>4. ASSUME NEW i \in 1 .. k - 1
        PROVE  queue'.list[i] \in returned'
    <3>1. i \in DOMAIN queue.list /\ i # k
      BY <1>1, <2>1
    <3>2. queue.list[i] # queue.list[k]
      BY <2>1, <3>1 DEF Held, Distinct
    <3>3. queue'.list[i] = queue.list[i]
      BY <1>1, <2>1, <2>2
    <3>. QED  BY <1>1, <2>1, <2>3, <3>2, <3>3
  <2>. QED  BY <1>1, <2>1, <2>2, <2>3, <2>4 DEF ScanInvariant
<1>. QED  BY <1>2, <1>3, <1>4, <1>5, <1>6, <1>7 DEF ReceiverNext, Inserts, ScanCalls

LEMMA InitScanHeld == QueueInit => ScanHeld
BY InitHeld DEF ScanHeld, QueueInit, ScanInvariant

(* The slots that a scan has passed hold only what it has returned, and it *)
(* never runs past the end (OSCQueueScanNext,                              *)
(* OSCQueueRemoveCurrentScanItem).                                         *)
THEOREM ScanPassesReturned == ReceiverSpec => []ScanInvariant
<1>1. ScanHeld => ScanInvariant
  BY DEF ScanHeld
<1>. QED  BY InitScanHeld, StepScanHeld, <1>1, PTL DEF ReceiverSpec

LEMMA StepScanIsComplete ==
  ScanHeld /\ [ReceiverNext]_queueVars => [scanning /\ ~scanning' => InQueue \subseteq returned]_queueVars
<1>. SUFFICES ASSUME ScanHeld, ReceiverNext, scanning, ~scanning'
              PROVE  InQueue \subseteq returned
  OBVIOUS
<1>1. ScanNext /\ ScanAtEnd(queue)
  BY DEF ReceiverNext, Inserts, Insert, RemoveEarliest, ScanCalls, ScanStart, ScanNext,
         RemoveCurrentScanItem
<1>2. queue.scanIndex \in Nat /\ Len(queue.list) \in Nat /\ DOMAIN queue.list = 1 .. Len(queue.list)
  BY DEF ScanHeld, Held, QueueTypeOK
<1>3. \A i \in DOMAIN queue.list : queue.list[i] \in returned
  BY <1>1, <1>2 DEF ScanHeld, ScanInvariant, ScanAtEnd
<1>. QED  BY <1>3 DEF InQueue

(* A scan that ends has returned all that is then in the queue: no message *)
(* is passed over because another one was dispatched, or scheduled, while  *)
(* the scan went on (OSCQueueScanNext).                                    *)
THEOREM ScanMissesNothing == ReceiverSpec => ScanIsComplete
<1>. QED  BY InitScanHeld, StepScanHeld, StepScanIsComplete, PTL DEF ReceiverSpec, ScanIsComplete

-----------------------------------------------------------------------------
(* The array implements the priority queue.                                *)

(* As many objects as slots are taken: no object is in two.                *)
LEMMA SlotsOfObjects ==
  ASSUME Held
  PROVE  IsFiniteSet(InQueue) /\ Cardinality(InQueue) = Len(queue.list)
<1>1. queue.list \in Seq(Object) /\ Len(queue.list) \in Nat /\ DOMAIN queue.list = 1 .. Len(queue.list)
  BY DEF Held, QueueTypeOK
<1>2. queue.list \in Bijection(1 .. Len(queue.list), InQueue)
  <2>1. queue.list \in [1 .. Len(queue.list) -> InQueue]
    BY <1>1 DEF InQueue
  <2>2. \A i, j \in 1 .. Len(queue.list) : queue.list[i] = queue.list[j] => i = j
    BY <1>1 DEF Held, Distinct
  <2>3. \A p \in InQueue : \E i \in 1 .. Len(queue.list) : queue.list[i] = p
    BY <1>1 DEF InQueue
  <2>. QED  BY <2>1, <2>2, <2>3, Fun_IsBij
<1>3. IsFiniteSet(1 .. Len(queue.list)) /\ Cardinality(1 .. Len(queue.list)) = Len(queue.list)
  <2>. DEFINE n == Len(queue.list)
  <2>1. n \in Nat /\ n \in Int /\ 1 \in Int
    BY <1>1
  <2>. HIDE DEF n
  <2>2. IsFiniteSet(1 .. n) /\ Cardinality(1 .. n) = IF 1 > n THEN 0 ELSE n - 1 + 1
    BY <2>1, FS_Interval
  <2>3. IsFiniteSet(1 .. n) /\ Cardinality(1 .. n) = n
    BY <2>1, <2>2
  <2>. QED  BY <2>3 DEF n
<1>4. ExistsBijection(1 .. Len(queue.list), InQueue)
  BY <1>2 DEF ExistsBijection
<1>. QED  BY <1>3, <1>4, FS_Bijection

(* Which object is before which, in terms of the slots.                    *)
LEMMA InOrderSlots ==
  ASSUME Held, NEW i \in DOMAIN queue.list, NEW j \in DOMAIN queue.list
  PROVE  <<queue.list[i], queue.list[j]>> \in InOrder
           <=> i < j /\ queue.list[i].timetag = queue.list[j].timetag
<1>1. queue.list[i] \in InQueue /\ queue.list[j] \in InQueue
  BY DEF InQueue
<1>2. ASSUME NEW k \in DOMAIN queue.list, NEW l \in DOMAIN queue.list, k < l,
             <<queue.list[i], queue.list[j]>> = <<queue.list[k], queue.list[l]>>
      PROVE  i < j
  <2>1. queue.list[i] = queue.list[k] /\ queue.list[j] = queue.list[l]
    BY <1>2
  <2>2. i = k /\ j = l
    BY <2>1 DEF Held, Distinct
  <2>. QED  BY <1>2, <2>2
<1>. QED  BY <1>1, <1>2 DEF InOrder

LEMMA InOrderSlotsNext ==
  ASSUME Held', NEW i \in DOMAIN queue'.list, NEW j \in DOMAIN queue'.list
  PROVE  <<queue'.list[i], queue'.list[j]>> \in InOrder'
           <=> i < j /\ queue'.list[i].timetag = queue'.list[j].timetag
<1>1. queue'.list[i] \in InQueue' /\ queue'.list[j] \in InQueue'
  BY DEF InQueue
<1>2. ASSUME NEW k \in DOMAIN queue'.list, NEW l \in DOMAIN queue'.list, k < l,
             <<queue'.list[i], queue'.list[j]>> = <<queue'.list[k], queue'.list[l]>>
      PROVE  i < j
  <2>1. queue'.list[i] = queue'.list[k] /\ queue'.list[j] = queue'.list[l]
    BY <1>2
  <2>2. i = k /\ j = l
    BY <2>1 DEF Held, Distinct
  <2>. QED  BY <1>2, <2>2
<1>. QED  BY <1>1, <1>2 DEF InOrder

(* What a new object at the end of the array adds to the order.            *)
LEMMA AppendedLast ==
  ASSUME Held, NEW o \in Object, Insert(o)
  PROVE  Queue!Insert(o)
<1>1. /\ queue.list \in Seq(Object) /\ Len(queue.list) \in Nat /\ DOMAIN queue.list = 1 .. Len(queue.list)
      /\ Len(queue.list) <= CAPACITY /\ Len(queue.list) # CAPACITY /\ CAPACITY \in Nat
  BY QueueAssumption DEF Held, QueueTypeOK, Insert, OSCQueueFull
<1>2. queue'.list = Append(queue.list, o)
  BY GrowsDistinct
<1>3. /\ Len(queue'.list) = Len(queue.list) + 1 /\ DOMAIN queue'.list = 1 .. Len(queue.list) + 1
      /\ \A i \in 1 .. Len(queue.list) : queue'.list[i] = queue.list[i]
      /\ queue'.list[Len(queue.list) + 1] = o
  BY <1>1, <1>2, AppendProperties
<1>4. InQueue' = InQueue \union {o}
  <2>1. \A p : p \in InQueue' <=> \E i \in 1 .. Len(queue.list) + 1 : p = queue'.list[i]
    BY <1>3 DEF InQueue
  <2>2. \A p : p \in InQueue <=> \E i \in 1 .. Len(queue.list) : p = queue.list[i]
    BY <1>1 DEF InQueue
  <2>. QED  BY <1>1, <1>3, <2>1, <2>2, SMTT(20)
<1>5. Held'
  BY StepHeld DEF QueueNext, Inserts
<1>6. InOrder' = InOrder \union ({p \in InQueue : p.timetag = o.timetag} \X {o})
  <2>1. ASSUME NEW p \in InQueue, NEW r \in InQueue
        PROVE  <<p, r>> \in InOrder' <=> <<p, r>> \in InOrder
    <3>1. PICK i \in DOMAIN queue.list, j \in DOMAIN queue.list : p = queue.list[i] /\ r = queue.list[j]
      BY DEF InQueue
    <3>2. i \in DOMAIN queue'.list /\ j \in DOMAIN queue'.list /\ queue'.list[i] = p /\ queue'.list[j] = r
      BY <1>1, <1>3, <3>1
    <3>3. <<p, r>> \in InOrder <=> i < j /\ p.timetag = r.timetag
      BY <3>1, InOrderSlots
    <3>4. <<queue'.list[i], queue'.list[j]>> \in InOrder' <=> i < j /\ queue'.list[i].timetag = queue'.list[j].timetag
      BY <1>5, <3>2, InOrderSlotsNext
    <3>. QED  BY <3>2, <3>3, <3>4
  <2>2. ASSUME NEW p \in InQueue
        PROVE  <<p, o>> \in InOrder' <=> p.timetag = o.timetag
    <3>1. PICK i \in DOMAIN queue.list : p = queue.list[i]
      BY DEF InQueue
    <3>2. /\ i \in DOMAIN queue'.list /\ queue'.list[i] = p /\ i < Len(queue.list) + 1
          /\ Len(queue.list) + 1 \in DOMAIN queue'.list
      BY <1>1, <1>3, <3>1
    <3>3. <<queue'.list[i], queue'.list[Len(queue.list) + 1]>> \in InOrder'
            <=> i < Len(queue.list) + 1 /\ queue'.list[i].timetag = queue'.list[Len(queue.list) + 1].timetag
      BY <1>5, <3>2, InOrderSlotsNext
    <3>. QED  BY <1>3, <3>2, <3>3
  <2>3. ASSUME NEW r \in InQueue'
        PROVE  <<o, r>> \notin InOrder'
    <3>1. PICK j \in DOMAIN queue'.list : r = queue'.list[j]
      BY DEF InQueue
    <3>2. Len(queue.list) + 1 \in DOMAIN queue'.list /\ ~(Len(queue.list) + 1 < j)
      BY <1>1, <1>3, <3>1
    <3>3. <<queue'.list[Len(queue.list) + 1], queue'.list[j]>> \in InOrder'
            <=> Len(queue.list) + 1 < j /\ queue'.list[Len(queue.list) + 1].timetag = queue'.list[j].timetag
      BY <1>5, <3>1, <3>2, InOrderSlotsNext
    <3>. QED  BY <1>3, <3>1, <3>2, <3>3
  <2>4. InOrder' \subseteq InQueue' \X InQueue' /\ InOrder \subseteq InQueue \X InQueue
    BY DEF InOrder
  <2>5. o \notin InQueue
    BY DEF Insert
  <2>6. ASSUME NEW pair \in InOrder'
        PROVE  pair \in InOrder \union ({p \in InQueue : p.timetag = o.timetag} \X {o})
    <3>1. PICK p \in InQueue', r \in InQueue' : pair = <<p, r>>
      BY <2>4, <2>6
    <3>2. p # o
      BY <2>3, <2>6, <3>1
    <3>3. p \in InQueue /\ (r \in InQueue \/ r = o)
      BY <1>4, <3>1, <3>2
    <3>. QED  BY <2>1, <2>2, <2>6, <3>1, <3>3
  <2>7. ASSUME NEW pair \in InOrder
        PROVE  pair \in InOrder'
    <3>1. PICK p \in InQueue, r \in InQueue : pair = <<p, r>>
      BY <2>4, <2>7
    <3>. QED  BY <2>1, <2>7, <3>1
  <2>8. ASSUME NEW pair \in {p \in InQueue : p.timetag = o.timetag} \X {o}
        PROVE  pair \in InOrder'
    <3>1. PICK p \in InQueue : pair = <<p, o>> /\ p.timetag = o.timetag
      BY <2>8
    <3>. QED  BY <2>2, <3>1
  <2>. QED  BY <2>6, <2>7, <2>8
<1>7. Cardinality(InQueue) < CAPACITY
  BY <1>1, SlotsOfObjects
<1>8. \A p \in InQueue : p.id # o.id
  BY DEF Insert
<1>9. removed' = removed
  BY DEF Insert
<1>10. \A S : Queue!Cardinality(S) = Cardinality(S)
  BY DEF Queue!Cardinality, Cardinality
<1>. QED  BY <1>4, <1>6, <1>7, <1>8, <1>9, <1>10 DEF Queue!Insert

(* Taking an object out of its slot is its leaving: the others keep their  *)
(* order (RemoveElement).                                                  *)
LEMMA RemovedLeaves ==
  ASSUME Held, Held', NEW goner \in DOMAIN queue.list,
         queue'.list = RemoveElement(goner, queue.list)
  PROVE  Queue!Leaves(queue.list[goner])
<1>. DEFINE o == queue.list[goner]
            Now(k) == IF k < goner THEN k ELSE k - 1
<1>1. /\ queue.list \in Seq(Object) /\ Len(queue.list) \in Nat /\ DOMAIN queue.list = 1 .. Len(queue.list)
      /\ goner \in Nat
  BY DEF Held, QueueTypeOK
<1>2. /\ Len(queue'.list) = Len(queue.list) - 1 /\ DOMAIN queue'.list = 1 .. Len(queue.list) - 1
      /\ \A i \in 1 .. Len(queue.list) - 1 :
           queue'.list[i] = IF i < goner THEN queue.list[i] ELSE queue.list[i + 1]
  <2>1. /\ queue'.list \in Seq(Object) /\ Len(queue'.list) = Len(queue.list) - 1
        /\ \A i \in 1 .. Len(queue.list) - 1 :
             queue'.list[i] = IF i < goner THEN queue.list[i] ELSE queue.list[i + 1]
    BY <1>1, RemoveElementShifts
  <2>. QED  BY <2>1
<1>3. ASSUME NEW i \in DOMAIN queue.list, i # goner
      PROVE  Now(i) \in DOMAIN queue'.list /\ queue'.list[Now(i)] = queue.list[i]
  <2>1. i \in 1 .. Len(queue.list) /\ goner \in 1 .. Len(queue.list)
    BY <1>1
  <2>2. CASE i < goner
    <3>1. Now(i) = i /\ i \in 1 .. Len(queue.list) - 1
      BY <1>1, <2>1, <2>2
    <3>. QED  BY <1>2, <2>2, <3>1
  <2>3. CASE ~(i < goner)
    <3>1. /\ Now(i) = i - 1 /\ i - 1 \in 1 .. Len(queue.list) - 1
          /\ ~(i - 1 < goner) /\ i - 1 + 1 = i
      BY <1>1, <1>3, <2>1, <2>3
    <3>2. queue'.list[i - 1] = queue.list[i - 1 + 1]
      BY <1>2, <3>1
    <3>. QED  BY <1>2, <3>1, <3>2
  <2>. QED  BY <2>2, <2>3
<1>4. ASSUME NEW i \in DOMAIN queue'.list
      PROVE  \E k \in DOMAIN queue.list : k # goner /\ queue'.list[i] = queue.list[k]
  <2>1. i \in 1 .. Len(queue.list) - 1
    BY <1>2
  <2>2. i \in DOMAIN queue.list /\ i + 1 \in DOMAIN queue.list
    BY <1>1, <2>1
  <2>3. CASE i < goner
    BY <1>1, <1>2, <2>1, <2>2, <2>3
  <2>4. CASE ~(i < goner)
    <3>1. i + 1 # goner
      BY <1>1, <2>1, <2>4
    <3>. QED  BY <1>2, <2>1, <2>2, <2>4, <3>1
  <2>. QED  BY <2>3, <2>4
<1>5. \A i \in DOMAIN queue.list : i # goner => queue.list[i] # o
  BY DEF Held, Distinct
<1>6. InQueue' = InQueue \ {o}
  <2>1. \A p \in InQueue' : p \in InQueue \ {o}
    BY <1>4, <1>5 DEF InQueue
  <2>2. ASSUME NEW p \in InQueue \ {o}
        PROVE  p \in InQueue'
    <3>1. PICK i \in DOMAIN queue.list : p = queue.list[i] /\ i # goner
      BY DEF InQueue
    <3>. QED  BY <1>3, <3>1 DEF InQueue
  <2>. QED  BY <2>1, <2>2
<1>7. ASSUME NEW p \in InQueue', NEW r \in InQueue'
      PROVE  <<p, r>> \in InOrder' <=> <<p, r>> \in InOrder
  <2>1. PICK i \in DOMAIN queue.list, j \in DOMAIN queue.list : p = queue.list[i] /\ r = queue.list[j]
    BY <1>6 DEF InQueue
  <2>2. i # goner /\ j # goner
    BY <1>6, <2>1
  <2>3. /\ Now(i) \in DOMAIN queue'.list /\ queue'.list[Now(i)] = p
        /\ Now(j) \in DOMAIN queue'.list /\ queue'.list[Now(j)] = r
    BY <1>3, <2>1, <2>2
  <2>4. Now(i) < Now(j) <=> i < j
    BY <1>1, <2>1, <2>2
  <2>5. <<p, r>> \in InOrder <=> i < j /\ p.timetag = r.timetag
    BY <2>1, InOrderSlots
  <2>. HIDE DEF Now
  <2>6. <<queue'.list[Now(i)], queue'.list[Now(j)]>> \in InOrder'
          <=> Now(i) < Now(j) /\ queue'.list[Now(i)].timetag = queue'.list[Now(j)].timetag
    BY <2>3, InOrderSlotsNext
  <2>. QED  BY <2>3, <2>4, <2>5, <2>6
<1>8. InOrder' \subseteq InQueue' \X InQueue' /\ InOrder \subseteq InQueue \X InQueue
  BY DEF InOrder
<1>. HIDE DEF o
<1>9. InOrder' = {pair \in InOrder : o \notin {pair[1], pair[2]}}
  <2>1. ASSUME NEW pair \in InOrder'
        PROVE  pair \in InOrder /\ o \notin {pair[1], pair[2]}
    <3>1. PICK p \in InQueue', r \in InQueue' : pair = <<p, r>>
      BY <1>8, <2>1
    <3>. QED  BY <1>6, <1>7, <2>1, <3>1
  <2>2. ASSUME NEW pair \in InOrder, o \notin {pair[1], pair[2]}
        PROVE  pair \in InOrder'
    <3>1. PICK p \in InQueue, r \in InQueue : pair = <<p, r>>
      BY <1>8, <2>2
    <3>. QED  BY <1>6, <1>7, <2>2, <3>1
  <2>. QED  BY <2>1, <2>2
<1>. QED  BY <1>6, <1>9 DEF Queue!Leaves, o

(* The object in the slot that OSCQueueRemoveEarliest empties is the one   *)
(* that has to leave first.                                                *)
LEMMA EarliestIsFirst ==
  ASSUME Held, RemoveEarliest
  PROVE  \E o \in InQueue : Queue!TakeFirst(o)
<1>. DEFINE k == SmallestIndex(queue.list)
            o == queue.list[k]
<1>1. queue.list \in Seq(Object) /\ queue.list # <<>> /\ queue'.list = RemoveElement(k, queue.list) /\ removed' = o
  BY DEF RemoveEarliest, OSCQueueRemoveEarliest, Earliest, Held, QueueTypeOK
<1>2. /\ k \in DOMAIN queue.list
      /\ \A j \in DOMAIN queue.list : /\ o.timetag <= queue.list[j].timetag
                                      /\ j < k => o.timetag < queue.list[j].timetag
  <2>. HIDE DEF k
  <2>. QED  BY <1>1, SmallestIndexIsFirst DEF k
<1>. HIDE DEF k
<1>3. Held'
  BY StepHeld DEF QueueNext
<1>4. Queue!Leaves(o)
  BY <1>1, <1>2, <1>3, RemovedLeaves
<1>5. ASSUME NEW p \in InQueue \ {o}
      PROVE  o.timetag < p.timetag \/ (o.timetag = p.timetag /\ <<o, p>> \in InOrder)
  <2>1. PICK j \in DOMAIN queue.list : p = queue.list[j] /\ j # k
    BY DEF InQueue
  <2>2. o.timetag \in Nat /\ p.timetag \in Nat /\ j \in Nat /\ k \in Nat
    <3>1. o \in Object /\ p \in Object
      BY <1>1, <1>2, <2>1
    <3>2. Times \subseteq Nat
      BY OscQueueAssumption, QueueAssumption
    <3>3. o.timetag \in Nat /\ p.timetag \in Nat
      BY <3>1, <3>2 DEF Object
    <3>. QED  BY <1>1, <1>2, <2>1, <3>3
  <2>3. <<o, p>> \in InOrder <=> k < j /\ o.timetag = p.timetag
    BY <1>2, <2>1, InOrderSlots
  <2>. QED  BY <1>2, <2>1, <2>2, <2>3
<1>6. o \in InQueue
  BY <1>2 DEF InQueue
<1>. HIDE DEF o
<1>7. Queue!TakeFirst(o)
  BY <1>1, <1>4, <1>5 DEF Queue!TakeFirst, o
<1>. QED  BY <1>6, <1>7

LEMMA StepQueue == Held /\ [QueueNext]_queueVars => [Queue!Next]_(Queue!vars)
<1>. SUFFICES ASSUME Held, [QueueNext]_queueVars
              PROVE  Queue!Next \/ UNCHANGED <<InQueue, InOrder, removed>>
  BY DEF Queue!vars
<1>1. ASSUME queue'.list = queue.list
      PROVE  InQueue' = InQueue /\ InOrder' = InOrder
  BY <1>1 DEF InQueue, InOrder
<1>2. CASE UNCHANGED queueVars
  BY <1>1, <1>2 DEF queueVars
<1>3. ASSUME NEW o \in Object, Insert(o)
      PROVE  Queue!Next
  <2>1. Queue!Insert(o) /\ o \in Queue!Object
    BY <1>3, AppendedLast DEF Object, Queue!Object
  <2>. QED  BY <2>1 DEF Queue!Next
<1>4. CASE RemoveEarliest
  BY <1>4, EarliestIsFirst DEF Queue!Next
<1>5. CASE ScanStart
  BY <1>1, <1>5 DEF ScanStart, OSCQueueScanStart, Held, QueueTypeOK
<1>6. CASE ScanNext
  BY <1>1, <1>6 DEF ScanNext, OSCQueueScanNext, Held, QueueTypeOK
<1>7. CASE RemoveCurrentScanItem
  <2>1. /\ queue.scanIndex \in DOMAIN queue.list
        /\ queue'.list = RemoveElement(queue.scanIndex, queue.list)
        /\ removed' = removed
    BY <1>7 DEF RemoveCurrentScanItem, OSCQueueRemoveCurrentScanItem
  <2>2. Held'
    BY StepHeld
  <2>3. Queue!Withdraw(queue.list[queue.scanIndex])
    BY <2>1, <2>2, RemovedLeaves DEF Queue!Withdraw
  <2>4. queue.list[queue.scanIndex] \in InQueue
    BY <2>1 DEF InQueue
  <2>. QED  BY <2>3, <2>4 DEF Queue!Next
<1>. QED  BY <1>2, <1>3, <1>4, <1>5, <1>6, <1>7 DEF QueueNext, Inserts, ScanCalls

(* The array is a priority queue, first come first served among equal time *)
(* tags, in whatever order the calls come: RemoveElement closes the gap    *)
(* from behind instead of filling it with the last object, and the search  *)
(* for the smallest tag keeps the first it finds (OSC-priority-queue.c).   *)
THEOREM QueueImplemented == QueueSpec => QueueImplementsPriorityQueue
<1>1. QueueInit => Queue!Init
  BY DEF QueueInit, OSCNewQueue, InQueue, InOrder, Queue!Init
<1>. QED  BY InitHeld, StepHeld, StepQueue, <1>1, PTL
             DEF QueueSpec, QueueImplementsPriorityQueue, Queue!Spec
=============================================================================
