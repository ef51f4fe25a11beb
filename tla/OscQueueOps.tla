---------------------------- MODULE OscQueueOps ----------------------------
(***************************************************************************)
(* The data structure of OSC-Kit/OSC-priority-queue.c: an unsorted array   *)
(* of scheduled objects and an index for scanning it.  The operators are   *)
(* shared by OscQueue, which studies the queue alone, and by OscReceive,   *)
(* whose scheduler it is.                                                  *)
(*                                                                         *)
(* A queue is a record: list, the occupied part of the array (the field n  *)
(* of the source is Len(list)), and scanIndex, the number of slots the     *)
(* scan has passed (the index of the next slot, in C).  An object is a     *)
(* record with at least a field timetag.                                   *)
(***************************************************************************)
EXTENDS Naturals, Sequences

CONSTANTS
    CAPACITY,   \* length of the array (1000 in the source)
    Biggest     \* OSCTT_BiggestPossibleTimeTag()

ASSUME QueueAssumption == CAPACITY \in Nat \ {0} /\ Biggest \in Nat

(* scanIndex is left uninitialised by the source; every value it may have  *)
(* is overwritten by OSCQueueScanStart before it is read.                  *)
OSCNewQueue == [list |-> <<>>, scanIndex |-> 0]

OSCQueueFull(q) == Len(q.list) = CAPACITY

OSCQueueInsert(q, new) == [q EXCEPT !.list = Append(@, new)]

TagsOf(list) == {list[i].timetag : i \in DOMAIN list}

OSCQueueEarliestTimeTag(q) ==
    CHOOSE t \in TagsOf(q.list) \union {Biggest} :
        \A u \in TagsOf(q.list) \union {Biggest} : t <= u

(* Slot of the first object with the smallest time tag.                    *)
SmallestIndex(list) ==
    CHOOSE i \in DOMAIN list :
        \A j \in DOMAIN list :
            /\ list[i].timetag <= list[j].timetag
            /\ j < i => list[i].timetag < list[j].timetag

\* The hole is filled with the last object.
RemoveElement_Swap(goner, list) ==
    [i \in 1 .. Len(list) - 1 |-> IF i = goner THEN list[Len(list)] ELSE list[i]]

(* The objects behind the removed one move up by one slot.                 *)
RemoveElement(goner, list) ==
    [i \in 1 .. Len(list) - 1 |-> IF i < goner THEN list[i] ELSE list[i + 1]]

(* The object that OSCQueueRemoveEarliest returns, and the queue without   *)
(* it.  The source calls fatal_error for an empty queue.                   *)
Earliest(q) == q.list[SmallestIndex(q.list)]

OSCQueueRemoveEarliest(q) ==
    [q EXCEPT !.list = RemoveElement(SmallestIndex(q.list), q.list)]

OSCQueueScanStart(q) == [q EXCEPT !.scanIndex = 0]

ScanAtEnd(q) == q.scanIndex >= Len(q.list)

(* The object that OSCQueueScanNext returns when it does not return 0, and *)
(* the queue after the call.                                               *)
Scanned(q) == q.list[q.scanIndex + 1]

OSCQueueScanNext(q) == IF ScanAtEnd(q) THEN q ELSE [q EXCEPT !.scanIndex = @ + 1]

\* The index counts an object of its own, whatever the queue does.
OSCQueueRemoveCurrentScanItem_KeepsIndex(q) ==
    [q EXCEPT !.list = RemoveElement(q.scanIndex, q.list)]

OSCQueueRemoveCurrentScanItem(q) ==
    [list |-> RemoveElement(q.scanIndex, q.list), scanIndex |-> q.scanIndex - 1]

=============================================================================
