------------------------------ MODULE OscQueue ------------------------------
(***************************************************************************)
(* The scheduler queue of the OSC kit (OSC-Kit/OSC-priority-queue.c), used *)
(* by one client that calls its operations one after the other.  The       *)
(* queue is scanned while objects come and go; OSC-priority-queue.h says   *)
(* what such a scan must still deliver.                                    *)
(***************************************************************************)
EXTENDS OscQueueOps, FiniteSets

CONSTANTS
    Ids,        \* names of the objects
    Times,      \* time tags of the objects
    NoObject    \* no object

ASSUME OscQueueAssumption == Times \subseteq 0 .. Biggest

Object == [id : Ids, timetag : Times]

VARIABLES
    queue,      \* the queue
    scanning,   \* a scan was started and has not returned 0 yet
    returned,   \* what the scan has returned since it was started
    removed     \* the object OSCQueueRemoveEarliest returned last

queueVars == <<queue, scanning, returned, removed>>

InQueue == {queue.list[i] : i \in DOMAIN queue.list}

QueueInit ==
    /\ queue = OSCNewQueue
    /\ scanning = FALSE /\ returned = {} /\ removed = NoObject

Insert(o) ==
    /\ \A p \in InQueue : p.id # o.id
    /\ ~OSCQueueFull(queue)
    /\ queue' = OSCQueueInsert(queue, o)
    /\ returned' = returned \ {o}       \* a new object of that name
    /\ UNCHANGED <<scanning, removed>>

\* With an empty queue the call is a fatal error.
RemoveEarliest ==
    /\ queue.list # <<>>
    /\ queue' = OSCQueueRemoveEarliest(queue)
    /\ removed' = Earliest(queue)
    /\ UNCHANGED <<scanning, returned>>

ScanStart ==
    /\ queue' = OSCQueueScanStart(queue)
    /\ scanning' = TRUE /\ returned' = {}
    /\ UNCHANGED removed

ScanNext ==
    /\ scanning
    /\ queue' = OSCQueueScanNext(queue)
    /\ scanning' = ~ScanAtEnd(queue)
    /\ returned' = IF ScanAtEnd(queue) THEN returned ELSE returned \union {Scanned(queue)}
    /\ UNCHANGED removed

(* There is a current item once ScanNext has returned one, and until it is *)
(* removed.                                                                *)
RemoveCurrentScanItem ==
    /\ scanning /\ queue.scanIndex \in DOMAIN queue.list
    /\ queue' = OSCQueueRemoveCurrentScanItem(queue)
    /\ returned' = returned \ {queue.list[queue.scanIndex]}
    /\ UNCHANGED <<scanning, removed>>

ScanCalls == ScanStart \/ ScanNext \/ RemoveCurrentScanItem

Inserts == \E o \in Object : Insert(o)

(* The calls in any order.                                                 *)
QueueNext == Inserts \/ RemoveEarliest \/ ScanCalls
QueueSpec == QueueInit /\ [][QueueNext]_queueVars

(* The calls in the order the receiver makes them: OSCBeProductiveWhile-   *)
(* Waiting scans from the start each time (timePassed is never reset), so  *)
(* that no object is removed from the front in the middle of a scan.       *)
ReceiverNext == Inserts \/ (RemoveEarliest /\ ~scanning) \/ ScanCalls
ReceiverSpec == QueueInit /\ [][ReceiverNext]_queueVars

-----------------------------------------------------------------------------
QueueTypeOK ==
    /\ queue \in [list : Seq(Object), scanIndex : Nat]
    /\ Len(queue.list) <= CAPACITY
    /\ scanning \in BOOLEAN
    /\ returned \subseteq Object
    /\ removed \in Object \union {NoObject}

(* A scan that has ended returned every object that is then in the queue:  *)
(* OSCQueueScanNext returns 0 "to indicate that all objects on the queue   *)
(* have been scanned", although objects are inserted and removed meanwhile *)
(* (OSCQueueScanNext, OSCQueueRemoveCurrentScanItem).                      *)
ScanIsComplete ==
    [][ scanning /\ ~scanning' => InQueue \subseteq returned ]_queueVars

(* The inductive form: the slots the scan has passed hold returned objects *)
(* only, and it never runs past the end.                                   *)
ScanInvariant ==
    scanning => /\ queue.scanIndex <= Len(queue.list)
                /\ \A i \in 1 .. queue.scanIndex : queue.list[i] \in returned

\* The pairs of objects with one time tag, in their order in the array.
InOrder ==
    {pair \in InQueue \X InQueue :
        /\ pair[1].timetag = pair[2].timetag
        /\ \E i, j \in DOMAIN queue.list : i < j /\ pair = <<queue.list[i], queue.list[j]>>}

Queue == INSTANCE PriorityQueue WITH
    Tags <- Times, Room <- CAPACITY, waiting <- InQueue, before <- InOrder

(* The array with its linear searches is a priority queue, first come      *)
(* first served among equal time tags, whatever a scan does at the same    *)
(* time (OSCQueueInsert, OSCQueueRemoveEarliest, RemoveElement).           *)
QueueImplementsPriorityQueue == Queue!Spec
=============================================================================
