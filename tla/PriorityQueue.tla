--------------------------- MODULE PriorityQueue ---------------------------
(***************************************************************************)
(* What OSC-priority-queue.h promises of the queue, without an array and   *)
(* without slots: the object with the smallest time tag leaves first, and  *)
(* of several with that tag the one that was inserted first.               *)
(***************************************************************************)
EXTENDS Naturals, FiniteSets

CONSTANTS
    Ids,        \* names of the objects
    Tags,       \* the time tags, numbers
    Room,       \* how many objects the queue holds
    NoObject    \* no object

Object == [id : Ids, timetag : Tags]

VARIABLES
    waiting,    \* the objects in the queue
    before,     \* the pairs of them with one tag, the one inserted earlier first
    removed     \* the last object that was taken from the front, or NoObject

vars == <<waiting, before, removed>>

Init == waiting = {} /\ before = {} /\ removed = NoObject

Insert(o) ==
    /\ Cardinality(waiting) < Room
    /\ \A p \in waiting : p.id # o.id
    /\ waiting' = waiting \union {o}
    /\ before' = before \union ({p \in waiting : p.timetag = o.timetag} \X {o})
    /\ UNCHANGED removed

Leaves(o) ==
    /\ waiting' = waiting \ {o}
    /\ before' = {pair \in before : o \notin {pair[1], pair[2]}}

TakeFirst(o) ==
    /\ \A p \in waiting \ {o} :
         o.timetag < p.timetag \/ (o.timetag = p.timetag /\ <<o, p>> \in before)
    /\ Leaves(o)
    /\ removed' = o

(* An object that a scan came across is withdrawn.                         *)
Withdraw(o) == Leaves(o) /\ UNCHANGED removed

Next ==
    \/ \E o \in Object : Insert(o)
    \/ \E o \in waiting : TakeFirst(o) \/ Withdraw(o)

Spec == Init /\ [][Next]_vars
=============================================================================
