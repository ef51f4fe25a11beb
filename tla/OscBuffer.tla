------------------------------ MODULE OscBuffer ------------------------------
(***************************************************************************)
(* Class Buffer of OSC.oz, with the ExtendableList of ListUtils.oz: a list *)
(* whose tail is not bound yet.  A thread may be interrupted between any   *)
(* two statements.  Lists are numbered in the order of their creation; the *)
(* variable at the end of a list is named by the number of items before it.*)
(***************************************************************************)
EXTENDS Integers, Sequences

CONSTANTS
    Threads, Items, NoThread,
    Disciplined     \* nobody puts while somebody is in getAll

BufferAssumption == NoThread \notin Threads /\ Disciplined \in BOOLEAN

VARIABLES
    xlist,      \* the list that the attribute xlist holds
    lists,      \* the lists: items, whether the end is bound to nil, the
                \* end that the attribute tail holds, the owner of the lock
    at,         \* where each thread is
    own,        \* its local variables: the list, the item, the end
    got         \* what getAll has returned so far

bufferVars == <<xlist, lists, at, own, got>>

New == [list |-> <<>>, closed |-> FALSE, tail |-> 0, owner |-> NoThread]
Nowhere == [l |-> 1, x |-> NoThread, y |-> 0]

Putting == {"lock", "bind", "tail"}
Getting == {"read", "close", "take", "renew"}

BufferInit ==
    /\ xlist = 1 /\ lists = <<New>>
    /\ at = [t \in Threads |-> "idle"]
    /\ own = [t \in Threads |-> Nowhere]
    /\ got = <<>>

Here(t) == lists[own[t].l]

-----------------------------------------------------------------------------
(* {B put(X)}: the list is looked up; add takes its lock, binds its end,   *)
(* and remembers the new end.                                              *)
put(t, x) ==
    /\ at[t] = "idle"
    /\ Disciplined => \A u \in Threads : at[u] \notin Getting
    /\ at' = [at EXCEPT ![t] = "lock"]
    /\ own' = [own EXCEPT ![t] = [l |-> xlist, x |-> x, y |-> 0]]
    /\ UNCHANGED <<xlist, lists, got>>

\* The threads do not wait for each other.
Lock_Nobody(t) ==
    /\ at[t] = "lock"
    /\ at' = [at EXCEPT ![t] = "bind"]
    /\ UNCHANGED <<xlist, lists, own, got>>

Lock(t) ==
    /\ at[t] = "lock" /\ Here(t).owner = NoThread
    /\ lists' = [lists EXCEPT ![own[t].l].owner = t]
    /\ at' = [at EXCEPT ![t] = "bind"]
    /\ UNCHANGED <<xlist, own, got>>

IsFree(l, end) == end = Len(lists[l].list) /\ ~lists[l].closed

(* @tail = X|Y.  Where the end is bound to something else already, this    *)
(* fails, and the exception ends the thread (and gives back the lock).     *)
Bind(t) ==
    /\ at[t] = "bind"
    /\ IF IsFree(own[t].l, Here(t).tail)
       THEN /\ lists' = [lists EXCEPT ![own[t].l].list = Append(@, own[t].x)]
            /\ at' = [at EXCEPT ![t] = "tail"]
       ELSE /\ lists' = [lists EXCEPT ![own[t].l].owner = NoThread]
            /\ at' = [at EXCEPT ![t] = "dead"]
    /\ UNCHANGED <<xlist, own, got>>

\* The lock is not given back.
SetTail_KeepsLock(t) ==
    /\ at[t] = "tail"
    /\ lists' = [lists EXCEPT ![own[t].l].tail = @ + 1]
    /\ at' = [at EXCEPT ![t] = "idle"]
    /\ UNCHANGED <<xlist, own, got>>

\* tail <- Y
SetTail(t) ==
    /\ at[t] = "tail"
    /\ lists' = [lists EXCEPT ![own[t].l].tail = @ + 1, ![own[t].l].owner = NoThread]
    /\ at' = [at EXCEPT ![t] = "idle"]
    /\ UNCHANGED <<xlist, own, got>>

-----------------------------------------------------------------------------
(* {B getAll(Xs)}: the list is closed, without its lock; then the items of *)
(* what is the list now are the result, and a new list takes its place.    *)
getAll(t) ==
    /\ at[t] = "idle"
    /\ Disciplined => \A u \in Threads : at[u] \notin Putting \union Getting
    /\ at' = [at EXCEPT ![t] = "read"]
    /\ own' = [own EXCEPT ![t] = [l |-> xlist, x |-> NoThread, y |-> 0]]
    /\ UNCHANGED <<xlist, lists, got>>

ReadTail(t) ==
    /\ at[t] = "read"
    /\ own' = [own EXCEPT ![t].y = Here(t).tail]
    /\ at' = [at EXCEPT ![t] = "close"]
    /\ UNCHANGED <<xlist, lists, got>>

\* @tail = nil; an end that is nil already is no failure.
Close(t) ==
    /\ at[t] = "close"
    /\ IF own[t].y = Len(Here(t).list)
       THEN /\ lists' = [lists EXCEPT ![own[t].l].closed = TRUE]
            /\ at' = [at EXCEPT ![t] = "take"]
       ELSE at' = [at EXCEPT ![t] = "dead"] /\ UNCHANGED lists
    /\ UNCHANGED <<xlist, own, got>>

Take(t) ==
    /\ at[t] = "take"
    /\ got' = got \o lists[xlist].list
    /\ at' = [at EXCEPT ![t] = "renew"]
    /\ UNCHANGED <<xlist, lists, own>>

\* The closed list stays.
Renew_Forgets(t) ==
    /\ at[t] = "renew"
    /\ at' = [at EXCEPT ![t] = "idle"]
    /\ UNCHANGED <<xlist, lists, own, got>>

\* xlist <- {New LUtils.extendableList init}
Renew(t) ==
    /\ at[t] = "renew"
    /\ lists' = Append(lists, New) /\ xlist' = Len(lists) + 1
    /\ at' = [at EXCEPT ![t] = "idle"]
    /\ UNCHANGED <<own, got>>

-----------------------------------------------------------------------------
\* The thread goes on with the call it is in.
Continue(t) ==
    \/ Lock(t) \/ Bind(t) \/ SetTail(t)
    \/ ReadTail(t) \/ Close(t) \/ Take(t) \/ Renew(t)

BufferNext == \E t \in Threads : Continue(t) \/ getAll(t) \/ \E x \in Items : put(t, x)

BufferSpec == BufferInit /\ [][BufferNext]_bufferVars

-----------------------------------------------------------------------------
BufferTypeOK ==
    /\ xlist \in DOMAIN lists
    /\ lists \in Seq([list : Seq(Items), closed : BOOLEAN, tail : Nat,
                      owner : Threads \union {NoThread}])
    /\ at \in [Threads -> {"idle", "dead"} \union Putting \union Getting]
    /\ own \in [Threads -> [l : Nat, x : Items \union {NoThread}, y : Nat]]
    /\ got \in Seq(Items)

Buffer == INSTANCE MessageBuffer WITH
    collected <- IF \E t \in Threads : at[t] = "renew" THEN <<>> ELSE lists[xlist].list,
    retrieved <- got

(* As long as nobody puts while somebody is in getAll, whatever the        *)
(* threads do at the same time is one buffer: all that was put is          *)
(* retrieved, once and in its order (OSC.oz, put, getAll).                 *)
ImplementsBuffer == Buffer!Spec

(* Then no call fails, which would end the thread that made it: the one    *)
(* that answers messages, most often (ListUtils.oz, add, close).           *)
NobodyDies == \A t \in Threads : at[t] # "dead"
=============================================================================
