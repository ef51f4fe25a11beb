-------------------------- MODULE OscInput_proofs --------------------------
(***************************************************************************)
(* Theorems about OSC input: about OscInput, for any packets with balanced *)
(* brackets, any addresses and any number of changes of the responders;    *)
(* about the way of the packets from the sockets of dumpOSC to Oz,         *)
(* OscPipeline, for any packets that are printed as meant; and about time  *)
(* tags, OscOzTime, for any time.                                          *)
(***************************************************************************)
EXTENDS OscInput, OscPipeline, OscOzTime, FiniteSetTheorems, SequenceTheorems, WellFoundedInduction, TLAPS

-----------------------------------------------------------------------------
(* The buffer: as long as nobody puts while somebody is in getAll, the     *)
(* extendable list with its lock and its steps is one buffer, and no       *)
(* thread dies of it.                                                      *)

ListRecord == [list : Seq(Items), closed : BOOLEAN, tail : Nat,
               owner : Threads \union {NoThread}]

\* The list of the buffer.
Cur == lists[xlist]

Within == {"bind", "tail"}

(* A thread in getAll is alone; every call is about the list of the        *)
(* buffer; and the lock is with the thread that extends it.                *)
GetterAlone ==
    \A t \in Threads : at[t] \in Getting => \A u \in Threads \ {t} : at[u] = "idle"

CallsCurrent ==
    \A t \in Threads :
        /\ at[t] \in Putting \union Getting => own[t].l = xlist
        /\ at[t] \in Putting => own[t].x \in Items

LockHeld == \A t \in Threads : Cur.owner = t <=> at[t] \in Within

(* The attribute tail is the end of the list, but for the moment between   *)
(* the two statements of add; and the list is open until getAll closes it. *)
TailIsEnd ==
    /\ (\E t \in Threads : at[t] = "tail") => Len(Cur.list) = Cur.tail + 1
    /\ (\A t \in Threads : at[t] # "tail") => Len(Cur.list) = Cur.tail
    /\ \A t \in Threads : at[t] = "close" => own[t].y = Len(Cur.list)

OpenUntilTaken == Cur.closed => \E t \in Threads : at[t] \in {"take", "renew"}

IInv ==
    /\ BufferTypeOK /\ NobodyDies
    /\ GetterAlone /\ CallsCurrent /\ LockHeld /\ TailIsEnd /\ OpenUntilTaken

-----------------------------------------------------------------------------
(* One list is changed, the others are not.                                *)
LEMMA ListsUpdate ==
  ASSUME NEW L \in Seq(ListRecord), NEW k \in DOMAIN L, NEW r \in ListRecord
  PROVE  /\ [L EXCEPT ![k] = r] \in Seq(ListRecord)
         /\ DOMAIN [L EXCEPT ![k] = r] = DOMAIN L
         /\ [L EXCEPT ![k] = r][k] = r
BY ExceptSeq

(* The facts about a state that satisfies the invariant which its steps    *)
(* rest on.                                                                *)
LEMMA Facts ==
  ASSUME IInv
  PROVE  /\ lists \in Seq(ListRecord) /\ xlist \in DOMAIN lists
         /\ Cur \in ListRecord
         /\ Len(Cur.list) \in Nat
<1>1. lists \in Seq(ListRecord) /\ xlist \in DOMAIN lists
  BY DEF IInv, BufferTypeOK, ListRecord
<1>2. Cur \in ListRecord
  BY <1>1 DEF Cur
<1>3. Cur.list \in Seq(Items)
  BY <1>2 DEF ListRecord
<1>. QED  BY <1>1, <1>2, <1>3

LEMMA InitInvariant == ASSUME BufferAssumption, BufferInit PROVE IInv
<1>1. New \in ListRecord
  BY DEF New, ListRecord
<1>2. lists \in Seq(ListRecord) /\ xlist \in DOMAIN lists /\ Cur = New
  BY <1>1 DEF BufferInit, Cur
<1>3. \A t \in Threads : at[t] = "idle"
  BY DEF BufferInit
<1>4. own \in [Threads -> [l : Nat, x : Items \union {NoThread}, y : Nat]]
  BY DEF BufferInit, Nowhere
<1>5. got \in Seq(Items)
  BY DEF BufferInit
<1>6. BufferTypeOK
  BY <1>2, <1>4, <1>5 DEF BufferTypeOK, BufferInit, ListRecord, Putting, Getting
<1>. QED  BY <1>2, <1>3, <1>6 DEF IInv, NobodyDies, GetterAlone, CallsCurrent, LockHeld, TailIsEnd,
            OpenUntilTaken, Putting, Getting, Within, New, BufferAssumption

(* The steps that change the list, or nothing but where a thread is.       *)
LEMMA StepPut ==
  ASSUME BufferAssumption, Disciplined, IInv, NEW t \in Threads, NEW x \in Items, put(t, x)
  PROVE  IInv'
<1>1. /\ at[t] = "idle" /\ at' = [at EXCEPT ![t] = "lock"]
      /\ own' = [own EXCEPT ![t] = [l |-> xlist, x |-> x, y |-> 0]]
      /\ \A u \in Threads : at[u] \notin Getting
      /\ UNCHANGED <<xlist, lists, got>>
  BY DEF put
<1>2. xlist \in Nat /\ Cur' = Cur
  BY <1>1, Facts DEF Cur
<1>3. BufferTypeOK'
  BY <1>1, <1>2 DEF IInv, BufferTypeOK, Putting
<1>4. \A u \in Threads : at'[u] = (IF u = t THEN "lock" ELSE at[u])
                      /\ own'[u] = (IF u = t THEN [l |-> xlist, x |-> x, y |-> 0] ELSE own[u])
  BY <1>1 DEF IInv, BufferTypeOK
<1>5. NobodyDies' /\ GetterAlone' /\ CallsCurrent'
  BY <1>1, <1>4 DEF IInv, NobodyDies, GetterAlone, CallsCurrent, Putting, Getting
<1>6. LockHeld' /\ TailIsEnd' /\ OpenUntilTaken'
  BY <1>1, <1>2, <1>4 DEF IInv, LockHeld, TailIsEnd, OpenUntilTaken, Within
<1>. QED  BY <1>3, <1>5, <1>6 DEF IInv

LEMMA StepLock ==
  ASSUME BufferAssumption, IInv, NEW t \in Threads, Lock(t)
  PROVE  IInv' /\ Cur'.list = Cur.list /\ UNCHANGED got
<1>. DEFINE r == [Cur EXCEPT !.owner = t]
<1>1. /\ at[t] = "lock" /\ own[t].l = xlist /\ Cur.owner = NoThread
      /\ lists' = [lists EXCEPT ![xlist] = r]
      /\ at' = [at EXCEPT ![t] = "bind"]
      /\ UNCHANGED <<xlist, own, got>>
  BY DEF Lock, Here, IInv, CallsCurrent, Putting, Cur
<1>2. r \in ListRecord
  BY Facts DEF ListRecord
<1>3. lists' \in Seq(ListRecord) /\ xlist' \in DOMAIN lists' /\ Cur' = r
  BY <1>1, <1>2, Facts, ListsUpdate DEF Cur
<1>4. Cur'.list = Cur.list /\ Cur'.tail = Cur.tail /\ Cur'.closed = Cur.closed /\ Cur'.owner = t
  BY <1>3, Facts DEF ListRecord
<1>5. BufferTypeOK'
  BY <1>1, <1>3 DEF IInv, BufferTypeOK, ListRecord, Putting
<1>6. \A u \in Threads : at'[u] = (IF u = t THEN "bind" ELSE at[u])
  BY <1>1 DEF IInv, BufferTypeOK
<1>7. NobodyDies' /\ GetterAlone' /\ CallsCurrent'
  BY <1>1, <1>6 DEF IInv, NobodyDies, GetterAlone, CallsCurrent, Putting, Getting
<1>8. LockHeld'
  BY <1>1, <1>4, <1>6 DEF IInv, LockHeld, Within, BufferAssumption
<1>9. TailIsEnd' /\ OpenUntilTaken'
  BY <1>1, <1>4, <1>6 DEF IInv, TailIsEnd, OpenUntilTaken
<1>. QED  BY <1>1, <1>4, <1>5, <1>7, <1>8, <1>9 DEF IInv

(* In bind, the list is open, and nobody else is between its statements.   *)
LEMMA BindSucceeds ==
  ASSUME BufferAssumption, IInv, NEW t \in Threads, at[t] = "bind"
  PROVE  own[t].l = xlist /\ IsFree(xlist, Cur.tail)
<1>1. own[t].l = xlist /\ Cur.owner = t
  BY DEF IInv, CallsCurrent, LockHeld, Putting, Within
<1>2. \A u \in Threads : at[u] # "tail"
  BY <1>1 DEF IInv, LockHeld, Within
<1>3. \A u \in Threads : at[u] \notin Getting
  BY DEF IInv, GetterAlone, Getting
<1>4. ~Cur.closed
  BY <1>3 DEF IInv, OpenUntilTaken, Getting
<1>. QED  BY <1>1, <1>2, <1>4 DEF IInv, TailIsEnd, IsFree, Cur

LEMMA StepBind ==
  ASSUME BufferAssumption, IInv, NEW t \in Threads, Bind(t)
  PROVE  /\ IInv'
         /\ Cur'.list = Append(Cur.list, own[t].x) /\ own[t].x \in Items
         /\ UNCHANGED got
<1>. DEFINE r == [Cur EXCEPT !.list = Append(Cur.list, own[t].x)]
<1>1. own[t].l = xlist /\ IsFree(xlist, Cur.tail) /\ at[t] = "bind"
  BY BindSucceeds DEF Bind
<1>2. /\ lists' = [lists EXCEPT ![xlist] = r]
      /\ at' = [at EXCEPT ![t] = "tail"]
      /\ UNCHANGED <<xlist, own, got>>
  BY <1>1 DEF Bind, Here, Cur
<1>3. own[t].x \in Items
  BY <1>1 DEF IInv, CallsCurrent, Putting
<1>4. Append(Cur.list, own[t].x) \in Seq(Items) /\ Len(Append(Cur.list, own[t].x)) = Len(Cur.list) + 1
  BY <1>3, Facts, AppendProperties DEF ListRecord
<1>5. r \in ListRecord
  BY <1>4, Facts DEF ListRecord
<1>6. lists' \in Seq(ListRecord) /\ xlist' \in DOMAIN lists' /\ Cur' = r
  BY <1>2, <1>5, Facts, ListsUpdate DEF Cur
<1>7. /\ Cur'.list = Append(Cur.list, own[t].x)
      /\ Cur'.tail = Cur.tail /\ Cur'.closed = Cur.closed /\ Cur'.owner = Cur.owner
  BY <1>6, Facts DEF ListRecord
<1>8. BufferTypeOK'
  BY <1>2, <1>6 DEF IInv, BufferTypeOK, ListRecord, Putting
<1>9. \A u \in Threads : at'[u] = (IF u = t THEN "tail" ELSE at[u])
  BY <1>2 DEF IInv, BufferTypeOK
<1>10. NobodyDies' /\ GetterAlone' /\ CallsCurrent'
  BY <1>1, <1>2, <1>9 DEF IInv, NobodyDies, GetterAlone, CallsCurrent, Putting, Getting
<1>11. LockHeld'
  BY <1>1, <1>7, <1>9 DEF IInv, LockHeld, Within
<1>12. TailIsEnd'
  <2>1. Len(Cur'.list) = Cur'.tail + 1
    BY <1>1, <1>4, <1>7 DEF IsFree, Cur
  <2>2. at'[t] = "tail" /\ \A u \in Threads : at'[u] # "close"
    BY <1>1, <1>9 DEF IInv, GetterAlone, Getting
  <2>. QED  BY <2>1, <2>2 DEF TailIsEnd
<1>13. OpenUntilTaken'
  BY <1>1, <1>7, <1>9 DEF IsFree, OpenUntilTaken, Cur
<1>. QED  BY <1>2, <1>3, <1>7, <1>8, <1>10, <1>11, <1>12, <1>13 DEF IInv

LEMMA StepSetTail ==
  ASSUME BufferAssumption, IInv, NEW t \in Threads, SetTail(t)
  PROVE  IInv' /\ Cur'.list = Cur.list /\ UNCHANGED got
<1>. DEFINE r == [Cur EXCEPT !.tail = Cur.tail + 1, !.owner = NoThread]
<1>1. /\ at[t] = "tail" /\ own[t].l = xlist
      /\ at' = [at EXCEPT ![t] = "idle"]
      /\ UNCHANGED <<xlist, own, got>>
  BY DEF SetTail, IInv, CallsCurrent, Putting
<1>2. lists' = [lists EXCEPT ![xlist] = r]
  BY <1>1, Facts DEF SetTail, Cur
<1>3. r \in ListRecord
  <2>1. [Cur EXCEPT !.tail = Cur.tail + 1] \in ListRecord
    <3>1. Cur.tail + 1 \in Nat
      BY Facts DEF ListRecord
    <3>. QED  BY <3>1, Facts DEF ListRecord
  <2>2. r = [[Cur EXCEPT !.tail = Cur.tail + 1] EXCEPT !.owner = NoThread]
    OBVIOUS
  <2>. QED  BY <2>1, <2>2 DEF ListRecord
<1>4. lists' \in Seq(ListRecord) /\ xlist' \in DOMAIN lists' /\ Cur' = r
  BY <1>1, <1>2, <1>3, Facts, ListsUpdate DEF Cur
<1>5. /\ Cur'.list = Cur.list /\ Cur'.tail = Cur.tail + 1
      /\ Cur'.closed = Cur.closed /\ Cur'.owner = NoThread
  BY <1>4, Facts DEF ListRecord
<1>6. BufferTypeOK'
  BY <1>1, <1>4 DEF IInv, BufferTypeOK, ListRecord
<1>7. \A u \in Threads : at'[u] = (IF u = t THEN "idle" ELSE at[u])
  BY <1>1 DEF IInv, BufferTypeOK
<1>8. NobodyDies' /\ GetterAlone' /\ CallsCurrent'
  BY <1>1, <1>7 DEF IInv, NobodyDies, GetterAlone, CallsCurrent, Putting, Getting
<1>9. \A u \in Threads \ {t} : at[u] \notin Within
  BY <1>1 DEF IInv, LockHeld, Within
<1>10. LockHeld'
  BY <1>5, <1>7, <1>9 DEF LockHeld, Within, BufferAssumption
<1>11. TailIsEnd'
  <2>1. Len(Cur'.list) = Cur'.tail
    BY <1>1, <1>5 DEF IInv, TailIsEnd
  <2>2. \A u \in Threads : at'[u] # "tail" /\ at'[u] # "close"
    BY <1>1, <1>7, <1>9 DEF IInv, GetterAlone, Getting, Within
  <2>. QED  BY <2>1, <2>2 DEF TailIsEnd
<1>12. OpenUntilTaken'
  BY <1>1, <1>5, <1>7 DEF IInv, OpenUntilTaken
<1>. QED  BY <1>1, <1>5, <1>6, <1>8, <1>10, <1>11, <1>12 DEF IInv

(* While one thread is in getAll, its steps are those of a program without *)
(* threads.                                                                *)
LEMMA StepGetAll ==
  ASSUME BufferAssumption, Disciplined, IInv, NEW t \in Threads, getAll(t)
  PROVE  IInv' /\ Cur' = Cur /\ UNCHANGED got
<1>1. /\ at[t] = "idle" /\ at' = [at EXCEPT ![t] = "read"]
      /\ own' = [own EXCEPT ![t] = [l |-> xlist, x |-> NoThread, y |-> 0]]
      /\ \A u \in Threads : at[u] \notin Putting \union Getting
      /\ UNCHANGED <<xlist, lists, got>>
  BY DEF getAll
<1>2. xlist \in Nat /\ Cur' = Cur
  BY <1>1, Facts DEF Cur
<1>3. BufferTypeOK'
  BY <1>1, <1>2 DEF IInv, BufferTypeOK, Getting
<1>4. \A u \in Threads : at[u] = "idle"
  BY <1>1 DEF IInv, BufferTypeOK, NobodyDies
<1>5. \A u \in Threads : at'[u] = (IF u = t THEN "read" ELSE "idle")
  BY <1>1, <1>4 DEF IInv, BufferTypeOK
<1>6. own'[t].l = xlist'
  BY <1>1 DEF IInv, BufferTypeOK
<1>7. NobodyDies' /\ GetterAlone' /\ CallsCurrent'
  BY <1>5, <1>6 DEF NobodyDies, GetterAlone, CallsCurrent, Putting, Getting
<1>8. LockHeld' /\ TailIsEnd' /\ OpenUntilTaken'
  BY <1>2, <1>4, <1>5 DEF IInv, LockHeld, TailIsEnd, OpenUntilTaken, Within
<1>. QED  BY <1>1, <1>2, <1>3, <1>7, <1>8 DEF IInv

LEMMA StepReadTail ==
  ASSUME BufferAssumption, IInv, NEW t \in Threads, ReadTail(t)
  PROVE  IInv' /\ Cur' = Cur /\ UNCHANGED got
<1>1. /\ at[t] = "read" /\ own[t].l = xlist
      /\ at' = [at EXCEPT ![t] = "close"]
      /\ own' = [own EXCEPT ![t].y = Cur.tail]
      /\ UNCHANGED <<xlist, lists, got>>
  BY DEF ReadTail, IInv, CallsCurrent, Getting, Here, Cur
<1>2. Cur.tail \in Nat /\ Cur' = Cur
  BY <1>1, Facts DEF Cur, ListRecord
<1>3. BufferTypeOK'
  BY <1>1, <1>2 DEF IInv, BufferTypeOK, Getting
<1>4. \A u \in Threads \ {t} : at[u] = "idle"
  BY <1>1 DEF IInv, GetterAlone, Getting
<1>5. \A u \in Threads : at'[u] = (IF u = t THEN "close" ELSE "idle")
  BY <1>1, <1>4 DEF IInv, BufferTypeOK
<1>6. own'[t].l = xlist' /\ own'[t].y = Cur.tail
  BY <1>1 DEF IInv, BufferTypeOK
<1>7. NobodyDies' /\ GetterAlone' /\ CallsCurrent'
  BY <1>5, <1>6 DEF NobodyDies, GetterAlone, CallsCurrent, Putting, Getting
<1>8. LockHeld' /\ OpenUntilTaken'
  BY <1>1, <1>2, <1>4, <1>5 DEF IInv, LockHeld, OpenUntilTaken, Within
<1>9. TailIsEnd'
  BY <1>1, <1>2, <1>4, <1>5, <1>6 DEF IInv, TailIsEnd
<1>. QED  BY <1>1, <1>2, <1>3, <1>7, <1>8, <1>9 DEF IInv

LEMMA StepClose ==
  ASSUME BufferAssumption, IInv, NEW t \in Threads, Close(t)
  PROVE  IInv' /\ Cur'.list = Cur.list /\ UNCHANGED got
<1>. DEFINE r == [Cur EXCEPT !.closed = TRUE]
<1>1. /\ at[t] = "close" /\ own[t].l = xlist /\ own[t].y = Len(Cur.list)
      /\ UNCHANGED <<xlist, own, got>>
  BY DEF Close, IInv, CallsCurrent, TailIsEnd, Getting
<1>2. lists' = [lists EXCEPT ![xlist] = r] /\ at' = [at EXCEPT ![t] = "take"]
  BY <1>1 DEF Close, Here, Cur
<1>3. r \in ListRecord
  BY Facts DEF ListRecord
<1>4. lists' \in Seq(ListRecord) /\ xlist' \in DOMAIN lists' /\ Cur' = r
  BY <1>1, <1>2, <1>3, Facts, ListsUpdate DEF Cur
<1>5. Cur'.list = Cur.list /\ Cur'.tail = Cur.tail /\ Cur'.owner = Cur.owner
  BY <1>4, Facts DEF ListRecord
<1>6. BufferTypeOK'
  BY <1>1, <1>2, <1>4 DEF IInv, BufferTypeOK, ListRecord, Getting
<1>7. \A u \in Threads \ {t} : at[u] = "idle"
  BY <1>1 DEF IInv, GetterAlone, Getting
<1>8. \A u \in Threads : at'[u] = (IF u = t THEN "take" ELSE "idle")
  BY <1>2, <1>7 DEF IInv, BufferTypeOK
<1>9. NobodyDies' /\ GetterAlone' /\ CallsCurrent'
  BY <1>1, <1>8 DEF NobodyDies, GetterAlone, CallsCurrent, Putting, Getting
<1>10. LockHeld' /\ TailIsEnd' /\ OpenUntilTaken'
  BY <1>1, <1>5, <1>7, <1>8 DEF IInv, LockHeld, TailIsEnd, OpenUntilTaken, Within
<1>. QED  BY <1>1, <1>5, <1>6, <1>9, <1>10 DEF IInv

LEMMA StepTake ==
  ASSUME BufferAssumption, IInv, NEW t \in Threads, Take(t)
  PROVE  IInv' /\ got' = got \o Cur.list /\ at'[t] = "renew"
<1>1. /\ at[t] = "take" /\ own[t].l = xlist
      /\ at' = [at EXCEPT ![t] = "renew"] /\ got' = got \o Cur.list
      /\ UNCHANGED <<xlist, lists, own>>
  BY DEF Take, IInv, CallsCurrent, Getting, Cur
<1>2. got' \in Seq(Items) /\ Cur' = Cur
  BY <1>1, Facts, ConcatProperties DEF IInv, BufferTypeOK, ListRecord, Cur
<1>3. BufferTypeOK'
  BY <1>1, <1>2 DEF IInv, BufferTypeOK, Getting
<1>4. \A u \in Threads \ {t} : at[u] = "idle"
  BY <1>1 DEF IInv, GetterAlone, Getting
<1>5. \A u \in Threads : at'[u] = (IF u = t THEN "renew" ELSE "idle")
  BY <1>1, <1>4 DEF IInv, BufferTypeOK
<1>6. NobodyDies' /\ GetterAlone' /\ CallsCurrent'
  BY <1>1, <1>5 DEF NobodyDies, GetterAlone, CallsCurrent, Putting, Getting
<1>7. LockHeld' /\ TailIsEnd' /\ OpenUntilTaken'
  BY <1>1, <1>2, <1>4, <1>5 DEF IInv, LockHeld, TailIsEnd, OpenUntilTaken, Within
<1>. QED  BY <1>1, <1>3, <1>5, <1>6, <1>7 DEF IInv

LEMMA StepRenew ==
  ASSUME BufferAssumption, IInv, NEW t \in Threads, Renew(t)
  PROVE  /\ IInv' /\ Cur'.list = <<>> /\ UNCHANGED got
         /\ \A u \in Threads : at'[u] = "idle"
<1>1. /\ at[t] = "renew" /\ at' = [at EXCEPT ![t] = "idle"]
      /\ lists' = Append(lists, New) /\ xlist' = Len(lists) + 1
      /\ UNCHANGED <<own, got>>
  BY DEF Renew
<1>2. New \in ListRecord
  BY DEF New, ListRecord
<1>3. lists' \in Seq(ListRecord) /\ xlist' \in DOMAIN lists' /\ Cur' = New
  BY <1>1, <1>2, Facts, AppendProperties DEF Cur
<1>4. BufferTypeOK'
  BY <1>1, <1>3 DEF IInv, BufferTypeOK, ListRecord
<1>5. \A u \in Threads \ {t} : at[u] = "idle"
  BY <1>1 DEF IInv, GetterAlone, Getting
<1>6. \A u \in Threads : at'[u] = "idle"
  BY <1>1, <1>5 DEF IInv, BufferTypeOK
<1>7. NobodyDies' /\ GetterAlone' /\ CallsCurrent'
  BY <1>6 DEF NobodyDies, GetterAlone, CallsCurrent, Putting, Getting
<1>8. LockHeld' /\ TailIsEnd' /\ OpenUntilTaken'
  BY <1>3, <1>6 DEF LockHeld, TailIsEnd, OpenUntilTaken, Within, New, BufferAssumption
<1>. QED  BY <1>1, <1>3, <1>4, <1>6, <1>7, <1>8 DEF IInv, New

-----------------------------------------------------------------------------
(* What of the buffer is waiting to be retrieved, and what a step does to  *)
(* it and to what was retrieved.                                           *)
Waiting == IF \E t \in Threads : at[t] = "renew" THEN <<>> ELSE Cur.list

BufferStep ==
    \/ UNCHANGED <<Waiting, got>>
    \/ \E x \in Items : Waiting' = Append(Waiting, x) /\ UNCHANGED got
    \/ got' = got \o Waiting /\ Waiting' = <<>>

\* Elsewhere than at the end of getAll, the list of the buffer is waiting.
LEMMA WaitingIsList ==
  ASSUME IInv, NEW t \in Threads, at[t] \in {"idle", "lock", "bind", "tail", "read", "close", "take"},
         at[t] # "idle" \/ \A u \in Threads : at[u] \notin Getting
  PROVE  Waiting = Cur.list
<1>1. ASSUME NEW u \in Threads, at[u] = "renew"
      PROVE  FALSE
  <2>1. u # t
    BY <1>1
  <2>. QED  BY <1>1, <2>1 DEF IInv, GetterAlone, Getting
<1>. QED  BY <1>1 DEF Waiting

\* The other threads are where they were.
LEMMA WaitingIsListAfter ==
  ASSUME IInv', NEW t \in Threads, at'[t] \in {"lock", "bind", "tail", "read", "close", "take"}
  PROVE  Waiting' = Cur'.list
<1>1. ASSUME NEW u \in Threads, at'[u] = "renew"
      PROVE  FALSE
  <2>1. u # t
    BY <1>1
  <2>. QED  BY <1>1, <2>1 DEF IInv, GetterAlone, Getting
<1>. QED  BY <1>1 DEF Waiting

(* Each step keeps the invariant, and is a step of the one buffer or none. *)
LEMMA Step ==
  ASSUME BufferAssumption, Disciplined, IInv, [BufferNext]_bufferVars
  PROVE  IInv' /\ BufferStep
<1>1. CASE UNCHANGED bufferVars
  BY <1>1 DEF bufferVars, IInv, BufferTypeOK, NobodyDies, GetterAlone, CallsCurrent, LockHeld,
              TailIsEnd, OpenUntilTaken, BufferStep, Waiting, Cur
<1>2. ASSUME NEW t \in Threads, NEW x \in Items, put(t, x)
      PROVE  IInv' /\ BufferStep
  <2>1. IInv' /\ Cur' = Cur /\ UNCHANGED got
    BY <1>2, StepPut DEF put, Cur
  <2>2. at[t] = "idle" /\ (\A u \in Threads : at[u] \notin Getting) /\ at'[t] = "lock"
    BY <1>2 DEF put, IInv, BufferTypeOK
  <2>3. Waiting = Cur.list /\ Waiting' = Cur'.list
    BY <2>1, <2>2, WaitingIsList, WaitingIsListAfter
  <2>. QED  BY <2>1, <2>3 DEF BufferStep
<1>3. ASSUME NEW t \in Threads, getAll(t)
      PROVE  IInv' /\ BufferStep
  <2>1. IInv' /\ Cur' = Cur /\ UNCHANGED got
    BY <1>3, StepGetAll
  <2>2. at[t] = "idle" /\ (\A u \in Threads : at[u] \notin Getting) /\ at'[t] = "read"
    BY <1>3 DEF getAll, IInv, BufferTypeOK
  <2>3. Waiting = Cur.list /\ Waiting' = Cur'.list
    BY <2>1, <2>2, WaitingIsList, WaitingIsListAfter
  <2>. QED  BY <2>1, <2>3 DEF BufferStep
<1>4. ASSUME NEW t \in Threads, Lock(t)
      PROVE  IInv' /\ BufferStep
  <2>1. IInv' /\ Cur'.list = Cur.list /\ UNCHANGED got
    BY <1>4, StepLock
  <2>2. at[t] = "lock" /\ at'[t] = "bind"
    BY <1>4 DEF Lock, IInv, BufferTypeOK
  <2>3. Waiting = Cur.list /\ Waiting' = Cur'.list
    BY <2>1, <2>2, WaitingIsList, WaitingIsListAfter
  <2>. QED  BY <2>1, <2>3 DEF BufferStep
<1>5. ASSUME NEW t \in Threads, Bind(t)
      PROVE  IInv' /\ BufferStep
  <2>1. /\ IInv' /\ UNCHANGED got /\ own[t].x \in Items
        /\ Cur'.list = Append(Cur.list, own[t].x)
        /\ at[t] = "bind"
    BY <1>5, StepBind DEF Bind
  <2>2. at'[t] = "tail"
    BY <1>5, <2>1 DEF Bind, IInv, NobodyDies, BufferTypeOK
  <2>3. Waiting = Cur.list /\ Waiting' = Cur'.list
    BY <2>1, <2>2, WaitingIsList, WaitingIsListAfter
  <2>. QED  BY <2>1, <2>3 DEF BufferStep
<1>6. ASSUME NEW t \in Threads, SetTail(t)
      PROVE  IInv' /\ BufferStep
  <2>1. IInv' /\ Cur'.list = Cur.list /\ UNCHANGED got /\ at[t] = "tail"
    BY <1>6, StepSetTail DEF SetTail
  <2>2. \A u \in Threads : at[u] # "renew" /\ at'[u] # "renew"
    BY <1>6, <2>1 DEF SetTail, IInv, GetterAlone, Getting, BufferTypeOK
  <2>. QED  BY <2>1, <2>2 DEF BufferStep, Waiting
<1>7. ASSUME NEW t \in Threads, ReadTail(t)
      PROVE  IInv' /\ BufferStep
  <2>1. IInv' /\ Cur' = Cur /\ UNCHANGED got
    BY <1>7, StepReadTail
  <2>2. at[t] = "read" /\ at'[t] = "close"
    BY <1>7 DEF ReadTail, IInv, BufferTypeOK
  <2>3. Waiting = Cur.list /\ Waiting' = Cur'.list
    BY <2>1, <2>2, WaitingIsList, WaitingIsListAfter
  <2>. QED  BY <2>1, <2>3 DEF BufferStep
<1>8. ASSUME NEW t \in Threads, Close(t)
      PROVE  IInv' /\ BufferStep
  <2>1. IInv' /\ Cur'.list = Cur.list /\ UNCHANGED got /\ at[t] = "close"
    BY <1>8, StepClose DEF Close
  <2>2. at'[t] = "take"
    BY <1>8, <2>1 DEF Close, IInv, NobodyDies, BufferTypeOK
  <2>3. Waiting = Cur.list /\ Waiting' = Cur'.list
    BY <2>1, <2>2, WaitingIsList, WaitingIsListAfter
  <2>. QED  BY <2>1, <2>3 DEF BufferStep
<1>9. ASSUME NEW t \in Threads, Take(t)
      PROVE  IInv' /\ BufferStep
  <2>1. IInv' /\ got' = got \o Cur.list /\ at'[t] = "renew" /\ at[t] = "take"
    BY <1>9, StepTake DEF Take
  <2>2. Waiting = Cur.list /\ Waiting' = <<>>
    BY <2>1, WaitingIsList DEF Waiting
  <2>. QED  BY <2>1, <2>2 DEF BufferStep
<1>10. ASSUME NEW t \in Threads, Renew(t)
       PROVE  IInv' /\ BufferStep
  <2>1. /\ IInv' /\ Cur'.list = <<>> /\ UNCHANGED got
        /\ \A u \in Threads : at'[u] = "idle"
        /\ at[t] = "renew"
    BY <1>10, StepRenew DEF Renew
  <2>2. Waiting = <<>> /\ Waiting' = <<>>
    BY <2>1 DEF Waiting
  <2>. QED  BY <2>1, <2>2 DEF BufferStep
<1>. QED
  BY <1>1, <1>2, <1>3, <1>4, <1>5, <1>6, <1>7, <1>8, <1>9, <1>10 DEF BufferNext, Continue

LEMMA StepIsBufferStep ==
  ASSUME BufferStep
  PROVE  [Buffer!Next]_(Buffer!vars)
BY DEF BufferStep, Waiting, Cur, Buffer!Next, Buffer!Put, Buffer!GetAll, Buffer!vars

LEMMA InitIsBufferInit == ASSUME BufferInit PROVE Buffer!Init
BY DEF BufferInit, Buffer!Init, New

(* As long as nobody puts while somebody is in getAll, no call of put or   *)
(* getAll fails, however many threads answer messages at the same time     *)
(* (ListUtils.oz, add, close).                                             *)
THEOREM NobodyEverDies ==
  ASSUME BufferAssumption, Disciplined
  PROVE  BufferSpec => []NobodyDies
<1>1. BufferInit => IInv
  BY InitInvariant
<1>2. IInv /\ [BufferNext]_bufferVars => IInv'
  BY Step
<1>3. IInv => NobodyDies
  BY DEF IInv
<1>. QED  BY <1>1, <1>2, <1>3, PTL DEF BufferSpec

(* And the list with its lock is one buffer: all that was put is           *)
(* retrieved, once and in its order (OSC.oz, put, getAll).                 *)
THEOREM BufferIsImplemented ==
  ASSUME BufferAssumption, Disciplined
  PROVE  BufferSpec => ImplementsBuffer
<1>1. BufferInit => IInv /\ Buffer!Init
  BY InitInvariant, InitIsBufferInit
<1>2. IInv /\ [BufferNext]_bufferVars => IInv' /\ [Buffer!Next]_(Buffer!vars)
  BY Step, StepIsBufferStep
<1>. QED  BY <1>1, <1>2, PTL DEF BufferSpec, ImplementsBuffer, Buffer!Spec

-----------------------------------------------------------------------------
(* Counting brackets.                                                      *)

\* The lines j to m that are of some kind.
Kind(ls, k, j, m) == {h \in j .. m : ls[h].is = k}

(* One more line is one more of its kind.                                  *)
LEMMA KindStep ==
  ASSUME NEW ls, NEW k, NEW j \in Nat, NEW i \in Nat, j <= i
  PROVE  /\ Cardinality(Kind(ls, k, j, i - 1)) \in Nat
         /\ ls[i].is = k => Cardinality(Kind(ls, k, j, i)) = Cardinality(Kind(ls, k, j, i - 1)) + 1
         /\ ls[i].is # k => Cardinality(Kind(ls, k, j, i)) = Cardinality(Kind(ls, k, j, i - 1))
<1>1. IsFiniteSet(j .. i - 1)
  BY FS_Interval
<1>2. Kind(ls, k, j, i - 1) \subseteq j .. i - 1
  BY DEF Kind
<1>3. IsFiniteSet(Kind(ls, k, j, i - 1))
  BY <1>1, <1>2, FS_Subset
<1>4. Cardinality(Kind(ls, k, j, i - 1)) \in Nat
  BY <1>3, FS_CardinalityType
<1>5. i \notin Kind(ls, k, j, i - 1)
  BY <1>2
<1>6. j .. i = (j .. i - 1) \cup {i}
  OBVIOUS
<1>7. CASE ls[i].is = k
  <2>1. Kind(ls, k, j, i) = Kind(ls, k, j, i - 1) \cup {i}
    BY <1>6, <1>7 DEF Kind
  <2>. QED  BY <1>3, <1>4, <1>5, <1>7, <2>1, FS_AddElement
<1>8. CASE ls[i].is # k
  <2>1. Kind(ls, k, j, i) = Kind(ls, k, j, i - 1)
    BY <1>6, <1>8 DEF Kind
  <2>. QED  BY <1>4, <1>8, <2>1
<1>. QED  BY <1>7, <1>8

(* What a line does to the number of open brackets.                        *)
LEMMA OpenedStep ==
  ASSUME NEW ls, NEW j \in Nat, NEW i \in Nat, j <= i
  PROVE  /\ Opened(ls, j, i - 1) \in Int
         /\ ls[i].is = "open" => Opened(ls, j, i) = Opened(ls, j, i - 1) + 1
         /\ ls[i].is = "close" => Opened(ls, j, i) = Opened(ls, j, i - 1) - 1
         /\ ls[i].is = "message" => Opened(ls, j, i) = Opened(ls, j, i - 1)
<1>1. \A m \in Int : Opened(ls, j, m)
        = Cardinality(Kind(ls, "open", j, m)) - Cardinality(Kind(ls, "close", j, m))
  BY DEF Opened, Kind
<1>2. /\ Cardinality(Kind(ls, "open", j, i - 1)) \in Nat
      /\ ls[i].is = "open" => Cardinality(Kind(ls, "open", j, i)) = Cardinality(Kind(ls, "open", j, i - 1)) + 1
      /\ ls[i].is # "open" => Cardinality(Kind(ls, "open", j, i)) = Cardinality(Kind(ls, "open", j, i - 1))
  BY KindStep
<1>3. /\ Cardinality(Kind(ls, "close", j, i - 1)) \in Nat
      /\ ls[i].is = "close" => Cardinality(Kind(ls, "close", j, i)) = Cardinality(Kind(ls, "close", j, i - 1)) + 1
      /\ ls[i].is # "close" => Cardinality(Kind(ls, "close", j, i)) = Cardinality(Kind(ls, "close", j, i - 1))
  BY KindStep
<1>. HIDE DEF Kind
<1>4. /\ Opened(ls, j, i) = Cardinality(Kind(ls, "open", j, i)) - Cardinality(Kind(ls, "close", j, i))
      /\ Opened(ls, j, i - 1) = Cardinality(Kind(ls, "open", j, i - 1)) - Cardinality(Kind(ls, "close", j, i - 1))
  BY <1>1
<1>. QED  BY <1>2, <1>3, <1>4

(* No line opens nothing.                                                  *)
LEMMA OpenedNone == ASSUME NEW ls, NEW j \in Nat PROVE Opened(ls, j, j - 1) = 0
<1>1. j .. j - 1 = {}
  OBVIOUS
<1>2. Kind(ls, "open", j, j - 1) = {} /\ Kind(ls, "close", j, j - 1) = {}
  BY <1>1 DEF Kind
<1>3. Cardinality({}) = 0
  BY FS_EmptySet
<1>4. Opened(ls, j, j - 1) = Cardinality({}) - Cardinality({})
  BY <1>2 DEF Opened, Kind
<1>. QED  BY <1>3, <1>4

-----------------------------------------------------------------------------
(* The lines that open the bundles around a line, the innermost last.      *)
Enclosing(ls, i, s) ==
    /\ \A k \in 1 .. Len(s) :
        s[k] \in 1 .. i - 1 /\ Around(ls, s[k], i) /\ Opened(ls, s[k], i - 1) = Len(s) - k + 1
    /\ \A k, l \in 1 .. Len(s) : k < l => s[k] < s[l]
    /\ \A j \in 1 .. i - 1 : Around(ls, j, i) => \E k \in 1 .. Len(s) : s[k] = j
    /\ Opened(ls, 1, i - 1) = Len(s)

(* A bundle that is open stays open unless its last bracket is closed.     *)
LEMMA AroundStep ==
  ASSUME NEW ls, NEW i \in Nat, NEW j \in 1 .. i - 1
  PROVE  Around(ls, j, i + 1) <=> Around(ls, j, i) /\ Opened(ls, j, i) > 0
<1>1. j .. (i + 1) - 1 = (j .. i - 1) \cup {i}
  OBVIOUS
<1>. QED  BY <1>1 DEF Around

LEMMA AroundSelf ==
  ASSUME NEW ls, NEW i \in Nat
  PROVE  /\ Around(ls, i, i) <=> ls[i].is = "open"
         /\ Around(ls, i, i + 1) <=> ls[i].is = "open"
<1>1. i .. i - 1 = {} /\ i .. (i + 1) - 1 = {i}
  OBVIOUS
<1>2. ls[i].is = "open" => Opened(ls, i, i) = 1
  BY OpenedStep, OpenedNone
<1>. QED  BY <1>1, <1>2 DEF Around

(* At the beginning of a packet there is nothing around.                   *)
LEMMA EncloseFirst == ASSUME NEW ls PROVE Enclosing(ls, 1, <<>>)
<1>1. 1 .. 1 - 1 = {} /\ Len(<<>>) = 0
  OBVIOUS
<1>2. Opened(ls, 1, 1 - 1) = 0
  BY OpenedNone
<1>. QED  BY <1>1, <1>2 DEF Enclosing

LEMMA EncloseMessage ==
  ASSUME NEW ls, NEW i \in Nat \ {0}, NEW s \in Seq(Nat), Enclosing(ls, i, s), ls[i].is = "message"
  PROVE  Enclosing(ls, i + 1, s)
<1>1. Len(s) \in Nat
  OBVIOUS
<1>2. ASSUME NEW j \in 1 .. i PROVE Opened(ls, j, i) = Opened(ls, j, i - 1)
  <2>1. j \in Nat /\ i \in Nat /\ j <= i
    OBVIOUS
  <2>. QED  BY <2>1, OpenedStep
<1>3. \A j \in 1 .. i - 1 : Around(ls, j, i + 1) <=> Around(ls, j, i) /\ Opened(ls, j, i) > 0
  BY AroundStep
<1>4. ~Around(ls, i, i + 1)
  BY AroundSelf
<1>5. ASSUME NEW k \in 1 .. Len(s)
      PROVE  /\ s[k] \in 1 .. (i + 1) - 1 /\ Around(ls, s[k], i + 1)
             /\ Opened(ls, s[k], (i + 1) - 1) = Len(s) - k + 1
  <2>1. s[k] \in 1 .. i - 1 /\ Around(ls, s[k], i) /\ Opened(ls, s[k], i - 1) = Len(s) - k + 1
    BY DEF Enclosing
  <2>. QED  BY <1>1, <1>2, <1>3, <2>1
<1>6. ASSUME NEW j \in 1 .. (i + 1) - 1, Around(ls, j, i + 1)
      PROVE  \E k \in 1 .. Len(s) : s[k] = j
  <2>1. j \in 1 .. i - 1
    BY <1>4, <1>6
  <2>. QED  BY <1>3, <1>6, <2>1 DEF Enclosing
<1>7. Opened(ls, 1, (i + 1) - 1) = Len(s)
  BY <1>1, <1>2 DEF Enclosing
<1>. QED  BY <1>5, <1>6, <1>7 DEF Enclosing

LEMMA EncloseOpen ==
  ASSUME NEW ls, NEW i \in Nat \ {0}, NEW s \in Seq(Nat), Enclosing(ls, i, s), ls[i].is = "open"
  PROVE  Enclosing(ls, i + 1, Append(s, i))
<1>. DEFINE u == Append(s, i)
<1>1. /\ Len(s) \in Nat /\ Len(u) = Len(s) + 1
      /\ \A k \in 1 .. Len(s) : u[k] = s[k]
      /\ u[Len(s) + 1] = i
  OBVIOUS
<1>. HIDE DEF u
<1>2. ASSUME NEW j \in 1 .. i PROVE Opened(ls, j, i) = Opened(ls, j, i - 1) + 1
  <2>1. j \in Nat /\ i \in Nat /\ j <= i
    OBVIOUS
  <2>. QED  BY <2>1, OpenedStep
<1>3. \A j \in 1 .. i - 1 : Around(ls, j, i + 1) <=> Around(ls, j, i) /\ Opened(ls, j, i) > 0
  BY AroundStep
<1>4. Around(ls, i, i + 1) /\ Opened(ls, i, i) = 1
  BY AroundSelf, <1>2, OpenedNone
<1>5. ASSUME NEW k \in 1 .. Len(u)
      PROVE  /\ u[k] \in 1 .. (i + 1) - 1 /\ Around(ls, u[k], i + 1)
             /\ Opened(ls, u[k], (i + 1) - 1) = Len(u) - k + 1
  <2>1. CASE k \in 1 .. Len(s)
    <3>1. s[k] \in 1 .. i - 1 /\ Around(ls, s[k], i) /\ Opened(ls, s[k], i - 1) = Len(s) - k + 1
      BY <2>1 DEF Enclosing
    <3>2. Opened(ls, s[k], i) = Len(u) - k + 1 /\ Opened(ls, s[k], i) > 0
      BY <1>1, <1>2, <2>1, <3>1
    <3>. QED  BY <1>1, <1>3, <2>1, <3>1, <3>2
  <2>2. CASE k = Len(s) + 1
    BY <1>1, <1>4, <2>2
  <2>. QED  BY <1>1, <2>1, <2>2
<1>6. ASSUME NEW k \in 1 .. Len(u), NEW l \in 1 .. Len(u), k < l
      PROVE  u[k] < u[l]
  <2>1. k \in 1 .. Len(s) /\ s[k] \in 1 .. i - 1
    BY <1>1, <1>6 DEF Enclosing
  <2>2. CASE l \in 1 .. Len(s)
    BY <1>1, <1>6, <2>1, <2>2 DEF Enclosing
  <2>3. CASE l = Len(s) + 1
    BY <1>1, <2>1, <2>3
  <2>. QED  BY <1>1, <2>2, <2>3
<1>7. ASSUME NEW j \in 1 .. (i + 1) - 1, Around(ls, j, i + 1)
      PROVE  \E k \in 1 .. Len(u) : u[k] = j
  <2>1. CASE j = i
    BY <1>1, <2>1
  <2>2. CASE j \in 1 .. i - 1
    <3>1. PICK k \in 1 .. Len(s) : s[k] = j
      BY <1>3, <1>7, <2>2 DEF Enclosing
    <3>. QED  BY <1>1, <3>1
  <2>. QED  BY <2>1, <2>2
<1>8. Opened(ls, 1, (i + 1) - 1) = Len(u)
  BY <1>1, <1>2 DEF Enclosing
<1>9. Enclosing(ls, i + 1, u)
  BY <1>5, <1>6, <1>7, <1>8 DEF Enclosing
<1>. QED  BY <1>9 DEF u

(* A stack without its top.                                                *)
LEMMA WithoutTop ==
  ASSUME NEW S, NEW s \in Seq(S), Len(s) > 0
  PROVE  /\ SubSeq(s, 1, Len(s) - 1) \in Seq(S)
         /\ Len(s) \in Nat /\ Len(SubSeq(s, 1, Len(s) - 1)) = Len(s) - 1
         /\ \A k \in 1 .. Len(SubSeq(s, 1, Len(s) - 1)) : SubSeq(s, 1, Len(s) - 1)[k] = s[k]
<1>. DEFINE n == Len(s) - 1
<1>1. n \in Nat /\ n = Len(s) - 1 /\ Len(s) \in Nat
  OBVIOUS
<1>. HIDE DEF n
<1>2. \A k \in 1 .. n : s[k] \in S
  BY <1>1
<1>3. /\ SubSeq(s, 1, n) \in Seq(S)
      /\ Len(SubSeq(s, 1, n)) = IF 1 <= n THEN n - 1 + 1 ELSE 0
      /\ \A k \in 1 .. n - 1 + 1 : SubSeq(s, 1, n)[k] = s[1 + k - 1]
  BY <1>1, <1>2, SubSeqProperties
<1>4. Len(SubSeq(s, 1, n)) = n
  BY <1>1, <1>3
<1>5. \A k \in 1 .. n : SubSeq(s, 1, n)[k] = s[k]
  BY <1>1, <1>3
<1>. QED  BY <1>1, <1>3, <1>4, <1>5

LEMMA EncloseClose ==
  ASSUME NEW ls, NEW i \in Nat \ {0}, NEW s \in Seq(Nat), Enclosing(ls, i, s), ls[i].is = "close",
         Len(s) > 0
  PROVE  Enclosing(ls, i + 1, SubSeq(s, 1, Len(s) - 1))
<1>. DEFINE u == SubSeq(s, 1, Len(s) - 1)
<1>1. /\ Len(s) \in Nat /\ Len(u) = Len(s) - 1
      /\ \A k \in 1 .. Len(u) : u[k] = s[k]
  BY WithoutTop
<1>. HIDE DEF u
<1>2. ASSUME NEW j \in 1 .. i PROVE Opened(ls, j, i) = Opened(ls, j, i - 1) - 1
  <2>1. j \in Nat /\ i \in Nat /\ j <= i
    OBVIOUS
  <2>. QED  BY <2>1, OpenedStep
<1>3. \A j \in 1 .. i - 1 : Around(ls, j, i + 1) <=> Around(ls, j, i) /\ Opened(ls, j, i) > 0
  BY AroundStep
<1>4. ~Around(ls, i, i + 1)
  BY AroundSelf
<1>5. ASSUME NEW k \in 1 .. Len(s)
      PROVE  /\ s[k] \in 1 .. i - 1 /\ Around(ls, s[k], i)
             /\ Opened(ls, s[k], i) = Len(s) - k
  <2>1. s[k] \in 1 .. i - 1 /\ Around(ls, s[k], i) /\ Opened(ls, s[k], i - 1) = Len(s) - k + 1
    BY DEF Enclosing
  <2>. QED  BY <1>1, <1>2, <2>1
<1>6. ASSUME NEW k \in 1 .. Len(u)
      PROVE  /\ u[k] \in 1 .. (i + 1) - 1 /\ Around(ls, u[k], i + 1)
             /\ Opened(ls, u[k], (i + 1) - 1) = Len(u) - k + 1
  <2>1. k \in 1 .. Len(s) /\ u[k] = s[k] /\ k < Len(s)
    BY <1>1
  <2>2. s[k] \in 1 .. i - 1 /\ Around(ls, s[k], i) /\ Opened(ls, s[k], i) = Len(s) - k
    BY <1>5, <2>1
  <2>3. Opened(ls, s[k], i) > 0 /\ (i + 1) - 1 = i /\ Len(u) - k + 1 = Len(s) - k
    BY <1>1, <2>1, <2>2
  <2>. QED  BY <1>3, <2>1, <2>2, <2>3
<1>7. ASSUME NEW k \in 1 .. Len(u), NEW l \in 1 .. Len(u), k < l
      PROVE  u[k] < u[l]
  BY <1>1, <1>7 DEF Enclosing
<1>8. ASSUME NEW j \in 1 .. (i + 1) - 1, Around(ls, j, i + 1)
      PROVE  \E k \in 1 .. Len(u) : u[k] = j
  <2>1. j \in 1 .. i - 1
    BY <1>4, <1>8
  <2>2. Around(ls, j, i) /\ Opened(ls, j, i) > 0
    BY <1>3, <1>8, <2>1
  <2>3. PICK k \in 1 .. Len(s) : s[k] = j
    BY <2>1, <2>2 DEF Enclosing
  <2>4. Len(s) - k > 0
    BY <1>5, <2>2, <2>3
  <2>. QED  BY <1>1, <2>3, <2>4
<1>9. Opened(ls, 1, (i + 1) - 1) = Len(u)
  BY <1>1, <1>2 DEF Enclosing
<1>10. Enclosing(ls, i + 1, u)
  BY <1>6, <1>7, <1>8, <1>9 DEF Enclosing
<1>. QED  BY <1>10 DEF u

-----------------------------------------------------------------------------
(* The time tag that RightTimetags asks for.                               *)
Wanted(ls, i) ==
    LET around == {j \in 1 .. i : Around(ls, j, i)}
    IN  IF around = {} THEN 1 ELSE ls[CHOOSE j \in around : \A h \in around : h <= j].tag.t

LEMMA WantedOfOpen ==
  ASSUME NEW ls, NEW i \in Nat \ {0}, ls[i].is = "open"
  PROVE  Wanted(ls, i) = ls[i].tag.t
<1>. DEFINE around == {j \in 1 .. i : Around(ls, j, i)}
<1>1. i \in around /\ \A h \in around : h <= i /\ h \in Nat
  BY AroundSelf
<1>2. (CHOOSE j \in around : \A h \in around : h <= j) = i
  <2>. DEFINE c == CHOOSE j \in around : \A h \in around : h <= j
  <2>1. c \in around /\ \A h \in around : h <= c
    BY <1>1
  <2>. QED  BY <1>1, <2>1
<1>. QED  BY <1>1, <1>2 DEF Wanted

LEMMA WantedOfMessage ==
  ASSUME NEW ls, NEW i \in Nat \ {0}, NEW s \in Seq(Nat), Enclosing(ls, i, s), ls[i].is = "message"
  PROVE  /\ s = <<>> => Wanted(ls, i) = 1
         /\ s # <<>> => Wanted(ls, i) = ls[s[Len(s)]].tag.t
<1>. DEFINE around == {j \in 1 .. i : Around(ls, j, i)}
<1>1. ~Around(ls, i, i)
  BY AroundSelf
<1>2. \A j \in around : j \in 1 .. i - 1 /\ \E k \in 1 .. Len(s) : s[k] = j
  BY <1>1 DEF Enclosing
<1>3. CASE s = <<>>
  <2>1. around = {}
    BY <1>2, <1>3
  <2>. QED  BY <1>3, <2>1 DEF Wanted
<1>4. CASE s # <<>>
  <2>1. Len(s) \in 1 .. Len(s)
    BY <1>4
  <2>2. s[Len(s)] \in around
    BY <2>1 DEF Enclosing
  <2>3. \A h \in around : h <= s[Len(s)] /\ h \in Nat
    <3> SUFFICES ASSUME NEW h \in around PROVE h <= s[Len(s)] /\ h \in Nat
      OBVIOUS
    <3>1. PICK k \in 1 .. Len(s) : s[k] = h
      BY <1>2
    <3>2. k < Len(s) => s[k] < s[Len(s)]
      BY <2>1 DEF Enclosing
    <3>. QED  BY <2>1, <3>1, <3>2
  <2>4. (CHOOSE j \in around : \A h \in around : h <= j) = s[Len(s)]
    <3>. DEFINE c == CHOOSE j \in around : \A h \in around : h <= j
    <3>1. c \in around /\ \A h \in around : h <= c
      BY <2>2, <2>3
    <3>. QED  BY <2>2, <2>3, <3>1
  <2>. QED  BY <1>4, <2>2, <2>4 DEF Wanted
<1>. QED  BY <1>3, <1>4

-----------------------------------------------------------------------------
(* The inductive invariant.                                                *)
Tags == {1} \cup UNION {{ls[h].tag.t : h \in {n \in DOMAIN ls : ls[n].is = "open"}} : ls \in Texts}

CallRecord == [place : Nat \X Nat, timetag : Tags, proc : Procs \cup Defaults \cup BundleProcs]

ServerOK ==
    /\ stream \in Seq(Texts) /\ Len(stream) <= MaxPackets
    /\ packet \in 0 .. Len(stream)
    /\ line \in Nat \ {0} /\ (packet > 0 => line <= Len(stream[packet]) + 1)
    /\ timetags \in Seq(Tags)
    /\ calls \in Seq(CallRecord)
    /\ todo \in Seq(Procs) \/ todo \in {<<d>> : d \in Defaults}

TablesOK ==
    /\ responders \in [Addresses -> Seq(Procs)]
    /\ default \in Defaults /\ bundleResponder \in BundleProcs
    /\ adding # NothingToAdd => adding.address \in Addresses /\ adding.procs \in Seq(Procs)

(* Procedures are called for a message only; what was called belongs to    *)
(* lines before, or to the message that is answered, and then no default   *)
(* is among it, neither before nor still to come.                          *)
Asked == todo # <<>> => Working /\ Line.is = "message"

CallsBehind ==
    \A k \in DOMAIN calls :
        /\ calls[k].place[1] \in 1 .. packet
        /\ calls[k].place[2] \in DOMAIN stream[calls[k].place[1]]
        /\ calls[k].place[1] = packet => calls[k].place[2] <= line
        /\ calls[k].place = Place => todo # <<>> /\ todo \in Seq(Procs) /\ calls[k].proc \notin Defaults

(* The time tags are those of the bundles around the line, after the 1.    *)
TagsOf(ls, s, tt) ==
    /\ Len(tt) = Len(s) + 1 /\ tt[1] = 1
    /\ \A k \in 1 .. Len(s) : tt[k + 1] = ls[s[k]].tag.t

BundlesOpen ==
    /\ packet = 0 => timetags = <<1>>
    /\ packet > 0 => \E s \in Seq(Nat) :
         Enclosing(stream[packet], line, s) /\ TagsOf(stream[packet], s, timetags)

AnswerInv == ServerOK /\ TablesOK /\ Asked /\ CallsBehind /\ BundlesOpen /\ AnsweredAsPromised

LEMMA TextBalanced ==
  ASSUME NEW ls \in Texts
  PROVE  /\ Len(ls) \in Nat /\ DOMAIN ls = 1 .. Len(ls)
         /\ Opened(ls, 1, Len(ls)) = 0
         /\ \A m \in DOMAIN ls : Opened(ls, 1, m) >= 0
<1>1. Balanced(ls)
  BY InputAssumption
<1>. QED  BY <1>1 DEF Balanced

LEMMA TagIsTag ==
  ASSUME NEW ls \in Texts, NEW i \in DOMAIN ls, ls[i].is = "open"
  PROVE  ls[i].tag.t \in Tags
BY DEF Tags

(* Where the Server is.                                                    *)
LEMMA AtWork ==
  ASSUME ServerOK
  PROVE  /\ \A n \in 1 .. Len(stream) : stream[n] \in Texts
         /\ Working => /\ packet \in 1 .. Len(stream) /\ stream[packet] \in Texts
                       /\ line \in DOMAIN stream[packet] /\ line \in 1 .. Len(stream[packet])
<1>1. \A n \in 1 .. Len(stream) : stream[n] \in Texts
  BY DEF ServerOK
<1>2. ASSUME Working PROVE packet \in 1 .. Len(stream) /\ stream[packet] \in Texts
  BY <1>1, <1>2 DEF ServerOK, Working
<1>3. ASSUME Working PROVE line \in DOMAIN stream[packet] /\ line \in 1 .. Len(stream[packet])
  BY <1>2, <1>3, TextBalanced DEF ServerOK, Working
<1>. QED  BY <1>1, <1>2, <1>3

LEMMA InitAnswerInv == InputInit => AnswerInv
<1> SUFFICES ASSUME InputInit PROVE AnswerInv
  OBVIOUS
<1>1. stream = <<>> /\ Len(stream) = 0 /\ packet = 0 /\ line = 1 /\ calls = <<>> /\ todo = <<>>
  BY DEF InputInit
<1>2. 1 \in Tags
  BY DEF Tags
<1>3. timetags \in Seq(Tags)
  BY <1>2 DEF InputInit
<1>4. ServerOK
  BY <1>1, <1>3, InputAssumption DEF ServerOK
<1>5. TablesOK
  BY DEF InputInit, TablesOK, Defaults, BundleProcs
<1>6. DOMAIN calls = {} /\ 1 .. packet = {}
  BY <1>1
<1>7. Asked /\ CallsBehind
  BY <1>1, <1>6 DEF Asked, CallsBehind
<1>8. BundlesOpen
  BY <1>1 DEF InputInit, BundlesOpen
<1>9. AnswersInOrder /\ RightTimetags /\ DefaultOnlyAlone
  BY <1>6 DEF AnswersInOrder, RightTimetags, DefaultOnlyAlone
<1>. QED  BY <1>4, <1>5, <1>7, <1>8, <1>9 DEF AnswerInv, AnsweredAsPromised

-----------------------------------------------------------------------------
(* Steps in which the Server rests.                                        *)
LEMMA ServerRests ==
  ASSUME AnswerInv, stream' \in Seq(Texts), Len(stream') >= Len(stream), Len(stream') <= MaxPackets,
         \A n \in 1 .. Len(stream) : stream'[n] = stream[n],
         UNCHANGED serverVars
  PROVE  /\ ServerOK' /\ Asked' /\ CallsBehind' /\ BundlesOpen' /\ AnsweredAsPromised'
<1>1. /\ packet' = packet /\ line' = line /\ timetags' = timetags /\ todo' = todo /\ calls' = calls
      /\ Place' = Place
  BY DEF serverVars, Place
<1>2. packet \in 0 .. Len(stream) /\ Len(stream) \in Nat /\ Len(stream') \in Nat
  BY DEF AnswerInv, ServerOK
<1>3. \A n \in 1 .. packet : stream'[n] = stream[n]
  BY <1>2
<1>4. packet > 0 => stream'[packet] = stream[packet]
  BY <1>2, <1>3
<1>5. ServerOK'
  BY <1>1, <1>2, <1>4 DEF AnswerInv, ServerOK
<1>6. Asked'
  BY <1>1, <1>4 DEF AnswerInv, Asked, Working, Line
<1>7. CallsBehind'
  BY <1>1, <1>3 DEF AnswerInv, CallsBehind
<1>8. BundlesOpen'
  BY <1>1, <1>4 DEF AnswerInv, BundlesOpen
<1>9. AnswersInOrder'
  BY <1>1, <1>3 DEF AnswerInv, AnsweredAsPromised, AnswersInOrder
<1>10. \A k \in DOMAIN calls : stream'[calls[k].place[1]] = stream[calls[k].place[1]]
  BY <1>3 DEF AnswerInv, CallsBehind
<1>11. RightTimetags'
  <2>1. \A k \in DOMAIN calls : calls[k].timetag = Wanted(stream[calls[k].place[1]], calls[k].place[2])
    BY DEF AnswerInv, AnsweredAsPromised, RightTimetags, Wanted
  <2>2. \A k \in DOMAIN calls' : calls'[k].timetag = Wanted(stream'[calls'[k].place[1]], calls'[k].place[2])
    BY <1>1, <1>10, <2>1
  <2>. QED  BY <2>2 DEF RightTimetags, Wanted
<1>12. DefaultOnlyAlone'
  BY <1>1 DEF AnswerInv, AnsweredAsPromised, DefaultOnlyAlone
<1>. QED  BY <1>5, <1>6, <1>7, <1>8, <1>9, <1>11, <1>12 DEF AnsweredAsPromised

(* What the user does to the tables, and what the Server leaves of them.   *)
LEMMA StepTables == TablesOK /\ [InputNext]_inputVars => TablesOK'
<1> SUFFICES ASSUME TablesOK, [InputNext]_inputVars PROVE TablesOK'
  OBVIOUS
<1>1. ASSUME UNCHANGED tableVars PROVE TablesOK'
  BY <1>1 DEF TablesOK, tableVars
<1>2. ASSUME NEW a \in Addresses, NEW proc \in Procs, addResponder(a, proc) PROVE TablesOK'
  <2>1. responders[a] \in Seq(Procs)
    BY DEF TablesOK
  <2>2. <<proc>> \o responders[a] \in Seq(Procs)
    BY <2>1
  <2>3. adding'.address = a /\ adding'.procs = <<proc>> \o responders[a]
    BY <1>2 DEF addResponder
  <2>. QED  BY <1>2, <2>2, <2>3 DEF addResponder, TablesOK
<1>3. ASSUME NEW a \in Addresses, NEW proc \in Procs, setResponder(a, proc) PROVE TablesOK'
  <2>1. <<proc>> \in Seq(Procs)
    OBVIOUS
  <2>. QED  BY <1>3, <2>1 DEF setResponder, TablesOK
<1>4. ASSUME NEW a \in Addresses, removeResponder(a) PROVE TablesOK'
  <2>1. <<>> \in Seq(Procs)
    OBVIOUS
  <2>. QED  BY <1>4, <2>1 DEF removeResponder, TablesOK
<1>5. ASSUME Added PROVE TablesOK'
  BY <1>5 DEF Added, TablesOK
<1>6. ASSUME NEW proc \in Defaults, setDefaultResponder(proc) PROVE TablesOK'
  BY <1>6 DEF setDefaultResponder, TablesOK
<1>7. ASSUME NEW proc \in BundleProcs, setBundleResponder(proc) PROVE TablesOK'
  BY <1>7 DEF setBundleResponder, TablesOK
<1>8. UserChanges => TablesOK'
  BY <1>2, <1>3, <1>4, <1>5, <1>6, <1>7 DEF UserChanges
<1>9. ASSUME UserPuts PROVE TablesOK'
  BY <1>9 DEF UserPuts, TablesOK
<1>10. ServerStep => UNCHANGED tableVars
  BY DEF ServerStep, NextPacket, OpenBundle, CloseBundle, Look, Call
<1>11. Deliver => UNCHANGED tableVars
  BY DEF Deliver
<1>12. ASSUME NEW t \in {Server, User}, Buffering(t) PROVE UNCHANGED tableVars
  BY <1>12 DEF Buffering
<1>13. UNCHANGED inputVars => UNCHANGED tableVars
  BY DEF inputVars
<1>. QED  BY <1>1, <1>8, <1>9, <1>10, <1>11, <1>12, <1>13 DEF InputNext

-----------------------------------------------------------------------------
(* Steps of the Server.                                                    *)

(* What was called is not about the lines to come.                         *)
LEMMA NothingAhead ==
  ASSUME AnswerInv, NEW n \in Nat, NEW i \in Nat, n > packet \/ (n = packet /\ i > line)
  PROVE  \A k \in DOMAIN calls : calls[k].place # <<n, i>>
<1> SUFFICES ASSUME NEW k \in DOMAIN calls, calls[k].place = <<n, i>> PROVE FALSE
  OBVIOUS
<1>1. calls[k].place[1] = n /\ calls[k].place[2] = i
  OBVIOUS
<1>2. packet \in Nat /\ line \in Nat
  BY DEF AnswerInv, ServerOK
<1>3. n \in 1 .. packet /\ (n = packet => i <= line)
  BY <1>1 DEF AnswerInv, CallsBehind
<1>. QED  BY <1>2, <1>3

(* A line without calls is passed, or the next packet begins.              *)
LEMMA WithoutCall ==
  ASSUME AnswerInv, todo = <<>>, todo' = <<>> \/ packet' = packet,
         stream' = stream, calls' = calls,
         packet' \in 0 .. Len(stream), line' \in Nat \ {0},
         \/ packet' = packet /\ line' = line
         \/ packet' = packet /\ line' = line + 1 /\ Working /\ Line.is = "close"
         \/ packet' = packet + 1 /\ line' = 1 /\ ~Working
  PROVE  AnsweredAsPromised' /\ CallsBehind'
<1>1. packet \in Nat /\ line \in Nat \ {0} /\ Len(stream) \in Nat /\ ServerOK
  BY DEF AnswerInv, ServerOK
<1>2. AnswersInOrder'
  <2> SUFFICES ASSUME NEW n \in 1 .. packet', NEW i \in DOMAIN stream[n], n < packet' \/ i < line',
                      stream[n][i].is # "close"
               PROVE  \E j \in DOMAIN calls : calls[j].place = <<n, i>>
    BY DEF AnswerInv, AnsweredAsPromised, AnswersInOrder
  <2>1. n \in 1 .. Len(stream)
    BY <1>1
  <2>2. i \in Nat /\ i \in 1 .. Len(stream[n]) /\ Len(stream[n]) \in Nat
    BY <1>1, <2>1, AtWork, TextBalanced
  <2>3. n \in 1 .. packet /\ (n < packet \/ i < line)
    <3>1. CASE packet' = packet /\ line' = line
      BY <3>1
    <3>2. CASE packet' = packet /\ line' = line + 1 /\ Working /\ Line.is = "close"
      BY <1>1, <2>2, <3>2 DEF Line
    <3>3. CASE packet' = packet + 1 /\ line' = 1 /\ ~Working
      BY <1>1, <2>2, <3>3 DEF Working
    <3>. QED  BY <3>1, <3>2, <3>3
  <2>. QED  BY <2>3 DEF AnswerInv, AnsweredAsPromised, AnswersInOrder
<1>3. RightTimetags' /\ DefaultOnlyAlone'
  BY DEF AnswerInv, AnsweredAsPromised, RightTimetags, DefaultOnlyAlone
<1>4. \A k \in DOMAIN calls : calls[k].place # Place'
  <2>1. CASE packet' = packet /\ line' = line
    BY <2>1 DEF AnswerInv, CallsBehind, Place
  <2>2. CASE packet' = packet /\ line' = line + 1
    <3>1. \A k \in DOMAIN calls : calls[k].place # <<packet, line + 1>>
      BY <1>1, NothingAhead
    <3>. QED  BY <2>2, <3>1 DEF Place
  <2>3. CASE packet' = packet + 1
    BY <1>1, <2>3, NothingAhead DEF Place
  <2>. QED  BY <2>1, <2>2, <2>3
<1>5. ASSUME NEW k \in DOMAIN calls
      PROVE  /\ calls[k].place[1] \in 1 .. packet'
             /\ calls[k].place[2] \in DOMAIN stream[calls[k].place[1]]
             /\ calls[k].place[1] = packet' => calls[k].place[2] <= line'
  <2>1. /\ calls[k].place[1] \in 1 .. packet
        /\ calls[k].place[2] \in DOMAIN stream[calls[k].place[1]]
        /\ calls[k].place[1] = packet => calls[k].place[2] <= line
    BY DEF AnswerInv, CallsBehind
  <2>2. calls[k] \in CallRecord
    BY DEF AnswerInv, ServerOK
  <2>3. calls[k].place[2] \in Nat
    BY <2>2 DEF CallRecord
  <2>. QED  BY <1>1, <2>1, <2>3
<1>6. CallsBehind'
  BY <1>4, <1>5 DEF CallsBehind
<1>. QED  BY <1>2, <1>3, <1>6 DEF AnsweredAsPromised

(* A procedure is called for the line, with the right time tag; the        *)
(* default alone.                                                          *)
LEMMA WithCall ==
  ASSUME AnswerInv, Working, stream' = stream, packet' = packet,
         NEW c \in CallRecord, calls' = Append(calls, c),
         c.place = Place, c.timetag = Wanted(stream[packet], line),
         line' = line + 1 \/ (line' = line /\ todo' # <<>> /\ todo' \in Seq(Procs) /\ c.proc \notin Defaults),
         \A k \in DOMAIN calls : calls[k].place = Place => c.proc \notin Defaults
  PROVE  AnsweredAsPromised' /\ CallsBehind' /\ calls' \in Seq(CallRecord)
<1>1. /\ packet \in 1 .. Len(stream) /\ line \in Nat \ {0} /\ Len(stream) \in Nat /\ ServerOK
      /\ line \in DOMAIN stream[packet] /\ stream[packet] \in Texts
      /\ calls \in Seq(CallRecord)
  BY AtWork DEF AnswerInv, ServerOK
<1>2. /\ calls' \in Seq(CallRecord) /\ Len(calls) \in Nat /\ Len(calls') = Len(calls) + 1
      /\ DOMAIN calls = 1 .. Len(calls) /\ DOMAIN calls' = 1 .. Len(calls) + 1
      /\ \A k \in DOMAIN calls : calls'[k] = calls[k]
      /\ calls'[Len(calls) + 1] = c
  BY <1>1, AppendProperties
<1>3. Place[1] = packet /\ Place[2] = line
  BY DEF Place
<1>4. \A k \in DOMAIN calls :
        /\ calls[k] \in CallRecord
        /\ calls[k].place[1] \in 1 .. packet
        /\ calls[k].place[2] \in DOMAIN stream[calls[k].place[1]]
        /\ calls[k].place[1] = packet => calls[k].place[2] <= line
        /\ calls[k].place = Place => calls[k].proc \notin Defaults
  BY <1>1 DEF AnswerInv, CallsBehind
<1>5. \A k \in DOMAIN calls : calls[k].place[1] \in Nat /\ calls[k].place[2] \in Nat
  BY <1>4 DEF CallRecord
<1>6. \A k \in DOMAIN calls : ~Before(Place, calls[k].place)
  BY <1>1, <1>3, <1>4, <1>5 DEF Before
<1>7. ASSUME NEW j \in DOMAIN calls', NEW k \in DOMAIN calls', j < k
      PROVE  ~Before(calls'[k].place, calls'[j].place)
  <2>1. j \in DOMAIN calls
    BY <1>2, <1>7
  <2>2. CASE k \in DOMAIN calls
    BY <1>2, <1>7, <2>1, <2>2 DEF AnswerInv, AnsweredAsPromised, AnswersInOrder
  <2>3. CASE k = Len(calls) + 1
    BY <1>2, <1>6, <2>1, <2>3
  <2>. QED  BY <1>2, <2>2, <2>3
<1>8. ASSUME NEW n \in 1 .. packet', NEW i \in DOMAIN stream'[n], n < packet' \/ i < line',
             stream'[n][i].is # "close"
      PROVE  \E j \in DOMAIN calls' : calls'[j].place = <<n, i>>
  <2>1. n \in 1 .. Len(stream)
    BY <1>1
  <2>2. i \in Nat
    BY <1>1, <2>1, AtWork, TextBalanced
  <2>3. CASE n < packet \/ i < line
    <3>1. PICK j \in DOMAIN calls : calls[j].place = <<n, i>>
      BY <1>8, <2>3 DEF AnswerInv, AnsweredAsPromised, AnswersInOrder
    <3>. QED  BY <1>2, <3>1
  <2>4. CASE ~(n < packet \/ i < line)
    <3>1. n = packet /\ i = line
      BY <1>1, <1>8, <2>1, <2>2, <2>4
    <3>. QED  BY <1>2, <3>1 DEF Place
  <2>. QED  BY <2>3, <2>4
<1>9. AnswersInOrder'
  BY <1>7, <1>8 DEF AnswersInOrder
<1>10. RightTimetags'
  <2>1. \A k \in DOMAIN calls : calls[k].timetag = Wanted(stream[calls[k].place[1]], calls[k].place[2])
    BY DEF AnswerInv, AnsweredAsPromised, RightTimetags, Wanted
  <2>2. c.timetag = Wanted(stream[c.place[1]], c.place[2])
    BY <1>3
  <2>3. \A k \in DOMAIN calls' : calls'[k].timetag = Wanted(stream'[calls'[k].place[1]], calls'[k].place[2])
    BY <1>2, <2>1, <2>2
  <2>. QED  BY <2>3 DEF RightTimetags, Wanted
<1>11. DefaultOnlyAlone'
  <2> SUFFICES ASSUME NEW j \in DOMAIN calls', NEW k \in DOMAIN calls', j # k, calls'[j].proc \in Defaults
               PROVE  calls'[k].place # calls'[j].place
    BY DEF DefaultOnlyAlone
  <2>1. CASE j \in DOMAIN calls /\ k \in DOMAIN calls
    BY <1>2, <2>1 DEF AnswerInv, AnsweredAsPromised, DefaultOnlyAlone
  <2>2. CASE j \in DOMAIN calls /\ k = Len(calls) + 1
    BY <1>2, <1>4, <2>2
  <2>3. CASE j = Len(calls) + 1 /\ k \in DOMAIN calls
    BY <1>2, <2>3
  <2>. QED  BY <1>2, <2>1, <2>2, <2>3
<1>12. CallsBehind'
  <2> SUFFICES ASSUME NEW k \in DOMAIN calls'
               PROVE  /\ calls'[k].place[1] \in 1 .. packet
                      /\ calls'[k].place[2] \in DOMAIN stream[calls'[k].place[1]]
                      /\ calls'[k].place[1] = packet => calls'[k].place[2] <= line'
                      /\ calls'[k].place = Place'
                           => todo' # <<>> /\ todo' \in Seq(Procs) /\ calls'[k].proc \notin Defaults
    BY DEF CallsBehind
  <2>1. line <= line' /\ line' \in Nat
    BY <1>1
  <2>2. /\ calls'[k].place[1] \in 1 .. packet
        /\ calls'[k].place[2] \in DOMAIN stream[calls'[k].place[1]]
        /\ calls'[k].place[1] = packet => calls'[k].place[2] <= line
        /\ calls'[k].place[2] \in Nat
    <3>1. CASE k \in DOMAIN calls
      BY <1>2, <1>4, <1>5, <3>1
    <3>2. CASE k = Len(calls) + 1
      BY <1>1, <1>2, <1>3, <3>2
    <3>. QED  BY <1>2, <3>1, <3>2
  <2>3. calls'[k].place = Place => calls'[k].proc \notin Defaults \/ line' = line + 1
    BY <1>2, <1>4
  <2>4. ASSUME calls'[k].place = Place'
        PROVE  todo' # <<>> /\ todo' \in Seq(Procs) /\ calls'[k].proc \notin Defaults
    <3>1. calls'[k].place[1] = packet /\ calls'[k].place[2] = line'
      BY <2>4 DEF Place
    <3>2. line' = line
      BY <1>1, <2>2, <3>1
    <3>3. Place' = Place
      BY <3>2 DEF Place
    <3>. QED  BY <1>1, <2>3, <2>4, <3>2, <3>3
  <2>. QED  BY <1>1, <2>1, <2>2, <2>4
<1>. QED  BY <1>2, <1>9, <1>10, <1>11, <1>12 DEF AnsweredAsPromised

LEMMA StepNextPacket == ASSUME AnswerInv, NextPacket, TablesOK' PROVE AnswerInv'
<1>1. /\ todo = <<>> /\ ~Working /\ packet < Len(stream)
      /\ packet' = packet + 1 /\ line' = 1
      /\ stream' = stream /\ timetags' = timetags /\ todo' = todo /\ calls' = calls
  BY DEF NextPacket, Idle
<1>2. ServerOK /\ packet \in Nat /\ Len(stream) \in Nat /\ line \in Nat \ {0}
  BY DEF AnswerInv, ServerOK
<1>3. packet' \in 1 .. Len(stream) /\ stream[packet'] \in Texts
  BY <1>1, <1>2, AtWork
<1>4. Len(stream[packet']) \in Nat
  BY <1>3, TextBalanced
<1>5. ServerOK'
  BY <1>1, <1>2, <1>3, <1>4 DEF ServerOK
<1>6. AnsweredAsPromised' /\ CallsBehind'
  BY <1>1, <1>3, WithoutCall
<1>7. Asked'
  BY <1>1 DEF Asked
<1>8. timetags = <<1>>
  <2>1. CASE packet = 0
    BY <2>1 DEF AnswerInv, BundlesOpen
  <2>2. CASE packet > 0
    <3>1. PICK s \in Seq(Nat) : Enclosing(stream[packet], line, s) /\ TagsOf(stream[packet], s, timetags)
      BY <2>2 DEF AnswerInv, BundlesOpen
    <3>2. packet \in 1 .. Len(stream) /\ stream[packet] \in Texts
      BY <1>1, <1>2, <2>2, AtWork
    <3>3. Len(stream[packet]) \in Nat /\ Opened(stream[packet], 1, Len(stream[packet])) = 0
      BY <3>2, TextBalanced
    <3>4. line = Len(stream[packet]) + 1
      BY <1>1, <1>2, <2>2, <3>3 DEF ServerOK, Working
    <3>5. Len(s) = 0
      BY <3>1, <3>3, <3>4 DEF Enclosing
    <3>6. Len(timetags) = 1 /\ timetags[1] = 1
      BY <3>1, <3>5 DEF TagsOf
    <3>. QED  BY <1>2, <3>6 DEF ServerOK
  <2>. QED  BY <1>2, <2>1, <2>2
<1>9. BundlesOpen'
  <2>1. Enclosing(stream[packet'], 1, <<>>)
    BY EncloseFirst
  <2>2. TagsOf(stream[packet'], <<>>, timetags)
    BY <1>8 DEF TagsOf
  <2>3. <<>> \in Seq(Nat)
    OBVIOUS
  <2>4. packet' # 0
    BY <1>3
  <2>. QED  BY <1>1, <2>1, <2>2, <2>3, <2>4 DEF BundlesOpen
<1>. QED  BY <1>5, <1>6, <1>7, <1>9 DEF AnswerInv

LEMMA StepLook == ASSUME AnswerInv, Look, TablesOK' PROVE AnswerInv'
<1>1. /\ todo = <<>> /\ Working /\ Line.is = "message"
      /\ todo' = (IF Installed # <<>> THEN Installed ELSE <<default>>)
      /\ stream' = stream /\ packet' = packet /\ line' = line /\ timetags' = timetags /\ calls' = calls
  BY DEF Look, Idle
<1>2. ServerOK /\ packet \in 0 .. Len(stream) /\ line \in Nat \ {0}
  BY DEF AnswerInv, ServerOK
<1>3. Installed \in Seq(Procs)
  BY DEF AnswerInv, TablesOK, Installed
<1>4. todo' \in Seq(Procs) \/ todo' \in {<<d>> : d \in Defaults}
  BY <1>1, <1>3 DEF AnswerInv, TablesOK
<1>5. ServerOK'
  BY <1>1, <1>2, <1>4 DEF ServerOK
<1>6. AnsweredAsPromised' /\ CallsBehind'
  BY <1>1, <1>2, WithoutCall
<1>7. Asked'
  BY <1>1 DEF Asked, Working, Line
<1>8. BundlesOpen'
  BY <1>1 DEF AnswerInv, BundlesOpen
<1>. QED  BY <1>5, <1>6, <1>7, <1>8 DEF AnswerInv

LEMMA StepCloseBundle == ASSUME AnswerInv, CloseBundle, TablesOK' PROVE AnswerInv'
<1>. DEFINE ls == stream[packet]
            top == SubSeq(timetags, 1, Len(timetags) - 1)
<1>1. /\ todo = <<>> /\ Working /\ Line.is = "close"
      /\ timetags' = top /\ line' = line + 1
      /\ stream' = stream /\ packet' = packet /\ todo' = todo /\ calls' = calls
  BY DEF CloseBundle, Idle
<1>2. /\ ServerOK /\ packet \in 1 .. Len(stream) /\ Len(stream) \in Nat /\ line \in Nat \ {0}
      /\ ls \in Texts /\ line \in DOMAIN ls /\ timetags \in Seq(Tags)
  BY <1>1, AtWork DEF AnswerInv, ServerOK
<1>3. Len(ls) \in Nat /\ line <= Len(ls) /\ Opened(ls, 1, line) >= 0
  BY <1>2, TextBalanced
<1>4. ls[line].is = "close"
  BY <1>1 DEF Line
<1>5. PICK s \in Seq(Nat) : Enclosing(ls, line, s) /\ TagsOf(ls, s, timetags)
  BY <1>2 DEF AnswerInv, BundlesOpen
<1>6. Len(s) > 0
  <2>1. 1 \in Nat /\ line \in Nat /\ 1 <= line
    BY <1>2
  <2>2. Opened(ls, 1, line) = Opened(ls, 1, line - 1) - 1 /\ Opened(ls, 1, line - 1) \in Int
    BY <2>1, <1>4, OpenedStep
  <2>. QED  BY <1>3, <1>5, <2>2 DEF Enclosing
<1>. DEFINE u == SubSeq(s, 1, Len(s) - 1)
<1>7. Enclosing(ls, line + 1, u)
  BY <1>2, <1>4, <1>5, <1>6, EncloseClose
<1>8. /\ u \in Seq(Nat) /\ Len(u) = Len(s) - 1 /\ Len(s) \in Nat
      /\ \A k \in 1 .. Len(u) : u[k] = s[k]
  BY <1>6, WithoutTop
<1>9. Len(timetags) = Len(s) + 1 /\ Len(timetags) > 0
  BY <1>5, <1>8 DEF TagsOf
<1>10. /\ top \in Seq(Tags) /\ Len(top) = Len(timetags) - 1
       /\ \A k \in 1 .. Len(top) : top[k] = timetags[k]
  BY <1>2, <1>9, WithoutTop
<1>. HIDE DEF u, top, ls
<1>11. TagsOf(ls, u, top)
  <2>1. Len(top) = Len(u) + 1 /\ top[1] = 1
    BY <1>5, <1>6, <1>8, <1>9, <1>10 DEF TagsOf
  <2>2. ASSUME NEW k \in 1 .. Len(u) PROVE top[k + 1] = ls[u[k]].tag.t
    <3>1. k + 1 \in 1 .. Len(top) /\ k \in 1 .. Len(s)
      BY <1>8, <1>9, <1>10
    <3>2. top[k + 1] = timetags[k + 1] /\ u[k] = s[k]
      BY <3>1, <1>8, <1>10
    <3>. QED  BY <1>5, <3>1, <3>2 DEF TagsOf
  <2>. QED  BY <2>1, <2>2 DEF TagsOf
<1>12. ServerOK'
  BY <1>1, <1>2, <1>3, <1>10 DEF ServerOK, ls
<1>13. AnsweredAsPromised' /\ CallsBehind'
  BY <1>1, <1>2, WithoutCall
<1>14. Asked'
  BY <1>1 DEF Asked
<1>15. BundlesOpen'
  BY <1>1, <1>2, <1>7, <1>8, <1>11 DEF BundlesOpen, ls
<1>. QED  BY <1>12, <1>13, <1>14, <1>15 DEF AnswerInv

LEMMA StepOpenBundle == ASSUME AnswerInv, OpenBundle, TablesOK' PROVE AnswerInv'
<1>. DEFINE ls == stream[packet]
            c == [place |-> Place, timetag |-> Line.tag.t, proc |-> bundleResponder]
            more == Append(timetags, Line.tag.t)
<1>1. /\ todo = <<>> /\ Working /\ Line.is = "open"
      /\ calls' = Append(calls, c) /\ timetags' = more /\ line' = line + 1
      /\ stream' = stream /\ packet' = packet /\ todo' = todo
  BY DEF OpenBundle, Idle
<1>2. /\ ServerOK /\ packet \in 1 .. Len(stream) /\ Len(stream) \in Nat /\ line \in Nat \ {0}
      /\ ls \in Texts /\ line \in DOMAIN ls /\ timetags \in Seq(Tags)
  BY <1>1, AtWork DEF AnswerInv, ServerOK
<1>3. Len(ls) \in Nat /\ line <= Len(ls)
  BY <1>2, TextBalanced
<1>4. ls[line].is = "open" /\ Line = ls[line]
  BY <1>1 DEF Line
<1>5. Line.tag.t \in Tags /\ Line.tag.t = Wanted(ls, line)
  BY <1>2, <1>4, TagIsTag, WantedOfOpen
<1>6. c \in CallRecord
  BY <1>2, <1>5 DEF AnswerInv, TablesOK, CallRecord, Place
<1>7. bundleResponder \notin Defaults
  BY DEF AnswerInv, TablesOK, BundleProcs, Defaults
<1>. HIDE DEF c
<1>8. c.place = Place /\ c.timetag = Wanted(stream[packet], line) /\ c.proc \notin Defaults
  BY <1>5, <1>7 DEF c
<1>9. AnsweredAsPromised' /\ CallsBehind' /\ calls' \in Seq(CallRecord)
  BY <1>1, <1>6, <1>8, WithCall
<1>10. PICK s \in Seq(Nat) : Enclosing(ls, line, s) /\ TagsOf(ls, s, timetags)
  BY <1>2 DEF AnswerInv, BundlesOpen
<1>. DEFINE u == Append(s, line)
<1>11. Enclosing(ls, line + 1, u)
  BY <1>2, <1>4, <1>10, EncloseOpen
<1>12. /\ u \in Seq(Nat) /\ Len(s) \in Nat /\ Len(u) = Len(s) + 1
       /\ \A k \in 1 .. Len(s) : u[k] = s[k]
       /\ u[Len(s) + 1] = line
  BY <1>2
<1>13. /\ more \in Seq(Tags) /\ Len(more) = Len(timetags) + 1
       /\ \A k \in 1 .. Len(timetags) : more[k] = timetags[k]
       /\ more[Len(timetags) + 1] = Line.tag.t
  BY <1>2, <1>5, AppendProperties
<1>. HIDE DEF u, more, ls
<1>14. TagsOf(ls, u, more)
  <2>1. Len(timetags) = Len(s) + 1
    BY <1>10 DEF TagsOf
  <2>2. Len(more) = Len(u) + 1 /\ more[1] = 1
    BY <1>10, <1>12, <1>13, <2>1 DEF TagsOf
  <2>3. ASSUME NEW k \in 1 .. Len(u) PROVE more[k + 1] = ls[u[k]].tag.t
    <3>1. CASE k \in 1 .. Len(s)
      <4>1. k + 1 \in 1 .. Len(timetags)
        BY <1>12, <2>1, <3>1
      <4>. QED  BY <1>10, <1>12, <1>13, <3>1, <4>1 DEF TagsOf
    <3>2. CASE k = Len(s) + 1
      BY <1>4, <1>12, <1>13, <2>1, <3>2
    <3>. QED  BY <1>12, <3>1, <3>2
  <2>. QED  BY <2>2, <2>3 DEF TagsOf
<1>15. ServerOK'
  BY <1>1, <1>2, <1>3, <1>9, <1>13 DEF ServerOK, ls
<1>16. Asked'
  BY <1>1 DEF Asked
<1>17. BundlesOpen'
  BY <1>1, <1>2, <1>11, <1>12, <1>14 DEF BundlesOpen, ls
<1>. QED  BY <1>9, <1>15, <1>16, <1>17 DEF AnswerInv

(* What a procedure is called with for a message.                          *)
LEMMA TimetagOfMessage ==
  ASSUME AnswerInv, Working, Line.is = "message"
  PROVE  Timetag \in Tags /\ Timetag = Wanted(stream[packet], line)
<1>. DEFINE ls == stream[packet]
<1>1. /\ ServerOK /\ packet \in 1 .. Len(stream) /\ Len(stream) \in Nat /\ line \in Nat \ {0}
      /\ timetags \in Seq(Tags) /\ ls[line].is = "message"
  BY AtWork DEF AnswerInv, ServerOK, Line
<1>2. PICK s \in Seq(Nat) : Enclosing(ls, line, s) /\ TagsOf(ls, s, timetags)
  BY <1>1 DEF AnswerInv, BundlesOpen
<1>3. Len(s) \in Nat /\ Len(timetags) = Len(s) + 1
  BY <1>2 DEF TagsOf
<1>4. Timetag = timetags[Len(s) + 1] /\ Timetag \in Tags
  BY <1>1, <1>3 DEF Timetag
<1>5. CASE s = <<>>
  <2>1. Len(s) = 0 /\ timetags[1] = 1
    BY <1>2, <1>5 DEF TagsOf
  <2>2. Wanted(ls, line) = 1
    BY <1>1, <1>2, <1>5, WantedOfMessage
  <2>. QED  BY <1>4, <2>1, <2>2
<1>6. CASE s # <<>>
  <2>1. Len(s) \in 1 .. Len(s)
    BY <1>6
  <2>2. timetags[Len(s) + 1] = ls[s[Len(s)]].tag.t
    BY <1>2, <2>1 DEF TagsOf
  <2>. QED  BY <1>1, <1>2, <1>4, <1>6, <2>2, WantedOfMessage
<1>. QED  BY <1>5, <1>6

LEMMA StepCall == ASSUME AnswerInv, Call, TablesOK' PROVE AnswerInv'
<1>. DEFINE c == [place |-> Place, timetag |-> Timetag, proc |-> Head(todo)]
<1>1. /\ todo # <<>> /\ calls' = Append(calls, c) /\ todo' = Tail(todo)
      /\ line' = (IF Tail(todo) = <<>> THEN line + 1 ELSE line)
      /\ stream' = stream /\ packet' = packet /\ timetags' = timetags
  BY DEF Call, Called
<1>2. Working /\ Line.is = "message"
  BY <1>1 DEF AnswerInv, Asked
<1>3. /\ ServerOK /\ packet \in 1 .. Len(stream) /\ Len(stream) \in Nat /\ line \in Nat \ {0}
      /\ stream[packet] \in Texts /\ line \in DOMAIN stream[packet]
  BY <1>2, AtWork DEF AnswerInv, ServerOK
<1>4. Len(stream[packet]) \in Nat /\ line <= Len(stream[packet])
  BY <1>3, TextBalanced
<1>5. Timetag \in Tags /\ Timetag = Wanted(stream[packet], line)
  BY <1>2, TimetagOfMessage
<1>6. \/ todo \in Seq(Procs) /\ Head(todo) \in Procs /\ Tail(todo) \in Seq(Procs)
      \/ Head(todo) \in Defaults /\ Tail(todo) = <<>> /\ todo \notin Seq(Procs)
  <2>1. CASE todo \in Seq(Procs)
    BY <1>1, <2>1
  <2>2. CASE todo \notin Seq(Procs)
    <3>1. PICK d \in Defaults : todo = <<d>>
      BY <1>3, <2>2 DEF ServerOK
    <3>2. Head(<<d>>) = d /\ Tail(<<d>>) = <<>>
      OBVIOUS
    <3>. QED  BY <2>2, <3>1, <3>2
  <2>. QED  BY <2>1, <2>2
<1>7. Procs \cap Defaults = {}
  BY DEF Procs, Defaults
<1>8. c \in CallRecord
  BY <1>3, <1>5, <1>6 DEF CallRecord, Place
<1>9. c.place = Place /\ c.timetag = Wanted(stream[packet], line) /\ c.proc = Head(todo)
  BY <1>5
<1>. HIDE DEF c
<1>10. \A k \in DOMAIN calls : calls[k].place = Place => c.proc \notin Defaults
  BY <1>6, <1>7, <1>9 DEF AnswerInv, CallsBehind
<1>11. line' = line + 1 \/ (line' = line /\ todo' # <<>> /\ todo' \in Seq(Procs) /\ c.proc \notin Defaults)
  BY <1>1, <1>6, <1>7, <1>9
<1>12. AnsweredAsPromised' /\ CallsBehind' /\ calls' \in Seq(CallRecord)
  BY <1>1, <1>2, <1>8, <1>9, <1>10, <1>11, WithCall
<1>13. todo' \in Seq(Procs)
  <2>1. <<>> \in Seq(Procs)
    OBVIOUS
  <2>. QED  BY <1>1, <1>6, <2>1
<1>14. ServerOK'
  BY <1>1, <1>3, <1>4, <1>12, <1>13 DEF ServerOK
<1>15. Asked'
  <2>1. todo' # <<>> => line' = line
    BY <1>1
  <2>. QED  BY <1>1, <1>2, <2>1 DEF Asked, Working, Line
<1>16. BundlesOpen'
  <2>1. PICK s \in Seq(Nat) : Enclosing(stream[packet], line, s) /\ TagsOf(stream[packet], s, timetags)
    BY <1>3 DEF AnswerInv, BundlesOpen
  <2>2. Enclosing(stream[packet], line + 1, s)
    BY <1>2, <1>3, <2>1, EncloseMessage DEF Line
  <2>3. Enclosing(stream[packet], line', s)
    BY <1>1, <2>1, <2>2
  <2>. QED  BY <1>1, <1>3, <2>1, <2>3 DEF BundlesOpen
<1>. QED  BY <1>12, <1>14, <1>15, <1>16 DEF AnswerInv

LEMMA StepAnswerInv == AnswerInv /\ [InputNext]_inputVars => AnswerInv'
<1> SUFFICES ASSUME AnswerInv, [InputNext]_inputVars PROVE AnswerInv'
  OBVIOUS
<1>1. TablesOK'
  BY StepTables DEF AnswerInv
<1>2. stream \in Seq(Texts) /\ Len(stream) \in Nat /\ Len(stream) <= MaxPackets
  BY DEF AnswerInv, ServerOK
<1>3. ASSUME UNCHANGED <<stream, serverVars>> PROVE AnswerInv'
  <2>1. stream' = stream /\ UNCHANGED serverVars
    BY <1>3
  <2>2. ServerOK' /\ Asked' /\ CallsBehind' /\ BundlesOpen' /\ AnsweredAsPromised'
    BY <1>2, <2>1, ServerRests
  <2>. QED  BY <1>1, <2>2 DEF AnswerInv
<1>4. ASSUME Deliver PROVE AnswerInv'
  <2>1. PICK text \in Texts : stream' = Append(stream, text)
    BY <1>4 DEF Deliver
  <2>2. /\ stream' \in Seq(Texts) /\ Len(stream') = Len(stream) + 1
        /\ \A n \in 1 .. Len(stream) : stream'[n] = stream[n]
    BY <1>2, <2>1, AppendProperties
  <2>3. Len(stream') <= MaxPackets /\ Len(stream') >= Len(stream) /\ UNCHANGED serverVars
    BY <1>2, <1>4, <2>2, InputAssumption DEF Deliver
  <2>4. ServerOK' /\ Asked' /\ CallsBehind' /\ BundlesOpen' /\ AnsweredAsPromised'
    BY <2>2, <2>3, ServerRests
  <2>. QED  BY <1>1, <2>4 DEF AnswerInv
<1>5. ServerStep => AnswerInv'
  BY <1>1, StepNextPacket, StepOpenBundle, StepCloseBundle, StepLook, StepCall DEF ServerStep
<1>6. UserChanges => UNCHANGED <<stream, serverVars>>
  BY DEF UserChanges, Change, addResponder, Added, setResponder, removeResponder,
         setDefaultResponder, setBundleResponder
<1>7. UserPuts => UNCHANGED <<stream, serverVars>>
  BY DEF UserPuts, Change
<1>8. ASSUME NEW t \in {Server, User}, Buffering(t) PROVE UNCHANGED <<stream, serverVars>>
  BY <1>8 DEF Buffering
<1>9. UNCHANGED inputVars => UNCHANGED <<stream, serverVars>>
  BY DEF inputVars
<1>. QED  BY <1>3, <1>4, <1>5, <1>6, <1>7, <1>8, <1>9 DEF InputNext

(* Whoever changes the responders in the meantime, and however packets are *)
(* nested: every message is answered, in the order in which they were      *)
(* sent, with the time tag of the innermost bundle around it or 1, and by  *)
(* the default responder only where no other is called (OSC.oz,            *)
(* ProcessResponders).                                                     *)
THEOREM AnsweredAsPromisedTheorem == InputSpec => []AnsweredAsPromised
<1>1. AnswerInv => AnsweredAsPromised
  BY DEF AnswerInv
<1>. QED  BY InitAnswerInv, StepAnswerInv, <1>1, PTL DEF InputSpec

-----------------------------------------------------------------------------
(* The responders and the user use the buffer as its specification allows. *)
LEMMA StepUsesBuffer == AnswerInv /\ [InputNext]_inputVars => [BufferNext]_bufferVars
<1> SUFFICES ASSUME AnswerInv, [InputNext]_inputVars PROVE BufferNext \/ UNCHANGED bufferVars
  OBVIOUS
<1>1. ASSUME Call PROVE BufferNext \/ UNCHANGED bufferVars
  <2>1. todo # <<>> /\ Working
    BY <1>1 DEF Call, AnswerInv, Asked
  <2>2. /\ packet \in 1 .. Len(stream) /\ Len(stream) \in Nat /\ Len(stream) <= MaxPackets
        /\ stream[packet] \in Texts /\ line \in DOMAIN stream[packet]
    BY <2>1, AtWork DEF AnswerInv, ServerOK
  <2>3. Place \in Items
    BY <2>2, InputAssumption DEF Place
  <2>4. Head(todo) \in Procs \cup Defaults
    <3>1. CASE todo \in Seq(Procs)
      BY <2>1, <3>1
    <3>2. CASE todo \notin Seq(Procs)
      <4>1. PICK d \in Defaults : todo = <<d>>
        BY <3>2 DEF AnswerInv, ServerOK
      <4>2. Head(<<d>>) = d
        OBVIOUS
      <4>. QED  BY <4>1, <4>2
    <3>. QED  BY <3>1, <3>2
  <2>5. put(Server, Place) \/ getAll(Server) \/ UNCHANGED bufferVars
    BY <1>1, <2>4 DEF Call, Procs, Defaults
  <2>. QED  BY <2>3, <2>5, InputAssumption DEF BufferNext
<1>2. NextPacket \/ OpenBundle \/ CloseBundle \/ Look => UNCHANGED bufferVars
  BY DEF NextPacket, OpenBundle, CloseBundle, Look
<1>3. Deliver => UNCHANGED bufferVars
  BY DEF Deliver
<1>4. UserChanges => UNCHANGED bufferVars
  BY DEF UserChanges, addResponder, Added, setResponder, removeResponder,
         setDefaultResponder, setBundleResponder
<1>5. UserPuts => BufferNext
  BY InputAssumption DEF UserPuts, BufferNext
<1>6. ASSUME NEW t \in {Server, User}, Buffering(t) PROVE BufferNext
  BY <1>6, InputAssumption DEF Buffering, BufferNext
<1>7. UNCHANGED inputVars => UNCHANGED bufferVars
  BY DEF inputVars
<1>. QED  BY <1>1, <1>2, <1>3, <1>4, <1>5, <1>6, <1>7 DEF InputNext, ServerStep

(* As long as nobody puts while somebody is in getAll, the thread that     *)
(* answers never dies of a call of the buffer, and what its procedures and *)
(* the user do with the buffer at the same time is one buffer (OSC.oz,     *)
(* put, getAll).                                                           *)
THEOREM InputKeepsBuffer ==
  ASSUME BufferAssumption, Disciplined
  PROVE  InputSpec => []NobodyDies /\ ImplementsBuffer
<1>1. InputInit => BufferInit
  BY DEF InputInit
<1>2. InputSpec => BufferSpec
  BY <1>1, InitAnswerInv, StepAnswerInv, StepUsesBuffer, PTL DEF InputSpec, BufferSpec
<1>3. BufferSpec => []NobodyDies
  BY NobodyEverDies
<1>4. BufferSpec => ImplementsBuffer
  BY BufferIsImplemented
<1>. QED  BY <1>2, <1>3, <1>4, PTL

-----------------------------------------------------------------------------
(* From the sockets of dumpOSC to Oz (OscPipeline).                        *)

(* A set that holds 0, and with a number the next one, up to n.            *)
LEMMA Upwards ==
  ASSUME NEW n \in Nat, NEW T, 0 \in T,
         \A k \in 1 .. n : k - 1 \in T => k \in T
  PROVE  \A k \in 0 .. n : k \in T
<1> DEFINE missing == {k \in 0 .. n : k \notin T}
<1>1. ASSUME missing # {}
      PROVE  FALSE
  <2>1. missing \subseteq Nat
    OBVIOUS
  <2>2. PICK k \in missing : \A l \in missing : ~ (<<l, k>> \in OpToRel(<, Nat))
    BY <1>1, <2>1, WFMin, NatLessThanWellFounded
  <2>3. k \in 0 .. n /\ k \notin T /\ \A l \in missing : ~ (l < k)
    BY <2>1, <2>2 DEF OpToRel
  <2>4. k \in 1 .. n /\ k - 1 \in 0 .. n /\ k - 1 < k
    BY <2>3
  <2>5. k - 1 \in T
    BY <2>3, <2>4
  <2>. QED  BY <2>3, <2>4, <2>5
<1>. QED  BY <1>1

-----------------------------------------------------------------------------
(* FlattenSeq, by its parts.                                               *)

\* g is the sequence of what the first, the first two, ... of seqs make.
Flattens(g, seqs, L) ==
    /\ g \in [0 .. Len(seqs) -> Seq(L)]
    /\ g[0] = <<>>
    /\ \A i \in 1 .. Len(seqs) : g[i] = g[i - 1] \o seqs[i]

\* The recursive definition has a solution.
LEMMA FlatteningExists ==
  ASSUME NEW L, NEW seqs \in Seq(Seq(L))
  PROVE  \E g : Flattens(g, seqs, L)
<1> DEFINE n == Len(seqs)
           Upto(k, g) == /\ g \in [0 .. k -> Seq(L)] /\ g[0] = <<>>
                         /\ \A i \in 1 .. k : g[i] = g[i - 1] \o seqs[i]
           defined == {k \in 0 .. n : \E g : Upto(k, g)}
<1>1. n \in Nat /\ \A i \in 1 .. n : seqs[i] \in Seq(L)
  OBVIOUS
<1>2. 0 \in defined
  <2>1. <<>> \in Seq(L)
    OBVIOUS
  <2>2. Upto(0, [i \in 0 .. 0 |-> <<>>])
    BY <2>1
  <2> HIDE DEF Upto
  <2>. QED  BY <1>1, <2>2
<1>3. ASSUME NEW k \in 1 .. n, k - 1 \in defined
      PROVE  k \in defined
  <2>1. PICK g : Upto(k - 1, g)
    BY <1>3
  <2> DEFINE h == [i \in 0 .. k |-> IF i = k THEN g[k - 1] \o seqs[k] ELSE g[i]]
  <2>2. g[k - 1] \in Seq(L) /\ seqs[k] \in Seq(L)
    BY <1>1, <1>3, <2>1
  <2>3. g[k - 1] \o seqs[k] \in Seq(L)
    BY <2>2, ConcatProperties
  <2>4. \A i \in 0 .. k : i # k => i \in 0 .. k - 1
    BY <1>1, <1>3
  <2>5. h \in [0 .. k -> Seq(L)]
    BY <2>1, <2>3, <2>4
  <2>6. h[0] = <<>>
    BY <1>1, <1>3, <2>1
  <2>7. ASSUME NEW i \in 1 .. k
        PROVE  h[i] = h[i - 1] \o seqs[i]
    <3>1. i - 1 \in 0 .. k /\ i \in 0 .. k /\ i - 1 # k /\ (i # k => i \in 1 .. k - 1)
      BY <1>1, <1>3
    <3>2. h[i - 1] = g[i - 1]
      BY <3>1
    <3>. QED  BY <2>1, <3>1, <3>2
  <2>8. Upto(k, h)
    BY <2>5, <2>6, <2>7
  <2> HIDE DEF Upto, h
  <2>. QED  BY <2>8
<1> HIDE DEF defined
<1>4. n \in defined
  <2>1. \A k \in 0 .. n : k \in defined
    BY <1>1, <1>2, <1>3, Upwards
  <2>. QED  BY <1>1, <2>1
<1>. QED  BY <1>4 DEF defined, Flattens

\* FlattenSeq is the last entry of it.
LEMMA FlatteningIs ==
  ASSUME NEW L, NEW seqs \in Seq(Seq(L)), NEW g, Flattens(g, seqs, L)
  PROVE  FlattenSeq(seqs) = g[Len(seqs)]
<1> DEFINE n == Len(seqs)
           Is(f) == f = [i \in 1 .. n |-> IF i = 1 THEN seqs[i] ELSE f[i - 1] \o seqs[i]]
<1>1. n \in Nat /\ \A i \in 1 .. n : seqs[i] \in Seq(L)
  OBVIOUS
<1>2. CASE n = 0
  <2>1. seqs = <<>>
    BY <1>2
  <2>. QED  BY <1>2, <2>1 DEF FlattenSeq, Flattens
<1>3. CASE n # 0
  <2>1. Is([i \in 1 .. n |-> g[i]])
    <3> DEFINE h == [i \in 1 .. n |-> g[i]]
    <3>1. ASSUME NEW i \in 1 .. n
          PROVE  h[i] = IF i = 1 THEN seqs[i] ELSE h[i - 1] \o seqs[i]
      <4>1. g[i] = g[i - 1] \o seqs[i] /\ h[i] = g[i]
        BY DEF Flattens
      <4>2. CASE i = 1
        <5>1. g[i - 1] = <<>> /\ seqs[i] \in Seq(L)
          BY <1>1, <4>2 DEF Flattens
        <5>. QED  BY <4>1, <4>2, <5>1, ConcatEmptySeq
      <4>3. CASE i # 1
        <5>1. i - 1 \in 1 .. n
          BY <1>1, <4>3
        <5>2. h[i - 1] = g[i - 1]
          BY <5>1
        <5>. QED  BY <4>1, <4>3, <5>2
      <4>. QED  BY <4>2, <4>3
    <3>. QED  BY <3>1
  <2> DEFINE F == CHOOSE f : Is(f)
  <2> HIDE DEF Is
  <2>2. Is(F)
    BY <2>1
  <2>3. FlattenSeq(seqs) = F[n]
    BY <1>1, <1>3 DEF FlattenSeq, Is
  <2> HIDE DEF F
  <2> DEFINE same == {k \in 0 .. n : k # 0 => F[k] = g[k]}
  <2>4. 0 \in same
    BY <1>1
  <2>5. ASSUME NEW k \in 1 .. n, k - 1 \in same
        PROVE  k \in same
    <3>1. F[k] = IF k = 1 THEN seqs[k] ELSE F[k - 1] \o seqs[k]
      BY <2>2 DEF Is
    <3>2. g[k] = g[k - 1] \o seqs[k] /\ g[0] = <<>>
      BY DEF Flattens
    <3>3. CASE k = 1
      <4>1. g[k] = seqs[k]
        <5>1. g[k - 1] = <<>> /\ seqs[k] \in Seq(L)
          BY <1>1, <3>2, <3>3
        <5>. QED  BY <3>2, <5>1, ConcatEmptySeq
      <4>. QED  BY <3>1, <3>3, <4>1
    <3>4. CASE k # 1
      <4>1. k - 1 # 0
        BY <1>1, <3>4
      <4>2. F[k - 1] = g[k - 1]
        BY <2>5, <4>1
      <4>3. F[k] = g[k]
        BY <3>1, <3>2, <3>4, <4>2
      <4>. QED  BY <4>3
    <3>. QED  BY <3>3, <3>4
  <2> HIDE DEF same
  <2>6. \A k \in 0 .. n : k \in same
    BY <1>1, <2>4, <2>5, Upwards
  <2>7. n \in same
    BY <1>1, <2>6
  <2>. QED  BY <1>3, <2>3, <2>7 DEF same
<1>. QED  BY <1>2, <1>3

\* What FlattenSeq makes of no sequence, and of one more in front or behind.
LEMMA FlattenProperties ==
  ASSUME NEW L, NEW s \in Seq(Seq(L))
  PROVE  /\ FlattenSeq(s) \in Seq(L)
         /\ \A t \in Seq(L) : FlattenSeq(Append(s, t)) = FlattenSeq(s) \o t
         /\ s # <<>> => FlattenSeq(s) = Head(s) \o FlattenSeq(Tail(s))
         /\ s = <<>> => FlattenSeq(s) = <<>>
<1>1. PICK g : Flattens(g, s, L)
  BY FlatteningExists
<1>2. /\ FlattenSeq(s) = g[Len(s)] /\ Len(s) \in Nat
      /\ g \in [0 .. Len(s) -> Seq(L)] /\ g[0] = <<>>
      /\ \A i \in 1 .. Len(s) : s[i] \in Seq(L) /\ g[i] = g[i - 1] \o s[i]
  BY <1>1, FlatteningIs DEF Flattens
<1>3. FlattenSeq(s) \in Seq(L)
  BY <1>2
<1>4. ASSUME NEW t \in Seq(L)
      PROVE  FlattenSeq(Append(s, t)) = FlattenSeq(s) \o t
  <2> DEFINE u == Append(s, t)
             h == [i \in 0 .. Len(s) + 1 |-> IF i = Len(s) + 1 THEN g[Len(s)] \o t ELSE g[i]]
  <2>1. /\ u \in Seq(Seq(L)) /\ Len(u) = Len(s) + 1 /\ u[Len(s) + 1] = t
        /\ \A i \in 1 .. Len(s) : u[i] = s[i]
    BY AppendProperties
  <2>2. g[Len(s)] \in Seq(L)
    BY <1>2
  <2>3. g[Len(s)] \o t \in Seq(L)
    BY <2>2, ConcatProperties
  <2>4. \A i \in 0 .. Len(s) + 1 : i # Len(s) + 1 => i \in 0 .. Len(s)
    BY <1>2
  <2>5. h \in [0 .. Len(s) + 1 -> Seq(L)] /\ h[0] = <<>> /\ h[Len(s)] = g[Len(s)]
    BY <1>2, <2>3, <2>4
  <2>6. ASSUME NEW i \in 1 .. Len(s) + 1
        PROVE  h[i] = h[i - 1] \o u[i]
    <3>1. CASE i = Len(s) + 1
      <4>1. i - 1 = Len(s) /\ h[i] = g[Len(s)] \o t
        BY <1>2, <3>1
      <4>. QED  BY <2>1, <2>5, <3>1, <4>1
    <3>2. CASE i # Len(s) + 1
      <4>1. i \in 1 .. Len(s) /\ i - 1 \in 0 .. Len(s) + 1 /\ i - 1 # Len(s) + 1 /\ i \in 0 .. Len(s) + 1
        BY <1>2, <3>2
      <4>2. h[i] = g[i] /\ h[i - 1] = g[i - 1]
        BY <3>2, <4>1
      <4>. QED  BY <1>2, <2>1, <4>1, <4>2
    <3>. QED  BY <3>1, <3>2
  <2>7. h[Len(s) + 1] = g[Len(s)] \o t
    BY <1>2
  <2> HIDE DEF u, h
  <2>8. Flattens(h, u, L)
    BY <2>1, <2>5, <2>6 DEF Flattens
  <2>9. FlattenSeq(u) = h[Len(u)]
    BY <2>1, <2>8, FlatteningIs
  <2>. QED  BY <1>2, <2>1, <2>7, <2>9 DEF u
<1>5. ASSUME s # <<>>
      PROVE  FlattenSeq(s) = Head(s) \o FlattenSeq(Tail(s))
  <2> DEFINE u == Tail(s)  n == Len(s) - 1
  <2>1. /\ u \in Seq(Seq(L)) /\ Len(u) = n /\ n \in Nat /\ Head(s) = s[1] /\ s[1] \in Seq(L)
        /\ \A i \in 1 .. n : u[i] = s[i + 1]
    BY <1>2, <1>5, HeadTailProperties
  <2>2. PICK h : Flattens(h, u, L)
    BY <2>1, FlatteningExists
  <2>3. /\ FlattenSeq(u) = h[n] /\ h \in [0 .. n -> Seq(L)] /\ h[0] = <<>>
        /\ \A i \in 1 .. n : h[i] = h[i - 1] \o u[i]
    BY <2>1, <2>2, FlatteningIs DEF Flattens
  <2> HIDE DEF u
  <2> DEFINE same == {i \in 0 .. n : g[i + 1] = s[1] \o h[i]}
  <2>4. 0 \in same
    <3>0. 1 \in 1 .. Len(s) /\ 1 - 1 = 0
      BY <1>2, <2>1
    <3>1. g[1] = g[0] \o s[1]
      BY <1>2, <3>0
    <3>2. g[1] = s[1] /\ s[1] \o <<>> = s[1]
      BY <1>2, <2>1, <3>1, ConcatEmptySeq
    <3>. QED  BY <2>1, <2>3, <3>2
  <2>5. ASSUME NEW i \in 1 .. n, i - 1 \in same
        PROVE  i \in same
    <3>1. i + 1 \in 1 .. Len(s) /\ (i + 1) - 1 = i /\ (i - 1) + 1 = i /\ i - 1 \in 0 .. n /\ i \in 0 .. n
      BY <1>2, <2>1
    <3>2. g[i + 1] = g[i] \o s[i + 1]
      BY <1>2, <3>1
    <3>3. g[i] = s[1] \o h[i - 1] /\ h[i] = h[i - 1] \o u[i] /\ u[i] = s[i + 1]
      BY <2>1, <2>3, <2>5, <3>1
    <3>4. h[i - 1] \in Seq(L) /\ s[1] \in Seq(L) /\ s[i + 1] \in Seq(L)
      BY <1>2, <2>1, <2>3, <3>1
    <3>5. (s[1] \o h[i - 1]) \o s[i + 1] = s[1] \o (h[i - 1] \o s[i + 1])
      <4>1. \A a, b, c \in Seq(L) : (a \o b) \o c = a \o (b \o c)
        BY ConcatAssociative, SMTT(20)
      <4>. QED  BY <3>4, <4>1
    <3>. QED  BY <3>1, <3>2, <3>3, <3>5
  <2>6. n \in same
    <3> HIDE DEF same
    <3>1. \A k \in 0 .. n : k \in same
      BY <2>1, <2>4, <2>5, Upwards
    <3>. QED  BY <2>1, <3>1
  <2>7. g[n + 1] = s[1] \o h[n]
    BY <2>6
  <2>8. n + 1 = Len(s)
    BY <1>2
  <2> HIDE DEF n
  <2>. QED  BY <1>2, <2>1, <2>3, <2>7, <2>8 DEF u
<1>6. s = <<>> => FlattenSeq(s) = <<>>
  <2>1. s = <<>> => Len(s) = 0
    OBVIOUS
  <2>. QED  BY <1>2, <2>1
<1>. QED  BY <1>3, <1>4, <1>5, <1>6

-----------------------------------------------------------------------------
(* dumpOSC: what it reads it prints, and flushes in order.                 *)

\* No more lines are flushed than there are.
LEMMA FlushedBounds == ASSUME NEW L, NEW ls \in Seq(L) PROVE Flushed(ls) \in 0 .. Len(ls)
<1> DEFINE I == {i \in 1 .. Len(ls) : ls[i].is \in {"message", "close"}}
           D == {Len(ls) - i : i \in I}
<1>1. Len(ls) \in Nat
  OBVIOUS
<1>2. ASSUME I # {}
      PROVE  \E m \in I : \A i \in I : m >= i
  <2>1. D \subseteq Nat /\ D # {}
    BY <1>1, <1>2
  <2>2. PICK d \in D : \A e \in D : ~ (<<e, d>> \in OpToRel(<, Nat))
    BY <2>1, WFMin, NatLessThanWellFounded
  <2>3. \A e \in D : ~ (e < d)
    BY <2>1, <2>2 DEF OpToRel
  <2>4. PICK m \in I : d = Len(ls) - m
    OBVIOUS
  <2>5. ASSUME NEW i \in I
        PROVE  m >= i
    <3>1. ~ (Len(ls) - i < Len(ls) - m)
      BY <2>3, <2>4
    <3>. QED  BY <1>1, <3>1
  <2>. QED  BY <2>5
<1>3. ASSUME I # {}
      PROVE  Max(I) \in I
  BY <1>2, <1>3 DEF Max
<1>4. Flushed(ls) = IF I # {} THEN Max(I) ELSE 0
  BY DEF Flushed, SelectLastInSeq
<1>. QED  BY <1>1, <1>3, <1>4

LEMMA Associative ==
  ASSUME NEW L, NEW a \in Seq(L), NEW b \in Seq(L), NEW c \in Seq(L)
  PROVE  (a \o b) \o c = a \o (b \o c)
<1>1. \A x, y, z \in Seq(L) : (x \o y) \o z = x \o (y \o z)
  BY ConcatAssociative, SMTT(20)
<1>. QED  BY <1>1

\* Without a crash every line is in the pipe or in the buffer, in order.
LEMMA PrintLinesKeeps ==
  ASSUME NEW L, Crash \notin L, pipe \in Seq(L), NEW ls \in Seq(L), PrintLines(ls)
  PROVE  pipe' \in Seq(L) /\ stdout' \in Seq(L) /\ pipe' \o stdout' = pipe \o ls
<1> DEFINE n == Flushed(ls)
<1>1. n \in 0 .. Len(ls) /\ Len(ls) \in Nat
  BY FlushedBounds
<1> HIDE DEF n
<1>2. pipe' = pipe \o SubSeq(ls, 1, n) /\ stdout' = SubSeq(ls, n + 1, Len(ls))
  <2>1. \A i \in DOMAIN ls : ls[i] # Crash
    OBVIOUS
  <2>. QED  BY <2>1 DEF PrintLines, n
<1>3. SubSeq(ls, 1, n) \in Seq(L)
  <2>1. \A i \in 1 .. n : ls[i] \in L
    BY <1>1
  <2>. QED  BY <1>1, <2>1, SubSeqProperties
<1>4. SubSeq(ls, n + 1, Len(ls)) \in Seq(L)
  <2>1. \A i \in n + 1 .. Len(ls) : ls[i] \in L
    BY <1>1
  <2>. QED  BY <1>1, <2>1, SubSeqProperties
<1>5. SubSeq(ls, 1, n) \o SubSeq(ls, n + 1, Len(ls)) = ls
  <2>1. 1 \in 1 .. Len(ls) + 1 /\ n \in 1 - 1 .. Len(ls) /\ Len(ls) \in n .. Len(ls)
    BY <1>1
  <2>2. SubSeq(ls, 1, n) \o SubSeq(ls, n + 1, Len(ls)) = SubSeq(ls, 1, Len(ls))
    BY <2>1, ConcatAdjacentSubSeq
  <2>. QED  BY <2>2, SubSeqFull
<1>6. pipe \o SubSeq(ls, 1, n) \in Seq(L)
  BY <1>3, ConcatProperties
<1>7. (pipe \o SubSeq(ls, 1, n)) \o SubSeq(ls, n + 1, Len(ls)) = pipe \o ls
  <2> DEFINE front == SubSeq(ls, 1, n)  rest == SubSeq(ls, n + 1, Len(ls))
  <2>1. front \in Seq(L) /\ rest \in Seq(L)
    BY <1>3, <1>4
  <2>2. front \o rest = ls
    BY <1>5
  <2> HIDE DEF front, rest
  <2>3. (pipe \o front) \o rest = pipe \o (front \o rest)
    BY <2>1, Associative
  <2>4. (pipe \o front) \o rest = pipe \o ls
    BY <2>2, <2>3
  <2>. QED  BY <2>4 DEF front, rest
<1>. QED  BY <1>2, <1>4, <1>6, <1>7

\* Packets that are printed as meant, in lines of L, none of which is a crash.
Meant(packets, memories, L) ==
    /\ PrintAsMeant(packets, memories)
    /\ Crash \notin L
    /\ \A p \in packets : p.text \in Seq(L)

DumpTypes(packets, memories, L) ==
    /\ udp \in Seq(packets) /\ unix \in Seq(packets) /\ mbuf \in memories
    /\ pipe \in Seq(L) /\ stdout \in Seq(L)

\* The text of a p, or nothing, was received and printed.
Prints(text) ==
    /\ received' = IF text = <<>> THEN received ELSE Append(received, text)
    /\ pipe' \o stdout' = pipe \o (stdout \o text)

\* A packet that is printed as meant.
LEMMA SynthmessagePrints ==
  ASSUME NEW packets, NEW memories, NEW L, Meant(packets, memories, L),
         DumpTypes(packets, memories, L), NEW p \in packets, Synthmessage(p)
  PROVE  /\ mbuf' \in memories /\ pipe' \in Seq(L) /\ stdout' \in Seq(L)
         /\ Prints(p.text)
<1>1. /\ mbuf' = recvfrom(p, mbuf) /\ recvfrom(p, mbuf) \in memories
      /\ Printed(p, recvfrom(p, mbuf)) = p.text
  BY DEF Synthmessage, Meant, PrintAsMeant, DumpTypes
<1>2. /\ PrintLines(stdout \o p.text)
      /\ received' = IF p.text = <<>> THEN received ELSE Append(received, p.text)
  BY <1>1 DEF Synthmessage
<1>3. pipe \in Seq(L) /\ stdout \in Seq(L) /\ p.text \in Seq(L) /\ Crash \notin L
  BY DEF Meant, DumpTypes
<1>4. stdout \o p.text \in Seq(L)
  BY <1>3, ConcatProperties
<1>5. /\ pipe' \in Seq(L) /\ stdout' \in Seq(L)
      /\ pipe' \o stdout' = pipe \o (stdout \o p.text)
  BY <1>2, <1>3, <1>4, PrintLinesKeeps
<1>. QED  BY <1>1, <1>2, <1>5 DEF Prints

\* At the end of main what is left is flushed.
LEMMA ReturnPrints ==
  ASSUME NEW L, pipe \in Seq(L), stdout \in Seq(L), Return, UNCHANGED received
  PROVE  pipe' \in Seq(L) /\ stdout' \in Seq(L) /\ Prints(<<>>)
<1>1. pipe' = pipe \o stdout /\ stdout' = <<>>
  BY DEF Return
<1>2. pipe \o stdout \in Seq(L) /\ <<>> \in Seq(L)
  BY ConcatProperties
<1>3. (pipe \o stdout) \o <<>> = pipe \o stdout /\ stdout \o <<>> = stdout
  BY <1>2, ConcatEmptySeq
<1>. QED  BY <1>1, <1>2, <1>3 DEF Prints

LEMMA RestPrints ==
  ASSUME NEW L, stdout \in Seq(L), UNCHANGED <<pipe, stdout, received>>
  PROVE  Prints(<<>>)
<1>1. stdout \o <<>> = stdout
  BY ConcatEmptySeq
<1>. QED  BY <1>1 DEF Prints

\* A step of dumpOSC receives a packet and prints it, or nothing.
LEMMA DumpStep ==
  ASSUME NEW packets, NEW memories, NEW L, Meant(packets, memories, L),
         DumpTypes(packets, memories, L), NEW interrupts, DumpNext(packets, interrupts)
  PROVE  /\ DumpTypes(packets, memories, L)'
         /\ Prints(<<>>) \/ \E p \in packets : Prints(p.text)
<1> USE DEF DumpTypes
<1>1. ASSUME NEW taken \in SUBSET {"udp", "unix"}, Start(taken)
      PROVE  DumpTypes(packets, memories, L)' /\ Prints(<<>>)
  <2>1. UNCHANGED <<udp, unix, mbuf, stdout, pipe, received>>
    BY <1>1 DEF Start, sockets, output
  <2>. QED  BY <2>1, RestPrints
<1>2. ASSUME Test
      PROVE  DumpTypes(packets, memories, L)' /\ Prints(<<>>)
  <2>1. UNCHANGED <<udp, unix, mbuf, received>>
    BY <1>2 DEF Test, sockets
  <2>2. CASE caught_sigint
    <3>1. Return
      BY <1>2, <2>2 DEF Test
    <3>. QED  BY <2>1, <3>1, ReturnPrints
  <2>3. CASE ~caught_sigint
    <3>1. UNCHANGED <<stdout, pipe>>
      BY <1>2, <2>3 DEF Test
    <3>. QED  BY <2>1, <3>1, RestPrints
  <2>. QED  BY <2>2, <2>3
<1>3. ASSUME Select \/ UdpEmpty \/ UnixEmpty
      PROVE  DumpTypes(packets, memories, L)' /\ Prints(<<>>)
  <2>1. UNCHANGED <<udp, unix, mbuf, stdout, pipe, received>>
    BY <1>3 DEF Select, UdpEmpty, UnixEmpty, sockets, output
  <2>. QED  BY <2>1, RestPrints
<1>4. ASSUME ReadUdp
      PROVE  DumpTypes(packets, memories, L)' /\ \E p \in packets : Prints(p.text)
  <2>1. udp # <<>> /\ udp' = Tail(udp) /\ unix' = unix /\ Synthmessage(Head(udp))
    BY <1>4 DEF ReadUdp, TakeUdp
  <2>2. Head(udp) \in packets /\ Tail(udp) \in Seq(packets)
    BY <2>1, HeadTailProperties
  <2>3. /\ mbuf' \in memories /\ pipe' \in Seq(L) /\ stdout' \in Seq(L)
        /\ Prints(Head(udp).text)
    BY <2>1, <2>2, SynthmessagePrints
  <2>. QED  BY <2>1, <2>2, <2>3
<1>5. ASSUME ReadUnix
      PROVE  DumpTypes(packets, memories, L)' /\ \E p \in packets : Prints(p.text)
  <2>1. unix # <<>> /\ unix' = Tail(unix) /\ udp' = udp /\ Synthmessage(Head(unix))
    BY <1>5 DEF ReadUnix, TakeUnix
  <2>2. Head(unix) \in packets /\ Tail(unix) \in Seq(packets)
    BY <2>1, HeadTailProperties
  <2>3. /\ mbuf' \in memories /\ pipe' \in Seq(L) /\ stdout' \in Seq(L)
        /\ Prints(Head(unix).text)
    BY <2>1, <2>2, SynthmessagePrints
  <2>. QED  BY <2>1, <2>2, <2>3
<1>6. ASSUME NEW waiting \in BOOLEAN, catch_sigint(waiting)
      PROVE  DumpTypes(packets, memories, L)' /\ Prints(<<>>)
  <2>1. UNCHANGED <<udp, unix, mbuf, received>>
    BY <1>6 DEF catch_sigint, sockets
  <2>2. CASE waiting
    <3>1. Return
      BY <1>6, <2>2 DEF catch_sigint
    <3>. QED  BY <2>1, <3>1, ReturnPrints
  <2>3. CASE ~waiting
    <3>1. UNCHANGED <<stdout, pipe>>
      BY <1>6, <2>3 DEF catch_sigint
    <3>. QED  BY <2>1, <3>1, RestPrints
  <2>. QED  BY <2>2, <2>3
<1>7. ASSUME NEW p \in packets, Arrive(p)
      PROVE  DumpTypes(packets, memories, L)' /\ Prints(<<>>)
  <2>1. UNCHANGED <<mbuf, stdout, pipe, received>>
    BY <1>7 DEF Arrive, output
  <2>2. udp' \in Seq(packets) /\ unix' \in Seq(packets)
    <3>1. Append(udp, p) \in Seq(packets) /\ Append(unix, p) \in Seq(packets)
      BY AppendProperties
    <3>. QED  BY <1>7, <3>1 DEF Arrive
  <2>. QED  BY <2>1, <2>2, RestPrints
<1>. QED  BY <1>1, <1>2, <1>3, <1>4, <1>5, <1>6, <1>7 DEF DumpNext, Turn

-----------------------------------------------------------------------------
(* Packets that ParseAll reads as they are meant.                          *)

TextsOf(packets) == {p.text : p \in packets} \ {<<>>}
LinesOf(packets) == UNION {{p.text[i] : i \in DOMAIN p.text} : p \in packets}

\* What the theorems about the way to Oz assume of the packets that come.
Sensible(packets, memories) ==
    /\ PrintAsMeant(packets, memories)
    /\ \A p \in packets : p.text # <<>> => OnePacket(p.text)

\* The lines of sensible packets, and their texts.
LEMMA SensibleIsMeant ==
  ASSUME NEW packets, NEW memories, Sensible(packets, memories)
  PROVE  /\ Meant(packets, memories, LinesOf(packets))
         /\ \A t \in TextsOf(packets) : OnePacket(t) /\ t \in Seq(LinesOf(packets)) /\ t # <<>>
<1> DEFINE L == LinesOf(packets)
<1>1. ASSUME NEW p \in packets
      PROVE  p.text \in Seq(L)
  <2>1. CASE p.text = <<>>
    BY <2>1
  <2>2. CASE p.text # <<>>
    <3>1. p.text \in Seq({p.text[i] : i \in DOMAIN p.text})
      BY <2>2 DEF Sensible, OnePacket
    <3>2. {p.text[i] : i \in DOMAIN p.text} \subseteq L
      BY DEF LinesOf
    <3>. QED  BY <3>1, <3>2, SeqMonotonic
  <2>. QED  BY <2>1, <2>2
<1>2. Crash \notin L
  <2>1. SUFFICES ASSUME NEW p \in packets, NEW i \in DOMAIN p.text, p.text[i] = Crash
                 PROVE  FALSE
    BY DEF LinesOf
  <2>2. p.text # <<>>
    OBVIOUS
  <2>3. p.text[i].is \in {"open", "close", "message"}
    BY <2>2 DEF Sensible, OnePacket
  <2>. QED  BY <2>1, <2>3 DEF Crash
<1>3. ASSUME NEW t \in TextsOf(packets)
      PROVE  OnePacket(t) /\ t \in Seq(L) /\ t # <<>>
  <2>1. PICK p \in packets : t = p.text /\ t # <<>>
    BY DEF TextsOf
  <2>. QED  BY <1>1, <2>1 DEF Sensible
<1>. QED  BY <1>1, <1>2, <1>3 DEF Meant, Sensible

\* The depth after n lines depends on these lines only.
LEMMA SameDepth ==
  ASSUME NEW a, NEW b, NEW n \in Nat, \A i \in 1 .. n : a[i] = b[i]
  PROVE  Depth(a, n) = Depth(b, n)
<1>1. {i \in 1 .. n : a[i].is = "open"} = {i \in 1 .. n : b[i].is = "open"}
  OBVIOUS
<1>2. {i \in 1 .. n : a[i].is = "close"} = {i \in 1 .. n : b[i].is = "close"}
  OBVIOUS
<1>. QED  BY <1>1, <1>2 DEF Depth

LEMMA DepthIsOpened == \A ls, n : Depth(ls, n) = Opened(ls, 1, n)
BY DEF Depth, Opened

\* ParseLine tells brackets by the first character, and it tells them well.
LEMMA FirstChars ==
  ASSUME NEW t, OnePacket(t), NEW i \in DOMAIN t
  PROVE  /\ t[i].is \in {"open", "close", "message"}
         /\ DoesStartBundle(t[i]) <=> t[i].is = "open"
         /\ DoesEndBundle(t[i]) <=> t[i].is = "close"
<1>1. t[i].is \in {"open", "close", "message"}
  BY DEF OnePacket
<1>2. t[i].is = "message" => FirstChar(t[i]) \notin {"[", "]"}
  BY DEF OnePacket
<1>3. t[i].is = "open" => FirstChar(t[i]) = "["
  BY DEF FirstChar
<1>4. t[i].is = "close" => FirstChar(t[i]) = "]"
  BY DEF FirstChar
<1>. QED  BY <1>1, <1>2, <1>3, <1>4 DEF DoesStartBundle, DoesEndBundle

-----------------------------------------------------------------------------
(* What is on its way.                                                     *)

LEMMA Longer ==
  ASSUME NEW L, NEW a \in Seq(L), NEW b \in Seq(L), NEW c \in Seq(L), NEW t \in Seq(L)
  PROVE  (a \o (b \o c)) \o t = a \o (b \o (c \o t))
<1>1. b \o c \in Seq(L)
  BY ConcatProperties
<1>2. (b \o c) \o t = b \o (c \o t)
  BY Associative
<1> DEFINE bc == b \o c
<1> HIDE DEF bc
<1>3. bc \in Seq(L)
  BY <1>1 DEF bc
<1>4. (a \o bc) \o t = a \o (bc \o t)
  BY <1>3, Associative
<1>. QED  BY <1>2, <1>4 DEF bc

LEMMA Moved ==
  ASSUME NEW L, NEW prev \in Seq(L), NEW ls \in Seq(L), ls # <<>>, NEW rest \in Seq(L)
  PROVE  /\ Append(prev, Head(ls)) \in Seq(L) /\ Tail(ls) \in Seq(L)
         /\ prev \o (ls \o rest) = Append(prev, Head(ls)) \o (Tail(ls) \o rest)
<1>1. /\ Head(ls) \in L /\ Tail(ls) \in Seq(L) /\ Len(Tail(ls)) = Len(ls) - 1
      /\ \A i \in 1 .. Len(Tail(ls)) : Tail(ls)[i] = ls[i + 1]
      /\ Len(ls) \in Nat /\ Head(ls) = ls[1]
  BY HeadTailProperties
<1>2. Append(prev, Head(ls)) \in Seq(L)
  BY <1>1, AppendProperties
<1>3. /\ <<Head(ls)>> \in Seq(L) /\ Append(prev, Head(ls)) = prev \o <<Head(ls)>>
      /\ ls = <<Head(ls)>> \o Tail(ls)
  BY <1>1
<1> DEFINE h == <<Head(ls)>>  t == Tail(ls)
<1>4. h \in Seq(L) /\ t \in Seq(L)
  BY <1>1, <1>3
<1>5. ls = h \o t /\ Append(prev, Head(ls)) = prev \o h
  BY <1>3
<1> HIDE DEF h, t
<1>6. t \o rest \in Seq(L)
  BY <1>4, ConcatProperties
<1>7. (h \o t) \o rest = h \o (t \o rest)
  BY <1>4, Associative
<1>8. (prev \o h) \o (t \o rest) = prev \o (h \o (t \o rest))
  <2> DEFINE tr == t \o rest
  <2>1. tr \in Seq(L)
    BY <1>6
  <2> HIDE DEF tr
  <2>2. (prev \o h) \o tr = prev \o (h \o tr)
    BY <1>4, <2>1, Associative
  <2>. QED  BY <2>2 DEF tr
<1>9. prev \o (ls \o rest) = Append(prev, Head(ls)) \o (t \o rest)
  BY <1>5, <1>7, <1>8
<1>. QED  BY <1>1, <1>2, <1>9 DEF t

\* Of two beginnings of a sequence the shorter one is the beginning of the other.
LEMMA Beginnings ==
  ASSUME NEW L, NEW a \in Seq(L), NEW b \in Seq(L), NEW c \in Seq(L), NEW d \in Seq(L),
         a \o b = c \o d, Len(a) <= Len(c)
  PROVE  /\ \A i \in 1 .. Len(a) : a[i] = c[i]
         /\ Len(a) = Len(c) => a = c /\ b = d
<1>1. /\ Len(a) \in Nat /\ Len(c) \in Nat
      /\ \A i \in 1 .. Len(a) + Len(b) : (a \o b)[i] = IF i <= Len(a) THEN a[i] ELSE b[i - Len(a)]
      /\ \A i \in 1 .. Len(c) + Len(d) : (c \o d)[i] = IF i <= Len(c) THEN c[i] ELSE d[i - Len(c)]
      /\ Len(b) \in Nat /\ Len(d) \in Nat
  BY ConcatProperties
<1>2. ASSUME NEW i \in 1 .. Len(a)
      PROVE  a[i] = c[i]
  <2>1. i \in 1 .. Len(a) + Len(b) /\ i <= Len(a) /\ i \in 1 .. Len(c) + Len(d) /\ i <= Len(c)
    BY <1>1
  <2>2. (a \o b)[i] = a[i] /\ (c \o d)[i] = c[i]
    BY <1>1, <2>1
  <2>. QED  BY <2>2
<1>3. ASSUME Len(a) = Len(c)
      PROVE  a = c /\ b = d
  <2>1. a = c
    BY <1>1, <1>2, <1>3, SeqEqual
  <2>2. Len(b) = Len(d)
    <3>1. Len(a \o b) = Len(a) + Len(b) /\ Len(c \o d) = Len(c) + Len(d)
      BY ConcatProperties
    <3>2. Len(a \o b) = Len(c \o d)
      OBVIOUS
    <3>. QED  BY <1>1, <1>3, <3>1, <3>2
  <2>3. ASSUME NEW i \in 1 .. Len(b)
        PROVE  b[i] = d[i]
    <3>1. /\ Len(a) + i \in 1 .. Len(a) + Len(b) /\ ~ (Len(a) + i <= Len(a))
          /\ (Len(a) + i) - Len(a) = i /\ Len(a) + i \in 1 .. Len(c) + Len(d)
      BY <1>1, <1>3, <2>2
    <3>2. (a \o b)[Len(a) + i] = b[i]
      BY <1>1, <3>1
    <3>3. (c \o d)[Len(a) + i] = d[i]
      BY <1>1, <1>3, <3>1
    <3>. QED  BY <3>2, <3>3
  <2>4. b = d
    BY <2>2, <2>3, SeqEqual
  <2>. QED  BY <2>1, <2>4
<1>. QED  BY <1>2, <1>3

-----------------------------------------------------------------------------
\* What is behind the first n entries.
Behind(s, n) == SubSeq(s, n + 1, Len(s))

LEMMA BehindProperties ==
  ASSUME NEW T, NEW s \in Seq(T), NEW n \in 0 .. Len(s)
  PROVE  /\ Behind(s, n) \in Seq(T) /\ Len(Behind(s, n)) = Len(s) - n
         /\ \A i \in 1 .. Len(s) - n : Behind(s, n)[i] = s[n + i]
<1>1. Len(s) \in Nat /\ n + 1 \in Int /\ \A i \in n + 1 .. Len(s) : s[i] \in T
  OBVIOUS
<1>2. /\ SubSeq(s, n + 1, Len(s)) \in Seq(T)
      /\ Len(SubSeq(s, n + 1, Len(s))) = IF n + 1 <= Len(s) THEN Len(s) - (n + 1) + 1 ELSE 0
      /\ \A i \in 1 .. Len(s) - (n + 1) + 1 : SubSeq(s, n + 1, Len(s))[i] = s[(n + 1) + i - 1]
  BY <1>1, SubSeqProperties
<1> DEFINE b == SubSeq(s, n + 1, Len(s))
<1> HIDE DEF b
<1>3. /\ b \in Seq(T) /\ Len(b) = IF n + 1 <= Len(s) THEN Len(s) - (n + 1) + 1 ELSE 0
      /\ \A i \in 1 .. Len(s) - (n + 1) + 1 : b[i] = s[(n + 1) + i - 1]
  BY <1>2 DEF b
<1>4. Len(b) = Len(s) - n
  BY <1>1, <1>3
<1>5. ASSUME NEW i \in 1 .. Len(s) - n
      PROVE  b[i] = s[n + i]
  <2>1. i \in 1 .. Len(s) - (n + 1) + 1 /\ (n + 1) + i - 1 = n + i
    BY <1>1
  <2>. QED  BY <1>3, <2>1
<1>. QED  BY <1>3, <1>4, <1>5 DEF b, Behind

LEMMA BehindGrows ==
  ASSUME NEW T, NEW s \in Seq(T), NEW n \in 0 .. Len(s), NEW t \in T
  PROVE  Behind(Append(s, t), n) = Append(Behind(s, n), t)
<1> DEFINE u == Append(s, t)
<1>1. /\ u \in Seq(T) /\ Len(u) = Len(s) + 1 /\ u[Len(s) + 1] = t
      /\ \A i \in 1 .. Len(s) : u[i] = s[i]
      /\ Len(s) \in Nat
  BY AppendProperties
<1> HIDE DEF u
<1>2. n \in 0 .. Len(u)
  BY <1>1
<1> DEFINE a == Behind(u, n)  b == Behind(s, n)
<1>3. /\ a \in Seq(T) /\ Len(a) = Len(u) - n
      /\ \A i \in 1 .. Len(u) - n : a[i] = u[n + i]
  BY <1>1, <1>2, BehindProperties
<1>4. /\ b \in Seq(T) /\ Len(b) = Len(s) - n
      /\ \A i \in 1 .. Len(s) - n : b[i] = s[n + i]
  BY BehindProperties
<1> HIDE DEF a, b
<1> DEFINE c == Append(b, t)
<1>5. /\ c \in Seq(T) /\ Len(c) = Len(b) + 1 /\ c[Len(b) + 1] = t
      /\ \A i \in 1 .. Len(b) : c[i] = b[i]
  BY <1>4, AppendProperties
<1> HIDE DEF c
<1>6. Len(a) = Len(c)
  BY <1>1, <1>3, <1>4, <1>5
<1>7. ASSUME NEW i \in 1 .. Len(a)
      PROVE  a[i] = c[i]
  <2>1. i \in 1 .. Len(u) - n /\ a[i] = u[n + i]
    BY <1>3
  <2>2. CASE i = Len(b) + 1
    <3>1. n + i = Len(s) + 1
      BY <1>1, <1>4, <2>2
    <3>. QED  BY <1>1, <1>5, <2>1, <2>2, <3>1
  <2>3. CASE i # Len(b) + 1
    <3>1. i \in 1 .. Len(b) /\ i \in 1 .. Len(s) - n /\ n + i \in 1 .. Len(s)
      BY <1>1, <1>4, <2>1, <2>3
    <3>. QED  BY <1>1, <1>4, <1>5, <2>1, <3>1
  <2>. QED  BY <2>2, <2>3
<1>8. a = c
  BY <1>3, <1>5, <1>6, <1>7, SeqEqual
<1>. QED  BY <1>8 DEF a, b, c, u

LEMMA BehindShrinks ==
  ASSUME NEW T, NEW s \in Seq(T), NEW n \in 0 .. Len(s), Behind(s, n) # <<>>
  PROVE  /\ n + 1 \in 0 .. Len(s) /\ Head(Behind(s, n)) \in T
         /\ Behind(s, n + 1) = Tail(Behind(s, n))
<1> DEFINE b == Behind(s, n)
<1>1. /\ b \in Seq(T) /\ Len(b) = Len(s) - n /\ Len(s) \in Nat
      /\ \A i \in 1 .. Len(s) - n : b[i] = s[n + i]
  BY BehindProperties
<1>2. b # <<>>
  OBVIOUS
<1> HIDE DEF b
<1>3. n + 1 \in 0 .. Len(s)
  <2>1. Len(b) # 0
    BY <1>1, <1>2
  <2>. QED  BY <1>1, <2>1
<1>4. /\ Head(b) \in T /\ Tail(b) \in Seq(T) /\ Len(Tail(b)) = Len(b) - 1
      /\ \A i \in 1 .. Len(Tail(b)) : Tail(b)[i] = b[i + 1]
  BY <1>1, <1>2, HeadTailProperties
<1> DEFINE c == Behind(s, n + 1)  d == Tail(b)
<1>5. /\ c \in Seq(T) /\ Len(c) = Len(s) - (n + 1)
      /\ \A i \in 1 .. Len(s) - (n + 1) : c[i] = s[(n + 1) + i]
  BY <1>3, BehindProperties
<1>6. /\ d \in Seq(T) /\ Len(d) = Len(b) - 1
      /\ \A i \in 1 .. Len(d) : d[i] = b[i + 1]
  BY <1>4
<1> HIDE DEF c, d
<1>7. Len(c) = Len(d)
  BY <1>1, <1>3, <1>5, <1>6
<1>8. ASSUME NEW i \in 1 .. Len(c)
      PROVE  c[i] = d[i]
  <2>1. /\ i \in 1 .. Len(s) - (n + 1) /\ i \in 1 .. Len(d) /\ i + 1 \in 1 .. Len(s) - n
        /\ (n + 1) + i = n + (i + 1)
    BY <1>1, <1>3, <1>5, <1>7
  <2>. QED  BY <1>1, <1>5, <1>6, <2>1
<1>9. c = d
  BY <1>5, <1>6, <1>7, <1>8, SeqEqual
<1>. QED  BY <1>3, <1>4, <1>9 DEF b, c, d

-----------------------------------------------------------------------------
(* The packets that have been received and are not on the stream are what  *)
(* is on the way: the lines since the last packet, then the lines at the   *)
(* socket, in the pipe and in dumpOSC.                                     *)

Expected == Behind(received, Len(oscs))
Flow == lines \o (pipe \o stdout)

GoodTypes(packets, memories) ==
    /\ DumpTypes(packets, memories, LinesOf(packets))
    /\ received \in Seq(TextsOf(packets))
    /\ oscs \in Seq(Seq(LinesOf(packets))) /\ Len(oscs) \in 0 .. Len(received)
    /\ prevLines \in Seq(LinesOf(packets)) /\ lines \in Seq(LinesOf(packets))
    /\ died = No

PacketBegun ==
    /\ counter = Depth(prevLines, Len(prevLines))
    /\ Expected # <<>> => Len(prevLines) < Len(Head(Expected))

GoodInv(packets, memories) ==
    /\ GoodTypes(packets, memories)
    /\ FlattenSeq(Expected) = prevLines \o Flow
    /\ PacketBegun

LEMMA GoodFacts ==
  ASSUME NEW packets, NEW memories, Sensible(packets, memories), GoodTypes(packets, memories)
  PROVE  /\ Expected \in Seq(TextsOf(packets)) /\ Expected \in Seq(Seq(LinesOf(packets)))
         /\ Flow \in Seq(LinesOf(packets)) /\ pipe \o stdout \in Seq(LinesOf(packets))
<1>1. Expected \in Seq(TextsOf(packets))
  BY BehindProperties DEF Expected, GoodTypes
<1>2. TextsOf(packets) \subseteq Seq(LinesOf(packets))
  BY SensibleIsMeant
<1>3. Expected \in Seq(Seq(LinesOf(packets)))
  BY <1>1, <1>2, SeqMonotonic
<1>4. pipe \o stdout \in Seq(LinesOf(packets))
  BY ConcatProperties DEF GoodTypes, DumpTypes
<1>5. Flow \in Seq(LinesOf(packets))
  <2> DEFINE out == pipe \o stdout
  <2>1. out \in Seq(LinesOf(packets))
    BY <1>4
  <2> HIDE DEF out
  <2>2. lines \o out \in Seq(LinesOf(packets))
    BY <2>1, ConcatProperties DEF GoodTypes
  <2>. QED  BY <2>2 DEF Flow, out
<1>. QED  BY <1>1, <1>3, <1>4, <1>5

\* A packet of text, or none, is received; what is before the pipe rests.
LEMMA GoodReceive ==
  ASSUME NEW packets, NEW memories, Sensible(packets, memories), GoodInv(packets, memories),
         DumpTypes(packets, memories, LinesOf(packets))',
         NEW t \in TextsOf(packets) \union {<<>>}, Prints(t), UNCHANGED parseVars
  PROVE  /\ GoodInv(packets, memories)'
         /\ oscs' = oscs
         /\ Expected' = IF t = <<>> THEN Expected ELSE Append(Expected, t)
<1> DEFINE L == LinesOf(packets)  T == TextsOf(packets)
<1>1. UNCHANGED <<lines, counter, prevLines, died, oscs>>
  BY DEF parseVars
<1>2. /\ Expected \in Seq(T) /\ Expected \in Seq(Seq(L)) /\ Flow \in Seq(L)
      /\ pipe \o stdout \in Seq(L)
  BY GoodFacts DEF GoodInv
<1>3. /\ received \in Seq(T) /\ Len(oscs) \in 0 .. Len(received) /\ lines \in Seq(L)
      /\ prevLines \in Seq(L) /\ pipe \in Seq(L) /\ stdout \in Seq(L)
  BY DEF GoodInv, GoodTypes, DumpTypes
<1>4. t \in Seq(L) /\ (t # <<>> => t \in T)
  <2>1. \A u \in T : u \in Seq(L)
    BY SensibleIsMeant
  <2>2. <<>> \in Seq(L)
    BY EmptySeq
  <2>. QED  BY <2>1, <2>2
<1>5. /\ received' \in Seq(T) /\ Len(oscs) \in 0 .. Len(received')
      /\ Expected' = IF t = <<>> THEN Expected ELSE Append(Expected, t)
  <2>1. CASE t = <<>>
    <3>1. received' = received /\ Expected' = Expected
      BY <1>1, <2>1 DEF Prints, Expected, Behind
    <3>. QED  BY <1>3, <2>1, <3>1
  <2>2. CASE t # <<>>
    <3>1. received' = Append(received, t)
      BY <2>2 DEF Prints
    <3>2. Append(received, t) \in Seq(T) /\ Len(Append(received, t)) = Len(received) + 1
      BY <1>3, <1>4, <2>2, AppendProperties
    <3>3. Len(oscs) \in 0 .. Len(received')
      BY <1>3, <3>1, <3>2
    <3>4. Behind(Append(received, t), Len(oscs)) = Append(Behind(received, Len(oscs)), t)
      BY <1>3, <1>4, <2>2, BehindGrows
    <3>5. Expected' = Append(Expected, t)
      BY <1>1, <3>1, <3>4 DEF Expected
    <3>. QED  BY <2>2, <3>1, <3>2, <3>3, <3>5
  <2>. QED  BY <2>1, <2>2
<1>6. GoodTypes(packets, memories)'
  BY <1>1, <1>5 DEF GoodInv, GoodTypes
<1>7. Flow' = lines \o (pipe \o (stdout \o t))
  BY <1>1 DEF Flow, Prints
<1>8. Flow' = Flow \o t
  <2>1. (lines \o (pipe \o stdout)) \o t = lines \o (pipe \o (stdout \o t))
    <3>1. lines \in Seq(L) /\ pipe \in Seq(L) /\ stdout \in Seq(L) /\ t \in Seq(L)
      BY <1>3, <1>4
    <3> HIDE DEF L
    <3>. QED  BY <3>1, Longer, SMTT(20)
  <2>. QED  BY <1>7, <2>1 DEF Flow
<1>9. FlattenSeq(Expected') = FlattenSeq(Expected) \o t
  <2>1. CASE t = <<>>
    <3>1. FlattenSeq(Expected) \in Seq(L)
      BY <1>2, FlattenProperties
    <3>2. FlattenSeq(Expected) \o <<>> = FlattenSeq(Expected)
      BY <3>1, ConcatEmptySeq
    <3>3. Expected' = Expected
      BY <1>5, <2>1
    <3>. QED  BY <2>1, <3>2, <3>3
  <2>2. CASE t # <<>>
    <3>1. Expected' = Append(Expected, t)
      BY <1>5, <2>2
    <3>. QED  BY <1>2, <1>4, <3>1, FlattenProperties
  <2>. QED  BY <2>1, <2>2
<1>10. FlattenSeq(Expected)' = prevLines' \o Flow'
  <2>1. FlattenSeq(Expected) = prevLines \o Flow
    BY DEF GoodInv
  <2>2. (prevLines \o Flow) \o t = prevLines \o (Flow \o t)
    <3>1. prevLines \in Seq(L) /\ Flow \in Seq(L) /\ t \in Seq(L)
      BY <1>2, <1>3, <1>4
    <3> HIDE DEF L
    <3>. QED  BY <3>1, Associative
  <2>. QED  BY <1>1, <1>8, <1>9, <2>1, <2>2
<1>11. PacketBegun'
  <2>1. counter' = Depth(prevLines, Len(prevLines))'
    BY <1>1 DEF GoodInv, PacketBegun, Depth
  <2>2. ASSUME Expected' # <<>>
        PROVE  Len(prevLines) < Len(Head(Expected'))
    <3>1. CASE Expected = <<>>
      <4>1. FlattenSeq(Expected) = <<>>
        BY <1>2, <3>1, FlattenProperties
      <4>2. prevLines \o Flow = <<>>
        BY <4>1 DEF GoodInv
      <4>3. prevLines = <<>>
        BY <1>2, <1>3, <4>2, ConcatEqualIffEmpty
      <4>4. t # <<>> /\ Expected' = Append(Expected, t)
        BY <1>5, <2>2, <3>1
      <4>5. Head(Expected') = t
        BY <3>1, <4>4
      <4>6. Len(t) > 0 /\ Len(prevLines) = 0
        BY <1>4, <4>3, <4>4, EmptySeq
      <4>. QED  BY <4>5, <4>6
    <3>2. CASE Expected # <<>>
      <4>1. Head(Expected') = Head(Expected)
        <5>1. CASE t = <<>>
          BY <1>5, <5>1
        <5>2. CASE t # <<>>
          BY <1>2, <1>4, <1>5, <3>2, <5>2
        <5>. QED  BY <5>1, <5>2
      <4>. QED  BY <3>2, <4>1 DEF GoodInv, PacketBegun
    <3>. QED  BY <3>1, <3>2
  <2>. QED  BY <1>1, <2>1, <2>2 DEF PacketBegun
<1>. QED  BY <1>1, <1>5, <1>6, <1>10, <1>11 DEF GoodInv

LEMMA CutInTwo ==
  ASSUME NEW L, NEW s \in Seq(L), NEW k \in 1 .. Len(s)
  PROVE  /\ SubSeq(s, 1, k) \in Seq(L) /\ SubSeq(s, k + 1, Len(s)) \in Seq(L)
         /\ SubSeq(s, 1, k) \o SubSeq(s, k + 1, Len(s)) = s
<1>1. Len(s) \in Nat /\ \A i \in 1 .. Len(s) : s[i] \in L
  OBVIOUS
<1>2. SubSeq(s, 1, k) \in Seq(L)
  <2>1. \A i \in 1 .. k : s[i] \in L
    BY <1>1
  <2>. QED  BY <1>1, <2>1, SubSeqProperties
<1>3. SubSeq(s, k + 1, Len(s)) \in Seq(L)
  <2>1. \A i \in k + 1 .. Len(s) : s[i] \in L
    BY <1>1
  <2>. QED  BY <1>1, <2>1, SubSeqProperties
<1>4. SubSeq(s, 1, k) \o SubSeq(s, k + 1, Len(s)) = s
  <2>1. 1 \in 1 .. Len(s) + 1 /\ k \in 1 - 1 .. Len(s) /\ Len(s) \in k .. Len(s)
    BY <1>1
  <2>2. SubSeq(s, 1, k) \o SubSeq(s, k + 1, Len(s)) = SubSeq(s, 1, Len(s))
    BY <2>1, ConcatAdjacentSubSeq
  <2>. QED  BY <2>2, SubSeqFull
<1>. QED  BY <1>2, <1>3, <1>4

LEMMA FlowRegroups ==
  ASSUME NEW L, NEW a \in Seq(L), NEW x \in Seq(L), NEW y \in Seq(L), NEW b \in Seq(L)
  PROVE  (a \o x) \o (y \o b) = a \o ((x \o y) \o b)
<1> DEFINE yb == y \o b
<1>1. yb \in Seq(L)
  BY ConcatProperties
<1>2. (x \o y) \o b = x \o yb
  BY Associative
<1> HIDE DEF yb
<1>3. (a \o x) \o yb = a \o (x \o yb)
  BY <1>1, Associative
<1>. QED  BY <1>2, <1>3 DEF yb

\* However much netcat takes at a time.
LEMMA GoodNetcat ==
  ASSUME NEW packets, NEW memories, Sensible(packets, memories), GoodInv(packets, memories),
         Netcat(FALSE)
  PROVE  /\ GoodInv(packets, memories)'
         /\ UNCHANGED <<Expected, oscs>>
<1> DEFINE L == LinesOf(packets)
<1>1. PICK k \in 1 .. Len(pipe) :
        lines' = lines \o SubSeq(pipe, 1, k) /\ pipe' = SubSeq(pipe, k + 1, Len(pipe))
  BY DEF Netcat
<1>2. UNCHANGED <<udp, unix, mbuf, stdout, received, counter, prevLines, died, oscs>>
  BY DEF Netcat
<1>3. pipe \in Seq(L) /\ lines \in Seq(L) /\ stdout \in Seq(L)
  BY DEF GoodInv, GoodTypes, DumpTypes
<1> DEFINE x == SubSeq(pipe, 1, k)  y == SubSeq(pipe, k + 1, Len(pipe))
<1>4. x \in Seq(L) /\ y \in Seq(L) /\ x \o y = pipe
  BY <1>3, CutInTwo
<1>5. lines' = lines \o x /\ pipe' = y
  BY <1>1
<1> HIDE DEF x, y, L
<1>6. lines' \in Seq(L) /\ pipe' \in Seq(L)
  BY <1>3, <1>4, <1>5, ConcatProperties
<1>7. Flow' = Flow
  <2>1. (lines \o x) \o (y \o stdout) = lines \o ((x \o y) \o stdout)
    <3>1. lines \in Seq(L) /\ x \in Seq(L) /\ y \in Seq(L) /\ stdout \in Seq(L)
      BY <1>3, <1>4
    <3>. QED  BY <3>1, FlowRegroups, SMTT(20)
  <2>. QED  BY <1>2, <1>4, <1>5, <2>1 DEF Flow
<1>8. UNCHANGED <<Expected, oscs>>
  BY <1>2 DEF Expected, Behind
<1>9. GoodTypes(packets, memories)'
  BY <1>2, <1>6 DEF GoodInv, GoodTypes, DumpTypes, L
<1>10. PacketBegun'
  BY <1>2, <1>8 DEF GoodInv, PacketBegun, Depth
<1>. QED  BY <1>2, <1>7, <1>8, <1>9, <1>10 DEF GoodInv

\* A line that continues the packet t, which has begun with prev.
LEMMA NextLine ==
  ASSUME NEW L, NEW t \in Seq(L), OnePacket(t), NEW prev \in Seq(L), NEW one,
         NEW all \in Seq(L), Len(all) <= Len(t),
         Len(all) = Len(prev) + 1, all[Len(prev) + 1] = one,
         \A i \in 1 .. Len(prev) : all[i] = prev[i],
         \A i \in 1 .. Len(all) : all[i] = t[i],
         NEW depth, depth = Depth(prev, Len(prev))
  PROVE  LET new == depth + (IF DoesStartBundle(one) THEN 1
                             ELSE IF depth > 0 /\ DoesEndBundle(one) THEN -1 ELSE 0)
         IN  /\ one.is # "blank"
             /\ new = Depth(all, Len(all))
             /\ Len(all) < Len(t) => new > 0
             /\ Len(all) = Len(t) => new = 0
<1> DEFINE k == Len(prev)
           new == depth + (IF DoesStartBundle(one) THEN 1
                           ELSE IF depth > 0 /\ DoesEndBundle(one) THEN -1 ELSE 0)
<1>1. /\ k \in Nat /\ Len(all) = k + 1 /\ all[k + 1] = one /\ Len(t) \in Nat
      /\ DOMAIN t = 1 .. Len(t)
      /\ \A i \in 1 .. k : all[i] = prev[i]
  OBVIOUS
<1>2. k + 1 \in 1 .. Len(t) /\ one = t[k + 1]
  <2>1. k + 1 \in 1 .. Len(all)
    BY <1>1
  <2>. QED  BY <1>1, <2>1
<1>3. /\ one.is \in {"open", "close", "message"}
      /\ DoesStartBundle(one) <=> one.is = "open"
      /\ DoesEndBundle(one) <=> one.is = "close"
  BY <1>1, <1>2, FirstChars
<1>4. Depth(all, k) = depth
  BY <1>1, SameDepth
<1>5. Depth(all, k + 1) = Depth(t, k + 1)
  <2> HIDE DEF k
  <2>1. k + 1 \in Nat /\ \A i \in 1 .. k + 1 : all[i] = t[i]
    BY <1>1
  <2> DEFINE n == k + 1
  <2>2. n \in Nat /\ \A i \in 1 .. n : all[i] = t[i]
    BY <2>1
  <2> HIDE DEF n
  <2>3. Depth(all, n) = Depth(t, n)
    BY <2>2, SameDepth
  <2>. QED  BY <2>3 DEF n
<1>6. /\ Depth(t, k + 1) >= 0
      /\ k + 1 < Len(t) => Depth(t, k + 1) > 0
      /\ k + 1 = Len(t) => Depth(t, k + 1) = 0
  <2>1. /\ \A n \in DOMAIN t : Depth(t, n) >= 0
        /\ Depth(t, Len(t)) = 0
        /\ \A n \in 1 .. Len(t) - 1 : Depth(t, n) > 0
    BY DEF OnePacket, Syntax
  <2> HIDE DEF k
  <2>2. k + 1 \in DOMAIN t /\ (k + 1 < Len(t) => k + 1 \in 1 .. Len(t) - 1)
    BY <1>1, <1>2
  <2>. QED  BY <2>1, <2>2
<1>7. /\ depth \in Int
      /\ one.is = "open" => Depth(all, k + 1) = depth + 1
      /\ one.is = "close" => Depth(all, k + 1) = depth - 1
      /\ one.is = "message" => Depth(all, k + 1) = depth
  <2>1. k + 1 \in Nat /\ 1 \in Nat /\ 1 <= k + 1 /\ (k + 1) - 1 = k
    BY <1>1
  <2>2. /\ Opened(all, 1, (k + 1) - 1) \in Int
        /\ all[k + 1].is = "open" => Opened(all, 1, k + 1) = Opened(all, 1, (k + 1) - 1) + 1
        /\ all[k + 1].is = "close" => Opened(all, 1, k + 1) = Opened(all, 1, (k + 1) - 1) - 1
        /\ all[k + 1].is = "message" => Opened(all, 1, k + 1) = Opened(all, 1, (k + 1) - 1)
    BY <2>1, OpenedStep
  <2> HIDE DEF k
  <2>3. Depth(all, k) = Opened(all, 1, k) /\ Depth(all, k + 1) = Opened(all, 1, k + 1)
    BY DepthIsOpened
  <2>. QED  BY <1>1, <1>4, <2>1, <2>2, <2>3
<1> HIDE DEF k
<1>8. new = Depth(all, k + 1)
  BY <1>3, <1>5, <1>6, <1>7
<1>9. one.is # "blank"
  BY <1>3
<1> HIDE DEF new
<1>10. /\ new = Depth(all, Len(all))
       /\ Len(all) < Len(t) => new > 0
       /\ Len(all) = Len(t) => new = 0
  BY <1>1, <1>5, <1>6, <1>8
<1>. QED  BY <1>9, <1>10 DEF new

LEMMA DepthNone == \A ls : Depth(ls, 0) = 0
<1>1. \A ls : Opened(ls, 1, 1 - 1) = 0
  BY OpenedNone
<1>2. 1 - 1 = 0
  OBVIOUS
<1>. QED  BY <1>1, <1>2, DepthIsOpened

\* The thread of ParseAll continues the packet, or puts it on the stream.
LEMMA GoodParse ==
  ASSUME NEW packets, NEW memories, Sensible(packets, memories), GoodInv(packets, memories),
         Parse
  PROVE  /\ GoodInv(packets, memories)'
         /\ \/ UNCHANGED <<Expected, oscs>>
            \/ /\ Expected # <<>>
               /\ oscs' = Append(oscs, Head(Expected)) /\ Expected' = Tail(Expected)
<1> DEFINE L == LinesOf(packets)  T == TextsOf(packets)
           one == Head(lines)  all == Append(prevLines, one)  rest == pipe \o stdout
           t == Head(Expected)
           new == counter + (IF DoesStartBundle(one) THEN 1
                             ELSE IF counter > 0 /\ DoesEndBundle(one) THEN -1 ELSE 0)
<1>1. /\ died = No /\ lines # <<>> /\ lines' = Tail(lines)
      /\ IF one.is = "blank"
         THEN died' = "empty list" /\ UNCHANGED <<counter, prevLines, oscs>>
         ELSE ParseLine(one)
      /\ UNCHANGED <<udp, unix, mbuf, stdout, pipe, received>>
  BY DEF Parse, ParseAll, dumpVars
<1>2. /\ Expected \in Seq(T) /\ Expected \in Seq(Seq(L)) /\ rest \in Seq(L)
      /\ \A u \in T : OnePacket(u) /\ u \in Seq(L) /\ u # <<>>
  BY GoodFacts, SensibleIsMeant DEF GoodInv
<1>3. /\ received \in Seq(T) /\ Len(oscs) \in 0 .. Len(received) /\ oscs \in Seq(Seq(L))
      /\ prevLines \in Seq(L) /\ lines \in Seq(L) /\ pipe \in Seq(L) /\ stdout \in Seq(L)
  BY DEF GoodInv, GoodTypes, DumpTypes
<1>4. /\ FlattenSeq(Expected) = prevLines \o (lines \o rest)
      /\ counter = Depth(prevLines, Len(prevLines))
      /\ Expected # <<>> => Len(prevLines) < Len(t)
  BY DEF GoodInv, PacketBegun, Flow
<1>5. Tail(lines) \in Seq(L) /\ all \in Seq(L)
  BY <1>1, <1>3, Moved
<1>6. FlattenSeq(Expected) = all \o (Tail(lines) \o rest)
  <2> HIDE DEF rest, L
  <2>1. prevLines \o (lines \o rest) = Append(prevLines, Head(lines)) \o (Tail(lines) \o rest)
    <3>1. prevLines \in Seq(L) /\ lines \in Seq(L) /\ lines # <<>> /\ rest \in Seq(L)
      BY <1>1, <1>2, <1>3
    <3>. QED  BY <3>1, Moved, SMTT(20)
  <2>. QED  BY <1>4, <2>1
<1>7. Len(all) = Len(prevLines) + 1 /\ all # <<>> /\ Len(prevLines) \in Nat
     /\ all[Len(prevLines) + 1] = one /\ \A i \in 1 .. Len(prevLines) : all[i] = prevLines[i]
  <2>1. /\ prevLines \in Seq(L) /\ one \in L
    <3>1. Head(lines) \in L
      BY <1>1, <1>3, HeadTailProperties
    <3>. QED  BY <1>3, <3>1
  <2>. QED  BY <2>1, AppendProperties
<1> HIDE DEF rest, L, T, all, t, new, one
<1>8. Tail(lines) \o rest \in Seq(L)
  BY <1>2, <1>5, ConcatProperties
<1>9. Expected # <<>>
  <2>1. ASSUME Expected = <<>>
        PROVE  FALSE
    <3>1. FlattenSeq(Expected) = <<>>
      BY <1>2, <2>1, FlattenProperties
    <3>2. all \o (Tail(lines) \o rest) = <<>>
      BY <1>6, <3>1
    <3> DEFINE more == Tail(lines) \o rest
    <3>3. more \in Seq(L) /\ all \o more = <<>>
      BY <1>8, <3>2
    <3> HIDE DEF more
    <3>4. all = <<>>
      BY <1>5, <3>3, ConcatEqualIffEmpty
    <3>. QED  BY <1>7, <3>4
  <2>. QED  BY <2>1
<1>10. /\ t \in T /\ OnePacket(t) /\ t \in Seq(L) /\ t # <<>>
       /\ Len(oscs) + 1 \in 0 .. Len(received)
       /\ Behind(received, Len(oscs) + 1) = Tail(Expected)
  <2>1. Behind(received, Len(oscs)) # <<>>
    BY <1>9 DEF Expected
  <2>2. /\ Len(oscs) + 1 \in 0 .. Len(received) /\ Head(Behind(received, Len(oscs))) \in T
        /\ Behind(received, Len(oscs) + 1) = Tail(Behind(received, Len(oscs)))
    BY <1>3, <2>1, BehindShrinks
  <2>. QED  BY <1>2, <2>2 DEF Expected, t
<1>11. Tail(Expected) \in Seq(Seq(L)) /\ FlattenSeq(Expected) = t \o FlattenSeq(Tail(Expected))
  <2>1. Tail(Expected) \in Seq(Seq(L))
    BY <1>2, <1>9, HeadTailProperties
  <2>. QED  BY <1>2, <1>9, <2>1, FlattenProperties DEF t
<1>12. FlattenSeq(Tail(Expected)) \in Seq(L)
  BY <1>11, FlattenProperties
<1>13. Len(all) <= Len(t) /\ Len(t) \in Nat
  <2>1. Len(t) \in Nat
    BY <1>10
  <2>. QED  BY <1>4, <1>7, <1>9, <2>1
<1>14. /\ \A i \in 1 .. Len(all) : all[i] = t[i]
       /\ Len(all) = Len(t) => all = t /\ Tail(lines) \o rest = FlattenSeq(Tail(Expected))
  <2> DEFINE more == Tail(lines) \o rest  after == FlattenSeq(Tail(Expected))
  <2>1. more \in Seq(L) /\ after \in Seq(L) /\ all \in Seq(L) /\ t \in Seq(L)
    BY <1>5, <1>8, <1>10, <1>12
  <2>2. all \o more = t \o after
    BY <1>6, <1>11
  <2> HIDE DEF more, after
  <2>3. Len(all) <= Len(t)
    BY <1>13
  <2>4. /\ \A i \in 1 .. Len(all) : all[i] = t[i]
        /\ Len(all) = Len(t) => all = t /\ more = after
    BY <2>1, <2>2, <2>3, Beginnings, ZenonT(40)
  <2>. QED  BY <2>4 DEF more, after
<1>15. /\ one.is # "blank"
       /\ new = Depth(all, Len(all))
       /\ Len(all) < Len(t) => new > 0
       /\ Len(all) = Len(t) => new = 0
  <2>1. /\ Len(all) = Len(prevLines) + 1 /\ all[Len(prevLines) + 1] = one
        /\ \A i \in 1 .. Len(prevLines) : all[i] = prevLines[i]
    BY <1>7
  <2>2. /\ t \in Seq(L) /\ OnePacket(t) /\ prevLines \in Seq(L) /\ all \in Seq(L)
        /\ Len(all) <= Len(t) /\ \A i \in 1 .. Len(all) : all[i] = t[i]
        /\ counter = Depth(prevLines, Len(prevLines))
    BY <1>3, <1>4, <1>5, <1>10, <1>13, <1>14
  <2>. QED  BY <2>1, <2>2, NextLine DEF new
<1>16. /\ counter' = new
       /\ IF new > 0 THEN prevLines' = all /\ UNCHANGED <<died, oscs>>
          ELSE prevLines' = <<>> /\ ParseVS(all)
  BY <1>1, <1>15 DEF ParseLine, new, all
<1>17. Flow' = Tail(lines) \o rest
  BY <1>1 DEF Flow, rest
<1>18. CASE Len(all) < Len(t)
  <2>1. counter' = new /\ prevLines' = all /\ UNCHANGED <<died, oscs>>
    BY <1>15, <1>16, <1>18
  <2>2. UNCHANGED <<Expected, oscs>>
    BY <1>1, <2>1 DEF Expected, Behind
  <2>3. FlattenSeq(Expected)' = prevLines' \o Flow'
    BY <1>6, <1>17, <2>1, <2>2
  <2>4. PacketBegun'
    BY <1>15, <1>18, <2>1, <2>2 DEF PacketBegun, t, Depth
  <2>5. GoodTypes(packets, memories)'
    BY <1>1, <1>3, <1>5, <2>1 DEF GoodInv, GoodTypes, DumpTypes, L, T
  <2>. QED  BY <2>2, <2>3, <2>4, <2>5 DEF GoodInv
<1>19. CASE Len(all) = Len(t)
  <2>1. counter' = 0 /\ prevLines' = <<>> /\ ParseVS(t)
    BY <1>14, <1>15, <1>16, <1>19
  <2>2. oscs' = Append(oscs, t) /\ died' = died
    <3>1. Syntax(t) /\ \A i \in DOMAIN t : TimetagOk(t[i])
      BY <1>10 DEF OnePacket
    <3>. QED  BY <2>1, <3>1 DEF ParseVS
  <2>3. /\ oscs' \in Seq(Seq(L)) /\ Len(oscs') = Len(oscs) + 1
    BY <1>3, <1>10, <2>2, AppendProperties
  <2>4. Expected' = Tail(Expected)
    BY <1>1, <1>10, <2>3 DEF Expected
  <2>5. FlattenSeq(Expected)' = prevLines' \o Flow'
    <3>1. FlattenSeq(Expected') = Flow'
      BY <1>14, <1>17, <1>19, <2>4
    <3>2. Flow' \in Seq(L)
      BY <1>8, <1>17
    <3>3. <<>> \o Flow' = Flow'
      BY <3>2, ConcatEmptySeq
    <3>. QED  BY <2>1, <3>1, <3>3
  <2>6. PacketBegun'
    <3>1. prevLines' = <<>> /\ Len(prevLines') = 0
      BY <2>1
    <3>2. counter' = Depth(prevLines, Len(prevLines))'
      BY <2>1, <3>1, DepthNone
    <3>3. ASSUME Expected' # <<>>
          PROVE  0 < Len(Head(Expected'))
      <4>1. Tail(Expected) \in Seq(T)
        BY <1>2, <1>9, HeadTailProperties
      <4>2. Head(Expected') \in T
        BY <2>4, <3>3, <4>1, HeadTailProperties
      <4>3. Head(Expected') \in Seq(L) /\ Head(Expected') # <<>>
        BY <1>2, <4>2
      <4>. QED  BY <4>3, EmptySeq
    <3>. QED  BY <3>1, <3>2, <3>3 DEF PacketBegun
  <2>7. GoodTypes(packets, memories)'
    <3>1. /\ received' \in Seq(T) /\ Len(oscs') \in 0 .. Len(received')
          /\ prevLines' \in Seq(L) /\ lines' \in Seq(L) /\ died' = No
      BY <1>1, <1>3, <1>5, <1>10, <2>1, <2>2, <2>3, EmptySeq
    <3>2. DumpTypes(packets, memories, L)'
      BY <1>1 DEF GoodInv, GoodTypes, DumpTypes, L
    <3>. QED  BY <2>3, <3>1, <3>2 DEF GoodTypes, L, T
  <2>. QED  BY <1>9, <2>2, <2>4, <2>5, <2>6, <2>7 DEF GoodInv, t
<1>. QED  BY <1>7, <1>13, <1>18, <1>19

\* The steps of the pipeline, put together.
LEMMA GoodInit ==
  ASSUME NEW packets, NEW memories, Sensible(packets, memories), PipeInit
  PROVE  GoodInv(packets, memories)
<1> DEFINE L == LinesOf(packets)
<1>1. /\ udp = <<>> /\ unix = <<>> /\ mbuf = Zeros /\ stdout = <<>> /\ pipe = <<>>
      /\ received = <<>> /\ lines = <<>> /\ counter = 0 /\ prevLines = <<>>
      /\ died = No /\ oscs = <<>>
  BY DEF PipeInit, DumpInit, ParseInit
<1>2. Zeros \in memories
  BY DEF Sensible, PrintAsMeant
<1>3. GoodTypes(packets, memories)
  BY <1>1, <1>2, EmptySeq DEF GoodTypes, DumpTypes
<1>4. Expected = <<>>
  BY <1>1 DEF Expected, Behind
<1>5. FlattenSeq(Expected) = <<>>
  <2>1. <<>> \in Seq(Seq(L))
    BY EmptySeq
  <2>2. FlattenSeq(<<>>) = <<>>
    BY <2>1, FlattenProperties
  <2>. QED  BY <1>4, <2>2
<1>6. prevLines \o Flow = <<>>
  <2>1. <<>> \o <<>> = <<>>
    OBVIOUS
  <2>. QED  BY <1>1, <2>1 DEF Flow
<1>7. PacketBegun
  BY <1>1, <1>4, DepthNone DEF PacketBegun
<1>. QED  BY <1>3, <1>5, <1>6, <1>7 DEF GoodInv

LEMMA GoodStep ==
  ASSUME NEW packets, packets = PacketsIn["good"], NEW memories, Sensible(packets, memories),
         GoodInv(packets, memories), part = "good", [PipeNext]_<<part, pipeVars>>
  PROVE  GoodInv(packets, memories)' /\ [Stream!Next]_(Stream!vars)
<1> DEFINE L == LinesOf(packets)  T == TextsOf(packets)
<1>1. ASSUME UNCHANGED <<Expected, oscs>>
      PROVE  [Stream!Next]_(Stream!vars)
  BY <1>1 DEF Expected, Behind, Stream!vars
<1>2. CASE UNCHANGED <<part, pipeVars>>
  <2>1. UNCHANGED <<udp, unix, mbuf, stdout, pipe, received, lines, counter, prevLines, died, oscs>>
    BY <1>2 DEF pipeVars, dumpVars, parseVars
  <2>2. UNCHANGED <<Expected, oscs>>
    BY <2>1 DEF Expected, Behind
  <2>3. GoodInv(packets, memories)'
    BY <2>1, <2>2 DEF GoodInv, GoodTypes, DumpTypes, PacketBegun, Flow, Depth
  <2>. QED  BY <1>1, <2>2, <2>3
<1>3. ASSUME NEW interrupts, DumpNext(packets, interrupts), UNCHANGED parseVars
      PROVE  GoodInv(packets, memories)' /\ [Stream!Next]_(Stream!vars)
  <2>1. Meant(packets, memories, L) /\ DumpTypes(packets, memories, L)
    BY SensibleIsMeant DEF GoodInv, GoodTypes
  <2>2. /\ DumpTypes(packets, memories, L)'
        /\ Prints(<<>>) \/ \E p \in packets : Prints(p.text)
    BY <1>3, <2>1, DumpStep
  <2>3. PICK t \in T \union {<<>>} : Prints(t)
    BY <2>2 DEF TextsOf
  <2>4. /\ GoodInv(packets, memories)'
        /\ oscs' = oscs
        /\ Expected' = IF t = <<>> THEN Expected ELSE Append(Expected, t)
    BY <1>3, <2>2, <2>3, GoodReceive
  <2>5. CASE t = <<>>
    BY <1>1, <2>4, <2>5
  <2>6. CASE t # <<>>
    <3>1. t \in T /\ Expected' = Append(Expected, t) /\ oscs' = oscs
      BY <2>4, <2>6
    <3>2. Stream!Receive(t)
      BY <3>1 DEF Stream!Receive, Expected, Behind
    <3>3. Stream!Next
      BY <3>1, <3>2 DEF Stream!Next, TextsOf
    <3>. QED  BY <2>4, <3>3
  <2>. QED  BY <2>5, <2>6
<1>4. ASSUME Netcat(FALSE)
      PROVE  GoodInv(packets, memories)' /\ [Stream!Next]_(Stream!vars)
  BY <1>1, <1>4, GoodNetcat
<1>5. ASSUME Parse
      PROVE  GoodInv(packets, memories)' /\ [Stream!Next]_(Stream!vars)
  <2>1. /\ GoodInv(packets, memories)'
        /\ \/ UNCHANGED <<Expected, oscs>>
           \/ /\ Expected # <<>>
              /\ oscs' = Append(oscs, Head(Expected)) /\ Expected' = Tail(Expected)
    BY <1>5, GoodParse
  <2>2. CASE UNCHANGED <<Expected, oscs>>
    BY <1>1, <2>1, <2>2
  <2>3. CASE /\ Expected # <<>>
             /\ oscs' = Append(oscs, Head(Expected)) /\ Expected' = Tail(Expected)
    <3>1. Stream!Deliver
      BY <2>3 DEF Stream!Deliver, Expected, Behind
    <3>. QED  BY <2>1, <3>1 DEF Stream!Next
  <2>. QED  BY <2>1, <2>2, <2>3
<1>6. CASE PipeNext
  <2>1. \/ DumpNext(packets, FALSE) /\ UNCHANGED parseVars
        \/ Netcat(FALSE)
        \/ Parse
    <3>1. (part = "damaged") = FALSE /\ (part = "lossy") = FALSE /\ PacketsIn[part] = packets
      OBVIOUS
    <3>. QED  BY <1>6, <3>1 DEF PipeNext
  <2>. QED  BY <1>3, <1>4, <1>5, <2>1
<1>. QED  BY <1>2, <1>6

(* Whatever packets come that are printed as they are meant, and are       *)
(* bracketed as ParseAll expects it: however the output of dumpOSC is      *)
(* buffered and cut into datagrams, they appear in Oz each once, complete, *)
(* and in their order (main of dumpOSC.c, ParseAll of OSC.oz).             *)
THEOREM ImplementsStreamTheorem ==
  ASSUME NEW memories, Sensible(PacketsIn["good"], memories)
  PROVE  PipeSpec => ImplementsStream
<1> DEFINE Inv == part = "good" => GoodInv(PacketsIn["good"], memories)
<1>1. PipeInit => Inv
  BY GoodInit
<1>2. Inv /\ [PipeNext]_<<part, pipeVars>> => Inv'
  <2>1. SUFFICES ASSUME Inv, [PipeNext]_<<part, pipeVars>>, part' = "good"
                 PROVE  GoodInv(PacketsIn["good"], memories)'
    OBVIOUS
  <2>2. part = "good"
    BY <2>1 DEF PipeNext
  <2>. QED  BY <2>1, <2>2, GoodStep
<1>3. Inv /\ [PipeNext]_<<part, pipeVars>> => [part = "good" => Stream!Next]_(Stream!vars)
  <2>1. CASE part = "good"
    BY <2>1, GoodStep
  <2>2. CASE part # "good"
    BY <2>2
  <2>. QED  BY <2>1, <2>2
<1>4. PipeInit => Stream!Init
  BY DEF PipeInit, DumpInit, ParseInit, Stream!Init
<1> HIDE DEF Inv
<1>. QED  BY <1>1, <1>2, <1>3, <1>4, PTL DEF PipeSpec, ImplementsStream

-----------------------------------------------------------------------------
(* Lines that are lost: what comes through is a part of what was printed,  *)
(* in its order.                                                           *)

\* f says where in all the entries of row are.
Embeds(f, row, all) ==
    /\ f \in [1 .. Len(row) -> 1 .. Len(all)]
    /\ \A i, j \in 1 .. Len(row) : i < j => f[i] < f[j]
    /\ \A i \in 1 .. Len(row) : row[i] = all[f[i]]

PartOf(row, all) == \E f : Embeds(f, row, all)

LEMMA PartOfItself == ASSUME NEW L, NEW s \in Seq(L) PROVE PartOf(s, s)
<1>1. Embeds([i \in 1 .. Len(s) |-> i], s, s)
  BY DEF Embeds
<1>. QED  BY <1>1 DEF PartOf

\* The same is added on both sides.
LEMMA PartOfLonger ==
  ASSUME NEW L, NEW row \in Seq(L), NEW all \in Seq(L), NEW t \in Seq(L), PartOf(row, all)
  PROVE  PartOf(row \o t, all \o t)
<1>1. PICK f : Embeds(f, row, all)
  BY DEF PartOf
<1> DEFINE m == Len(row)  n == Len(all)  k == Len(t)
           r == row \o t  a == all \o t
           g == [i \in 1 .. m + k |-> IF i <= m THEN f[i] ELSE n + (i - m)]
<1>2. m \in Nat /\ n \in Nat /\ k \in Nat
  OBVIOUS
<1>3. /\ Len(r) = m + k
      /\ \A i \in 1 .. m + k : r[i] = IF i <= m THEN row[i] ELSE t[i - m]
  BY ConcatProperties
<1>4. /\ Len(a) = n + k
      /\ \A i \in 1 .. n + k : a[i] = IF i <= n THEN all[i] ELSE t[i - n]
  BY ConcatProperties
<1>5. /\ \A i \in 1 .. m : f[i] \in 1 .. n /\ row[i] = all[f[i]]
      /\ \A i, j \in 1 .. m : i < j => f[i] < f[j]
  BY <1>1 DEF Embeds
<1>6. \A i \in 1 .. m + k : (i <= m => i \in 1 .. m /\ g[i] = f[i])
                         /\ (~ (i <= m) => g[i] = n + (i - m))
  BY <1>2
<1>7. ASSUME NEW i \in 1 .. m + k
      PROVE  g[i] \in 1 .. n + k /\ r[i] = a[g[i]]
  <2> HIDE DEF m, n, k, r, a, g
  <2>1. CASE i <= m
    <3>1. g[i] = f[i] /\ f[i] \in 1 .. n /\ row[i] = all[f[i]]
      BY <1>5, <1>6, <2>1
    <3>2. f[i] \in 1 .. n + k /\ f[i] <= n
      BY <1>2, <3>1
    <3>. QED  BY <1>3, <1>4, <2>1, <3>1, <3>2
  <2>2. CASE ~ (i <= m)
    <3>1. g[i] = n + (i - m)
      BY <1>6, <2>2
    <3>2. n + (i - m) \in 1 .. n + k /\ ~ (n + (i - m) <= n) /\ (n + (i - m)) - n = i - m
      BY <1>2, <2>2
    <3>3. a[n + (i - m)] = t[i - m]
      BY <1>4, <3>2
    <3>. QED  BY <1>3, <2>2, <3>1, <3>2, <3>3
  <2>. QED  BY <2>1, <2>2
<1>8. ASSUME NEW i \in 1 .. m + k, NEW j \in 1 .. m + k, i < j
      PROVE  g[i] < g[j]
  <2> HIDE DEF m, n, k, r, a, g
  <2>1. CASE j <= m
    <3>1. i <= m
      BY <1>2, <1>8, <2>1
    <3>. QED  BY <1>5, <1>6, <1>8, <2>1, <3>1
  <2>2. CASE i <= m /\ ~ (j <= m)
    <3>1. g[i] = f[i] /\ f[i] \in 1 .. n /\ g[j] = n + (j - m)
      BY <1>5, <1>6, <2>2
    <3>. QED  BY <1>2, <2>2, <3>1
  <2>3. CASE ~ (i <= m) /\ ~ (j <= m)
    <3>1. g[i] = n + (i - m) /\ g[j] = n + (j - m)
      BY <1>6, <2>3
    <3>. QED  BY <1>2, <1>8, <3>1
  <2>. QED  BY <1>2, <1>8, <2>1, <2>2, <2>3
<1>9. DOMAIN g = 1 .. m + k /\ g = [i \in 1 .. m + k |-> g[i]]
  OBVIOUS
<1> HIDE DEF m, n, k, r, a, g
<1>10. Embeds(g, r, a)
  <2>1. g \in [1 .. m + k -> 1 .. n + k]
    BY <1>7, <1>9
  <2>. QED  BY <1>3, <1>4, <1>7, <1>8, <2>1 DEF Embeds
<1>. QED  BY <1>10 DEF PartOf, r, a

\* A piece is taken out.
LEMMA PartOfWithout ==
  ASSUME NEW L, NEW a \in Seq(L), NEW x \in Seq(L), NEW b \in Seq(L), NEW all \in Seq(L),
         PartOf(a \o (x \o b), all)
  PROVE  PartOf(a \o b, all)
<1> DEFINE row == a \o (x \o b)  r == a \o b  xb == x \o b
           k == Len(a)  l == Len(x)  m == Len(b)  n == Len(all)
<1>1. PICK f : Embeds(f, row, all)
  BY DEF PartOf
<1>2. k \in Nat /\ l \in Nat /\ m \in Nat /\ n \in Nat
  OBVIOUS
<1>3. /\ xb \in Seq(L) /\ Len(xb) = l + m
      /\ \A i \in 1 .. l + m : xb[i] = IF i <= l THEN x[i] ELSE b[i - l]
  BY ConcatProperties
<1>4. /\ Len(row) = k + (l + m)
      /\ \A i \in 1 .. k + (l + m) : row[i] = IF i <= k THEN a[i] ELSE xb[i - k]
  <2> HIDE DEF xb
  <2> DEFINE w == a \o xb
  <2>1. /\ Len(w) = k + Len(xb)
        /\ \A i \in 1 .. k + Len(xb) : w[i] = IF i <= k THEN a[i] ELSE xb[i - k]
    <3>1. xb \in Seq(L)
      BY <1>3
    <3>. QED  BY <3>1, ConcatProperties
  <2>2. row = w
    BY DEF xb
  <2> HIDE DEF w, row, k, l, m
  <2>. QED  BY <1>3, <2>1, <2>2
<1>5. /\ Len(r) = k + m
      /\ \A i \in 1 .. k + m : r[i] = IF i <= k THEN a[i] ELSE b[i - k]
  BY ConcatProperties
<1>6. /\ \A i \in 1 .. k + (l + m) : f[i] \in 1 .. n /\ row[i] = all[f[i]]
      /\ \A i, j \in 1 .. k + (l + m) : i < j => f[i] < f[j]
  <2> HIDE DEF row, k, l, m, n
  <2>. QED  BY <1>1, <1>4 DEF Embeds, n
<1> DEFINE Old(i) == IF i <= k THEN i ELSE i + l
           g == [i \in 1 .. k + m |-> f[Old(i)]]
<1> HIDE DEF row, r, xb, k, l, m, n
<1>7. ASSUME NEW i \in 1 .. k + m
      PROVE  Old(i) \in 1 .. k + (l + m) /\ r[i] = row[Old(i)]
  <2>1. CASE i <= k
    <3>1. i \in 1 .. k + (l + m) /\ Old(i) = i
      BY <1>2, <2>1
    <3>. QED  BY <1>4, <1>5, <2>1, <3>1
  <2>2. CASE ~ (i <= k)
    <3>1. /\ i + l \in 1 .. k + (l + m) /\ Old(i) = i + l /\ ~ (i + l <= k)
          /\ (i + l) - k \in 1 .. l + m /\ ~ ((i + l) - k <= l) /\ ((i + l) - k) - l = i - k
      BY <1>2, <2>2
    <3>2. row[i + l] = xb[(i + l) - k] /\ xb[(i + l) - k] = b[i - k] /\ r[i] = b[i - k]
      BY <1>3, <1>4, <1>5, <2>2, <3>1
    <3>. QED  BY <3>1, <3>2
  <2>. QED  BY <2>1, <2>2
<1>8. \A i, j \in 1 .. k + m : i < j => Old(i) < Old(j)
  BY <1>2
<1> HIDE DEF Old
<1>9. Embeds(g, r, all)
  <2>1. \A i \in 1 .. k + m : g[i] = f[Old(i)] /\ g[i] \in 1 .. n /\ r[i] = all[g[i]]
    BY <1>6, <1>7
  <2>2. g \in [1 .. k + m -> 1 .. n]
    BY <2>1
  <2>3. \A i, j \in 1 .. k + m : i < j => g[i] < g[j]
    BY <1>6, <1>7, <1>8, <2>1
  <2> HIDE DEF g
  <2>. QED  BY <1>5, <2>1, <2>2, <2>3 DEF Embeds, n
<1>. QED  BY <1>9 DEF PartOf, r

\* g counts the lines of row that are found among the first 1, 2, ... of all.
Counts(g, row, all) ==
    g = [n \in 0 .. Len(all) |->
           IF n = 0 THEN 0
           ELSE LET k == g[n - 1]
                IN  IF k < Len(row) /\ row[k + 1] = all[n] THEN k + 1 ELSE k]

\* The recursive definition of Found has a solution.
LEMMA CountingExists ==
  ASSUME NEW row, NEW all, Len(all) \in Nat
  PROVE  \E g : Counts(g, row, all)
<1> DEFINE n == Len(all)
           FoundAfter(k, i) == IF k < Len(row) /\ row[k + 1] = all[i] THEN k + 1 ELSE k
           Upto(k, g) == /\ DOMAIN g = 0 .. k /\ g[0] = 0
                         /\ \A i \in 1 .. k : g[i] = FoundAfter(g[i - 1], i)
           defined == {k \in 0 .. n : \E g : Upto(k, g)}
<1> HIDE DEF FoundAfter
<1>1. n \in Nat
  OBVIOUS
<1>2. 0 \in defined
  <2>1. Upto(0, [i \in 0 .. 0 |-> 0])
    OBVIOUS
  <2> HIDE DEF Upto
  <2>. QED  BY <1>1, <2>1
<1>3. ASSUME NEW k \in 1 .. n, k - 1 \in defined
      PROVE  k \in defined
  <2>1. PICK g : Upto(k - 1, g)
    BY <1>3
  <2> DEFINE h == [i \in 0 .. k |-> IF i = k THEN FoundAfter(g[k - 1], k) ELSE g[i]]
  <2>2. DOMAIN h = 0 .. k /\ h[0] = 0
    BY <1>1, <1>3, <2>1
  <2>3. ASSUME NEW i \in 1 .. k
        PROVE  h[i] = FoundAfter(h[i - 1], i)
    <3>1. i - 1 \in 0 .. k /\ i \in 0 .. k /\ i - 1 # k /\ (i # k => i \in 1 .. k - 1)
      BY <1>1, <1>3
    <3>2. h[i - 1] = g[i - 1]
      BY <3>1
    <3>3. CASE i = k
      BY <3>1, <3>2, <3>3
    <3>4. CASE i # k
      BY <2>1, <3>1, <3>2, <3>4
    <3>. QED  BY <3>3, <3>4
  <2> HIDE DEF h
  <2>4. Upto(k, h)
    BY <2>2, <2>3
  <2> HIDE DEF Upto
  <2>. QED  BY <2>4
<1> HIDE DEF defined
<1>4. n \in defined
  <2>1. \A k \in 0 .. n : k \in defined
    BY <1>1, <1>2, <1>3, Upwards
  <2>. QED  BY <1>1, <2>1
<1>5. PICK g : Upto(n, g)
  BY <1>4 DEF defined
<1> DEFINE h == [i \in 0 .. n |-> g[i]]
<1>6. ASSUME NEW i \in 0 .. n
      PROVE  h[i] = IF i = 0 THEN 0 ELSE FoundAfter(h[i - 1], i)
  <2>1. CASE i = 0
    BY <1>1, <1>5, <2>1
  <2>2. CASE i # 0
    <3>1. i \in 1 .. n /\ i - 1 \in 0 .. n
      BY <1>1, <2>2
    <3>2. h[i] = g[i] /\ h[i - 1] = g[i - 1] /\ g[i] = FoundAfter(g[i - 1], i)
      BY <1>5, <3>1
    <3>. QED  BY <2>2, <3>2
  <2>. QED  BY <2>1, <2>2
<1>7. h = [i \in 0 .. n |-> h[i]]
  OBVIOUS
<1> HIDE DEF h
<1>8. h = [i \in 0 .. n |-> IF i = 0 THEN 0 ELSE FoundAfter(h[i - 1], i)]
  BY <1>6, <1>7
<1>9. Counts(h, row, all)
  BY <1>8 DEF Counts, FoundAfter
<1>. QED  BY <1>9

\* Found is its last entry.
LEMMA FoundIs ==
  ASSUME NEW row, NEW all, Len(all) \in Nat
  PROVE  \E g : Counts(g, row, all) /\ Found(row, all) = g[Len(all)]
<1> DEFINE F == CHOOSE g : Counts(g, row, all)
<1>1. Counts(F, row, all)
  BY CountingExists
<1>2. Found(row, all) = F[Len(all)]
  BY DEF Found, Counts
<1>. QED  BY <1>1, <1>2

\* What is a part of all is found there.
LEMMA PartIsFound ==
  ASSUME NEW L, NEW row \in Seq(L), NEW all \in Seq(L), PartOf(row, all)
  PROVE  Found(row, all) = Len(row)
<1> DEFINE m == Len(row)  n == Len(all)
<1>1. m \in Nat /\ n \in Nat
  OBVIOUS
<1>2. PICK f : Embeds(f, row, all)
  BY DEF PartOf
<1>3. PICK g : Counts(g, row, all) /\ Found(row, all) = g[n]
  BY <1>1, FoundIs
<1>4. /\ \A i \in 1 .. m : f[i] \in 1 .. n /\ row[i] = all[f[i]]
      /\ \A i, j \in 1 .. m : i < j => f[i] < f[j]
  BY <1>2 DEF Embeds
<1>5. /\ g[0] = 0
      /\ \A k \in 1 .. n : g[k] = IF g[k - 1] < m /\ row[g[k - 1] + 1] = all[k]
                                  THEN g[k - 1] + 1 ELSE g[k - 1]
  <2>1. g[0] = 0
    BY <1>1, <1>3 DEF Counts
  <2>2. ASSUME NEW k \in 1 .. n
        PROVE  g[k] = IF g[k - 1] < m /\ row[g[k - 1] + 1] = all[k]
                      THEN g[k - 1] + 1 ELSE g[k - 1]
    <3>1. k \in 0 .. n /\ k # 0
      BY <1>1
    <3>. QED  BY <1>3, <3>1 DEF Counts
  <2>. QED  BY <2>1, <2>2
<1> HIDE DEF m, n
<1> DEFINE fine == {k \in 0 .. n : /\ g[k] \in 0 .. m
                                   /\ \A i \in 1 .. m : f[i] <= k => i <= g[k]}
<1>6. 0 \in fine
  <2>1. ASSUME NEW i \in 1 .. m, f[i] <= 0
        PROVE  FALSE
    <3>1. f[i] \in 1 .. n
      BY <1>4
    <3>. QED  BY <1>1, <2>1, <3>1
  <2>. QED  BY <1>1, <1>5, <2>1
<1>7. ASSUME NEW k \in 1 .. n, k - 1 \in fine
      PROVE  k \in fine
  <2> DEFINE b == g[k - 1]
  <2>1. /\ b \in 0 .. m
        /\ \A i \in 1 .. m : f[i] <= k - 1 => i <= b
        /\ g[k] = IF b < m /\ row[b + 1] = all[k] THEN b + 1 ELSE b
    BY <1>5, <1>7
  <2> HIDE DEF b
  <2>2. g[k] \in 0 .. m /\ b <= g[k]
    BY <1>1, <2>1
  <2>3. ASSUME NEW i \in 1 .. m, f[i] <= k
        PROVE  i <= g[k]
    <3>1. f[i] \in 1 .. n /\ row[i] = all[f[i]]
      BY <1>4
    <3>2. CASE f[i] <= k - 1
      <4>1. i <= b
        BY <2>1, <3>2
      <4>. QED  BY <1>1, <2>1, <2>2, <4>1
    <3>3. CASE f[i] = k
      <4>1. i - 1 <= b
        <5>1. CASE i = 1
          BY <1>1, <2>1, <5>1
        <5>2. CASE i # 1
          <6>1. i - 1 \in 1 .. m /\ i - 1 < i
            BY <1>1, <5>2
          <6>2. f[i - 1] < f[i] /\ f[i - 1] \in 1 .. n
            BY <1>4, <6>1
          <6>3. f[i - 1] <= k - 1
            BY <1>1, <3>3, <6>2
          <6>. QED  BY <2>1, <6>1, <6>3
        <5>. QED  BY <5>1, <5>2
      <4>2. CASE i <= b
        BY <1>1, <2>1, <2>2, <4>2
      <4>3. CASE ~ (i <= b)
        <5>1. b + 1 = i /\ b < m
          BY <1>1, <2>1, <4>1, <4>3
        <5>2. row[b + 1] = all[k]
          BY <3>1, <3>3, <5>1
        <5>3. g[k] = b + 1
          BY <2>1, <5>1, <5>2
        <5>. QED  BY <5>1, <5>3
      <4>. QED  BY <4>2, <4>3
    <3>. QED  BY <1>1, <2>3, <3>1, <3>2, <3>3
  <2>. QED  BY <1>1, <2>2, <2>3
<1> HIDE DEF fine
<1>8. \A k \in 0 .. n : k \in fine
  BY <1>1, <1>6, <1>7, Upwards
<1>9. g[n] \in 0 .. m /\ \A i \in 1 .. m : f[i] <= n => i <= g[n]
  <2>1. n \in 0 .. n
    BY <1>1
  <2>. QED  BY <1>8, <2>1 DEF fine
<1>10. g[n] = m
  <2>1. CASE m = 0
    BY <1>1, <1>9, <2>1
  <2>2. CASE m # 0
    <3>1. m \in 1 .. m
      BY <1>1, <2>2
    <3>2. f[m] \in 1 .. n
      BY <1>4, <3>1
    <3>3. m <= g[n]
      BY <1>1, <1>9, <3>1, <3>2
    <3>. QED  BY <1>1, <1>9, <3>3
  <2>. QED  BY <2>1, <2>2
<1>. QED  BY <1>3, <1>10 DEF m

\* What has come through, and the lines of the packet that has begun.
ThroughOf(packets, begun, why) == FlattenSeq(packets) \o (IF why = No THEN begun ELSE <<>>)
Through == ThroughOf(oscs, prevLines, died)

LossyTypes(packets, memories, L) ==
    /\ DumpTypes(packets, memories, L)
    /\ received \in Seq(Seq(L)) /\ oscs \in Seq(Seq(L))
    /\ prevLines \in Seq(L) /\ lines \in Seq(L)

LossyInv(packets, memories, L) ==
    /\ LossyTypes(packets, memories, L)
    /\ PartOf(PipeRow, FlattenSeq(received))

LEMMA FourParts ==
  ASSUME NEW L, NEW u \in Seq(L), NEW a \in Seq(L), NEW b \in Seq(L), NEW c \in Seq(L)
  PROVE  ((u \o a) \o b) \o c = u \o (a \o (b \o c)) /\ ((u \o a) \o b) \o c \in Seq(L)
<1> DEFINE v == u \o a  q == b \o c  w == v \o b
<1>1. v \in Seq(L) /\ q \in Seq(L)
  BY ConcatProperties
<1> HIDE DEF q
<1>2. v \o q = u \o (a \o q)
  BY <1>1, Associative, SMTT(20)
<1> HIDE DEF v
<1>3. w \in Seq(L)
  BY <1>1, ConcatProperties
<1>4. w \o c = v \o q
  BY <1>1, Associative, SMTT(20) DEF q
<1> HIDE DEF w
<1>5. w \o c \in Seq(L)
  BY <1>3, ConcatProperties
<1>. QED  BY <1>2, <1>4, <1>5 DEF v, q, w

LEMMA ThroughAndFlow ==
  ASSUME NEW L, NEW packets \in Seq(Seq(L)), NEW begun \in Seq(L), NEW why,
         NEW a \in Seq(L), NEW b \in Seq(L), NEW c \in Seq(L)
  PROVE  /\ ThroughOf(packets, begun, why) \in Seq(L)
         /\ ((ThroughOf(packets, begun, why) \o a) \o b) \o c \in Seq(L)
         /\ ((ThroughOf(packets, begun, why) \o a) \o b) \o c
              = ThroughOf(packets, begun, why) \o (a \o (b \o c))
<1> DEFINE F == FlattenSeq(packets)  P == IF why = No THEN begun ELSE <<>>  u == F \o P
<1>1. F \in Seq(L)
  BY FlattenProperties
<1>2. P \in Seq(L)
  BY EmptySeq
<1> HIDE DEF F, P
<1>3. u \in Seq(L)
  BY <1>1, <1>2, ConcatProperties
<1> HIDE DEF u
<1>4. ((u \o a) \o b) \o c = u \o (a \o (b \o c)) /\ ((u \o a) \o b) \o c \in Seq(L)
  BY <1>3, FourParts
<1>. QED  BY <1>3, <1>4 DEF u, F, P, ThroughOf

LEMMA LossyFacts ==
  ASSUME NEW packets, NEW memories, NEW L, LossyTypes(packets, memories, L)
  PROVE  /\ Through \in Seq(L) /\ FlattenSeq(oscs) \in Seq(L) /\ FlattenSeq(received) \in Seq(L)
         /\ PipeRow = Through \o (lines \o (pipe \o stdout)) /\ PipeRow \in Seq(L)
<1>1. FlattenSeq(oscs) \in Seq(L) /\ FlattenSeq(received) \in Seq(L)
  BY FlattenProperties DEF LossyTypes
<1>2. /\ oscs \in Seq(Seq(L)) /\ prevLines \in Seq(L)
      /\ lines \in Seq(L) /\ pipe \in Seq(L) /\ stdout \in Seq(L)
  BY DEF LossyTypes, DumpTypes
<1>3. /\ Through \in Seq(L) /\ ((Through \o lines) \o pipe) \o stdout \in Seq(L)
      /\ ((Through \o lines) \o pipe) \o stdout = Through \o (lines \o (pipe \o stdout))
  BY <1>2, ThroughAndFlow, SMTT(60) DEF Through
<1>4. PipeRow = ((Through \o lines) \o pipe) \o stdout
  BY DEF PipeRow, Through, ThroughOf
<1>. QED  BY <1>1, <1>3, <1>4

LEMMA LossyRowAfter ==
  ASSUME NEW packets, NEW memories, NEW L, LossyTypes(packets, memories, L)'
  PROVE  PipeRow' = Through' \o (lines' \o (pipe' \o stdout'))
<1>1. /\ oscs' \in Seq(Seq(L)) /\ prevLines' \in Seq(L)
      /\ lines' \in Seq(L) /\ pipe' \in Seq(L) /\ stdout' \in Seq(L)
  BY DEF LossyTypes, DumpTypes
<1>2. ((Through' \o lines') \o pipe') \o stdout' = Through' \o (lines' \o (pipe' \o stdout'))
  BY <1>1, ThroughAndFlow, SMTT(60) DEF Through
<1>3. PipeRow' = ((Through' \o lines') \o pipe') \o stdout'
  BY DEF PipeRow, Through, ThroughOf
<1>. QED  BY <1>2, <1>3

\* The steps of a pipeline that loses datagrams.
LEMMA LossyReceive ==
  ASSUME NEW packets, NEW memories, NEW L, LossyInv(packets, memories, L),
         DumpTypes(packets, memories, L)', NEW t \in Seq(L), Prints(t), UNCHANGED parseVars
  PROVE  LossyInv(packets, memories, L)'
<1>1. UNCHANGED <<lines, prevLines, died, oscs>>
  BY DEF parseVars
<1>2. /\ Through \in Seq(L) /\ PipeRow = Through \o (lines \o (pipe \o stdout))
      /\ PipeRow \in Seq(L) /\ FlattenSeq(received) \in Seq(L)
  BY LossyFacts DEF LossyInv
<1>3. /\ received \in Seq(Seq(L)) /\ oscs \in Seq(Seq(L)) /\ prevLines \in Seq(L)
      /\ lines \in Seq(L) /\ pipe \in Seq(L) /\ stdout \in Seq(L)
  BY DEF LossyInv, LossyTypes, DumpTypes
<1>4. /\ received' \in Seq(Seq(L))
      /\ FlattenSeq(received') = FlattenSeq(received) \o t
  <2>1. CASE t = <<>>
    <3>1. received' = received
      BY <2>1 DEF Prints
    <3>2. FlattenSeq(received) \o <<>> = FlattenSeq(received)
      BY <1>2, ConcatEmptySeq
    <3>. QED  BY <1>3, <2>1, <3>1, <3>2
  <2>2. CASE t # <<>>
    <3>1. received' = Append(received, t)
      BY <2>2 DEF Prints
    <3>2. Append(received, t) \in Seq(Seq(L))
      BY <1>3, AppendProperties
    <3>3. FlattenSeq(Append(received, t)) = FlattenSeq(received) \o t
      BY <1>3, FlattenProperties
    <3>. QED  BY <3>1, <3>2, <3>3
  <2>. QED  BY <2>1, <2>2
<1>5. LossyTypes(packets, memories, L)'
  BY <1>1, <1>3, <1>4 DEF LossyTypes
<1>6. PipeRow' = Through' \o (lines' \o (pipe' \o stdout'))
  BY <1>5, LossyRowAfter
<1>7. Through' = Through /\ lines' = lines /\ pipe' \o stdout' = pipe \o (stdout \o t)
  BY <1>1 DEF Through, ThroughOf, Prints
<1>8. PipeRow' = PipeRow \o t
  <2> DEFINE q == pipe \o stdout
  <2>1. q \in Seq(L)
    BY <1>3, ConcatProperties
  <2>2. (pipe \o stdout) \o t = pipe \o (stdout \o t)
    <3>1. pipe \in Seq(L) /\ stdout \in Seq(L)
      BY <1>3
    <3>. QED  BY <3>1, Associative
  <2> HIDE DEF q
  <2>3. (Through \o (lines \o q)) \o t = Through \o (lines \o (q \o t))
    <3>1. Through \in Seq(L) /\ lines \in Seq(L)
      BY <1>2, <1>3
    <3>. QED  BY <2>1, <3>1, Longer, SMTT(60)
  <2>. QED  BY <1>2, <1>6, <1>7, <2>2, <2>3 DEF q
<1>9. PartOf(PipeRow \o t, FlattenSeq(received) \o t)
  BY <1>2, PartOfLonger DEF LossyInv
<1>. QED  BY <1>4, <1>5, <1>8, <1>9 DEF LossyInv

LEMMA LossyNetcat ==
  ASSUME NEW packets, NEW memories, NEW L, LossyInv(packets, memories, L),
         NEW lossy, Netcat(lossy)
  PROVE  LossyInv(packets, memories, L)'
<1>1. PICK k \in 1 .. Len(pipe) :
        /\ lines' = lines \o SubSeq(pipe, 1, k) \/ lines' = lines
        /\ pipe' = SubSeq(pipe, k + 1, Len(pipe))
  BY DEF Netcat
<1>2. UNCHANGED <<udp, unix, mbuf, stdout, received, counter, prevLines, died, oscs>>
  BY DEF Netcat
<1>3. /\ Through \in Seq(L) /\ PipeRow = Through \o (lines \o (pipe \o stdout))
      /\ PipeRow \in Seq(L) /\ FlattenSeq(received) \in Seq(L)
  BY LossyFacts DEF LossyInv
<1>4. lines \in Seq(L) /\ pipe \in Seq(L) /\ stdout \in Seq(L)
  BY DEF LossyInv, LossyTypes, DumpTypes
<1> DEFINE x == SubSeq(pipe, 1, k)  y == SubSeq(pipe, k + 1, Len(pipe))
<1>5. x \in Seq(L) /\ y \in Seq(L) /\ x \o y = pipe
  BY <1>4, CutInTwo
<1>6. (lines' = lines \o x \/ lines' = lines) /\ pipe' = y
  BY <1>1
<1> HIDE DEF x, y
<1>7. lines' \in Seq(L) /\ pipe' \in Seq(L)
  BY <1>4, <1>5, <1>6, ConcatProperties
<1>8. LossyTypes(packets, memories, L)'
  BY <1>2, <1>7 DEF LossyInv, LossyTypes, DumpTypes
<1>9. PipeRow' = Through \o (lines' \o (y \o stdout))
  <2>1. PipeRow' = Through' \o (lines' \o (pipe' \o stdout'))
    BY <1>8, LossyRowAfter
  <2>2. Through' = Through
    BY <1>2 DEF Through, ThroughOf
  <2>. QED  BY <1>2, <1>6, <2>1, <2>2
<1>10. CASE lines' = lines \o x
  <2>1. (lines \o x) \o (y \o stdout) = lines \o ((x \o y) \o stdout)
    <3>1. lines \in Seq(L) /\ x \in Seq(L) /\ y \in Seq(L) /\ stdout \in Seq(L)
      BY <1>4, <1>5
    <3>. QED  BY <3>1, FlowRegroups, SMTT(60)
  <2>2. PipeRow' = PipeRow
    BY <1>3, <1>5, <1>9, <1>10, <2>1
  <2>. QED  BY <1>2, <1>8, <2>2 DEF LossyInv
<1>11. CASE lines' = lines
  <2> DEFINE front == Through \o lines  rest == y \o stdout
  <2>1. front \in Seq(L) /\ rest \in Seq(L)
    BY <1>3, <1>4, <1>5, ConcatProperties
  <2>2. (x \o y) \o stdout = x \o rest
    <3>1. x \in Seq(L) /\ y \in Seq(L) /\ stdout \in Seq(L)
      BY <1>4, <1>5
    <3>. QED  BY <3>1, Associative
  <2>3. Through \o (lines \o rest) = front \o rest
    <3>1. Through \in Seq(L) /\ lines \in Seq(L)
      BY <1>3, <1>4
    <3> DEFINE r == rest
    <3>2. r \in Seq(L)
      BY <2>1
    <3> HIDE DEF r
    <3>3. (Through \o lines) \o r = Through \o (lines \o r)
      BY <3>1, <3>2, Associative
    <3>. QED  BY <3>3 DEF r
  <2>4. Through \o (lines \o (x \o rest)) = front \o (x \o rest)
    <3>1. Through \in Seq(L) /\ lines \in Seq(L) /\ x \in Seq(L)
      BY <1>3, <1>4, <1>5
    <3> DEFINE r == x \o rest
    <3>2. r \in Seq(L)
      <4> HIDE DEF rest
      <4>1. rest \in Seq(L)
        BY <2>1
      <4>. QED  BY <3>1, <4>1, ConcatProperties
    <3> HIDE DEF r
    <3>3. (Through \o lines) \o r = Through \o (lines \o r)
      BY <3>1, <3>2, Associative
    <3>. QED  BY <3>3 DEF r
  <2>5. PipeRow = front \o (x \o rest) /\ PipeRow' = front \o rest
    BY <1>3, <1>5, <1>9, <1>11, <2>2, <2>3, <2>4
  <2> HIDE DEF front, rest
  <2>6. PartOf(front \o rest, FlattenSeq(received))
    <3>1. PartOf(front \o (x \o rest), FlattenSeq(received))
      BY <2>5 DEF LossyInv
    <3>2. x \in Seq(L) /\ FlattenSeq(received) \in Seq(L)
      BY <1>3, <1>5
    <3>. QED  BY <2>1, <3>1, <3>2, PartOfWithout
  <2>. QED  BY <1>2, <1>8, <2>5, <2>6 DEF LossyInv
<1>. QED  BY <1>6, <1>10, <1>11

LEMMA LossyParse ==
  ASSUME NEW packets, NEW memories, NEW L, LossyInv(packets, memories, L), Parse
  PROVE  LossyInv(packets, memories, L)'
<1> DEFINE one == Head(lines)  all == Append(prevLines, one)  q == pipe \o stdout
           rest == Tail(lines) \o q  F == FlattenSeq(oscs)  R == FlattenSeq(received)
<1>1. /\ died = No /\ lines # <<>> /\ lines' = Tail(lines)
      /\ IF one.is = "blank"
         THEN died' = "empty list" /\ UNCHANGED <<counter, prevLines, oscs>>
         ELSE ParseLine(one)
      /\ UNCHANGED <<udp, unix, mbuf, stdout, pipe, received>>
  BY DEF Parse, ParseAll, dumpVars
<1>2. /\ received \in Seq(Seq(L)) /\ oscs \in Seq(Seq(L)) /\ prevLines \in Seq(L)
      /\ lines \in Seq(L) /\ pipe \in Seq(L) /\ stdout \in Seq(L)
  BY DEF LossyInv, LossyTypes, DumpTypes
<1>3. F \in Seq(L) /\ R \in Seq(L) /\ PipeRow = Through \o (lines \o q)
  BY LossyFacts DEF LossyInv
<1>4. q \in Seq(L)
  BY <1>2, ConcatProperties
<1>5. Through = F \o prevLines
  BY <1>1 DEF Through, ThroughOf
<1> HIDE DEF q
<1>6. /\ all \in Seq(L) /\ Tail(lines) \in Seq(L)
      /\ prevLines \o (lines \o q) = all \o rest
  <2>1. prevLines \in Seq(L) /\ lines \in Seq(L) /\ lines # <<>> /\ q \in Seq(L)
    BY <1>1, <1>2, <1>4
  <2>2. /\ Append(prevLines, Head(lines)) \in Seq(L) /\ Tail(lines) \in Seq(L)
        /\ prevLines \o (lines \o q) = Append(prevLines, Head(lines)) \o (Tail(lines) \o q)
    BY <2>1, Moved
  <2>. QED  BY <2>2
<1>7. rest \in Seq(L)
  BY <1>4, <1>6, ConcatProperties
<1> HIDE DEF all, rest, F, R, one
<1>8. PipeRow = F \o (all \o rest)
  <2>1. lines \o q \in Seq(L)
    BY <1>2, <1>4, ConcatProperties
  <2> DEFINE more == lines \o q
  <2>2. more \in Seq(L) /\ prevLines \in Seq(L) /\ F \in Seq(L)
    BY <1>2, <1>3, <2>1
  <2> HIDE DEF more
  <2>3. (F \o prevLines) \o more = F \o (prevLines \o more)
    BY <2>2, Associative
  <2>. QED  BY <1>3, <1>5, <1>6, <2>3 DEF more
<1>9. (F \o all) \o rest = F \o (all \o rest)
  BY <1>3, <1>6, <1>7, Associative, SMTT(20)
<1>10. PartOf(PipeRow, R)
  BY DEF LossyInv, R
<1>11. /\ oscs' \in Seq(Seq(L)) /\ prevLines' \in Seq(L) /\ lines' \in Seq(L)
       /\ \/ died' = No /\ Through' = F \o all
          \/ died' # No /\ Through' = F
  <2>1. F \o <<>> = F /\ <<>> \in Seq(L)
    BY <1>3, ConcatEmptySeq, EmptySeq
  <2>2. ASSUME died' # No, oscs' = oscs
        PROVE  Through' = F
    BY <2>1, <2>2 DEF Through, ThroughOf, F
  <2>3. lines' \in Seq(L)
    BY <1>1, <1>6
  <2>4. CASE one.is = "blank"
    <3>1. died' = "empty list" /\ prevLines' = prevLines /\ oscs' = oscs
      BY <1>1, <2>4
    <3>2. died' # No
      BY <3>1 DEF No
    <3>. QED  BY <1>2, <2>2, <2>3, <3>1, <3>2
  <2>5. CASE one.is # "blank"
    <3>1. ParseLine(one)
      BY <1>1, <2>5
    <3>2. CASE prevLines' = all /\ UNCHANGED <<died, oscs>>
      <4>1. Through' = F \o all
        BY <1>1, <3>2 DEF Through, ThroughOf, F
      <4>. QED  BY <1>1, <1>2, <1>6, <2>3, <3>2, <4>1
    <3>3. CASE prevLines' = <<>> /\ ParseVS(all)
      <4>1. CASE died' \in {"parserError", "unrecognisedTimetag"} /\ oscs' = oscs
        <5>1. died' # No
          BY <4>1 DEF No
        <5>. QED  BY <1>2, <2>1, <2>2, <2>3, <3>3, <4>1, <5>1
      <4>2. CASE oscs' = Append(oscs, all) /\ died' = died
        <5>1. Append(oscs, all) \in Seq(Seq(L)) /\ FlattenSeq(Append(oscs, all)) = F \o all
          <6>1. Append(oscs, all) \in Seq(Seq(L))
            BY <1>2, <1>6, AppendProperties
          <6>. QED  BY <1>2, <1>6, <6>1, FlattenProperties DEF F
        <5>2. F \o all \in Seq(L)
          BY <1>3, <1>6, ConcatProperties
        <5>3. Through' = (F \o all) \o <<>>
          BY <1>1, <3>3, <4>2, <5>1 DEF Through, ThroughOf
        <5>4. Through' = F \o all
          <6> DEFINE fa == F \o all
          <6>1. fa \in Seq(L) /\ Through' = fa \o <<>>
            BY <5>2, <5>3
          <6> HIDE DEF fa
          <6>2. Through' = fa
            BY <6>1, ConcatEmptySeq
          <6>. QED  BY <6>2 DEF fa
        <5>. QED  BY <1>1, <2>1, <2>3, <3>3, <4>2, <5>1, <5>4
      <4>. QED  BY <3>3, <4>1, <4>2 DEF ParseVS
    <3>. QED  BY <3>1, <3>2, <3>3 DEF ParseLine, all
  <2>. QED  BY <2>4, <2>5
<1>12. LossyTypes(packets, memories, L)'
  BY <1>1, <1>2, <1>11 DEF LossyInv, LossyTypes, DumpTypes
<1>13. PipeRow' = Through' \o rest
  <2>1. PipeRow' = Through' \o (lines' \o (pipe' \o stdout'))
    BY <1>12, LossyRowAfter
  <2>. QED  BY <1>1, <2>1 DEF rest, q
<1>14. PartOf(PipeRow', R)
  <2>1. CASE Through' = F \o all
    BY <1>8, <1>9, <1>10, <1>13, <2>1
  <2>2. CASE Through' = F
    <3>1. PartOf(F \o (all \o rest), R)
      BY <1>8, <1>10
    <3>2. F \in Seq(L) /\ all \in Seq(L) /\ rest \in Seq(L) /\ R \in Seq(L)
      BY <1>3, <1>6, <1>7
    <3>3. PartOf(F \o rest, R)
      BY <3>1, <3>2, PartOfWithout
    <3>. QED  BY <1>13, <2>2, <3>3
  <2>. QED  BY <1>11, <2>1, <2>2
<1>15. FlattenSeq(received') = R
  BY <1>1 DEF R
<1>. QED  BY <1>12, <1>14, <1>15 DEF LossyInv

LEMMA LossyInit ==
  ASSUME NEW packets, NEW memories, NEW L, Meant(packets, memories, L), PipeInit
  PROVE  LossyInv(packets, memories, L)
<1>1. /\ udp = <<>> /\ unix = <<>> /\ mbuf = Zeros /\ stdout = <<>> /\ pipe = <<>>
      /\ received = <<>> /\ lines = <<>> /\ prevLines = <<>> /\ died = No /\ oscs = <<>>
  BY DEF PipeInit, DumpInit, ParseInit
<1>2. Zeros \in memories
  BY DEF Meant, PrintAsMeant
<1>3. LossyTypes(packets, memories, L)
  BY <1>1, <1>2, EmptySeq DEF LossyTypes, DumpTypes
<1>4. FlattenSeq(<<>>) = <<>>
  <2>1. <<>> \in Seq(Seq(L))
    BY EmptySeq
  <2>. QED  BY <2>1, FlattenProperties
<1>5. PipeRow = <<>>
  <2>1. <<>> \o <<>> = <<>>
    OBVIOUS
  <2>. QED  BY <1>1, <1>4, <2>1 DEF PipeRow
<1>6. PartOf(<<>>, <<>>)
  <2>1. <<>> \in Seq(L)
    BY EmptySeq
  <2>. QED  BY <2>1, PartOfItself
<1>. QED  BY <1>1, <1>3, <1>4, <1>5, <1>6 DEF LossyInv

LEMMA LossyStep ==
  ASSUME NEW packets, packets = PacketsIn["lossy"], NEW memories, NEW L,
         Meant(packets, memories, L), LossyInv(packets, memories, L),
         part = "lossy", [PipeNext]_<<part, pipeVars>>
  PROVE  LossyInv(packets, memories, L)'
<1>1. CASE UNCHANGED <<part, pipeVars>>
  <2>1. UNCHANGED <<udp, unix, mbuf, stdout, pipe, received, lines, counter, prevLines, died, oscs>>
    BY <1>1 DEF pipeVars, dumpVars, parseVars
  <2>. QED  BY <2>1 DEF LossyInv, LossyTypes, DumpTypes, PipeRow
<1>2. ASSUME NEW interrupts, DumpNext(packets, interrupts), UNCHANGED parseVars
      PROVE  LossyInv(packets, memories, L)'
  <2>1. DumpTypes(packets, memories, L)
    BY DEF LossyInv, LossyTypes
  <2>2. /\ DumpTypes(packets, memories, L)'
        /\ Prints(<<>>) \/ \E p \in packets : Prints(p.text)
    BY <1>2, <2>1, DumpStep
  <2>3. PICK t \in Seq(L) : Prints(t)
    <3>1. <<>> \in Seq(L) /\ \A p \in packets : p.text \in Seq(L)
      BY EmptySeq DEF Meant
    <3>. QED  BY <2>2, <3>1
  <2>. QED  BY <1>2, <2>2, <2>3, LossyReceive
<1>3. ASSUME Netcat(TRUE)
      PROVE  LossyInv(packets, memories, L)'
  BY <1>3, LossyNetcat
<1>4. ASSUME Parse
      PROVE  LossyInv(packets, memories, L)'
  BY <1>4, LossyParse
<1>5. CASE PipeNext
  <2>1. \/ DumpNext(packets, FALSE) /\ UNCHANGED parseVars
        \/ Netcat(TRUE)
        \/ Parse
    <3>1. (part = "damaged") = FALSE /\ (part = "lossy") = TRUE /\ PacketsIn[part] = packets
      OBVIOUS
    <3>. QED  BY <1>5, <3>1 DEF PipeNext
  <2>. QED  BY <1>2, <1>3, <1>4, <2>1
<1>. QED  BY <1>1, <1>5

(* Whatever packets come that are printed as they are meant, and whichever *)
(* datagrams are lost between netcat and Oz: the lines of the packets in   *)
(* Oz, and those on their way, are lines that were printed, in their       *)
(* order, and none of them twice (main of dumpOSC.c, ParseAll of OSC.oz).  *)
THEOREM LinesInOrderTheorem ==
  ASSUME NEW memories, NEW L, Meant(PacketsIn["lossy"], memories, L)
  PROVE  PipeSpec => []LinesInOrder
<1> DEFINE Inv == part = "lossy" => LossyInv(PacketsIn["lossy"], memories, L)
<1>1. PipeInit => Inv
  BY LossyInit
<1>2. Inv /\ [PipeNext]_<<part, pipeVars>> => Inv'
  <2>1. SUFFICES ASSUME Inv, [PipeNext]_<<part, pipeVars>>, part' = "lossy"
                 PROVE  LossyInv(PacketsIn["lossy"], memories, L)'
    OBVIOUS
  <2>2. part = "lossy"
    BY <2>1 DEF PipeNext
  <2>. QED  BY <2>1, <2>2, LossyStep
<1>3. Inv => LinesInOrder
  <2>1. SUFFICES ASSUME LossyInv(PacketsIn["lossy"], memories, L)
                 PROVE  Found(PipeRow, FlattenSeq(received)) = Len(PipeRow)
    BY DEF LinesInOrder
  <2>2. PipeRow \in Seq(L) /\ FlattenSeq(received) \in Seq(L)
    BY <2>1, LossyFacts DEF LossyInv
  <2>. QED  BY <2>1, <2>2, PartIsFound DEF LossyInv
<1> HIDE DEF Inv
<1>. QED  BY <1>1, <1>2, <1>3, PTL DEF PipeSpec

ParsedBalanced == \A i \in DOMAIN oscs : Balanced(oscs[i])

\* What the parser accepts is what OscInput assumes.
LEMMA SyntaxIsBalanced ==
  ASSUME NEW L, NEW ls \in Seq(L), Syntax(ls)
  PROVE  Balanced(ls)
<1>1. ls \in Seq({ls[i] : i \in DOMAIN ls})
  OBVIOUS
<1>2. \A n \in DOMAIN ls : Depth(ls, n) >= 0 /\ Depth(ls, n) = Opened(ls, 1, n)
  BY DepthIsOpened DEF Syntax
<1>3. Depth(ls, Len(ls)) = 0 /\ Depth(ls, Len(ls)) = Opened(ls, 1, Len(ls))
  BY DepthIsOpened DEF Syntax
<1>. QED  BY <1>1, <1>2, <1>3 DEF Balanced

LEMMA BalancedStep ==
  ASSUME NEW packets, NEW memories, NEW L, LossyInv(packets, memories, L), ParsedBalanced,
         [PipeNext]_<<part, pipeVars>>
  PROVE  ParsedBalanced'
<1>1. ASSUME oscs' = oscs
      PROVE  ParsedBalanced'
  BY <1>1 DEF ParsedBalanced
<1>2. ASSUME Parse
      PROVE  ParsedBalanced'
  <2> DEFINE all == Append(prevLines, Head(lines))
  <2>1. /\ oscs \in Seq(Seq(L)) /\ prevLines \in Seq(L) /\ lines \in Seq(L) /\ lines # <<>>
    BY <1>2 DEF LossyInv, LossyTypes, Parse, ParseAll
  <2>2. all \in Seq(L)
    <3>1. Head(lines) \in L
      BY <2>1, HeadTailProperties
    <3>. QED  BY <2>1, <3>1, AppendProperties
  <2>3. oscs' = oscs \/ ParseVS(all)
    BY <1>2 DEF Parse, ParseAll, ParseLine
  <2> HIDE DEF all
  <2>4. oscs' = oscs \/ (oscs' = Append(oscs, all) /\ Syntax(all))
    BY <2>3 DEF ParseVS
  <2>5. CASE oscs' = Append(oscs, all) /\ Syntax(all)
    <3>1. Balanced(all)
      BY <2>2, <2>5, SyntaxIsBalanced
    <3>2. /\ DOMAIN oscs' = 1 .. Len(oscs) + 1 /\ oscs'[Len(oscs) + 1] = all
          /\ Len(oscs) \in Nat /\ DOMAIN oscs = 1 .. Len(oscs)
          /\ \A i \in 1 .. Len(oscs) : oscs'[i] = oscs[i]
      BY <2>1, <2>2, <2>5, AppendProperties
    <3>3. ASSUME NEW i \in DOMAIN oscs'
          PROVE  Balanced(oscs'[i])
      <4>1. CASE i = Len(oscs) + 1
        BY <3>1, <3>2, <4>1
      <4>2. CASE i # Len(oscs) + 1
        <5>1. i \in 1 .. Len(oscs)
          BY <3>2, <3>3, <4>2
        <5>. QED  BY <3>2, <5>1 DEF ParsedBalanced
      <4>. QED  BY <4>1, <4>2
    <3>. QED  BY <3>3 DEF ParsedBalanced
  <2>. QED  BY <1>1, <2>4, <2>5
<1>3. CASE Parse
  BY <1>2, <1>3
<1>4. CASE ~ Parse
  <2>1. oscs' = oscs
    BY <1>4 DEF PipeNext, pipeVars, parseVars, Netcat
  <2>. QED  BY <1>1, <2>1
<1>. QED  BY <1>3, <1>4

(* What the theorems about the responders assume of the packets on the     *)
(* stream is what the parser ensures, even where lines are lost on the     *)
(* way: every bracket of a packet is opened and closed in it (ParseVS of   *)
(* OSC.oz, the grammar of OSC_Parser.oz).                                  *)
THEOREM ParsedIsBalanced ==
  ASSUME NEW memories, NEW L, Meant(PacketsIn["lossy"], memories, L)
  PROVE  PipeSpec => [](part = "lossy" => ParsedBalanced)
<1> DEFINE Inv == part = "lossy" => LossyInv(PacketsIn["lossy"], memories, L) /\ ParsedBalanced
<1>1. PipeInit => Inv
  <2>1. PipeInit => ParsedBalanced
    BY DEF PipeInit, ParseInit, ParsedBalanced
  <2>. QED  BY <2>1, LossyInit
<1>2. Inv /\ [PipeNext]_<<part, pipeVars>> => Inv'
  <2>1. SUFFICES ASSUME Inv, [PipeNext]_<<part, pipeVars>>, part' = "lossy"
                 PROVE  (LossyInv(PacketsIn["lossy"], memories, L) /\ ParsedBalanced)'
    OBVIOUS
  <2>2. part = "lossy"
    BY <2>1 DEF PipeNext
  <2>. QED  BY <2>1, <2>2, LossyStep, BalancedStep
<1>3. Inv => (part = "lossy" => ParsedBalanced)
  OBVIOUS
<1> HIDE DEF Inv
<1>. QED  BY <1>1, <1>2, <1>3, PTL DEF PipeSpec

-----------------------------------------------------------------------------
(* Time tags (OscOzTime).                                                  *)

(* Integers of which the first is a and each next one made of the one      *)
(* before it, as F says: there are such.                                   *)
Steps(g, n, a, F) ==
    /\ g \in [0 .. n -> Int] /\ g[0] = a
    /\ \A i \in 1 .. n : g[i] = F[i][g[i - 1]]

LEMMA StepsExist ==
  ASSUME NEW n \in Nat, NEW a \in Int, NEW F \in [1 .. n -> [Int -> Int]]
  PROVE  \E g : Steps(g, n, a, F)
<1> DEFINE Upto(k, g) == /\ g \in [0 .. k -> Int] /\ g[0] = a
                         /\ \A i \in 1 .. k : g[i] = F[i][g[i - 1]]
           defined == {k \in 0 .. n : \E g : Upto(k, g)}
<1>1. 0 \in defined
  <2>1. Upto(0, [i \in 0 .. 0 |-> a])
    OBVIOUS
  <2> HIDE DEF Upto
  <2>. QED  BY <2>1
<1>2. ASSUME NEW k \in 1 .. n, k - 1 \in defined
      PROVE  k \in defined
  <2>1. PICK g : Upto(k - 1, g)
    BY <1>2
  <2> DEFINE h == [i \in 0 .. k |-> IF i = k THEN F[k][g[k - 1]] ELSE g[i]]
  <2>2. g[k - 1] \in Int /\ F[k][g[k - 1]] \in Int
    BY <2>1
  <2>3. \A i \in 0 .. k : i # k => i \in 0 .. k - 1
    OBVIOUS
  <2>4. h \in [0 .. k -> Int]
    BY <2>1, <2>2, <2>3
  <2>5. h[0] = a
    BY <2>1
  <2>6. ASSUME NEW i \in 1 .. k
        PROVE  h[i] = F[i][h[i - 1]]
    <3>1. i - 1 \in 0 .. k /\ i \in 0 .. k /\ i - 1 # k /\ (i # k => i \in 1 .. k - 1)
      OBVIOUS
    <3>2. h[i - 1] = g[i - 1]
      BY <3>1
    <3>. QED  BY <2>1, <3>1, <3>2
  <2>7. Upto(k, h)
    BY <2>4, <2>5, <2>6
  <2> HIDE DEF Upto, h
  <2>. QED  BY <2>7
<1> HIDE DEF defined
<1>3. n \in defined
  <2>1. \A k \in 0 .. n : k \in defined
    BY <1>1, <1>2, Upwards
  <2>. QED  BY <2>1
<1>. QED  BY <1>3 DEF defined, Steps

\* The powers of 16.
LEMMA Powers ==
  ASSUME OzTimeAssumption
  PROVE  /\ Power[0] = 1
         /\ \A i \in 1 .. SecondDigits : Power[i] = 16 * Power[i - 1]
         /\ \A i \in 0 .. SecondDigits : Power[i] \in Nat \ {0}
<1> DEFINE n == SecondDigits
           F == [i \in 1 .. n |-> [v \in Int |-> 16 * v]]
           Is(g) == g = [i \in 0 .. n |-> IF i = 0 THEN 1 ELSE 16 * g[i - 1]]
<1>1. /\ n \in Nat /\ 1 \in Int /\ F \in [1 .. n -> [Int -> Int]]
      /\ \A i \in 1 .. n, v \in Int : F[i][v] = 16 * v
  BY DEF OzTimeAssumption
<1> HIDE DEF F, n
<1>2. PICK g : Steps(g, n, 1, F)
  BY <1>1, StepsExist
<1>3. \A i \in 0 .. n : g[i] = IF i = 0 THEN 1 ELSE 16 * g[i - 1]
  <2>1. g \in [0 .. n -> Int] /\ g[0] = 1 /\ \A i \in 1 .. n : g[i] = F[i][g[i - 1]]
    BY <1>2 DEF Steps
  <2>2. ASSUME NEW i \in 1 .. n
        PROVE  g[i] = 16 * g[i - 1]
    <3>1. i - 1 \in 0 .. n
      BY <1>1
    <3>2. g[i - 1] \in Int
      BY <2>1, <3>1
    <3>3. F[i][g[i - 1]] = 16 * g[i - 1]
      BY <1>1, <3>2
    <3>. QED  BY <2>1, <3>3
  <2>. QED  BY <1>1, <2>1, <2>2
<1>4. Is(g)
  <2>1. g = [i \in 0 .. n |-> g[i]]
    BY <1>2 DEF Steps
  <2>. QED  BY <1>3, <2>1
<1> HIDE DEF Is
<1>5. Is(Power)
  <2>1. Is(CHOOSE h : Is(h))
    BY <1>4
  <2>. QED  BY <2>1 DEF Power, Is, n
<1>6. Power[0] = 1 /\ \A i \in 1 .. n : Power[i] = 16 * Power[i - 1]
  <2>1. \A i \in 0 .. n : Power[i] = IF i = 0 THEN 1 ELSE 16 * Power[i - 1]
    BY <1>5 DEF Is
  <2>. QED  BY <1>1, <2>1
<1> DEFINE positive == {k \in 0 .. n : Power[k] \in Nat \ {0}}
<1>7. 0 \in positive
  BY <1>1, <1>6
<1>7a. ASSUME NEW k \in 1 .. n, k - 1 \in positive
      PROVE  k \in positive
  <2>1. Power[k - 1] \in Nat \ {0} /\ k \in 0 .. n
    BY <1>1, <1>7a
  <2>2. Power[k] = 16 * Power[k - 1]
    BY <1>6
  <2>3. Power[k] \in Nat \ {0}
    BY <2>1, <2>2
  <2>. QED  BY <2>1, <2>3
<1> HIDE DEF positive
<1>8. \A k \in 0 .. n : k \in positive
  BY <1>1, <1>7, <1>7a, Upwards
<1>. QED  BY <1>1, <1>6, <1>8 DEF positive, n

LEMMA PowersGrow ==
  ASSUME OzTimeAssumption, NEW m \in 0 .. SecondDigits - 1
  PROVE  Power[m] <= Power[SecondDigits - 1]
<1> DEFINE n == SecondDigits - 1
           fine == {k \in 0 .. n : Power[n - k] <= Power[n]}
<1>1. n \in Nat /\ SecondDigits = n + 1
  BY DEF OzTimeAssumption
<1> HIDE DEF n
<1>2. /\ \A i \in 1 .. n : Power[i] = 16 * Power[i - 1]
      /\ \A i \in 0 .. n : Power[i] \in Nat \ {0}
  BY <1>1, Powers
<1>3. 0 \in fine
  BY <1>1, <1>2
<1>4. ASSUME NEW k \in 1 .. n, k - 1 \in fine
      PROVE  k \in fine
  <2>1. n - (k - 1) \in 1 .. n /\ n - k \in 0 .. n /\ (n - (k - 1)) - 1 = n - k
    BY <1>1
  <2>2. Power[n - (k - 1)] = 16 * Power[n - k] /\ Power[n - k] \in Nat /\ Power[n] \in Nat
    BY <1>1, <1>2, <2>1
  <2>3. Power[n - (k - 1)] <= Power[n]
    BY <1>4
  <2>4. Power[n - k] <= Power[n]
    BY <2>2, <2>3
  <2>. QED  BY <2>4
<1> HIDE DEF fine
<1>5. \A k \in 0 .. n : k \in fine
  BY <1>1, <1>3, <1>4, Upwards
<1>6. n - m \in 0 .. n /\ n - (n - m) = m
  BY <1>1
<1>. QED  BY <1>5, <1>6 DEF fine, n

\* What is left of x when it is divided by 16 again and again.
Quotients(q, x) ==
    /\ q \in [0 .. SecondDigits -> Nat]
    /\ q[0] = x
    /\ \A i \in 1 .. SecondDigits : q[i] = q[i - 1] \div 16

LEMMA QuotientsLast ==
  ASSUME OzTimeAssumption, NEW x \in Nat, NEW q, Quotients(q, x),
         Power[SecondDigits - 1] <= x, x < Power[SecondDigits]
  PROVE  \A i \in 1 .. SecondDigits : q[i] = 0 <=> i = SecondDigits
<1> DEFINE n == SecondDigits
           fine == {m \in 0 .. n : \A j \in 0 .. n - m : q[m] >= Power[j] <=> x >= Power[j + m]}
<1>1. n \in Nat \ {0}
  BY DEF OzTimeAssumption
<1>2. /\ q \in [0 .. n -> Nat] /\ q[0] = x
      /\ \A i \in 1 .. n : q[i] = q[i - 1] \div 16
  BY DEF Quotients
<1>3. /\ Power[0] = 1
      /\ \A i \in 1 .. n : Power[i] = 16 * Power[i - 1]
      /\ \A i \in 0 .. n : Power[i] \in Nat \ {0}
  BY Powers
<1>4. \A k \in 0 .. n - 1 : Power[k] <= x
  <2>1. ASSUME NEW k \in 0 .. n - 1
        PROVE  Power[k] <= x
    <3>1. Power[k] <= Power[n - 1]
      BY PowersGrow
    <3>2. Power[k] \in Nat /\ Power[n - 1] \in Nat
      BY <1>1, <1>3
    <3>. QED  BY <3>1, <3>2
  <2>. QED  BY <2>1
<1>5. x < Power[n]
  OBVIOUS
<1> HIDE DEF n
<1>6. 0 \in fine
  BY <1>1, <1>2
<1>7. ASSUME NEW m \in 1 .. n, m - 1 \in fine
      PROVE  m \in fine
  <2>1. ASSUME NEW j \in 0 .. n - m
        PROVE  q[m] >= Power[j] <=> x >= Power[j + m]
    <3>1. j + 1 \in 0 .. n - (m - 1) /\ j + 1 \in 1 .. n /\ j \in 0 .. n /\ (j + 1) + (m - 1) = j + m
      BY <1>1
    <3>2. q[m - 1] >= Power[j + 1] <=> x >= Power[j + m]
      BY <1>7, <3>1
    <3>3. Power[j + 1] = 16 * Power[j] /\ Power[j] \in Nat
      BY <1>3, <3>1
    <3>4. q[m] = q[m - 1] \div 16 /\ q[m - 1] \in Nat
      BY <1>1, <1>2
    <3>5. q[m] >= Power[j] <=> q[m - 1] >= 16 * Power[j]
      BY <3>3, <3>4
    <3>. QED  BY <3>2, <3>3, <3>5
  <2>. QED  BY <2>1
<1> HIDE DEF fine
<1>8. \A m \in 0 .. n : m \in fine
  BY <1>1, <1>6, <1>7, Upwards
<1>9. ASSUME NEW i \in 1 .. n
      PROVE  q[i] = 0 <=> i = n
  <2>1. q[i] >= Power[0] <=> x >= Power[i]
    <3>1. i \in fine /\ 0 \in 0 .. n - i /\ 0 + i = i
      BY <1>1, <1>8
    <3>. QED  BY <3>1 DEF fine
  <2>2. q[i] \in Nat /\ Power[i] \in Nat /\ Power[0] = 1 /\ Power[n] \in Nat
    BY <1>1, <1>2, <1>3
  <2>3. i # n => Power[i] <= x
    BY <1>1, <1>4
  <2>. QED  BY <1>5, <2>1, <2>2, <2>3
<1>. QED  BY <1>9 DEF n

\* The digits of the seconds are the remainders, from the last one to the first.
LEMMA SecondsInHex ==
  ASSUME OzTimeAssumption, NEW x \in Nat,
         Power[SecondDigits - 1] <= x, x < Power[SecondDigits]
  PROVE  \E q : /\ Quotients(q, x) /\ q[SecondDigits] = 0
                /\ DecimalToHex_Int(x) = [i \in 1 .. SecondDigits |-> q[SecondDigits - i] % 16]
<1> DEFINE n == SecondDigits
           F == [i \in 1 .. n |-> [v \in Int |-> v \div 16]]
           Is(g) == g = [i \in 0 .. n |-> IF i = 0 THEN x ELSE g[i - 1] \div 16]
           Q == CHOOSE g : Is(g)
           K == CHOOSE k \in 1 .. n : Q[k] = 0 /\ \A m \in 1 .. k - 1 : Q[m] # 0
<1>1. DecimalToHex_Int(x) = [i \in 1 .. K |-> Q[K - i] % 16]
  BY DEF DecimalToHex_Int
<1>2. n \in Nat \ {0} /\ x \in Int
  BY DEF OzTimeAssumption
<1>2a. F \in [1 .. n -> [Int -> Int]] /\ \A i \in 1 .. n, v \in Int : F[i][v] = v \div 16
  OBVIOUS
<1> HIDE DEF F
<1>3. PICK g : Steps(g, n, x, F)
  BY <1>2, <1>2a, StepsExist
<1>4. Is(g)
  <2>1. /\ g \in [0 .. n -> Int] /\ g[0] = x
        /\ \A i \in 1 .. n : g[i] = F[i][g[i - 1]]
    BY <1>3 DEF Steps
  <2>2. ASSUME NEW i \in 1 .. n
        PROVE  g[i] = g[i - 1] \div 16
    <3>1. g[i - 1] \in Int
      BY <1>2, <2>1
    <3>2. F[i][g[i - 1]] = g[i - 1] \div 16
      BY <1>2a, <3>1
    <3>. QED  BY <2>1, <3>2
  <2>3. \A i \in 0 .. n : g[i] = IF i = 0 THEN x ELSE g[i - 1] \div 16
    BY <1>2, <2>1, <2>2
  <2>4. g = [i \in 0 .. n |-> g[i]]
    BY <2>1
  <2>. QED  BY <2>3, <2>4
<1> HIDE DEF Is
<1>5. Is(Q)
  BY <1>4
<1> HIDE DEF Q
<1>6. Quotients(Q, x)
  <2>1. Q = [i \in 0 .. n |-> IF i = 0 THEN x ELSE Q[i - 1] \div 16]
    BY <1>5 DEF Is
  <2>2. Q[0] = x /\ \A i \in 1 .. n : Q[i] = Q[i - 1] \div 16
    <3>1. \A i \in 0 .. n : Q[i] = IF i = 0 THEN x ELSE Q[i - 1] \div 16
      BY <2>1
    <3>. QED  BY <1>2, <3>1
  <2> DEFINE typed == {k \in 0 .. n : Q[k] \in Nat}
  <2>3. 0 \in typed
    BY <1>2, <2>2
  <2>4. ASSUME NEW k \in 1 .. n, k - 1 \in typed
        PROVE  k \in typed
    <3>1. Q[k - 1] \in Nat /\ k \in 0 .. n
      BY <1>2, <2>4
    <3>2. Q[k] = Q[k - 1] \div 16
      BY <2>2
    <3>3. Q[k] \in Nat
      BY <3>1, <3>2
    <3>. QED  BY <3>1, <3>3
  <2> HIDE DEF typed
  <2>5. \A k \in 0 .. n : k \in typed
    BY <1>2, <2>3, <2>4, Upwards
  <2>6. \A k \in 0 .. n : Q[k] \in Nat
    BY <2>5 DEF typed
  <2>7. Q = [i \in 0 .. n |-> Q[i]]
    BY <2>1
  <2>8. Q \in [0 .. n -> Nat]
    BY <2>6, <2>7
  <2>. QED  BY <2>2, <2>8 DEF Quotients
<1>7. \A i \in 1 .. n : Q[i] = 0 <=> i = n
  BY <1>6, QuotientsLast
<1>8. K = n
  <2>1. n \in 1 .. n /\ Q[n] = 0 /\ \A m \in 1 .. n - 1 : Q[m] # 0
    BY <1>2, <1>7
  <2>2. K \in 1 .. n /\ Q[K] = 0
    BY <2>1
  <2>. QED  BY <1>7, <2>2
<1> HIDE DEF K
<1>9. Q[n] = 0
  BY <1>2, <1>7
<1>. QED  BY <1>1, <1>6, <1>8, <1>9

\* What is left of x behind the point.
Remainders(r, x) ==
    /\ r \in [0 .. 8 -> 0 .. 999]
    /\ r[0] = x
    /\ \A i \in 1 .. 8 : r[i] = (r[i - 1] * 16) % 1000

\* The digits with zeros on the right, and that these are all the digits there are.
Padded(digits) == digits \o [i \in 1 .. 8 - Len(digits) |-> 0]
Expands(digits, x) ==
    /\ Len(digits) \in 1 .. 8 /\ digits \in Seq(Nat)
    /\ \E r : /\ Remainders(r, x)
              /\ Padded(digits) = [i \in 1 .. 8 |-> (r[i - 1] * 16) \div 1000]

LEMMA FractionInHex ==
  ASSUME NEW x \in 0 .. 999
  PROVE  Expands(DecimalToHex_Frac(x), x)
<1> DEFINE F == [i \in 1 .. 8 |-> [v \in Int |-> (v * 16) % 1000]]
           Is(g) == g = [i \in 0 .. 8 |-> IF i = 0 THEN x ELSE (g[i - 1] * 16) % 1000]
           R == CHOOSE g : Is(g)
           Ends(k) == (R[k] = 0 \/ k = 8) /\ \A m \in 1 .. k - 1 : R[m] # 0
           K == CHOOSE k \in 1 .. 8 : Ends(k)
           fraction == [i \in 1 .. K |-> (R[i - 1] * 16) \div 1000]
<1>1. DecimalToHex_Frac(x) = fraction
  BY DEF DecimalToHex_Frac
<1>2. F \in [1 .. 8 -> [Int -> Int]]
  OBVIOUS
<1>2a. \A i \in 1 .. 8, v \in Int : F[i][v] = (v * 16) % 1000
  OBVIOUS
<1> HIDE DEF F
<1>3. PICK g : Steps(g, 8, x, F)
  <2>1. 8 \in Nat /\ x \in Int
    OBVIOUS
  <2>. QED  BY <1>2, <2>1, StepsExist
<1>4. Is(g)
  <2>1. /\ g \in [0 .. 8 -> Int] /\ g[0] = x
        /\ \A i \in 1 .. 8 : g[i] = F[i][g[i - 1]]
    BY <1>3 DEF Steps
  <2>2. ASSUME NEW i \in 1 .. 8
        PROVE  g[i] = (g[i - 1] * 16) % 1000
    <3>1. g[i - 1] \in Int
      BY <2>1
    <3> DEFINE v == g[i - 1]
    <3>1a. v \in Int
      BY <3>1
    <3> HIDE DEF v
    <3>2. F[i][v] = (v * 16) % 1000
      BY <1>2a, <3>1a
    <3>. QED  BY <2>1, <3>2 DEF v
  <2>3. \A i \in 0 .. 8 : g[i] = IF i = 0 THEN x ELSE (g[i - 1] * 16) % 1000
    BY <2>1, <2>2
  <2>4. g = [i \in 0 .. 8 |-> g[i]]
    BY <2>1
  <2>. QED  BY <2>3, <2>4
<1> HIDE DEF Is
<1>5. Is(R)
  BY <1>4
<1> HIDE DEF R
<1>6. Remainders(R, x)
  <2>1. R = [i \in 0 .. 8 |-> IF i = 0 THEN x ELSE (R[i - 1] * 16) % 1000]
    BY <1>5 DEF Is
  <2>2. R[0] = x /\ \A i \in 1 .. 8 : R[i] = (R[i - 1] * 16) % 1000
    <3>1. \A i \in 0 .. 8 : R[i] = IF i = 0 THEN x ELSE (R[i - 1] * 16) % 1000
      BY <2>1
    <3>. QED  BY <3>1
  <2> DEFINE typed == {k \in 0 .. 8 : R[k] \in 0 .. 999}
  <2>3. 0 \in typed
    BY <2>2
  <2>4. ASSUME NEW k \in 1 .. 8, k - 1 \in typed
        PROVE  k \in typed
    <3>1. R[k - 1] \in 0 .. 999 /\ k \in 0 .. 8
      BY <2>4
    <3>2. R[k] = (R[k - 1] * 16) % 1000
      BY <2>2
    <3>3. R[k] \in 0 .. 999
      BY <3>1, <3>2
    <3>. QED  BY <3>1, <3>3
  <2> HIDE DEF typed
  <2>5. \A k \in 0 .. 8 : k \in typed
    BY <2>3, <2>4, Upwards
  <2>6. \A k \in 0 .. 8 : R[k] \in 0 .. 999
    BY <2>5 DEF typed
  <2>7. R = [i \in 0 .. 8 |-> R[i]]
    BY <2>1
  <2>8. R \in [0 .. 8 -> 0 .. 999]
    BY <2>6, <2>7
  <2>. QED  BY <2>2, <2>8 DEF Remainders
<1>7. /\ \A i \in 0 .. 8 : R[i] \in 0 .. 999
      /\ \A i \in 1 .. 8 : R[i] = (R[i - 1] * 16) % 1000
  BY <1>6 DEF Remainders
<1>8. \E k \in 1 .. 8 : Ends(k)
  <2> DEFINE no == {k \in 0 .. 7 : \A m \in 1 .. k : R[m] # 0}
  <2>1. SUFFICES ASSUME \A k \in 1 .. 8 : ~ Ends(k)
                 PROVE  FALSE
    OBVIOUS
  <2>2. 0 \in no
    OBVIOUS
  <2>3. ASSUME NEW k \in 1 .. 7, k - 1 \in no
        PROVE  k \in no
    <3>1. \A m \in 1 .. k - 1 : R[m] # 0
      BY <2>3
    <3>2. R[k] # 0
      BY <2>1, <3>1
    <3>. QED  BY <3>1, <3>2
  <2> HIDE DEF no
  <2>4. \A k \in 0 .. 7 : k \in no
    BY <2>2, <2>3, Upwards
  <2>5. \A m \in 1 .. 7 : R[m] # 0
    BY <2>4 DEF no
  <2>. QED  BY <2>1, <2>5
<1>9. K \in 1 .. 8 /\ (R[K] = 0 \/ K = 8)
  BY <1>8
<1> HIDE DEF K
<1>10. /\ fraction \in Seq(Nat) /\ Len(fraction) = K
       /\ \A i \in 1 .. K : fraction[i] = (R[i - 1] * 16) \div 1000
  <2>1. ASSUME NEW i \in 1 .. K
        PROVE  (R[i - 1] * 16) \div 1000 \in Nat
    <3>1. i - 1 \in 0 .. 8
      BY <1>9
    <3>2. R[i - 1] \in 0 .. 999
      BY <1>7, <3>1
    <3>. QED  BY <3>2
  <2>2. fraction \in [1 .. K -> Nat] /\ K \in Nat
    BY <1>9, <2>1
  <2>. QED  BY <2>2
<1>11. ASSUME NEW i \in 1 .. 8, i > K
       PROVE  (R[i - 1] * 16) \div 1000 = 0
  <2> DEFINE zero == {k \in 0 .. 8 : k >= K => R[k] = 0}
  <2>1. R[K] = 0
    BY <1>9, <1>11
  <2>2. 0 \in zero
    BY <1>9
  <2>3. ASSUME NEW k \in 1 .. 8, k - 1 \in zero
        PROVE  k \in zero
    <3>1. CASE k - 1 >= K
      <4>1. R[k - 1] = 0
        BY <2>3, <3>1
      <4>2. R[k] = (R[k - 1] * 16) % 1000
        BY <1>7
      <4>3. R[k] = 0
        BY <4>1, <4>2
      <4>. QED  BY <4>3
    <3>2. CASE k = K
      BY <2>1, <3>2
    <3>3. CASE k < K
      BY <1>9, <3>3
    <3>. QED  BY <1>9, <3>1, <3>2, <3>3
  <2> HIDE DEF zero
  <2>4. \A k \in 0 .. 8 : k \in zero
    BY <2>2, <2>3, Upwards
  <2>5. i - 1 \in 0 .. 8 /\ i - 1 >= K
    BY <1>9, <1>11
  <2>6. R[i - 1] = 0
    BY <2>4, <2>5 DEF zero
  <2>. QED  BY <2>6
<1> HIDE DEF fraction
<1>12. Padded(fraction) = [i \in 1 .. 8 |-> (R[i - 1] * 16) \div 1000]
  <2> DEFINE zeros == [i \in 1 .. 8 - K |-> 0]
             whole == [i \in 1 .. 8 |-> (R[i - 1] * 16) \div 1000]
  <2>1. zeros \in Seq(Nat) /\ Len(zeros) = 8 - K /\ \A i \in 1 .. 8 - K : zeros[i] = 0
    <3>1. zeros \in [1 .. 8 - K -> Nat] /\ 8 - K \in Nat
      BY <1>9
    <3>. QED  BY <3>1
  <2> HIDE DEF zeros
  <2>2. /\ fraction \o zeros \in Seq(Nat) /\ Len(fraction \o zeros) = 8
        /\ \A i \in 1 .. 8 : (fraction \o zeros)[i] =
              IF i <= K THEN fraction[i] ELSE zeros[i - K]
    <3>1. /\ fraction \o zeros \in Seq(Nat)
          /\ Len(fraction \o zeros) = Len(fraction) + Len(zeros)
          /\ \A i \in 1 .. Len(fraction) + Len(zeros) : (fraction \o zeros)[i] =
                IF i <= Len(fraction) THEN fraction[i] ELSE zeros[i - Len(fraction)]
      BY <1>10, <2>1, ConcatProperties
    <3>2. Len(fraction) + Len(zeros) = 8 /\ Len(fraction) = K
      BY <1>9, <1>10, <2>1
    <3>. QED  BY <3>1, <3>2
  <2>3. ASSUME NEW i \in 1 .. 8
        PROVE  (fraction \o zeros)[i] = whole[i]
    <3>1. CASE i <= K
      <4>1. fraction[i] = (R[i - 1] * 16) \div 1000
        BY <1>9, <1>10, <3>1
      <4>. QED  BY <2>2, <3>1, <4>1
    <3>2. CASE i > K
      <4>1. i - K \in 1 .. 8 - K /\ ~ (i <= K)
        BY <1>9, <3>2
      <4>2. zeros[i - K] = 0
        BY <2>1, <4>1
      <4>3. (fraction \o zeros)[i] = 0
        BY <2>2, <4>1, <4>2
      <4>. QED  BY <1>11, <3>2, <4>3
    <3>3. i <= K \/ i > K
      BY <1>9
    <3>. QED  BY <3>1, <3>2, <3>3
  <2>4. fraction \o zeros = [i \in 1 .. 8 |-> (fraction \o zeros)[i]]
    <3> DEFINE all == fraction \o zeros
    <3>1. all \in Seq(Nat) /\ Len(all) = 8
      BY <2>2
    <3> HIDE DEF all
    <3>2. all = [i \in 1 .. 8 |-> all[i]]
      BY <3>1
    <3>. QED  BY <3>2 DEF all
  <2>5. fraction \o zeros = whole
    BY <2>3, <2>4, SMTT(20)
  <2>. QED  BY <1>10, <2>5 DEF zeros, Padded
<1>13. Len(fraction) \in 1 .. 8 /\ fraction \in Seq(Nat)
  BY <1>9, <1>10
<1>. QED  BY <1>1, <1>6, <1>12, <1>13 DEF Expands

LEMMA DivMod16 == \A v \in Int : v = 16 * (v \div 16) + (v % 16)
OBVIOUS

\* The seconds are read back: the sum of the first digits is what is left behind them.
LEMMA SecondsBack ==
  ASSUME OzTimeAssumption, NEW x \in Nat, NEW q, Quotients(q, x), q[SecondDigits] = 0,
         NEW chars,
         \A i \in 1 .. SecondDigits : HexCharToInt(chars[i]) = q[SecondDigits - i] % 16
  PROVE  Seconds(chars) = x
<1> DEFINE n == SecondDigits
           e == [i \in 1 .. n |-> q[n - i] % 16]
           F == [i \in 1 .. n |-> [v \in Int |-> 16 * v + e[i]]]
           Is(g) == g = [i \in 0 .. n |-> IF i = 0 THEN 0
                                          ELSE 16 * g[i - 1] + HexCharToInt(chars[i])]
           S == CHOOSE g : Is(g)
<1>1. Seconds(chars) = S[n]
  BY DEF Seconds
<1>2. n \in Nat \ {0} /\ 0 \in Int
  BY DEF OzTimeAssumption
<1>3. /\ q \in [0 .. n -> Nat] /\ q[0] = x /\ q[n] = 0
      /\ \A i \in 1 .. n : q[i] = q[i - 1] \div 16
  BY DEF Quotients
<1>4. \A i \in 1 .. n : q[n - i] \in Nat /\ q[n - i] % 16 \in Int
  <2>1. ASSUME NEW i \in 1 .. n
        PROVE  q[n - i] \in Nat /\ q[n - i] % 16 \in Int
    <3>1. n - i \in 0 .. n
      BY <1>2
    <3>2. q[n - i] \in Nat
      BY <1>3, <3>1
    <3>. QED  BY <3>2
  <2>. QED  BY <2>1
<1>4a. \A i \in 1 .. n : e[i] = q[n - i] % 16 /\ e[i] \in Int
  BY <1>4
<1>7. \A i \in 1 .. n : HexCharToInt(chars[i]) = e[i]
  OBVIOUS
<1> HIDE DEF e
<1>5. F \in [1 .. n -> [Int -> Int]]
  BY <1>4a
<1>6. \A i \in 1 .. n, v \in Int : F[i][v] = 16 * v + e[i]
  OBVIOUS
<1> HIDE DEF F
<1>8. PICK g : Steps(g, n, 0, F)
  BY <1>2, <1>5, StepsExist
<1>9. Is(g)
  <2>1. /\ g \in [0 .. n -> Int] /\ g[0] = 0
        /\ \A i \in 1 .. n : g[i] = F[i][g[i - 1]]
    BY <1>8 DEF Steps
  <2>2. ASSUME NEW i \in 1 .. n
        PROVE  g[i] = 16 * g[i - 1] + HexCharToInt(chars[i])
    <3> DEFINE v == g[i - 1]
    <3>1. v \in Int
      BY <1>2, <2>1
    <3>2. g[i] = F[i][v]
      BY <2>1
    <3> HIDE DEF v
    <3>3. F[i][v] = 16 * v + e[i]
      BY <1>6, <3>1
    <3>4. g[i] = 16 * v + e[i] /\ HexCharToInt(chars[i]) = e[i]
      BY <1>7, <3>2, <3>3
    <3>. QED  BY <3>4 DEF v
  <2>3. \A i \in 0 .. n : g[i] = IF i = 0 THEN 0 ELSE 16 * g[i - 1] + HexCharToInt(chars[i])
    <3>1. ASSUME NEW i \in 0 .. n, i # 0
          PROVE  i \in 1 .. n
      BY <1>2, <3>1
    <3>. QED  BY <2>1, <2>2, <3>1
  <2>4. g = [i \in 0 .. n |-> g[i]]
    BY <2>1
  <2>. QED  BY <2>3, <2>4
<1> HIDE DEF Is
<1>10. Is(S)
  BY <1>9
<1> HIDE DEF S
<1>11. S[0] = 0 /\ \A i \in 1 .. n : S[i] = 16 * S[i - 1] + e[i]
  <2>1. \A i \in 0 .. n : S[i] = IF i = 0 THEN 0 ELSE 16 * S[i - 1] + HexCharToInt(chars[i])
    BY <1>10 DEF Is
  <2>2. S[0] = 0
    BY <1>2, <2>1
  <2>3. \A i \in 1 .. n : S[i] = 16 * S[i - 1] + HexCharToInt(chars[i])
    BY <1>2, <2>1
  <2>4. ASSUME NEW i \in 1 .. n
        PROVE  S[i] = 16 * S[i - 1] + e[i]
    <3>1. S[i] = 16 * S[i - 1] + HexCharToInt(chars[i])
      BY <2>3
    <3>2. HexCharToInt(chars[i]) = e[i]
      BY <1>7
    <3>. QED  BY <3>1, <3>2
  <2>. QED  BY <2>2, <2>4
<1> DEFINE back == {i \in 0 .. n : S[i] = q[n - i]}
<1>12. 0 \in back
  BY <1>2, <1>3, <1>11
<1>13. ASSUME NEW i \in 1 .. n, i - 1 \in back
       PROVE  i \in back
  <2>1. S[i - 1] = q[n - (i - 1)]
    BY <1>13
  <2>2. n - (i - 1) \in 1 .. n /\ (n - (i - 1)) - 1 = n - i
    BY <1>2
  <2>3. q[n - (i - 1)] = q[n - i] \div 16
    BY <1>3, <2>2
  <2>4. S[i] = 16 * (q[n - i] \div 16) + e[i]
    BY <1>11, <2>1, <2>3
  <2> DEFINE v == q[n - i]
  <2>5. v \in Int /\ e[i] = v % 16
    BY <1>4, <1>4a
  <2> HIDE DEF v
  <2>6. v = 16 * (v \div 16) + (v % 16)
    BY <2>5, DivMod16
  <2>7. S[i] = q[n - i] /\ i \in 0 .. n
    BY <1>2, <2>4, <2>5, <2>6 DEF v
  <2>. QED  BY <2>7
<1> HIDE DEF back
<1>14. \A i \in 0 .. n : i \in back
  BY <1>2, <1>12, <1>13, Upwards
<1>15. n \in back /\ n - n = 0
  BY <1>2, <1>14
<1>16. S[n] = q[0]
  BY <1>15 DEF back
<1>. QED  BY <1>1, <1>3, <1>16

\* What a sum of four digits is.
LEMMA MillionthsIs ==
  ASSUME NEW chars, \A i \in 1 .. 4 : HexCharToInt(chars[SecondDigits + i]) \in Int
  PROVE  Millionths(chars) = HexCharToInt(chars[SecondDigits + 1]) * 62500
                             + HexCharToInt(chars[SecondDigits + 2]) * 3906
                             + HexCharToInt(chars[SecondDigits + 3]) * 244
                             + HexCharToInt(chars[SecondDigits + 4]) * 15
<1> DEFINE D(i) == HexCharToInt(chars[SecondDigits + i])
           Is(g) == g = [i \in 0 .. 4 |-> IF i = 0 THEN 0 ELSE g[i - 1] + D(i) * Factors[i]]
           S == CHOOSE g : Is(g)
           h == [i \in 0 .. 4 |->
                   IF i = 0 THEN 0
                   ELSE IF i = 1 THEN D(1) * 62500
                   ELSE IF i = 2 THEN D(1) * 62500 + D(2) * 3906
                   ELSE IF i = 3 THEN D(1) * 62500 + D(2) * 3906 + D(3) * 244
                   ELSE D(1) * 62500 + D(2) * 3906 + D(3) * 244 + D(4) * 15]
<1>1. Millionths(chars) = S[4]
  BY DEF Millionths
<1>2. D(1) \in Int /\ D(2) \in Int /\ D(3) \in Int /\ D(4) \in Int
  OBVIOUS
<1>3. Factors[1] = 62500 /\ Factors[2] = 3906 /\ Factors[3] = 244 /\ Factors[4] = 15
  BY DEF Factors
<1> HIDE DEF D
<1>4. Is(h)
  <2>1. /\ h[0] = 0 /\ h[1] = D(1) * 62500 /\ h[2] = D(1) * 62500 + D(2) * 3906
        /\ h[3] = D(1) * 62500 + D(2) * 3906 + D(3) * 244
        /\ h[4] = D(1) * 62500 + D(2) * 3906 + D(3) * 244 + D(4) * 15
        /\ h = [i \in 0 .. 4 |-> h[i]]
    OBVIOUS
  <2> HIDE DEF h
  <2>2. ASSUME NEW i \in 0 .. 4
        PROVE  h[i] = IF i = 0 THEN 0 ELSE h[i - 1] + D(i) * Factors[i]
    <3>1. i = 0 \/ i = 1 \/ i = 2 \/ i = 3 \/ i = 4
      OBVIOUS
    <3>. QED  BY <1>2, <1>3, <2>1, <3>1
  <2>. QED  BY <2>1, <2>2
<1> HIDE DEF Is, h
<1>5. Is(S)
  BY <1>4
<1> HIDE DEF S
<1>6. \A i \in 0 .. 4 : S[i] = IF i = 0 THEN 0 ELSE S[i - 1] + D(i) * Factors[i]
  BY <1>5 DEF Is
<1>7. /\ S[0] = 0 /\ S[1] = S[0] + D(1) * 62500 /\ S[2] = S[1] + D(2) * 3906
      /\ S[3] = S[2] + D(3) * 244 /\ S[4] = S[3] + D(4) * 15
  <2>1. S[0] = 0
    BY <1>6
  <2>2. S[1] = S[0] + D(1) * 62500
    BY <1>3, <1>6
  <2>3. S[2] = S[1] + D(2) * 3906
    BY <1>3, <1>6
  <2>4. S[3] = S[2] + D(3) * 244
    BY <1>3, <1>6
  <2>5. S[4] = S[3] + D(4) * 15
    BY <1>3, <1>6
  <2>. QED  BY <2>1, <2>2, <2>3, <2>4, <2>5
<1>8. S[4] = D(1) * 62500 + D(2) * 3906 + D(3) * 244 + D(4) * 15
  BY <1>2, <1>7
<1>. QED  BY <1>1, <1>8 DEF D

\* One digit more.
LEMMA NextDigit ==
  ASSUME NEW v \in 0 .. 999, NEW a, NEW b, a = (v * 16) \div 1000, b = (v * 16) % 1000
  PROVE  16 * v = 1000 * a + b /\ a \in 0 .. 15
OBVIOUS

RoundsTo(m, x) == m \in Int /\ m \div 1000 + (IF m % 1000 >= 500 THEN 1 ELSE 0) = x

\* The digits behind the point as they are read.
Reads(chars, r) ==
    \A i \in 1 .. 4 : HexCharToInt(chars[SecondDigits + i]) = (r[i - 1] * 16) \div 1000

(* The milliseconds are read back: what is lost behind the fourth digit    *)
(* and by the factors is less than half of a millisecond.                  *)
LEMMA MillisecondsBack ==
  ASSUME NEW x \in 0 .. 999, NEW r, Remainders(r, x), NEW chars, Reads(chars, r)
  PROVE  RoundsTo(Millionths(chars), x)
<1> DEFINE D(i) == HexCharToInt(chars[SecondDigits + i])
<1>1. /\ r[0] = x /\ \A i \in 0 .. 8 : r[i] \in 0 .. 999
      /\ \A i \in 1 .. 8 : r[i] = (r[i - 1] * 16) % 1000
  BY DEF Remainders
<1>2. ASSUME NEW i \in 1 .. 4
      PROVE  16 * r[i - 1] = 1000 * D(i) + r[i] /\ D(i) \in 0 .. 15
  <2> DEFINE v == r[i - 1]  a == D(i)  b == r[i]
  <2>1. v \in 0 .. 999 /\ a = (v * 16) \div 1000 /\ b = (v * 16) % 1000
    BY <1>1 DEF Reads
  <2> HIDE DEF v, a, b
  <2>2. 16 * v = 1000 * a + b /\ a \in 0 .. 15
    BY <2>1, NextDigit
  <2>. QED  BY <2>2 DEF v, a, b
<1>3. Millionths(chars) = D(1) * 62500 + D(2) * 3906 + D(3) * 244 + D(4) * 15
  BY <1>2, MillionthsIs
<1> HIDE DEF D
<1>4. /\ 16 * x = 1000 * D(1) + r[1] /\ 16 * r[1] = 1000 * D(2) + r[2]
      /\ 16 * r[2] = 1000 * D(3) + r[3] /\ 16 * r[3] = 1000 * D(4) + r[4]
  <2>1. /\ 16 * r[1 - 1] = 1000 * D(1) + r[1] /\ 16 * r[2 - 1] = 1000 * D(2) + r[2]
        /\ 16 * r[3 - 1] = 1000 * D(3) + r[3] /\ 16 * r[4 - 1] = 1000 * D(4) + r[4]
    BY <1>2
  <2>. QED  BY <1>1, <2>1
<1>5. /\ r[1] \in 0 .. 999 /\ r[2] \in 0 .. 999 /\ r[3] \in 0 .. 999 /\ r[4] \in 0 .. 999
      /\ D(1) \in 0 .. 15 /\ D(2) \in 0 .. 15 /\ D(3) \in 0 .. 15 /\ D(4) \in 0 .. 15
  BY <1>1, <1>2
<1> DEFINE m == Millionths(chars)
           d1 == D(1)  d2 == D(2)  d3 == D(3)  d4 == D(4)
           r1 == r[1]  r2 == r[2]  r3 == r[3]  r4 == r[4]
<1>6. m \in Int /\ m <= 1000 * x /\ 1000 * x < m + 500
  <2>1. /\ r1 \in 0 .. 999 /\ r2 \in 0 .. 999 /\ r3 \in 0 .. 999 /\ r4 \in 0 .. 999
        /\ d1 \in 0 .. 15 /\ d2 \in 0 .. 15 /\ d3 \in 0 .. 15 /\ d4 \in 0 .. 15
        /\ 16 * x = 1000 * d1 + r1 /\ 16 * r1 = 1000 * d2 + r2
        /\ 16 * r2 = 1000 * d3 + r3 /\ 16 * r3 = 1000 * d4 + r4
        /\ m = d1 * 62500 + d2 * 3906 + d3 * 244 + d4 * 15
    BY <1>3, <1>4, <1>5
  <2> HIDE DEF m, d1, d2, d3, d4, r1, r2, r3, r4
  <2>. QED  BY <2>1, SMTT(60)
<1> HIDE DEF m
<1>7. m \div 1000 + (IF m % 1000 >= 500 THEN 1 ELSE 0) = x
  BY <1>6
<1>. QED  BY <1>6, <1>7 DEF m, RoundsTo

LEMMA FunctionIsSeq ==
  ASSUME NEW n \in Nat, NEW S, NEW f \in [1 .. n -> S]
  PROVE  f \in Seq(S) /\ Len(f) = n
OBVIOUS

LEMMA CharsRead ==
  ASSUME NEW digits, NEW i \in DOMAIN digits, digits[i] \in 0 .. 15
  PROVE  HexCharToInt(FormatHex(digits)[i]) = digits[i]
<1> DEFINE d == digits[i]
           c == IF d < 10 THEN 48 + d ELSE 97 + d - 10
<1>1. FormatHex(digits)[i] = c
  BY DEF FormatHex
<1>2. d \in 0 .. 15
  OBVIOUS
<1> HIDE DEF d
<1>3. HexCharToInt(c) = d
  BY <1>2 DEF HexCharToInt
<1>. QED  BY <1>1, <1>3 DEF d

(* A time tag that is sent and received again is the same time, to the     *)
(* millisecond, as long as its seconds have the digits of 1970 to 2036     *)
(* (FormatTimeTag, HexToDecimal1000 of OSC.oz).                            *)
THEOREM TimetagsComeBackTheorem ==
  ASSUME OzTimeAssumption
  PROVE  OzTimeInit => TimetagsComeBack
<1> SUFFICES ASSUME OzTimeInit
             PROVE  TimetagsComeBack
  OBVIOUS
<1> DEFINE n == SecondDigits
           t == unixTime1000
           s == t \div 1000 + ConversionConstant
           ms == t % 1000
           int == DecimalToHex_Int(s)
           frac == Padded(DecimalToHex_Frac(ms))
           digits == int \o frac
           chars == FormatHex(digits)
<1>1. FormatTimeTag(t) = chars
  BY DEF FormatTimeTag, Padded
<1>2. /\ n \in Nat \ {0} /\ t \in Nat /\ ConversionConstant \in Nat
      /\ FirstSecond \in Nat /\ LastSecond \in Nat
      /\ FirstSecond * 1000 <= t /\ t <= LastSecond * 1000 + 999
  BY DEF OzTimeInit, OzTimeAssumption
<1>3. /\ t \div 1000 \in Nat /\ FirstSecond <= t \div 1000 /\ t \div 1000 <= LastSecond
      /\ ms \in 0 .. 999
  BY <1>2
<1>4. t = 1000 * (t \div 1000) + ms
  <2>1. \A v \in Int : v = 1000 * (v \div 1000) + (v % 1000)
    OBVIOUS
  <2>. QED  BY <1>2, <2>1
<1>5. s \in Nat /\ Power[n - 1] <= s /\ s < Power[n]
  <2>1. /\ Power[n - 1] \in Nat /\ Power[n] \in Nat
        /\ ConversionConstant + FirstSecond >= Power[n - 1]
        /\ ConversionConstant + LastSecond < Power[n]
    BY <1>2, Powers DEF OzTimeAssumption
  <2>. QED  BY <1>2, <1>3, <2>1
<1> HIDE DEF t, s, ms
<1>6. PICK q : /\ Quotients(q, s) /\ q[n] = 0
               /\ int = [i \in 1 .. n |-> q[n - i] % 16]
  BY <1>5, SecondsInHex
<1>7. PICK r : /\ Remainders(r, ms)
               /\ frac = [i \in 1 .. 8 |-> (r[i - 1] * 16) \div 1000]
  BY <1>3, FractionInHex DEF Expands
<1> HIDE DEF int, frac
<1>8. \A i \in 1 .. n : q[n - i] \in Nat /\ q[n - i] % 16 \in 0 .. 15
  <2>1. ASSUME NEW i \in 1 .. n
        PROVE  q[n - i] \in Nat /\ q[n - i] % 16 \in 0 .. 15
    <3>1. n - i \in 0 .. n
      BY <1>2
    <3>2. q[n - i] \in Nat
      BY <1>6, <3>1 DEF Quotients
    <3>. QED  BY <3>2
  <2>. QED  BY <2>1
<1>9. \A i \in 1 .. 8 : (r[i - 1] * 16) \div 1000 \in 0 .. 15
  <2>1. ASSUME NEW i \in 1 .. 8
        PROVE  (r[i - 1] * 16) \div 1000 \in 0 .. 15
    <3>1. r[i - 1] \in 0 .. 999
      BY <1>7 DEF Remainders
    <3>. QED  BY <3>1
  <2>. QED  BY <2>1
<1>10. /\ int \in Seq(Nat) /\ Len(int) = n /\ frac \in Seq(Nat) /\ Len(frac) = 8
  <2>1. int \in [1 .. n -> Nat] /\ n \in Nat
    BY <1>2, <1>6, <1>8
  <2>2. frac \in [1 .. 8 -> 0 .. 15]
    BY <1>7, <1>9
  <2>3. frac \in [1 .. 8 -> Nat] /\ 8 \in Nat
    BY <2>2
  <2>4. int \in Seq(Nat) /\ Len(int) = n
    BY <2>1
  <2>5. frac \in Seq(Nat) /\ Len(frac) = 8
    BY <2>3, FunctionIsSeq
  <2>. QED  BY <2>4, <2>5
<1>11. /\ digits \in Seq(Nat) /\ Len(digits) = n + 8
       /\ \A i \in 1 .. n + 8 : digits[i] = IF i <= n THEN int[i] ELSE frac[i - n]
  <2>1. /\ int \o frac \in Seq(Nat) /\ Len(int \o frac) = Len(int) + Len(frac)
        /\ \A i \in 1 .. Len(int) + Len(frac) :
             (int \o frac)[i] = IF i <= Len(int) THEN int[i] ELSE frac[i - Len(int)]
    BY <1>10, ConcatProperties
  <2>. QED  BY <1>10, <2>1
<1> HIDE DEF digits
<1>12. Len(chars) = n + 8
  <2>1. chars = [i \in 1 .. n + 8 |-> chars[i]] /\ n + 8 \in Nat
    BY <1>2, <1>11 DEF FormatHex
  <2> HIDE DEF chars
  <2>. QED  BY <2>1
<1>13. \A i \in 1 .. n : HexCharToInt(chars[i]) = q[n - i] % 16
  <2>1. ASSUME NEW i \in 1 .. n
        PROVE  HexCharToInt(chars[i]) = q[n - i] % 16
    <3>1. i \in 1 .. n + 8 /\ i <= n
      BY <1>2
    <3>2. digits[i] = int[i] /\ i \in DOMAIN digits
      BY <1>11, <3>1
    <3>3. int[i] = q[n - i] % 16 /\ q[n - i] % 16 \in 0 .. 15
      BY <1>6, <1>8
    <3>. QED  BY <3>2, <3>3, CharsRead
  <2>. QED  BY <2>1
<1>14. Reads(chars, r)
  <2>1. ASSUME NEW i \in 1 .. 4
        PROVE  HexCharToInt(chars[n + i]) = (r[i - 1] * 16) \div 1000
    <3>1. n + i \in 1 .. n + 8 /\ ~ (n + i <= n) /\ (n + i) - n = i /\ i \in 1 .. 8
      BY <1>2
    <3>2. digits[n + i] = frac[i] /\ n + i \in DOMAIN digits
      BY <1>11, <3>1
    <3>3. frac[i] = (r[i - 1] * 16) \div 1000 /\ (r[i - 1] * 16) \div 1000 \in 0 .. 15
      BY <1>7, <1>9, <3>1
    <3>. QED  BY <3>2, <3>3, CharsRead
  <2>. QED  BY <2>1 DEF Reads
<1> HIDE DEF chars
<1>15. Seconds(chars) = s
  BY <1>5, <1>6, <1>13, SecondsBack
<1>16. RoundsTo(Millionths(chars), ms)
  <2>1. ms \in 0 .. 999
    BY <1>3
  <2>2. Remainders(r, ms)
    BY <1>7
  <2>. QED  BY <1>14, <2>1, <2>2, MillisecondsBack
<1>17. HexToDecimal1000(chars) = 1000 * s + ms
  <2>1. HexToDecimal1000(chars)
          = 1000 * s + Millionths(chars) \div 1000
              + (IF Millionths(chars) % 1000 >= 500 THEN 1 ELSE 0)
    BY <1>15 DEF HexToDecimal1000
  <2> DEFINE m == Millionths(chars)
  <2> HIDE DEF m
  <2>. QED  BY <1>5, <1>16, <2>1 DEF m, RoundsTo
<1>18. NTPToUnixTime1000(HexToDecimal1000(chars)) = t
  BY <1>2, <1>3, <1>4, <1>17 DEF NTPToUnixTime1000, s
<1>. QED  BY <1>1, <1>12, <1>18 DEF TimetagsComeBack, t
=============================================================================
