----------------------------- MODULE OscReceive -----------------------------
(***************************************************************************)
(* The receiver of the OSC kit (OSC-Kit/OSC-receive.c with the pools of    *)
(* OSC-callbacklist.c): packets come in, their bundles and messages wait   *)
(* in the scheduler queue until their time has come, and are parsed and    *)
(* dispatched early when there is idle time.  Packet buffers, queued data  *)
(* and callback nodes come from pools of a fixed size.                     *)
(*                                                                         *)
(* The kit runs in one thread.  A call of its interface that contains a    *)
(* loop is a sequence of steps; call and parse say which loops are being   *)
(* executed, and the client makes its next call when both are over.        *)
(*                                                                         *)
(* A packet is a tree of elements.  An element is                          *)
(*   [kind |-> "message", methods |-> k, schedules |-> d]                  *)
(*      an address pattern that matches k methods (0 also stands for an    *)
(*      address that cannot be parsed); when d is not NoTime, the methods  *)
(*      schedule an internal message d after the current time              *)
(*   [kind |-> "bundle", timetag |-> t, elems |-> <<...>>]                 *)
(*   [kind |-> "short"]  "#bundle" with no room for the time tag           *)
(*   [kind |-> "bad"]    an element with a wrong size count                *)
(*   [kind |-> "odd"]    a packet whose size is not a multiple of 4        *)
(***************************************************************************)
EXTENDS OscQueueOps, Integers, FiniteSets

CONSTANTS
    Buffers,        \* the packet buffers (numReceiveBuffers of them)
    NumQD,          \* numQueuedObjects
    NumNodes,       \* numCallbackListNodes
    Packets,        \* the packets that may come in (elements)
    MaxPackets,     \* bound: packets that do come in
    MaxTime,        \* bound of the clock
    Immediately,    \* OSCTT_Immediately()
    Lookahead,      \* the client runs messages that early
    Positions,      \* where in a packet there may be elements (see EffectsAsAsked)
    NoBuffer, NoTime, None

ReceiveAssumption ==
    /\ NumQD \in Nat /\ NumQD <= CAPACITY   \* fatal_error in OSCNewQueue
    /\ NumNodes \in Nat
    /\ IsFiniteSet(Buffers) /\ NoBuffer \notin Buffers
    /\ Immediately \in Nat /\ Lookahead \in Nat
    /\ Positions \subseteq Seq(Nat \ {0})

VARIABLES
    q,              \* globals.TheQueue
    freePackets, refcount,
    freeQDs,        \* length of freeQDList
    freeNodes,      \* length of the list of free callback nodes
    lastTimeTag, timePassed,
    held,           \* the buffer the client has allocated, or NoBuffer
    call,           \* the execution of OSCInvokeMessagesThatAreReady, or None:
                    \* its argument, its thisTimeTag, whether it is called by
                    \* OSCInvokeAllMessagesThatAreReady, and the message in hand
    parse,          \* the execution of ParseBundle, or None
    clock,          \* the current time
    accepted,       \* history: the packets, internal ones included
    log,            \* history: the messages that took effect
    lost            \* history: what was dropped, or had callbacks dropped, for
                    \* lack of memory

pools == <<freePackets, refcount, freeQDs, freeNodes>>
times == <<lastTimeTag, timePassed, clock>>
vars == <<q, pools, times, held, call, parse, accepted, log, lost>>

NotDispatched == -1     \* NOT_DISPATCHED_YET

Min2(a, b) == IF a < b THEN a ELSE b
Max2(a, b) == IF a < b THEN b ELSE a

InitPackets ==
    /\ freePackets \in {f \in [1 .. Cardinality(Buffers) -> Buffers] :
                          \A i, j \in DOMAIN f : f[i] = f[j] => i = j}
    /\ refcount = [b \in Buffers |-> 0]

InitQueuedData == freeQDs = NumQD

InitCallbackListNodes == freeNodes = NumNodes

OSCInitReceive ==
    /\ q = OSCNewQueue
    /\ InitPackets /\ InitQueuedData /\ InitCallbackListNodes
    /\ lastTimeTag = Immediately /\ timePassed = TRUE
    /\ held = NoBuffer /\ call = None /\ parse = None
    /\ clock = Immediately
    /\ accepted = <<>> /\ log = <<>> /\ lost = {}

Init == OSCInitReceive

(* The client is not inside a call of the kit.                             *)
AtClient == call = None /\ parse = None

-----------------------------------------------------------------------------
(* Packet buffers.                                                         *)

OSCAllocPacketBuffer ==
    /\ AtClient /\ held = NoBuffer /\ freePackets # <<>>
    /\ Len(accepted) < MaxPackets
    /\ held' = Head(freePackets)
    /\ freePackets' = Tail(freePackets)
    /\ refcount' = [refcount EXCEPT ![held'] = 0]
    /\ UNCHANGED <<q, freeQDs, freeNodes, times, call, parse, accepted, log, lost>>

(* There was nothing to receive after all.                                 *)
OSCFreePacket ==
    /\ AtClient /\ held # NoBuffer
    /\ freePackets' = <<held>> \o freePackets
    /\ held' = NoBuffer
    /\ UNCHANGED <<q, refcount, freeQDs, freeNodes, times, call, parse, accepted, log, lost>>

\* The packet stays allocated.
PacketRemoveRef_NeverFrees(b) ==
    /\ refcount' = [refcount EXCEPT ![b] = @ - 1]
    /\ freePackets' = freePackets

PacketAddRef(b) == refcount' = [refcount EXCEPT ![b] = @ + 1]

(* One reference less; the last one frees the packet.                      *)
PacketRemoveRef(b) ==
    /\ refcount' = [refcount EXCEPT ![b] = @ - 1]
    /\ freePackets' = IF refcount[b] = 1 THEN <<b>> \o freePackets ELSE freePackets

-----------------------------------------------------------------------------
(* Scheduling elements.                                                    *)

AllocQD == freeQDs > 0 /\ freeQDs' = freeQDs - 1

FreeQD == freeQDs' = freeQDs + 1

\* The history of what a lack of memory has done.
Dropping(path, short) == lost' = IF short THEN lost \union {path} ELSE lost

(* When an element is scheduled: a bundle by its own time tag, a message   *)
(* with the bundle around it.                                              *)
TimeOf(el, enclosing) == IF el.kind = "bundle" THEN el.timetag ELSE enclosing

\* A sub-bundle before the bundle around it is let in.
Acceptable_NoTagCheck(el, enclosing) ==
    /\ el.kind \in {"message", "bundle"}
    /\ freeQDs > 0

Acceptable(el, enclosing) ==
    /\ el.kind \in {"message", "bundle"}
    /\ freeQDs > 0
    /\ TimeOf(el, enclosing) >= enclosing

NewQD(el, b, enclosing, path) ==
    [timetag |-> TimeOf(el, enclosing), buf |-> b, path |-> path, el |-> el,
     callbacks |-> NotDispatched]

\* An element that comes too early keeps the queued data it was given.
InsertBundleOrMessage_KeepsQD(el, b, enclosing, path) ==
    \/ /\ Acceptable(el, enclosing)
       /\ q' = OSCQueueInsert(q, NewQD(el, b, enclosing, path))
       /\ freeQDs' = freeQDs - 1
       /\ refcount' = [refcount EXCEPT ![b] = @ + 1]
       /\ UNCHANGED <<freePackets, lost>>
    \/ /\ ~Acceptable(el, enclosing)
       /\ freePackets' = IF refcount[b] = 0 THEN <<b>> \o freePackets ELSE freePackets
       /\ freeQDs' = IF freeQDs > 0 THEN freeQDs - 1 ELSE 0
       /\ Dropping(path, freeQDs = 0)
       /\ UNCHANGED <<q, refcount>>

(* The reference is added first, and taken back when the element is        *)
(* dropped: so a packet that holds nothing else is freed.                  *)
InsertBundleOrMessage(el, b, enclosing, path) ==
    \/ /\ Acceptable(el, enclosing)
       /\ q' = IF OSCQueueFull(q) THEN q
               ELSE OSCQueueInsert(q, NewQD(el, b, enclosing, path))
       /\ AllocQD
       /\ PacketAddRef(b)
       /\ UNCHANGED <<freePackets, lost>>
    \/ /\ ~Acceptable(el, enclosing)
       /\ freePackets' = IF refcount[b] = 0 THEN <<b>> \o freePackets ELSE freePackets
       /\ Dropping(path, freeQDs = 0)
       /\ UNCHANGED <<q, freeQDs, refcount>>

(* OSCInvokeMessagesThatAreReady up to its loop: with nothing to do, the   *)
(* call is over at once.                                                   *)
Invoke(queue, now, all) ==
    LET tag == OSCQueueEarliestTimeTag(queue)
    IN  IF tag > now THEN None ELSE [now |-> now, tag |-> tag, all |-> all, qd |-> None]

(* A packet is accepted: its only element is scheduled, and what is ready  *)
(* is invoked.  A packet of an odd size is reported as dropped.            *)
OSCAcceptPacket(el) ==
    /\ AtClient /\ held # NoBuffer
    /\ held' = NoBuffer
    /\ accepted' = Append(accepted, [el |-> el, timetag |-> Immediately])
    /\ \/ /\ el.kind # "odd"
          /\ InsertBundleOrMessage(el, held, Immediately, <<Len(accepted) + 1>>)
          /\ call' = Invoke(q', lastTimeTag, TRUE)
          /\ timePassed' = TRUE
       \/ /\ el.kind = "odd"
          /\ UNCHANGED <<q, freeQDs, refcount, freePackets, call, timePassed, lost>>
    /\ UNCHANGED <<freeNodes, lastTimeTag, clock, parse, log>>

-----------------------------------------------------------------------------
(* Parsing and dispatching.                                                *)

(* One turn of the loop of ParseBundle: the next element is inserted; the  *)
(* rest of the bundle is dropped when its size count is wrong.             *)
ParseElement ==
    /\ parse # None
    /\ LET qd == parse.qd
           el == qd.el.elems[parse.next]
       IN  /\ parse.next <= Len(qd.el.elems)
           /\ el.kind # "bad"
           /\ InsertBundleOrMessage(el, qd.buf, qd.timetag, Append(qd.path, parse.next))
    /\ parse' = [parse EXCEPT !.next = @ + 1]
    /\ UNCHANGED <<freeNodes, times, held, call, accepted, log>>

(* The end of ParseBundle, and of the call of OSCBeProductiveWhileWaiting  *)
(* it may belong to.                                                       *)
ParseDone ==
    /\ parse # None
    /\ parse.next <= Len(parse.qd.el.elems) => parse.qd.el.elems[parse.next].kind = "bad"
    /\ PacketRemoveRef(parse.qd.buf)
    /\ FreeQD
    /\ q' = IF parse.idle THEN OSCQueueRemoveCurrentScanItem(q) ELSE q
    /\ parse' = None
    /\ UNCHANGED <<freeNodes, times, held, call, accepted, log, lost>>

(* OSCDispatchMessage takes one node for each method, as long as there are *)
(* nodes (AllocCallbackListNode returns 0 otherwise).                      *)
OSCDispatchMessage(el) == Min2(el.methods, freeNodes)

AllocCallbackListNodes(n) == freeNodes' = freeNodes - n

FreeCallbackListNode == freeNodes' = freeNodes + 1

(* OSCBeProductiveWhileWaiting: the first bundle is parsed, or the first   *)
(* message that is not dispatched yet is dispatched.                       *)
HasWork(qd) == qd.el.kind = "bundle" \/ qd.callbacks = NotDispatched

ScanFrom == IF timePassed THEN 0 ELSE q.scanIndex

WorkAt(i) ==
    /\ i \in ScanFrom + 1 .. Len(q.list)
    /\ HasWork(q.list[i])
    /\ \A j \in ScanFrom + 1 .. i - 1 : ~HasWork(q.list[j])

BeginIdleParse(i) ==
    /\ q.list[i].el.kind = "bundle"
    /\ parse' = [qd |-> q.list[i], next |-> 1, idle |-> TRUE]
    /\ q' = [q EXCEPT !.scanIndex = i]
    /\ UNCHANGED <<pools, lost>>

DispatchEarly(i) ==
    LET qd == q.list[i]
        n == OSCDispatchMessage(qd.el)
    IN  /\ qd.el.kind = "message"
        /\ AllocCallbackListNodes(n)
        /\ Dropping(qd.path, n < qd.el.methods)
        /\ \/ /\ n > 0
              /\ q' = [list |-> [q.list EXCEPT ![i].callbacks = n], scanIndex |-> i]
              /\ UNCHANGED <<freeQDs, refcount, freePackets>>
           \/ /\ n = 0
              /\ q' = OSCQueueRemoveCurrentScanItem([q EXCEPT !.scanIndex = i])
              /\ PacketRemoveRef(qd.buf)
              /\ FreeQD
        /\ UNCHANGED parse

OSCBeProductiveWhileWaiting ==
    /\ AtClient
    /\ \/ \E i \in DOMAIN q.list :
            WorkAt(i) /\ (BeginIdleParse(i) \/ DispatchEarly(i))
       \/ /\ ~\E i \in DOMAIN q.list : WorkAt(i)
          /\ q' = [q EXCEPT !.scanIndex = Max2(ScanFrom, Len(q.list))]
          /\ UNCHANGED <<pools, parse, lost>>
    /\ UNCHANGED <<times, held, call, accepted, log>>

-----------------------------------------------------------------------------
(* Messages take effect.                                                   *)

\* Messages are run before the time up to which the client is busy.
OSCInvokeMessagesThatAreReady_Early(all) ==
    /\ AtClient
    /\ lastTimeTag' = clock + Lookahead + 1
    /\ timePassed' = TRUE
    /\ call' = Invoke(q, clock + Lookahead + 1, all)
    /\ UNCHANGED <<q, pools, clock, held, parse, accepted, log, lost>>

(* The client calls OSCInvokeMessagesThatAreReady, or OSCInvokeAll-        *)
(* MessagesThatAreReady, for the time up to which it will be busy.         *)
OSCInvokeMessagesThatAreReady(all) ==
    /\ AtClient
    /\ lastTimeTag' = clock + Lookahead
    /\ timePassed' = TRUE
    /\ call' = Invoke(q, clock + Lookahead, all)
    /\ UNCHANGED <<q, pools, clock, held, parse, accepted, log, lost>>

(* The loop goes on while the earliest object has thisTimeTag.             *)
InLoop == call # None /\ parse = None /\ call.qd = None

MoreOfThisTag == OSCQueueEarliestTimeTag(q) = call.tag

TakeBundle ==
    /\ InLoop /\ MoreOfThisTag /\ q.list # <<>>
    /\ Earliest(q).el.kind = "bundle"
    /\ parse' = [qd |-> Earliest(q), next |-> 1, idle |-> FALSE]
    /\ q' = OSCQueueRemoveEarliest(q)
    /\ UNCHANGED <<pools, times, held, call, accepted, log, lost>>

(* A message is dispatched now unless that was done in idle time; without  *)
(* callbacks it is flushed.                                                *)
TakeMessage ==
    /\ InLoop /\ MoreOfThisTag /\ q.list # <<>>
    /\ LET x == Earliest(q)
           n == IF x.callbacks = NotDispatched THEN OSCDispatchMessage(x.el) ELSE x.callbacks
       IN  /\ x.el.kind = "message"
           /\ q' = OSCQueueRemoveEarliest(q)
           /\ AllocCallbackListNodes(IF x.callbacks = NotDispatched THEN n ELSE 0)
           /\ Dropping(x.path, x.callbacks = NotDispatched /\ n < x.el.methods)
           /\ \/ /\ n > 0
                 /\ call' = [call EXCEPT !.qd = [x EXCEPT !.callbacks = n]]
                 /\ UNCHANGED <<refcount, freePackets, freeQDs>>
              \/ /\ n = 0
                 /\ PacketRemoveRef(x.buf)
                 /\ FreeQD
                 /\ UNCHANGED call
    /\ UNCHANGED <<times, held, parse, accepted, log>>

(* OSCScheduleInternalMessages makes a bundle without the header of a      *)
(* packet; it returns FALSE when a pool is empty.                          *)
InternalBundle(when, msgs) == [kind |-> "bundle", timetag |-> when, elems |-> msgs]

Schedule(when, msgs) ==
    IF freeQDs > 0 /\ freePackets # <<>>
    THEN LET p  == Head(freePackets)
             el == InternalBundle(when, msgs)
         IN  /\ freeQDs' = freeQDs - 1
             /\ freePackets' = Tail(freePackets)
             /\ refcount' = [refcount EXCEPT ![p] = 1]
             /\ q' = IF OSCQueueFull(q) THEN q
                     ELSE OSCQueueInsert(q, NewQD(el, p, when, <<Len(accepted) + 1>>))
             /\ accepted' = Append(accepted, [el |-> el, timetag |-> when])
    ELSE UNCHANGED <<q, freeQDs, freePackets, refcount, accepted>>

InternalMessage == [kind |-> "message", methods |-> 1, schedules |-> NoTime]

(* CallWholeCallbackList calls the next callback and then frees its node.  *)
CallCallback ==
    /\ call # None /\ call.qd # None
    /\ call.qd.callbacks > 0
    /\ IF call.qd.el.schedules # NoTime
       THEN Schedule(clock + call.qd.el.schedules, <<InternalMessage>>)
       ELSE UNCHANGED <<q, freeQDs, freePackets, refcount, accepted>>
    /\ log' = Append(log, [path |-> call.qd.path, tag |-> call.tag])
    /\ call' = [call EXCEPT !.qd.callbacks = @ - 1]
    /\ FreeCallbackListNode
    /\ UNCHANGED <<times, held, parse, lost>>

MessageDone ==
    /\ call # None /\ call.qd # None
    /\ call.qd.callbacks = 0
    /\ PacketRemoveRef(call.qd.buf)
    /\ FreeQD
    /\ call' = [call EXCEPT !.qd = None]
    /\ UNCHANGED <<q, freeNodes, times, held, parse, accepted, log, lost>>

(* The loop is over; the result says whether more messages are ready, and  *)
(* OSCInvokeAllMessagesThatAreReady then calls again.                      *)
LoopDone ==
    /\ InLoop /\ ~MoreOfThisTag
    /\ call' = IF call.all THEN Invoke(q, call.now, TRUE) ELSE None
    /\ timePassed' = TRUE
    /\ lastTimeTag' = IF call.all THEN call.now ELSE lastTimeTag
    /\ UNCHANGED <<q, pools, clock, held, parse, accepted, log, lost>>

-----------------------------------------------------------------------------
(* The client schedules messages of its own, outside of any callback.      *)
ClientSchedules(d) ==
    /\ AtClient
    /\ Len(accepted) < MaxPackets - Cardinality({held} \ {NoBuffer})
    /\ clock + d <= MaxTime            \* a bound
    /\ Schedule(clock + d, <<InternalMessage, InternalMessage>>)
    /\ UNCHANGED <<freeNodes, times, held, call, parse, log, lost>>

Tick ==
    /\ clock < MaxTime
    /\ clock' = clock + 1
    /\ UNCHANGED <<q, pools, lastTimeTag, timePassed, held, call, parse, accepted, log, lost>>

InCall ==
    \/ ParseElement \/ ParseDone
    \/ TakeBundle \/ TakeMessage \/ CallCallback \/ MessageDone \/ LoopDone

Next ==
    \/ OSCAllocPacketBuffer
    \/ OSCFreePacket
    \/ \E el \in Packets : OSCAcceptPacket(el)
    \/ OSCBeProductiveWhileWaiting
    \/ \E all \in BOOLEAN : OSCInvokeMessagesThatAreReady(all)
    \/ ClientSchedules(1)
    \/ Tick
    \/ InCall

Spec == Init /\ [][Next]_vars

-----------------------------------------------------------------------------
(* The queued data that are in the queue or in hand: a bundle parsed in    *)
(* idle time is still in the queue, any other is not.                      *)
InHand ==
    {x \in {IF call = None THEN None ELSE call.qd,
           IF parse = None \/ parse.idle THEN None ELSE parse.qd} : x # None}

Live == InHand \union {q.list[i] : i \in DOMAIN q.list}

IsFree(b) == \E i \in DOMAIN freePackets : freePackets[i] = b

TypeOK ==
    /\ q.scanIndex \in Nat
    /\ \A qd \in Live : /\ qd.timetag \in Nat /\ qd.buf \in Buffers
                        /\ \/ qd.callbacks \in {NotDispatched} \union (Nat \ {0})
                           \/ qd.callbacks = 0 /\ qd \in InHand
                        /\ qd.el.kind \in {"message", "bundle"}
    /\ freeQDs \in Nat /\ freeNodes \in Nat
    /\ refcount \in [Buffers -> Nat] /\ held \in Buffers \union {NoBuffer}
    /\ lastTimeTag \in Nat /\ timePassed \in BOOLEAN /\ clock \in Nat
    /\ call # None => call.tag \in Nat /\ call.now \in Nat /\ call.all \in BOOLEAN
    /\ parse # None => parse.next \in 1 .. Len(parse.qd.el.elems) + 1

(* Every queued data object is in the free list, in the queue or in hand:  *)
(* none is lost, so that the queue, which has room for all of them, never  *)
(* refuses one (the callers of OSCQueueInsert do not look at its result).  *)
QDs == freeQDs + Len(q.list) + Cardinality(InHand)

QDsConserved == QDs = NumQD

\* A packet whose size is not a multiple of four is never freed (OSCAcceptPacket).
OddCame == \E n \in DOMAIN accepted : accepted[n].el.kind = "odd"

(* A buffer's reference count is the number of queued data that point into *)
(* it; it is in the free list, once, when that is 0 and the client does    *)
(* not hold it (PacketAddRef, PacketRemoveRef at all their callers).       *)
BuffersConserved ==
    \A b \in Buffers :
        /\ refcount[b] = Cardinality({qd \in Live : qd.buf = b})
        /\ IsFree(b) => refcount[b] = 0 /\ held # b
        /\ ~OddCame /\ refcount[b] = 0 /\ held # b => IsFree(b)
        /\ \A i, j \in DOMAIN freePackets : freePackets[i] = freePackets[j] => i = j

\* The callbacks of a message that are still to be called hold a node each.
NodesInUse(live) == UNION {{qd.path} \X (1 .. qd.callbacks) : qd \in live}

(* The callback nodes that are not free are those of messages dispatched   *)
(* early and of the message in hand.                                       *)
Nodes == freeNodes + Cardinality(NodesInUse(Live))

NodesConserved == Nodes = NumNodes

(* Nothing is lost and nothing is given out twice, with pools of any size: *)
(* each queued data object is in the free list, in the queue or in hand,   *)
(* each callback node is free or one of a message dispatched early or in   *)
(* hand, and each packet buffer is free exactly when nothing refers to it  *)
(* (InsertBundleOrMessage, PacketAddRef, PacketRemoveRef, ParseBundle).    *)
PoolsConserved ==
    /\ [](TypeOK /\ BuffersConserved)
    /\ [][QDs' = QDs /\ Nodes' = Nodes]_vars

(* The messages of one bundle take effect in their order, whether the      *)
(* bundle or the messages were parsed in idle time or not.                 *)
Parent(path) == SubSeq(path, 1, Len(path) - 1)

SiblingsInOrder ==
    \A i, j \in DOMAIN log :
        i < j /\ Parent(log[i].path) = Parent(log[j].path)
            => log[i].path[Len(log[i].path)] <= log[j].path[Len(log[j].path)]

(* "OSC guarantees that messages with the same tag take effect             *)
(* atomically" (OSC-receive.h): between two messages of a packet with the  *)
(* same tag, no message with another tag takes effect                      *)
(* (OSCInvokeMessagesThatAreReady).                                        *)
Atomic ==
    \A i, j, k \in DOMAIN log :
        /\ i < j /\ j < k
        /\ log[i].path[1] = log[k].path[1] /\ log[i].tag = log[k].tag
        => log[j].tag = log[i].tag

(* The element at a path, as far as a packet is parsed: ParseBundle stops  *)
(* at a wrong size count, and drops a sub-bundle that is before its bundle *)
(* (a packet likewise, when it is before the time tag it came with).       *)
NoElement == [kind |-> "none"]

Admitted(el, enclosing) == IF TimeOf(el, enclosing) >= enclosing THEN el ELSE NoElement

PartOf(el, i) ==
    IF /\ el.kind = "bundle" /\ i \in DOMAIN el.elems
       /\ \A k \in 1 .. i : el.elems[k].kind # "bad"
    THEN Admitted(el.elems[i], el.timetag) ELSE NoElement

ElementIn(el, path) ==
    LET along[k \in 1 .. Len(path)] == IF k = 1 THEN el ELSE PartOf(along[k - 1], path[k])
    IN  along[Len(path)]

ElementAt(path) == ElementIn(Admitted(accepted[path[1]].el, accepted[path[1]].timetag), path)

\* How many callbacks the message at a path asks for.
Asked(path) == IF ElementAt(path).kind = "message" THEN ElementAt(path).methods ELSE 0

CallsIn(lg, path) == Cardinality({i \in DOMAIN lg : lg[i].path = path})

Calls(path) == CallsIn(log, path)

(* Whatever is dropped for lack of memory, parsed or dispatched early:     *)
(* nothing takes effect that was not asked for, and nothing more often     *)
(* than it was (OSCDispatchMessage, CallWholeCallbackList).                *)
EffectsAtMostOnce == \A i \in DOMAIN log : Calls(log[i].path) <= Asked(log[i].path)

Leads(path, to) == Len(path) <= Len(to) /\ \A i \in 1 .. Len(path) : path[i] = to[i]

\* It was dropped for lack of memory, or a bundle around it was.
Lost(path) == \E d \in lost : Leads(d, path)

\* Nothing of the packet is left in the scheduler.
Gone(n) == \A qd \in Live : qd.path[1] # n

(* When a packet has left the scheduler, all its messages have taken       *)
(* effect, but for those that were dropped for lack of memory.             *)
EffectsComplete ==
    \A n \in DOMAIN accepted, r \in Positions :
        Gone(n) => Lost(<<n>> \o r) \/ Calls(<<n>> \o r) = Asked(<<n>> \o r)

(* Each message of a packet takes effect exactly once for each of its      *)
(* methods, however its bundles are parsed and dispatched; with little     *)
(* memory elements are dropped, but nothing takes effect twice, and        *)
(* nothing that no packet asked for.                                       *)
EffectsAsAsked == EffectsAtMostOnce /\ EffectsComplete

(* The messages of a bundle take effect in their order, and between two    *)
(* messages of a packet with the same time tag nothing with another tag    *)
(* does.                                                                   *)
EffectsInOrder == SiblingsInOrder /\ Atomic
=============================================================================
