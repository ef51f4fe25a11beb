------------------------------ MODULE OscInput ------------------------------
(***************************************************************************)
(* How class DumpOSC of OSC.oz answers messages: a thread walks through    *)
(* the stream of packets (ProcessResponders) and calls the procedures that *)
(* are installed for an address, while other threads install and remove    *)
(* procedures.  Packets are the lines of DumpOscOps.                       *)
(*                                                                         *)
(* The procedures are those of the tests and examples (OSC-test.oz,        *)
(* OzAndSuperCollider.oz): they put the message into a Buffer, or retrieve *)
(* what is there, or just look at it.                                      *)
(***************************************************************************)
EXTENDS OscBuffer, FiniteSets

CONSTANTS
    Texts,          \* packets that may appear on the stream
    Addresses,      \* addresses for which procedures are installed
    Server, User,   \* the thread that answers, and another one
    MaxPackets,     \* bound on the packets on the stream
    MaxChanges      \* bound on the changes of the user

\* Brackets that are opened and not closed by the lines j to m.
Opened(ls, j, m) ==
    Cardinality({h \in j .. m : ls[h].is = "open"}) - Cardinality({h \in j .. m : ls[h].is = "close"})

(* What appears on the stream has gone through the parser: its brackets    *)
(* are balanced, see Syntax of OscParse.                                   *)
Balanced(ls) ==
    /\ ls \in Seq({ls[i] : i \in DOMAIN ls})
    /\ \A m \in DOMAIN ls : Opened(ls, 1, m) >= 0
    /\ Opened(ls, 1, Len(ls)) = 0

ASSUME InputAssumption ==
    /\ Server \in Threads /\ User \in Threads
    /\ \A ls \in Texts : Balanced(ls) /\ (1 .. MaxPackets) \X DOMAIN ls \subseteq Items
    /\ <<0, 0>> \in Items
    /\ MaxPackets \in Nat

VARIABLES
    stream,             \* the packets, as they appear (oscs of OscParse)
    packet, line,       \* where the Server is
    timetags,           \* time tags of the bundles around it, innermost last
    todo,               \* procedures it has to call
    responders,         \* procedures for each address
    default, bundleResponder,
    adding,             \* addResponder has read the list, and not written it
    changes,            \* changes the user has made
    calls               \* calls of procedures, in their order

serverVars == <<packet, line, timetags, todo, calls>>
tableVars == <<responders, default, bundleResponder, adding, changes>>
inputVars == <<stream, serverVars, tableVars, bufferVars>>

Procs == {"put", "getAll"}
Defaults == {"put by default", "ignore"}
BundleProcs == {"look", "look again"}
NothingToAdd == [address |-> NoThread, procs |-> <<>>]

InputInit ==
    /\ BufferInit
    /\ stream = <<>> /\ packet = 0 /\ line = 1 /\ timetags = <<1>> /\ todo = <<>>
    /\ calls = <<>>
    /\ responders = [a \in Addresses |-> <<>>]
    /\ default = "ignore" /\ bundleResponder = "look"
    /\ adding = NothingToAdd /\ changes = 0

-----------------------------------------------------------------------------
(* What the user does; the user is one thread.                             *)
Change ==
    /\ at[User] = "idle" /\ adding = NothingToAdd
    /\ changes < MaxChanges /\ changes' = changes + 1
    /\ UNCHANGED <<stream, serverVars>>

\* Proc | {Dictionary.condGet ...}
addResponder(a, proc) ==
    /\ Change
    /\ adding' = [address |-> a, procs |-> <<proc>> \o responders[a]]
    /\ UNCHANGED <<responders, default, bundleResponder, bufferVars>>

\* {Dictionary.put ...}
Added ==
    /\ adding # NothingToAdd
    /\ responders' = [responders EXCEPT ![adding.address] = adding.procs]
    /\ adding' = NothingToAdd
    /\ UNCHANGED <<stream, serverVars, bufferVars, default, bundleResponder, changes>>

setResponder(a, proc) ==
    /\ Change
    /\ responders' = [responders EXCEPT ![a] = <<proc>>]
    /\ UNCHANGED <<default, bundleResponder, adding, bufferVars>>

removeResponder(a) ==
    /\ Change
    /\ responders' = [responders EXCEPT ![a] = <<>>]
    /\ UNCHANGED <<default, bundleResponder, adding, bufferVars>>

setDefaultResponder(proc) ==
    /\ Change
    /\ default' = proc
    /\ UNCHANGED <<responders, bundleResponder, adding, bufferVars>>

setBundleResponder(proc) ==
    /\ Change
    /\ bundleResponder' = proc
    /\ UNCHANGED <<responders, default, adding, bufferVars>>

UserChanges ==
    \/ \E a \in Addresses :
        \/ \E proc \in Procs : addResponder(a, proc) \/ setResponder(a, proc)
        \/ removeResponder(a)
    \/ Added
    \/ \E proc \in Defaults : setDefaultResponder(proc)
    \/ \E proc \in BundleProcs : setBundleResponder(proc)

-----------------------------------------------------------------------------
(* The Server.  A message is named by its place on the stream.             *)
Place == <<packet, line>>
Line == stream[packet][line]
Timetag == timetags[Len(timetags)]

Working == packet > 0 /\ line <= Len(stream[packet])
Idle == at[Server] = "idle" /\ todo = <<>>

NextPacket ==
    /\ Idle /\ ~Working /\ packet < Len(stream)
    /\ packet' = packet + 1 /\ line' = 1
    /\ UNCHANGED <<stream, timetags, todo, calls, tableVars, bufferVars>>

Called(proc) == calls' = Append(calls, [place |-> Place, timetag |-> Timetag, proc |-> proc])

(* {@bundleResponder TT | Packets}, and then each of the packets with the  *)
(* time tag of this bundle.                                                *)
OpenBundle ==
    /\ Idle /\ Working /\ Line.is = "open"
    /\ calls' = Append(calls, [place |-> Place, timetag |-> Line.tag.t, proc |-> bundleResponder])
    /\ timetags' = Append(timetags, Line.tag.t)
    /\ line' = line + 1
    /\ UNCHANGED <<stream, packet, todo, tableVars, bufferVars>>

\* The time tag of the innermost bundle stays for what follows the bundle.
CloseBundle_KeepsTag ==
    /\ Idle /\ Working /\ Line.is = "close"
    /\ line' = line + 1
    /\ UNCHANGED <<stream, packet, timetags, todo, calls, tableVars, bufferVars>>

CloseBundle ==
    /\ Idle /\ Working /\ Line.is = "close"
    /\ timetags' = SubSeq(timetags, 1, Len(timetags) - 1)
    /\ line' = line + 1
    /\ UNCHANGED <<stream, packet, todo, calls, tableVars, bufferVars>>

Installed == IF Line.name \in Addresses THEN responders[Line.name] ELSE <<>>

\* The procedures are looked up once, before the first of them is called.
Look ==
    /\ Idle /\ Working /\ Line.is = "message"
    /\ todo' = IF Installed # <<>> THEN Installed ELSE <<default>>
    /\ UNCHANGED <<stream, packet, line, timetags, calls, tableVars, bufferVars>>

(* The next procedure is called, and when it returns, the next one.        *)
Call ==
    /\ at[Server] = "idle" /\ todo # <<>>
    /\ CASE Head(todo) \in {"put", "put by default"} -> put(Server, Place)
         [] Head(todo) = "getAll" -> getAll(Server)
         [] Head(todo) = "ignore" -> UNCHANGED bufferVars
    /\ Called(Head(todo))
    /\ todo' = Tail(todo)
    /\ line' = IF Tail(todo) = <<>> THEN line + 1 ELSE line
    /\ UNCHANGED <<stream, packet, timetags, tableVars>>

ServerStep == NextPacket \/ OpenBundle \/ CloseBundle \/ Look \/ Call

-----------------------------------------------------------------------------
\* A packet appears on the stream, see OscStream.
Deliver ==
    /\ Len(stream) < MaxPackets
    /\ \E text \in Texts : stream' = Append(stream, text)
    /\ UNCHANGED <<serverVars, tableVars, bufferVars>>

\* The user puts something into the buffer, too.
UserPuts ==
    /\ Change
    /\ put(User, <<0, 0>>)
    /\ UNCHANGED <<responders, default, bundleResponder, adding>>

Buffering(t) == Continue(t) /\ UNCHANGED <<stream, serverVars, tableVars>>

InputNext ==
    \/ Deliver \/ ServerStep \/ UserChanges \/ UserPuts
    \/ \E t \in {Server, User} : Buffering(t)

InputSpec == InputInit /\ [][InputNext]_inputVars

-----------------------------------------------------------------------------
Before(p, q) == p[1] < q[1] \/ (p[1] = q[1] /\ p[2] < q[2])

(* The messages of all packets are answered, each of them, in the order in *)
(* which they were sent, whoever changes the responders in the meantime    *)
(* (OSC.oz, ProcessResponders).                                            *)
AnswersInOrder ==
    /\ \A j, k \in DOMAIN calls : j < k => ~Before(calls[k].place, calls[j].place)
    /\ \A n \in 1 .. packet : \A i \in DOMAIN stream[n] :
        (n < packet \/ i < line) /\ stream[n][i].is # "close" =>
            \E j \in DOMAIN calls : calls[j].place = <<n, i>>

\* The bundle that line j opens is not closed before line i.
Around(ls, j, i) ==
    /\ ls[j].is = "open"
    /\ \A m \in j .. i - 1 : Opened(ls, j, m) > 0

(* The first argument of a procedure is "the timetag of the bundle in      *)
(* which the message was contained, or 1" (OSC.oz, addResponder).          *)
RightTimetags ==
    \A k \in DOMAIN calls :
        LET ls == stream[calls[k].place[1]]
            i == calls[k].place[2]
            around == {j \in 1 .. i : Around(ls, j, i)}
        IN  calls[k].timetag = IF around = {} THEN 1
                               ELSE ls[CHOOSE j \in around : \A h \in around : h <= j].tag.t

(* The default responder is called "whenever no responder installed with   *)
(* addResponder matches" (OSC.oz), and once: never after or before another *)
(* responder for the same message.                                         *)
DefaultOnlyAlone ==
    \A j, k \in DOMAIN calls :
        j # k /\ calls[j].proc \in Defaults => calls[k].place # calls[j].place

(* Whoever changes the responders in the meantime, the messages of all     *)
(* packets are answered, in the order in which they were sent; each        *)
(* procedure gets "the timetag of the bundle in which the message was      *)
(* contained, or 1", and the default responder is called "whenever no      *)
(* responder installed with addResponder matches", and alone (OSC.oz).     *)
AnsweredAsPromised == AnswersInOrder /\ RightTimetags /\ DefaultOnlyAlone

(* Every packet on the stream is answered at some time (ProcessResponders).*)
Answered(n) == packet >= n /\ Idle /\ (packet = n => ~Working)
=============================================================================
