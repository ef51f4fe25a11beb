-------------------------- MODULE OscAddressSpace --------------------------
(***************************************************************************)
(* The address space of the OSC kit (OSC-Kit/OSC-address-space.c): a tree  *)
(* of containers that hold methods, aliases for containers, and the        *)
(* dispatch of an address pattern to the methods it matches.               *)
(*                                                                         *)
(* Names are compared by identity, as the pointers of the source are.  A   *)
(* pattern is a sequence of sets of names: between two slashes, what       *)
(* PatternMatch accepts there (OscPatternMatch models that function).      *)
(***************************************************************************)
EXTENDS Integers, SequencesExt

CONSTANTS
    Names,          \* names without a slash
    Slashed,        \* names that contain a slash
    InitContainers, InitMethods,    \* initNumContainers, initNumMethods
    MaxContainers, MaxMethods,      \* bounds of the pools with what the
                                    \* real-time allocator adds
    MAX_CHILDREN_PER_CONTAINER, MAX_METHODS_PER_CONTAINER,
    BASE_NUM_TO_REALLOCATE,
    SpareNodes,     \* callback nodes that are free when a message comes in
    NoContainer

SpaceAssumption ==
    /\ InitContainers \in Nat /\ MaxContainers \in Nat /\ InitContainers <= MaxContainers
    /\ InitMethods \in Nat /\ MaxMethods \in Nat /\ InitMethods <= MaxMethods
    /\ MAX_CHILDREN_PER_CONTAINER \in Nat /\ MAX_METHODS_PER_CONTAINER \in Nat
    /\ BASE_NUM_TO_REALLOCATE \in Nat \ {0} /\ SpareNodes \in Nat

Top == 0        \* OSCTopLevelContainer

VARIABLES
    parent,         \* parent[c] of the containers that have been set up
    children,       \* children[c]: entries with a name and a container
    methods,        \* methods[c]: entries with a name and a method
    containers, freeContainers,     \* all containers there are; the free ones
    allMethods, freeMethods,
    extraContainers, extraMethods,  \* numExtraAllocs of the two allocators
    result          \* what the last call returned

tree == <<parent, children, methods>>
store == <<containers, freeContainers, allMethods, freeMethods,
           extraContainers, extraMethods>>
spaceVars == <<tree, store, result>>

Container == 0 .. MaxContainers
Method == 1 .. MaxMethods

OSCInitAddressSpace ==
    /\ containers = 1 .. InitContainers /\ freeContainers = containers
    /\ allMethods = 1 .. InitMethods /\ freeMethods = allMethods
    /\ extraContainers = 0 /\ extraMethods = 0
    /\ parent = [c \in {Top} |-> NoContainer]
    /\ children = [c \in Container |-> <<>>]
    /\ methods = [c \in Container |-> <<>>]
    /\ result = "ok"

SpaceInit == OSCInitAddressSpace

-----------------------------------------------------------------------------
(* Free lists.  An empty list is refilled once by the real-time allocator, *)
(* with a batch that grows from one attempt to the next; the allocator may *)
(* also refuse.                                                            *)

Least(set) == CHOOSE x \in set : \A y \in set : x <= y

Batch(all, extra) ==
    Cardinality(all) + 1 .. Cardinality(all) + BASE_NUM_TO_REALLOCATE * (extra + 1)

\* The container stays at the head of the free list.
AllocContainer_Keeps(c) ==
    /\ freeContainers # {} /\ c = Least(freeContainers)
    /\ UNCHANGED <<containers, freeContainers, extraContainers>>

AllocContainer(c) ==
    \/ /\ freeContainers # {} /\ c = Least(freeContainers)
       /\ freeContainers' = freeContainers \ {c}
       /\ UNCHANGED <<containers, extraContainers>>
    \/ /\ freeContainers = {}
       /\ Batch(containers, extraContainers) \subseteq Container        \* a bound
       /\ c = Least(Batch(containers, extraContainers))
       /\ containers' = containers \union Batch(containers, extraContainers)
       /\ freeContainers' = Batch(containers, extraContainers) \ {c}
       /\ extraContainers' = extraContainers + 1

AllocMethod(m) ==
    \/ /\ freeMethods # {} /\ m = Least(freeMethods)
       /\ freeMethods' = freeMethods \ {m}
       /\ UNCHANGED <<allMethods, extraMethods>>
    \/ /\ freeMethods = {}
       /\ Batch(allMethods, extraMethods) \subseteq Method              \* a bound
       /\ m = Least(Batch(allMethods, extraMethods))
       /\ allMethods' = allMethods \union Batch(allMethods, extraMethods)
       /\ freeMethods' = Batch(allMethods, extraMethods) \ {m}
       /\ extraMethods' = extraMethods + 1

-----------------------------------------------------------------------------
(* Containers.                                                             *)

InTree(c) == c \in DOMAIN parent

\* A full parent is a fatal error of AddSubContainer.
RoomFor(p) == Len(children[p]) < MAX_CHILDREN_PER_CONTAINER

AddSubContainer(p, child, name) ==
    children' = [children EXCEPT ![p] = Append(@, [name |-> name, child |-> child])]

OSCNewContainer(name, p, me) ==
    /\ name \notin Slashed
    /\ AllocContainer(me)
    /\ RoomFor(p)
    /\ AddSubContainer(p, me, name)
    /\ parent' = [c \in DOMAIN parent \union {me} |-> IF c = me THEN p ELSE parent[c]]
    /\ result' = "ok"
    /\ UNCHANGED <<methods, allMethods, freeMethods, extraMethods>>

(* The name is checked after the container has been allocated.             *)
OSCNewContainer_Slash(name, p, me) ==
    /\ name \in Slashed
    /\ AllocContainer(me)
    /\ result' = "refused"
    /\ UNCHANGED <<tree, allMethods, freeMethods, extraMethods>>

(* The allocator of the client gives no memory.                            *)
OSCNewContainer_NoMemory ==
    /\ freeContainers = {}
    /\ result' = "no memory"
    /\ extraContainers' = IF extraContainers < 3 THEN extraContainers + 1 ELSE 3  \* a bound
    /\ UNCHANGED <<tree, containers, freeContainers, allMethods, freeMethods, extraMethods>>

OSCAddContainerAlias(c, otherName) ==
    /\ InTree(c) /\ c # Top
    /\ IF RoomFor(parent[c])
       THEN AddSubContainer(parent[c], c, otherName) /\ result' = "ok"
       ELSE result' = "refused" /\ UNCHANGED children
    /\ UNCHANGED <<parent, methods, store>>

(* One turn of the outer loop of OSCRemoveContainerAlias at slot i.  When  *)
(* the name is there, the inner loop moves the entries behind it up; it    *)
(* also takes one from the number of children at each of its turns, so     *)
(* that it stops half-way, and the last entry alone is not removed at all. *)
RemovalAt(list, i) ==
    LET turns == (Len(list) - i + 1) \div 2
    IN  [k \in 1 .. Len(list) - turns |->
            IF k \in i .. i + turns - 1 THEN list[k + 1] ELSE list[k]]

(* A turn of the outer loop; when it finds the name of a sibling that is a *)
(* fatal error.                                                            *)
AtSlot(r, i, c, otherName) ==
    IF r.fatal \/ i \notin DOMAIN r.list \/ r.list[i].name # otherName THEN r
    ELSE IF r.list[i].child = c THEN [r EXCEPT !.list = RemovalAt(@, i)]
                                ELSE [r EXCEPT !.fatal = TRUE]

AliasRemoved(list, c, otherName) ==
    LET upTo[i \in 0 .. Len(list)] ==
            IF i = 0 THEN [list |-> list, fatal |-> FALSE]
            ELSE AtSlot(upTo[i - 1], i, c, otherName)
    IN  upTo[Len(list)]

\* A name that is not there is a fatal error as well.
OSCRemoveContainerAlias(c, otherName) ==
    /\ c # Top
    /\ \E i \in DOMAIN children[parent[c]] : children[parent[c]][i].name = otherName
    /\ ~AliasRemoved(children[parent[c]], c, otherName).fatal
    /\ children' = [children EXCEPT ![parent[c]] = AliasRemoved(@, c, otherName).list]
    /\ result' = "alias removed"
    /\ UNCHANGED <<parent, methods, store>>

-----------------------------------------------------------------------------
(* Methods.                                                                *)

OSCNewMethod(name, me, m) ==
    /\ name \notin Slashed
    /\ Len(methods[me]) < MAX_METHODS_PER_CONTAINER
    /\ AllocMethod(m)
    /\ methods' = [methods EXCEPT ![me] = Append(@, [name |-> name, method |-> m])]
    /\ result' = "ok"
    /\ UNCHANGED <<parent, children, containers, freeContainers, extraContainers>>

OSCNewMethod_Refused(name, me) ==
    /\ \/ name \in Slashed
       \/ Len(methods[me]) >= MAX_METHODS_PER_CONTAINER
       \/ freeMethods = {}
    /\ result' = "refused"
    /\ UNCHANGED <<tree, store>>

Build ==
    \/ \E p \in DOMAIN parent, me \in Container \ {Top} :
          \/ \E name \in Names : OSCNewContainer(name, p, me)
          \/ \E name \in Slashed : OSCNewContainer_Slash(name, p, me)
    \/ OSCNewContainer_NoMemory
    \/ \E c \in DOMAIN parent, name \in Names : OSCAddContainerAlias(c, name)
    \/ \E me \in DOMAIN parent, name \in Names \union Slashed :
          \/ \E m \in Method : OSCNewMethod(name, me, m)
          \/ OSCNewMethod_Refused(name, me)

RemoveAlias == \E c \in DOMAIN parent, name \in Names : OSCRemoveContainerAlias(c, name)

SpaceNext == Build \/ RemoveAlias

SpaceSpec == SpaceInit /\ [][SpaceNext]_spaceVars

-----------------------------------------------------------------------------
(* Addresses.                                                              *)

(* The first name a container has in its parent's list.                    *)
ContainerName(c) ==
    LET list  == children[parent[c]]
        first == CHOOSE i \in DOMAIN list :
                    list[i].child = c /\ \A j \in 1 .. i - 1 : list[j].child # c
    IN  list[first].name

(* The names on the way from the root, each followed by a slash in the     *)
(* source, after the slash of the root; a name counts as one character.    *)
gasHelp[c \in Container] ==
    IF c = Top THEN <<>> ELSE Append(gasHelp[parent[c]], ContainerName(c))

AddressLength(c) == 1 + 2 * Len(gasHelp[c])

OSCGetAddressString(c, maxLength) ==
    IF maxLength > 1 /\ AddressLength(c) + 1 <= maxLength
    THEN [ok |-> TRUE, address |-> gasHelp[c]]
    ELSE [ok |-> FALSE, address |-> <<>>]

-----------------------------------------------------------------------------
(* Dispatch.  A result is the list of methods to call, the number of nodes *)
(* that are left, and whether a null pointer was followed.                 *)

Smaller(a, b) == IF a < b THEN a ELSE b

(* The base case: each node is put in front of the ones before it, as long *)
(* as there are nodes.                                                     *)
MatchingMethods(part, c, nodes) ==
    LET matching == SelectSeq(methods[c], LAMBDA e : e.name \in part)
        taken    == SubSeq(matching, 1, Smaller(Len(matching), nodes))
    IN  [calls |-> Reverse([i \in DOMAIN taken |-> taken[i].method]),
         nodes |-> nodes - Len(taken), crashed |-> FALSE]

\* The list found so far is lost.
Joined_Forgets(result0, sub) == sub

(* The end of the new list is linked to the beginning of the old one; but  *)
(* an empty new list has no end.                                           *)
Joined(result0, sub) ==
    IF result0.calls = <<>> THEN sub
    ELSE [calls |-> sub.calls \o result0.calls, nodes |-> sub.nodes,
          crashed |-> sub.crashed \/ sub.calls = <<>>]

DispatchSubMessage[pattern \in Seq(SUBSET Names), c \in Container, nodes \in Nat] ==
    IF Len(pattern) = 1 THEN MatchingMethods(pattern[1], c, nodes)
    ELSE FoldLeft(LAMBDA r, e :
                     IF e.name \notin pattern[1] \/ r.crashed THEN r
                     ELSE Joined(r, DispatchSubMessage[Tail(pattern), e.child, r.nodes]),
                  [calls |-> <<>>, nodes |-> nodes, crashed |-> FALSE], children[c])

Dispatch(pattern) == DispatchSubMessage[pattern, Top, SpareNodes]

-----------------------------------------------------------------------------
(* The way of an address through the tree: a slot of the list of children  *)
(* for each part but the last, and a slot of the list of methods.          *)
Slots == 1 .. 3     \* as many as the lists are long in the instances

Along(walk) ==
    LET at[k \in 1 .. Len(walk)] ==
            IF k = 1 THEN Top
            ELSE IF at[k - 1] # NoContainer /\ walk[k - 1] \in DOMAIN children[at[k - 1]]
                 THEN children[at[k - 1]][walk[k - 1]].child ELSE NoContainer
    IN  at

Matched(pattern) ==
    {w \in [1 .. Len(pattern) -> Slots] :
        LET at == Along(w) n == Len(pattern)
        IN  /\ at[n] # NoContainer /\ w[n] \in DOMAIN methods[at[n]]
            /\ methods[at[n]][w[n]].name \in pattern[n]
            /\ \A k \in 1 .. n - 1 : children[at[k]][w[k]].name \in pattern[k]}

Patterns == UNION {[1 .. n -> SUBSET Names \ {{}}] : n \in 1 .. 3}

TimesCalled(m, calls) == Cardinality({i \in DOMAIN calls : calls[i] = m})

MethodAt(walk) == methods[Along(walk)[Len(walk)]][walk[Len(walk)]].method

SpaceTypeOK ==
    /\ DOMAIN parent \subseteq containers \union {Top}
    /\ freeContainers \subseteq containers /\ freeMethods \subseteq allMethods
    /\ containers \subseteq Container /\ allMethods \subseteq Method
    /\ \A c \in Container :
          /\ Len(children[c]) <= MAX_CHILDREN_PER_CONTAINER
          /\ Len(methods[c]) <= MAX_METHODS_PER_CONTAINER

(* The tree and the free lists share nothing: no container is handed out   *)
(* twice, each one hangs below its parent only, and no method belongs to   *)
(* two containers (AllocContainer, AllocMethod and their callers).         *)
NothingShared ==
    /\ DOMAIN parent \intersect freeContainers = {}
    /\ \A c \in DOMAIN parent : \A i \in DOMAIN children[c] :
          LET d == children[c][i].child IN d \in DOMAIN parent /\ parent[d] = c
    /\ \A c, d \in Container : \A i \in DOMAIN methods[c], j \in DOMAIN methods[d] :
          /\ methods[c][i].method \notin freeMethods
          /\ methods[c][i].method = methods[d][j].method => c = d /\ i = j

(* "produce a list of the callbacks corresponding to all the addresses     *)
(* that were matched" (OSC-dispatch.h), as long as there are nodes: each   *)
(* address of a method that matches is called once, so that a method below *)
(* a container with an alias is called for each of its names.  This holds  *)
(* when no null pointer is followed (DispatchSubMessage).                  *)
EveryMatchIsCalled ==
    \A pattern \in Patterns :
        LET r == Dispatch(pattern)
            matched == {<<w, MethodAt(w)>> : w \in Matched(pattern)}
        IN  ~r.crashed =>
              /\ Len(r.calls) = Smaller(SpareNodes, Cardinality(matched))
              /\ \A m \in Range(r.calls) :
                    TimesCalled(m, r.calls) <= Cardinality({p \in matched : p[2] = m})

(* The address the kit gives for a container leads back to it, and is      *)
(* given whenever the caller has room for it (OSCGetAddressString,         *)
(* ContainerName, gasHelp).                                                *)
LookedUp[address \in Seq(Names), c \in Container] ==
    IF address = <<>> THEN {c}
    ELSE UNION {LookedUp[Tail(address), children[c][i].child] :
                  i \in {j \in DOMAIN children[c] : children[c][j].name = Head(address)}}

AddressLeadsBack ==
    \A c \in DOMAIN parent, maxLength \in 0 .. 6 :
        LET r == OSCGetAddressString(c, maxLength)
        IN  IF r.ok THEN c \in LookedUp[r.address, Top]
            ELSE maxLength < 2 * (1 + Len(gasHelp[c]))
=============================================================================
