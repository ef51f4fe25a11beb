--------------------------- MODULE ScoreTimeline ---------------------------
(***************************************************************************)
(* The time lines a score stands for, computed from the meaning of its     *)
(* classes and without constraints: the lengths of the items from the      *)
(* leaves to the root, the start times from the root to the leaves.  They  *)
(* follow from the parameters that nothing else determines: the offsets    *)
(* and pitches, the durations of the elements and the start of the score.  *)
(***************************************************************************)
EXTENDS ScoreSearch

FreeParam ==
  {p \in Param : p[2] \in {"offsetTime", "pitch"}}
    \cup {duration(i) : i \in {j \in Item : ~IsContainer(j)}}
    \cup {startTime(top)}

(* The choices of values for them; one value alone leaves no choice.       *)
Given == {p \in FreeParam : Cardinality(InitFD(p)) = 1}

FreeChoices ==
  LET loose == FreeParam \ Given
      choices == {ch \in [loose -> UNION {InitFD(p) : p \in loose}] :
                    \A p \in loose : ch[p] \in InitFD(p)}
  IN  {[p \in FreeParam |-> IF p \in loose THEN ch[p] ELSE ReflectMin(InitFD(p))] :
         ch \in choices}

(* The place of an item in the score.                                      *)
Container(i) == CHOOSE c \in Item : \E k \in DOMAIN items[c] : items[c][k] = i
Index(i) == CHOOSE k \in DOMAIN items[Container(i)] : items[Container(i)][k] = i

(* The first n of some lengths one after the other; the latest time.       *)
Elapsed(lengths, n) ==
  LET sum[k \in 0 .. Len(lengths)] == IF k = 0 THEN 0 ELSE sum[k - 1] + lengths[k]
  IN  sum[n]

Latest(times) == ReflectMax({0} \cup times)

(* The items of i with the pauses before them.                             *)
Spans(ch, len, i) ==
  [k \in 1 .. Len(items[i]) |-> ch[offsetTime(items[i][k])] + len[items[i][k]]]

LengthOf(ch, len, i) ==
  CASE Class[i] = "seq" -> Elapsed(Spans(ch, len, i), Len(items[i]))
    [] Class[i] = "sim" -> Latest({Spans(ch, len, i)[k] : k \in 1 .. Len(items[i])})
    [] OTHER -> ch[duration(i)]

BeginOf(ch, len, begin, i) ==
  IF i = top THEN ch[startTime(top)]
  ELSE begin[Container(i)] + ch[offsetTime(i)]
         + (IF Class[Container(i)] = "seq"
            THEN Elapsed(Spans(ch, len, Container(i)), Index(i) - 1)
            ELSE 0)

Lengths(ch) == LET len[i \in Item] == LengthOf(ch, len, i) IN len

Begins(ch) ==
  LET begin[i \in Item] == BeginOf(ch, Lengths(ch), begin, i) IN begin

(* The value of a parameter; what is not a parameter of an item is a       *)
(* maximum over the first items of a Simultaneous.                         *)
ValueOf(ch, len, begin, p) ==
  CASE p \in FreeParam -> ch[p]
    [] p \notin FreeParam /\ p[2] = "startTime" -> begin[p[1]]
    [] p \notin FreeParam /\ p[2] = "duration" -> len[p[1]]
    [] p[2] = "endTime" -> begin[p[1]] + len[p[1]]
    [] p[2] = "partial" ->
         Latest({begin[items[p[1]][k]] + len[items[p[1]][k]] : k \in 1 .. p[3]})

Layout(ch) == [p \in Param |-> ValueOf(ch, Lengths(ch), Begins(ch), p)]

Layouts == {Layout(ch) : ch \in FreeChoices}

(* The constraints told by constrainTiming mean what the classes promise:  *)
(* an exhausted search has found exactly the time lines that lie in the    *)
(* initial domains and obey the rules, items of a sequential following     *)
(* each other after their offsets, items of a simultaneous starting        *)
(* together after their offsets.                                           *)
FindsAllTimelines ==
  status = "exhausted" =>
    {Assignment(found[k]) : k \in DOMAIN found}
      = {s \in Layouts : /\ \A p \in Param : s[p] \in InitFD(p)
                         /\ \A c \in Rules : Holds(s, c)}
=============================================================================
