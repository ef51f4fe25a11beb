----------------------- MODULE ScoreSearcher_proofs ------------------------
(***************************************************************************)
(* Theorems about ScoreSearcher, for any number of calls and clients and   *)
(* any lengths: its searches are searches with timeout, so that the safety *)
(* properties of SearchTimeout carry over, and what its scripts see is the *)
(* past, of which inputs and results show the same part.                   *)
(***************************************************************************)
EXTENDS ScoreSearcher, FiniteSetTheorems, SequenceTheorems, TLAPS

Searches == INSTANCE SearchTimeout_proofs

(* Every step of the search object is a step of one of its searches, or    *)
(* leaves all of them alone.                                               *)
LEMMA StepSimulates == [Next]_vars => [Search!Next]_searchVars
<1> SUFFICES ASSUME [Next]_vars
             PROVE  [Search!Next]_searchVars
  OBVIOUS
<1>1. CASE UNCHANGED vars
  BY <1>1 DEF vars
<1>2. CASE reset
  BY <1>2 DEF reset
<1>3. ASSUME NEW c \in Call, NextCalled(c)
      PROVE  [Search!Next]_searchVars
  BY <1>3 DEF NextCalled
<1>4. ASSUME NEW c \in Call, NextStep(c)
      PROVE  [Search!Next]_searchVars
  BY <1>4 DEF NextStep, NextInput, NextSearch, NextOutput, Search!Next
<1>5. ASSUME NEW c \in Call, Search!Thread1(c) \/ Search!Thread2(c) \/ Search!Search(c)
      PROVE  [Search!Next]_searchVars
  BY <1>5 DEF Search!Next
<1>. QED  BY <1>1, <1>2, <1>3, <1>4, <1>5 DEF Next

(* The initial states and the steps of the search object are those of      *)
(* SearchTimeout.                                                          *)
THEOREM Implementation == Spec => ImplementsSearches
<1>1. Init => Search!Init
  BY DEF Init
<1>. QED  BY <1>1, StepSimulates, PTL DEF Spec, ImplementsSearches
-----------------------------------------------------------------------------
(* The safety properties of SearchTimeout, for the searches of the object. *)

(* The two instances of SearchTimeout, the one of the model and the one of *)
(* the theorems, speak of the same steps.                                  *)
LEMMA SameSteps == [Search!Next]_searchVars <=> [Searches!Next]_(Searches!vars)
<1>1. ASSUME NEW c \in Call
      PROVE  /\ Search!Thread1(c) <=> Searches!Thread1(c)
             /\ Search!Thread2(c) <=> Searches!Thread2(c)
             /\ Search!Search(c) <=> Searches!Search(c)
             /\ Search!SearchWithTimeout(c) <=> Searches!SearchWithTimeout(c)
  BY DEF Search!SearchWithTimeout, Searches!SearchWithTimeout,
         Search!Thread1, Searches!Thread1, Search!Thread2,
         Searches!Thread2, Search!Search, Searches!Search, Search!Start1,
         Searches!Start1, Search!Begin, Searches!Begin, Search!Lock1,
         Searches!Lock1, Search!Terminate2, Searches!Terminate2,
         Search!Bind1, Searches!Bind1, Search!Start2, Searches!Start2,
         Search!Expire, Searches!Expire, Search!Lock2, Searches!Lock2,
         Search!KillSearch, Searches!KillSearch, Search!Terminate1,
         Searches!Terminate1, Search!Bind2, Searches!Bind2, Search!Solve,
         Searches!Solve, Search!Raise, Searches!Raise, Search!Tell,
         Searches!Tell, Search!Told, Searches!Told, Search!Gone,
         Searches!Gone
<1>. QED  BY <1>1 DEF Search!Next, Searches!Next, searchVars, Searches!vars

(* The inductive invariant of the single searches holds of the object.     *)
LEMMA SearchInvariance == Spec => []Searches!IInv
<1>1. Searches!ConductAssumption
  BY LengthAssumption DEF Searches!ConductAssumption
<1>2. Init => Searches!IInv
  BY DEF Init, Search!Init, Searches!IInv, Searches!TypeOK, Searches!CallInv, Searches!Gone
<1>3. Searches!IInv /\ [Searches!Next]_(Searches!vars) => Searches!IInv'
  BY <1>1, Searches!StepPreserves
<1>4. Searches!IInv /\ [Next]_vars => Searches!IInv'
  BY <1>3, StepSimulates, SameSteps
<1>. QED  BY <1>2, <1>4, PTL DEF Spec

(* The searches of a search object keep the promises of SearchWithTimeout: *)
(* one of the two threads wins, the result is explained by the winner, and *)
(* with a solver as documented neither runs into an error, though searches *)
(* wait for the results of one another.                                    *)
THEOREM SearchesKeepPromises ==
  Spec => [](Searches!OneWinner /\ Searches!ResultExplained /\ Searches!NoError)
<1>1. Searches!IInv => Searches!OneWinner
  BY DEF Searches!IInv, Searches!TypeOK, Searches!CallInv, Searches!OneWinner
<1>2. Searches!IInv => Searches!ResultExplained
  BY DEF Searches!IInv, Searches!TypeOK, Searches!CallInv, Searches!ResultExplained
<1>3. Searches!IInv => Searches!NoError
  BY DEF Searches!IInv, Searches!CallInv, Searches!NoError
<1>. QED  BY <1>1, <1>2, <1>3, SearchInvariance, PTL

-----------------------------------------------------------------------------
(* The lists of kept inputs and results.                                   *)

(* The list r is c in front of the newest elements of s, n in all.         *)
Prepends(r, c, s, n) ==
  /\ r \in Seq(Call)
  /\ Len(r) = n \/ (Len(r) = Len(s) + 1 /\ Len(r) < n)
  /\ Len(r) <= n /\ Len(r) <= Len(s) + 1
  /\ \A k \in DOMAIN r : \/ k = 1 /\ r[k] = c
                         \/ k > 1 /\ k - 1 \in DOMAIN s /\ r[k] = s[k - 1]

(* What ReduceList keeps when an element is put in front of a list.        *)
LEMMA Prepended ==
  ASSUME NEW s \in Seq(Call), NEW c \in Call, NEW n \in Nat
  PROVE  Prepends(ReduceList(<<c>> \o s, n), c, s, n)
<1> DEFINE r == ReduceList(<<c>> \o s, n)
<1> DEFINE t == <<c>> \o s
           m == IF n < Len(t) THEN n ELSE Len(t)
<1>1. /\ <<c>> \in Seq(Call) /\ Len(<<c>>) = 1 /\ <<c>>[1] = c
      /\ Len(s) \in Nat /\ DOMAIN s = 1 .. Len(s)
  OBVIOUS
<1>2. t \in Seq(Call) /\ Len(t) = Len(s) + 1
      /\ \A k \in 1 .. Len(t) : t[k] = IF k = 1 THEN c ELSE s[k - 1]
  BY <1>1, ConcatProperties
<1>3. m \in 0 .. Len(t) /\ (m = n \/ (m = Len(s) + 1 /\ m < n))
  BY <1>1, <1>2
<1>4. r = SubSeq(t, 1, m)
  BY DEF ReduceList
<1> HIDE DEF t, m, r
<1>5. /\ \A k \in 1 .. m : t[k] \in Call
      /\ m \in Nat
  BY <1>1, <1>2, <1>3
<1>6. r \in Seq(Call) /\ Len(r) = m /\ \A k \in 1 .. m : r[k] = t[k]
  <2>1. /\ SubSeq(t, 1, m) \in Seq(Call)
        /\ Len(SubSeq(t, 1, m)) = IF 1 <= m THEN m - 1 + 1 ELSE 0
        /\ \A k \in 1 .. m - 1 + 1 : SubSeq(t, 1, m)[k] = t[1 + k - 1]
    BY <1>5, SubSeqProperties
  <2>2. m - 1 + 1 = m /\ (~ 1 <= m => m = 0) /\ \A k \in 1 .. m : 1 + k - 1 = k
    BY <1>5
  <2>. QED  BY <1>4, <2>1, <2>2
<1>7. DOMAIN r = 1 .. m
  BY <1>6
<1>8. ASSUME NEW k \in 1 .. m
      PROVE  \/ k = 1 /\ r[k] = c
             \/ k > 1 /\ k - 1 \in DOMAIN s /\ r[k] = s[k - 1]
  <2>1. k \in 1 .. Len(t)
    BY <1>1, <1>2, <1>3
  <2>2. r[k] = t[k]
    BY <1>6
  <2>3. CASE k = 1
    BY <1>2, <2>1, <2>2, <2>3
  <2>4. CASE k # 1
    <3>1. k > 1 /\ k - 1 \in DOMAIN s
      BY <1>1, <1>2, <2>1, <2>4
    <3>. QED  BY <1>2, <2>1, <2>2, <2>4, <3>1
  <2>. QED  BY <2>3, <2>4
<1>9. /\ Len(r) = n \/ (Len(r) = Len(s) + 1 /\ Len(r) < n)
      /\ Len(r) <= n /\ Len(r) <= Len(s) + 1
  BY <1>1, <1>2, <1>3, <1>6
<1>10. Prepends(r, c, s, n)
  BY <1>6, <1>7, <1>8, <1>9 DEF Prepends
<1>. QED  BY <1>10 DEF r

(* Type correctness of the attributes, apart from that of the searches.    *)
HistoryOK ==
  /\ inputScores \in Seq(Call) /\ Len(inputScores) <= inputLength
  /\ outputScores \in Seq(Call) /\ Len(outputScores) <= outputLength
  /\ script \in [Call -> [inputs : Seq(Call), outputs : Seq(Call)]]
  /\ stage \in [Call -> {"uncalled", "called", "input", "search", "returned"}]

(* HistoryOK is inductive.                                                 *)
LEMMA HistoryOKStep == HistoryOK /\ [Next]_vars => HistoryOK'
<1> SUFFICES ASSUME HistoryOK, [Next]_vars
             PROVE  HistoryOK'
  OBVIOUS
<1> USE LengthAssumption DEF HistoryOK
<1>1. CASE UNCHANGED history
  BY <1>1 DEF history
<1>2. CASE reset
  BY <1>2 DEF reset
<1>3. ASSUME NEW c \in Call, NextCalled(c)
      PROVE  HistoryOK'
  BY <1>3 DEF NextCalled
<1>4. ASSUME NEW c \in Call, NextInput(c)
      PROVE  HistoryOK'
  <2>1. inputScores' \in Seq(Call) /\ Len(inputScores') <= inputLength
    <3>1. Prepends(inputScores', c, inputScores, inputLength)
      BY <1>4, Prepended DEF NextInput
    <3>. QED  BY <3>1 DEF Prepends
  <2>. QED  BY <1>4, <2>1 DEF NextInput
<1>5. ASSUME NEW c \in Call, NextSearch(c)
      PROVE  HistoryOK'
  BY <1>5 DEF NextSearch
<1>6. ASSUME NEW c \in Call, NextOutput(c)
      PROVE  HistoryOK'
  <2>1. outputScores' \in Seq(Call) /\ Len(outputScores') <= outputLength
    <3>1. Prepends(outputScores', c, outputScores, outputLength)
      BY <1>6, Prepended DEF NextOutput
    <3>. QED  BY <3>1 DEF Prepends
  <2>. QED  BY <1>6, <2>1 DEF NextOutput
<1>. QED  BY <1>1, <1>2, <1>3, <1>4, <1>5, <1>6 DEF Next, NextStep, vars, history

(* Type correctness, and the lists are never longer than asked for.        *)
THEOREM TypeCorrect == Spec => []TypeOK
<1>1. Init => HistoryOK
  BY LengthAssumption DEF Init, HistoryOK
<1>2. Spec => []HistoryOK
  BY <1>1, HistoryOKStep, PTL DEF Spec
<1>3. HistoryOK /\ Searches!IInv => TypeOK
  BY DEF HistoryOK, TypeOK, Searches!IInv, Searches!TypeOK, Searches!Gone,
         Search!TypeOK, Search!Gone
<1>. QED  BY <1>2, <1>3, SearchInvariance, PTL
-----------------------------------------------------------------------------
(* What a script sees.                                                     *)

Distinct(s) == \A j, k \in DOMAIN s : j # k => s[j] # s[k]

(* The kept inputs are those of calls that have come so far, the kept      *)
(* results those of calls that have returned, and a call that has not      *)
(* begun is in no list and sees nothing.                                   *)
Past ==
  /\ \A d \in Elements(inputScores) : stage[d] \in {"input", "search", "returned"}
  /\ \A d \in Elements(outputScores) : stage[d] = "returned"
  /\ Distinct(inputScores) /\ Distinct(outputScores)
  /\ \A c \in Call : stage[c] = "uncalled" => script[c] = [inputs |-> << >>, outputs |-> << >>]
  /\ ScriptsSeeThePast

(* A call that is in neither list is put in front: nothing is in it twice. *)
LEMMA PrependedDistinct ==
  ASSUME NEW s, NEW c, NEW n, Distinct(s), c \notin Elements(s),
         NEW r, Prepends(r, c, s, n)
  PROVE  Distinct(r) /\ Elements(r) \subseteq {c} \cup Elements(s)
<1>1. /\ r \in Seq(Call)
      /\ \A k \in DOMAIN r : \/ k = 1 /\ r[k] = c
                             \/ k > 1 /\ k - 1 \in DOMAIN s /\ r[k] = s[k - 1]
  BY DEF Prepends
<1>2. DOMAIN r \subseteq Nat
  BY <1>1
<1>3. \A k \in DOMAIN r : k # 1 => r[k] \in Elements(s)
  BY <1>1 DEF Elements
<1>4. ASSUME NEW j \in DOMAIN r, NEW k \in DOMAIN r, j # k
      PROVE  r[j] # r[k]
  <2>1. CASE j = 1 \/ k = 1
    BY <1>1, <1>3, <1>4, <2>1
  <2>2. CASE j # 1 /\ k # 1
    BY <1>1, <1>2, <1>4, <2>2 DEF Distinct
  <2>. QED  BY <2>1, <2>2
<1>5. Elements(r) \subseteq {c} \cup Elements(s)
  BY <1>1, <1>3 DEF Elements
<1>. QED  BY <1>4, <1>5 DEF Distinct

(* Past is inductive, whatever the clients do.                             *)
LEMMA PastStep == HistoryOK /\ Past /\ [Next]_vars => Past'
<1> SUFFICES ASSUME HistoryOK, Past, [Next]_vars
             PROVE  Past'
  OBVIOUS
<1> DEFINE Kept == UNCHANGED script /\ \A d \in Call : stage[d] = "returned" => stage'[d] = "returned"
<1>1. ASSUME Kept
      PROVE  ScriptsSeeThePast'
  <2>1. \A d \in Call : Elements(script[d].outputs) \subseteq Call
    BY DEF HistoryOK, Elements
  <2>2. \A b \in Call : \A d \in Elements(script[b].outputs) :
          stage'[d] = "returned" /\ b \notin Elements(script[d].outputs)
    BY <1>1, <2>1 DEF Past, ScriptsSeeThePast
  <2>. QED  BY <1>1, <2>2 DEF Past, ScriptsSeeThePast, Elements
<1>2. CASE UNCHANGED history
  <2>1. ScriptsSeeThePast'
    BY <1>2, <1>1 DEF history
  <2>. QED  BY <1>2, <2>1 DEF history, Past, Elements, Distinct
<1>3. CASE reset
  BY <1>3 DEF reset, Past, ScriptsSeeThePast, Elements, Distinct
<1>4. ASSUME NEW c \in Call, NextCalled(c)
      PROVE  Past'
  <2>1. /\ stage[c] = "uncalled"
        /\ stage' = [stage EXCEPT ![c] = "called"]
        /\ script' = [script EXCEPT ![c] = [inputs |-> inputScores, outputs |-> outputScores]]
        /\ UNCHANGED <<inputScores, outputScores>>
    BY <1>4 DEF NextCalled
  <2>2. stage \in [Call -> {"uncalled", "called", "input", "search", "returned"}]
        /\ script \in [Call -> [inputs : Seq(Call), outputs : Seq(Call)]]
    BY DEF HistoryOK
  <2>3. /\ stage'[c] = "called" /\ \A d \in Call : d # c => stage'[d] = stage[d]
        /\ \A d \in Call : d # c => script'[d] = script[d]
        /\ script'[c].inputs = inputScores /\ script'[c].outputs = outputScores
    BY <2>1, <2>2
  <2>4. /\ Elements(inputScores) \subseteq Call /\ Elements(outputScores) \subseteq Call
        /\ c \notin Elements(inputScores) /\ c \notin Elements(outputScores)
    <3>1. Elements(inputScores) \subseteq Call /\ Elements(outputScores) \subseteq Call
      BY DEF HistoryOK, Elements
    <3>2. c \notin Elements(inputScores) /\ c \notin Elements(outputScores)
      BY <2>1 DEF Past
    <3>. QED  BY <3>1, <3>2
  <2>5. \A d \in Call : Elements(script[d].outputs) \subseteq Call
    BY <2>2 DEF Elements
  <2>6. ASSUME NEW b \in Call
        PROVE  /\ b \notin Elements(script'[b].inputs) \cup Elements(script'[b].outputs)
               /\ \A d \in Elements(script'[b].outputs) :
                    stage'[d] = "returned" /\ b \notin Elements(script'[d].outputs)
               /\ Distinct(script'[b].inputs) /\ Distinct(script'[b].outputs)
    <3>1. CASE b = c
      <4>1. ASSUME NEW d \in Elements(outputScores)
            PROVE  stage[d] = "returned" /\ d # c /\ c \notin Elements(script[d].outputs)
        BY <2>1, <2>4 DEF Past, ScriptsSeeThePast
      <4>2. \A d \in Elements(outputScores) : d \in Call /\ script'[d] = script[d] /\ stage'[d] = stage[d]
        BY <2>3, <2>4, <4>1
      <4>. QED  BY <2>3, <2>4, <3>1, <4>1, <4>2 DEF Past
    <3>2. CASE b # c
      <4>1. /\ b \notin Elements(script[b].inputs) \cup Elements(script[b].outputs)
            /\ \A d \in Elements(script[b].outputs) :
                 stage[d] = "returned" /\ b \notin Elements(script[d].outputs)
            /\ Distinct(script[b].inputs) /\ Distinct(script[b].outputs)
        BY DEF Past, ScriptsSeeThePast, Distinct
      <4>2. \A d \in Elements(script[b].outputs) : d \in Call /\ d # c
        BY <2>1, <2>5, <4>1
      <4>. QED  BY <2>3, <3>2, <4>1, <4>2
    <3>. QED  BY <3>1, <3>2
  <2>7. ScriptsSeeThePast'
    BY <2>6 DEF ScriptsSeeThePast, Distinct, Elements
  <2>8. \A b \in Call : stage'[b] = "uncalled" => script'[b] = [inputs |-> << >>, outputs |-> << >>]
    BY <2>3 DEF Past
  <2>9. /\ \A d \in Elements(inputScores) : stage'[d] \in {"input", "search", "returned"}
        /\ \A d \in Elements(outputScores) : stage'[d] = "returned"
    BY <2>3, <2>4 DEF Past
  <2>. QED  BY <2>1, <2>7, <2>8, <2>9 DEF Past, Distinct, Elements
<1>5. ASSUME NEW c \in Call, NextInput(c)
      PROVE  Past'
  <2>1. /\ stage[c] = "called"
        /\ inputScores' = ReduceList(<<c>> \o inputScores, inputLength)
        /\ stage' = [stage EXCEPT ![c] = "input"]
        /\ UNCHANGED <<outputScores, script>>
    BY <1>5 DEF NextInput
  <2>2. stage'[c] = "input" /\ \A d \in Call : d # c => stage'[d] = stage[d]
    BY <2>1 DEF HistoryOK
  <2>3. /\ Distinct(inputScores) /\ c \notin Elements(inputScores)
        /\ Prepends(inputScores', c, inputScores, inputLength)
    BY <2>1, LengthAssumption, Prepended DEF HistoryOK, Past
  <2>4. Distinct(inputScores') /\ Elements(inputScores') \subseteq {c} \cup Elements(inputScores)
    BY <2>1, <2>3, PrependedDistinct
  <2>5. Elements(inputScores) \subseteq Call /\ Elements(outputScores) \subseteq Call
    BY DEF HistoryOK, Elements
  <2>6. /\ \A d \in Elements(inputScores') : stage'[d] \in {"input", "search", "returned"}
        /\ \A d \in Elements(outputScores) : stage'[d] = "returned"
    BY <2>1, <2>2, <2>4, <2>5 DEF Past
  <2>7. ScriptsSeeThePast'
    BY <2>1, <2>2, <1>1
  <2>8. \A b \in Call : stage'[b] = "uncalled" => script[b] = [inputs |-> << >>, outputs |-> << >>]
    BY <2>2 DEF Past
  <2>. QED  BY <2>1, <2>4, <2>6, <2>7, <2>8 DEF Past, Distinct, Elements
<1>6. ASSUME NEW c \in Call, NextSearch(c)
      PROVE  Past'
  <2>1. /\ stage[c] = "input"
        /\ stage' = [stage EXCEPT ![c] = "search"]
        /\ UNCHANGED <<inputScores, outputScores, script>>
    BY <1>6 DEF NextSearch
  <2>2. stage'[c] = "search" /\ \A d \in Call : d # c => stage'[d] = stage[d]
    BY <2>1 DEF HistoryOK
  <2>3. Elements(inputScores) \subseteq Call /\ Elements(outputScores) \subseteq Call
    BY DEF HistoryOK, Elements
  <2>4. /\ \A d \in Elements(inputScores) : stage'[d] \in {"input", "search", "returned"}
        /\ \A d \in Elements(outputScores) : stage'[d] = "returned"
    BY <2>1, <2>2, <2>3 DEF Past
  <2>5. ScriptsSeeThePast'
    BY <2>1, <2>2, <1>1
  <2>6. \A b \in Call : stage'[b] = "uncalled" => script[b] = [inputs |-> << >>, outputs |-> << >>]
    BY <2>2 DEF Past
  <2>. QED  BY <2>1, <2>4, <2>5, <2>6 DEF Past, Distinct, Elements
<1>7. ASSUME NEW c \in Call, NextOutput(c)
      PROVE  Past'
  <2>1. /\ stage[c] = "search"
        /\ outputScores' = ReduceList(<<c>> \o outputScores, outputLength)
        /\ stage' = [stage EXCEPT ![c] = "returned"]
        /\ UNCHANGED <<inputScores, script>>
    BY <1>7 DEF NextOutput
  <2>2. stage'[c] = "returned" /\ \A d \in Call : d # c => stage'[d] = stage[d]
    BY <2>1 DEF HistoryOK
  <2>3. /\ Distinct(outputScores) /\ c \notin Elements(outputScores)
        /\ Prepends(outputScores', c, outputScores, outputLength)
    BY <2>1, LengthAssumption, Prepended DEF HistoryOK, Past
  <2>4. Distinct(outputScores') /\ Elements(outputScores') \subseteq {c} \cup Elements(outputScores)
    BY <2>1, <2>3, PrependedDistinct, SMTT(20)
  <2>5. Elements(inputScores) \subseteq Call /\ Elements(outputScores) \subseteq Call
    BY DEF HistoryOK, Elements
  <2>6. /\ \A d \in Elements(inputScores) : stage'[d] \in {"input", "search", "returned"}
        /\ \A d \in Elements(outputScores') : stage'[d] = "returned"
    BY <2>1, <2>2, <2>4, <2>5 DEF Past
  <2>7. ScriptsSeeThePast'
    BY <2>1, <2>2, <1>1
  <2>8. \A b \in Call : stage'[b] = "uncalled" => script[b] = [inputs |-> << >>, outputs |-> << >>]
    BY <2>2 DEF Past
  <2>. QED  BY <2>1, <2>4, <2>6, <2>7, <2>8 DEF Past, Distinct, Elements
<1>. QED  BY <1>2, <1>3, <1>4, <1>5, <1>6, <1>7 DEF Next, NextStep, vars, history

(* Whatever the clients do, a script sees inputs and results of the past,  *)
(* nothing twice, and no two searches wait for each other.                 *)
THEOREM ScriptsSeeThePastTheorem == Spec => []ScriptsSeeThePast
<1>1. Init => HistoryOK /\ Past
  BY LengthAssumption DEF Init, HistoryOK, Past, ScriptsSeeThePast, Distinct, Elements
<1>2. HistoryOK /\ Past /\ [Next]_vars => HistoryOK' /\ Past'
  BY HistoryOKStep, PastStep
<1>3. Past => ScriptsSeeThePast
  BY DEF Past
<1>. QED  BY <1>1, <1>2, <1>3, PTL DEF Spec
-----------------------------------------------------------------------------
(* With one client inputs and results correspond.                          *)

(* The calls that have stored their inputs.                                *)
Entered == {c \in Call : stage[c] \in {"input", "search", "returned"}}

(* Both lists show the same part of the past, as far as they reach.        *)
SameLists(ins, outs) ==
  /\ \A k \in DOMAIN ins \cap DOMAIN outs : ins[k] = outs[k]
  /\ Len(ins) < Len(outs) => Len(ins) = inputLength
  /\ Len(outs) < Len(ins) => Len(outs) = outputLength

(* The calls return one after the other; the newest input is that of the   *)
(* newest call; the lists correspond, except that the result of a call may *)
(* still be missing, and correspond again when it is there.                *)
OneByOne ==
  /\ \A c \in Call : stage[c] # "uncalled" => \A d \in 1 .. c - 1 : stage[d] = "returned"
  /\ \A k \in DOMAIN inputScores :
       /\ inputScores[k] = inputScores[1] - k + 1
       /\ inputScores[1] \in Entered
       /\ \A d \in Entered : d <= inputScores[1]
  /\ \A c \in Call :
       stage[c] \in {"input", "search"} =>
         SameLists(inputScores, ReduceList(<<c>> \o outputScores, outputLength))
  /\ (\A c \in Call : stage[c] \notin {"input", "search"}) =>
       SameLists(inputScores, outputScores)
  /\ SameHistory

(* A single client is idle only when no call is being executed.            *)
LEMMA OneClientIdle ==
  ASSUME Clients = 1, ClientIdle
  PROVE  \A c \in Call : stage[c] \in {"uncalled", "returned"}
<1> DEFINE M == {c \in Call : InMethod(c)}
<1>1. IsFiniteSet(Call)
  BY LengthAssumption, FS_Interval DEF Call
<1>2. IsFiniteSet(M) /\ Cardinality(M) \in Nat
  BY <1>1, FS_Subset, FS_CardinalityType
<1>3. Cardinality(M) < 1
  BY DEF ClientIdle
<1>4. M = {}
  BY <1>2, <1>3, FS_EmptySet
<1>. QED  BY <1>4 DEF InMethod

(* While a call is being executed the earlier ones have returned and the   *)
(* later ones have not begun.                                              *)
LEMMA OneActive ==
  ASSUME HistoryOK, OneByOne, NEW c \in Call, stage[c] \notin {"uncalled", "returned"}
  PROVE  \A d \in Call : /\ d < c => stage[d] = "returned"
                         /\ d > c => stage[d] = "uncalled"
<1> SUFFICES ASSUME NEW d \in Call
             PROVE  /\ d < c => stage[d] = "returned"
                    /\ d > c => stage[d] = "uncalled"
  OBVIOUS
<1>1. c \in Nat /\ c >= 1 /\ d \in Nat /\ d >= 1
  BY DEF Call
<1>2. d < c => d \in 1 .. c - 1
  BY <1>1
<1>3. d > c => c \in 1 .. d - 1
  BY <1>1
<1>. QED  BY <1>2, <1>3 DEF OneByOne

(* Lists that correspond still do when the same call is put in front.      *)
LEMMA PrependedSame ==
  ASSUME NEW ins \in Seq(Call), NEW outs \in Seq(Call), NEW c \in Call,
         Len(ins) <= inputLength, Len(outs) <= outputLength, SameLists(ins, outs)
  PROVE  SameLists(ReduceList(<<c>> \o ins, inputLength),
                   ReduceList(<<c>> \o outs, outputLength))
<1> DEFINE r == ReduceList(<<c>> \o ins, inputLength)
           q == ReduceList(<<c>> \o outs, outputLength)
<1>1. Prepends(r, c, ins, inputLength) /\ Prepends(q, c, outs, outputLength)
  BY LengthAssumption, Prepended
<1> HIDE DEF r, q
<1>2. \A k \in DOMAIN r \cap DOMAIN q : r[k] = q[k]
  <2>1. DOMAIN r \subseteq Nat
    BY <1>1 DEF Prepends
  <2>. QED  BY <1>1, <2>1 DEF Prepends, SameLists
<1>3. /\ inputLength \in Nat /\ outputLength \in Nat
      /\ Len(ins) \in Nat /\ Len(outs) \in Nat /\ Len(r) \in Nat /\ Len(q) \in Nat
  BY <1>1, LengthAssumption DEF Prepends
<1>4. /\ Len(r) < Len(q) => Len(r) = inputLength
      /\ Len(q) < Len(r) => Len(q) = outputLength
  BY <1>1, <1>3 DEF Prepends, SameLists
<1>5. SameLists(r, q)
  BY <1>2, <1>4 DEF SameLists
<1>. QED  BY <1>5 DEF r, q

(* A call before a call is a call.                                         *)
LEMMA EarlierCall == \A b \in Call : \A d \in 1 .. b - 1 : d \in Call /\ d # b
BY LengthAssumption DEF Call

(* OneByOne is inductive when there is one client.                         *)
LEMMA OneByOneStep ==
  ASSUME Clients = 1
  PROVE  HistoryOK /\ OneByOne /\ [Next]_vars => OneByOne'
<1> SUFFICES ASSUME HistoryOK, OneByOne, [Next]_vars
             PROVE  OneByOne'
  OBVIOUS
<1>1. ASSUME UNCHANGED script
      PROVE  SameHistory'
  BY <1>1 DEF OneByOne, SameHistory
<1>2. CASE UNCHANGED history
  BY <1>1, <1>2 DEF history, OneByOne, Entered
<1>3. CASE reset
  <2>1. /\ inputScores' = << >> /\ outputScores' = << >>
        /\ UNCHANGED <<script, stage>>
        /\ \A c \in Call : stage[c] \in {"uncalled", "returned"}
    BY <1>3, OneClientIdle DEF reset
  <2>2. SameLists(inputScores', outputScores')
    BY <2>1 DEF SameLists
  <2>. QED  BY <1>1, <2>1, <2>2 DEF OneByOne
<1>4. ASSUME NEW c \in Call, NextCalled(c)
      PROVE  OneByOne'
  <2>1. /\ stage[c] = "uncalled" /\ \A d \in 1 .. c - 1 : stage[d] # "uncalled"
        /\ stage' = [stage EXCEPT ![c] = "called"]
        /\ script' = [script EXCEPT ![c] = [inputs |-> inputScores, outputs |-> outputScores]]
        /\ UNCHANGED <<inputScores, outputScores>>
        /\ \A d \in Call : stage[d] \in {"uncalled", "returned"}
    BY <1>4, OneClientIdle DEF NextCalled
  <2>2. stage'[c] = "called" /\ \A d \in Call : d # c => stage'[d] = stage[d]
    BY <2>1 DEF HistoryOK
  <2>3. SameLists(inputScores, outputScores)
    BY <2>1 DEF OneByOne
  <2>4. SameHistory'
    <3>1. /\ script'[c].inputs = inputScores /\ script'[c].outputs = outputScores
          /\ \A d \in Call : d # c => script'[d] = script[d]
      BY <2>1 DEF HistoryOK
    <3>2. \A k \in DOMAIN inputScores : inputScores[k] = inputScores[1] - k + 1
      BY DEF OneByOne
    <3>. QED  BY <2>3, <3>1, <3>2 DEF OneByOne, SameHistory, SameLists
  <2>5. ASSUME NEW b \in Call, stage'[b] # "uncalled", NEW d \in 1 .. b - 1
        PROVE  stage'[d] = "returned"
    <3>1. d \in Call /\ d # b
      BY EarlierCall
    <3>2. stage[d] = "returned"
      <4>1. CASE b = c
        BY <2>1, <3>1, <4>1
      <4>2. CASE b # c
        BY <2>2, <2>5, <4>2 DEF OneByOne
      <4>. QED  BY <4>1, <4>2
    <3>. QED  BY <2>1, <2>2, <3>1, <3>2
  <2>6. Entered' = Entered
    BY <2>1, <2>2 DEF Entered
  <2>7. \A k \in DOMAIN inputScores : inputScores[1] \in Call
    BY DEF HistoryOK
  <2>8. \A d \in Call : stage'[d] \notin {"input", "search"}
    BY <2>1, <2>2
  <2>9. \A k \in DOMAIN inputScores :
          /\ inputScores[k] = inputScores[1] - k + 1
          /\ inputScores[1] \in Entered'
          /\ \A d \in Entered' : d <= inputScores[1]
    BY <2>6, <2>7 DEF OneByOne
  <2>. QED  BY <2>1, <2>3, <2>4, <2>5, <2>8, <2>9 DEF OneByOne, Entered
<1>5. ASSUME NEW c \in Call, NextInput(c)
      PROVE  OneByOne'
  <2>1. /\ stage[c] = "called"
        /\ inputScores' = ReduceList(<<c>> \o inputScores, inputLength)
        /\ stage' = [stage EXCEPT ![c] = "input"]
        /\ UNCHANGED <<outputScores, script>>
    BY <1>5 DEF NextInput
  <2>2. stage'[c] = "input" /\ \A d \in Call : d # c => stage'[d] = stage[d]
    BY <2>1 DEF HistoryOK
  <2>3. \A d \in Call : /\ d < c => stage[d] = "returned"
                        /\ d > c => stage[d] = "uncalled"
    BY <2>1, OneActive
  <2>4. \A d \in Call : stage[d] \notin {"input", "search"}
    <3>1. \A d \in Call : d < c \/ d = c \/ d > c
      BY DEF Call
    <3>. QED  BY <2>1, <2>3, <3>1
  <2>5. SameLists(inputScores, outputScores)
    BY <2>4 DEF OneByOne
  <2>6. SameLists(inputScores', ReduceList(<<c>> \o outputScores, outputLength))
    BY <2>1, <2>5, PrependedSame DEF HistoryOK
  <2>7. \A b \in Call : stage'[b] # "uncalled" => \A d \in 1 .. b - 1 : stage'[d] = "returned"
    BY <2>1, <2>2, EarlierCall DEF OneByOne
  <2>8. /\ inputScores' \in Seq(Call)
        /\ \A k \in DOMAIN inputScores' :
             \/ k = 1 /\ inputScores'[k] = c
             \/ k > 1 /\ k - 1 \in DOMAIN inputScores /\ inputScores'[k] = inputScores[k - 1]
    <3>1. inputScores \in Seq(Call) /\ inputLength \in Nat
      BY LengthAssumption DEF HistoryOK
    <3>2. Prepends(inputScores', c, inputScores, inputLength)
      BY <2>1, <3>1, Prepended
    <3>. QED  BY <3>2 DEF Prepends
  <2>9. ASSUME NEW k \in DOMAIN inputScores
        PROVE  inputScores[1] = c - 1
    <3>1. inputScores[1] \in Call /\ inputScores[1] \in Entered
      BY DEF HistoryOK, OneByOne
    <3>2. inputScores[1] < c
      BY <2>1, <2>3, <3>1 DEF Call, Entered
    <3>3. c - 1 \in Call /\ c - 1 < c
      BY <3>1, <3>2, LengthAssumption DEF Call
    <3>4. c - 1 \in Entered
      BY <2>3, <3>3 DEF Entered
    <3>5. c - 1 <= inputScores[1]
      BY <3>3, <3>4 DEF OneByOne
    <3>. QED  BY <3>1, <3>2, <3>5 DEF Call
  <2>10. \A d \in Entered' : d <= c
    BY <2>2, <2>3 DEF Entered, Call
  <2>11. ASSUME NEW k \in DOMAIN inputScores'
         PROVE  /\ inputScores'[1] = c
                /\ inputScores'[k] = c - k + 1
    <3>1. k \in Nat /\ 1 \in DOMAIN inputScores' /\ c \in Nat
      BY <2>8 DEF Call
    <3>2. k # 1 => inputScores[k - 1] = inputScores[1] - (k - 1) + 1 /\ inputScores[1] = c - 1
      BY <2>8, <2>9 DEF OneByOne
    <3>. QED  BY <2>8, <3>1, <3>2
  <2>12. \A b \in Call : stage'[b] \in {"input", "search"} => b = c
    BY <2>2, <2>4
  <2>13. c \in Entered'
    BY <2>2 DEF Entered
  <2>14. \A k \in DOMAIN inputScores' :
           /\ inputScores'[k] = inputScores'[1] - k + 1
           /\ inputScores'[1] \in Entered'
           /\ \A d \in Entered' : d <= inputScores'[1]
    BY <2>10, <2>11, <2>13
  <2>. QED  BY <1>1, <2>1, <2>2, <2>6, <2>7, <2>12, <2>14 DEF OneByOne, Entered
<1>6. ASSUME NEW c \in Call, NextSearch(c)
      PROVE  OneByOne'
  <2>1. /\ stage[c] = "input"
        /\ stage' = [stage EXCEPT ![c] = "search"]
        /\ UNCHANGED <<inputScores, outputScores, script>>
    BY <1>6 DEF NextSearch
  <2>2. stage'[c] = "search" /\ \A d \in Call : d # c => stage'[d] = stage[d]
    BY <2>1 DEF HistoryOK
  <2>3. \A b \in Call : stage'[b] # "uncalled" => \A d \in 1 .. b - 1 : stage'[d] = "returned"
    BY <2>1, <2>2, EarlierCall DEF OneByOne
  <2>4. Entered' = Entered
    BY <2>1, <2>2 DEF Entered
  <2>5. \A k \in DOMAIN inputScores : inputScores[1] \in Call
    BY DEF HistoryOK
  <2>6. \A k \in DOMAIN inputScores :
          /\ inputScores[k] = inputScores[1] - k + 1
          /\ inputScores[1] \in Entered'
          /\ \A d \in Entered' : d <= inputScores[1]
    BY <2>4, <2>5 DEF OneByOne
  <2>7. \A b \in Call :
          stage'[b] \in {"input", "search"} =>
            SameLists(inputScores, ReduceList(<<b>> \o outputScores, outputLength))
    BY <2>1, <2>2 DEF OneByOne
  <2>. QED  BY <1>1, <2>1, <2>2, <2>3, <2>6, <2>7 DEF OneByOne, Entered
<1>7. ASSUME NEW c \in Call, NextOutput(c)
      PROVE  OneByOne'
  <2>1. /\ stage[c] = "search"
        /\ outputScores' = ReduceList(<<c>> \o outputScores, outputLength)
        /\ stage' = [stage EXCEPT ![c] = "returned"]
        /\ UNCHANGED <<inputScores, script>>
    BY <1>7 DEF NextOutput
  <2>2. stage'[c] = "returned" /\ \A d \in Call : d # c => stage'[d] = stage[d]
    BY <2>1 DEF HistoryOK
  <2>3. \A d \in Call : /\ d < c => stage[d] = "returned"
                        /\ d > c => stage[d] = "uncalled"
    BY <2>1, OneActive
  <2>4. \A d \in Call : stage'[d] \notin {"input", "search"}
    <3>1. \A d \in Call : d < c \/ d = c \/ d > c
      BY DEF Call
    <3>. QED  BY <2>2, <2>3, <3>1
  <2>5. SameLists(inputScores, outputScores')
    BY <2>1 DEF OneByOne
  <2>6. \A b \in Call : stage'[b] # "uncalled" => \A d \in 1 .. b - 1 : stage'[d] = "returned"
    BY <2>1, <2>2, EarlierCall DEF OneByOne
  <2>7. Entered' = Entered
    BY <2>1, <2>2 DEF Entered
  <2>8. \A k \in DOMAIN inputScores : inputScores[1] \in Call
    BY DEF HistoryOK
  <2>9. \A k \in DOMAIN inputScores :
          /\ inputScores[k] = inputScores[1] - k + 1
          /\ inputScores[1] \in Entered'
          /\ \A d \in Entered' : d <= inputScores[1]
    BY <2>7, <2>8 DEF OneByOne
  <2>. QED  BY <1>1, <2>1, <2>4, <2>5, <2>6, <2>9 DEF OneByOne, Entered
<1>. QED  BY <1>2, <1>3, <1>4, <1>5, <1>6, <1>7 DEF Next, NextStep, vars, history

(* With one client the k-th input a script sees belongs to the same call   *)
(* as the k-th result, and one list ends before the other only when it is  *)
(* full: what the doc of next promises a script about its arguments.       *)
THEOREM SameHistoryTheorem ==
  ASSUME Clients = 1
  PROVE  Spec => []SameHistory
<1>1. Init => HistoryOK /\ OneByOne
  <2> SUFFICES ASSUME Init
               PROVE  HistoryOK /\ OneByOne
    OBVIOUS
  <2>1. SameLists(<< >>, << >>)
    BY DEF SameLists
  <2>2. \A c \in Call : stage[c] = "uncalled"
    BY DEF Init
  <2>3. SameHistory
    BY DEF Init, SameHistory
  <2>. QED  BY <2>1, <2>2, <2>3, LengthAssumption DEF Init, HistoryOK, OneByOne
<1>2. HistoryOK /\ OneByOne /\ [Next]_vars => HistoryOK' /\ OneByOne'
  BY HistoryOKStep, OneByOneStep
<1>3. OneByOne => SameHistory
  BY DEF OneByOne
<1>. QED  BY <1>1, <1>2, <1>3, PTL DEF Spec
=============================================================================
