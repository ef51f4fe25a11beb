--------------------------- MODULE ScoreSearcher ---------------------------
(***************************************************************************)
(* The class ScoreSearcherWithTimeout: a search object whose method next   *)
(* starts a SearchWithTimeout and returns at once.  The script of a search *)
(* sees the inputs and results of earlier calls; a result may still be     *)
(* unbound then, and the search waits for it while its own time runs.      *)
(***************************************************************************)
EXTENDS Integers, Sequences, FiniteSets

CONSTANTS
  Calls,        \* bound: the number of calls of next
  Clients,      \* the number of threads that use the search object
  inputLength,  \* how many inputs are kept
  outputLength, \* how many results are kept
  Conduct       \* see SearchTimeout

Call == 1 .. Calls

ASSUME LengthAssumption ==
  /\ Calls \in Nat /\ Clients \in Nat
  /\ inputLength \in Nat /\ outputLength \in Nat
  /\ Conduct \subseteq {"searches", "silent", "raises"}

VARIABLES
  conduct, t1, t2, holder, killSearch, solution, result, \* see SearchTimeout
  inputScores,  \* the attribute: the inputs kept, the newest first
  outputScores, \* the attribute: the results kept, the newest first
  script,       \* the arguments inputScores and outputScores of each script
  stage         \* how far the method next has come in each call

Search == INSTANCE SearchTimeout

searchVars == <<conduct, t1, t2, holder, killSearch, solution, result>>
history == <<inputScores, outputScores, script, stage>>
vars == <<searchVars, history>>

TypeOK ==
  /\ Search!TypeOK
  /\ inputScores \in Seq(Call) /\ Len(inputScores) <= inputLength
  /\ outputScores \in Seq(Call) /\ Len(outputScores) <= outputLength
  /\ script \in [Call -> [inputs : Seq(Call), outputs : Seq(Call)]]
  /\ stage \in [Call -> {"uncalled", "called", "input", "search", "returned"}]

Init ==
  /\ Search!Init
  /\ inputScores = << >>
  /\ outputScores = << >>
  /\ script = [c \in Call |-> [inputs |-> << >>, outputs |-> << >>]]
  /\ stage = [c \in Call |-> "uncalled"]

Elements(s) == {s[k] : k \in DOMAIN s}

(* A client thread executes a method of the object.                        *)
InMethod(c) == stage[c] \notin {"uncalled", "returned"}
ClientIdle == Cardinality({c \in Call : InMethod(c)}) < Clients

(* At most the first n elements.                                           *)
ReduceList(s, n) == SubSeq(s, 1, IF n < Len(s) THEN n ELSE Len(s))

(* The method next begins: the arguments of the script are put together.   *)
NextCalled(c) ==
  /\ stage[c] = "uncalled"
  /\ \A d \in 1 .. c - 1 : stage[d] # "uncalled"
  /\ ClientIdle
  /\ script' = [script EXCEPT ![c] = [inputs |-> inputScores, outputs |-> outputScores]]
  /\ stage' = [stage EXCEPT ![c] = "called"]
  /\ UNCHANGED <<searchVars, inputScores, outputScores>>

(* faulty variant: the arguments of the script are read after the update   *)
NextInput_ReadLate(c) ==
  /\ stage[c] = "called"
  /\ inputScores' = ReduceList(<<c>> \o inputScores, inputLength)
  /\ script' = [script EXCEPT ![c] = [inputs |-> inputScores', outputs |-> outputScores]]
  /\ stage' = [stage EXCEPT ![c] = "input"]
  /\ UNCHANGED <<searchVars, outputScores>>

NextInput(c) ==
  /\ stage[c] = "called"
  /\ inputScores' = ReduceList(<<c>> \o inputScores, inputLength)
  /\ stage' = [stage EXCEPT ![c] = "input"]
  /\ UNCHANGED <<searchVars, outputScores, script>>

(* faulty variant: the solver runs in the thread of the client             *)
NextSearch_OneThread(c) ==
  /\ stage[c] = "input"
  /\ t1' = [t1 EXCEPT ![c] = "started"]
  /\ t2' = [t2 EXCEPT ![c] = "created"]
  /\ stage' = [stage EXCEPT ![c] = "search"]
  /\ UNCHANGED <<conduct, holder, killSearch, solution, result>>
  /\ UNCHANGED <<inputScores, outputScores, script>>

NextSearch(c) ==
  /\ stage[c] = "input"
  /\ Search!SearchWithTimeout(c)
  /\ stage' = [stage EXCEPT ![c] = "search"]
  /\ UNCHANGED <<inputScores, outputScores, script>>

(* The result is stored, bound or not.                                     *)
NextOutput(c) ==
  /\ stage[c] = "search"
  /\ outputScores' = ReduceList(<<c>> \o outputScores, outputLength)
  /\ stage' = [stage EXCEPT ![c] = "returned"]
  /\ UNCHANGED <<searchVars, inputScores, script>>

(* faulty variant: only the inputs are forgotten                           *)
reset_InputsOnly ==
  /\ ClientIdle
  /\ inputScores' = << >>
  /\ UNCHANGED <<searchVars, outputScores, script, stage>>

(* The method reset.                                                       *)
reset ==
  /\ ClientIdle
  /\ inputScores' = << >>
  /\ outputScores' = << >>
  /\ UNCHANGED <<searchVars, script, stage>>

(* The search of c goes on only when the results its script reads are      *)
(* bound.                                                                  *)
Ready(c) == \A d \in Elements(script[c].outputs) : result[d] # "free"

NextStep(c) == NextInput(c) \/ NextSearch(c) \/ NextOutput(c)

Next ==
  \/ reset
  \/ \E c \in Call :
       \/ NextCalled(c) \/ NextStep(c)
       \/ (Search!Thread1(c) \/ Search!Thread2(c)) /\ UNCHANGED history
       \/ Search!Search(c) /\ Ready(c) /\ UNCHANGED history

(* The threads are scheduled fairly; a method that was called runs on.     *)
Fairness ==
  \A c \in Call :
    /\ WF_vars(NextStep(c))
    /\ WF_vars(Search!Thread1(c) /\ UNCHANGED history)
    /\ WF_vars(Search!Thread2(c) /\ UNCHANGED history)

Spec == Init /\ [][Next]_vars /\ Fairness

-----------------------------------------------------------------------------
(* The doc of next: inputScores are the previous inputs (the current input *)
(* is not yet part of it) and outputScores the previous outputs.  What a   *)
(* script sees is the past, whatever other clients do, so that searches    *)
(* never wait for each other in a circle; and nothing is seen twice.       *)
ScriptsSeeThePast ==
  \A c \in Call :
    LET ins == script[c].inputs
        outs == script[c].outputs
    IN  /\ c \notin Elements(ins) \cup Elements(outs)
        /\ \A d \in Elements(outs) : stage[d] = "returned" /\ c \notin Elements(script[d].outputs)
        /\ \A j, k \in DOMAIN ins : j # k => ins[j] # ins[k]
        /\ \A j, k \in DOMAIN outs : j # k => outs[j] # outs[k]

(* With one client inputs and results correspond: the k-th input a script  *)
(* sees belongs to the same call as the k-th result, the newest first, and *)
(* one of the lists ends before the other only when it is full.            *)
SameHistory ==
  \A c \in Call :
    LET ins == script[c].inputs
        outs == script[c].outputs
    IN  /\ \A k \in DOMAIN ins \cap DOMAIN outs : ins[k] = outs[k]
        /\ Len(ins) < Len(outs) => Len(ins) = inputLength
        /\ Len(outs) < Len(ins) => Len(outs) = outputLength
        /\ \A k \in DOMAIN ins : ins[k] = ins[1] - k + 1

(* Every call is answered, though its search may wait for an earlier one   *)
(* that never ends.                                                        *)
Answered == \A c \in Call : stage[c] # "uncalled" ~> result[c] # "free"

(* The searches of the object are searches with timeout: using them from   *)
(* the object, and waiting for one another, does not change what they do.  *)
ImplementsSearches == Search!Init /\ [][Search!Next]_searchVars
=============================================================================
