----------------------- MODULE SearchTimeout_proofs ------------------------
(***************************************************************************)
(* The safety properties of SearchTimeout, for any set of calls.           *)
(***************************************************************************)
EXTENDS SearchTimeout, TLAPS

(* What holds of a single call.  The lock is held by the thread that is in *)
(* its critical section; a thread is terminated only by the other one, in  *)
(* its critical section; and only a solver that raises ends its thread.    *)
CallInv(c) ==
  /\ holder[c] = "t1" <=> t1[c] \in {"locked", "alone"}
  /\ holder[c] = "t2" <=> t2[c] \in {"locked", "killed", "alone"}
  /\ t1[c] = "none" <=> t2[c] = "none"
  /\ t1[c] \in {"alone", "done"} <=> t2[c] = "terminated"
  /\ t2[c] \in {"alone", "done"} <=> t1[c] = "terminated"
  /\ result[c] # "free" <=> t1[c] = "done" \/ t2[c] = "done"
  /\ t1[c] \in {"solved", "locked", "alone", "done"} => solution[c] \in {"nil", "score"}
  /\ t2[c] \in {"killed", "alone", "done"} => killSearch[c] = "called"
  /\ t1[c] \in {"none", "created", "started"} => killSearch[c] = "free"
  /\ t1[c] = "raised" \/ t2[c] = "raised" => conduct[c] = "raises"
  /\ t1[c] = "done" => result[c] = (IF solution[c] = "nil" THEN "default" ELSE "score")
  /\ t2[c] = "done" => result[c] = "default"

IInv == TypeOK /\ \A c \in Call : CallInv(c)

(* A step of one call leaves the invariant of the others alone.            *)
LEMMA StepPreserves == IInv /\ [Next]_vars => IInv'
<1> SUFFICES ASSUME IInv, [Next]_vars
             PROVE  IInv'
  OBVIOUS
<1> USE DEF IInv, TypeOK, CallInv, Gone
<1>1. CASE UNCHANGED vars
  BY <1>1 DEF vars
<1>2. ASSUME NEW c \in Call, SearchWithTimeout(c)
      PROVE  IInv'
  BY <1>2 DEF SearchWithTimeout
<1>3. ASSUME NEW c \in Call, Thread1(c)
      PROVE  IInv'
  <2>1. CASE Start1(c)
    BY <2>1 DEF Start1
  <2>2. CASE Begin(c)
    BY <2>2 DEF Begin
  <2>3. CASE Lock1(c)
    BY <2>3 DEF Lock1
  <2>4. CASE Terminate2(c)
    BY <2>4 DEF Terminate2
  <2>5. CASE Bind1(c)
    BY <2>5 DEF Bind1, Tell, Told
  <2>. QED  BY <1>3, <2>1, <2>2, <2>3, <2>4, <2>5 DEF Thread1
<1>4. ASSUME NEW c \in Call, Thread2(c)
      PROVE  IInv'
  <2>1. CASE Start2(c)
    BY <2>1 DEF Start2
  <2>2. CASE Expire(c)
    BY <2>2 DEF Expire
  <2>3. CASE Lock2(c)
    BY <2>3 DEF Lock2
  <2>4. CASE KillSearch(c)
    BY <2>4 DEF KillSearch
  <2>5. CASE Terminate1(c)
    BY <2>5 DEF Terminate1
  <2>6. CASE Bind2(c)
    BY <2>6 DEF Bind2, Tell, Told
  <2>. QED  BY <1>4, <2>1, <2>2, <2>3, <2>4, <2>5, <2>6 DEF Thread2
<1>5. ASSUME NEW c \in Call, Solve(c)
      PROVE  IInv'
  BY <1>5 DEF Solve
<1>6. ASSUME NEW c \in Call, Raise(c)
      PROVE  IInv'
  BY <1>6 DEF Raise
<1>. QED  BY <1>1, <1>2, <1>3, <1>4, <1>5, <1>6 DEF Next, Search

(* The inductive invariant holds in every reachable state.                 *)
LEMMA Invariance == Spec => []IInv
<1>1. Init => IInv
  BY DEF Init, IInv, TypeOK, CallInv, Gone
<1>. QED  BY <1>1, StepPreserves, PTL DEF Spec

(* Type correctness.                                                       *)
THEOREM TypeCorrect == Spec => []TypeOK
<1>1. IInv => TypeOK
  BY DEF IInv
<1>. QED  BY <1>1, Invariance, PTL

(* Both threads can not kill each other, whatever the solver does: the     *)
(* comment on the lock in SearchWithTimeout.                               *)
THEOREM OneWinnerTheorem == Spec => []OneWinner
<1>1. IInv => OneWinner
  BY DEF IInv, TypeOK, CallInv, OneWinner
<1>. QED  BY <1>1, Invariance, PTL

(* The result is the score of the solution, or the default after a search  *)
(* without solution or after a timeout that stopped the search.            *)
THEOREM ResultExplainedTheorem == Spec => []ResultExplained
<1>1. IInv => ResultExplained
  BY DEF IInv, TypeOK, CallInv, ResultExplained
<1>. QED  BY <1>1, Invariance, PTL

(* With a solver as documented neither thread runs into an error.          *)
THEOREM NoErrorTheorem == Spec => []NoError
<1>1. IInv => NoError
  BY DEF IInv, CallInv, NoError
<1>. QED  BY <1>1, Invariance, PTL
=============================================================================
