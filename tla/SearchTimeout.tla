--------------------------- MODULE SearchTimeout ---------------------------
(***************************************************************************)
(* SearchWithTimeout of the contribution Realtime.                         *)
(*                                                                         *)
(* A call creates two threads and returns at once; its result is a logic   *)
(* variable.  Thread 1 runs the solver, thread 2 sleeps for maxSearchTime. *)
(* Whoever is done first takes a lock, terminates the other thread and     *)
(* binds the result.  A terminated thread stops wherever it is; asking for *)
(* the termination of a thread that is gone already raises an error.       *)
(***************************************************************************)
CONSTANTS
  Call,    \* the calls of SearchWithTimeout
  Conduct  \* how the solvers given to the calls may behave

(* "searches": a solver as documented; "silent": it never binds the        *)
(* argument KillP; "raises": it ends with an exception.                    *)
ASSUME ConductAssumption == Conduct \subseteq {"searches", "silent", "raises"}

VARIABLES
  conduct,    \* the behaviour of the solver of each call
  t1,         \* the state of thread 1 of each call
  t2,         \* the state of thread 2 of each call
  holder,     \* the thread that holds MyLock
  killSearch, \* KillSearchP: free, bound by the solver, called
  solution,   \* Solution: free, nil or a list whose first element is a score
  result      \* Result: free, the score or the default solution

vars == <<conduct, t1, t2, holder, killSearch, solution, result>>

Gone == {"done", "terminated", "raised"}

TypeOK ==
  /\ conduct \in [Call -> Conduct]
  /\ t1 \in [Call -> {"none", "created", "started", "searching", "solved",
                      "locked", "alone"} \cup Gone]
  /\ t2 \in [Call -> {"none", "created", "delayed", "expired",
                      "locked", "killed", "alone"} \cup Gone]
  /\ holder \in [Call -> {"nobody", "t1", "t2"}]
  /\ killSearch \in [Call -> {"free", "bound", "called"}]
  /\ solution \in [Call -> {"free", "nil", "score"}]
  /\ result \in [Call -> {"free", "score", "default"}]

Init ==
  /\ conduct \in [Call -> Conduct]
  /\ t1 = [c \in Call |-> "none"]
  /\ t2 = [c \in Call |-> "none"]
  /\ holder = [c \in Call |-> "nobody"]
  /\ killSearch = [c \in Call |-> "free"]
  /\ solution = [c \in Call |-> "free"]
  /\ result = [c \in Call |-> "free"]

(* SearchWithTimeout itself: both threads are created.                     *)
SearchWithTimeout(c) ==
  /\ t1[c] = "none"
  /\ t1' = [t1 EXCEPT ![c] = "created"]
  /\ t2' = [t2 EXCEPT ![c] = "created"]
  /\ UNCHANGED <<conduct, holder, killSearch, solution, result>>

-----------------------------------------------------------------------------
(* Thread 1.                                                               *)

(* Thread1 = {Thread.this}                                                 *)
Start1(c) ==
  /\ t1[c] = "created"
  /\ t1' = [t1 EXCEPT ![c] = "started"]
  /\ UNCHANGED <<conduct, t2, holder, killSearch, solution, result>>

(* faulty variant: the solver is not given KillSearchP                     *)
Begin_WithoutKillP(c) ==
  /\ t1[c] = "started"
  /\ t1' = [t1 EXCEPT ![c] = "searching"]
  /\ UNCHANGED <<conduct, t2, holder, killSearch, solution, result>>

(* The solver begins; Search.one.depth binds its kill procedure first.     *)
Begin(c) ==
  /\ t1[c] = "started"
  /\ t1' = [t1 EXCEPT ![c] = "searching"]
  /\ killSearch' = [killSearch EXCEPT ![c] = IF conduct[c] = "silent" THEN @ ELSE "bound"]
  /\ UNCHANGED <<conduct, t2, holder, solution, result>>

(* The solver returns.  A search that was killed returns nil, unless it    *)
(* had its solution already.                                               *)
Solve(c) ==
  /\ t1[c] = "searching"
  /\ conduct[c] # "raises"
  /\ t1' = [t1 EXCEPT ![c] = "solved"]
  /\ \E s \in {"nil", "score"} : solution' = [solution EXCEPT ![c] = s]
  /\ UNCHANGED <<conduct, t2, holder, killSearch, result>>

(* The solver raises an exception: the thread ends.                        *)
Raise(c) ==
  /\ t1[c] = "searching"
  /\ conduct[c] = "raises"
  /\ t1' = [t1 EXCEPT ![c] = "raised"]
  /\ UNCHANGED <<conduct, t2, holder, killSearch, solution, result>>

Lock1(c) ==
  /\ t1[c] = "solved"
  /\ holder[c] = "nobody"
  /\ t1' = [t1 EXCEPT ![c] = "locked"]
  /\ holder' = [holder EXCEPT ![c] = "t1"]
  /\ UNCHANGED <<conduct, t2, killSearch, solution, result>>

(* faulty variant: thread 2 lives on                                       *)
Terminate2_Forgotten(c) ==
  /\ t1[c] = "locked"
  /\ t1' = [t1 EXCEPT ![c] = "alone"]
  /\ UNCHANGED <<conduct, t2, holder, killSearch, solution, result>>

(* {Thread.terminate Thread2}, once thread 2 has bound Thread2.            *)
Terminate2(c) ==
  /\ t1[c] = "locked"
  /\ t2[c] # "created"
  /\ IF t2[c] \in Gone
     THEN /\ t1' = [t1 EXCEPT ![c] = "raised"]
          /\ holder' = [holder EXCEPT ![c] = "nobody"]
          /\ UNCHANGED t2
     ELSE /\ t1' = [t1 EXCEPT ![c] = "alone"]
          /\ t2' = [t2 EXCEPT ![c] = "terminated"]
          /\ UNCHANGED holder
  /\ UNCHANGED <<conduct, killSearch, solution, result>>

(* Telling a value to Result: the second of two different values fails.    *)
Tell(c, value) == result' = [result EXCEPT ![c] = IF @ = "free" THEN value ELSE @]
Told(c, value) == IF result[c] \in {"free", value} THEN "done" ELSE "raised"

(* faulty variant: nil is not looked at                                    *)
Bind1_AlwaysScore(c) ==
  /\ t1[c] = "alone"
  /\ Tell(c, "score")
  /\ t1' = [t1 EXCEPT ![c] = Told(c, "score")]
  /\ holder' = [holder EXCEPT ![c] = "nobody"]
  /\ UNCHANGED <<conduct, t2, killSearch, solution>>

Bind1(c) ==
  LET value == IF solution[c] = "nil" THEN "default" ELSE "score" IN
  /\ t1[c] = "alone"
  /\ Tell(c, value)
  /\ t1' = [t1 EXCEPT ![c] = Told(c, value)]
  /\ holder' = [holder EXCEPT ![c] = "nobody"]
  /\ UNCHANGED <<conduct, t2, killSearch, solution>>

-----------------------------------------------------------------------------
(* Thread 2.                                                               *)

(* Thread2 = {Thread.this}                                                 *)
Start2(c) ==
  /\ t2[c] = "created"
  /\ t2' = [t2 EXCEPT ![c] = "delayed"]
  /\ UNCHANGED <<conduct, t1, holder, killSearch, solution, result>>

(* maxSearchTime has elapsed.                                              *)
Expire(c) ==
  /\ t2[c] = "delayed"
  /\ t2' = [t2 EXCEPT ![c] = "expired"]
  /\ UNCHANGED <<conduct, t1, holder, killSearch, solution, result>>

Lock2(c) ==
  /\ t2[c] = "expired"
  /\ holder[c] = "nobody"
  /\ t2' = [t2 EXCEPT ![c] = "locked"]
  /\ holder' = [holder EXCEPT ![c] = "t2"]
  /\ UNCHANGED <<conduct, t1, killSearch, solution, result>>

(* {KillSearchP} suspends until the solver has bound KillSearchP.          *)
KillSearch(c) ==
  /\ t2[c] = "locked"
  /\ killSearch[c] # "free"
  /\ t2' = [t2 EXCEPT ![c] = "killed"]
  /\ killSearch' = [killSearch EXCEPT ![c] = "called"]
  /\ UNCHANGED <<conduct, t1, holder, solution, result>>

(* faulty variant: thread 1 lives on                                       *)
Terminate1_Forgotten(c) ==
  /\ t2[c] = "killed"
  /\ t2' = [t2 EXCEPT ![c] = "alone"]
  /\ UNCHANGED <<conduct, t1, holder, killSearch, solution, result>>

(* {Thread.terminate Thread1}, once thread 1 has bound Thread1.            *)
Terminate1(c) ==
  /\ t2[c] = "killed"
  /\ t1[c] # "created"
  /\ IF t1[c] \in Gone
     THEN /\ t2' = [t2 EXCEPT ![c] = "raised"]
          /\ holder' = [holder EXCEPT ![c] = "nobody"]
          /\ UNCHANGED t1
     ELSE /\ t2' = [t2 EXCEPT ![c] = "alone"]
          /\ t1' = [t1 EXCEPT ![c] = "terminated"]
          /\ UNCHANGED holder
  /\ UNCHANGED <<conduct, killSearch, solution, result>>

Bind2(c) ==
  /\ t2[c] = "alone"
  /\ Tell(c, "default")
  /\ t2' = [t2 EXCEPT ![c] = Told(c, "default")]
  /\ holder' = [holder EXCEPT ![c] = "nobody"]
  /\ UNCHANGED <<conduct, t1, killSearch, solution>>

-----------------------------------------------------------------------------
(* What the threads of a call do by themselves, except for the search.     *)
Thread1(c) == Start1(c) \/ Begin(c) \/ Lock1(c) \/ Terminate2(c) \/ Bind1(c)
Thread2(c) ==
  Start2(c) \/ Expire(c) \/ Lock2(c) \/ KillSearch(c) \/ Terminate1(c) \/ Bind2(c)

Search(c) == Solve(c) \/ Raise(c)

Next == \E c \in Call : SearchWithTimeout(c) \/ Thread1(c) \/ Thread2(c) \/ Search(c)

(* Oz schedules its threads fairly.  Nothing forces a search to end: the   *)
(* script may need longer than anyone waits, or loop for ever.             *)
Fairness == \A c \in Call : WF_vars(Thread1(c)) /\ WF_vars(Thread2(c))

Spec == Init /\ [][Next]_vars /\ Fairness

-----------------------------------------------------------------------------
(* The comment on the lock: both threads can not kill each other, even if  *)
(* the solution is found exactly after maxSearchTime.  Whatever the solver *)
(* does, one of the threads terminates the other before it binds the       *)
(* result.                                                                 *)
OneWinner ==
  \A c \in Call :
    /\ ~(t1[c] = "terminated" /\ t2[c] = "terminated")
    /\ t1[c] \in {"alone", "done"} => t2[c] = "terminated"
    /\ t2[c] \in {"alone", "done"} => t1[c] = "terminated"

(* The result is what its winner stands for: the score of the solution;    *)
(* or the default, after a search without solution, or after the time was  *)
(* up and the search was told to stop.                                     *)
ResultExplained ==
  \A c \in Call :
    /\ result[c] = "score" => t1[c] = "done" /\ solution[c] = "score"
    /\ result[c] = "default" =>
         \/ t1[c] = "done" /\ solution[c] = "nil"
         \/ t2[c] = "done" /\ killSearch[c] = "called"

(* With a solver as documented no thread runs into an error: neither by    *)
(* terminating a thread that is gone nor by binding Result twice.          *)
NoError ==
  \A c \in Call : conduct[c] = "searches" => t1[c] # "raised" /\ t2[c] # "raised"

(* With a solver as documented every call gets a result, even if the       *)
(* search never ends.                                                      *)
AlwaysResult ==
  \A c \in Call : t1[c] # "none" /\ conduct[c] = "searches" ~> result[c] # "free"
=============================================================================
