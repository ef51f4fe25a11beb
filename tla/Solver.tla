------------------------------ MODULE Solver -------------------------------
(***************************************************************************)
(* What a search promises: it delivers solutions of the problem, each at   *)
(* most once, and stops when it has delivered as many as were wanted or    *)
(* all there are.                                                          *)
(***************************************************************************)
EXTENDS Naturals, FiniteSets

CONSTANTS
  Solution,  \* the solutions of the problem
  Wanted     \* the number of solutions asked for

VARIABLES
  delivered, \* the solutions delivered so far
  finished   \* has the search stopped?

vars == <<delivered, finished>>

Init == delivered = {} /\ finished = FALSE

(* A solution is delivered; the search may stop with the last one wanted.  *)
Deliver(s) ==
  /\ ~finished
  /\ s \in Solution \ delivered
  /\ Cardinality(delivered) < Wanted
  /\ delivered' = delivered \cup {s}
  /\ finished' \in {FALSE, Cardinality(delivered') = Wanted \/ delivered' = Solution}

Finish ==
  /\ ~finished
  /\ Cardinality(delivered) = Wanted \/ delivered = Solution
  /\ finished' = TRUE
  /\ UNCHANGED delivered

Next == (\E s \in Solution : Deliver(s)) \/ Finish

Spec == Init /\ [][Next]_vars /\ WF_vars(Next)
=============================================================================
