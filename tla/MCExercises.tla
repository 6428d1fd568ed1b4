---------------------------- MODULE MCExercises ----------------------------
(* A program that uses both exercises: its threads run while it is in one  *)
(* of the system-call functions, and go when do_exec_redirect ends the     *)
(* whole process with exit.                                                *)
EXTENDS SystemCalls, Threading

vars == << callVars, threadVars >>

Alive == parent # "exited"

Init == CallInit /\ ThreadInit

Next == \/ CallNext /\ UNCHANGED threadVars
        \/ Alive /\ ThreadNext /\ UNCHANGED callVars

Spec == Init /\ [][Next]_vars

(* The scheduler runs every thread that can run; nobody has to join. *)
Fairness ==
  /\ CallFairness
  /\ \A t \in Threads : WF_vars(Alive /\ ThreadStep(t) /\ UNCHANGED callVars)

FairSpec == Spec /\ Fairness

(* Every call of start_thread_obtaining_mutex answers, and every thread it *)
(* started gets the mutex, gives it back and returns, unless the process   *)
(* ended: no thread keeps the others waiting for ever.                     *)
EveryThreadReturns ==
  \A t \in Threads : <>(at[t] \in {"failed", "returned", "joined"} \/ ~Alive)
=============================================================================
