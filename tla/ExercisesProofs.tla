-------------------------- MODULE ExercisesProofs ---------------------------
(* Theorems about the two exercises: the system calls, whatever fails in   *)
(* the caller or the child and in any order, and the threads, for any      *)
(* number of them.                                                         *)
EXTENDS SystemCalls, Threading, TLAPS

(* The system-call exercise. *)

(* Where caller and child are for each function, and what is known of the  *)
(* child's end: a child that has ended with code 0 has run its command,    *)
(* since every other way out of it is an exit with another code.           *)
CallInv ==
  /\ fn \in {"do_system", "do_exec", "do_exec_redirect"}
  /\ parent \in {"system", "open", "fork", "wait", "close", "returned", "exited"}
  /\ child \in {"none", "dup2", "exec", "run", "ended", "reaped"}
  /\ stdout \in {"terminal", "file"}
  /\ fn = "do_system" => parent \in {"system", "returned"} /\ child \in {"none", "reaped"}
  /\ parent \in {"open", "close", "exited"} => fn = "do_exec_redirect"
  /\ parent \in {"system", "open", "fork"} => child = "none"
  /\ parent \in {"open", "fork", "wait", "close"} => result = "none"
  /\ child = "dup2" => fn = "do_exec_redirect"
  /\ child \in {"dup2", "exec", "run"} => status = "none"
  /\ child \in {"none"} => status = "none"
  /\ fn # "do_exec_redirect" => stdout = "terminal"
  /\ (fn = "do_exec_redirect" /\ child \in {"exec", "run"}) => stdout = "file"
  /\ status = "zero" => stdout \in output
  /\ fn = "do_exec_redirect" /\ result = "true" => ~fd
  /\ fn = "do_exec_redirect" => "terminal" \notin output
  /\ TrueMeansSuccess

LEMMA InitCallInv == CallInit => CallInv
  BY DEF CallInit, CallInv, Succeeded, TrueMeansSuccess

LEMMA ParentKeepsCallInv ==
  ASSUME CallInv, Parent \/ WaitpidFails
  PROVE  CallInv'
  <1> USE DEF CallInv, ParentAt, ReturnsFromCall, Succeeded, TrueMeansSuccess
  <1>1. CASE do_system
    BY <1>1 DEF do_system, Endings
  <1>2. CASE OpenOutput
    BY <1>2 DEF OpenOutput, ExitParent
  <1>3. CASE Fork
    BY <1>3 DEF Fork, ExitParent
  <1>4. CASE Waitpid
    BY <1>4 DEF Waitpid, ChildEnded, AfterWait, ExitedWithZero
  <1>5. CASE WaitpidFails
    BY <1>5 DEF WaitpidFails, AfterWait
  <1>6. CASE CloseOutput
    BY <1>6 DEF CloseOutput
  <1>7. QED
    BY <1>1, <1>2, <1>3, <1>4, <1>5, <1>6 DEF Parent

LEMMA ChildKeepsCallInv ==
  ASSUME CallInv, Child
  PROVE  CallInv'
  <1> USE DEF CallInv, ChildEnds, Succeeded, TrueMeansSuccess
  <1>1. CASE Dup2
    BY <1>1 DEF Dup2, Dup2Fails
  <1>2. CASE Execv
    BY <1>2 DEF Execv
  <1>3. CASE CommandEnds
    BY <1>3 DEF CommandEnds, Endings
  <1>4. QED
    BY <1>1, <1>2, <1>3 DEF Child

LEMMA CallInvHolds == CallSpec => []CallInv
  <1>1. CallInv /\ [CallNext]_callVars => CallInv'
    <2>1. CallInv /\ CallNext => CallInv'
      BY ParentKeepsCallInv, ChildKeepsCallInv DEF CallNext
    <2>2. CallInv /\ UNCHANGED callVars => CallInv'
      BY DEF callVars, CallInv, Succeeded, TrueMeansSuccess
    <2>3. QED
      BY <2>1, <2>2
  <1>2. QED
    BY InitCallInv, <1>1, PTL DEF CallSpec

(* do_exec and do_system answer true only for a command that ran to its    *)
(* end with code 0.                                                        *)
THEOREM TrueIsEarned == CallSpec => []TrueMeansSuccess
  <1>1. CallInv => TrueMeansSuccess
    BY DEF CallInv
  <1>2. QED
    BY <1>1, CallInvHolds, PTL

(* do_exec_redirect's command never prints to the caller's output.         *)
THEOREM OutputIsRedirected == CallSpec => []OutputGoesToFile
  <1>1. CallInv => OutputGoesToFile
    BY DEF CallInv, OutputGoesToFile
  <1>2. QED
    BY <1>1, CallInvHolds, PTL

-----------------------------------------------------------------------------
(* The thread exercise. *)

Places == {"call", "create", "failed", "waiting", "holding", "released",
           "returned", "joined"}

(* Besides the two properties: a call that has not answered yet, or has    *)
(* answered true, is at one of the other places.                           *)
ThreadInv ==
  /\ at \in [Threads -> Places]
  /\ mutex \in Threads \cup {NOBODY}
  /\ block \in [Threads -> {"none", "live", "freed"}]
  /\ success \in [Threads -> {"junk", "true"}]
  /\ started \in [Threads -> {"none", "true", "false"}]
  /\ \A t \in Threads :
       /\ at[t] \in {"call", "create"} => started[t] = "none"
       /\ at[t] \in {"waiting", "holding", "released", "returned", "joined"} => started[t] = "true"
       /\ at[t] = "create" => block[t] = "live"
       /\ at[t] = "failed" => block[t] # "live"
       /\ at[t] = "call" => block[t] = "none"
  /\ BlocksHandedOver
  /\ MutexHeldWhileHolding

LEMMA InitThreadInv == ThreadInit => ThreadInv
  BY NobodyAssumption
  DEF ThreadInit, ThreadInv, Places, BlocksHandedOver, MutexHeldWhileHolding

LEMMA StepKeepsThreadInv ==
  ASSUME ThreadInv, NEW t \in Threads, ThreadStep(t) \/ JoinAndFree(t)
  PROVE  ThreadInv'
  <1> USE DEF ThreadInv, Places, Moves, BlocksHandedOver, MutexHeldWhileHolding
  <1>1. CASE Allocate(t)
    BY <1>1 DEF Allocate
  <1>2. CASE CreateThread(t)
    BY <1>2 DEF CreateThread, BlockFreed
  <1>3. CASE Obtain(t)
    BY <1>3, NobodyAssumption DEF Obtain
  <1>4. CASE Release(t)
    BY <1>4, NobodyAssumption DEF Release, Released
  <1>5. CASE Complete(t)
    BY <1>5 DEF Complete
  <1>6. CASE JoinAndFree(t)
    BY <1>6 DEF JoinAndFree
  <1>7. QED
    BY <1>1, <1>2, <1>3, <1>4, <1>5, <1>6
    DEF ThreadStep, start_thread_obtaining_mutex, threadfunc

LEMMA ThreadInvHolds == ThreadSpec => []ThreadInv
  <1>1. ThreadInv /\ [ThreadNext]_threadVars => ThreadInv'
    <2>1. ThreadInv /\ ThreadNext => ThreadInv'
      BY StepKeepsThreadInv DEF ThreadNext
    <2>2. ThreadInv /\ UNCHANGED threadVars => ThreadInv'
      BY DEF threadVars, ThreadInv, BlocksHandedOver, MutexHeldWhileHolding
    <2>3. QED
      BY <2>1, <2>2
  <1>2. QED
    BY InitThreadInv, <1>1, PTL DEF ThreadSpec

(* Every block has one side that frees it, and the joiner gets it whole.   *)
THEOREM BlocksAreHandedOver == ThreadSpec => []BlocksHandedOver
  <1>1. ThreadInv => BlocksHandedOver
    BY DEF ThreadInv
  <1>2. QED
    BY <1>1, ThreadInvHolds, PTL

(* The mutex belongs to the thread in its second wait and to no other.     *)
THEOREM MutexIsHeld == ThreadSpec => []MutexHeldWhileHolding
  <1>1. ThreadInv => MutexHeldWhileHolding
    BY DEF ThreadInv
  <1>2. QED
    BY <1>1, ThreadInvHolds, PTL
=============================================================================
