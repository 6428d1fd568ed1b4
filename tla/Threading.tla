----------------------------- MODULE Threading -----------------------------
(***************************************************************************)
(* The thread exercise, examples/threading/threading.c: calls of           *)
(* start_thread_obtaining_mutex with one mutex, the threads they start,    *)
(* and a caller that joins them and frees what they return, as             *)
(* threading.h asks of it.  The waits take any time.                       *)
(***************************************************************************)
EXTENDS FiniteSets

CONSTANTS
  Threads,    (* one call, and its thread, each                       *)
  NOBODY      (* no thread                                            *)

ASSUME NobodyAssumption == NOBODY \notin Threads

VARIABLES
  at,         (* where each call or its thread is                     *)
  mutex,      (* the owner of the mutex, NOBODY when it is free       *)
  block,      (* each struct thread_data: "none", "live" or "freed"   *)
  success,    (* its thread_complete_success, "junk" as malloc left it *)
  started     (* what each call returned, "none" while it has not     *)

threadVars == << at, mutex, block, success, started >>

ThreadInit ==
  /\ at = [t \in Threads |-> "call"]
  /\ mutex = NOBODY
  /\ block = [t \in Threads |-> "none"]
  /\ success = [t \in Threads |-> "junk"]
  /\ started = [t \in Threads |-> "none"]

Moves(t, from, to) == at[t] = from /\ at' = [at EXCEPT ![t] = to]

-----------------------------------------------------------------------------
(* start_thread_obtaining_mutex. *)

Allocate(t) ==
  /\ \/ /\ Moves(t, "call", "create")
        /\ block' = [block EXCEPT ![t] = "live"]
        /\ UNCHANGED started
     \/ /\ Moves(t, "call", "failed")
        /\ started' = [started EXCEPT ![t] = "false"]
        /\ UNCHANGED block
  /\ UNCHANGED << mutex, success >>

(* A definition named Bug_... is a seeded fault: a wrong variant of the    *)
(* definition after it, used only to show that a property can fail.  Here  *)
(* the block is forgotten when there is no thread to hand it to.           *)
Bug_BlockKept(t) == block

BlockFreed(t) == [block EXCEPT ![t] = "freed"]

CreateThread(t) ==
  /\ \/ /\ Moves(t, "create", "waiting")
        /\ started' = [started EXCEPT ![t] = "true"]
        /\ UNCHANGED block
     \/ /\ Moves(t, "create", "failed")
        /\ started' = [started EXCEPT ![t] = "false"]
        /\ block' = BlockFreed(t)
  /\ UNCHANGED << mutex, success >>

start_thread_obtaining_mutex(t) == Allocate(t) \/ CreateThread(t)

-----------------------------------------------------------------------------
(* threadfunc. *)

Obtain(t) ==
  /\ Moves(t, "waiting", "holding")
  /\ mutex = NOBODY
  /\ mutex' = t
  /\ UNCHANGED << block, success, started >>

(* Seeded fault: the mutex is not given back. *)
Bug_Kept == mutex

Released == NOBODY

Release(t) ==
  /\ Moves(t, "holding", "released")
  /\ mutex' = Released
  /\ UNCHANGED << block, success, started >>

Complete(t) ==
  /\ Moves(t, "released", "returned")
  /\ success' = [success EXCEPT ![t] = "true"]
  /\ UNCHANGED << mutex, block, started >>

threadfunc(t) == Obtain(t) \/ Release(t) \/ Complete(t)

-----------------------------------------------------------------------------
(* The caller joins the thread, reads its success and frees the block. *)
JoinAndFree(t) ==
  /\ Moves(t, "returned", "joined")
  /\ block' = [block EXCEPT ![t] = "freed"]
  /\ UNCHANGED << mutex, success, started >>

ThreadStep(t) == start_thread_obtaining_mutex(t) \/ threadfunc(t)

ThreadNext == \E t \in Threads : ThreadStep(t) \/ JoinAndFree(t)

ThreadSpec == ThreadInit /\ [][ThreadNext]_threadVars

-----------------------------------------------------------------------------
(* Properties. *)

(* Every struct thread_data is freed by one side, and by one only: by      *)
(* start_thread_obtaining_mutex when it answers false, by the joiner when  *)
(* it answers true; until then the thread can use it, and when the joiner  *)
(* has it thread_complete_success is set (threading.h:37-41).              *)
BlocksHandedOver ==
  \A t \in Threads :
    /\ started[t] = "false" => block[t] # "live" /\ at[t] = "failed"
    /\ at[t] \in {"waiting", "holding", "released", "returned"} => block[t] = "live"
    /\ at[t] \in {"returned", "joined"} => success[t] = "true"

(* "then obtains the mutex ..., then holds ..., then releases"             *)
(* (threading.h:30-31): the mutex belongs to whoever is in its second wait *)
(* and to nobody else, so a thread that returned does not keep it.         *)
MutexHeldWhileHolding ==
  \A t \in Threads : at[t] = "holding" <=> mutex = t
=============================================================================
