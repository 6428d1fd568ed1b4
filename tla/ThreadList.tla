----------------------------- MODULE ThreadList -----------------------------
(***************************************************************************)
(* The linked list of threads of server/aesdsocket.c: main adds a node for *)
(* each thread it started, each thread removes its own as its last act,    *)
(* and at the end main joins whoever is listed.  Nothing locks the list,   *)
(* so the calls are cut where one thread can see another half way through. *)
(*                                                                         *)
(* A node is named by the thread it stands for.  What is undefined in C    *)
(* (a freed node, or a thread that was never created) ends the program as  *)
(* "corrupt": there is nothing to say of what it does next.                *)
(***************************************************************************)
EXTENDS Integers, FiniteSets, SequencesExt

CONSTANTS
  Clients,        (* the clients, and the threads that serve them     *)
  Timer,          (* the timestamp thread                             *)
  NULL            (* no thread, no node, no reply                     *)

ASSUME ThreadsAssumption == NULL \notin Clients \cup {Timer} /\ Timer \notin Clients

VARIABLES
  process,        (* "up", "exited", "killed" by a signal, or "corrupt" *)
  main,           (* where the main thread is                         *)
  current,        (* its tid or current: the thread it deals with     *)
  thread,         (* where each other thread is                       *)
  head,           (* the first node                                   *)
  next,           (* what follows each node                           *)
  node,           (* "none", "live" or "freed"                        *)
  cursor, prev,   (* the locals of remove_thread, current and prev    *)
  overlapped      (* history: have two of these calls overlapped?     *)

linkVars == << head, next, node >>
walkVars == << cursor, prev >>
listVars == << linkVars, walkVars, overlapped >>

Tids == Clients \cup {Timer}

MainAt(label) == process = "up" /\ main = label
ThreadAt(t, label) == process = "up" /\ thread[t] = label
ThreadGoto(t, label) == thread' = [thread EXCEPT ![t] = label]

ListInit ==
  /\ head = NULL
  /\ next = [t \in Tids |-> NULL]
  /\ node = [t \in Tids |-> "none"]
  /\ cursor = [t \in Tids |-> NULL]
  /\ prev = [t \in Tids |-> NULL]
  /\ overlapped = FALSE

(* Who is in the middle of a call. *)
MidWalk     == {t \in Tids : thread[t] \in {"look", "unlink", "free"}}
MainMidCall == main \in {"publish", "join"}

(* A call that begins now overlaps with the calls under way. *)
Begins == overlapped' = (overlapped \/ MidWalk # {} \/ MainMidCall)

(* The node n is read, written or freed. *)
Uses(n) == process' = IF node[n] = "live" THEN process ELSE "corrupt"

-----------------------------------------------------------------------------
(* add_thread, called by main. *)

(* A definition named Bug_... is a seeded fault: a wrong variant of the    *)
(* definition after it, used only to show that a property can fail.  Here  *)
(* the new node does not point to the old head.                            *)
Bug_NewHeadAlone == [next EXCEPT ![current] = NULL]

BeforeHead == [next EXCEPT ![current] = head]

add_thread ==
  \/ /\ MainAt("add")
     /\ node' = [node EXCEPT ![current] = "live"]
     /\ next' = BeforeHead
     /\ main' = "publish"
     /\ Begins
     /\ UNCHANGED << process, current, head, walkVars, thread >>
  \/ /\ MainAt("publish")
     /\ head' = current
     /\ main' = "loop"
     /\ UNCHANGED << process, current, next, node, overlapped, walkVars, thread >>

-----------------------------------------------------------------------------
(* remove_thread, called by a thread with its own tid. *)

FindFirst(t) ==
  /\ ThreadAt(t, "remove")
  /\ cursor' = [cursor EXCEPT ![t] = head]
  /\ prev' = [prev EXCEPT ![t] = NULL]
  /\ ThreadGoto(t, IF head = NULL THEN "done" ELSE "look")
  /\ Begins
  /\ UNCHANGED << process, linkVars >>

(* Seeded fault: the end of the list is not noticed. *)
Bug_LoopsOn(n) == "look"

AfterNode(n) == IF next[n] = NULL THEN "done" ELSE "look"

(* A turn of the loop up to the comparison, and past a node of another. *)
Look(t) ==
  LET n == cursor[t]
  IN  /\ ThreadAt(t, "look")
      /\ Uses(n)
      /\ IF n = t
         THEN ThreadGoto(t, "unlink") /\ UNCHANGED walkVars
         ELSE /\ prev' = [prev EXCEPT ![t] = n]
              /\ cursor' = [cursor EXCEPT ![t] = next[n]]
              /\ ThreadGoto(t, AfterNode(n))
      /\ UNCHANGED << linkVars, overlapped >>

(* Seeded fault: head is left at the node that is taken out. *)
Bug_HeadStays(t) == head

HeadWithout(t) == next[t]

Unlink(t) ==
  /\ ThreadAt(t, "unlink")
  /\ IF prev[t] = NULL
     THEN head' = HeadWithout(t) /\ UNCHANGED << process, next >>
     ELSE /\ Uses(prev[t])
          /\ next' = [next EXCEPT ![prev[t]] = next[t]]
          /\ UNCHANGED head
  /\ ThreadGoto(t, "free")
  /\ UNCHANGED << node, overlapped, walkVars >>

Free(t) ==
  /\ ThreadAt(t, "free")
  /\ Uses(t)
  /\ node' = [node EXCEPT ![t] = "freed"]
  /\ ThreadGoto(t, "done")
  /\ UNCHANGED << head, next, overlapped, walkVars >>

remove_thread(t) ==
  /\ FindFirst(t) \/ Look(t) \/ Unlink(t) \/ Free(t)
  /\ UNCHANGED << main, current >>

-----------------------------------------------------------------------------
(* join_threads, called by main. *)

JoinBegins ==
  /\ current' = head
  /\ main' = IF head = NULL THEN "cleanup" ELSE "join"
  /\ Begins
  /\ UNCHANGED << process, linkVars, walkVars, thread >>

(* A turn of the loop after pthread_join returned: current->next is read   *)
(* and current is freed.  To join a thread that was never created is       *)
(* undefined.                                                              *)
JoinTurn ==
  /\ MainAt("join")
  /\ thread[current] \in {"none", "done"}
  /\ process' = IF node[current] = "live" /\ thread[current] = "done"
                THEN process ELSE "corrupt"
  /\ node' = [node EXCEPT ![current] = "freed"]
  /\ IF next[current] = NULL
     THEN head' = NULL /\ main' = "cleanup" /\ UNCHANGED current
     ELSE current' = next[current] /\ UNCHANGED << head, main >>
  /\ UNCHANGED << next, overlapped, walkVars, thread >>

-----------------------------------------------------------------------------
(* Properties. *)

(* The types of the list, and no walk is at a node that there is not. *)
ListTypeOK ==
  /\ process \in {"up", "exited", "killed", "corrupt"}
  /\ current \in Tids \cup {NULL}
  /\ head \in Tids \cup {NULL}
  /\ next \in [Tids -> Tids \cup {NULL}]
  /\ node \in [Tids -> {"none", "live", "freed"}]
  /\ cursor \in [Tids -> Tids \cup {NULL}]
  /\ prev \in [Tids -> Tids \cup {NULL}]
  /\ \A t \in Tids : thread[t] \in {"look", "unlink"} => cursor[t] # NULL
  /\ overlapped \in BOOLEAN

(* The nodes that can be reached from head: they are in every set of nodes *)
(* that has head and, with a node, the one that follows it.                *)
HoldsList(S) ==
  /\ head # NULL => head \in S
  /\ \A n \in S : next[n] # NULL => next[n] \in S

Reachable == {n \in Tids : \A S \in SUBSET Tids : HoldsList(S) => n \in S}

(* As long as no two calls have overlapped, add_thread and remove_thread   *)
(* leave the list exact: the nodes that can be reached are those that are  *)
(* allocated, none of them lost and none dangling.                         *)
ListIsExact ==
  (process = "up" /\ ~overlapped /\ MidWalk = {} /\ ~MainMidCall) =>
    Reachable = {t \in Tids : node[t] = "live"}

(* Then join_threads also finds every thread: whoever was started and has  *)
(* not taken its node out is listed, or about to be listed by main.        *)
ThreadsAreListed ==
  (process = "up" /\ ~overlapped) =>
    \A t \in Tids : thread[t] \notin {"none", "free", "done"} =>
      t \in Reachable \/ (main \in {"add", "publish"} /\ current = t)

(* Without an overlap nothing goes wrong with the list's memory: as long   *)
(* as every thread could be created, a node is used after it was freed     *)
(* only where two calls overlapped.                                        *)
CorruptOnlyByOverlap == process = "corrupt" => overlapped

(* "Join all completed threads before exiting" (aesdsocket.c:399): the     *)
(* threads that unlink themselves and the join loop do not use a node      *)
(* after it was freed.                                                     *)
NoUseAfterFree == process # "corrupt"
=============================================================================
