------------------------ MODULE AesdSocketListProofs ------------------------
(* Theorems about the server's list of threads: as long as its calls do    *)
(* not overlap it is a chain from head through every node there is, and    *)
(* only an overlap can make a thread use a freed node.                     *)
EXTENDS AesdSocketProofs

-----------------------------------------------------------------------------
(* Chains. *)

Closed(nxt, C) == \A n \in C : nxt[n] # NULL => nxt[n] \in C

(* The nodes S hang together from start on: each is followed by another of *)
(* them or by none, no two by the same, and none is left out.              *)
Chain(nxt, start, S) ==
  /\ start = NULL => S = {}
  /\ start # NULL => start \in S
  /\ Closed(nxt, S)
  /\ \A n \in S : nxt[n] # NULL => nxt[n] # start
  /\ \A m, n \in S : nxt[m] = nxt[n] /\ nxt[m] # NULL => m = n
  /\ \A C \in SUBSET S : start \in C /\ Closed(nxt, C) => C = S

(* Only what follows the nodes of a chain matters to it. *)
LEMMA ChainAgrees ==
  ASSUME NEW nxt, NEW nxt2, NEW start, NEW S, Chain(nxt, start, S),
         \A n \in S : nxt2[n] = nxt[n]
  PROVE  Chain(nxt2, start, S)
  <1>1. \A C \in SUBSET S : Closed(nxt2, C) => Closed(nxt, C)
    BY DEF Closed
  <1>2. Closed(nxt2, S)
    BY DEF Chain, Closed
  <1>3. QED
    BY <1>1, <1>2 DEF Chain

(* add_thread: a node is put before the first. *)
LEMMA ChainPush ==
  ASSUME NEW nxt, NEW start, NEW S, Chain(nxt, start, S),
         NEW n, n # NULL, n \notin S, nxt[n] = start
  PROVE  Chain(nxt, n, S \cup {n})
  <1>1. \A m \in S : nxt[m] # NULL => nxt[m] \in S /\ nxt[m] # start
    BY DEF Chain, Closed
  <1>2. start # NULL => start \in S
    BY DEF Chain
  <1>3. Closed(nxt, S \cup {n})
    BY <1>1, <1>2 DEF Closed
  <1>4. \A m \in S \cup {n} : nxt[m] # NULL => nxt[m] # n
    BY <1>1, <1>2
  <1>5. \A k, m \in S \cup {n} : nxt[k] = nxt[m] /\ nxt[k] # NULL => k = m
    BY <1>1 DEF Chain
  <1>6. ASSUME NEW C \in SUBSET (S \cup {n}), n \in C, Closed(nxt, C)
        PROVE  C = S \cup {n}
    <2>1. CASE start = NULL
      BY <1>6, <2>1 DEF Chain
    <2>2. CASE start # NULL
      <3>1. start \in C \ {n}
        BY <1>2, <1>6, <2>2 DEF Closed
      <3>2. Closed(nxt, C \ {n})
        BY <1>1, <1>6 DEF Closed
      <3>3. C \ {n} = S
        BY <3>1, <3>2, C \ {n} \in SUBSET S DEF Chain
      <3>4. QED
        BY <1>6, <3>3
    <2>3. QED
      BY <2>1, <2>2
  <1>7. QED
    BY <1>3, <1>4, <1>5, <1>6 DEF Chain

(* remove_thread of the first node, and a turn of join_threads. *)
LEMMA ChainPop ==
  ASSUME NEW nxt, NEW start, NEW S, Chain(nxt, start, S), start # NULL
  PROVE  Chain(nxt, nxt[start], S \ {start})
  <1>1. start \in S
    BY DEF Chain
  <1>2. \A m \in S : nxt[m] # NULL => nxt[m] \in S /\ nxt[m] # start
    BY DEF Chain, Closed
  <1>3. \A k, m \in S : nxt[k] = nxt[m] /\ nxt[k] # NULL => k = m
    BY DEF Chain
  <1>4. nxt[start] = NULL => S \ {start} = {}
    <2> SUFFICES ASSUME nxt[start] = NULL PROVE S = {start}
      OBVIOUS
    <2>1. Closed(nxt, {start})
      BY DEF Closed
    <2>2. QED
      BY <1>1, <2>1 DEF Chain
  <1>5. nxt[start] # NULL => nxt[start] \in S \ {start}
    BY <1>1, <1>2
  <1>6. Closed(nxt, S \ {start})
    BY <1>2 DEF Closed
  <1>7. \A n \in S \ {start} : nxt[n] # NULL => nxt[n] # nxt[start]
    BY <1>1, <1>3
  <1>8. ASSUME NEW C \in SUBSET (S \ {start}), nxt[start] \in C, Closed(nxt, C)
        PROVE  C = S \ {start}
    <2>1. Closed(nxt, C \cup {start})
      BY <1>8 DEF Closed
    <2>2. C \cup {start} = S
      BY <1>1, <2>1, C \cup {start} \in SUBSET S DEF Chain
    <2>3. QED
      BY <2>2
  <1>9. QED
    BY <1>3, <1>4, <1>5, <1>6, <1>7, <1>8 DEF Chain

(* remove_thread of a later node: the one before it bypasses it. *)
LEMMA ChainUnlink ==
  ASSUME NEW nxt, NEW start, NEW S, Chain(nxt, start, S),
         NEW p \in S, NEW t \in S, p # t, t # NULL, nxt[p] = t,
         NEW nxt2, nxt2[p] = nxt[t], \A n \in S \ {p} : nxt2[n] = nxt[n]
  PROVE  Chain(nxt2, start, S \ {t})
  <1>1. start # NULL /\ start \in S /\ start # t
    BY DEF Chain
  <1>2. \A m \in S : nxt[m] # NULL => nxt[m] \in S /\ nxt[m] # start
    BY DEF Chain, Closed
  <1>3. \A k, m \in S : nxt[k] = nxt[m] /\ nxt[k] # NULL => k = m
    BY DEF Chain
  <1>4. Closed(nxt2, S \ {t})
    BY <1>2, <1>3 DEF Closed
  <1>5. \A n \in S \ {t} : nxt2[n] # NULL => nxt2[n] # start
    BY <1>2
  <1>6. \A k, m \in S \ {t} : nxt2[k] = nxt2[m] /\ nxt2[k] # NULL => k = m
    BY <1>3
  <1>7. ASSUME NEW C \in SUBSET (S \ {t}), start \in C, Closed(nxt2, C)
        PROVE  C = S \ {t}
    <2>1. CASE p \in C
      <3>1. Closed(nxt, C \cup {t})
        BY <1>7, <2>1 DEF Closed
      <3>2. C \cup {t} = S
        BY <1>7, <3>1, C \cup {t} \in SUBSET S DEF Chain
      <3>3. QED
        BY <3>2
    <2>2. CASE p \notin C
      <3>1. Closed(nxt, C)
        BY <1>7, <2>2 DEF Closed
      <3>2. C = S
        BY <1>7, <3>1, C \in SUBSET S DEF Chain
      <3>3. QED
        BY <2>2, <3>2
    <2>3. QED
      BY <2>1, <2>2
  <1>8. QED
    BY <1>1, <1>4, <1>5, <1>6, <1>7 DEF Chain

(* What hangs together from head is what can be reached. *)
LEMMA ChainIsReachable ==
  ASSUME NEW S \in SUBSET Tids, Chain(next, head, S)
  PROVE  Reachable = S
  <1>1. HoldsList(S)
    BY DEF Chain, Closed, HoldsList
  <1>2. ASSUME NEW n \in S, NEW T \in SUBSET Tids, HoldsList(T)
        PROVE  n \in T
    <2>1. head \in T \cap S
      BY <1>2 DEF Chain, HoldsList
    <2>2. Closed(next, T \cap S)
      BY <1>2 DEF Chain, Closed, HoldsList
    <2>3. T \cap S = S
      BY <2>1, <2>2, T \cap S \in SUBSET S DEF Chain
    <2>4. QED
      BY <2>3
  <1>3. QED
    BY <1>1, <1>2 DEF Reachable

-----------------------------------------------------------------------------
(* The inductive invariant. *)

Live == {t \in Tids : node[t] = "live"}

(* Where the nodes that are left hang together from: join_threads frees    *)
(* them one by one and leaves head where it was until the last.            *)
Start == IF main = "join" THEN current ELSE head

(* The nodes that a call under way has neither cut out nor still to put in. *)
Listed == {t \in Tids : /\ node[t] = "live" /\ thread[t] # "free"
                        /\ ~(main = "publish" /\ t = current)}

Quiet == process = "up" /\ ~overlapped

(* At most one call is under way. *)
OneCall == (\A t, u \in MidWalk : t = u) /\ (MainMidCall => MidWalk = {})

(* A thread that has not been created has no node, and is not created      *)
(* twice.                                                                  *)
Fresh ==
  /\ \A c \in Clients : socket[c] \in {"none", "waiting"} => node[c] = "none" /\ thread[c] = "none"
  /\ main \in {"setup", "daemonize", "timer"} => node[Timer] = "none" /\ thread[Timer] = "none"
  /\ main \in {"create", "add"} =>
       /\ node[current] = "none"
       /\ current \in Clients => socket[current] \notin {"none", "waiting"}
  /\ main = "create" => thread[current] = "none"

(* The nodes outside the chain belong to the call that is under way. *)
Held ==
  /\ \A t \in Tids : thread[t] = "free" => node[t] = "live"
  /\ main = "publish" => node[current] = "live" /\ next[current] = head

(* What remove_thread's locals point to. *)
Walks ==
  \A t \in Tids :
    /\ thread[t] \in {"look", "unlink"} =>
         /\ node[cursor[t]] = "live"
         /\ prev[t] = NULL => cursor[t] = head
         /\ prev[t] # NULL => node[prev[t]] = "live" /\ prev[t] # t /\ next[prev[t]] = cursor[t]
    /\ thread[t] = "unlink" => cursor[t] = t

(* Who was started is listed, or main is about to list it. *)
Started ==
  \A t \in Tids : thread[t] \notin {"none", "free", "done"} =>
    t \in Listed \/ (main \in {"add", "publish"} /\ current = t)

(* The list that join_threads began with can still be reached from head. *)
Joining == main = "join" => \E A \in SUBSET Tids : Chain(next, head, A) /\ Live \subseteq A

(* Unless pthread_create fails, a node stands for a thread. *)
Created ==
  ~Faults => /\ \A t \in Tids : node[t] = "live" => thread[t] # "none"
             /\ main = "add" => thread[current] # "none"

ListInv ==
  /\ OneCall /\ Fresh /\ Chain(next, Start, Listed)
  /\ Held /\ Walks /\ Started /\ Joining /\ Created

(* Threads and main move, but neither in a call nor into one, and the list *)
(* stays.                                                                  *)
AwayLabels == UsesFile \cup {"lock", "close", "check", "cleanup", "exit", "remove"}

LEMMA AwayKeepsListInv ==
  ASSUME Typed, ListInv,
         UNCHANGED << head, next, node, cursor, prev, current >>,
         \/ UNCHANGED main
         \/ /\ main \notin {"add", "publish", "join"}
            /\ main' \notin {"create", "add", "publish", "join"}
            /\ main' \in {"setup", "daemonize", "timer"} => main \in {"setup", "daemonize", "timer"},
         \A c \in Clients : socket'[c] \in {"none", "waiting"} => socket[c] \in {"none", "waiting"},
         \/ UNCHANGED thread
         \/ \E t \in Tids : /\ thread[t] \in AwayLabels
                            /\ \E label \in AwayLabels : thread' = [thread EXCEPT ![t] = label]
  PROVE  ListInv'
  <1>1. /\ \A t \in Tids : thread[t] \in WalkLabels \cup {"none", "done"} => thread'[t] = thread[t]
        /\ \A t \in Tids : thread[t] \notin WalkLabels \cup {"none", "done"} =>
                           thread'[t] \notin WalkLabels \cup {"none", "done"}
    BY DEF Typed, MutexInv, AwayLabels, UsesFile, WalkLabels
  <1>2. MidWalk' = MidWalk /\ MainMidCall' = MainMidCall
    BY <1>1 DEF MidWalk, MainMidCall, WalkLabels
  <1>3. Listed' = Listed
    BY <1>1 DEF Listed, WalkLabels
  <1>4. Start' = Start
    BY DEF Start
  <1>5. OneCall'
    BY <1>2 DEF ListInv, OneCall
  <1>6. Fresh'
    <2>1. \A t \in Tids : thread[t] = "none" => thread'[t] = "none"
      BY <1>1
    <2>2. main \in {"create", "add"} => current \in Tids
      BY DEF Typed, ListTypes, Tids
    <2>3. QED
      BY <2>1, <2>2 DEF ListInv, Fresh, Tids
  <1>7. Chain(next, Start, Listed)'
    BY <1>3, <1>4 DEF ListInv
  <1>8. Held' /\ Walks'
    BY <1>1 DEF ListInv, Held, Walks, WalkLabels
  <1>9. Started'
    BY <1>1, <1>3 DEF ListInv, Started, WalkLabels
  <1>10. Joining'
    BY DEF ListInv, Joining, Live
  <1>11. Created'
    <2>1. main = "add" => current \in Tids
      BY DEF Typed, ListTypes
    <2>2. \A t \in Tids : thread[t] # "none" => thread'[t] # "none"
      BY <1>1 DEF WalkLabels
    <2>3. QED
      BY <2>1, <2>2 DEF ListInv, Created
  <1>12. QED
    BY <1>5, <1>6, <1>7, <1>8, <1>9, <1>10, <1>11 DEF ListInv

-----------------------------------------------------------------------------
(* The main thread starts threads, lists them and joins them. *)

LEMMA StartTimerKeepsListInv ==
  ASSUME Typed, ListInv, StartTimer
  PROVE  ListInv'
  <1>1. /\ main = "timer" /\ main' = "add" /\ current' = Timer
        /\ UNCHANGED << head, next, node, cursor, prev, socket >>
    BY DEF StartTimer, MainAt, listVars, linkVars, walkVars, clientVars
  <1>2. /\ node[Timer] = "none" /\ thread[Timer] = "none" /\ Timer \notin Clients
        /\ Timer \in Tids
    BY <1>1, ThreadsAssumption DEF ListInv, Fresh, Tids
  <1>3. /\ \A t \in Tids : t # Timer => thread'[t] = thread[t]
        /\ thread'[Timer] = "check" \/ (Faults /\ thread'[Timer] = "none")
    BY <1>2 DEF StartTimer, ThreadGoto, Typed, MutexInv
  <1>4. MidWalk' = MidWalk /\ ~MainMidCall'
    BY <1>1, <1>2, <1>3 DEF MidWalk, MainMidCall
  <1>5. Listed' = Listed /\ Start' = Start
    BY <1>1, <1>2, <1>3 DEF Listed, Start
  <1>6. OneCall' /\ Fresh' /\ Chain(next, Start, Listed)'
    <2>1. Fresh'
      BY <1>1, <1>2, <1>3 DEF ListInv, Fresh, Tids
    <2>2. QED
      BY <1>1, <1>4, <1>5, <2>1 DEF ListInv, OneCall
  <1>7. Held' /\ Walks'
    BY <1>1, <1>2, <1>3 DEF ListInv, Held, Walks
  <1>8. Started' /\ Joining' /\ Created'
    BY <1>1, <1>2, <1>3, <1>5 DEF ListInv, Started, Joining, Created
  <1>9. QED
    BY <1>6, <1>7, <1>8 DEF ListInv

LEMMA AcceptKeepsListInv ==
  ASSUME Typed, ListInv, NEW c \in Clients, Accept(c)
  PROVE  ListInv'
  <1>1. /\ main = "accepting" /\ main' = "create" /\ current' = c
        /\ socket[c] = "waiting" /\ socket' = [socket EXCEPT ![c] = "accepted"]
        /\ UNCHANGED << head, next, node, cursor, prev, thread >>
    BY DEF Accept, MainAt, listVars, linkVars, walkVars
  <1>2. MidWalk' = MidWalk /\ ~MainMidCall' /\ Listed' = Listed /\ Start' = Start
    BY <1>1 DEF MidWalk, MainMidCall, Listed, Start
  <1>3. Fresh'
    BY <1>1 DEF ListInv, Fresh, Typed, ClientTypes
  <1>4. OneCall' /\ Chain(next, Start, Listed)' /\ Started'
    BY <1>1, <1>2 DEF ListInv, OneCall, Started
  <1>5. Held' /\ Walks' /\ Joining' /\ Created'
    BY <1>1 DEF ListInv, Held, Walks, Joining, Created
  <1>6. QED
    BY <1>3, <1>4, <1>5 DEF ListInv

LEMMA CreateKeepsListInv ==
  ASSUME Typed, ListInv, CreateThread, process' = "up"
  PROVE  ListInv'
  <1>1. /\ main = "create" /\ current \in Clients /\ current \in Tids
        /\ UNCHANGED << head, next, node, cursor, prev, current >>
        /\ node[current] = "none" /\ thread[current] = "none"
        /\ socket[current] \notin {"none", "waiting"}
    BY DEF CreateThread, MainAt, listVars, linkVars, walkVars, Typed, ListTypes, ListInv,
           Fresh, Tids
  <1>2. CASE main' = "loop" /\ UNCHANGED thread
               /\ socket' = [socket EXCEPT ![current] = "closed"]
    <2>1. \A c \in Clients : socket'[c] \in {"none", "waiting"} => socket[c] \in {"none", "waiting"}
      BY <1>2 DEF Typed, ClientTypes
    <2>2. QED
      BY <1>1, <1>2, <2>1, AwayKeepsListInv
  <1>3. CASE main' = "add" /\ UNCHANGED socket
               /\ thread' = [thread EXCEPT ![current] = "lock"]
    <2>1. /\ \A t \in Tids : t # current => thread'[t] = thread[t]
          /\ thread'[current] = "lock"
      BY <1>1, <1>3 DEF Typed, MutexInv
    <2>2. MidWalk' = MidWalk /\ ~MainMidCall'
      BY <1>1, <1>3, <2>1 DEF MidWalk, MainMidCall
    <2>3. Listed' = Listed /\ Start' = Start
      BY <1>1, <1>3, <2>1 DEF Listed, Start
    <2>4. Fresh'
      BY <1>1, <1>3, <2>1 DEF ListInv, Fresh, Tids
    <2>5. OneCall' /\ Chain(next, Start, Listed)'
      BY <1>1, <2>2, <2>3 DEF ListInv, OneCall
    <2>6. Held' /\ Walks'
      BY <1>1, <1>3, <2>1 DEF ListInv, Held, Walks
    <2>7. Started' /\ Joining' /\ Created'
      BY <1>1, <1>3, <2>1, <2>3 DEF ListInv, Started, Joining, Created
    <2>8. QED
      BY <2>4, <2>5, <2>6, <2>7 DEF ListInv
  <1>4. QED
    BY <1>2, <1>3 DEF CreateThread, MainAt

(* The new node points into the list; nothing points to it yet. *)
LEMMA AddKeepsListInv ==
  ASSUME Typed, ListInv, AddThread, main = "add", Quiet, Quiet'
  PROVE  ListInv'
  <1>1. /\ node' = [node EXCEPT ![current] = "live"]
        /\ next' = [next EXCEPT ![current] = head]
        /\ main' = "publish" /\ Begins
        /\ UNCHANGED << current, head, cursor, prev, thread, socket >>
    BY DEF AddThread, add_thread, MainAt, BeforeHead, walkVars, clientVars, Quiet
  <1>2. MidWalk = {} /\ current \in Tids /\ node[current] = "none"
    BY <1>1 DEF Begins, Quiet, Typed, ListTypes, ListInv, Fresh
  <1>3. MidWalk' = {}
    BY <1>1, <1>2 DEF MidWalk
  <1>4. /\ node'[current] = "live" /\ next'[current] = head
        /\ \A t \in Tids : t # current => node'[t] = node[t] /\ next'[t] = next[t]
    BY <1>1, <1>2 DEF Typed, ListTypes, ListTypeOK
  <1>5. Listed' = Listed /\ current \notin Listed /\ Listed \subseteq Tids
    BY <1>1, <1>2, <1>4 DEF Listed
  <1>6. Chain(next, Start, Listed)'
    <2>1. Start = head /\ Start' = head
      BY <1>1 DEF Start
    <2>2. Chain(next', head, Listed)
      BY <1>4, <1>5, <2>1, ChainAgrees DEF ListInv
    <2>3. QED
      BY <1>5, <2>1, <2>2
  <1>7. Fresh'
    BY <1>1, <1>4 DEF ListInv, Fresh, Tids
  <1>8. OneCall' /\ Held' /\ Walks'
    BY <1>1, <1>3, <1>4 DEF OneCall, MidWalk, Held, Walks
  <1>9. Started' /\ Joining' /\ Created'
    BY <1>1, <1>4, <1>5 DEF ListInv, Started, Joining, Created
  <1>10. QED
    BY <1>6, <1>7, <1>8, <1>9 DEF ListInv

(* Then head points to the new node. *)
LEMMA PublishKeepsListInv ==
  ASSUME Typed, ListInv, AddThread, main = "publish"
  PROVE  ListInv'
  <1>1. /\ head' = current /\ main' = "loop"
        /\ UNCHANGED << current, next, node, cursor, prev, thread, socket >>
    BY DEF AddThread, add_thread, MainAt, walkVars, clientVars
  <1>2. MidWalk = {} /\ MidWalk' = {} /\ current \in Tids
    BY <1>1 DEF ListInv, OneCall, MainMidCall, MidWalk, Typed, ListTypes
  <1>3. node[current] = "live" /\ next[current] = head /\ current # NULL
    BY <1>2, ThreadsAssumption DEF ListInv, Held, Tids
  <1>4. Listed' = Listed \cup {current} /\ current \notin Listed
    BY <1>1, <1>2, <1>3 DEF Listed, MidWalk
  <1>5. Chain(next, Start, Listed)'
    <2>1. Start = head /\ Start' = current
      BY <1>1 DEF Start
    <2>2. Chain(next, current, Listed \cup {current})
      BY <1>3, <1>4, <2>1, ChainPush DEF ListInv
    <2>3. QED
      BY <1>1, <1>4, <2>1, <2>2
  <1>6. Fresh' /\ OneCall' /\ Held' /\ Walks'
    BY <1>1, <1>2 DEF ListInv, Fresh, OneCall, MidWalk, MainMidCall, Held, Walks
  <1>7. Started' /\ Joining' /\ Created'
    BY <1>1, <1>4 DEF ListInv, Started, Joining, Created
  <1>8. QED
    BY <1>5, <1>6, <1>7 DEF ListInv

LEMMA JoinBeginsKeepsListInv ==
  ASSUME Typed, ListInv, MainLoop, JoinBegins, Quiet, Quiet'
  PROVE  ListInv'
  <1>1. /\ main = "loop" /\ current' = head
        /\ main' = IF head = NULL THEN "cleanup" ELSE "join"
        /\ UNCHANGED << head, next, node, cursor, prev, thread, socket >>
    BY DEF MainLoop, MainAt, JoinBegins, linkVars, walkVars, clientVars
  <1>2. MidWalk = {} /\ MidWalk' = {}
    BY <1>1 DEF JoinBegins, Begins, Quiet, MidWalk
  <1>3. Listed' = Listed /\ Listed = Live /\ Live' = Live /\ Start = head /\ Start' = head
    BY <1>1, <1>2 DEF Listed, Live, MidWalk, Start
  <1>4. Chain(next, Start, Listed)' /\ Joining'
    BY <1>1, <1>3, Listed \in SUBSET Tids DEF ListInv, Joining, Listed
  <1>5. Fresh' /\ OneCall' /\ Held' /\ Walks'
    BY <1>1, <1>2 DEF ListInv, Fresh, OneCall, MidWalk, Held, Walks
  <1>6. Started' /\ Created'
    BY <1>1, <1>3 DEF ListInv, Started, Created
  <1>7. QED
    BY <1>4, <1>5, <1>6 DEF ListInv

(* A turn frees the first of the nodes that are left. *)
LEMMA JoinTurnKeepsListInv ==
  ASSUME Typed, ListInv, JoinThreads, process' = "up"
  PROVE  ListInv'
  <1>1. /\ main = "join" /\ current \in Tids
        /\ thread[current] = "done" /\ node' = [node EXCEPT ![current] = "freed"]
        /\ IF next[current] = NULL
           THEN head' = NULL /\ main' = "cleanup" /\ UNCHANGED current
           ELSE current' = next[current] /\ UNCHANGED << head, main >>
        /\ UNCHANGED << next, cursor, prev, thread, socket >>
    BY DEF JoinThreads, JoinTurn, MainAt, walkVars, clientVars, Typed, ListTypes
  <1>2. MidWalk = {} /\ MidWalk' = {}
    BY <1>1 DEF ListInv, OneCall, MainMidCall, MidWalk
  <1>3. /\ node'[current] = "freed"
        /\ \A t \in Tids : t # current => node'[t] = node[t]
    BY <1>1 DEF Typed, ListTypes, ListTypeOK
  <1>4. Listed' = Listed \ {current} /\ Live' \subseteq Live
    BY <1>1, <1>3 DEF Listed, Live
  <1>5. Chain(next, Start, Listed)'
    <2>1. Start = current /\ Start' = next[current] /\ current # NULL
      BY <1>1, ThreadsAssumption DEF Start, Tids
    <2>2. Chain(next, next[current], Listed \ {current})
      BY <2>1, ChainPop DEF ListInv
    <2>3. QED
      BY <1>1, <1>4, <2>1, <2>2
  <1>6. Fresh'
    BY <1>1, <1>3 DEF ListInv, Fresh, Tids
  <1>7. OneCall' /\ Held' /\ Walks'
    BY <1>1, <1>2 DEF OneCall, Held, Walks, MidWalk
  <1>8. Started'
    BY <1>1, <1>4 DEF ListInv, Started
  <1>9. Joining'
    BY <1>1, <1>4 DEF ListInv, Joining
  <1>10. Created'
    BY <1>1, <1>3 DEF ListInv, Created
  <1>11. QED
    BY <1>5, <1>6, <1>7, <1>8, <1>9, <1>10 DEF ListInv

-----------------------------------------------------------------------------
(* A thread removes its own node.  While it walks, main is in no call and  *)
(* no other thread walks, so that what it points to is listed.             *)

LEMMA WalkIsAlone ==
  ASSUME ListInv, NEW t \in MidWalk
  PROVE  /\ main \notin {"publish", "join"}
         /\ \A u \in Tids : u # t => thread[u] \notin WalkLabels
         /\ \A n \in Tids : n # t /\ node[n] = "live" => n \in Listed
         /\ thread[t] # "free" /\ node[t] = "live" => t \in Listed
         /\ Chain(next, head, Listed)
  <1>1. main \notin {"publish", "join"} /\ \A u \in Tids : u # t => thread[u] \notin WalkLabels
    BY DEF ListInv, OneCall, MainMidCall, MidWalk, WalkLabels
  <1>2. QED
    BY <1>1 DEF ListInv, Listed, Start, WalkLabels, MidWalk

(* No step of a walk makes a thread or a node new. *)
LEMMA WalkKeepsFresh ==
  ASSUME Typed, ListInv, UNCHANGED << main, current, socket >>,
         \A u \in Tids : /\ node[u] = "none" => node'[u] = "none"
                         /\ thread[u] = "none" => thread'[u] = "none"
  PROVE  Fresh'
  <1>1. main \in {"create", "add"} => current \in Tids
    BY DEF Typed, ListTypes, Tids
  <1>2. QED
    BY <1>1 DEF ListInv, Fresh, Tids

LEMMA FindFirstKeepsListInv ==
  ASSUME Typed, ListInv, NEW t \in Tids, RemoveThread(t), FindFirst(t), Quiet, Quiet'
  PROVE  ListInv'
  <1>1. /\ thread[t] = "remove"
        /\ cursor' = [cursor EXCEPT ![t] = head] /\ prev' = [prev EXCEPT ![t] = NULL]
        /\ thread' = [thread EXCEPT ![t] = IF head = NULL THEN "done" ELSE "look"]
        /\ UNCHANGED << main, current, head, next, node, socket >>
    BY DEF RemoveThread, remove_thread, FindFirst, ThreadAt, ThreadGoto, linkVars, clientVars
  <1>2. MidWalk = {} /\ ~MainMidCall
    BY DEF FindFirst, Begins, Quiet
  <1>3. /\ thread'[t] \in {"done", "look"} /\ thread'[t] = "look" => head # NULL
        /\ cursor'[t] = head /\ prev'[t] = NULL
        /\ \A u \in Tids : u # t => thread'[u] = thread[u]
    BY <1>1 DEF Typed, MutexInv, ListTypes, ListTypeOK
  <1>4. \A u \in Tids : thread'[u] \in WalkLabels => u = t
    BY <1>2, <1>3 DEF MidWalk, WalkLabels
  <1>5. Listed' = Listed /\ Start' = Start /\ Start = head
    BY <1>1, <1>2, <1>3 DEF Listed, Start, MainMidCall
  <1>6. Chain(next, Start, Listed)'
    BY <1>1, <1>5 DEF ListInv
  <1>7. OneCall' /\ Fresh'
    <2>1. OneCall'
      BY <1>1, <1>2, <1>4 DEF OneCall, MidWalk, MainMidCall, WalkLabels
    <2>2. \A u \in Tids : /\ node[u] = "none" => node'[u] = "none"
                          /\ thread[u] = "none" => thread'[u] = "none"
      BY <1>1, <1>2, <1>3
    <2>3. QED
      BY <1>1, <2>1, <2>2, WalkKeepsFresh
  <1>8. Held'
    BY <1>1, <1>3, <1>4 DEF ListInv, Held, WalkLabels
  <1>9. Walks'
    <2>1. thread'[t] = "look" => node[head] = "live"
      BY <1>3, <1>5 DEF ListInv, Chain, Listed
    <2>2. QED
      BY <1>1, <1>3, <1>4, <2>1 DEF Walks, WalkLabels
  <1>10. Started' /\ Joining' /\ Created'
    <2>1. Started'
      BY <1>1, <1>3, <1>5 DEF ListInv, Started
    <2>2. Joining'
      BY <1>1, <1>2 DEF Joining, MainMidCall
    <2>3. Created'
      BY <1>1, <1>3 DEF ListInv, Created, Typed, ListTypes
    <2>4. QED
      BY <2>1, <2>2, <2>3
  <1>11. QED
    BY <1>6, <1>7, <1>8, <1>9, <1>10 DEF ListInv

LEMMA LookKeepsListInv ==
  ASSUME Typed, ListInv, NEW t \in Tids, RemoveThread(t), Look(t)
  PROVE  ListInv'
  <1> DEFINE n == cursor[t]
  <1>1. /\ thread[t] = "look" /\ t \in MidWalk
        /\ n \in Tids /\ node[n] = "live"
        /\ UNCHANGED << main, current, head, next, node, socket >>
    BY DEF RemoveThread, remove_thread, Look, ThreadAt, MidWalk, linkVars, clientVars,
           Typed, ListTypes, ListTypeOK, ListInv, Walks
  <1>2. /\ main \notin {"publish", "join"}
        /\ \A u \in Tids : u # t => thread[u] \notin WalkLabels
        /\ Chain(next, head, Listed)
    BY <1>1, WalkIsAlone
  <1>3. /\ \A u \in Tids : u # t => thread'[u] = thread[u]
        /\ \/ n = t /\ thread'[t] = "unlink" /\ UNCHANGED << cursor, prev >>
           \/ /\ n # t /\ thread'[t] = IF next[n] = NULL THEN "done" ELSE "look"
              /\ prev'[t] = n /\ cursor'[t] = next[n]
    BY DEF Look, ThreadGoto, AfterNode, walkVars, Typed, MutexInv, ListTypes, ListTypeOK
  <1>4. \A u \in Tids : thread'[u] \in WalkLabels => u = t
    BY <1>2, <1>3
  <1>5. Listed' = Listed /\ Start' = Start
    BY <1>1, <1>3 DEF Listed, Start
  <1>6. OneCall' /\ Fresh'
    <2>1. OneCall'
      BY <1>1, <1>2, <1>4 DEF OneCall, MidWalk, MainMidCall, WalkLabels
    <2>2. \A u \in Tids : /\ node[u] = "none" => node'[u] = "none"
                          /\ thread[u] = "none" => thread'[u] = "none"
      BY <1>1, <1>2, <1>3
    <2>3. QED
      BY <1>1, <2>1, <2>2, WalkKeepsFresh
  <1>7. Held'
    BY <1>1, <1>3 DEF ListInv, Held
  <1>8. Walks'
    <2>1. CASE n = t
      BY <1>1, <1>3, <1>4, <2>1 DEF ListInv, Walks, WalkLabels
    <2>2. CASE n # t
      <3>1. n \in Listed
        BY <1>1, <2>2, WalkIsAlone
      <3>2. next[n] # NULL => node[next[n]] = "live"
        BY <1>2, <3>1 DEF Chain, Closed, Listed
      <3>3. n # NULL
        BY <1>1, ThreadsAssumption DEF Tids
      <3>4. QED
        BY <1>1, <1>3, <1>4, <2>2, <3>2, <3>3 DEF Walks, WalkLabels
    <2>3. QED
      BY <2>1, <2>2
  <1>9. Started'
    BY <1>1, <1>3, <1>5 DEF ListInv, Started
  <1>10. Chain(next, Start, Listed)' /\ Joining'
    BY <1>1, <1>2, <1>5 DEF ListInv, Joining
  <1>11. Created'
    BY <1>1, <1>3 DEF ListInv, Created, Typed, ListTypes
  <1>12. QED
    BY <1>6, <1>7, <1>8, <1>9, <1>10, <1>11 DEF ListInv

LEMMA UnlinkKeepsListInv ==
  ASSUME Typed, ListInv, NEW t \in Tids, RemoveThread(t), Unlink(t)
  PROVE  ListInv'
  <1>1. /\ thread[t] = "unlink" /\ t \in MidWalk
        /\ cursor[t] = t /\ node[t] = "live"
        /\ UNCHANGED << main, current, node, cursor, prev, socket >>
    BY DEF RemoveThread, remove_thread, Unlink, ThreadAt, MidWalk, walkVars, clientVars,
           ListInv, Walks
  <1>2. /\ main \notin {"publish", "join"}
        /\ \A u \in Tids : u # t => thread[u] \notin WalkLabels
        /\ Chain(next, head, Listed) /\ t \in Listed /\ t # NULL
    BY <1>1, WalkIsAlone, ThreadsAssumption DEF Tids
  <1>3. thread'[t] = "free" /\ \A u \in Tids : u # t => thread'[u] = thread[u]
    BY DEF Unlink, ThreadGoto, Typed, MutexInv
  <1>4. \A u \in Tids : thread'[u] \in WalkLabels => u = t
    BY <1>2, <1>3
  <1>5. Listed' = Listed \ {t} /\ Start' = head'
    BY <1>1, <1>2, <1>3 DEF Listed, Start
  <1>6. Chain(next', head', Listed \ {t})
    <2>1. CASE prev[t] = NULL
      <3>1. head = t /\ head' = next[t] /\ UNCHANGED next
        BY <1>1, <2>1 DEF Unlink, HeadWithout, ListInv, Walks
      <3>2. QED
        BY <1>2, <3>1, ChainPop
    <2>2. CASE prev[t] # NULL
      <3>1. /\ prev[t] \in Tids /\ prev[t] # t /\ next[prev[t]] = t /\ node[prev[t]] = "live"
        BY <1>1, <2>2 DEF ListInv, Walks, Typed, ListTypes, ListTypeOK
      <3>2. prev[t] \in Listed
        BY <1>1, <3>1, WalkIsAlone
      <3>3. UNCHANGED head /\ next' = [next EXCEPT ![prev[t]] = next[t]]
        BY <2>2 DEF Unlink
      <3>4. next'[prev[t]] = next[t] /\ \A n \in Listed \ {prev[t]} : next'[n] = next[n]
        BY <3>1, <3>3 DEF Listed, Typed, ListTypes, ListTypeOK
      <3>5. ASSUME NEW p \in Listed, p # t, next[p] = t, next'[p] = next[t],
                   \A n \in Listed \ {p} : next'[n] = next[n]
            PROVE  Chain(next', head, Listed \ {t})
        BY <1>2, <3>5, ChainUnlink
      <3>6. QED
        BY <3>1, <3>2, <3>3, <3>4, <3>5
    <2>3. QED
      BY <2>1, <2>2
  <1>7. OneCall' /\ Fresh'
    <2>1. OneCall'
      BY <1>1, <1>2, <1>4 DEF OneCall, MidWalk, MainMidCall, WalkLabels
    <2>2. \A u \in Tids : /\ node[u] = "none" => node'[u] = "none"
                          /\ thread[u] = "none" => thread'[u] = "none"
      BY <1>1, <1>2, <1>3
    <2>3. QED
      BY <1>1, <2>1, <2>2, WalkKeepsFresh
  <1>8. Held' /\ Walks'
    BY <1>1, <1>2, <1>3, <1>4 DEF ListInv, Held, Walks, WalkLabels
  <1>9. Started'
    BY <1>1, <1>3, <1>5 DEF ListInv, Started
  <1>10. Chain(next, Start, Listed)' /\ Joining'
    BY <1>1, <1>2, <1>5, <1>6 DEF Joining
  <1>11. Created'
    BY <1>1, <1>3 DEF ListInv, Created, Typed, ListTypes
  <1>12. QED
    BY <1>7, <1>8, <1>9, <1>10, <1>11 DEF ListInv

LEMMA FreeKeepsListInv ==
  ASSUME Typed, ListInv, NEW t \in Tids, RemoveThread(t), Free(t)
  PROVE  ListInv'
  <1>1. /\ thread[t] = "free" /\ t \in MidWalk
        /\ UNCHANGED << main, current, head, next, cursor, prev, socket >>
    BY DEF RemoveThread, remove_thread, Free, ThreadAt, MidWalk, walkVars, clientVars
  <1>2. /\ main \notin {"publish", "join"}
        /\ \A u \in Tids : u # t => thread[u] \notin WalkLabels
        /\ Chain(next, head, Listed) /\ node[t] = "live"
    BY <1>1, WalkIsAlone DEF ListInv, Held
  <1>3. /\ thread'[t] = "done" /\ node'[t] = "freed"
        /\ \A u \in Tids : u # t => thread'[u] = thread[u] /\ node'[u] = node[u]
    BY DEF Free, ThreadGoto, Typed, MutexInv, ListTypes, ListTypeOK
  <1>4. \A u \in Tids : thread'[u] \notin WalkLabels
    BY <1>2, <1>3 DEF WalkLabels
  <1>5. Listed' = Listed /\ Start' = head
    BY <1>1, <1>2, <1>3 DEF Listed, Start
  <1>6. OneCall' /\ Fresh'
    <2>1. OneCall'
      BY <1>1, <1>2, <1>4 DEF OneCall, MidWalk, MainMidCall, WalkLabels
    <2>2. \A u \in Tids : /\ node[u] = "none" => node'[u] = "none"
                          /\ thread[u] = "none" => thread'[u] = "none"
      BY <1>1, <1>2, <1>3
    <2>3. QED
      BY <1>1, <2>1, <2>2, WalkKeepsFresh
  <1>7. Held' /\ Walks'
    BY <1>1, <1>2, <1>4 DEF Held, Walks, WalkLabels
  <1>8. Started'
    BY <1>1, <1>3, <1>5 DEF ListInv, Started
  <1>9. Chain(next, Start, Listed)' /\ Joining'
    BY <1>1, <1>2, <1>5 DEF Joining
  <1>10. Created'
    BY <1>1, <1>3 DEF ListInv, Created, Typed, ListTypes
  <1>11. QED
    BY <1>6, <1>7, <1>8, <1>9, <1>10 DEF ListInv

-----------------------------------------------------------------------------
(* Every step. *)

LEMMA BeginsAlone ==
  ASSUME Begins, ~overlapped'
  PROVE  ~overlapped
  BY Zenon DEF Begins

(* Once two calls have overlapped, or the process is down, it stays so. *)
LEMMA QuietBefore ==
  ASSUME Next, Quiet'
  PROVE  Quiet
  <1> USE DEF Quiet, MainAt, ThreadAt, procVars, listVars
  <1>1. CASE Environment
    BY <1>1 DEF Environment, signal_handler, ClientConnects, ClientSends, ClientCloses
  <1>2. CASE MainThread
    BY <1>2, BeginsAlone
    DEF MainThread, Listen, daemonize, StartTimer, MainLoop, AcceptBlocks, Accept,
        CreateThread, AddThread, add_thread, JoinThreads, JoinBegins, JoinTurn,
        AcceptFails, MainCleanup, CloseAndUnlink, Exit
  <1>3. CASE TimerThread \/ \E c \in Clients : ClientThread(c)
    <2>1. PICK t \in Tids : FileStep(t) \/ RemoveThread(t)
      BY <1>3, ThreadStepsAre
    <2>2. CASE FileStep(t)
      BY <2>2, FileStepShape
    <2>3. CASE RemoveThread(t)
      BY <2>3, BeginsAlone DEF RemoveThread, remove_thread, FindFirst, Look, Unlink, Free
    <2>4. QED
      BY <2>1, <2>2, <2>3
  <1>4. QED
    BY <1>1, <1>2, <1>3 DEF Next

LEMMA EnvironmentKeepsListInv ==
  ASSUME Typed, ListInv, Environment
  PROVE  ListInv'
  <1>1. UNCHANGED << head, next, node, cursor, prev, current, thread >>
    BY DEF Environment, signal_handler, ClientConnects, ClientSends, ClientCloses,
           procVars, listVars, linkVars, walkVars
  <1>2. UNCHANGED main \/ (main = "accepting" /\ main' = "cleanup")
    BY DEF Environment, signal_handler, ClientConnects, ClientSends, ClientCloses, procVars
  <1>3. \A c \in Clients : socket'[c] \in {"none", "waiting"} => socket[c] \in {"none", "waiting"}
    BY DEF Environment, signal_handler, ClientConnects, ClientSends, ClientCloses,
           clientVars, Typed, ClientTypes
  <1>4. QED
    BY <1>1, <1>2, <1>3, AwayKeepsListInv

LEMMA MainKeepsListInv ==
  ASSUME Typed, ListInv, MainThread, Quiet, Quiet'
  PROVE  ListInv'
  <1> USE DEF MainAt, listVars, linkVars, walkVars, clientVars
  <1>1. CASE Listen \/ daemonize
    BY <1>1, AwayKeepsListInv DEF Listen, daemonize
  <1>2. CASE StartTimer
    BY <1>2, StartTimerKeepsListInv
  <1>3. CASE MainLoop
    <2>1. CASE JoinBegins
      BY <1>3, <2>1, JoinBeginsKeepsListInv
    <2>2. CASE ~JoinBegins
      BY <1>3, <2>2, AwayKeepsListInv DEF MainLoop
    <2>3. QED
      BY <2>1, <2>2
  <1>4. CASE AcceptBlocks \/ AcceptFails
    BY <1>4, AwayKeepsListInv DEF AcceptBlocks, AcceptFails
  <1>5. CASE \E c \in Clients : Accept(c)
    BY <1>5, AcceptKeepsListInv
  <1>6. CASE CreateThread
    BY <1>6, CreateKeepsListInv DEF Quiet
  <1>7. CASE AddThread
    BY <1>7, AddKeepsListInv, PublishKeepsListInv DEF AddThread, add_thread
  <1>8. CASE JoinThreads
    BY <1>8, JoinTurnKeepsListInv DEF Quiet
  <1>9. CASE MainCleanup
    <2>1. ~Exit
      BY DEF Exit, Quiet
    <2>2. QED
      BY <1>9, <2>1, AwayKeepsListInv DEF MainCleanup, CloseAndUnlink
  <1>10. QED
    BY <1>1, <1>2, <1>3, <1>4, <1>5, <1>6, <1>7, <1>8, <1>9 DEF MainThread

LEMMA FileStepKeepsListInv ==
  ASSUME Typed, ListInv, NEW t \in Tids, FileStep(t), Quiet'
  PROVE  ListInv'
  <1>1. /\ UNCHANGED << head, next, node, cursor, prev, current, main >>
        /\ thread[t] \in AwayLabels
        /\ \E label \in AwayLabels : thread' = [thread EXCEPT ![t] = label]
    BY FileStepShape DEF Quiet, AwayLabels
  <1>2. \A c \in Clients : socket'[c] \in {"none", "waiting"} => socket[c] \in {"none", "waiting"}
    <2>1. UNCHANGED socket \/ \E c \in Clients : socket' = [socket EXCEPT ![c] = "closed"]
      BY DEF FileStep, Lock, Recv, Store, Reply, Close, TimerLoop, TimerAppends, TimerFails,
             ThreadCleanup, CloseAndUnlink, Exit, clientVars
    <2>2. QED
      BY <2>1 DEF Typed, ClientTypes
  <1>3. QED
    BY <1>1, <1>2, AwayKeepsListInv

QuietInv == Quiet => ListInv

LEMMA QuietInvariant == Spec => [](Typed /\ QuietInv)
  <1>1. Init => QuietInv
    <2> SUFFICES ASSUME Init PROVE ListInv
      BY DEF QuietInv
    <2>1. /\ main = "setup" /\ head = NULL
          /\ \A t \in Tids : thread[t] = "none" /\ node[t] = "none"
      BY DEF Init, ListInit
    <2>2. Listed = {} /\ Start = NULL /\ MidWalk = {} /\ ~MainMidCall
      BY <2>1 DEF Listed, Start, MidWalk, MainMidCall
    <2>3. Chain(next, Start, Listed)
      BY <2>2 DEF Chain, Closed
    <2>4. OneCall /\ Fresh /\ Held /\ Walks
      BY <2>1, <2>2 DEF OneCall, Fresh, Held, Walks, Tids
    <2>5. Started /\ Joining /\ Created
      BY <2>1 DEF Started, Joining, Created
    <2>6. QED
      BY <2>3, <2>4, <2>5 DEF ListInv
  <1>2. Typed /\ QuietInv /\ [Next]_vars => QuietInv'
    <2> SUFFICES ASSUME Typed, QuietInv, [Next]_vars, Quiet' PROVE ListInv'
      BY DEF QuietInv
    <2>1. CASE Next
      <3>1. Quiet /\ ListInv
        BY <2>1, QuietBefore DEF QuietInv
      <3>2. CASE Environment
        BY <3>1, <3>2, EnvironmentKeepsListInv
      <3>3. CASE MainThread
        BY <3>1, <3>3, MainKeepsListInv
      <3>4. CASE TimerThread \/ \E c \in Clients : ClientThread(c)
        <4>1. PICK t \in Tids : FileStep(t) \/ RemoveThread(t)
          BY <3>4, ThreadStepsAre
        <4>2. CASE FileStep(t)
          BY <3>1, <4>2, FileStepKeepsListInv
        <4>3. CASE RemoveThread(t)
          BY <3>1, <4>3, FindFirstKeepsListInv, LookKeepsListInv, UnlinkKeepsListInv,
             FreeKeepsListInv DEF RemoveThread, remove_thread
        <4>4. QED
          BY <4>1, <4>2, <4>3
      <3>5. QED
        BY <2>1, <3>2, <3>3, <3>4 DEF Next
    <2>2. CASE UNCHANGED vars
      <3>1. ListInv
        BY <2>2 DEF vars, procVars, listVars, QuietInv, Quiet
      <3>2. UNCHANGED << head, next, node, cursor, prev, current, main, socket, thread >>
        BY <2>2 DEF vars, procVars, listVars, linkVars, walkVars, clientVars
      <3>3. QED
        BY <3>1, <3>2, AwayKeepsListInv
    <2>3. QED
      BY <2>1, <2>2
  <1>3. QED
    BY <1>1, <1>2, TypedInvariant, PTL DEF Spec

-----------------------------------------------------------------------------
(* While no two of its calls have overlapped, the list that add_thread and *)
(* remove_thread leave holds the allocated nodes and nothing else, for any *)
(* number of threads that come and go in any order.                        *)
THEOREM ListStaysExact == Spec => []ListIsExact
  <1>1. Typed /\ QuietInv => ListIsExact
    <2> SUFFICES ASSUME QuietInv, process = "up", ~overlapped, MidWalk = {}, ~MainMidCall
                 PROVE  Reachable = {t \in Tids : node[t] = "live"}
      BY DEF ListIsExact
    <2>1. Start = head /\ Listed = {t \in Tids : node[t] = "live"}
      BY DEF Start, Listed, MidWalk, MainMidCall
    <2>2. Chain(next, head, Listed) /\ Listed \in SUBSET Tids
      BY <2>1 DEF QuietInv, Quiet, ListInv, Listed
    <2>3. QED
      BY <2>1, <2>2, ChainIsReachable
  <1>2. QED
    BY <1>1, QuietInvariant, PTL

(* Then join_threads is sure to find whoever was started and has not taken *)
(* its own node out.                                                       *)
THEOREM StartedThreadsAreListed == Spec => []ThreadsAreListed
  <1>1. Typed /\ QuietInv => ThreadsAreListed
    <2> SUFFICES ASSUME QuietInv, process = "up", ~overlapped,
                        NEW t \in Tids, thread[t] \notin {"none", "free", "done"},
                        ~(main \in {"add", "publish"} /\ current = t)
                 PROVE  t \in Reachable
      BY DEF ThreadsAreListed
    <2>1. ListInv
      BY DEF QuietInv, Quiet
    <2>2. t \in Listed /\ Listed \in SUBSET Tids
      BY <2>1 DEF ListInv, Started, Listed
    <2>3. CASE main = "join"
      <3>1. PICK A \in SUBSET Tids : Chain(next, head, A) /\ Live \subseteq A
        BY <2>1, <2>3 DEF ListInv, Joining
      <3>2. t \in A
        BY <2>2, <3>1 DEF Listed, Live
      <3>3. QED
        BY <3>1, <3>2, ChainIsReachable
    <2>4. CASE main # "join"
      BY <2>1, <2>2, <2>4, ChainIsReachable DEF ListInv, Start
    <2>5. QED
      BY <2>3, <2>4
  <1>2. QED
    BY <1>1, QuietInvariant, PTL

(* When a node is used after it was freed, or a thread joined that never   *)
(* was, two calls among add_thread, remove_thread and join_threads, whose  *)
(* wait for a thread counts, have overlapped before.  (pthread_create is   *)
(* taken not to fail for the timestamp thread: join_threads joins its      *)
(* unset tid all the same.)                                                *)
THEOREM OnlyOverlapCorrupts ==
  ASSUME ~Faults
  PROVE  Spec => []CorruptOnlyByOverlap
  <1>1. Init => CorruptOnlyByOverlap
    BY DEF Init, CorruptOnlyByOverlap
  <1>2. Typed /\ QuietInv /\ CorruptOnlyByOverlap /\ [Next]_vars => CorruptOnlyByOverlap'
    <2> SUFFICES ASSUME Typed, QuietInv, CorruptOnlyByOverlap, [Next]_vars, ~overlapped'
                 PROVE  process' # "corrupt"
      BY DEF CorruptOnlyByOverlap
    <2> USE DEF MainAt, ThreadAt, procVars, listVars
    <2>1. CASE UNCHANGED vars
      BY <2>1 DEF vars, CorruptOnlyByOverlap
    <2>2. CASE Environment
      BY <2>2
      DEF Environment, signal_handler, ClientConnects, ClientSends, ClientCloses,
          CorruptOnlyByOverlap
    <2>3. CASE MainThread /\ ~JoinThreads
      BY <2>3
      DEF MainThread, Listen, daemonize, StartTimer, MainLoop, AcceptBlocks, Accept,
          CreateThread, AddThread, add_thread, JoinBegins, AcceptFails, MainCleanup,
          CloseAndUnlink, Exit
    <2>4. CASE JoinThreads
      <3>1. process = "up" /\ main = "join" /\ thread[current] \in {"none", "done"} /\ ~overlapped
        BY <2>4 DEF JoinThreads, JoinTurn
      <3>2. ListInv /\ current \in Tids /\ current # NULL
        BY <3>1, ThreadsAssumption DEF QuietInv, Quiet, Typed, ListTypes, Tids
      <3>3. current \in Listed
        BY <3>1, <3>2 DEF ListInv, Chain, Start
      <3>4. node[current] = "live" /\ thread[current] = "done"
        BY <3>1, <3>2, <3>3 DEF Listed, ListInv, Created
      <3>5. QED
        BY <2>4, <3>1, <3>4 DEF JoinThreads, JoinTurn
    <2>5. CASE TimerThread \/ \E c \in Clients : ClientThread(c)
      <3>1. PICK t \in Tids : FileStep(t) \/ RemoveThread(t)
        BY <2>5, ThreadStepsAre
      <3>2. CASE FileStep(t)
        BY <3>2, FileStepShape
      <3>3. CASE RemoveThread(t)
        <4>1. process = "up" /\ ~overlapped
          BY <3>3, BeginsAlone DEF RemoveThread, remove_thread, FindFirst, Look, Unlink, Free
        <4>2. Held /\ Walks
          BY <4>1 DEF QuietInv, Quiet, ListInv
        <4>3. CASE FindFirst(t)
          BY <4>1, <4>3 DEF FindFirst
        <4>4. CASE Look(t)
          BY <4>1, <4>2, <4>4 DEF Look, Uses, Walks
        <4>5. CASE Unlink(t)
          BY <4>1, <4>2, <4>5 DEF Unlink, Uses, Walks
        <4>6. CASE Free(t)
          BY <4>1, <4>2, <4>6 DEF Free, Uses, Held
        <4>7. QED
          BY <3>3, <4>3, <4>4, <4>5, <4>6 DEF RemoveThread, remove_thread
      <3>4. QED
        BY <3>1, <3>2, <3>3
    <2>6. QED
      BY <2>1, <2>2, <2>3, <2>4, <2>5 DEF Next
  <1>3. QED
    BY <1>1, <1>2, QuietInvariant, PTL DEF Spec
=============================================================================
