-------------------------- MODULE AesdSocketProofs --------------------------
(* Theorems about the server, for any number of clients, whatever they     *)
(* send.                                                                   *)
EXTENDS AesdSocket, SequenceFacts, FiniteSetTheorems

ThreadLabels == UsesFile \cup {"none", "lock", "close", "check", "cleanup", "exit",
                               "remove", "look", "unlink", "free", "done"}

(* Owning the mutex is not the same as being at the file: a thread whose   *)
(* client left keeps it.  So only one direction is invariant.              *)
MutexInv ==
  /\ thread \in [Tids -> ThreadLabels]
  /\ MutexCoversFile

(* A thread that goes elsewhere, staying away from the file or being at it *)
(* already.                                                                *)
LEMMA MoveKeepsMutexInv ==
  ASSUME MutexInv, NEW t \in Tids, NEW label \in ThreadLabels,
         thread' = [thread EXCEPT ![t] = label],
         UNCHANGED file_mutex,
         label \in UsesFile => thread[t] \in UsesFile
  PROVE  MutexInv'
  BY DEF MutexInv, MutexCoversFile, UsesFile

(* A thread at the file leaves it and unlocks: nobody else was there.      *)
LEMMA UnlockKeepsMutexInv ==
  ASSUME MutexInv, NEW t \in Tids, NEW label \in ThreadLabels \ UsesFile,
         thread[t] \in UsesFile,
         thread' = [thread EXCEPT ![t] = label],
         file_mutex' = NULL
  PROVE  MutexInv'
  <1>1. \A u \in Tids : u # t => thread[u] \notin UsesFile
    BY DEF MutexInv, MutexCoversFile
  <1>2. \A u \in Tids : thread'[u] \notin UsesFile
    BY <1>1 DEF MutexInv
  <1>3. QED
    BY <1>2 DEF MutexInv, MutexCoversFile, UsesFile

LEMMA LockKeepsMutexInv ==
  ASSUME MutexInv, NEW t \in Tids, Lock(t)
  PROVE  MutexInv'
  <1>1. PICK label \in {"append", "recv"} : thread' = [thread EXCEPT ![t] = label]
    BY DEF Lock, ThreadGoto
  <1>2. file_mutex = NULL /\ file_mutex' = t
    BY DEF Lock, MutexFree
  <1>3. \A u \in Tids : thread[u] \notin UsesFile
    BY <1>2, ThreadsAssumption DEF MutexInv, MutexCoversFile, Tids
  <1>4. QED
    BY <1>1, <1>2, <1>3 DEF MutexInv, MutexCoversFile, ThreadLabels, UsesFile

(* The main thread and the clients leave the mutex alone; the main thread  *)
(* starts threads short of it.                                             *)
LEMMA MainKeepsMutexInv ==
  ASSUME MutexInv, Environment \/ MainThread
  PROVE  MutexInv'
  <1>1. UNCHANGED file_mutex
    BY DEF Environment, signal_handler, ClientConnects, ClientSends, ClientCloses,
           MainThread, Listen, daemonize, StartTimer, MainLoop, AcceptBlocks, Accept, CreateThread,
           AddThread, JoinThreads, AcceptFails, MainCleanup, CloseAndUnlink, Exit
  <1>2. \/ UNCHANGED thread
        \/ main = "create" /\ thread' = [thread EXCEPT ![current] = "lock"]
        \/ main = "timer" /\ thread' = [thread EXCEPT ![Timer] = "check"]
    BY DEF Environment, signal_handler, ClientConnects, ClientSends, ClientCloses,
           MainThread, Listen, daemonize, StartTimer, MainLoop, AcceptBlocks, Accept, CreateThread,
           AddThread, add_thread, JoinThreads, JoinBegins, JoinTurn, AcceptFails,
           MainCleanup, CloseAndUnlink, Exit, MainAt, ThreadGoto
  <1>3. CASE UNCHANGED thread
    BY <1>1, <1>3 DEF MutexInv, MutexCoversFile, UsesFile
  <1>4. CASE main = "create" /\ thread' = [thread EXCEPT ![current] = "lock"]
    BY <1>1, <1>4 DEF MutexInv, MutexCoversFile, UsesFile, ThreadLabels
  <1>5. CASE main = "timer" /\ thread' = [thread EXCEPT ![Timer] = "check"]
    BY <1>1, <1>5 DEF MutexInv, MutexCoversFile, UsesFile, ThreadLabels
  <1>6. QED
    BY <1>2, <1>3, <1>4, <1>5

(* What a thread does on its way out touches neither file nor mutex.       *)
LEMMA LeavingKeepsMutexInv ==
  ASSUME MutexInv, NEW t \in Tids,
         (t \in Clients /\ Close(t)) \/ RemoveThread(t) \/ ThreadCleanup(t)
  PROVE  MutexInv'
  <1>1. UNCHANGED file_mutex
    BY DEF Close, RemoveThread, ThreadCleanup, CloseAndUnlink, Exit
  <1>2. \/ UNCHANGED thread
        \/ \E label \in {"remove", "look", "unlink", "free", "done", "exit"} :
              thread' = [thread EXCEPT ![t] = label]
    BY DEF Close, RemoveThread, remove_thread, FindFirst, Look, AfterNode, Unlink, Free,
           ThreadCleanup, CloseAndUnlink, Exit, ThreadGoto
  <1>3. CASE UNCHANGED thread
    BY <1>1, <1>3 DEF MutexInv, MutexCoversFile, UsesFile
  <1>4. CASE \E label \in {"remove", "look", "unlink", "free", "done", "exit"} :
               thread' = [thread EXCEPT ![t] = label]
    BY <1>1, <1>4, MoveKeepsMutexInv DEF ThreadLabels, UsesFile
  <1>5. QED
    BY <1>2, <1>3, <1>4

LEMMA ThreadKeepsMutexInv ==
  ASSUME MutexInv, NEW c \in Clients, ClientThread(c)
  PROVE  MutexInv'
  <1> USE DEF Tids, ThreadLabels, UsesFile, ThreadAt, ThreadGoto
  <1>1. CASE Lock(c)
    BY <1>1, LockKeepsMutexInv
  <1>2. CASE Recv(c)
    <2>1. UNCHANGED file_mutex
      BY <1>2 DEF Recv, EndOfInput
    <2>2. PICK label \in {"store", "close"} : thread' = [thread EXCEPT ![c] = label]
      BY <1>2 DEF Recv
    <2>3. thread[c] = "recv"
      BY <1>2 DEF Recv
    <2>4. QED
      BY <2>1, <2>2, <2>3, MoveKeepsMutexInv
  <1>3. CASE Store(c)
    <2>1. thread[c] = "store"
      BY <1>3 DEF Store
    <2>2. CASE UNCHANGED file_mutex
      <3>1. PICK label \in {"reply", "recv", "cleanup"} :
              thread' = [thread EXCEPT ![c] = label]
        BY <1>3 DEF Store
      <3>2. QED
        BY <2>1, <2>2, <3>1, MoveKeepsMutexInv
    <2>3. CASE file_mutex' = NULL /\ thread' = [thread EXCEPT ![c] = "cleanup"]
      BY <2>1, <2>3, UnlockKeepsMutexInv
    <2>4. QED
      BY <1>3, <2>2, <2>3 DEF Store
  <1>4. CASE Reply(c)
    <2>1. thread[c] = "reply"
      BY <1>4 DEF Reply
    <2>2. CASE UNCHANGED << file_mutex, thread >>
      BY <2>2 DEF MutexInv, MutexCoversFile
    <2>3. CASE file_mutex' = NULL /\ thread' = [thread EXCEPT ![c] = "close"]
      BY <2>1, <2>3, UnlockKeepsMutexInv
    <2>4. CASE file_mutex' = NULL /\ thread' = [thread EXCEPT ![c] = "cleanup"]
      BY <2>1, <2>4, UnlockKeepsMutexInv
    <2>5. QED
      BY <1>4, <2>2, <2>3, <2>4 DEF Reply, ReplyUnlocks
  <1>5. CASE Close(c) \/ RemoveThread(c) \/ ThreadCleanup(c)
    BY <1>5, LeavingKeepsMutexInv
  <1>6. QED
    BY <1>1, <1>2, <1>3, <1>4, <1>5 DEF ClientThread

LEMMA TimerKeepsMutexInv ==
  ASSUME MutexInv, TimerThread
  PROVE  MutexInv'
  <1> USE DEF Tids, ThreadLabels, UsesFile, ThreadAt, ThreadGoto
  <1>1. CASE TimerLoop
    <2>1. PICK label \in {"lock", "remove"} : thread' = [thread EXCEPT ![Timer] = label]
      BY <1>1 DEF TimerLoop
    <2>2. UNCHANGED file_mutex
      BY <1>1 DEF TimerLoop
    <2>3. QED
      BY <2>1, <2>2, MoveKeepsMutexInv
  <1>2. CASE Lock(Timer)
    BY <1>2, LockKeepsMutexInv
  <1>3. CASE TimerAppends
    BY <1>3, UnlockKeepsMutexInv DEF TimerAppends
  <1>4. CASE TimerFails
    BY <1>4, MoveKeepsMutexInv DEF TimerFails
  <1>5. CASE RemoveThread(Timer) \/ ThreadCleanup(Timer)
    BY <1>5, LeavingKeepsMutexInv
  <1>6. QED
    BY <1>1, <1>2, <1>3, <1>4, <1>5 DEF TimerThread

(* The data file is never touched but by the owner of file_mutex, however  *)
(* many clients come, stay silent, leave or bring the server down.         *)
THEOREM MutexIsHeld == Spec => []MutexCoversFile
  <1>1. Init => MutexInv
    <2> SUFFICES ASSUME Init PROVE MutexInv
      OBVIOUS
    <2>1. thread = [t \in Tids |-> "none"]
      BY DEF Init
    <2>2. QED
      BY <2>1 DEF MutexInv, MutexCoversFile, ThreadLabels, UsesFile
  <1>2. MutexInv /\ [Next]_vars => MutexInv'
    <2>1. MutexInv /\ Next => MutexInv'
      BY MainKeepsMutexInv, ThreadKeepsMutexInv, TimerKeepsMutexInv DEF Next
    <2>2. MutexInv /\ UNCHANGED vars => MutexInv'
      BY DEF vars, MutexInv, MutexCoversFile
    <2>3. QED
      BY <2>1, <2>2
  <1>3. MutexInv => MutexCoversFile
    BY DEF MutexInv
  <1>4. QED
    BY <1>1, <1>2, <1>3, PTL DEF Spec

-----------------------------------------------------------------------------
(* Type correctness, in four parts. *)

WalkLabels == {"look", "unlink", "free"}

MainLabels == {"setup", "daemonize", "timer", "loop", "accept", "accepting",
               "create", "add", "publish", "join", "cleanup", "exit"}

(* The main thread deals with some thread where it uses current. *)
ListTypes ==
  /\ ListTypeOK
  /\ main \in MainLabels
  /\ main = "create" => current \in Clients
  /\ main \in {"add", "publish", "join"} => current \in Tids

(* The steps of a thread that do not belong to remove_thread. *)
FileStep(t) ==
  \/ t \in Clients /\ (Lock(t) \/ Recv(t) \/ Store(t) \/ Reply(t) \/ Close(t))
  \/ t = Timer /\ (TimerLoop \/ Lock(t) \/ TimerAppends \/ TimerFails)
  \/ ThreadCleanup(t)

LEMMA ThreadStepsAre ==
  ASSUME TimerThread \/ \E c \in Clients : ClientThread(c)
  PROVE  \E t \in Tids : FileStep(t) \/ RemoveThread(t)
  BY DEF TimerThread, ClientThread, FileStep, Tids

(* They leave the list alone and move their own thread only, outside the   *)
(* walk, or end the process.                                               *)
LEMMA FileStepShape ==
  ASSUME NEW t \in Tids, FileStep(t)
  PROVE  /\ process = "up"
         /\ UNCHANGED << main, current, head, next, node, cursor, prev, overlapped >>
         /\ \/ UNCHANGED thread /\ process' \in {"exited", "killed"}
            \/ /\ UNCHANGED process
               /\ thread[t] \in UsesFile \cup {"lock", "close", "check", "cleanup"}
               /\ \E label \in UsesFile \cup {"lock", "close", "check", "cleanup",
                                              "exit", "remove"} :
                    thread' = [thread EXCEPT ![t] = label]
  <1> USE DEF UsesFile, ThreadAt, ThreadGoto, procVars, listVars, linkVars, walkVars
  <1>1. CASE t \in Clients /\ (Lock(t) \/ Recv(t))
    BY <1>1 DEF Lock, Recv
  <1>2. CASE t \in Clients /\ (Store(t) \/ Reply(t) \/ Close(t))
    BY <1>2 DEF Store, Reply, Close
  <1>3. CASE t = Timer /\ (TimerLoop \/ Lock(t) \/ TimerAppends \/ TimerFails)
    BY <1>3 DEF TimerLoop, Lock, TimerAppends, TimerFails
  <1>4. CASE ThreadCleanup(t)
    BY <1>4 DEF ThreadCleanup, CloseAndUnlink, Exit
  <1>5. QED
    BY <1>1, <1>2, <1>3, <1>4 DEF FileStep

LEMMA FileStepKeepsListTypes ==
  ASSUME ListTypes, MutexInv, NEW t \in Tids, FileStep(t)
  PROVE  ListTypes'
  <1>1. process' \in {"up", "exited", "killed", "corrupt"}
    BY FileStepShape
  <1>2. \A u \in Tids : thread'[u] \in {"look", "unlink"} => thread[u] \in {"look", "unlink"}
    BY FileStepShape DEF MutexInv, UsesFile
  <1>3. UNCHANGED << main, current, head, next, node, cursor, prev, overlapped >>
    BY FileStepShape
  <1>4. QED
    BY <1>1, <1>2, <1>3 DEF ListTypes, ListTypeOK

LEMMA RemoveKeepsListTypes ==
  ASSUME ListTypes, MutexInv, NEW t \in Tids, remove_thread(t)
  PROVE  ListTypes'
  <1> USE DEF ListTypes, ListTypeOK, MutexInv, ThreadAt, ThreadGoto, linkVars, walkVars, Uses
  <1>1. UNCHANGED << main, current >>
    BY DEF remove_thread
  <1>2. CASE FindFirst(t)
    <2>1. overlapped' \in BOOLEAN
      BY <1>2, Zenon DEF FindFirst, Begins
    <2>2. QED
      BY <1>1, <1>2, <2>1, ThreadsAssumption DEF FindFirst
  <1>3. CASE Look(t)
    <2>1. cursor[t] \in Tids /\ next[cursor[t]] \in Tids \cup {NULL}
      BY <1>3 DEF Look
    <2>2. QED
      BY <1>1, <1>3, <2>1 DEF Look, AfterNode
  <1>4. CASE Unlink(t)
    BY <1>1, <1>4 DEF Unlink, HeadWithout
  <1>5. CASE Free(t)
    BY <1>1, <1>5 DEF Free
  <1>6. QED
    BY <1>2, <1>3, <1>4, <1>5 DEF remove_thread

LEMMA MainKeepsListTypes ==
  ASSUME ListTypes, MutexInv, Environment \/ MainThread
  PROVE  ListTypes'
  <1> USE DEF ListTypes, ListTypeOK, MutexInv, MainLabels, MainAt, ThreadGoto,
              procVars, listVars, linkVars, walkVars, Tids
  <1>1. CASE Environment
    BY <1>1 DEF Environment, signal_handler, ClientConnects, ClientSends, ClientCloses
  <1>2. CASE Listen \/ daemonize
    BY <1>2 DEF Listen, daemonize
  <1>3. CASE StartTimer
    BY <1>3 DEF StartTimer
  <1>4. CASE MainLoop
    <2>1. overlapped' \in BOOLEAN
      BY <1>4, Zenon DEF MainLoop, JoinBegins, Begins
    <2>2. QED
      BY <1>4, <2>1 DEF MainLoop, JoinBegins
  <1>5. CASE AcceptBlocks \/ AcceptFails
    BY <1>5 DEF AcceptBlocks, AcceptFails
  <1>6. CASE \E c \in Clients : Accept(c)
    BY <1>6 DEF Accept
  <1>7. CASE CreateThread
    BY <1>7 DEF CreateThread
  <1>8. CASE AddThread
    <2>1. overlapped' \in BOOLEAN
      BY <1>8, Zenon DEF AddThread, add_thread, Begins
    <2>2. QED
      BY <1>8, <2>1 DEF AddThread, add_thread, BeforeHead
  <1>9. CASE JoinThreads
    BY <1>9 DEF JoinThreads, JoinTurn
  <1>10. CASE MainCleanup
    BY <1>10 DEF MainCleanup, CloseAndUnlink, Exit
  <1>11. QED
    BY <1>1, <1>2, <1>3, <1>4, <1>5, <1>6, <1>7, <1>8, <1>9, <1>10 DEF MainThread

(* The timestamp thread is short of its bound where it may write. *)
DataTypes ==
  /\ kept \in Seq(Seq(Bytes)) /\ partial \in Seq(Bytes)
  /\ file \in Seq(Bytes) /\ linked \in BOOLEAN
  /\ ticks \in 0 .. MaxTicks
  /\ thread[Timer] \in {"lock", "append"} => ticks < MaxTicks

(* A thread that stores has a chunk to store. *)
ClientTypes ==
  /\ socket \in [Clients -> {"none", "waiting", "accepted", "closed"}]
  /\ sent \in [Clients -> 0 .. MaxChunks]
  /\ seekset \in [Clients -> {NULL} \cup Nat]
  /\ DOMAIN inbox = Clients
  /\ \A c \in Clients : /\ inbox[c] \in Seq(Chunks(c))
                        /\ thread[c] = "store" => inbox[c] # << >>

FlagTypes ==
  /\ listening \in BOOLEAN /\ running \in BOOLEAN
  /\ file_mutex \in Tids \cup {NULL}

(* A write to the device leaves sequences of bytes. *)
LEMMA DeviceWriteTypes ==
  ASSUME kept \in Seq(Seq(Bytes)), partial \in Seq(Bytes),
         NEW bytes \in Seq(Bytes), Device!Write(bytes)
  PROVE  kept' \in Seq(Seq(Bytes)) /\ partial' \in Seq(Bytes)
  <1>1. partial \o bytes \in Seq(Bytes) /\ << >> \in Seq(Bytes)
    OBVIOUS
  <1>2. Len(kept) \in Nat
    OBVIOUS
  <1>3. Device!Log!Remember(kept, partial \o bytes) \in Seq(Seq(Bytes))
    <2>1. CASE Len(kept) < MaxWriteOps
      BY <1>1, <2>1 DEF Device!Log!Remember
    <2>2. CASE ~(Len(kept) < MaxWriteOps)
      <3>1. kept # << >>
        BY <1>2, <2>2, BoundsAssumption
      <3>2. Tail(kept) \in Seq(Seq(Bytes))
        BY <3>1
      <3>3. QED
        BY <1>1, <2>2, <3>2 DEF Device!Log!Remember
    <2>3. QED
      BY <2>1, <2>2
  <1>4. QED
    BY <1>1, <1>3 DEF Device!Write

LEMMA WriteDataTypes ==
  ASSUME DataTypes, NEW bytes \in Seq(Bytes), WriteData(bytes)
  PROVE  /\ kept' \in Seq(Seq(Bytes)) /\ partial' \in Seq(Bytes)
         /\ file' \in Seq(Bytes) /\ linked' \in BOOLEAN
         /\ UNCHANGED ticks
  <1>1. Opened \in Seq(Bytes)
    BY DEF DataTypes, Opened
  <1>2. Overwritten(bytes) \in Seq(Bytes)
    <2>1. SubSeq(Opened, Len(bytes) + 1, Len(Opened)) \in Seq(Bytes)
      <3>1. Len(Opened) \in Nat /\ Len(bytes) \in Nat
        BY <1>1
      <3>2. \A i \in (Len(bytes) + 1) .. Len(Opened) : Opened[i] \in Bytes
        BY <1>1, <3>1
      <3>3. QED
        BY <3>1, <3>2, SubSeqProperties
    <2>2. QED
      BY <2>1 DEF Overwritten
  <1>3. CASE UseCharDevice /\ Device!Write(bytes) /\ UNCHANGED << file, linked, ticks >>
    BY <1>3, DeviceWriteTypes DEF DataTypes
  <1>4. CASE ~UseCharDevice /\ file' = Overwritten(bytes) /\ linked' = TRUE
               /\ UNCHANGED << kept, partial, ticks >>
    BY <1>2, <1>4 DEF DataTypes
  <1>5. CASE file' = Opened /\ linked' = ~UseCharDevice /\ UNCHANGED << kept, partial, ticks >>
    <2>1. linked' \in BOOLEAN
      BY <1>5, Zenon
    <2>2. QED
      BY <1>1, <1>5, <2>1 DEF DataTypes
  <1>6. QED
    BY <1>3, <1>4, <1>5 DEF WriteData

(* The chunk a thread stores. *)
LEMMA StoredChunk ==
  ASSUME ClientTypes, NEW c \in Clients, thread[c] = "store"
  PROVE  /\ Head(inbox[c]) \in Chunks(c)
         /\ Head(inbox[c]).bytes \in Seq(Bytes)
         /\ Tail(inbox[c]) \in Seq(Chunks(c))
  <1>1. inbox[c] \in Seq(Chunks(c)) /\ inbox[c] # << >>
    BY DEF ClientTypes
  <1>2. Head(inbox[c]) \in Chunks(c) /\ Tail(inbox[c]) \in Seq(Chunks(c))
    BY <1>1
  <1>3. QED
    BY <1>2, ChunksAssumption DEF Bytes

LEMMA FileStepKeepsDataTypes ==
  ASSUME DataTypes, ClientTypes, MutexInv, NEW t \in Tids, FileStep(t)
  PROVE  DataTypes'
  <1> USE DEF ThreadAt, ThreadGoto, dataVars, MutexInv
  <1>1. ASSUME UNCHANGED dataVars,
               thread'[Timer] \in {"lock", "append"} => ticks < MaxTicks
        PROVE  DataTypes'
    BY <1>1 DEF DataTypes
  <1>2. ASSUME UNCHANGED thread \/ \E label : thread' = [thread EXCEPT ![t] = label],
               t # Timer
        PROVE  thread'[Timer] = thread[Timer]
    BY <1>2 DEF Tids
  <1>3. CASE t \in Clients /\ (Lock(t) \/ Recv(t) \/ Reply(t) \/ Close(t))
    <2>1. UNCHANGED dataVars /\ t # Timer
      BY <1>3, ThreadsAssumption DEF Lock, Recv, Reply, Close
    <2>2. UNCHANGED thread \/ \E label : thread' = [thread EXCEPT ![t] = label]
      BY <1>3 DEF Lock, Recv, Reply, Close
    <2>3. QED
      BY <1>1, <1>2, <2>1, <2>2 DEF DataTypes
  <1>4. CASE t \in Clients /\ Store(t)
    <2>1. thread'[Timer] = thread[Timer]
      BY <1>2, <1>4, ThreadsAssumption DEF Store
    <2>2. CASE UNCHANGED dataVars
      BY <1>1, <2>1, <2>2 DEF DataTypes
    <2>3. CASE WriteData(Head(inbox[t]).bytes)
      <3>1. Head(inbox[t]).bytes \in Seq(Bytes)
        BY <1>4, StoredChunk DEF Store
      <3>2. QED
        BY <2>1, <2>3, <3>1, WriteDataTypes DEF DataTypes
    <2>4. QED
      BY <1>4, <2>2, <2>3 DEF Store
  <1>5. CASE TimerLoop
    BY <1>1, <1>5 DEF TimerLoop, DataTypes, Tids
  <1>6. CASE Lock(Timer) \/ TimerFails
    BY <1>1, <1>6 DEF Lock, TimerFails, DataTypes, Tids
  <1>7. CASE TimerAppends
    <2>1. ticks' = ticks + 1 /\ ticks < MaxTicks /\ UNCHANGED << kept, partial >>
      BY <1>7 DEF TimerAppends, DataTypes
    <2>2. file' \in Seq(Bytes) /\ linked' \in BOOLEAN
      <3>1. Opened \in Seq(Bytes) /\ << Timer, NL >> \in Seq(Bytes)
        BY DEF DataTypes, Opened, Bytes, Tids
      <3>2. QED
        BY <1>7, <3>1 DEF TimerAppends
    <2>3. thread'[Timer] = "check"
      BY <1>7 DEF TimerAppends, Tids
    <2>4. QED
      BY <2>1, <2>2, <2>3, BoundsAssumption DEF DataTypes
  <1>8. CASE ThreadCleanup(t)
    <2>1. UNCHANGED << kept, partial, file, ticks >>
      BY <1>8 DEF ThreadCleanup, CloseAndUnlink, Exit
    <2>2. linked' \in BOOLEAN
      BY <1>8, Zenon DEF ThreadCleanup, CloseAndUnlink, Exit, DataTypes
    <2>3. thread'[Timer] \in {"lock", "append"} => thread[Timer] \in {"lock", "append"}
      BY <1>8 DEF ThreadCleanup, CloseAndUnlink, Exit, Tids
    <2>4. QED
      BY <2>1, <2>2, <2>3 DEF DataTypes
  <1>9. QED
    BY <1>3, <1>4, <1>5, <1>6, <1>7, <1>8 DEF FileStep

LEMMA FileStepKeepsClientTypes ==
  ASSUME ClientTypes, MutexInv, NEW t \in Tids, FileStep(t)
  PROVE  ClientTypes'
  <1> USE DEF ThreadAt, ThreadGoto, clientVars, connVars, MutexInv
  <1>1. ASSUME UNCHANGED << inbox, sent >>,
               socket' \in [Clients -> {"none", "waiting", "accepted", "closed"}],
               seekset' \in [Clients -> {NULL} \cup Nat],
               \A c \in Clients : thread'[c] = "store" => inbox[c] # << >>
        PROVE  ClientTypes'
    BY <1>1 DEF ClientTypes
  <1>2. ASSUME NEW label, label # "store",
               UNCHANGED thread \/ thread' = [thread EXCEPT ![t] = label]
        PROVE  \A c \in Clients : thread'[c] = "store" => inbox[c] # << >>
    BY <1>2 DEF ClientTypes, Tids
  <1>3. CASE t \in Clients /\ Recv(t)
    <2>1. \A c \in Clients : thread'[c] = "store" => inbox[c] # << >>
      BY <1>3 DEF Recv, ClientTypes, Tids
    <2>2. QED
      BY <1>1, <1>3, <2>1 DEF Recv, ClientTypes
  <1>4. CASE Lock(t)
    <2>1. PICK label \in {"append", "recv"} : thread' = [thread EXCEPT ![t] = label]
      BY <1>4 DEF Lock
    <2>2. QED
      BY <1>1, <1>2, <1>4, <2>1 DEF Lock, ClientTypes
  <1>5. CASE t \in Clients /\ Reply(t)
    <2>1. PICK label \in {"close", "cleanup"} :
            UNCHANGED thread \/ thread' = [thread EXCEPT ![t] = label]
      BY <1>5 DEF Reply
    <2>2. QED
      BY <1>1, <1>2, <1>5, <2>1 DEF Reply, ClientTypes
  <1>6. CASE t \in Clients /\ Close(t)
    BY <1>1, <1>2, <1>6 DEF Close, ClientTypes
  <1>7. CASE t \in Clients /\ Store(t)
    <2>1. thread[t] = "store" /\ inbox' = [inbox EXCEPT ![t] = Tail(inbox[t])]
      BY <1>7 DEF Store
    <2>2. PICK label \in {"reply", "recv", "cleanup"} : thread' = [thread EXCEPT ![t] = label]
      BY <1>7 DEF Store
    <2>3. Tail(inbox[t]) \in Seq(Chunks(t))
      BY <1>7, <2>1, StoredChunk
    <2>4. UNCHANGED << socket, sent >>
      BY <1>7 DEF Store
    <2>5. seekset' \in [Clients -> {NULL} \cup Nat]
      <3>1. SeekPositions \subseteq Nat
        BY DEF SeekPositions
      <3>2. QED
        BY <1>7, <3>1 DEF Store, ClientTypes
    <2>6. ASSUME NEW c \in Clients
          PROVE  inbox'[c] \in Seq(Chunks(c)) /\ (thread'[c] = "store" => inbox'[c] # << >>)
      BY <1>7, <2>1, <2>2, <2>3 DEF ClientTypes, Tids
    <2>7. DOMAIN inbox' = Clients
      BY <2>1 DEF ClientTypes
    <2>8. QED
      BY <2>4, <2>5, <2>6, <2>7 DEF ClientTypes
  <1>8. CASE TimerLoop /\ t = Timer
    <2>1. PICK label \in {"lock", "remove"} : thread' = [thread EXCEPT ![t] = label]
      BY <1>8 DEF TimerLoop
    <2>2. QED
      BY <1>1, <1>2, <1>8, <2>1 DEF TimerLoop, ClientTypes
  <1>9. CASE (TimerAppends \/ TimerFails) /\ t = Timer
    BY <1>1, <1>2, <1>9 DEF TimerAppends, TimerFails, ClientTypes
  <1>10. CASE ThreadCleanup(t)
    BY <1>1, <1>2, <1>10 DEF ThreadCleanup, CloseAndUnlink, Exit, ClientTypes
  <1>11. QED
    BY <1>3, <1>4, <1>5, <1>6, <1>7, <1>8, <1>9, <1>10 DEF FileStep

LEMMA FileStepKeepsFlagTypes ==
  ASSUME FlagTypes, NEW t \in Tids, FileStep(t)
  PROVE  FlagTypes'
  <1> USE DEF FlagTypes, procVars
  <1>1. CASE t \in Clients /\ (Lock(t) \/ Recv(t) \/ Store(t) \/ Reply(t) \/ Close(t))
    BY <1>1 DEF Lock, Recv, EndOfInput, Store, Reply, ReplyUnlocks, Close
  <1>2. CASE t = Timer /\ (TimerLoop \/ Lock(t) \/ TimerAppends \/ TimerFails)
    BY <1>2 DEF TimerLoop, Lock, TimerAppends, TimerFails
  <1>3. CASE ThreadCleanup(t)
    BY <1>3 DEF ThreadCleanup, CloseAndUnlink, Exit
  <1>4. QED
    BY <1>1, <1>2, <1>3 DEF FileStep

(* remove_thread touches none of this. *)
LEMMA RemoveKeepsOtherTypes ==
  ASSUME DataTypes, ClientTypes, FlagTypes, MutexInv, NEW t \in Tids, RemoveThread(t)
  PROVE  DataTypes' /\ ClientTypes' /\ FlagTypes'
  <1>1. UNCHANGED << listening, running, file_mutex, dataVars, clientVars, connVars >>
    BY DEF RemoveThread
  <1>2. PICK label \in {"done", "look", "unlink", "free"} :
          thread' = [thread EXCEPT ![t] = label]
    BY DEF RemoveThread, remove_thread, FindFirst, Look, AfterNode, Unlink, Free, ThreadGoto
  <1>3. DataTypes'
    BY <1>1, <1>2 DEF DataTypes, dataVars, MutexInv, Tids
  <1>4. ClientTypes'
    BY <1>1, <1>2 DEF ClientTypes, clientVars, connVars, MutexInv, Tids
  <1>5. QED
    BY <1>1, <1>3, <1>4 DEF FlagTypes

LEMMA MainKeepsOtherTypes ==
  ASSUME ListTypes, DataTypes, ClientTypes, FlagTypes, MutexInv, Environment \/ MainThread
  PROVE  DataTypes' /\ ClientTypes' /\ FlagTypes'
  <1> USE DEF procVars, clientVars, connVars, dataVars, MainAt, ThreadGoto
  <1>1. /\ UNCHANGED << kept, partial, file, ticks, seekset, file_mutex >>
        /\ \/ UNCHANGED linked
           \/ linked' = (UseCharDevice /\ linked)
    BY DEF Environment, signal_handler, ClientConnects, ClientSends, ClientCloses,
           MainThread, Listen, daemonize, StartTimer, MainLoop, AcceptBlocks, Accept,
           CreateThread, AddThread, JoinThreads, AcceptFails, MainCleanup,
           CloseAndUnlink, Exit
  <1>2. \/ UNCHANGED thread
        \/ main = "create" /\ thread' = [thread EXCEPT ![current] = "lock"]
        \/ main = "timer" /\ thread' = [thread EXCEPT ![Timer] = "check"]
    BY DEF Environment, signal_handler, ClientConnects, ClientSends, ClientCloses,
           MainThread, Listen, daemonize, StartTimer, MainLoop, AcceptBlocks, Accept, CreateThread,
           AddThread, add_thread, JoinThreads, JoinBegins, JoinTurn, AcceptFails,
           MainCleanup, CloseAndUnlink, Exit
  <1>3. DataTypes'
    <2>1. linked' \in BOOLEAN
      BY <1>1, Zenon DEF DataTypes
    <2>2. thread'[Timer] \in {"lock", "append"} => thread[Timer] \in {"lock", "append"}
      BY <1>2, ThreadsAssumption DEF ListTypes, MutexInv, Tids
    <2>3. QED
      BY <1>1, <2>1, <2>2 DEF DataTypes
  <1>4. FlagTypes'
    <2>1. listening' \in BOOLEAN /\ running' \in BOOLEAN
      BY DEF FlagTypes, Environment, signal_handler, ClientConnects, ClientSends, ClientCloses,
             MainThread, Listen, daemonize, StartTimer, MainLoop, AcceptBlocks, Accept,
             CreateThread, AddThread, JoinThreads, AcceptFails, MainCleanup,
             CloseAndUnlink, Exit
    <2>2. QED
      BY <1>1, <2>1 DEF FlagTypes
  <1>5. ClientTypes'
    <2>1. \A c \in Clients : thread'[c] = "store" => thread[c] = "store"
      BY <1>2 DEF MutexInv, Tids
    <2>2. ASSUME NEW c \in Clients, ClientSends(c) PROVE ClientTypes'
      <3>1. PICK chunk \in Chunks(c) :
              /\ sent[c] < MaxChunks
              /\ inbox' = [inbox EXCEPT ![c] = Append(inbox[c], chunk)]
              /\ sent' = [sent EXCEPT ![c] = sent[c] + 1]
        BY <2>2 DEF ClientSends
      <3>2. UNCHANGED << socket, seekset, thread >>
        BY <2>2 DEF ClientSends
      <3>3. /\ Append(inbox[c], chunk) \in Seq(Chunks(c))
            /\ Append(inbox[c], chunk) # << >>
        BY AppendProperties DEF ClientTypes
      <3>4. sent' \in [Clients -> 0 .. MaxChunks]
        BY <3>1, BoundsAssumption DEF ClientTypes
      <3>5. QED
        BY <3>1, <3>2, <3>3, <3>4 DEF ClientTypes
    <2>3. ASSUME UNCHANGED << inbox, sent >>,
                 \/ UNCHANGED socket
                 \/ \E c : \E s \in {"waiting", "accepted", "closed"} :
                       socket' = [socket EXCEPT ![c] = s]
          PROVE  ClientTypes'
      BY <1>1, <2>1, <2>3 DEF ClientTypes
    <2>4. CASE Environment
      BY <2>2, <2>3, <2>4 DEF Environment, signal_handler, ClientConnects, ClientCloses
    <2>5. CASE MainThread
      BY <2>3, <2>5
      DEF MainThread, Listen, daemonize, StartTimer, MainLoop, AcceptBlocks, Accept,
          CreateThread, AddThread, JoinThreads, AcceptFails, MainCleanup,
          CloseAndUnlink, Exit
    <2>6. QED
      BY <2>4, <2>5
  <1>6. QED
    BY <1>3, <1>4, <1>5

Typed == ListTypes /\ DataTypes /\ ClientTypes /\ FlagTypes /\ MutexInv

LEMMA TypedInvariant == Spec => []Typed
  <1>1. Init => Typed
    <2> SUFFICES ASSUME Init PROVE Typed
      OBVIOUS
    <2>1. ListTypes
      BY DEF Init, ListInit, ListTypes, ListTypeOK, MainLabels
    <2>2. DataTypes
      <3>1. /\ kept = << >> /\ partial = << >> /\ file = << >> /\ linked = FALSE
            /\ ticks = 0 /\ thread[Timer] = "none"
        BY DEF Init, Device!Init, Tids
      <3>2. linked \in BOOLEAN
        BY <3>1
      <3>3. kept \in Seq(Seq(Bytes)) /\ partial \in Seq(Bytes) /\ file \in Seq(Bytes)
        BY <3>1
      <3>4. QED
        BY <3>1, <3>2, <3>3, BoundsAssumption DEF DataTypes
    <2>3. ClientTypes
      BY BoundsAssumption DEF Init, ClientTypes, Tids
    <2>4. FlagTypes
      BY DEF Init, FlagTypes
    <2>5. MutexInv
      BY DEF Init, MutexInv, MutexCoversFile, ThreadLabels, UsesFile
    <2>6. QED
      BY <2>1, <2>2, <2>3, <2>4, <2>5 DEF Typed
  <1>2. Typed /\ [Next]_vars => Typed'
    <2> SUFFICES ASSUME Typed, [Next]_vars PROVE Typed'
      OBVIOUS
    <2> USE DEF Typed
    <2>1. CASE Environment \/ MainThread
      BY <2>1, MainKeepsListTypes, MainKeepsOtherTypes, MainKeepsMutexInv
    <2>2. CASE TimerThread \/ \E c \in Clients : ClientThread(c)
      <3>1. MutexInv'
        BY <2>2, ThreadKeepsMutexInv, TimerKeepsMutexInv
      <3>2. PICK t \in Tids : FileStep(t) \/ RemoveThread(t)
        BY <2>2, ThreadStepsAre
      <3>3. CASE FileStep(t)
        BY <3>1, <3>3, FileStepKeepsListTypes, FileStepKeepsDataTypes,
           FileStepKeepsClientTypes, FileStepKeepsFlagTypes
      <3>4. CASE RemoveThread(t)
        <4>1. ListTypes'
          BY <3>4, RemoveKeepsListTypes DEF RemoveThread
        <4>2. QED
          BY <3>1, <3>4, <4>1, RemoveKeepsOtherTypes
      <3>5. QED
        BY <3>2, <3>3, <3>4
    <2>3. CASE UNCHANGED vars
      BY <2>3
      DEF vars, procVars, listVars, linkVars, walkVars, dataVars, clientVars, connVars,
          ListTypes, ListTypeOK, DataTypes, ClientTypes, FlagTypes, MutexInv, MutexCoversFile
    <2>4. QED
      BY <2>1, <2>2, <2>3 DEF Next
  <1>3. QED
    BY <1>1, <1>2, PTL DEF Spec

(* What the server keeps has its type in every interleaving, crash of a    *)
(* thread and overlap of the list's calls: no walk of the list follows a   *)
(* null pointer, and main deals with a thread where it takes one to be.    *)
THEOREM TypeCorrect == Spec => []TypeOK
  <1>1. Typed => TypeOK
    BY DEF Typed, ListTypes, DataTypes, ClientTypes, FlagTypes, MutexInv, TypeOK,
           MainLabels, ThreadLabels
  <1>2. QED
    BY <1>1, TypedInvariant, PTL

-----------------------------------------------------------------------------
(* Who wrote what. *)

(* No client sends a seek command or anything after a newline in one chunk. *)
PlainChunks ==
  \A c \in Clients : \A chunk \in Chunks(c) :
    /\ chunk.kind = "data"
    /\ chunk.bytes \in Seq({c, NL})
    /\ \A i \in 1 .. Len(chunk.bytes) - 1 : chunk.bytes[i] # NL

(* Lines by one client. *)
Authored == UNION {Seq({c, NL}) : c \in Clients}

(* The beginning of a line belongs to the client that owns file_mutex, and *)
(* is gone when the reply is due.                                          *)
AuthorInv ==
  /\ partial # << >> => file_mutex \in Clients /\ partial \in Seq({file_mutex, NL})
  /\ \A c \in Clients : thread[c] = "reply" => partial = << >>
  /\ ~UseCharDevice => partial = << >>
  /\ kept \in Seq(Authored)

(* Steps that write nothing and let nobody else in on the beginning of a   *)
(* line.                                                                   *)
LEMMA NoWriteKeepsAuthors ==
  ASSUME AuthorInv, UNCHANGED << kept, partial >>,
         partial # << >> => UNCHANGED file_mutex,
         \A c \in Clients : thread'[c] = "reply" => thread[c] = "reply"
  PROVE  AuthorInv'
  BY DEF AuthorInv

(* Joining what c wrote to what it writes now. *)
LEMMA SameAuthor ==
  ASSUME Typed, AuthorInv, NEW c \in Clients, file_mutex = c,
         NEW bytes \in Seq({c, NL})
  PROVE  /\ partial \o bytes \in Seq({c, NL})
         /\ Len(partial \o bytes) = Len(partial) + Len(bytes)
         /\ bytes # << >> => (partial \o bytes)[Len(partial \o bytes)] = bytes[Len(bytes)]
  <1>1. partial \in Seq({c, NL})
    <2>1. CASE partial = << >>
      BY <2>1
    <2>2. CASE partial # << >>
      BY <2>2 DEF AuthorInv
    <2>3. QED
      BY <2>1, <2>2
  <1>2. Len(bytes) \in Nat /\ Len(partial) \in Nat
    BY <1>1
  <1>3. bytes # << >> => Len(bytes) \in 1 .. Len(bytes)
    BY <1>2, EmptySeq
  <1>4. QED
    BY <1>1, <1>2, <1>3, ConcatProperties

LEMMA RememberKeepsAuthors ==
  ASSUME NEW log \in Seq(Authored), NEW line \in Authored
  PROVE  Device!Log!Remember(log, line) \in Seq(Authored)
  <1>1. Len(log) \in Nat
    OBVIOUS
  <1>2. CASE Len(log) < MaxWriteOps
    BY <1>2 DEF Device!Log!Remember
  <1>3. CASE ~(Len(log) < MaxWriteOps)
    <2>1. log # << >>
      BY <1>1, <1>3, BoundsAssumption
    <2>2. Tail(log) \in Seq(Authored)
      BY <2>1
    <2>3. QED
      BY <1>3, <2>2 DEF Device!Log!Remember
  <1>4. QED
    BY <1>2, <1>3

LEMMA StoreKeepsAuthors ==
  ASSUME ~Faults, PlainChunks, Typed, AuthorInv, NEW c \in Clients, Store(c)
  PROVE  AuthorInv'
  <1> DEFINE bytes == Head(inbox[c]).bytes
             line  == partial \o bytes
  <1>1. thread[c] = "store" /\ file_mutex = c
    BY DEF Store, ThreadAt, Typed, MutexInv, MutexCoversFile, UsesFile, Tids
  <1>2. /\ Head(inbox[c]).kind = "data" /\ bytes \in Seq({c, NL})
        /\ \A i \in 1 .. Len(bytes) - 1 : bytes[i] # NL
    BY <1>1, StoredChunk DEF PlainChunks, Typed
  <1>3. /\ WriteData(bytes) /\ UNCHANGED file_mutex
        /\ thread' = [thread EXCEPT ![c] = IF Contains(bytes, NL) THEN "reply" ELSE "recv"]
    BY <1>2 DEF Store, ThreadGoto
  <1>4. \A d \in Clients : thread'[d] = "reply" => d = c
    BY <1>1, <1>3 DEF Typed, MutexInv, MutexCoversFile, UsesFile, Tids
  <1>5. thread'[c] = "reply" => Contains(bytes, NL)
    BY <1>3 DEF Typed, MutexInv, Tids
  <1>6. /\ line \in Seq({c, NL})
        /\ Len(line) = Len(partial) + Len(bytes)
        /\ bytes # << >> => line[Len(line)] = bytes[Len(bytes)]
    BY <1>1, <1>2, SameAuthor
  <1>7. Contains(bytes, NL) => line # << >> /\ line[Len(line)] = NL
    <2> SUFFICES ASSUME Contains(bytes, NL) PROVE line # << >> /\ line[Len(line)] = NL
      OBVIOUS
    <2>1. Len(bytes) \in Nat /\ Len(partial) \in Nat
      BY <1>2 DEF Typed, DataTypes
    <2>2. PICK i \in 1 .. Len(bytes) : bytes[i] = NL
      BY DEF Contains
    <2>3. i = Len(bytes)
      BY <1>2, <2>1, <2>2
    <2>4. bytes # << >> /\ line # << >>
      BY <1>6, <2>1, <2>2
    <2>5. QED
      BY <1>6, <2>2, <2>3, <2>4
  <1>8. CASE ~UseCharDevice
    <2>1. UNCHANGED << kept, partial >> /\ partial = << >>
      BY <1>3, <1>8 DEF WriteData, AuthorInv
    <2>2. QED
      BY <1>3, <2>1 DEF AuthorInv
  <1>9. CASE UseCharDevice
    <2>1. Device!Write(bytes)
      BY <1>3, <1>9 DEF WriteData
    <2>2. CASE Device!EndsLine(line)
      <3>1. kept' = Device!Log!Remember(kept, line) /\ partial' = << >>
        BY <2>1, <2>2 DEF Device!Write
      <3>2. line \in Authored
        BY <1>6 DEF Authored
      <3>3. kept' \in Seq(Authored)
        BY <3>1, <3>2, RememberKeepsAuthors DEF AuthorInv
      <3>4. QED
        BY <3>1, <3>3 DEF AuthorInv
    <2>3. CASE ~Device!EndsLine(line)
      <3>1. partial' = line /\ UNCHANGED kept
        BY <2>1, <2>3 DEF Device!Write
      <3>2. \A d \in Clients : thread'[d] # "reply"
        BY <1>4, <1>5, <1>7, <2>3 DEF Device!EndsLine
      <3>3. QED
        BY <1>1, <1>3, <1>6, <1>9, <3>1, <3>2 DEF AuthorInv
    <2>4. QED
      BY <2>2, <2>3
  <1>10. QED
    BY <1>8, <1>9

(* Locking finds no beginning of a line, and unlocking leaves none.        *)
LEMMA FileStepKeepsAuthors ==
  ASSUME ~Faults, PlainChunks, Typed, AuthorInv, NEW t \in Tids, FileStep(t)
  PROVE  AuthorInv'
  <1> USE DEF ThreadAt, ThreadGoto, dataVars, Typed, MutexInv, Tids
  <1>1. CASE Lock(t)
    <2>1. partial = << >>
      BY <1>1, ThreadsAssumption DEF Lock, MutexFree, AuthorInv
    <2>2. QED
      BY <1>1, <2>1, NoWriteKeepsAuthors DEF Lock
  <1>2. CASE t \in Clients /\ (Recv(t) \/ Close(t))
    BY <1>2, NoWriteKeepsAuthors DEF Recv, EndOfInput, Close
  <1>3. CASE t \in Clients /\ Store(t)
    BY <1>3, StoreKeepsAuthors
  <1>4. CASE t \in Clients /\ Reply(t)
    <2>1. partial = << >>
      BY <1>4 DEF Reply, AuthorInv
    <2>2. \A c \in Clients : thread'[c] = "reply" => thread[c] = "reply"
      BY <1>4 DEF Reply
    <2>3. QED
      BY <1>4, <2>1, <2>2, NoWriteKeepsAuthors DEF Reply
  <1>5. CASE t = Timer /\ TimerAppends
    <2>1. partial = << >>
      BY <1>5, ThreadsAssumption DEF TimerAppends, MutexCoversFile, UsesFile, AuthorInv
    <2>2. QED
      BY <1>5, <2>1, NoWriteKeepsAuthors DEF TimerAppends
  <1>6. CASE t = Timer /\ (TimerLoop \/ TimerFails)
    BY <1>6, NoWriteKeepsAuthors DEF TimerLoop, TimerFails
  <1>7. CASE ThreadCleanup(t)
    BY <1>7, NoWriteKeepsAuthors DEF ThreadCleanup, CloseAndUnlink, Exit
  <1>8. QED
    BY <1>1, <1>2, <1>3, <1>4, <1>5, <1>6, <1>7 DEF FileStep

(* The main thread and a walk of the list bring nobody to a reply. *)
LEMMA OtherStepsNeverReply ==
  ASSUME Typed, Environment \/ MainThread \/ \E t \in Tids : RemoveThread(t)
  PROVE  \A c \in Clients : thread'[c] = "reply" => thread[c] = "reply"
  <1>1. \/ UNCHANGED thread
        \/ \E t \in Tids : \E label \in {"lock", "check", "look", "unlink", "free", "done"} :
              thread' = [thread EXCEPT ![t] = label]
    <2>1. CASE Environment
      BY <2>1 DEF Environment, signal_handler, ClientConnects, ClientSends, ClientCloses
    <2>2. CASE MainThread
      BY <2>2
      DEF MainThread, Listen, daemonize, StartTimer, MainLoop, AcceptBlocks, Accept,
          CreateThread, AddThread, add_thread, JoinThreads, JoinBegins, JoinTurn, AcceptFails,
          MainCleanup, CloseAndUnlink, Exit, MainAt, ThreadGoto, Typed, ListTypes, Tids
    <2>3. CASE \E t \in Tids : RemoveThread(t)
      BY <2>3
      DEF RemoveThread, remove_thread, FindFirst, Look, AfterNode, Unlink, Free, ThreadGoto
    <2>4. QED
      BY <2>1, <2>2, <2>3
  <1>2. QED
    BY <1>1 DEF Typed, MutexInv, Tids

(* The other steps neither write nor lock. *)
LEMMA OtherStepKeepsAuthors ==
  ASSUME Typed, AuthorInv,
         Environment \/ MainThread \/ \E t \in Tids : RemoveThread(t)
  PROVE  AuthorInv'
  <1>1. UNCHANGED << kept, partial, file_mutex >>
    BY DEF dataVars, Environment, signal_handler, ClientConnects, ClientSends, ClientCloses,
           MainThread, Listen, daemonize, StartTimer, MainLoop, AcceptBlocks, Accept,
           CreateThread, AddThread, JoinThreads, AcceptFails, MainCleanup, CloseAndUnlink,
           Exit, RemoveThread
  <1>2. QED
    BY <1>1, OtherStepsNeverReply, NoWriteKeepsAuthors

(* What one client wrote has one author. *)
LEMMA OneAuthor ==
  ASSUME NEW c, NEW s \in Seq({c, NL})
  PROVE  Cardinality(Range(s) \ {NL}) <= 1
  <1>1. Range(s) \ {NL} \subseteq {c}
    BY DEF Range
  <1>2. IsFiniteSet({c}) /\ Cardinality({c}) = 1
    BY FS_Singleton
  <1>3. QED
    BY <1>1, <1>2, FS_Subset

LEMMA AuthorInvariant ==
  ASSUME ~Faults, PlainChunks
  PROVE  Spec => []AuthorInv
  <1>1. Init => AuthorInv
    BY DEF Init, Device!Init, AuthorInv, Tids
  <1>2. Typed /\ AuthorInv /\ [Next]_vars => AuthorInv'
    <2> SUFFICES ASSUME Typed, AuthorInv, [Next]_vars PROVE AuthorInv'
      OBVIOUS
    <2>1. CASE Environment \/ MainThread
      BY <2>1, OtherStepKeepsAuthors
    <2>2. CASE TimerThread \/ \E c \in Clients : ClientThread(c)
      BY <2>2, ThreadStepsAre, FileStepKeepsAuthors, OtherStepKeepsAuthors
    <2>3. CASE UNCHANGED vars
      BY <2>3 DEF vars, dataVars, AuthorInv
    <2>4. QED
      BY <2>1, <2>2, <2>3 DEF Next
  <1>3. QED
    BY <1>1, <1>2, TypedInvariant, PTL DEF Spec

(* Lines of different clients do not run into each other on the device,    *)
(* however their chunks come and whoever waits, leaves in the middle of a  *)
(* line or stays silent, as long as handle_client leaves the mutex only    *)
(* with the newline: a seek command or a failed write gives it back with   *)
(* the line begun, and bytes after a newline stay behind.                  *)
THEOREM LinesDoNotMix ==
  ASSUME ~Faults, PlainChunks
  PROVE  Spec => []CommandsHaveOneAuthor
  <1>1. AuthorInv => CommandsHaveOneAuthor
    <2> SUFFICES ASSUME kept \in Seq(Authored), NEW i \in DOMAIN kept
                 PROVE  Cardinality(Range(kept[i]) \ {NL}) <= 1
      BY DEF AuthorInv, CommandsHaveOneAuthor
    <2>1. kept[i] \in Authored
      OBVIOUS
    <2>2. PICK c \in Clients : kept[i] \in Seq({c, NL})
      BY <2>1 DEF Authored
    <2>3. QED
      BY <2>2, OneAuthor
  <1>2. QED
    BY <1>1, AuthorInvariant, PTL

-----------------------------------------------------------------------------
(* A client's own data in its reply. *)

(* Every chunk of data has a byte of its sender, and nothing follows the   *)
(* newline in one.                                                         *)
SignedChunks ==
  \A c \in Clients : \A chunk \in Chunks(c) :
    chunk.kind = "data" =>
      /\ c \in Range(chunk.bytes)
      /\ Contains(chunk.bytes, NL) => chunk.bytes[Len(chunk.bytes)] = NL

(* Is something of c in the data file? *)
Stored(c) == IF UseCharDevice THEN \E i \in DOMAIN kept : c \in Range(kept[i])
             ELSE c \in Range(file)

(* From its write to its reply, c's data is in the file. *)
AnswerInv ==
  /\ DOMAIN reply = Clients
  /\ \A c \in Clients : thread[c] = "reply" /\ seekset[c] = NULL => Stored(c)

(* Steps that do not change the data of a client about to be answered. *)
LEMMA NoWriteKeepsAnswers ==
  ASSUME AnswerInv, DOMAIN reply' = Clients,
         \A c \in Clients : thread'[c] = "reply" /\ seekset'[c] = NULL =>
           thread[c] = "reply" /\ seekset[c] = NULL /\ UNCHANGED << kept, file >>
  PROVE  AnswerInv'
  BY DEF AnswerInv, Stored

(* A line that ends is in the log. *)
LEMMA RememberedIsThere ==
  ASSUME NEW log \in Seq(Seq(Bytes)), NEW line \in Seq(Bytes)
  PROVE  \E i \in DOMAIN Device!Log!Remember(log, line) :
            Device!Log!Remember(log, line)[i] = line
  <1>1. Len(log) \in Nat
    OBVIOUS
  <1>2. ASSUME NEW s \in Seq(Seq(Bytes))
        PROVE  \E i \in DOMAIN Append(s, line) : Append(s, line)[i] = line
    <2>1. Len(s) + 1 \in DOMAIN Append(s, line) /\ Append(s, line)[Len(s) + 1] = line
      OBVIOUS
    <2>2. QED
      BY <2>1
  <1>3. CASE Len(log) < MaxWriteOps
    BY <1>2, <1>3 DEF Device!Log!Remember
  <1>4. CASE ~(Len(log) < MaxWriteOps)
    <2>1. log # << >>
      BY <1>1, <1>4, BoundsAssumption
    <2>2. Tail(log) \in Seq(Seq(Bytes))
      BY <2>1
    <2>3. QED
      BY <1>2, <1>4, <2>2 DEF Device!Log!Remember
  <1>5. QED
    BY <1>3, <1>4

(* Joining sequences loses no element of either. *)
LEMMA ConcatKeepsElements ==
  ASSUME NEW s \in Seq(Bytes), NEW t \in Seq(Bytes)
  PROVE  Range(s) \subseteq Range(s \o t) /\ Range(t) \subseteq Range(s \o t)
  <1>1. Len(s) \in Nat /\ Len(t) \in Nat /\ s \o t \in Seq(Bytes)
    OBVIOUS
  <1>2. \A i \in DOMAIN s : i \in DOMAIN (s \o t) /\ (s \o t)[i] = s[i]
    BY <1>1, ConcatProperties
  <1>3. \A i \in DOMAIN t : Len(s) + i \in DOMAIN (s \o t) /\ (s \o t)[Len(s) + i] = t[i]
    BY <1>1, ConcatProperties
  <1>4. QED
    BY <1>2, <1>3 DEF Range

(* What handle_client writes before a reply is in the data file then. *)
LEMMA WriteStores ==
  ASSUME ~Faults, Typed, NEW c \in Clients, NEW bytes \in Seq(Bytes),
         c \in Range(bytes), Contains(bytes, NL), bytes[Len(bytes)] = NL,
         WriteData(bytes)
  PROVE  Stored(c)'
  <1> DEFINE line == partial \o bytes
  <1>1. /\ kept \in Seq(Seq(Bytes)) /\ partial \in Seq(Bytes) /\ Opened \in Seq(Bytes)
        /\ Len(bytes) \in Nat /\ Len(partial) \in Nat
    BY DEF Typed, DataTypes, Opened
  <1>2. CASE ~UseCharDevice
    <2>1. file' = Overwritten(bytes)
      BY <1>2 DEF WriteData
    <2>2. SubSeq(Opened, Len(bytes) + 1, Len(Opened)) \in Seq(Bytes)
      <3>1. Len(Opened) \in Nat
        BY <1>1
      <3>2. \A i \in (Len(bytes) + 1) .. Len(Opened) : Opened[i] \in Bytes
        BY <1>1, <3>1
      <3>3. QED
        BY <1>1, <3>1, <3>2, SubSeqProperties
    <2>3. c \in Range(file')
      BY <2>1, <2>2, ConcatKeepsElements DEF Overwritten
    <2>4. QED
      BY <1>2, <2>3 DEF Stored
  <1>3. CASE UseCharDevice
    <2>1. Device!Write(bytes)
      BY <1>3 DEF WriteData
    <2>2. line \in Seq(Bytes) /\ c \in Range(line)
      BY <1>1, ConcatKeepsElements
    <2>3. Device!EndsLine(line)
      <3>1. Len(bytes) \in 1 .. Len(bytes)
        BY <1>1 DEF Contains
      <3>2. Len(line) = Len(partial) + Len(bytes) /\ line[Len(line)] = NL /\ Len(line) # 0
        BY <1>1, <3>1, ConcatProperties
      <3>3. line # << >>
        BY <3>2
      <3>4. QED
        BY <3>2, <3>3 DEF Device!EndsLine
    <2>4. kept' = Device!Log!Remember(kept, line)
      BY <2>1, <2>3 DEF Device!Write
    <2>5. PICK i \in DOMAIN kept' : kept'[i] = line
      BY <1>1, <2>2, <2>4, RememberedIsThere
    <2>6. QED
      BY <1>3, <2>2, <2>5 DEF Stored
  <1>4. QED
    BY <1>2, <1>3

LEMMA StoreKeepsAnswers ==
  ASSUME ~Faults, SignedChunks, Typed, AnswerInv, NEW c \in Clients, Store(c)
  PROVE  AnswerInv'
  <1> DEFINE chunk == Head(inbox[c])
  <1>1. thread[c] = "store" /\ file_mutex = c /\ UNCHANGED reply
    BY DEF Store, ThreadAt, Typed, MutexInv, MutexCoversFile, UsesFile, Tids
  <1>2. chunk \in Chunks(c) /\ chunk.bytes \in Seq(Bytes)
    BY <1>1, StoredChunk DEF Typed
  <1>3. \A d \in Clients : thread'[d] = "reply" => d = c
    <2>1. \A d \in Clients : d # c => thread[d] # "reply" /\ thread'[d] = thread[d]
      BY <1>1 DEF Store, ThreadGoto, Typed, MutexInv, MutexCoversFile, UsesFile, Tids
    <2>2. QED
      BY <2>1
  <1>4. ASSUME thread'[c] = "reply", seekset'[c] = NULL
        PROVE  Stored(c)'
    <2>1. chunk.kind = "data" /\ WriteData(chunk.bytes) /\ Contains(chunk.bytes, NL)
      <3>1. CASE /\ chunk.kind = "data" /\ WriteData(chunk.bytes)
                 /\ ThreadGoto(c, IF Contains(chunk.bytes, NL) THEN "reply" ELSE "recv")
        BY <1>4, <3>1 DEF ThreadGoto, Typed, MutexInv, Tids
      <3>2. CASE \E pos \in SeekPositions : seekset' = [seekset EXCEPT ![c] = pos]
        <4>1. SeekPositions \subseteq Nat
          <5>1. CASE UseCharDevice
            <6>1. Len(Contents) \in Nat
              BY <5>1, FlattenKeepsElements DEF Contents, Typed, DataTypes
            <6>2. QED
              BY <5>1, <6>1 DEF SeekPositions
          <5>2. QED
            BY <5>1 DEF SeekPositions
        <4>2. QED
          BY <1>4, <3>2, <4>1, OffsetsAssumption DEF Typed, ClientTypes
      <3>3. CASE ThreadGoto(c, "cleanup")
        BY <1>4, <3>3 DEF ThreadGoto, Typed, MutexInv, Tids
      <3>4. QED
        BY <3>1, <3>2, <3>3 DEF Store
    <2>2. c \in Range(chunk.bytes) /\ chunk.bytes[Len(chunk.bytes)] = NL
      BY <1>2, <2>1 DEF SignedChunks
    <2>3. QED
      BY <1>2, <2>1, <2>2, WriteStores
  <1>5. QED
    BY <1>1, <1>3, <1>4 DEF AnswerInv

(* Whoever else writes would have to own file_mutex, and so would the      *)
(* client that is about to be answered.                                    *)
LEMMA FileStepKeepsAnswers ==
  ASSUME ~Faults, SignedChunks, Typed, AnswerInv, NEW t \in Tids, FileStep(t)
  PROVE  AnswerInv'
  <1> USE DEF ThreadAt, ThreadGoto, dataVars, connVars, Typed, MutexInv, Tids
  <1>1. CASE Lock(t)
    BY <1>1, NoWriteKeepsAnswers DEF Lock, AnswerInv
  <1>2. CASE t \in Clients /\ (Recv(t) \/ Close(t))
    BY <1>2, NoWriteKeepsAnswers DEF Recv, Close, AnswerInv
  <1>3. CASE t \in Clients /\ Store(t)
    BY <1>3, StoreKeepsAnswers
  <1>4. CASE t \in Clients /\ Reply(t)
    <2>1. DOMAIN reply' = Clients /\ UNCHANGED << kept, file, seekset >>
      BY <1>4 DEF Reply, AnswerInv
    <2>2. \A c \in Clients : thread'[c] = "reply" => thread[c] = "reply"
      BY <1>4 DEF Reply
    <2>3. QED
      BY <2>1, <2>2, NoWriteKeepsAnswers
  <1>5. CASE t = Timer /\ TimerAppends
    <2>1. \A c \in Clients : thread'[c] # "reply"
      BY <1>5, ThreadsAssumption DEF TimerAppends, MutexCoversFile, UsesFile
    <2>2. QED
      BY <1>5, <2>1, NoWriteKeepsAnswers DEF TimerAppends, AnswerInv
  <1>6. CASE t = Timer /\ (TimerLoop \/ TimerFails)
    BY <1>6, NoWriteKeepsAnswers DEF TimerLoop, TimerFails, AnswerInv
  <1>7. CASE ThreadCleanup(t)
    BY <1>7, NoWriteKeepsAnswers DEF ThreadCleanup, CloseAndUnlink, Exit, AnswerInv
  <1>8. QED
    BY <1>1, <1>2, <1>3, <1>4, <1>5, <1>6, <1>7 DEF FileStep

LEMMA OtherStepKeepsAnswers ==
  ASSUME Typed, AnswerInv,
         Environment \/ MainThread \/ \E t \in Tids : RemoveThread(t)
  PROVE  AnswerInv' /\ UNCHANGED reply
  <1>1. UNCHANGED << kept, file, seekset, reply >>
    BY DEF dataVars, connVars, Environment, signal_handler, ClientConnects, ClientSends,
           ClientCloses, MainThread, Listen, daemonize, StartTimer, MainLoop, AcceptBlocks,
           Accept, CreateThread, AddThread, JoinThreads, AcceptFails, MainCleanup,
           CloseAndUnlink, Exit, RemoveThread
  <1>2. \A c \in Clients : thread'[c] = "reply" => thread[c] = "reply"
    BY OtherStepsNeverReply
  <1>3. QED
    BY <1>1, <1>2, NoWriteKeepsAnswers DEF AnswerInv

(* A reply that starts at offset 0 has everything in the data file. *)
LEMMA ReplyHasOwnData ==
  ASSUME Typed, AnswerInv, NEW c \in Clients, thread[c] = "reply", seekset[c] = NULL
  PROVE  c \in Range(SubSeq(Contents, ReadFrom(c) + 1, Len(Contents)))
  <1>1. Contents \in Seq(Bytes) /\ c \in Range(Contents)
    <2>1. CASE ~UseCharDevice
      BY <2>1 DEF Contents, Typed, DataTypes, AnswerInv, Stored
    <2>2. CASE UseCharDevice
      <3>1. PICK i \in DOMAIN kept : c \in Range(kept[i])
        BY <2>2 DEF AnswerInv, Stored
      <3>2. kept \in Seq(Seq(Bytes)) /\ kept[i] \in Seq(Bytes)
        BY <3>1 DEF Typed, DataTypes
      <3>3. PICK b \in 1 .. Len(kept[i]) : kept[i][b] = c
        BY <3>1, <3>2 DEF Range
      <3>4. /\ FlattenSeq(kept) \in Seq(Bytes)
            /\ \E k \in 1 .. Len(FlattenSeq(kept)) : FlattenSeq(kept)[k] = kept[i][b]
        <4>1. i \in 1 .. Len(kept)
          BY <3>1, <3>2
        <4>2. QED
          BY <3>2, <3>3, <4>1, FlattenKeepsElements
      <3>5. QED
        BY <2>2, <3>3, <3>4 DEF Contents, Range
    <2>3. QED
      BY <2>1, <2>2
  <1> DEFINE whole == SubSeq(Contents, 1, Len(Contents))
  <1>2. PICK k \in 1 .. Len(Contents) : Contents[k] = c
    BY <1>1 DEF Range
  <1>3. Len(Contents) \in Nat
    BY <1>1
  <1>4. k \in DOMAIN whole /\ whole[k] = c
    BY <1>1, <1>2, <1>3
  <1>5. ReadFrom(c) + 1 = 1
    BY DEF ReadFrom
  <1>6. QED
    BY <1>4, <1>5 DEF Range

(* A client that sent data up to a newline gets its own data back with the *)
(* reply, for any number of clients, on the device and on the file, as     *)
(* long as no write fails: between its last write and its reply nobody     *)
(* else writes.  A chunk with bytes after its newline is excluded because  *)
(* the device does not end the line there, and one without a byte of the   *)
(* client's because the file is overwritten from its start.                *)
THEOREM OwnDataComesBack ==
  ASSUME ~Faults, SignedChunks
  PROVE  Spec => RepliesIncludeOwnData
  <1> DEFINE OwnDataStep ==
               \A c \in Clients :
                 (reply'[c] # reply[c] /\ seekset[c] = NULL) => c \in Range(reply'[c])
  <1>1. Init => AnswerInv
    BY DEF Init, AnswerInv, Tids
  <1>2. Typed /\ AnswerInv /\ [Next]_vars => AnswerInv' /\ [OwnDataStep]_vars
    <2> SUFFICES ASSUME Typed, AnswerInv, [Next]_vars PROVE AnswerInv' /\ [OwnDataStep]_vars
      OBVIOUS
    <2>1. CASE Environment \/ MainThread
      BY <2>1, OtherStepKeepsAnswers
    <2>2. CASE TimerThread \/ \E c \in Clients : ClientThread(c)
      <3>1. PICK t \in Tids : FileStep(t) \/ RemoveThread(t)
        BY <2>2, ThreadStepsAre
      <3>2. CASE RemoveThread(t)
        BY <3>2, OtherStepKeepsAnswers
      <3>3. CASE FileStep(t)
        <4>1. AnswerInv'
          BY <3>3, FileStepKeepsAnswers
        <4>2. CASE UNCHANGED reply
          BY <4>1, <4>2
        <4>3. CASE t \in Clients /\ Reply(t) /\ ~UNCHANGED reply
          <5>1. /\ thread[t] = "reply"
                /\ reply' = [reply EXCEPT ![t] =
                               SubSeq(Contents, ReadFrom(t) + 1, Len(Contents))]
            BY <4>3 DEF Reply, ThreadAt
          <5>2. \A c \in Clients : c # t => reply'[c] = reply[c]
            BY <5>1 DEF AnswerInv
          <5>3. seekset[t] = NULL => t \in Range(reply'[t])
            BY <4>3, <5>1, ReplyHasOwnData DEF AnswerInv
          <5>4. QED
            BY <4>1, <5>2, <5>3
        <4>4. QED
          BY <3>3, <4>2, <4>3
          DEF FileStep, Lock, Recv, Store, Close, TimerLoop, TimerAppends, TimerFails,
              ThreadCleanup, CloseAndUnlink, Exit, connVars
      <3>4. QED
        BY <3>1, <3>2, <3>3
    <2>3. CASE UNCHANGED vars
      BY <2>3 DEF vars, dataVars, connVars, AnswerInv, Stored
    <2>4. QED
      BY <2>1, <2>2, <2>3 DEF Next
  <1>3. QED
    BY <1>1, <1>2, TypedInvariant, PTL DEF Spec, RepliesIncludeOwnData

-----------------------------------------------------------------------------
(* The threads seen as the earlier server. *)

(* Between a client's connection and its thread nothing is skipped, no     *)
(* thread runs before the server listens, and without the faults and seek  *)
(* commands no thread goes to the server's end.                            *)
SerialInv ==
  /\ main # "timer" /\ thread[Timer] = "none"
  /\ listening => main # "setup"
  /\ main \in {"setup", "daemonize"} => \A c \in Clients : thread[c] = "none"
  /\ main = "create" => /\ thread[current] = "none"
                        /\ socket[current] \notin {"none", "waiting"}
  /\ \A c \in Clients :
       /\ thread[c] \notin {"cleanup", "exit", "append", "check"}
       /\ thread[c] # "none" => socket[c] \notin {"none", "waiting"}
       /\ seekset[c] = NULL

(* A thread that is there goes on, away from the server's end. *)
LEMMA MoveKeepsSerial ==
  ASSUME Typed, SerialInv, NEW c \in Clients, thread[c] # "none",
         UNCHANGED thread \/ \E label \in ThreadLabels \ {"none", "cleanup", "exit", "append", "check"} :
                               thread' = [thread EXCEPT ![c] = label],
         UNCHANGED << main, current, listening >>,
         \A d \in Clients : seekset'[d] = NULL,
         UNCHANGED socket \/ socket' = [socket EXCEPT ![c] = "closed"]
  PROVE  SerialInv'
  <1>1. Timer # c /\ thread'[Timer] = thread[Timer]
    BY ThreadsAssumption DEF Typed, MutexInv, Tids
  <1>2. \A d \in Clients : d # c => thread'[d] = thread[d] /\ socket'[d] = socket[d]
    BY DEF Typed, MutexInv, ClientTypes, Tids
  <1>3. /\ thread'[c] \notin {"none", "cleanup", "exit", "append", "check"}
        /\ socket'[c] \notin {"none", "waiting"}
    BY DEF SerialInv, Typed, MutexInv, ClientTypes, Tids
  <1>4. main = "create" => current \in Clients /\ current # c
    BY DEF SerialInv, Typed, ListTypes
  <1>5. main \notin {"setup", "daemonize"}
    BY DEF SerialInv
  <1>6. QED
    BY <1>1, <1>2, <1>3, <1>4, <1>5 DEF SerialInv

(* The steps of a client's thread. *)
LEMMA ThreadKeepsSerial ==
  ASSUME ~Faults, PlainChunks, Typed, SerialInv, NEW t \in Tids, FileStep(t) \/ RemoveThread(t)
  PROVE  SerialInv' /\ t \in Clients /\ ~ThreadCleanup(t)
  <1>1. thread[t] # "none"
    BY DEF FileStep, Lock, Recv, Store, Reply, Close, TimerLoop, TimerAppends, TimerFails,
           ThreadCleanup, RemoveThread, remove_thread, FindFirst, Look, Unlink, Free, ThreadAt
  <1>2. t \in Clients /\ ~ThreadCleanup(t) /\ t # Timer
    BY <1>1, ThreadsAssumption DEF SerialInv, ThreadCleanup, ThreadAt, Tids
  <1>3. UNCHANGED << main, current, listening >>
    BY <1>2
    DEF FileStep, Lock, Recv, Store, Reply, Close, procVars, RemoveThread, remove_thread
  <1>4. \A d \in Clients : seekset'[d] = NULL
    <2>1. CASE Store(t)
      <3>1. Head(inbox[t]).kind = "data"
        BY <1>2, <2>1, StoredChunk DEF Store, ThreadAt, PlainChunks, Typed
      <3>2. seekset' = [seekset EXCEPT ![t] = NULL]
        BY <2>1, <3>1 DEF Store
      <3>3. QED
        BY <3>2 DEF SerialInv, Typed, ClientTypes
    <2>2. CASE ~Store(t)
      BY <1>2, <2>2 DEF FileStep, Lock, Recv, Reply, Close, RemoveThread, connVars, SerialInv
    <2>3. QED
      BY <2>1, <2>2
  <1>5. UNCHANGED socket \/ socket' = [socket EXCEPT ![t] = "closed"]
    BY <1>2 DEF FileStep, Lock, Recv, Store, Reply, Close, RemoveThread, clientVars
  <1>6. UNCHANGED thread \/ \E label \in {"recv", "store", "reply", "close", "remove",
                                          "look", "unlink", "free", "done"} :
                              thread' = [thread EXCEPT ![t] = label]
    <2>1. CASE Store(t)
      <3>1. Head(inbox[t]).kind = "data"
        BY <1>2, <2>1, StoredChunk DEF Store, ThreadAt, PlainChunks, Typed
      <3>2. QED
        BY <2>1, <3>1 DEF Store, ThreadGoto
    <2>2. CASE ~Store(t)
      BY <1>2, <2>2
      DEF FileStep, Lock, Recv, Reply, Close, RemoveThread, remove_thread, FindFirst, Look,
          AfterNode, Unlink, Free, ThreadGoto
    <2>3. QED
      BY <2>1, <2>2
  <1>7. SerialInv'
    BY <1>1, <1>2, <1>3, <1>4, <1>5, <1>6, MoveKeepsSerial DEF ThreadLabels, UsesFile
  <1>8. QED
    BY <1>2, <1>7

LEMMA MainKeepsSerial ==
  ASSUME ~Faults, UseCharDevice, Typed, SerialInv, Environment \/ MainThread
  PROVE  SerialInv'
  <1> USE DEF SerialInv, Typed, MutexInv, ListTypes, ClientTypes, Tids, MainAt, procVars,
              clientVars, connVars
  <1>1. CASE Environment
    BY <1>1 DEF Environment, signal_handler, ClientConnects, ClientSends, ClientCloses
  <1>2. CASE Listen \/ daemonize \/ StartTimer
    BY <1>2 DEF Listen, daemonize, StartTimer
  <1>3. CASE MainLoop \/ AddThread \/ JoinThreads
    BY <1>3 DEF MainLoop, JoinBegins, AddThread, add_thread, JoinThreads, JoinTurn
  <1>4. CASE AcceptBlocks \/ AcceptFails \/ MainCleanup
    BY <1>4 DEF AcceptBlocks, AcceptFails, MainCleanup, CloseAndUnlink, Exit
  <1>5. CASE \E c \in Clients : Accept(c)
    BY <1>5 DEF Accept
  <1>6. CASE CreateThread
    BY <1>6, ThreadsAssumption DEF CreateThread
  <1>7. QED
    BY <1>1, <1>2, <1>3, <1>4, <1>5, <1>6 DEF MainThread

(* Who is served, and where the earlier server is then. *)
LEMMA ServedIs ==
  ASSUME Typed
  PROVE  /\ \A c \in Clients : thread[c] \in {"recv", "store", "reply"} =>
              OldClient = c /\ (\E d \in Clients : Serves(d)) /\ file_mutex = c
         /\ (\A c \in Clients : thread[c] \notin {"recv", "store", "reply"}) =>
              OldClient = NULL /\ ~(\E d \in Clients : Serves(d))
  BY DEF Typed, MutexInv, MutexCoversFile, UsesFile, Serves, OldClient, Tids

LEMMA ServedIsThen ==
  ASSUME Typed'
  PROVE  /\ \A c \in Clients : thread'[c] \in {"recv", "store", "reply"} =>
              OldClient' = c /\ (\E d \in Clients : Serves(d)') /\ file_mutex' = c
         /\ (\A c \in Clients : thread'[c] \notin {"recv", "store", "reply"}) =>
              OldClient' = NULL /\ ~(\E d \in Clients : Serves(d)')
  BY DEF Typed, MutexInv, MutexCoversFile, UsesFile, Serves, OldClient, Tids

(* What the earlier server cannot tell from standing still: threads are    *)
(* created, take their leave and walk the list; main takes clients in.     *)
LEMMA Unseen ==
  ASSUME Typed, Typed', UNCHANGED << kept, partial, inbox, reply, file_mutex >>,
         OldProcess' = OldProcess,
         main' = main \/ (main \notin {"setup", "daemonize"} /\ main' \notin {"setup", "daemonize"}),
         \A c \in Clients : \/ thread'[c] = thread[c]
                            \/ thread[c] = "none" /\ thread'[c] = "lock"
                            \/ Left(c) /\ Left(c)',
         \A c \in Clients : \/ socket'[c] = socket[c]
                            \/ socket[c] = "waiting" /\ socket'[c] = "accepted"
                            \/ Left(c) /\ socket[c] # "none" /\ socket'[c] = "closed"
  PROVE  UNCHANGED Earlier!vars
  <1>1. \A c \in Clients : thread'[c] \in {"recv", "store", "reply"}
                             \/ thread[c] \in {"recv", "store", "reply"} => thread'[c] = thread[c]
    BY DEF Left
  <1>2. UNCHANGED OldClient /\ UNCHANGED OldMain
    <2>1. CASE \E c \in Clients : thread[c] \in {"recv", "store", "reply"}
      BY <1>1, <2>1, ServedIs, ServedIsThen DEF OldMain
    <2>2. CASE ~\E c \in Clients : thread[c] \in {"recv", "store", "reply"}
      BY <1>1, <2>2, ServedIs, ServedIsThen DEF OldMain
    <2>3. QED
      BY <2>1, <2>2
  <1>3. UNCHANGED OldSocket
    BY DEF OldSocket, Left
  <1>4. UNCHANGED OldClosed
    BY DEF OldClosed, Left
  <1>5. UNCHANGED << OldFile, OldInbox >>
    BY DEF OldFile, OldInbox
  <1>6. QED
    BY <1>2, <1>3, <1>4, <1>5 DEF Earlier!vars, Earlier!envVars

(* Clients look the same to both servers. *)
LEMMA ClientsAsBefore ==
  ASSUME Typed, Typed', SerialInv, Environment
  PROVE  Earlier!Next \/ UNCHANGED Earlier!vars
  <1>1. UNCHANGED << process, kept, partial, reply, file_mutex, thread >>
    BY DEF Environment, signal_handler, ClientConnects, ClientSends, ClientCloses, procVars,
           dataVars, connVars
  <1>2. CASE signal_handler
    <2>1. UNCHANGED << inbox, socket >>
      BY <1>2 DEF signal_handler, clientVars
    <2>2. main' = main \/ (main \notin {"setup", "daemonize"} /\ main' \notin {"setup", "daemonize"})
      BY <1>2 DEF signal_handler
    <2>3. QED
      BY <1>1, <2>1, <2>2, Unseen DEF OldProcess
  <1> SUFFICES ASSUME NEW c \in Clients,
                      ClientConnects(c) \/ ClientSends(c) \/ ClientCloses(c)
               PROVE  Earlier!Next
    BY <1>2 DEF Environment
  <1>3. UNCHANGED << OldProcess, OldMain, OldClient, OldFile >>
    <2>1. UNCHANGED << main, file_mutex >>
      BY DEF ClientConnects, ClientSends, ClientCloses, procVars
    <2>2. QED
      BY <1>1, <2>1 DEF OldProcess, OldMain, OldClient, OldFile, Serves
  <1>4. CASE ClientConnects(c)
    <2>1. OldMain # "setup"
      BY <1>4, ServedIs
      DEF ClientConnects, OldMain, SerialInv, Serves
    <2>2. OldSocket[c] = "none" /\ OldSocket' = [OldSocket EXCEPT ![c] = "waiting"]
      <3>1. /\ socket[c] = "none" /\ thread[c] = "none"
            /\ socket' = [socket EXCEPT ![c] = "waiting"] /\ DOMAIN socket = Clients
            /\ thread' = thread
        BY <1>1, <1>4 DEF ClientConnects, SerialInv, Typed, ClientTypes
      <3>2. OldSocket[c] = "none" /\ DOMAIN OldSocket = Clients
        BY <3>1 DEF OldSocket
      <3>3. \A d \in Clients :
              OldSocket'[d] = IF d = c THEN "waiting" ELSE OldSocket[d]
        BY <3>1 DEF OldSocket
      <3>4. OldSocket' = [d \in Clients |-> OldSocket'[d]]
        BY DEF OldSocket
      <3>5. QED
        BY <3>2, <3>3, <3>4
    <2>3. UNCHANGED << OldClosed, OldInbox >>
      BY <1>1, <1>4 DEF ClientConnects, OldClosed, OldInbox, Left, Typed, ClientTypes
    <2>4. Earlier!ClientConnects(c)
      BY <1>1, <1>3, <2>1, <2>2, <2>3 DEF Earlier!ClientConnects
    <2>5. QED
      BY <2>4 DEF Earlier!Next
  <1>5. CASE ClientSends(c)
    <2>1. PICK chunk \in Chunks(c) :
            /\ inbox' = [inbox EXCEPT ![c] = Append(inbox[c], chunk)]
            /\ UNCHANGED socket /\ socket[c] # "none"
      BY <1>5 DEF ClientSends
    <2>2. inbox[c] \in Seq(Chunks(c)) /\ chunk.bytes \in BytesOf(c)
      BY DEF Typed, ClientTypes, BytesOf
    <2>3. OldInbox' = [OldInbox EXCEPT ![c] = Append(OldInbox[c], chunk.bytes)]
      <3> DEFINE bar(s) == [i \in DOMAIN s |-> s[i].bytes]
      <3>1. bar(Append(inbox[c], chunk)) = Append(bar(inbox[c]), chunk.bytes)
        BY <2>2
      <3>2. OldInbox[c] = bar(inbox[c])
        BY DEF OldInbox
      <3>3. \A d \in Clients : d # c => inbox'[d] = inbox[d]
        BY <2>1 DEF Typed, ClientTypes
      <3>4. inbox'[c] = Append(inbox[c], chunk)
        BY <2>1 DEF Typed, ClientTypes
      <3>5. OldInbox' = [d \in Clients |-> bar(inbox'[d])]
        BY DEF OldInbox
      <3> HIDE DEF bar
      <3>6. OldInbox = [d \in Clients |-> bar(inbox[d])]
        BY DEF OldInbox, bar
      <3>7. QED
        BY <3>1, <3>2, <3>3, <3>4, <3>5, <3>6
    <2>4. UNCHANGED << OldSocket, OldClosed >> /\ OldSocket[c] # "none"
      BY <1>1, <2>1 DEF OldSocket, OldClosed, Left
    <2>5. Earlier!ClientSends(c)
      BY <1>1, <1>3, <2>2, <2>3, <2>4 DEF Earlier!ClientSends
    <2>6. QED
      BY <2>5 DEF Earlier!Next
  <1>6. CASE ClientCloses(c)
    <2>1. socket[c] = "accepted" /\ socket' = [socket EXCEPT ![c] = "closed"] /\ UNCHANGED inbox
      BY <1>6 DEF ClientCloses
    <2>2. OldSocket[c] # "none" /\ UNCHANGED << OldSocket, OldInbox >>
      BY <1>1, <2>1 DEF OldSocket, OldInbox, Typed, ClientTypes
    <2>3. OldClosed' = OldClosed \cup {c}
      BY <1>1, <2>1 DEF OldClosed, Left, Typed, ClientTypes
    <2>4. Earlier!ClientCloses(c)
      BY <1>1, <1>3, <2>2, <2>3 DEF Earlier!ClientCloses
    <2>5. QED
      BY <2>4 DEF Earlier!Next
  <1>7. QED
    BY <1>4, <1>5, <1>6

(* Of the main thread only its start is seen. *)
LEMMA MainAsBefore ==
  ASSUME ~Faults, UseCharDevice, Typed, Typed', SerialInv, MainThread
  PROVE  Earlier!Next \/ UNCHANGED Earlier!vars
  <1>1. UNCHANGED << kept, partial, inbox, reply, file_mutex >>
    BY DEF MainThread, Listen, daemonize, StartTimer, MainLoop, AcceptBlocks, Accept,
           CreateThread, AddThread, JoinThreads, AcceptFails, MainCleanup, CloseAndUnlink,
           Exit, dataVars, clientVars, connVars
  <1>2. CASE Listen \/ daemonize
    <2>1. /\ UNCHANGED << process, socket, thread >> /\ process = "up"
          /\ \/ main = "setup" /\ main' = "daemonize"
             \/ main = "daemonize" /\ main' = "loop"
      BY <1>2 DEF Listen, daemonize, MainAt, clientVars
    <2>2. \A c \in Clients : thread[c] = "none" /\ thread'[c] = "none"
      BY <2>1 DEF SerialInv
    <2>3. OldClient = NULL /\ OldClient' = NULL
      BY <2>2, ServedIs, ServedIsThen
    <2>4. /\ OldMain = main
          /\ OldMain' = IF main = "setup" THEN "daemonize" ELSE "accepting"
      BY <2>1, <2>2, ServedIsThen DEF OldMain
    <2>5. OldProcess = "up" /\ UNCHANGED OldProcess
      BY <2>1 DEF OldProcess
    <2>6. UNCHANGED << OldFile, OldSocket, OldClosed, OldInbox >>
      BY <1>1, <2>1 DEF OldFile, OldSocket, OldClosed, OldInbox, Left
    <2>7. Earlier!Listen \/ Earlier!daemonize
      BY <1>1, <2>1, <2>3, <2>4, <2>5, <2>6
      DEF Earlier!Listen, Earlier!daemonize, Earlier!At, Earlier!envVars
    <2>8. QED
      BY <2>7 DEF Earlier!Next
  <1>3. CASE ~(Listen \/ daemonize)
    <2>1. OldProcess' = OldProcess
      BY <1>3
      DEF MainThread, StartTimer, MainLoop, JoinBegins, AcceptBlocks, Accept, CreateThread,
          AddThread, add_thread, JoinThreads, JoinTurn, AcceptFails, MainCleanup,
          CloseAndUnlink, Exit, MainAt, OldProcess
    <2>2. main \notin {"setup", "daemonize"} /\ main' \notin {"setup", "daemonize"}
      BY <1>3
      DEF MainThread, StartTimer, MainLoop, JoinBegins, AcceptBlocks, Accept, CreateThread,
          AddThread, add_thread, JoinThreads, JoinTurn, AcceptFails, MainCleanup,
          CloseAndUnlink, Exit, MainAt
    <2>3. \A c \in Clients : \/ thread'[c] = thread[c]
                             \/ thread[c] = "none" /\ thread'[c] = "lock"
      BY <1>3
      DEF MainThread, StartTimer, MainLoop, JoinBegins, AcceptBlocks, Accept, CreateThread,
          AddThread, add_thread, JoinThreads, JoinTurn, AcceptFails, MainCleanup,
          CloseAndUnlink, Exit, MainAt, SerialInv, Typed, MutexInv, ListTypes, Tids
    <2>4. \A c \in Clients : \/ socket'[c] = socket[c]
                             \/ socket[c] = "waiting" /\ socket'[c] = "accepted"
      BY <1>3
      DEF MainThread, StartTimer, MainLoop, AcceptBlocks, Accept, CreateThread, AddThread,
          JoinThreads, AcceptFails, MainCleanup, CloseAndUnlink, Exit, clientVars,
          Typed, ClientTypes
    <2>5. QED
      BY <1>1, <2>1, <2>2, <2>3, <2>4, Unseen
  <1>4. QED
    BY <1>2, <1>3

(* A thread that has answered, or whose client has left, is not seen. *)
LEMMA LeavingAsBefore ==
  ASSUME Typed, Typed', SerialInv, NEW c \in Clients, Close(c) \/ RemoveThread(c)
  PROVE  UNCHANGED Earlier!vars
  <1>1. UNCHANGED << kept, partial, inbox, reply, file_mutex, main >>
    BY DEF Close, RemoveThread, remove_thread, procVars, dataVars, clientVars, connVars
  <1>2. OldProcess' = OldProcess
    BY DEF Close, RemoveThread, remove_thread, FindFirst, Look, Unlink, Free, Uses, ThreadAt,
           procVars, OldProcess
  <1>3. Left(c) /\ Left(c)' /\ \A d \in Clients : d # c => thread'[d] = thread[d]
    BY DEF Close, RemoveThread, remove_thread, FindFirst, Look, AfterNode, Unlink, Free,
           ThreadAt, ThreadGoto, Left, Typed, MutexInv, Tids
  <1>4. \A d \in Clients : \/ socket'[d] = socket[d]
                           \/ Left(d) /\ socket[d] # "none" /\ socket'[d] = "closed"
    BY <1>3 DEF Close, RemoveThread, clientVars, SerialInv, Typed, ClientTypes, Left
  <1>5. QED
    BY <1>1, <1>2, <1>3, <1>4, Unseen

(* The chunks of an inbox as the earlier server has them. *)
LEMMA InboxHeadTail ==
  ASSUME Typed, NEW c \in Clients, inbox[c] # << >>
  PROVE  /\ OldInbox[c] # << >>
         /\ Head(OldInbox[c]) = Head(inbox[c]).bytes
         /\ Tail(OldInbox[c]) = [i \in DOMAIN Tail(inbox[c]) |-> Tail(inbox[c])[i].bytes]
  <1>1. inbox[c] \in Seq(Chunks(c)) /\ OldInbox[c] = [i \in DOMAIN inbox[c] |-> inbox[c][i].bytes]
    BY DEF Typed, ClientTypes, OldInbox
  <1>2. Len(inbox[c]) \in Nat \ {0}
    BY <1>1, EmptySeq
  <1>3. OldInbox[c] \in Seq(BytesOf(c)) /\ Len(OldInbox[c]) = Len(inbox[c])
    BY <1>1, <1>2 DEF BytesOf
  <1>4. QED
    BY <1>1, <1>2, <1>3

(* The client that gets the mutex is the one the earlier server accepts.   *)
LEMMA LockAsBefore ==
  ASSUME Typed, Typed', SerialInv, NEW c \in Clients, Lock(c)
  PROVE  Earlier!Accept(c)
  <1>1. /\ process = "up" /\ thread[c] = "lock" /\ file_mutex = NULL /\ c # Timer
        /\ thread' = [thread EXCEPT ![c] = "recv"]
        /\ UNCHANGED << process, main, kept, partial, socket, inbox, reply >>
    BY ThreadsAssumption
    DEF Lock, MutexFree, ThreadAt, ThreadGoto, procVars, dataVars, clientVars, connVars
  <1>2. /\ thread'[c] = "recv"
        /\ \A d \in Clients : thread[d] \notin {"recv", "store", "reply"}
        /\ \A d \in Clients : d # c => thread'[d] = thread[d]
    BY <1>1, ThreadsAssumption DEF Typed, MutexInv, MutexCoversFile, UsesFile, Tids
  <1>3. main \notin {"setup", "daemonize"}
    BY <1>1 DEF SerialInv
  <1>4. OldMain = "accepting" /\ OldMain' = "recv" /\ OldClient' = c
    <2>1. ~(\E d \in Clients : Serves(d))
      BY <1>2, ServedIs
    <2>2. OldClient' = c /\ (\E d \in Clients : Serves(d)') /\ file_mutex' = c
      BY <1>2, ServedIsThen
    <2>3. QED
      BY <1>1, <1>2, <1>3, <2>1, <2>2 DEF OldMain
  <1>5. OldSocket[c] = "waiting" /\ OldSocket' = [OldSocket EXCEPT ![c] = "accepted"]
    BY <1>1, <1>2 DEF OldSocket, SerialInv
  <1>6. UNCHANGED << OldProcess, OldFile, OldClosed, OldInbox >> /\ OldProcess = "up"
    BY <1>1, <1>2 DEF OldProcess, OldFile, OldClosed, OldInbox, Left
  <1>7. QED
    BY <1>1, <1>4, <1>5, <1>6 DEF Earlier!Accept, Earlier!At

(* Where the earlier server is while c is served, and what a step of c's   *)
(* thread leaves alone.                                                    *)
LEMMA ServingIsSeen ==
  ASSUME Typed, Typed', SerialInv, SerialInv', NEW c \in Clients,
         thread[c] \in {"recv", "store", "reply"}, UNCHANGED << main, socket >>,
         thread' = [thread EXCEPT ![c] = thread'[c]],
         thread'[c] \in {"recv", "store", "reply", "close"}
  PROVE  /\ OldMain = thread[c] /\ OldClient = c
         /\ OldMain' = IF thread'[c] = "close" THEN "accepting" ELSE thread'[c]
         /\ OldClient' = IF thread'[c] = "close" THEN NULL ELSE c
         /\ OldClosed' = IF thread'[c] = "close" THEN OldClosed \cup {c} ELSE OldClosed
         /\ UNCHANGED OldSocket
  <1>1. main \notin {"setup", "daemonize"}
    BY DEF SerialInv
  <1>2. \A d \in Clients : d # c => thread'[d] = thread[d]
    BY DEF Typed, MutexInv, Tids
  <1>3. \A d \in Clients : d # c => thread'[d] \notin {"recv", "store", "reply"}
    BY <1>2 DEF Typed, MutexInv, MutexCoversFile, UsesFile, Tids
  <1>4. OldMain = thread[c] /\ OldClient = c
    BY <1>1, ServedIs DEF OldMain
  <1>5. /\ OldMain' = IF thread'[c] = "close" THEN "accepting" ELSE thread'[c]
        /\ OldClient' = IF thread'[c] = "close" THEN NULL ELSE c
    <2>1. CASE thread'[c] = "close"
      BY <1>1, <1>2, <1>3, <2>1, ServedIsThen DEF OldMain
    <2>2. CASE thread'[c] # "close"
      BY <1>1, <1>2, <2>2, ServedIsThen DEF OldMain
    <2>3. QED
      BY <2>1, <2>2
  <1>6. OldClosed' = IF thread'[c] = "close" THEN OldClosed \cup {c} ELSE OldClosed
    BY <1>2 DEF OldClosed, Left
  <1>7. UNCHANGED OldSocket
    BY <1>2 DEF OldSocket
  <1>8. QED
    BY <1>4, <1>5, <1>6, <1>7

LEMMA RecvAsBefore ==
  ASSUME Typed, Typed', SerialInv, SerialInv', NEW c \in Clients, Recv(c)
  PROVE  Earlier!Recv
  <1>1. /\ process = "up" /\ thread[c] = "recv"
        /\ UNCHANGED << process, main, kept, partial, socket, inbox, reply >>
    BY DEF Recv, ThreadAt, procVars, dataVars, clientVars, connVars
  <1>2. UNCHANGED << OldProcess, OldFile, OldInbox >> /\ OldProcess = "up"
    BY <1>1 DEF OldProcess, OldFile, OldInbox
  <1>3. CASE inbox[c] # << >> /\ thread' = [thread EXCEPT ![c] = "store"]
    <2>1. /\ OldMain = "recv" /\ OldClient = c /\ OldMain' = "store"
          /\ UNCHANGED << OldClient, OldClosed, OldSocket >>
      <3>1. thread'[c] = "store"
        BY <1>3 DEF Typed, MutexInv, Tids
      <3>2. QED
        BY <1>1, <1>3, <3>1, ServingIsSeen
    <2>2. OldInbox[c] # << >>
      BY <1>3, InboxHeadTail
    <2>3. QED
      BY <1>1, <1>2, <2>1, <2>2 DEF Earlier!Recv, Earlier!At
  <1>4. CASE /\ inbox[c] = << >> /\ socket[c] = "closed"
             /\ thread' = [thread EXCEPT ![c] = "close"]
    <2>1. /\ OldMain = "recv" /\ OldClient = c /\ OldMain' = "accepting"
          /\ OldClient' = NULL /\ OldClosed' = OldClosed \cup {c} /\ UNCHANGED OldSocket
      <3>1. thread'[c] = "close"
        BY <1>4 DEF Typed, MutexInv, Tids
      <3>2. QED
        BY <1>1, <1>4, <3>1, ServingIsSeen
    <2>2. OldInbox[c] = << >> /\ c \in OldClosed
      BY <1>4 DEF OldInbox, OldClosed
    <2>3. QED
      BY <1>1, <1>2, <2>1, <2>2 DEF Earlier!Recv, Earlier!At, Earlier!NextClient
  <1>5. QED
    BY <1>3, <1>4 DEF Recv, ThreadGoto

(* What the device keeps and gathers is the earlier file, to which every   *)
(* chunk is added, as long as nothing is evicted.                          *)
LEMMA WriteAsBefore ==
  ASSUME ~Faults, UseCharDevice, Typed, NEW bytes \in Seq(Bytes), WriteData(bytes),
         Len(kept) < MaxWriteOps
  PROVE  OldFile' = OldFile \o bytes
  <1> DEFINE line == partial \o bytes
  <1>1. kept \in Seq(Seq(Bytes)) /\ partial \in Seq(Bytes) /\ line \in Seq(Bytes)
    BY DEF Typed, DataTypes
  <1>2. FlattenSeq(kept) \in Seq(Bytes)
    BY <1>1, FlattenKeepsElements
  <1>3. FlattenSeq(kept) \o line = OldFile \o bytes
    BY <1>1, <1>2, ConcatAssociative DEF OldFile
  <1>4. Device!Write(bytes)
    BY DEF WriteData
  <1>5. CASE Device!EndsLine(line)
    <2>1. kept' = Device!Log!Remember(kept, line) /\ partial' = << >>
      BY <1>4, <1>5 DEF Device!Write
    <2>2. kept' = Append(kept, line)
      BY <2>1 DEF Device!Log!Remember
    <2>3. FlattenSeq(kept') = FlattenSeq(kept) \o line
      BY <1>1, <2>2, FlattenAppend
    <2>4. FlattenSeq(kept) \o line \in Seq(Bytes)
      BY <1>1, <1>2
    <2>5. QED
      BY <1>3, <2>1, <2>3, <2>4 DEF OldFile
  <1>6. CASE ~Device!EndsLine(line)
    <2>1. partial' = line /\ UNCHANGED kept
      BY <1>4, <1>6 DEF Device!Write
    <2>2. QED
      BY <1>3, <2>1 DEF OldFile
  <1>7. QED
    BY <1>5, <1>6

LEMMA StoreAsBefore ==
  ASSUME ~Faults, UseCharDevice, PlainChunks, Typed, Typed', SerialInv, SerialInv',
         NEW c \in Clients, Store(c), Len(kept) < MaxWriteOps
  PROVE  Earlier!Store
  <1> DEFINE chunk == Head(inbox[c])
             after == IF Contains(chunk.bytes, NL) THEN "reply" ELSE "recv"
  <1>1. /\ process = "up" /\ thread[c] = "store"
        /\ UNCHANGED << process, main, socket, reply >>
        /\ inbox' = [inbox EXCEPT ![c] = Tail(inbox[c])]
    BY DEF Store, ThreadAt, procVars
  <1>2. /\ chunk.kind = "data" /\ chunk.bytes \in Seq(Bytes)
        /\ inbox[c] # << >> /\ DOMAIN inbox = Clients
    BY <1>1, StoredChunk DEF PlainChunks, Typed, ClientTypes
  <1>3. WriteData(chunk.bytes) /\ thread' = [thread EXCEPT ![c] = after]
    BY <1>2 DEF Store, ThreadGoto
  <1>4. /\ OldMain = "store" /\ OldClient = c /\ OldMain' = after
        /\ UNCHANGED << OldClient, OldClosed, OldSocket >>
    <2>1. thread'[c] = after /\ after \in {"recv", "reply"}
      BY <1>3 DEF Typed, MutexInv, Tids
    <2> HIDE DEF chunk, after
    <2>2. thread' = [thread EXCEPT ![c] = thread'[c]]
      BY <1>3, <2>1
    <2>3. QED
      BY <1>1, <2>1, <2>2, ServingIsSeen
  <1>5. Head(OldInbox[c]) = chunk.bytes
    BY <1>2, InboxHeadTail
  <1>6. OldInbox' = [OldInbox EXCEPT ![c] = Tail(OldInbox[c])]
    <2> DEFINE bar(s) == [i \in DOMAIN s |-> s[i].bytes]
    <2>1. Tail(OldInbox[c]) = bar(Tail(inbox[c]))
      BY <1>2, InboxHeadTail
    <2>2. /\ OldInbox' = [d \in Clients |-> bar(inbox'[d])]
          /\ OldInbox = [d \in Clients |-> bar(inbox[d])]
      BY DEF OldInbox
    <2> HIDE DEF bar
    <2>3. inbox'[c] = Tail(inbox[c]) /\ \A d \in Clients : d # c => inbox'[d] = inbox[d]
      BY <1>1, <1>2
    <2>4. QED
      BY <2>1, <2>2, <2>3
  <1>7. OldFile' = OldFile \o chunk.bytes
    BY <1>2, <1>3, WriteAsBefore
  <1>8. after = IF \E i \in DOMAIN chunk.bytes : chunk.bytes[i] = NL THEN "reply" ELSE "recv"
    BY <1>2 DEF Contains
  <1>9. UNCHANGED OldProcess /\ OldProcess = "up"
    BY <1>1 DEF OldProcess
  <1> HIDE DEF chunk, after
  <1>10. QED
    BY <1>1, <1>4, <1>5, <1>6, <1>7, <1>8, <1>9 DEF Earlier!Store, Earlier!At

LEMMA ReplyAsBefore ==
  ASSUME ~Faults, Typed, Typed', AuthorInv, SerialInv, SerialInv', UseCharDevice,
         NEW c \in Clients, Reply(c)
  PROVE  Earlier!Reply
  <1>1. /\ process = "up" /\ thread[c] = "reply"
        /\ UNCHANGED << main, kept, partial, socket, inbox >>
    BY DEF Reply, ThreadAt, dataVars, clientVars
  <1>2. UNCHANGED << OldFile, OldInbox >> /\ OldProcess = "up"
    BY <1>1 DEF OldFile, OldInbox, OldProcess
  <1>3. CASE /\ reply' = [reply EXCEPT ![c] = SubSeq(Contents, ReadFrom(c) + 1, Len(Contents))]
             /\ thread' = [thread EXCEPT ![c] = "close"] /\ UNCHANGED process
    <2>1. /\ OldMain = "reply" /\ OldClient = c /\ OldMain' = "accepting"
          /\ OldClient' = NULL /\ OldClosed' = OldClosed \cup {c} /\ UNCHANGED OldSocket
      <3>1. thread'[c] = "close" /\ thread' = [thread EXCEPT ![c] = "close"]
        BY <1>3 DEF Typed, MutexInv, Tids
      <3>2. QED
        BY <1>1, <3>1, ServingIsSeen
    <2>2. OldFile = Contents /\ Contents \in Seq(Bytes)
      <3>1. FlattenSeq(kept) \in Seq(Bytes)
        BY FlattenKeepsElements DEF Typed, DataTypes
      <3>2. partial = << >>
        BY <1>1 DEF AuthorInv
      <3>3. QED
        BY <3>1, <3>2 DEF OldFile, Contents
    <2>3. SubSeq(Contents, ReadFrom(c) + 1, Len(Contents)) = Contents
      <3>1. ReadFrom(c) + 1 = 1
        BY DEF ReadFrom, SerialInv
      <3>2. SubSeq(Contents, 1, Len(Contents)) = Contents
        BY <2>2, SubSeqFull
      <3>3. QED
        BY <3>1, <3>2
    <2>4. UNCHANGED OldProcess
      BY <1>3 DEF OldProcess
    <2>5. QED
      BY <1>2, <1>3, <2>1, <2>2, <2>3, <2>4 DEF Earlier!Reply, Earlier!At, Earlier!NextClient
  <1>4. CASE /\ socket[c] = "closed" /\ process' = "killed"
             /\ UNCHANGED << reply, file_mutex, thread >>
    <2>1. OldMain = "reply" /\ OldClient = c
      BY <1>1, ServedIs DEF OldMain, SerialInv
    <2>2. UNCHANGED << OldMain, OldClient, OldClosed, OldSocket >>
      BY <1>1, <1>4 DEF OldMain, OldClient, OldClosed, OldSocket, Serves, Left
    <2>3. c \in OldClosed /\ OldProcess' = "killed"
      BY <1>4 DEF OldClosed, OldProcess
    <2>4. QED
      BY <1>2, <1>4, <2>1, <2>2, <2>3 DEF Earlier!Reply, Earlier!At
  <1>5. QED
    BY <1>3, <1>4 DEF Reply, ThreadGoto

(* The clients whose line has been taken. *)
Answered == {c \in Clients : thread[c] = "reply" \/ Left(c)}

(* A connection ends with its line: the device has no more commands than   *)
(* clients have been answered.                                             *)
CountInv ==
  /\ ~Device!EndsLine(partial)
  /\ Len(kept) <= Cardinality(Answered)

LEMMA NoLineKeepsCount ==
  ASSUME IsFiniteSet(Clients), Typed, CountInv,
         UNCHANGED kept, ~Device!EndsLine(partial)',
         \A c \in Clients : c \in Answered => thread'[c] = "reply" \/ Left(c)'
  PROVE  CountInv'
  <1>1. Answered \subseteq Answered' /\ IsFiniteSet(Answered) /\ IsFiniteSet(Answered')
    BY FS_Subset DEF Answered
  <1>2. /\ Cardinality(Answered) \in Nat /\ Cardinality(Answered') \in Nat
        /\ Cardinality(Answered) <= Cardinality(Answered')
    BY <1>1, FS_Subset, FS_CardinalityType
  <1>3. Len(kept) \in Nat
    BY DEF Typed, DataTypes
  <1>4. QED
    BY <1>2, <1>3 DEF CountInv

(* While a client is being served its own line is not counted yet. *)
LEMMA RoomForOneMore ==
  ASSUME IsFiniteSet(Clients), Typed, CountInv, NEW c \in Clients, thread[c] = "store"
  PROVE  /\ Len(kept) \in Nat /\ Cardinality(Clients) \in Nat
         /\ Len(kept) < Cardinality(Clients)
         /\ Cardinality(Answered \cup {c}) = Cardinality(Answered) + 1
  <1>1. c \notin Answered /\ Answered \cup {c} \subseteq Clients
    BY DEF Answered, Left
  <1>2. IsFiniteSet(Answered)
    BY FS_Subset DEF Answered
  <1>3. /\ Cardinality(Answered) \in Nat /\ Cardinality(Clients) \in Nat
        /\ Cardinality(Answered \cup {c}) = Cardinality(Answered) + 1
    BY <1>1, <1>2, FS_AddElement, FS_CardinalityType
  <1>4. Cardinality(Answered \cup {c}) <= Cardinality(Clients)
    BY <1>1, FS_Subset
  <1>5. Len(kept) \in Nat
    BY DEF Typed, DataTypes
  <1>6. QED
    BY <1>3, <1>4, <1>5 DEF CountInv

LEMMA StoreKeepsCount ==
  ASSUME ~Faults, UseCharDevice, PlainChunks, IsFiniteSet(Clients),
         Cardinality(Clients) <= MaxWriteOps, Typed, CountInv, NEW c \in Clients, Store(c)
  PROVE  CountInv'
  <1> DEFINE bytes == Head(inbox[c]).bytes
             line  == partial \o bytes
  <1>1. thread[c] = "store"
    BY DEF Store, ThreadAt
  <1>2. /\ Head(inbox[c]).kind = "data" /\ bytes \in Seq(Bytes)
        /\ partial \in Seq(Bytes) /\ kept \in Seq(Seq(Bytes))
    BY <1>1, StoredChunk DEF PlainChunks, Typed, DataTypes
  <1>3. /\ Device!Write(bytes)
        /\ thread' = [thread EXCEPT ![c] = IF Contains(bytes, NL) THEN "reply" ELSE "recv"]
    BY <1>2 DEF Store, WriteData, ThreadGoto
  <1>4. \A d \in Clients : d # c => thread'[d] = thread[d]
    BY <1>3 DEF Typed, MutexInv, Tids
  <1>5. c \notin Answered
    BY <1>1 DEF Answered, Left
  <1>6. CASE Device!EndsLine(line)
    <2>1. kept' = Device!Log!Remember(kept, line) /\ partial' = << >>
      BY <1>3, <1>6 DEF Device!Write
    <2>2. Len(kept) \in Nat /\ Cardinality(Clients) \in Nat /\ Len(kept) < Cardinality(Clients)
      BY <1>1, RoomForOneMore
    <2>3. Len(kept') = Len(kept) + 1
      <3>1. Len(kept) < MaxWriteOps
        BY <2>2, BoundsAssumption
      <3>2. line \in Seq(Bytes)
        BY <1>2
      <3>3. QED
        BY <1>2, <2>1, <3>1, <3>2 DEF Device!Log!Remember
    <2>4. Contains(bytes, NL)
      <3>1. bytes # << >>
        <4>1. bytes = << >> => line = partial
          BY <1>2
        <4>2. QED
          BY <1>6, <4>1 DEF CountInv
      <3>2. Len(bytes) \in 1 .. Len(bytes) /\ Len(partial) \in Nat
        BY <1>2, <3>1, EmptySeq
      <3>3. line[Len(line)] = bytes[Len(bytes)]
        BY <1>2, <3>2, ConcatProperties
      <3>4. QED
        BY <1>6, <3>2, <3>3 DEF Device!EndsLine, Contains
    <2>5. Answered' = Answered \cup {c}
      <3>1. thread'[c] = "reply"
        BY <1>3, <2>4 DEF Typed, MutexInv, Tids
      <3>2. QED
        BY <1>4, <3>1 DEF Answered, Left
    <2>6. IsFiniteSet(Answered)
      BY FS_Subset DEF Answered
    <2>7. Len(kept') <= Cardinality(Answered')
      BY <1>1, <2>2, <2>3, <2>5, <2>6, RoomForOneMore, FS_CardinalityType DEF CountInv
    <2>8. QED
      BY <2>1, <2>7 DEF CountInv, Device!EndsLine
  <1>7. CASE ~Device!EndsLine(line)
    <2>1. partial' = line /\ UNCHANGED kept
      BY <1>3, <1>7 DEF Device!Write
    <2>2. ~Device!EndsLine(partial)'
      BY <1>7, <2>1 DEF Device!EndsLine
    <2>3. \A d \in Clients : d \in Answered => thread'[d] = "reply" \/ Left(d)'
      BY <1>4, <1>5 DEF Answered, Left
    <2>4. QED
      BY <2>1, <2>2, <2>3, NoLineKeepsCount
  <1>8. QED
    BY <1>6, <1>7

LEMMA StepKeepsCount ==
  ASSUME ~Faults, UseCharDevice, PlainChunks, IsFiniteSet(Clients),
         Cardinality(Clients) <= MaxWriteOps, Typed, SerialInv, CountInv, Next
  PROVE  CountInv'
  <1>1. CASE Environment \/ MainThread
    <2>1. UNCHANGED << kept, partial >>
      BY <1>1
      DEF Environment, signal_handler, ClientConnects, ClientSends, ClientCloses,
          MainThread, Listen, daemonize, StartTimer, MainLoop, AcceptBlocks, Accept,
          CreateThread, AddThread, JoinThreads, AcceptFails, MainCleanup, CloseAndUnlink,
          Exit, dataVars
    <2>2. \A c \in Clients : thread'[c] = thread[c] \/ thread[c] = "none"
      BY <1>1
      DEF Environment, signal_handler, ClientConnects, ClientSends, ClientCloses,
          MainThread, Listen, daemonize, StartTimer, MainLoop, JoinBegins, AcceptBlocks,
          Accept, CreateThread, AddThread, add_thread, JoinThreads, JoinTurn, AcceptFails,
          MainCleanup, CloseAndUnlink, Exit, MainAt, SerialInv, Typed, MutexInv, ListTypes,
          Tids
    <2>3. QED
      BY <2>1, <2>2, NoLineKeepsCount DEF Answered, Left, CountInv, Device!EndsLine
  <1>2. CASE TimerThread \/ \E c \in Clients : ClientThread(c)
    <2>1. PICK t \in Tids : FileStep(t) \/ RemoveThread(t)
      BY <1>2, ThreadStepsAre
    <2>2. t \in Clients /\ ~ThreadCleanup(t)
      BY <2>1, ThreadKeepsSerial
    <2>3. CASE Store(t)
      BY <2>2, <2>3, StoreKeepsCount
    <2>4. CASE ~Store(t)
      <3>1. Lock(t) \/ Recv(t) \/ Reply(t) \/ Close(t) \/ RemoveThread(t)
        BY <2>1, <2>2, <2>4, ThreadsAssumption DEF FileStep
      <3>2. UNCHANGED << kept, partial >>
        BY <3>1 DEF Lock, Recv, Reply, Close, RemoveThread, dataVars
      <3>3. \A c \in Clients : c # t => thread'[c] = thread[c]
        BY <3>1
        DEF Lock, Recv, Reply, Close, RemoveThread, remove_thread, FindFirst, Look, Unlink,
            Free, ThreadGoto, Typed, MutexInv, Tids
      <3>4. t \in Answered => thread'[t] = "reply" \/ Left(t)'
        BY <2>2, <3>1
        DEF Lock, Recv, Reply, Close, RemoveThread, remove_thread, FindFirst, Look,
            AfterNode, Unlink, Free, ThreadAt, ThreadGoto, Typed, MutexInv, Tids,
            Answered, Left
      <3>5. QED
        BY <3>2, <3>3, <3>4, NoLineKeepsCount DEF Answered, Left, CountInv, Device!EndsLine
    <2>5. QED
      BY <2>3, <2>4
  <1>3. QED
    BY <1>1, <1>2 DEF Next

(* Each step is one of the earlier server's or is not seen. *)
LEMMA StepAsBefore ==
  ASSUME ~Faults, UseCharDevice, PlainChunks, IsFiniteSet(Clients),
         Cardinality(Clients) <= MaxWriteOps, Typed, Typed', AuthorInv,
         SerialInv, SerialInv', CountInv, Next
  PROVE  Earlier!Next \/ UNCHANGED Earlier!vars
  <1>1. CASE Environment \/ MainThread
    BY <1>1, ClientsAsBefore, MainAsBefore
  <1>2. CASE TimerThread \/ \E c \in Clients : ClientThread(c)
    <2>1. PICK t \in Tids : FileStep(t) \/ RemoveThread(t)
      BY <1>2, ThreadStepsAre
    <2>2. t \in Clients /\ ~ThreadCleanup(t)
      BY <2>1, ThreadKeepsSerial
    <2>3. Lock(t) \/ Recv(t) \/ Store(t) \/ Reply(t) \/ Close(t) \/ RemoveThread(t)
      BY <2>1, <2>2, ThreadsAssumption DEF FileStep
    <2>4. CASE Lock(t)
      BY <2>2, <2>4, LockAsBefore DEF Earlier!Next
    <2>5. CASE Recv(t)
      BY <2>2, <2>5, RecvAsBefore DEF Earlier!Next
    <2>6. CASE Store(t)
      <3>1. Len(kept) < MaxWriteOps
        <4>1. /\ Len(kept) < Cardinality(Clients)
              /\ Len(kept) \in Nat /\ Cardinality(Clients) \in Nat
          BY <2>2, <2>6, RoomForOneMore DEF Store, ThreadAt
        <4>2. QED
          BY <4>1, BoundsAssumption
      <3>2. QED
        BY <2>2, <2>6, <3>1, StoreAsBefore DEF Earlier!Next
    <2>7. CASE Reply(t)
      BY <2>2, <2>7, ReplyAsBefore DEF Earlier!Next
    <2>8. CASE Close(t) \/ RemoveThread(t)
      BY <2>2, <2>8, LeavingAsBefore
    <2>9. QED
      BY <2>3, <2>4, <2>5, <2>6, <2>7, <2>8
  <1>3. QED
    BY <1>1, <1>2 DEF Next

(* "Handle the client as before" (aesdsocket.c:259), for any number of     *)
(* clients that the device has room for: threads that share the device     *)
(* implement the server that served one client after the other.  A seek    *)
(* command is excluded because that server knew none, a failed call        *)
(* because it may end the whole server between a line's pieces, and bytes  *)
(* after a newline because the device keeps them out of the reply.         *)
THEOREM ThreadsServeAsBefore ==
  ASSUME ~Faults, UseCharDevice, PlainChunks, IsFiniteSet(Clients),
         Cardinality(Clients) <= MaxWriteOps
  PROVE  Spec => HandlesAsBefore
  <1>1. Init => SerialInv /\ CountInv /\ Earlier!Init
    <2> SUFFICES ASSUME Init PROVE SerialInv /\ CountInv /\ Earlier!Init
      OBVIOUS
    <2>1. \A t \in Tids : thread[t] = "none"
      BY DEF Init
    <2>2. SerialInv
      BY <2>1 DEF Init, SerialInv, Tids
    <2>3. kept = << >> /\ partial = << >>
      BY DEF Init, Device!Init
    <2>4. CountInv
      <3>1. Answered = {}
        BY <2>1 DEF Answered, Left, Tids
      <3>2. Len(kept) = 0 /\ Cardinality(Answered) = 0
        BY <2>3, <3>1, FS_EmptySet
      <3>3. QED
        BY <2>3, <3>2 DEF CountInv, Device!EndsLine
    <2>5. OldFile = << >>
      <3>1. FlattenSeq(kept) = << >>
        BY <2>3 DEF FlattenSeq
      <3>2. QED
        BY <2>3, <3>1 DEF OldFile
    <2>6. OldClient = NULL /\ OldMain = "setup" /\ OldProcess = "up"
      BY <2>1 DEF Init, OldClient, OldMain, OldProcess, Serves, Tids
    <2>7. /\ OldSocket = [c \in Clients |-> "none"] /\ OldClosed = {}
          /\ OldInbox = [c \in Clients |-> << >>]
      <3>1. OldSocket = [c \in Clients |-> "none"] /\ OldClosed = {}
        BY <2>1 DEF Init, OldSocket, OldClosed, Left, Tids
      <3>2. \A c \in Clients : [i \in DOMAIN inbox[c] |-> inbox[c][i].bytes] = << >>
        BY DEF Init
      <3>3. QED
        BY <3>1, <3>2 DEF OldInbox
    <2>8. Earlier!Init
      BY <2>5, <2>6, <2>7 DEF Earlier!Init, Init
    <2>9. QED
      BY <2>2, <2>4, <2>8
  <1>2. Typed /\ SerialInv /\ CountInv /\ [Next]_vars => SerialInv' /\ CountInv'
    <2> SUFFICES ASSUME Typed, SerialInv, CountInv, [Next]_vars PROVE SerialInv' /\ CountInv'
      OBVIOUS
    <2>1. CASE Next
      <3>1. SerialInv'
        BY <2>1, MainKeepsSerial, ThreadStepsAre, ThreadKeepsSerial DEF Next
      <3>2. QED
        BY <2>1, <3>1, StepKeepsCount
    <2>2. CASE UNCHANGED vars
      BY <2>2
      DEF vars, procVars, dataVars, clientVars, connVars, SerialInv, CountInv, Answered, Left,
          Device!EndsLine
    <2>3. QED
      BY <2>1, <2>2
  <1>3. Typed /\ Typed' /\ AuthorInv /\ SerialInv /\ SerialInv' /\ CountInv /\ [Next]_vars =>
          [Earlier!Next]_(Earlier!vars)
    <2>1. UNCHANGED vars => UNCHANGED Earlier!vars
      BY DEF vars, procVars, dataVars, clientVars, connVars, Earlier!vars, Earlier!envVars,
             OldProcess, OldMain, OldClient, OldFile, OldSocket, OldClosed, OldInbox, Serves, Left
    <2>2. QED
      BY <2>1, StepAsBefore
  <1>4. QED
    BY <1>1, <1>2, <1>3, TypedInvariant, AuthorInvariant, PTL
    DEF Spec, HandlesAsBefore, Earlier!Spec
=============================================================================
