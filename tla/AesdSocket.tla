----------------------------- MODULE AesdSocket -----------------------------
(***************************************************************************)
(* The threaded socket server, server/aesdsocket.c: its start, the main    *)
(* loop, a thread per client, the timestamp thread, the signal handler and *)
(* the exit.  The list of threads is ThreadList.                           *)
(*                                                                         *)
(* The data file is the character device (the default build) or a regular  *)
(* file.  The device is the line log that AesdChar implements: the server  *)
(* holds file_mutex around every call, so its calls to one open file do    *)
(* not overlap.                                                            *)
(***************************************************************************)
EXTENDS ThreadList

CONSTANTS
  NL,             (* the newline; the other bytes are their authors   *)
  MaxWriteOps,    (* how many commands the device keeps               *)
  UseCharDevice,  (* USE_AESD_CHAR_DEVICE                             *)
  Chunks(_),      (* what one recv may bring from a client            *)
  MaxChunks,      (* bound: how many chunks a client sends            *)
  MaxTicks,       (* bound: how many timestamps are written           *)
  Signals,        (* may SIGINT or SIGTERM come?                      *)
  Disconnects,    (* may a client close before it has its reply?      *)
  Faults          (* may open, write or pthread_create fail?          *)

ASSUME BoundsAssumption == MaxWriteOps \in Nat \ {0} /\ MaxChunks \in Nat /\ MaxTicks \in Nat

(* NULL stands for an offset that no seek command has set. *)
ASSUME OffsetsAssumption == NULL \notin Nat

ASSUME ChunksAssumption ==
  \A c \in Clients : \A chunk \in Chunks(c) : chunk.bytes \in Seq(Tids \cup {NL})

VARIABLES
  listening,      (* is the server's socket open?                     *)
  running,        (* the flag that the signal handler clears          *)
  file_mutex,     (* the owner of file_mutex, NULL when it is free    *)
  kept, partial,  (* the device                                       *)
  file, linked,   (* the regular file, and whether it has its name    *)
  ticks,          (* timestamps written                               *)
  socket,         (* each client's socket, as the client left it      *)
  inbox,          (* chunks sent to the server and not received       *)
  sent,           (* how many chunks each client sent                 *)
  seekset,        (* where the seek command put data_fd's offset, NULL *)
                  (* when it was none                                 *)
  reply           (* what was sent back to each client                *)

procVars   == << process, listening, running, main, current >>
dataVars   == << kept, partial, file, linked, ticks >>
clientVars == << socket, inbox, sent >>
connVars   == << seekset, reply >>
vars == << procVars, listVars, file_mutex, thread, dataVars, clientVars, connVars >>

Device == INSTANCE LineLog WITH
  Bytes <- Tids \cup {NL}, Payloads <- UNION {{c.bytes : c \in Chunks(t)} : t \in Clients}

Init ==
  /\ process = "up"
  /\ listening = FALSE
  /\ running = TRUE
  /\ main = "setup"
  /\ current = NULL
  /\ ListInit
  /\ file_mutex = NULL
  /\ thread = [t \in Tids |-> "none"]
  /\ Device!Init
  /\ file = << >> /\ linked = FALSE
  /\ ticks = 0
  /\ socket = [c \in Clients |-> "none"]
  /\ inbox = [c \in Clients |-> << >>]
  /\ sent = [c \in Clients |-> 0]
  /\ seekset = [c \in Clients |-> NULL]
  /\ reply = [c \in Clients |-> NULL]

-----------------------------------------------------------------------------
(* The clients and whoever sends signals. *)

ClientConnects(c) ==
  /\ listening
  /\ socket[c] = "none"
  /\ socket' = [socket EXCEPT ![c] = "waiting"]
  /\ UNCHANGED << procVars, listVars, file_mutex, thread, dataVars, inbox, sent, connVars >>

ClientSends(c) ==
  \E chunk \in Chunks(c) :
    /\ socket[c] \in {"waiting", "accepted"}
    /\ sent[c] < MaxChunks
    /\ inbox' = [inbox EXCEPT ![c] = Append(@, chunk)]
    /\ sent' = [sent EXCEPT ![c] = @ + 1]
    /\ UNCHANGED << procVars, listVars, file_mutex, thread, dataVars, socket, connVars >>

ClientCloses(c) ==
  /\ Disconnects
  /\ socket[c] = "accepted"
  /\ socket' = [socket EXCEPT ![c] = "closed"]
  /\ UNCHANGED << procVars, listVars, file_mutex, thread, dataVars, inbox, sent, connVars >>

(* The main thread takes the signal, as Linux prefers.  Only a blocked     *)
(* accept notices: it fails with EINTR, and main goes to cleanup.          *)
signal_handler ==
  /\ Signals
  /\ process = "up"
  /\ main # "setup"
  /\ running
  /\ running' = FALSE
  /\ main' = IF main = "accepting" THEN "cleanup" ELSE main
  /\ UNCHANGED << process, listening, current, listVars, file_mutex, thread, dataVars, clientVars, connVars >>

-----------------------------------------------------------------------------
(* The main thread. *)

(* The signal handlers, without which main exits at once, and the socket:  *)
(* when one of its calls fails cleanup takes the data file away, though    *)
(* this server never wrote it.                                             *)
Listen ==
  /\ MainAt("setup")
  /\ \/ listening' = TRUE /\ main' = "daemonize" /\ UNCHANGED process
     \/ Faults /\ main' = "cleanup" /\ UNCHANGED << process, listening >>
     \/ Faults /\ process' = "exited" /\ UNCHANGED << listening, main >>
  /\ UNCHANGED << running, current, listVars, file_mutex, thread, dataVars, clientVars, connVars >>

(* fork and setsid may fail, and the memory for the timestamp thread's     *)
(* arguments may be missing, which main does not test.  Only the build     *)
(* without the device starts that thread.                                  *)
daemonize ==
  /\ MainAt("daemonize")
  /\ \/ main' = (IF UseCharDevice THEN "loop" ELSE "timer") /\ UNCHANGED process
     \/ Faults /\ process' \in {"exited", "killed"} /\ UNCHANGED main
  /\ UNCHANGED << listening, running, current, listVars, file_mutex, thread, dataVars,
                  clientVars, connVars >>

(* A timestamp thread that could not be created is listed all the same,    *)
(* under a tid that nothing has set.                                       *)
StartTimer ==
  /\ MainAt("timer")
  /\ \/ ThreadGoto(Timer, "check")
     \/ Faults /\ UNCHANGED thread
  /\ current' = Timer
  /\ main' = "add"
  /\ UNCHANGED << process, listening, running, listVars, file_mutex, dataVars, clientVars, connVars >>

(* while (running): the test, then the call of accept or join_threads. *)
MainLoop ==
  /\ MainAt("loop")
  /\ IF running
     THEN main' = "accept" /\ UNCHANGED << process, current, listVars, thread >>
     ELSE JoinBegins
  /\ UNCHANGED << listening, running, file_mutex, dataVars, clientVars, connVars >>

(* accept blocks; from here a signal interrupts it. *)
AcceptBlocks ==
  /\ MainAt("accept")
  /\ main' = "accepting"
  /\ UNCHANGED << process, listening, running, current, listVars, file_mutex, thread, dataVars,
                  clientVars, connVars >>

Accept(c) ==
  /\ MainAt("accepting")
  /\ socket[c] = "waiting"
  /\ socket' = [socket EXCEPT ![c] = "accepted"]
  /\ main' = "create"
  /\ current' = c
  /\ UNCHANGED << process, listening, running, listVars, file_mutex, thread, dataVars, inbox, sent, connVars >>

(* The new thread runs at once: its node is added later.  That there is    *)
(* memory for its arguments is not tested.                                 *)
CreateThread ==
  /\ MainAt("create")
  /\ \/ /\ thread' = [thread EXCEPT ![current] = "lock"]
        /\ main' = "add"
        /\ UNCHANGED << process, socket >>
     \/ /\ Faults
        /\ socket' = [socket EXCEPT ![current] = "closed"]
        /\ main' = "loop"
        /\ UNCHANGED << process, thread >>
     \/ Faults /\ process' = "killed" /\ UNCHANGED << main, thread, socket >>
  /\ UNCHANGED << listening, running, current, listVars, file_mutex, dataVars, inbox, sent, connVars >>

(* add_thread, or the exit when there is no memory for the node. *)
AddThread ==
  /\ \/ add_thread
     \/ /\ Faults
        /\ MainAt("add")
        /\ process' = "exited"
        /\ UNCHANGED << main, current, listVars, thread >>
  /\ UNCHANGED << listening, running, file_mutex, dataVars, clientVars, connVars >>

JoinThreads ==
  /\ JoinTurn
  /\ UNCHANGED << listening, running, file_mutex, dataVars, clientVars, connVars >>

(* A thread of this process called cleanup, and the listening socket is    *)
(* shut down under the accept that waits on it.                            *)
AcceptFails ==
  /\ MainAt("accepting")
  /\ ~listening
  /\ main' = "cleanup"
  /\ UNCHANGED << process, listening, running, current, listVars, file_mutex, thread,
                  dataVars, clientVars, connVars >>

(* The first half of cleanup: the socket is closed and the data file loses *)
(* its name, while the other threads still run, one perhaps with it open.  *)
CloseAndUnlink ==
  /\ listening' = FALSE
  /\ linked' = (UseCharDevice /\ linked)
  /\ UNCHANGED << process, running, current, listVars, file_mutex, kept, partial, file,
                  ticks, clientVars, connVars >>

(* The second half: exit ends every thread, whatever it is doing. *)
Exit ==
  /\ process' = "exited"
  /\ UNCHANGED << listening, running, main, current, listVars, file_mutex, thread,
                  dataVars, clientVars, connVars >>

MainCleanup ==
  \/ MainAt("cleanup") /\ main' = "exit" /\ CloseAndUnlink /\ UNCHANGED thread
  \/ MainAt("exit")    /\ Exit

-----------------------------------------------------------------------------
(* A client's thread. *)

(* A definition named Bug_... is a seeded fault: a wrong variant of the    *)
(* definition after it, used only to show that a property can fail.  Here  *)
(* nobody waits for the mutex.                                             *)
Bug_NobodyWaits == TRUE

MutexFree == file_mutex = NULL

(* pthread_mutex_lock in handle_client and in timestamp_thread. *)
Lock(t) ==
  /\ ThreadAt(t, "lock")
  /\ MutexFree
  /\ file_mutex' = t
  /\ ThreadGoto(t, IF t = Timer THEN "append" ELSE "recv")
  /\ UNCHANGED << procVars, listVars, dataVars, clientVars, connVars >>

(* Seeded fault: the mutex is unlocked when the client is gone. *)
Bug_EndOfInputUnlocks == file_mutex' = NULL

EndOfInput == UNCHANGED file_mutex

(* At the end of the input the loop is left, and the mutex stays locked. *)
Recv(c) ==
  /\ ThreadAt(c, "recv")
  /\ \/ inbox[c] # << >> /\ ThreadGoto(c, "store") /\ UNCHANGED file_mutex
     \/ inbox[c] = << >> /\ socket[c] = "closed" /\ ThreadGoto(c, "close") /\ EndOfInput
  /\ UNCHANGED << procVars, listVars, dataVars, clientVars, connVars >>

Contents == IF UseCharDevice THEN FlattenSeq(kept) ELSE file

(* What open finds: O_CREAT makes an empty file when there is none. *)
Opened == IF linked THEN file ELSE << >>

(* The data file is opened without O_APPEND: the offset is 0. *)
Overwritten(bytes) == bytes \o SubSeq(Opened, Len(bytes) + 1, Len(Opened))

(* open and write; what write returns is not looked at. *)
WriteData(bytes) ==
  \/ UseCharDevice /\ Device!Write(bytes) /\ UNCHANGED << file, linked, ticks >>
  \/ /\ ~UseCharDevice
     /\ file' = Overwritten(bytes) /\ linked' = TRUE
     /\ UNCHANGED << kept, partial, ticks >>
  \/ /\ Faults
     /\ file' = Opened /\ linked' = ~UseCharDevice
     /\ UNCHANGED << kept, partial, ticks >>

(* Where the seek command may put the offset: on some byte of the device   *)
(* (AesdChar says which); a regular file knows no such command.            *)
SeekPositions == IF UseCharDevice THEN 0 .. Len(Contents) - 1 ELSE {}

(* The body of the recv loop up to the reply: each chunk is either a seek  *)
(* command or data.  When the open fails, or the seek command does not     *)
(* parse or is refused, the thread unlocks and ends the whole server.      *)
Store(c) ==
  LET chunk == Head(inbox[c])
      after == IF Contains(chunk.bytes, NL) THEN "reply" ELSE "recv"
  IN  /\ ThreadAt(c, "store")
      /\ inbox' = [inbox EXCEPT ![c] = Tail(@)]
      /\ \/ /\ chunk.kind = "data"
            /\ WriteData(chunk.bytes)
            /\ seekset' = [seekset EXCEPT ![c] = NULL]
            /\ ThreadGoto(c, after)
            /\ UNCHANGED file_mutex
         \/ /\ chunk.kind = "seek"
            /\ \E pos \in SeekPositions : seekset' = [seekset EXCEPT ![c] = pos]
            /\ ThreadGoto(c, after)
            /\ UNCHANGED << file_mutex, dataVars >>
         \/ /\ Faults \/ chunk.kind = "seek"
            /\ file_mutex' = NULL
            /\ ThreadGoto(c, "cleanup")
            /\ UNCHANGED << dataVars, seekset >>
      /\ UNCHANGED << procVars, listVars, socket, sent, reply >>

(* Seeded fault: the file is not rewound before it is read. *)
Bug_NotRewound(c) == IF seekset[c] = NULL THEN Len(Contents) ELSE seekset[c]

ReadFrom(c) == IF seekset[c] = NULL THEN 0 ELSE seekset[c]

(* Seeded fault: the mutex is kept after the reply. *)
Bug_ReplyKeepsMutex == UNCHANGED file_mutex

ReplyUnlocks == file_mutex' = NULL

(* lseek to the start unless a seek command was given, the read loop, the  *)
(* sends, the unlock.  A send to a client that is gone may raise SIGPIPE;  *)
(* an lseek that fails ends the server.                                    *)
Reply(c) ==
  /\ ThreadAt(c, "reply")
  /\ \/ /\ reply' = [reply EXCEPT ![c] = SubSeq(Contents, ReadFrom(c) + 1, Len(Contents))]
        /\ ReplyUnlocks
        /\ ThreadGoto(c, "close")
        /\ UNCHANGED process
     \/ /\ socket[c] = "closed"
        /\ process' = "killed"
        /\ UNCHANGED << reply, file_mutex, thread >>
     \/ /\ Faults /\ seekset[c] = NULL
        /\ file_mutex' = NULL
        /\ ThreadGoto(c, "cleanup")
        /\ UNCHANGED << reply, process >>
  /\ UNCHANGED << listening, running, main, current, listVars, dataVars, clientVars, seekset >>

Close(c) ==
  /\ ThreadAt(c, "close")
  /\ socket' = [socket EXCEPT ![c] = "closed"]
  /\ ThreadGoto(c, "remove")
  /\ UNCHANGED << procVars, listVars, file_mutex, dataVars, inbox, sent, connVars >>

RemoveThread(t) ==
  /\ remove_thread(t)
  /\ UNCHANGED << listening, running, file_mutex, dataVars, clientVars, connVars >>

ThreadCleanup(t) ==
  \/ ThreadAt(t, "cleanup") /\ ThreadGoto(t, "exit") /\ CloseAndUnlink /\ UNCHANGED main
  \/ ThreadAt(t, "exit")    /\ Exit

-----------------------------------------------------------------------------
(* The timestamp thread. *)

TimerLoop ==
  /\ ThreadAt(Timer, "check")
  /\ running => ticks < MaxTicks
  /\ ThreadGoto(Timer, IF running THEN "lock" ELSE "remove")
  /\ UNCHANGED << procVars, listVars, file_mutex, dataVars, clientVars, connVars >>

(* The timestamp goes to the end of the file, then the thread sleeps. *)
TimerAppends ==
  /\ ThreadAt(Timer, "append")
  /\ ticks' = ticks + 1
  /\ file' = Opened \o << Timer, NL >> /\ linked' = TRUE
  /\ file_mutex' = NULL
  /\ ThreadGoto(Timer, "check")
  /\ UNCHANGED << procVars, listVars, kept, partial, clientVars, connVars >>

TimerFails ==
  /\ Faults
  /\ ThreadAt(Timer, "append")
  /\ ThreadGoto(Timer, "cleanup")
  /\ UNCHANGED << procVars, listVars, file_mutex, dataVars, clientVars, connVars >>

-----------------------------------------------------------------------------
Environment == signal_handler
                 \/ \E c \in Clients : ClientConnects(c) \/ ClientSends(c) \/ ClientCloses(c)

MainThread == \/ Listen \/ daemonize \/ StartTimer
              \/ MainLoop \/ AcceptBlocks \/ (\E c \in Clients : Accept(c))
              \/ CreateThread \/ AddThread \/ JoinThreads \/ AcceptFails \/ MainCleanup

ClientThread(c) == \/ Lock(c) \/ Recv(c) \/ Store(c) \/ Reply(c) \/ Close(c)
                   \/ RemoveThread(c) \/ ThreadCleanup(c)

TimerThread == \/ TimerLoop \/ Lock(Timer) \/ TimerAppends \/ TimerFails
               \/ RemoveThread(Timer) \/ ThreadCleanup(Timer)

Next == Environment \/ MainThread \/ TimerThread \/ \E c \in Clients : ClientThread(c)

(* Every thread that can run is run.  glibc's mutex promises no order, so  *)
(* no more than weak fairness is asked of Lock.  Clients send what they    *)
(* have to send, but none has to connect and no signal has to come.        *)
Fairness ==
  /\ WF_vars(MainThread)
  /\ WF_vars(TimerThread)
  /\ \A c \in Clients : WF_vars(ClientThread(c)) /\ WF_vars(ClientSends(c))

Spec     == Init /\ [][Next]_vars
FairSpec == Spec /\ Fairness

-----------------------------------------------------------------------------
(* Properties. *)

(* Where a thread touches the data file. *)
UsesFile == {"recv", "store", "reply", "append"}

Bytes == Tids \cup {NL}

(* Type invariant, of the list too; no walk of the list is at NULL. *)
TypeOK ==
  /\ ListTypeOK
  /\ listening \in BOOLEAN /\ running \in BOOLEAN
  /\ main \in {"setup", "daemonize", "timer", "loop", "accept", "accepting",
               "create", "add", "publish", "join", "cleanup", "exit"}
  /\ file_mutex \in Tids \cup {NULL}
  /\ thread \in [Tids -> UsesFile \cup
       {"none", "lock", "close", "check", "cleanup", "exit", "remove", "look",
        "unlink", "free", "done"}]
  /\ kept \in Seq(Seq(Bytes)) /\ partial \in Seq(Bytes) /\ file \in Seq(Bytes) /\ linked \in BOOLEAN
  /\ ticks \in 0 .. MaxTicks
  /\ socket \in [Clients -> {"none", "waiting", "accepted", "closed"}]
  /\ sent \in [Clients -> 0 .. MaxChunks]
  /\ seekset \in [Clients -> {NULL} \cup Nat]

(* file_mutex keeps the threads apart: who touches the data file owns it,  *)
(* through waits for the client and error paths.                           *)
MutexCoversFile == \A t \in Tids : thread[t] \in UsesFile => file_mutex = t

(* Lines of different clients do not run into each other on the device:    *)
(* every command has one author.  (The mutex is kept from the first recv   *)
(* to the newline; when a client leaves without one, for ever.)            *)
CommandsHaveOneAuthor ==
  \A i \in DOMAIN kept : Cardinality(Range(kept[i]) \ {NL}) <= 1

(* A client that sent data and a newline gets its own data back, whoever   *)
(* else writes: between its last write and its reply the file is its own.  *)
RepliesIncludeOwnData ==
  [][\A c \in Clients :
       (reply'[c] # reply[c] /\ seekset[c] = NULL) => c \in Range(reply'[c])]_vars

(* The earlier server, as the threaded one on the device looks from        *)
(* outside: whoever owns file_mutex is the client being served, those      *)
(* waiting for it have not been accepted yet, and the server's end is not  *)
(* looked at.                                                              *)
Serves(c)  == file_mutex = c /\ thread[c] \in {"recv", "store", "reply"}
Left(c)    == thread[c] \in {"close", "remove", "look", "unlink", "free", "done"}
BytesOf(c) == {chunk.bytes : chunk \in Chunks(c)}

OldProcess == IF process = "killed" THEN "killed" ELSE "up"
OldClient  == IF \E c \in Clients : Serves(c) THEN file_mutex ELSE NULL
OldMain    == IF main \in {"setup", "daemonize"} THEN main
              ELSE IF \E c \in Clients : Serves(c) THEN thread[file_mutex] ELSE "accepting"
OldFile    == FlattenSeq(kept) \o partial
OldSocket  == [c \in Clients |-> IF socket[c] = "none" THEN "none"
                 ELSE IF thread[c] \in {"none", "lock"} THEN "waiting" ELSE "accepted"]
OldClosed  == {c \in Clients : socket[c] = "closed" \/ Left(c)}
OldInbox   == [c \in Clients |-> [i \in DOMAIN inbox[c] |-> inbox[c][i].bytes]]

Earlier == INSTANCE AesdSocketOld WITH
  Chunks <- BytesOf, process <- OldProcess, running <- TRUE, main <- OldMain,
  client <- OldClient, file <- OldFile, socket <- OldSocket, closed <- OldClosed,
  inbox  <- OldInbox

(* "Handle the client as before" (aesdsocket.c:259): as long as the device *)
(* evicts nothing, threads that share one device look like the earlier     *)
(* server, which served one client from its first byte to its reply before *)
(* it accepted the next.                                                   *)
HandlesAsBefore == Earlier!Spec

(* A line that has reached the server is answered, or the server ends:     *)
(* the clients ahead in the queue for the mutex finish and give it back.   *)
LinesAreAnswered ==
  \A c \in Clients :
    (thread[c] = "lock" /\ \E i \in DOMAIN inbox[c] : Contains(inbox[c][i].bytes, NL))
      ~> (reply[c] # NULL \/ process # "up")

(* "Handle the client as before" (aesdsocket.c:259), when a client that    *)
(* left without a newline did not keep the next one waiting: a client's    *)
(* thread is not kept out for ever.                                        *)
ClientsAreServed ==
  \A c \in Clients : thread[c] = "lock" ~> thread[c] # "lock" \/ process # "up"

(* A signal ends the server once its clients are served, but for one case: *)
(* main tested running before the signal and blocks in accept after it,    *)
(* and then the server waits for one more client.                          *)
SignalsEndServer == ~running ~> (process # "up" \/ main = "accepting")
=============================================================================
