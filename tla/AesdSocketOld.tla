--------------------------- MODULE AesdSocketOld ---------------------------
(***************************************************************************)
(* The earlier server, server/aesdsocket_old.c: one process, one client at *)
(* a time, a regular file.  It is no longer built; here it says what the   *)
(* threaded server has to look like from outside, whatever its threads do. *)
(***************************************************************************)
EXTENDS Sequences

CONSTANTS
  Clients,    (* the clients                                          *)
  NULL,       (* no client, no reply                                  *)
  NL,         (* the newline                                          *)
  Chunks(_),  (* the bytes one recv may bring from a client           *)
  Faults      (* may open or write fail?                              *)

VARIABLES
  process,    (* "up", "exited" or "killed" by SIGPIPE                *)
  running,    (* the flag that the signal handler clears              *)
  main,       (* where the program is                                 *)
  client,     (* client_socket: whom it serves, NULL in accept        *)
  file,       (* the data file, empty when there is none              *)
  socket,     (* each client's connection, as the server sees it      *)
  closed,     (* the connections that either end has closed           *)
  inbox,      (* chunks sent to the server and not received           *)
  reply       (* what was sent back to each client                    *)

envVars == << socket, closed, inbox >>
vars == << process, running, main, client, file, envVars, reply >>

Init ==
  /\ process = "up"
  /\ running = TRUE
  /\ main = "setup"
  /\ client = NULL
  /\ file = << >>
  /\ socket = [c \in Clients |-> "none"]
  /\ closed = {}
  /\ inbox = [c \in Clients |-> << >>]
  /\ reply = [c \in Clients |-> NULL]

At(label) == process = "up" /\ main = label

-----------------------------------------------------------------------------
(* The clients. *)

ClientConnects(c) ==
  /\ main # "setup"
  /\ socket[c] = "none"
  /\ socket' = [socket EXCEPT ![c] = "waiting"]
  /\ UNCHANGED << process, running, main, client, file, closed, inbox, reply >>

ClientSends(c) ==
  /\ socket[c] # "none"
  /\ \E chunk \in Chunks(c) : inbox' = [inbox EXCEPT ![c] = Append(@, chunk)]
  /\ UNCHANGED << process, running, main, client, file, socket, closed, reply >>

ClientCloses(c) ==
  /\ socket[c] # "none"
  /\ closed' = closed \cup {c}
  /\ UNCHANGED << process, running, main, client, file, socket, inbox, reply >>

-----------------------------------------------------------------------------
(* The server. *)

(* Without its signal handlers the program exits at once; when a call for  *)
(* the socket fails cleanup follows.                                       *)
Listen ==
  /\ At("setup")
  /\ \/ main' = "daemonize" /\ UNCHANGED process
     \/ Faults /\ main' = "cleanup" /\ UNCHANGED process
     \/ Faults /\ process' = "exited" /\ UNCHANGED main
  /\ UNCHANGED << running, client, file, envVars, reply >>

daemonize ==
  /\ At("daemonize")
  /\ \/ main' = "accepting" /\ UNCHANGED process
     \/ Faults /\ process' = "exited" /\ UNCHANGED main
  /\ UNCHANGED << running, client, file, envVars, reply >>

(* The client's socket is closed, and the main loop tests running. *)
NextClient ==
  /\ main' = IF running THEN "accepting" ELSE "cleanup"
  /\ client' = NULL
  /\ closed' = closed \cup {client}

(* accept and a recv that waits fail with EINTR; a signal that comes just  *)
(* before one of them waits goes unnoticed until the next client.          *)
signal_handler ==
  /\ process = "up"
  /\ main # "setup"
  /\ running
  /\ running' = FALSE
  /\ \/ UNCHANGED << main, client, closed >>
     \/ main = "accepting" /\ main' = "cleanup" /\ UNCHANGED << client, closed >>
     \/ /\ main = "recv" /\ inbox[client] = << >>
        /\ main' = "cleanup" /\ client' = NULL /\ closed' = closed \cup {client}
  /\ UNCHANGED << process, file, socket, inbox, reply >>

Accept(c) ==
  /\ At("accepting")
  /\ socket[c] = "waiting"
  /\ socket' = [socket EXCEPT ![c] = "accepted"]
  /\ client' = c
  /\ main' = "recv"
  /\ UNCHANGED << process, running, file, closed, inbox, reply >>

Recv ==
  /\ At("recv")
  /\ \/ inbox[client] # << >> /\ main' = "store" /\ UNCHANGED << client, closed >>
     \/ inbox[client] = << >> /\ client \in closed /\ NextClient
  /\ UNCHANGED << process, running, file, socket, inbox, reply >>

(* The chunk goes to the end of the file; what write returns is not looked *)
(* at.  When the open fails the server ends.                               *)
Store ==
  LET bytes == Head(inbox[client])
      after == IF \E i \in DOMAIN bytes : bytes[i] = NL THEN "reply" ELSE "recv"
  IN  /\ At("store")
      /\ inbox' = [inbox EXCEPT ![client] = Tail(@)]
      /\ \/ file' = file \o bytes /\ main' = after
         \/ Faults /\ main' \in {after, "cleanup"} /\ UNCHANGED file
      /\ UNCHANGED << process, running, client, socket, closed, reply >>

(* The whole file is sent.  A send to a client that is gone may raise      *)
(* SIGPIPE; when the open for reading fails the server ends.               *)
Reply ==
  /\ At("reply")
  /\ \/ /\ reply' = [reply EXCEPT ![client] = file]
        /\ NextClient
        /\ UNCHANGED process
     \/ client \in closed /\ process' = "killed" /\ UNCHANGED << main, client, closed, reply >>
     \/ Faults /\ main' = "cleanup" /\ UNCHANGED << process, client, closed, reply >>
  /\ UNCHANGED << running, file, socket, inbox >>

cleanup ==
  /\ At("cleanup")
  /\ file' = << >>
  /\ process' = "exited"
  /\ UNCHANGED << running, main, client, envVars, reply >>

Next ==
  \/ Listen \/ daemonize \/ signal_handler \/ Recv \/ Store \/ Reply \/ cleanup
  \/ \E c \in Clients : ClientConnects(c) \/ ClientSends(c) \/ ClientCloses(c) \/ Accept(c)

Spec == Init /\ [][Next]_vars
=============================================================================
