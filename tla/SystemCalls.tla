---------------------------- MODULE SystemCalls ----------------------------
(***************************************************************************)
(* The system-call exercise, examples/systemcalls/systemcalls.c: one call  *)
(* of do_system, do_exec or do_exec_redirect, the caller and the child it  *)
(* forks as two processes, and every call of theirs failing.               *)
(***************************************************************************)
EXTENDS FiniteSets

VARIABLES
  fn,         (* the function called                                  *)
  parent,     (* where the caller is                                  *)
  child,      (* where the child is                                   *)
  status,     (* how the child ended, "none" while it has not         *)
  result,     (* what the function returned, "none" while it has not  *)
  fd,         (* is the output file open in the caller?               *)
  stdout,     (* where the child's standard output goes               *)
  output      (* where the command has written                        *)

callVars == << fn, parent, child, status, result, fd, stdout, output >>

(* "zero" and "nonzero" are exit codes; "signal" ended the command. *)
Endings == {"zero", "nonzero", "signal"}

CallInit ==
  /\ fn \in {"do_system", "do_exec", "do_exec_redirect"}
  /\ parent = CASE fn = "do_system"        -> "system"
                [] fn = "do_exec"          -> "fork"
                [] fn = "do_exec_redirect" -> "open"
  /\ child = "none" /\ status = "none" /\ result = "none"
  /\ fd = FALSE
  /\ stdout = "terminal"
  /\ output = {}

ParentAt(f, label) == fn = f /\ parent = label

ReturnsFromCall(value) ==
  parent' = "returned" /\ result' = IF value THEN "true" ELSE "false"

ExitParent ==
  /\ parent' = "exited"
  /\ UNCHANGED << fn, child, status, result, fd, stdout, output >>

-----------------------------------------------------------------------------
(* system(3) forks, runs a shell and waits, or fails in one of these. *)
do_system ==
  /\ ParentAt("do_system", "system")
  /\ \/ \E s \in Endings :
          /\ status' = s
          /\ child' = "reaped"
          /\ output' = {"terminal"}
          /\ ReturnsFromCall(s = "zero")
     \/ ReturnsFromCall(FALSE) /\ UNCHANGED << child, status, output >>
  /\ UNCHANGED << fn, fd, stdout >>

-----------------------------------------------------------------------------
(* do_exec and do_exec_redirect, the caller. *)

OpenOutput ==
  /\ ParentAt("do_exec_redirect", "open")
  /\ \/ /\ fd' = TRUE
        /\ parent' = "fork"
        /\ UNCHANGED << fn, child, status, result, stdout, output >>
     \/ ExitParent

Fork ==
  /\ parent = "fork"
  /\ \/ /\ child' = IF fn = "do_exec" THEN "exec" ELSE "dup2"
        /\ parent' = "wait"
        /\ UNCHANGED << fn, status, result, fd, stdout, output >>
     \/ /\ fn = "do_exec"
        /\ ReturnsFromCall(FALSE)
        /\ UNCHANGED << fn, child, status, fd, stdout, output >>
     \/ fn = "do_exec_redirect" /\ ExitParent

(* A definition named Bug_... is a seeded fault: a wrong variant of the    *)
(* definition after it, used only to show that a property can fail.  Here  *)
(* the exit code is looked at, and not whether there is one.               *)
Bug_SignalIsSuccess(w) == w \in {"zero", "signal"}

ExitedWithZero(w) == w = "zero"

(* Seeded fault: the wait is for a child that there is not. *)
Bug_WaitForNobody == FALSE

ChildEnded == child = "ended"

AfterWait(success) ==
  /\ \/ fn = "do_exec" /\ ReturnsFromCall(success)
     \/ fn = "do_exec_redirect" /\ parent' = "close" /\ UNCHANGED result
  /\ UNCHANGED << fn, status, fd, stdout, output >>

(* waitpid waits for the child's end, or a signal interrupts it. *)
Waitpid ==
  /\ parent = "wait"
  /\ ChildEnded
  /\ child' = "reaped"
  /\ AfterWait(ExitedWithZero(status))

WaitpidFails ==
  /\ parent = "wait"
  /\ AfterWait(FALSE)
  /\ UNCHANGED child

(* What waitpid gave is not looked at. *)
CloseOutput ==
  /\ parent = "close"
  /\ fd' = FALSE
  /\ ReturnsFromCall(TRUE)
  /\ UNCHANGED << fn, child, status, stdout, output >>

-----------------------------------------------------------------------------
(* The child. *)

(* The child ends, by exit, by _exit or as the command. *)
ChildEnds(s) ==
  /\ child' = "ended"
  /\ status' = s
  /\ UNCHANGED << fn, parent, result, fd, stdout >>

(* Seeded fault: the child goes on when dup2 failed. *)
Bug_GoesOn == child' = "exec" /\ UNCHANGED << fn, parent, status, result, fd, stdout, output >>

Dup2Fails == ChildEnds("nonzero") /\ UNCHANGED output

(* The copy becomes standard output, the original is closed. *)
Dup2 ==
  /\ child = "dup2"
  /\ \/ /\ stdout' = "file"
        /\ child' = "exec"
        /\ UNCHANGED << fn, parent, status, result, fd, output >>
     \/ Dup2Fails

Execv ==
  /\ child = "exec"
  /\ \/ /\ child' = "run"
        /\ UNCHANGED << fn, parent, status, result, fd, stdout, output >>
     \/ ChildEnds("nonzero") /\ UNCHANGED output

(* The command writes to its standard output and ends. *)
CommandEnds ==
  /\ child = "run"
  /\ \E s \in Endings : ChildEnds(s)
  /\ output' = output \cup {stdout}

-----------------------------------------------------------------------------
Parent == do_system \/ OpenOutput \/ Fork \/ Waitpid \/ CloseOutput
Child  == Dup2 \/ Execv \/ CommandEnds

CallNext == Parent \/ Child \/ WaitpidFails

(* Both processes are run, the command ends; no signal has to come. *)
CallFairness == WF_callVars(Parent) /\ WF_callVars(Child)

CallSpec == CallInit /\ [][CallNext]_callVars

-----------------------------------------------------------------------------
(* Properties. *)

Succeeded == status = "zero" /\ stdout \in output /\ child = "reaped"

(* "true if the command ... were executed successfully ... false if an     *)
(* error occurred ... in fork, waitpid, or execv() ..., or if a non-zero   *)
(* return value was returned" (systemcalls.c:48-51, 10-13): do_exec and    *)
(* do_system answer true only for a command that really ran, to its end,   *)
(* by itself and with code 0.  do_exec_redirect, "same as do_exec()"       *)
(* (systemcalls.c:129), is left out: it does not look at what waitpid gave *)
(* (systemcalls.c:170) and answers true after every failure of the child.  *)
TrueMeansSuccess ==
  (result = "true" /\ fn # "do_exec_redirect") => Succeeded

(* do_exec_redirect: "This file will be closed at completion of the        *)
(* function call" (systemcalls.c:109), and what the command prints goes    *)
(* nowhere else: when standard output could not be replaced it is not run. *)
OutputGoesToFile ==
  fn = "do_exec_redirect" =>
    /\ "terminal" \notin output
    /\ result = "true" => ~fd

(* The functions block no longer than the command runs: the caller gets    *)
(* its answer, or its process ends.                                        *)
EveryCallEnds == <>(parent \in {"returned", "exited"})
=============================================================================
