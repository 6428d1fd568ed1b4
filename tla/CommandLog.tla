----------------------------- MODULE CommandLog -----------------------------
(***************************************************************************)
(* What the AESD circular buffer promises, without saying how: it keeps    *)
(* the most recent MaxWriteOps commands in the order they were added.      *)
(* There are no slots, offsets or flags here.                              *)
(***************************************************************************)
EXTENDS Naturals, Sequences

CONSTANTS
  MaxWriteOps,  (* how many commands are kept                        *)
  Commands      (* the commands that may be added                    *)

VARIABLE kept   (* the commands kept, oldest first                   *)

(* The log after c was added: the oldest command makes room when full. *)
Remember(log, c) ==
  IF Len(log) < MaxWriteOps THEN Append(log, c) ELSE Append(Tail(log), c)

Init == kept = << >>

Add(c) == kept' = Remember(kept, c)

Next == \E c \in Commands : Add(c)

Spec == Init /\ [][Next]_kept
=============================================================================
