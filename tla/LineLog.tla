------------------------------- MODULE LineLog -------------------------------
(***************************************************************************)
(* What the AESD character device promises its writers: bytes written are  *)
(* gathered into a line, and a write whose last byte is a newline turns    *)
(* the line into a command that joins the log of the most recent ones.     *)
(* A write happens in one step here: there is no lock, no heap and no      *)
(* ring.                                                                   *)
(***************************************************************************)
EXTENDS Naturals, Sequences

CONSTANTS
  MaxWriteOps,  (* how many commands are kept                        *)
  Bytes,        (* what a command is made of                         *)
  Payloads,     (* what a write may carry                            *)
  NL            (* the newline                                       *)

VARIABLES
  kept,         (* the commands kept, oldest first                   *)
  partial       (* the bytes of the unfinished line                  *)

Log == INSTANCE CommandLog WITH Commands <- Seq(Bytes)

EndsLine(bytes) == bytes # << >> /\ bytes[Len(bytes)] = NL

Init == kept = << >> /\ partial = << >>

Write(bytes) ==
  LET line == partial \o bytes
  IN  IF EndsLine(line)
      THEN kept' = Log!Remember(kept, line) /\ partial' = << >>
      ELSE partial' = line /\ UNCHANGED kept

Next == \E bytes \in Payloads : Write(bytes)

Spec == Init /\ [][Next]_<< kept, partial >>
=============================================================================
