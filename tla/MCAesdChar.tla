----------------------------- MODULE MCAesdChar -----------------------------
(* Small instances of the driver.  The ring has two slots, so that it wraps *)
(* after two commands, and lines have at most two or three bytes.           *)
EXTENDS AesdChar

CONSTANT x   (* a byte other than the newline *)

Piece   == << x >>
Newline == << NL >>
Whole   == << x, NL >>

(* Commands of two lengths, in one write or in two. *)
LinePayloads  == {Piece, Newline}
(* The same and a write of nothing. *)
MixedPayloads == {Piece, Newline, << >>}
(* Whole lines only. *)
WholePayloads == {Newline, Whole}

NoSeeks   == {}
NoSeektos == {}

(* One of each whence, inside, at and past the end of a short device. *)
SomeSeeks == {[whence |-> "SEEK_SET", off_set |-> 1],
              [whence |-> "SEEK_CUR", off_set |-> 1],
              [whence |-> "SEEK_END", off_set |-> -1]}

(* The first and the second byte of the second command. *)
SomeSeektos == [write_cmd : {1}, write_cmd_offset : 0 .. 1]

EndSeek    == {[whence |-> "SEEK_END", off_set |-> 0]}
LastSeekto == {[write_cmd |-> 1, write_cmd_offset |-> 0]}

MCSeektos == [write_cmd : 0 .. 2, write_cmd_offset : 0 .. 1]
=============================================================================
