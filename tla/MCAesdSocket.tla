---------------------------- MODULE MCAesdSocket ----------------------------
(* Small instances of the server: two or three clients, a device of two     *)
(* commands.                                                                *)
EXTENDS AesdSocket

Data(bytes) == [kind |-> "data", bytes |-> bytes]

(* A piece of a line or a whole line. *)
LineChunks(c)  == {Data(<< c >>), Data(<< c, NL >>)}
(* Whole lines only. *)
WholeChunks(c) == {Data(<< c, NL >>)}
(* A whole line or a seek command. *)
SeekChunks(c)  == {Data(<< c, NL >>), [kind |-> "seek", bytes |-> << c, NL >>]}
=============================================================================
