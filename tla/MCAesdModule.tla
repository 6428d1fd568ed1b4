---------------------------- MODULE MCAesdModule ----------------------------
(* The driver with the ring's real capacity of ten slots, commands of two  *)
(* sizes.                                                                  *)
EXTENDS AesdModule

MCEntries == {[buffptr |-> "short", size |-> 1], [buffptr |-> "long", size |-> 2]}
=============================================================================
