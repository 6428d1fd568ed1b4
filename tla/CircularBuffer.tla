--------------------------- MODULE CircularBuffer ---------------------------
(***************************************************************************)
(* The circular buffer of the AESD char driver,                            *)
(* aesd-char-driver/aesd-circular-buffer.c and .h: a fixed array of        *)
(* entries, an insertion index, a read index and a flag.                   *)
(*                                                                         *)
(* An entry keeps the source's two fields.  buffptr is an opaque value for *)
(* the memory block (NULL when there is none); size is its length.         *)
(***************************************************************************)
EXTENDS Naturals, SequencesExt

CONSTANTS
  MaxWriteOps,  (* AESDCHAR_MAX_WRITE_OPERATIONS_SUPPORTED           *)
  Entries,      (* the entries callers add                           *)
  NULL          (* the null pointer                                  *)

ASSUME MaxWriteOpsAssumption == MaxWriteOps \in Nat \ {0}

(* The only caller, aesd_write, adds an entry once its last byte is a      *)
(* newline, so an added entry is never empty.                              *)
ASSUME EntriesAssumption == \A e \in Entries : e.size \in Nat \ {0}

VARIABLES
  entry,        (* the array of entries, indexed from 0              *)
  in_offs,      (* where the next entry is stored                    *)
  out_offs,     (* the first entry to read from                      *)
  full          (* the flag set when an add overwrites               *)

bufferVars == << entry, in_offs, out_offs, full >>

Slots == 0 .. MaxWriteOps - 1

(* A zeroed struct aesd_buffer_entry. *)
NoEntry == [buffptr |-> NULL, size |-> 0]

-----------------------------------------------------------------------------
(* Operations. *)

aesd_circular_buffer_init ==
  /\ entry = [i \in Slots |-> NoEntry]
  /\ in_offs = 0
  /\ out_offs = 0
  /\ full = FALSE

(* A definition named Bug_... is a seeded fault: a wrong variant of the    *)
(* definition after it, used only to show that a property can fail.        *)
Bug_OverwritesWhenIndicesMeet == in_offs = out_offs

(* The insertion index has caught up with an entry not yet discarded. *)
Overwrites == in_offs = out_offs /\ entry[out_offs].size > 0

Bug_AdvancePastEnd(offs) == (offs + 1) % (MaxWriteOps + 1)

Advance(offs) == (offs + 1) % MaxWriteOps

(* Seeded fault: the read index is left behind by an overwrite. *)
Bug_AddKeepsReadIndex(add_entry) ==
  /\ full' = (full \/ Overwrites)
  /\ entry' = [entry EXCEPT ![in_offs] = add_entry]
  /\ in_offs' = Advance(in_offs)
  /\ UNCHANGED out_offs

aesd_circular_buffer_add_entry(add_entry) ==
  /\ full' = (full \/ Overwrites)
  /\ out_offs' = IF Overwrites THEN Advance(out_offs) ELSE out_offs
  /\ entry' = [entry EXCEPT ![in_offs] = add_entry]
  /\ in_offs' = Advance(in_offs)

(* The slot visited in the i-th turn of the search loop. *)
LogicalSlot(i) == (i + out_offs) % MaxWriteOps

(* cumulative_offset at the start of the i-th turn. *)
CumulativeOffset(i) ==
  LET sum[j \in 0 .. i] == IF j = 0 THEN 0 ELSE sum[j - 1] + entry[LogicalSlot(j - 1)].size
  IN  sum[i]

(* Seeded fault: a byte on a boundary is looked for in the older entry. *)
Bug_FindOffByOne(char_offset) ==
  LET hits == {i \in Slots : CumulativeOffset(i + 1) >= char_offset}
  IN  IF hits = {}
      THEN NULL
      ELSE [slot   |-> LogicalSlot(Min(hits)),
            offset |-> char_offset - CumulativeOffset(Min(hits))]

(* The entry holding byte char_offset and the byte's place in it, NULL     *)
(* when less is written.  The loop returns from the first turn that hits.  *)
aesd_circular_buffer_find_entry_offset_for_fpos(char_offset) ==
  LET hits == {i \in Slots : CumulativeOffset(i + 1) > char_offset}
  IN  IF hits = {}
      THEN NULL
      ELSE [slot   |-> LogicalSlot(Min(hits)),
            offset |-> char_offset - CumulativeOffset(Min(hits))]

-----------------------------------------------------------------------------
(* The component as a state machine. *)

Init == aesd_circular_buffer_init

Next == \E e \in Entries : aesd_circular_buffer_add_entry(e)

Spec == Init /\ [][Next]_bufferVars

-----------------------------------------------------------------------------
(* Properties. *)

Occupied(i) == entry[i].size > 0

(* Type invariant.  Every index stays inside the array of MaxWriteOps      *)
(* entries and every slot holds a caller's entry or zeroes.                *)
TypeOK ==
  /\ entry \in [Slots -> Entries \cup {NoEntry}]
  /\ in_offs \in Slots
  /\ out_offs \in Slots
  /\ full \in BOOLEAN

(* The two shapes the array can have.  Filling: nothing was overwritten,   *)
(* reading starts at 0 and exactly the slots below in_offs are used.       *)
(* Saturated: the next slot to write is in use, then all are, and it is    *)
(* the oldest, so both indices agree.  The flag is only raised by an       *)
(* overwrite, so it implies the second shape.  add_entry keeps in_offs and *)
(* out_offs in step only because its test reads the size of the slot.      *)
RingShape ==
  /\ Occupied(in_offs) =>
       /\ out_offs = in_offs
       /\ \A i \in Slots : Occupied(i)
  /\ ~Occupied(in_offs) =>
       /\ out_offs = 0
       /\ \A i \in Slots : Occupied(i) <=> i < in_offs
  /\ full => Occupied(in_offs)

(* How many commands the ring holds, and those commands oldest first. *)
Count == IF Occupied(in_offs) THEN MaxWriteOps ELSE in_offs
Kept  == [i \in 1 .. Count |-> entry[LogicalSlot(i - 1)]]

Log == INSTANCE CommandLog WITH Commands <- Entries, kept <- Kept

(* The ring implements the command log: read from out_offs on it holds the *)
(* most recent MaxWriteOps entries in the order add_entry received them,   *)
(* through any number of wrap-arounds.                                     *)
KeepsMostRecent == Log!Spec

(* Every position of the contents laid end to end, oldest first, paired    *)
(* with the slot and the byte it comes from.                               *)
Layout ==
  FlattenSeq([i \in 1 .. Count |->
               [b \in 1 .. Kept[i].size |->
                 [slot |-> LogicalSlot(i - 1), offset |-> b - 1]]])

(* The search finds each byte of the concatenated contents where it is,    *)
(* and finds nothing past the end, empty buffer included: what the comment *)
(* at aesd-circular-buffer.c:22-28 promises of char_offset.                *)
FindsEveryByte ==
  LET layout == Layout
  IN  \A pos \in 0 .. Len(layout) + 1 :
        aesd_circular_buffer_find_entry_offset_for_fpos(pos)
          = IF pos < Len(layout) THEN layout[pos + 1] ELSE NULL
=============================================================================
