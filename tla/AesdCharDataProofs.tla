------------------------- MODULE AesdCharDataProofs -------------------------
(* Theorems about what the driver keeps and hands out: every kmalloc'd     *)
(* block is accounted for, to its writers the device is a line log, what   *)
(* its readers get are slices of it, and where llseek and the ioctl put    *)
(* the position lies inside it.                                            *)
EXTENDS AesdCharProofs

(* The blocks of the line being gathered. *)
LineBlocks == IF Line = NULL THEN 0 ELSE Blocks(Line)

(* Writers between kmalloc and the join are finitely many, even if the     *)
(* processes are not: each got there by a step of its own.                 *)
BlocksInv == IsFiniteSet(InFlight) /\ BlocksAccountedFor

(* A slot is occupied exactly when a command's size says so. *)
LEMMA OccupiedSlotsFacts ==
  ASSUME Ring!TypeOK
  PROVE  /\ OccupiedSlots = {i \in Ring!Slots : Ring!Occupied(i)}
         /\ IsFiniteSet(OccupiedSlots)
         /\ Cardinality(OccupiedSlots) \in Nat
  <1>1. ASSUME NEW i \in Ring!Slots
        PROVE  entry[i].buffptr # NULL <=> Ring!Occupied(i)
    <2>1. CASE entry[i] \in Commands
      BY <2>1, ArgumentsAssumption DEF Commands, Ring!Occupied
    <2>2. CASE entry[i] = Ring!NoEntry
      BY <2>2 DEF Ring!NoEntry, Ring!Occupied
    <2>3. QED
      BY <2>1, <2>2 DEF Ring!TypeOK
  <1>2. OccupiedSlots \subseteq 0 .. MaxWriteOps - 1
    BY DEF OccupiedSlots, Ring!Slots
  <1>3. IsFiniteSet(0 .. MaxWriteOps - 1)
    BY FS_Interval, CapacityAssumption
  <1>4. IsFiniteSet(OccupiedSlots)
    BY <1>2, <1>3, FS_Subset
  <1>5. Cardinality(OccupiedSlots) \in Nat
    BY <1>4, FS_CardinalityType
  <1>6. QED
    BY <1>1, <1>4, <1>5 DEF OccupiedSlots

(* An add that replaces nothing occupies one slot more; one that replaces  *)
(* a command occupies as many, and counts the command as evicted.          *)
LEMMA AddCountsSlots ==
  ASSUME Ring!TypeOK, Ring!RingShape, NEW e \in Commands,
         Ring!aesd_circular_buffer_add_entry(e)
  PROVE  Cardinality(OccupiedSlots') + (IF Ring!Overwrites THEN 1 ELSE 0)
           = Cardinality(OccupiedSlots) + 1
  <1>1. in_offs \in Ring!Slots /\ entry' = [entry EXCEPT ![in_offs] = e]
    BY DEF Ring!TypeOK, Ring!aesd_circular_buffer_add_entry
  <1>2. e.buffptr # NULL
    BY ArgumentsAssumption DEF Commands
  <1>3. OccupiedSlots' = OccupiedSlots \cup {in_offs}
    BY <1>1, <1>2 DEF OccupiedSlots, Ring!TypeOK, Ring!Slots
  <1>4. in_offs \in OccupiedSlots <=> Ring!Occupied(in_offs)
    BY <1>1, OccupiedSlotsFacts
  <1>5. Ring!Overwrites <=> Ring!Occupied(in_offs)
    BY DEF Ring!Overwrites, Ring!Occupied, Ring!RingShape
  <1>6. IsFiniteSet(OccupiedSlots) /\ Cardinality(OccupiedSlots) \in Nat
    BY OccupiedSlotsFacts
  <1>7. CASE in_offs \in OccupiedSlots
    <2>1. OccupiedSlots' = OccupiedSlots
      BY <1>3, <1>7
    <2>2. QED
      BY <1>4, <1>5, <1>6, <1>7, <2>1
  <1>8. CASE in_offs \notin OccupiedSlots
    <2>1. Cardinality(OccupiedSlots \cup {in_offs}) = Cardinality(OccupiedSlots) + 1
      BY <1>6, <1>8, FS_AddElement
    <2>2. QED
      BY <1>3, <1>4, <1>5, <1>6, <1>8, <2>1
  <1>9. QED
    BY <1>7, <1>8

(* Where a write holds the block of its own that kmalloc gave it. *)
Flying == {"fill", "append"}

(* A step of p that neither comes to nor leaves these moves no block in    *)
(* flight.                                                                 *)
LEMMA FlightFrame ==
  ASSUME PlaceTypeOK, NEW p \in Procs, StepOf(p),
         pc[p] \notin Flying, pc'[p] \notin Flying
  PROVE  InFlight' = InFlight
  <1>1. ASSUME NEW q \in Procs, q # p
        PROVE  pc'[q] = pc[q] /\ call'[q] = call[q]
    BY <1>1 DEF StepOf, PlaceTypeOK
  <1>2. QED
    BY <1>1 DEF InFlight, Flying

(* A write that kmalloc served has its block in flight. *)
LEMMA FlightStarts ==
  ASSUME PlaceTypeOK, NEW p \in Procs, pc[p] \notin Flying, UNCHANGED call,
         pc' = [pc EXCEPT ![p] = "fill"], IsFiniteSet(InFlight)
  PROVE  /\ IsFiniteSet(InFlight)'
         /\ Cardinality(InFlight') = Cardinality(InFlight) + Blocks(call[p].buf)
  <1>1. Cardinality(InFlight) \in Nat
    BY FS_CardinalityType
  <1>2. p \notin InFlight
    BY DEF InFlight, Flying
  <1>3. CASE call[p].buf = << >>
    <2>1. InFlight' = InFlight
      BY <1>3 DEF InFlight, PlaceTypeOK, Flying
    <2>2. QED
      BY <1>1, <1>3, <2>1 DEF Blocks
  <1>4. CASE call[p].buf # << >>
    <2>1. InFlight' = InFlight \cup {p}
      BY <1>4 DEF InFlight, PlaceTypeOK, Flying
    <2>2. /\ IsFiniteSet(InFlight \cup {p})
          /\ Cardinality(InFlight \cup {p}) = Cardinality(InFlight) + 1
      BY <1>2, FS_AddElement
    <2>3. QED
      BY <1>4, <2>1, <2>2 DEF Blocks
  <1>5. QED
    BY <1>3, <1>4

(* A write that leaves these places has it no more. *)
LEMMA FlightEnds ==
  ASSUME PlaceTypeOK, NEW p \in Procs, pc[p] \in Flying, UNCHANGED call,
         NEW label, label \notin Flying,
         pc' = [pc EXCEPT ![p] = label], IsFiniteSet(InFlight)
  PROVE  /\ IsFiniteSet(InFlight)'
         /\ Cardinality(InFlight) \in Nat
         /\ Cardinality(InFlight') = Cardinality(InFlight) - Blocks(call[p].buf)
  <1>1. Cardinality(InFlight) \in Nat
    BY FS_CardinalityType
  <1>2. CASE call[p].buf = << >>
    <2>1. InFlight' = InFlight
      BY <1>2 DEF InFlight, PlaceTypeOK, Flying
    <2>2. QED
      BY <1>1, <1>2, <2>1 DEF Blocks
  <1>3. CASE call[p].buf # << >>
    <2>1. InFlight' = InFlight \ {p} /\ p \in InFlight
      BY <1>3 DEF InFlight, PlaceTypeOK, Flying
    <2>2. /\ IsFiniteSet(InFlight \ {p})
          /\ Cardinality(InFlight \ {p}) = Cardinality(InFlight) - 1
      BY <2>1, FS_RemoveElement
    <2>3. QED
      BY <1>1, <1>3, <2>1, <2>2 DEF Blocks
  <1>4. QED
    BY <1>2, <1>3

(* The terms of the account are numbers. *)
LEMMA AccountIsNumeric ==
  ASSUME DataInv, BlocksInv
  PROVE  /\ Cardinality(OccupiedSlots) \in Nat
         /\ Cardinality(InFlight) \in Nat
         /\ LineBlocks \in Nat
         /\ evicted \in Nat
         /\ live = Cardinality(OccupiedSlots) + Cardinality(InFlight) + LineBlocks + evicted
  <1>1. Cardinality(OccupiedSlots) \in Nat
    BY OccupiedSlotsFacts DEF DataInv, DeviceTypeOK
  <1>2. Cardinality(InFlight) \in Nat
    BY FS_CardinalityType DEF BlocksInv
  <1>3. LineBlocks \in Nat /\ evicted \in Nat
    BY DEF LineBlocks, Blocks, DataInv, DeviceTypeOK
  <1>4. live = Cardinality(OccupiedSlots) + Cardinality(InFlight) + LineBlocks + evicted
    BY DEF BlocksInv, BlocksAccountedFor, Reachable, LineBlocks
  <1>5. QED
    BY <1>1, <1>2, <1>3, <1>4

(* A step is right when what it takes from or gives to the heap is what    *)
(* the writers in flight, the line and the ring gain or lose.              *)
LEMMA AccountBalances ==
  ASSUME DataInv, BlocksInv, IsFiniteSet(InFlight'),
         NEW flight \in Int, NEW line \in Int, NEW slots \in Int, NEW lost \in Int,
         Cardinality(InFlight') = Cardinality(InFlight) + flight,
         LineBlocks' = LineBlocks + line,
         Cardinality(OccupiedSlots') = Cardinality(OccupiedSlots) + slots,
         evicted' = evicted + lost,
         live' = live + (flight + line + slots + lost)
  PROVE  BlocksInv'
  <1>1. live' = Cardinality(OccupiedSlots') + Cardinality(InFlight') + LineBlocks' + evicted'
    BY AccountIsNumeric
  <1>2. BlocksAccountedFor'
    BY <1>1 DEF BlocksAccountedFor, Reachable, LineBlocks
  <1>3. QED
    BY <1>2 DEF BlocksInv

LEMMA SlotsFrame ==
  ASSUME DataInv, UNCHANGED ring
  PROVE  Cardinality(OccupiedSlots') = Cardinality(OccupiedSlots) + 0
  <1>1. OccupiedSlots' = OccupiedSlots
    BY DEF OccupiedSlots, Ring!Slots, ring
  <1>2. QED
    BY <1>1, OccupiedSlotsFacts DEF DataInv, DeviceTypeOK

(* The same for a step that leaves the ring alone. *)
LEMMA LineBalances ==
  ASSUME DataInv, BlocksInv, UNCHANGED << ring, evicted >>, IsFiniteSet(InFlight'),
         live' \in Int, LineBlocks' \in Int, Cardinality(InFlight') \in Int,
         live' - Cardinality(InFlight') - LineBlocks' = live - Cardinality(InFlight) - LineBlocks
  PROVE  BlocksInv'
  <1>1. Cardinality(OccupiedSlots') = Cardinality(OccupiedSlots)
    BY SlotsFrame, AccountIsNumeric
  <1>2. live' = Cardinality(OccupiedSlots') + Cardinality(InFlight') + LineBlocks' + evicted'
    BY <1>1, AccountIsNumeric
  <1>3. BlocksAccountedFor'
    BY <1>2 DEF BlocksAccountedFor, Reachable, LineBlocks
  <1>4. QED
    BY <1>3 DEF BlocksInv

(* A step outside these places that leaves the device alone. *)
LEMMA AccountFrame ==
  ASSUME PlaceInv, DataInv, BlocksInv, NEW p \in Procs, StepOf(p),
         pc[p] \notin Flying, pc'[p] \notin Flying,
         UNCHANGED << ring, dev_entry, live, evicted >>
  PROVE  BlocksInv'
  <1>1. InFlight' = InFlight
    BY FlightFrame DEF PlaceInv
  <1>2. Cardinality(InFlight') = Cardinality(InFlight) + 0 /\ IsFiniteSet(InFlight')
    BY <1>1, AccountIsNumeric DEF BlocksInv
  <1>3. LineBlocks' = LineBlocks + 0
    BY AccountIsNumeric DEF LineBlocks, Line
  <1>4. evicted' = evicted + 0 /\ live' = live + (0 + 0 + 0 + 0)
    BY AccountIsNumeric
  <1>5. QED
    BY <1>2, <1>3, <1>4, SlotsFrame, AccountBalances

(* A write that fails gives its own block back. *)
LEMMA BlockGoesBack ==
  ASSUME PlaceInv, DataInv, BlocksInv, NEW p \in Procs, pc[p] \in Flying,
         pc' = [pc EXCEPT ![p] = "unlock"],
         UNCHANGED << ring, dev_entry, call, evicted >>,
         live' = live - Blocks(call[p].buf)
  PROVE  BlocksInv'
  <1>1. /\ IsFiniteSet(InFlight')
        /\ Cardinality(InFlight) \in Nat
        /\ Cardinality(InFlight') = Cardinality(InFlight) - Blocks(call[p].buf)
    BY FlightEnds DEF PlaceInv, BlocksInv, Flying
  <1>2. /\ Blocks(call[p].buf) \in Nat /\ live \in Int
        /\ LineBlocks' = LineBlocks /\ LineBlocks \in Nat
    BY AccountIsNumeric DEF Blocks, LineBlocks, Line, DataInv, DeviceTypeOK
  <1>3. /\ live' - Cardinality(InFlight') - LineBlocks' = live - Cardinality(InFlight) - LineBlocks
        /\ live' \in Int /\ Cardinality(InFlight') \in Int
    BY <1>1, <1>2
  <1>4. QED
    BY <1>1, <1>2, <1>3, LineBalances

LEMMA AllocKeepsBlocksInv ==
  ASSUME PlaceInv, DataInv, BlocksInv, NEW p \in Procs, WriteAlloc(p)
  PROVE  BlocksInv'
  <1>1. /\ pc[p] = "alloc"
        /\ UNCHANGED << ring, dev_entry, call, local, evicted >>
    BY DEF WriteAlloc, Fail, heap
  <1>2. CASE UNCHANGED heap /\ pc' = [pc EXCEPT ![p] = "unlock"]
    <2>1. pc'[p] = "unlock" /\ StepOf(p)
      BY <1>1, <1>2 DEF PlaceInv, PlaceTypeOK, StepOf, Labels, InKernel
    <2>2. QED
      BY <1>1, <1>2, <2>1, AccountFrame DEF heap, Flying
  <1>3. CASE live' = live + Blocks(call[p].buf) /\ pc' = [pc EXCEPT ![p] = "fill"]
    <2>1. Blocks(call[p].buf) \in Nat
      BY DEF Blocks
    <2>2. /\ IsFiniteSet(InFlight')
          /\ Cardinality(InFlight') = Cardinality(InFlight) + Blocks(call[p].buf)
      BY <1>1, <1>3, FlightStarts DEF PlaceInv, BlocksInv, Flying
    <2>3. LineBlocks' = LineBlocks /\ LineBlocks \in Nat /\ live \in Int
      BY <1>1, AccountIsNumeric DEF LineBlocks, Line, DataInv, DeviceTypeOK
    <2>4. /\ live' - Cardinality(InFlight') - LineBlocks' = live - Cardinality(InFlight) - LineBlocks
          /\ live' \in Int /\ Cardinality(InFlight') \in Int
      BY <1>3, <2>1, <2>2, <2>3, AccountIsNumeric
    <2>5. QED
      BY <1>1, <2>2, <2>3, <2>4, LineBalances
  <1>4. QED
    BY <1>2, <1>3 DEF WriteAlloc, Fail, Goto

(* The new block goes back when copy_from_user fails, and stays with the   *)
(* write when it does not.                                                 *)
LEMMA FillKeepsBlocksInv ==
  ASSUME PlaceInv, DataInv, BlocksInv, NEW p \in Procs, WriteFill(p)
  PROVE  BlocksInv'
  <1>1. /\ pc[p] = "fill"
        /\ UNCHANGED << ring, dev_entry, call, evicted >>
    BY DEF WriteFill, CopyFails, FreeThenFail, Fail, heap
  <1>2. CASE /\ live' = live - Blocks(call[p].buf)
             /\ pc' = [pc EXCEPT ![p] = "unlock"]
    BY <1>1, <1>2, BlockGoesBack DEF Flying
  <1>3. CASE UNCHANGED live /\ pc' = [pc EXCEPT ![p] = "append"]
    <2>1. InFlight' = InFlight
      BY <1>1, <1>3 DEF InFlight, PlaceInv, PlaceTypeOK
    <2>2. LineBlocks' = LineBlocks
      BY <1>1 DEF LineBlocks, Line
    <2>3. IsFiniteSet(InFlight')
      BY <2>1 DEF BlocksInv
    <2>4. /\ live' - Cardinality(InFlight') - LineBlocks' = live - Cardinality(InFlight) - LineBlocks
          /\ live' \in Int /\ LineBlocks' \in Int /\ Cardinality(InFlight') \in Int
      BY <1>3, <2>1, <2>2, AccountIsNumeric DEF DataInv, DeviceTypeOK
    <2>5. QED
      BY <1>1, <2>3, <2>4, LineBalances
  <1>4. QED
    BY <1>2, <1>3 DEF WriteFill, CopyFails, FreeThenFail, Fail, Goto, heap

(* The join: the new block becomes the line's, or its bytes move to the    *)
(* line's block and it is freed, also when krealloc fails.                 *)
LEMMA AppendKeepsBlocksInv ==
  ASSUME PlaceInv, DataInv, BlocksInv, NEW p \in Procs, WriteAppend(p)
  PROVE  BlocksInv'
  <1> DEFINE buf == call[p].buf
  <1>1. pc[p] = "append" /\ UNCHANGED << ring, call, evicted >>
    BY DEF WriteAppend, Gather, ReallocFails, FreeThenFail, Fail
  <1>2. PICK label \in {"commit", "unlock"} : pc' = [pc EXCEPT ![p] = label]
    BY DEF WriteAppend, Gather, ReallocFails, FreeThenFail, Fail, Goto
  <1>3. Blocks(buf) \in Nat /\ (Line # NULL => Blocks(Line) \in Nat)
    BY DEF Blocks
  <1>4. /\ IsFiniteSet(InFlight')
        /\ Cardinality(InFlight) \in Nat
        /\ Cardinality(InFlight') = Cardinality(InFlight) - Blocks(buf)
    BY <1>1, <1>2, FlightEnds DEF PlaceInv, BlocksInv, Flying
  <1>6. buf \in Payloads
    <2>1. call[p] \in Calls /\ call[p].op = "write"
      BY <1>1 DEF PlaceInv, CallMatchesPlace, Fits, InKernel
    <2>2. QED
      BY <2>1, CallArguments
  <1>7. ASSUME NEW bytes \in Seq(Bytes \cup {JUNK}), Gather(p, bytes),
               live' = live - Blocks(buf) - LineBlocks + Blocks(bytes)
        PROVE  BlocksInv'
    <2>1. Line' = bytes /\ bytes # NULL
      BY <1>7, ArgumentsAssumption DEF Gather, Line
    <2>2. Blocks(bytes) \in Nat /\ LineBlocks' = Blocks(bytes)
      BY <2>1 DEF LineBlocks, Blocks
    <2>3. live \in Int /\ LineBlocks \in Nat
      BY AccountIsNumeric DEF DataInv, DeviceTypeOK
    <2>4. live' - Cardinality(InFlight') - LineBlocks' = live - Cardinality(InFlight) - LineBlocks
      BY <1>3, <1>4, <1>7, <2>2, <2>3
    <2>5. live' \in Int /\ Cardinality(InFlight') \in Int
      BY <1>3, <1>4, <1>7, <2>2, <2>3
    <2>6. QED
      BY <1>1, <1>4, <2>2, <2>4, <2>5, LineBalances
  <1>8. CASE dev_entry.buffptr = NULL /\ Gather(p, buf) /\ UNCHANGED live
    <2>1. buf \in Seq(Bytes \cup {JUNK})
      BY <1>6, ArgumentsAssumption
    <2>2. live' = live - Blocks(buf) - LineBlocks + Blocks(buf)
      BY <1>3, <1>8, AccountIsNumeric DEF LineBlocks, Line
    <2>3. QED
      BY <1>7, <1>8, <2>1, <2>2
  <1>9. CASE /\ dev_entry.buffptr # NULL
             /\ \E old \in Old :
                  /\ Gather(p, old \o buf)
                  /\ live' = live - Blocks(buf) - Blocks(dev_entry.buffptr)
                               + Blocks(old \o buf)
    <2>1. PICK old \in Old :
            /\ Gather(p, old \o buf)
            /\ live' = live - Blocks(buf) - Blocks(dev_entry.buffptr)
                         + Blocks(old \o buf)
      BY <1>9
    <2>2. /\ dev_entry.buffptr \in Seq(Bytes \cup {JUNK})
          /\ dev_entry.size \in Nat
      BY <1>9, LineIsCounted DEF DataInv
    <2>3. old \in Seq(Bytes \cup {JUNK})
      BY <2>2 DEF Old
    <2>4. old \o buf \in Seq(Bytes \cup {JUNK})
      BY <1>6, <2>3, ArgumentsAssumption
    <2>5. LineBlocks = Blocks(dev_entry.buffptr)
      BY <1>9 DEF LineBlocks, Line
    <2>6. QED
      BY <1>7, <2>1, <2>4, <2>5
  <1>10. CASE ReallocFails(p)
    <2>1. /\ UNCHANGED dev_entry /\ live' = live - Blocks(buf)
          /\ pc' = [pc EXCEPT ![p] = "unlock"]
      BY <1>10 DEF ReallocFails, FreeThenFail, Fail, Goto
    <2>2. QED
      BY <1>1, <2>1, BlockGoesBack DEF Flying
  <1>11. QED
    BY <1>8, <1>9, <1>10 DEF WriteAppend

(* A finished line's block becomes a slot's; the block of the command it   *)
(* replaces is the one that is lost.                                       *)
LEMMA CommitKeepsBlocksInv ==
  ASSUME PlaceInv, DataInv, DeviceRingShape, BlocksInv, NEW p \in Procs, WriteCommit(p)
  PROVE  BlocksInv'
  <1>1. pc[p] = "commit" /\ UNCHANGED << call, local, live >>
    BY DEF WriteCommit
  <1>2. PICK label \in {"oops", "unlock"} : pc' = [pc EXCEPT ![p] = label]
    BY DEF WriteCommit, Goto
  <1>3. StepOf(p) /\ pc[p] \notin Flying /\ pc'[p] \notin Flying
    BY <1>1, <1>2 DEF StepOf, Labels, InKernel, PlaceInv, PlaceTypeOK, Flying
  <1>4. CASE UNCHANGED << ring, dev_entry, evicted >>
    BY <1>1, <1>3, <1>4, AccountFrame
  <1>5. CASE dev_entry.size > 0 /\ EndLine
    <2>1. /\ Ring!aesd_circular_buffer_add_entry(dev_entry)
          /\ evicted' = evicted + IF Ring!Overwrites THEN 1 ELSE 0
          /\ dev_entry' = Ring!NoEntry
      BY <1>5 DEF EndLine, AddThenLeave
    <2>2. dev_entry \in Commands
      BY <1>5, LineIsCounted DEF DataInv
    <2>3. LineBlocks = 1
      <3>1. Line \in Seq(Bytes \cup {JUNK}) /\ Len(Line) \in Nat \ {0}
        BY <2>2 DEF Commands, Line
      <3>2. Line # NULL /\ Line # << >>
        BY <3>1, ArgumentsAssumption
      <3>3. QED
        BY <3>2 DEF LineBlocks, Blocks
    <2>4. LineBlocks' = LineBlocks + (0 - 1)
      BY <2>1, <2>3 DEF LineBlocks, Line, Ring!NoEntry
    <2>5. InFlight' = InFlight
      BY <1>1, <1>3, FlightFrame DEF PlaceInv
    <2>6. IsFiniteSet(InFlight') /\ Cardinality(InFlight') = Cardinality(InFlight) + 0
      BY <2>5, AccountIsNumeric DEF BlocksInv
    <2>7. Cardinality(OccupiedSlots') + (IF Ring!Overwrites THEN 1 ELSE 0)
            = Cardinality(OccupiedSlots) + 1
      BY <2>1, <2>2, AddCountsSlots DEF DataInv, DeviceTypeOK, DeviceRingShape
    <2>8. Cardinality(OccupiedSlots') \in Nat
      <3>1. OccupiedSlots' \subseteq 0 .. MaxWriteOps - 1
        BY DEF OccupiedSlots, Ring!Slots
      <3>2. IsFiniteSet(0 .. MaxWriteOps - 1)
        BY FS_Interval, CapacityAssumption
      <3>3. IsFiniteSet(OccupiedSlots')
        BY <3>1, <3>2, FS_Subset
      <3>4. QED
        BY <3>3, FS_CardinalityType
    <2>9. CASE Ring!Overwrites
      <3>1. Cardinality(OccupiedSlots') = Cardinality(OccupiedSlots) + 0
        BY <2>7, <2>8, <2>9, AccountIsNumeric
      <3>2. evicted' = evicted + 1 /\ live' = live + (0 + (0 - 1) + 0 + 1)
        BY <1>1, <2>1, <2>9, AccountIsNumeric
      <3>3. QED
        BY <2>4, <2>6, <3>1, <3>2, AccountBalances
    <2>10. CASE ~Ring!Overwrites
      <3>1. Cardinality(OccupiedSlots') = Cardinality(OccupiedSlots) + 1
        BY <2>7, <2>8, <2>10, AccountIsNumeric
      <3>2. evicted' = evicted + 0 /\ live' = live + (0 + (0 - 1) + 1 + 0)
        BY <1>1, <2>1, <2>10, AccountIsNumeric
      <3>3. QED
        BY <2>4, <2>6, <3>1, <3>2, AccountBalances
    <2>11. QED
      BY <2>9, <2>10
  <1>6. QED
    BY <1>4, <1>5 DEF WriteCommit

(* The steps that are not those of write. *)
Other(p) == \/ User(p) \/ mutex_lock_interruptible(p) \/ Interrupted(p)
            \/ /\ \/ mutex_unlock(p) \/ ReadFind(p) \/ ReadCopy(p)
                  \/ get_buffer_size(p) \/ SeekPlace(p) \/ IoctlSum(p) \/ IoctlPlace(p)
               /\ UNCHANGED broken

(* They leave the device alone. *)
LEMMA OtherStepsFrame ==
  ASSUME PlaceInv, NEW p \in Procs, Other(p)
  PROVE  /\ UNCHANGED << ring, dev_entry, live, evicted >>
         /\ StepOf(p)
         /\ pc[p] \notin {"alloc", "fill", "append", "commit"}
         /\ pc'[p] \notin Flying
  <1> USE DEF Labels, InKernel, Other
  <1>1. UNCHANGED << ring, dev_entry, live, evicted >>
    BY DEF User, aesd_open, aesd_release, aesd_read, aesd_write, aesd_llseek,
           aesd_ioctl, Enter, mutex_lock_interruptible, Interrupted, mutex_unlock,
           ReadFind, ReadCopy, get_buffer_size, SeekPlace, IoctlSum, IoctlPlace, heap
  <1>2. pc[p] \notin {"alloc", "fill", "append", "commit"}
    BY DEF User, aesd_open, aesd_release, aesd_read, aesd_write, aesd_llseek,
           aesd_ioctl, Enter, mutex_lock_interruptible, Interrupted, mutex_unlock,
           ReadFind, ReadCopy, get_buffer_size, SeekPlace, IoctlSum, IoctlPlace
  <1>3. PICK label \in Labels \ Flying : pc' = [pc EXCEPT ![p] = label]
    <2>1. CASE mutex_lock_interruptible(p)
      <3>1. call[p].op \in {"read", "write", "llseek"}
        BY <2>1 DEF PlaceInv, CallMatchesPlace, Fits, mutex_lock_interruptible
      <3>2. Locked(p) \in {"find", "alloc", "size"}
        BY <3>1 DEF Locked
      <3>3. QED
        BY <2>1, <3>2 DEF mutex_lock_interruptible, Goto, Flying
    <2>2. CASE IoctlSum(p)
      <3>1. pc[p] = "sum" /\ UNCHANGED pc
        BY <2>2 DEF IoctlSum
      <3>2. pc' = [pc EXCEPT ![p] = "sum"]
        BY <3>1 DEF PlaceInv, PlaceTypeOK
      <3>3. QED
        BY <3>2 DEF Flying
    <2>3. CASE ~mutex_lock_interruptible(p) /\ ~IoctlSum(p)
      BY <2>3
      DEF User, aesd_open, aesd_release, aesd_read, aesd_write, aesd_llseek,
          aesd_ioctl, Enter, Interrupted, ReadGivesUp, mutex_unlock, ReadFind, ReadCopy,
          get_buffer_size, SeekPlace, IoctlPlace, Return, Goto, Flying
    <2>4. QED
      BY <2>1, <2>2, <2>3
  <1>4. StepOf(p)
    BY <1>3
    DEF StepOf, User, aesd_open, aesd_release, aesd_read, aesd_write, aesd_llseek,
        aesd_ioctl, Enter, mutex_lock_interruptible, Interrupted, ReadGivesUp,
        mutex_unlock, ReadFind, ReadCopy, get_buffer_size, SeekPlace, IoctlSum, IoctlPlace,
        Return, Keep
  <1>5. pc'[p] \notin Flying
    BY <1>3 DEF PlaceInv, PlaceTypeOK
  <1>6. QED
    BY <1>1, <1>2, <1>4, <1>5

(* No path of write, failing ones included, loses a block or frees one     *)
(* twice, for any number of processes and in every interleaving, also when *)
(* krealloc moves the line: the blocks in use are those of the ring, of    *)
(* the line, of the writes under way and of the commands that add_entry    *)
(* has replaced.  With signals, until a broken mutex has let two calls     *)
(* meet (Raced).                                                           *)
THEOREM HeapIsAccountedFor == Spec => []BlocksAccountedFor
  <1>1. Init => BlocksInv
    <2> SUFFICES ASSUME Init PROVE BlocksInv
      OBVIOUS
    <2>1. InFlight = {} /\ OccupiedSlots = {}
      BY DEF Init, InFlight, OccupiedSlots, Ring!aesd_circular_buffer_init, Ring!NoEntry
    <2>2. IsFiniteSet({}) /\ Cardinality({}) = 0
      BY FS_EmptySet
    <2>3. Line = NULL /\ live = 0 /\ evicted = 0
      BY DEF Init, Line, Ring!NoEntry
    <2>4. QED
      BY <2>1, <2>2, <2>3 DEF BlocksInv, BlocksAccountedFor, Reachable
  <1>2. PlaceInv /\ DataInv /\ DeviceRingShape /\ BlocksInv /\ [Next]_vars => BlocksInv'
    <2> SUFFICES ASSUME PlaceInv, DataInv, DeviceRingShape, BlocksInv, [Next]_vars
                 PROVE  BlocksInv'
      OBVIOUS
    <2>1. ASSUME NEW p \in Procs,
                 User(p) \/ mutex_lock_interruptible(p) \/ Interrupted(p) \/ Kernel(p)
          PROVE  BlocksInv'
      <3>1. CASE Other(p)
        BY <3>1, OtherStepsFrame, AccountFrame DEF Flying
      <3>2. QED
        BY <2>1, <3>1, AllocKeepsBlocksInv, FillKeepsBlocksInv, AppendKeepsBlocksInv,
           CommitKeepsBlocksInv
        DEF Kernel, Other
    <2>2. CASE UNCHANGED vars
      BY <2>2
      DEF vars, ring, heap, BlocksInv, BlocksAccountedFor, Reachable, InFlight,
          OccupiedSlots, Line, Ring!Slots
    <2>3. QED
      BY <2>1, <2>2 DEF Next
  <1>3. BlocksInv => BlocksAccountedFor
    BY DEF BlocksInv
  <1>4. QED
    BY <1>1, <1>2, <1>3, PlacesInvariant, DataInvariant, PTL DEF Spec

-----------------------------------------------------------------------------
(* The line log. *)

(* What an add does to the commands kept, in the driver's ring. *)
LEMMA RingRemembers ==
  ASSUME Ring!TypeOK, Ring!RingShape, NEW e \in Commands,
         Ring!aesd_circular_buffer_add_entry(e)
  PROVE  /\ Ring!Kept \in Seq(Commands)
         /\ Len(Ring!Kept) = Ring!Count
         /\ \/ /\ Ring!Count < MaxWriteOps /\ Ring!Count' = Ring!Count + 1
               /\ Ring!Kept' = Append(Ring!Kept, e)
            \/ /\ Ring!Count = MaxWriteOps /\ Ring!Count' = MaxWriteOps
               /\ Ring!Kept' = Append(Tail(Ring!Kept), e)
  <1>1. RingFacts!TypeOK /\ RingFacts!RingShape
    BY DEF Ring!TypeOK, Ring!Slots, Ring!NoEntry, Ring!RingShape, Ring!Occupied,
           RingFacts!TypeOK, RingFacts!Slots, RingFacts!NoEntry,
           RingFacts!RingShape, RingFacts!Occupied
  <1>2. RingFacts!aesd_circular_buffer_add_entry(e)
    BY DEF Ring!aesd_circular_buffer_add_entry, Ring!Overwrites, Ring!Advance,
           RingFacts!aesd_circular_buffer_add_entry, RingFacts!Overwrites,
           RingFacts!Advance
  <1>3. RingFacts!Kept = Ring!Kept /\ RingFacts!Count = Ring!Count
    BY DEF RingFacts!Kept, RingFacts!Count, RingFacts!Occupied, RingFacts!LogicalSlot,
           Ring!Kept, Ring!Count, Ring!Occupied, Ring!LogicalSlot
  <1>4. RingFacts!Kept' = Ring!Kept' /\ RingFacts!Count' = Ring!Count'
    BY DEF RingFacts!Kept, RingFacts!Count, RingFacts!Occupied, RingFacts!LogicalSlot,
           Ring!Kept, Ring!Count, Ring!Occupied, Ring!LogicalSlot
  <1>5. Ring!Kept \in Seq(Commands) /\ Len(Ring!Kept) = Ring!Count
    BY <1>1, <1>3, RingAssumptions, RingFacts!KeptIsASequence
  <1>6. CASE RingFacts!Occupied(in_offs)
    BY <1>1, <1>2, <1>3, <1>4, <1>5, <1>6, RingAssumptions, RingFacts!AddToSaturated
  <1>7. CASE ~RingFacts!Occupied(in_offs)
    BY <1>1, <1>2, <1>3, <1>4, <1>5, <1>7, RingAssumptions, RingFacts!AddToFilling
  <1>8. QED
    BY <1>6, <1>7

(* The lines of the commands kept follow the same rule. *)
LEMMA LinesAreRemembered ==
  ASSUME Ring!TypeOK, Ring!RingShape, NEW e \in Commands,
         Ring!aesd_circular_buffer_add_entry(e)
  PROVE  KeptLines' = Ring!Log!Remember(KeptLines, e.buffptr)
  <1> DEFINE S == Seq(Bytes \cup {JUNK})
             n == Ring!Count
  <1>1. /\ Ring!Kept \in Seq(Commands) /\ Len(Ring!Kept) = n
        /\ n \in Nat /\ MaxWriteOps \in Nat \ {0}
    BY RingRemembers, CapacityAssumption
  <1>2. ASSUME NEW k \in 1 .. n PROVE Ring!Kept[k] \in Commands
    BY <1>1, <1>2
  <1>3. /\ KeptLines = [k \in 1 .. n |-> Ring!Kept[k].buffptr]
        /\ KeptLines' = [k \in 1 .. Ring!Count' |-> Ring!Kept'[k].buffptr]
    BY DEF KeptLines
  <1> HIDE DEF n
  <1>4. /\ KeptLines \in Seq(S) /\ Len(KeptLines) = n
        /\ \A k \in 1 .. n : KeptLines[k] = Ring!Kept[k].buffptr
    BY <1>1, <1>2, <1>3 DEF Commands
  <1>5. e.buffptr \in S
    BY DEF Commands
  <1>6. CASE /\ n < MaxWriteOps /\ Ring!Count' = n + 1
             /\ Ring!Kept' = Append(Ring!Kept, e)
    <2>1. Ring!Kept' = [k \in 1 .. n + 1 |-> IF k = n + 1 THEN e ELSE Ring!Kept[k]]
      <3>1. Append(Ring!Kept, e)
              = [k \in 1 .. n + 1 |-> IF k = n + 1 THEN e ELSE Ring!Kept[k]]
        BY <1>1, AppendPointwise
      <3>2. QED
        BY <1>6, <3>1, Zenon
    <2>2. Append(KeptLines, e.buffptr)
            = [k \in 1 .. n + 1 |-> IF k = n + 1 THEN e.buffptr ELSE KeptLines[k]]
      BY <1>4, <1>5, AppendPointwise
    <2>3. KeptLines' = [k \in 1 .. n + 1 |-> IF k = n + 1 THEN e.buffptr ELSE KeptLines[k]]
      BY <1>1, <1>3, <1>4, <1>6, <2>1
    <2>4. QED
      BY <1>4, <1>6, <2>2, <2>3 DEF Ring!Log!Remember
  <1>7. CASE /\ n = MaxWriteOps /\ Ring!Count' = n
             /\ Ring!Kept' = Append(Tail(Ring!Kept), e)
    <2>1. Ring!Kept # << >> /\ KeptLines # << >>
      BY <1>1, <1>4, <1>7
    <2>2. Ring!Kept' = [k \in 1 .. n |-> IF k = n THEN e ELSE Ring!Kept[k + 1]]
      <3>1. Append(Tail(Ring!Kept), e)
              = [k \in 1 .. n |-> IF k = n THEN e ELSE Ring!Kept[k + 1]]
        BY <1>1, <2>1, ShiftPointwise
      <3>2. QED
        BY <1>7, <3>1, Zenon
    <2>3. Append(Tail(KeptLines), e.buffptr)
            = [k \in 1 .. n |-> IF k = n THEN e.buffptr ELSE KeptLines[k + 1]]
      BY <1>4, <1>5, <2>1, ShiftPointwise
    <2>4. KeptLines' = [k \in 1 .. n |-> IF k = n THEN e.buffptr ELSE KeptLines[k + 1]]
      BY <1>1, <1>3, <1>4, <1>7, <2>2
    <2>5. QED
      BY <1>1, <1>4, <1>7, <2>3, <2>4 DEF Ring!Log!Remember
  <1>8. QED
    BY <1>6, <1>7, RingRemembers DEF n

(* The refinement mapping of Device. *)
LogKept    == IF LineDone THEN Ring!Log!Remember(KeptLines, Line) ELSE KeptLines
LogPartial == IF Line = NULL \/ LineDone THEN << >> ELSE Line

(* A line that has its newline has a writer about to add it. *)
DoneLineHasWriter == LineDone => \E p \in Procs : pc[p] = "commit"

(* Behind the mutex a write finds the line unfinished. *)
LEMMA AppendFindsNoDoneLine ==
  ASSUME PlaceTypeOK, LockCoversDevice, DoneLineHasWriter, NEW p \in Procs, pc[p] = "append"
  PROVE  ~LineDone
  <1>1. SUFFICES ASSUME LineDone PROVE FALSE
    OBVIOUS
  <1>2. PICK q \in Procs : pc[q] = "commit"
    BY <1>1 DEF DoneLineHasWriter
  <1>3. lock = p /\ lock = q
    BY <1>2 DEF LockCoversDevice, Critical
  <1>4. QED
    BY <1>2, <1>3

LEMMA DoneLineFrame ==
  ASSUME PlaceTypeOK, DoneLineHasWriter, NEW p \in Procs, StepOf(p),
         pc[p] # "commit", UNCHANGED dev_entry
  PROVE  DoneLineHasWriter'
  <1>1. SUFFICES ASSUME LineDone' PROVE \E q \in Procs : pc'[q] = "commit"
    BY DEF DoneLineHasWriter
  <1>2. PICK q \in Procs : pc[q] = "commit"
    BY <1>1 DEF DoneLineHasWriter, LineDone, Line
  <1>3. pc'[q] = "commit"
    BY <1>2 DEF StepOf, PlaceTypeOK
  <1>4. QED
    BY <1>3

LEMMA LogFrame ==
  ASSUME UNCHANGED << ring, dev_entry >>
  PROVE  UNCHANGED << LogKept, LogPartial >>
  <1>1. UNCHANGED << Line, LineDone, KeptLines >>
    BY DEF Line, LineDone, KeptLines, Ring!Count, Ring!Kept, Ring!Occupied,
           Ring!LogicalSlot, ring
  <1>2. QED
    BY <1>1 DEF LogKept, LogPartial, Ring!Log!Remember

(* The bytes join the line: this is where the write happens. *)
LEMMA GatherIsAWrite ==
  ASSUME DeviceTypeOK, ~LineDone, NEW p \in Procs, call[p].buf \in Payloads,
         NEW bytes, Gather(p, bytes),
         \/ Line = NULL /\ bytes = call[p].buf
         \/ Line # NULL /\ bytes = Line \o call[p].buf
  PROVE  Device!Write(call[p].buf)
  <1> DEFINE S == Seq(Bytes \cup {JUNK})
             buf == call[p].buf
  <1>1. buf \in S /\ Len(buf) \in Nat
    BY ArgumentsAssumption
  <1>2. /\ bytes = LogPartial \o buf
        /\ bytes \in S
        /\ Len(bytes) = GatheredSize(p)
        /\ bytes # NULL
    <2>1. CASE Line = NULL /\ bytes = buf
      <3>1. LogPartial = << >> /\ dev_entry.size = 0
        BY <2>1, LineIsCounted DEF LogPartial, Line, Ring!NoEntry
      <3>2. QED
        BY <1>1, <2>1, <3>1, ArgumentsAssumption DEF GatheredSize
    <2>2. CASE Line # NULL /\ bytes = Line \o buf
      <3>1. LogPartial = Line /\ Line \in S /\ dev_entry.size = Len(Line)
        BY <2>2, LineIsCounted DEF LogPartial, Line
      <3>2. bytes \in S /\ Len(bytes) = Len(Line) + Len(buf)
        BY <1>1, <2>2, <3>1
      <3>3. QED
        BY <2>2, <3>1, <3>2, ArgumentsAssumption DEF GatheredSize
    <2>3. QED
      BY <2>1, <2>2
  <1>3. /\ Line' = bytes
        /\ LineDone' <=> Len(bytes) > 0 /\ bytes[Len(bytes)] = NL
        /\ UNCHANGED ring
    BY <1>2 DEF Gather, Line, LineDone, Last
  <1>4. KeptLines' = KeptLines /\ LogKept = KeptLines
    BY <1>3
    DEF KeptLines, Ring!Count, Ring!Kept, Ring!Occupied, Ring!LogicalSlot, ring, LogKept
  <1>5. Device!EndsLine(bytes) <=> LineDone'
    <2>1. bytes # << >> <=> Len(bytes) > 0
      BY <1>2, NonEmptyLength
    <2>2. QED
      BY <1>3, <2>1 DEF Device!EndsLine
  <1>6. CASE Device!EndsLine(bytes)
    <2>1. LogPartial' = << >>
      BY <1>5, <1>6 DEF LogPartial
    <2>2. LogKept' = Ring!Log!Remember(LogKept, bytes)
      BY <1>3, <1>4, <1>5, <1>6 DEF LogKept, Ring!Log!Remember
    <2>3. QED
      BY <1>2, <1>6, <2>1, <2>2
      DEF Device!Write, Device!Log!Remember, Ring!Log!Remember, LogKept, LogPartial
  <1>7. CASE ~Device!EndsLine(bytes)
    <2>1. LogPartial' = bytes
      BY <1>2, <1>3, <1>5, <1>7 DEF LogPartial
    <2>2. LogKept' = LogKept
      BY <1>4, <1>5, <1>7 DEF LogKept
    <2>3. QED
      BY <1>2, <1>7, <2>1, <2>2 DEF Device!Write, LogKept, LogPartial
  <1>8. QED
    BY <1>6, <1>7

(* Adding the finished line to the ring changes nothing for the writers. *)
LEMMA EndLineIsAStutter ==
  ASSUME DeviceTypeOK, Ring!RingShape, LineDone, EndLine
  PROVE  UNCHANGED << LogKept, LogPartial >> /\ ~LineDone'
  <1>1. dev_entry \in Commands
    BY LineIsCounted DEF LineDone
  <1>2. Ring!aesd_circular_buffer_add_entry(dev_entry) /\ dev_entry' = Ring!NoEntry
    BY DEF EndLine, AddThenLeave
  <1>3. KeptLines' = Ring!Log!Remember(KeptLines, Line)
    BY <1>1, <1>2, LinesAreRemembered DEF DeviceTypeOK, Line
  <1>4. ~LineDone' /\ Line' = NULL
    BY <1>2 DEF LineDone, Line, Ring!NoEntry
  <1>5. QED
    BY <1>3, <1>4 DEF LogKept, LogPartial

(* Every step is a write or a stutter to the writers. *)
LEMMA StepImplementsLineLog ==
  ASSUME ~Interruptible, ~Relocates, PlaceInv, DataInv, DeviceRingShape,
         DoneLineHasWriter, [Next]_vars
  PROVE  /\ [Device!Next]_<< LogKept, LogPartial >>
         /\ DoneLineHasWriter'
  <1>1. LockCoversDevice /\ PlaceTypeOK
    BY DEF PlaceInv, LockUnlessInterrupted
  <1>2. ASSUME NEW p \in Procs, Other(p)
        PROVE  UNCHANGED << LogKept, LogPartial >> /\ DoneLineHasWriter'
    BY <1>1, <1>2, OtherStepsFrame, LogFrame, DoneLineFrame
  <1>3. ASSUME NEW p \in Procs, WriteAlloc(p)
        PROVE  UNCHANGED << LogKept, LogPartial >> /\ DoneLineHasWriter'
    <2>1. UNCHANGED << ring, dev_entry, call, local >> /\ pc[p] = "alloc"
      BY <1>3 DEF WriteAlloc, Fail
    <2>2. PICK label \in {"unlock", "fill"} : pc' = [pc EXCEPT ![p] = label]
      BY <1>3 DEF WriteAlloc, Fail, Goto
    <2>3. StepOf(p)
      BY <2>1, <2>2 DEF StepOf, Labels, InKernel
    <2>4. QED
      BY <1>1, <2>1, <2>3, LogFrame, DoneLineFrame
  <1>4. ASSUME NEW p \in Procs, WriteAppend(p)
        PROVE  [Device!Next]_<< LogKept, LogPartial >> /\ DoneLineHasWriter'
    <2>1. pc[p] = "append" /\ UNCHANGED << ring, call, local >>
      BY <1>4 DEF WriteAppend, Gather, ReallocFails, FreeThenFail, Fail
    <2>2. ~LineDone
      BY <1>1, <2>1, AppendFindsNoDoneLine
    <2>3. call[p].buf \in Payloads
      <3>1. call[p] \in Calls /\ call[p].op = "write"
        BY <2>1 DEF PlaceInv, CallMatchesPlace, Fits, InKernel
      <3>2. QED
        BY <3>1, CallArguments
    <2>4. CASE ReallocFails(p)
      <3>1. UNCHANGED dev_entry /\ pc' = [pc EXCEPT ![p] = "unlock"]
        BY <2>4 DEF ReallocFails, FreeThenFail, Fail, Goto
      <3>2. StepOf(p)
        BY <2>1, <3>1 DEF StepOf, Labels, InKernel
      <3>3. QED
        BY <1>1, <2>1, <3>1, <3>2, LogFrame, DoneLineFrame
    <2>5. CASE ~ReallocFails(p)
      <3>1. PICK bytes :
              /\ Gather(p, bytes)
              /\ \/ Line = NULL /\ bytes = call[p].buf
                 \/ Line # NULL /\ bytes = Line \o call[p].buf
        BY <1>4, <2>5 DEF WriteAppend, Old, Line
      <3>2. Device!Write(call[p].buf)
        BY <2>2, <2>3, <3>1, GatherIsAWrite DEF DataInv
      <3>3. pc'[p] = "commit"
        BY <1>1, <3>1 DEF Gather, Goto, PlaceTypeOK
      <3>4. QED
        BY <2>3, <3>2, <3>3 DEF Device!Next, DoneLineHasWriter
    <2>6. QED
      BY <2>4, <2>5
  <1>5. ASSUME NEW p \in Procs, WriteCommit(p)
        PROVE  UNCHANGED << LogKept, LogPartial >> /\ DoneLineHasWriter'
    <2>1. CASE LineDone
      <3>1. EndLine
        BY <1>5, <2>1, LineIsCounted DEF WriteCommit, LineDone, Line, DataInv
      <3>2. QED
        BY <2>1, <3>1, EndLineIsAStutter
        DEF DataInv, DeviceRingShape, DoneLineHasWriter
    <2>2. CASE ~LineDone
      <3>1. UNCHANGED << ring, dev_entry >>
        BY <1>5, <2>2 DEF WriteCommit, LineDone, Line
      <3>2. ~LineDone'
        BY <2>2, <3>1 DEF LineDone, Line
      <3>3. QED
        BY <3>1, <3>2, LogFrame DEF DoneLineHasWriter
    <2>3. QED
      BY <2>1, <2>2
  <1>6. ASSUME NEW p \in Procs, WriteFill(p)
        PROVE  UNCHANGED << LogKept, LogPartial >> /\ DoneLineHasWriter'
    <2>1. UNCHANGED << ring, dev_entry, call, local >> /\ pc[p] = "fill"
      BY <1>6 DEF WriteFill, CopyFails, FreeThenFail, Fail
    <2>2. PICK label \in {"unlock", "append"} : pc' = [pc EXCEPT ![p] = label]
      BY <1>6 DEF WriteFill, CopyFails, FreeThenFail, Fail, Goto
    <2>3. StepOf(p)
      BY <2>1, <2>2 DEF StepOf, Labels, InKernel
    <2>4. QED
      BY <1>1, <2>1, <2>3, LogFrame, DoneLineFrame
  <1>7. CASE UNCHANGED vars
    <2>1. UNCHANGED << ring, dev_entry >> /\ UNCHANGED pc
      BY <1>7 DEF vars
    <2>2. QED
      BY <2>1, LogFrame DEF DoneLineHasWriter, LineDone, Line
  <1>8. CASE Next
    <2>1. PICK p \in Procs :
            User(p) \/ mutex_lock_interruptible(p) \/ Interrupted(p) \/ Kernel(p)
      BY <1>8 DEF Next
    <2>2. Other(p) \/ WriteAlloc(p) \/ WriteFill(p) \/ WriteAppend(p) \/ WriteCommit(p)
      BY <2>1 DEF Kernel, Other
    <2>3. QED
      BY <1>2, <1>3, <1>4, <1>5, <1>6, <2>2
  <1>9. QED
    BY <1>7, <1>8

(* To its writers the device is a line log, for any number of processes,   *)
(* any capacity and any writes: writes take effect one at a time and       *)
(* whole, a failed one not at all, and the lines they form are the most    *)
(* recent commands.  What it takes is that no signal interrupts a wait for *)
(* the mutex and that krealloc does not move the line's block.             *)
THEOREM DeviceImplementsLineLog ==
  ASSUME ~Interruptible, ~Relocates
  PROVE  Spec => ImplementsLineLog
  <1>1. Init => Device!Init /\ DoneLineHasWriter
    <2> SUFFICES ASSUME Init PROVE Device!Init /\ DoneLineHasWriter
      OBVIOUS
    <2>1. Line = NULL /\ ~LineDone
      BY DEF Init, Line, LineDone, Ring!NoEntry
    <2>2. Ring!Count = 0
      BY CapacityAssumption
      DEF Init, Ring!aesd_circular_buffer_init, Ring!Count, Ring!Occupied,
          Ring!NoEntry, Ring!Slots
    <2>3. KeptLines = << >>
      BY <2>2 DEF KeptLines
    <2>4. QED
      BY <2>1, <2>3 DEF Device!Init, DoneLineHasWriter
  <1>2. PlaceInv /\ DataInv /\ DeviceRingShape /\ DoneLineHasWriter /\ [Next]_vars
          => /\ [Device!Next]_<< IF LineDone THEN Ring!Log!Remember(KeptLines, Line)
                                             ELSE KeptLines,
                                 IF Line = NULL \/ LineDone THEN << >> ELSE Line >>
             /\ DoneLineHasWriter'
    BY StepImplementsLineLog DEF LogKept, LogPartial
  <1>3. QED
    BY <1>1, <1>2, PlacesInvariant, DataInvariant, PTL
    DEF Spec, ImplementsLineLog, Device!Spec

-----------------------------------------------------------------------------
(* Reads. *)

(* The kept lines laid end to end. *)
Contents == FlattenSeq(KeptLines)

(* found is the place of byte pos of the contents. *)
PlaceOf(found, pos) ==
  \E n \in 0 .. Ring!Count - 1 :
    /\ found.slot = Ring!LogicalSlot(n)
    /\ found.offset \in 0 .. entry[Ring!LogicalSlot(n)].size - 1
    /\ pos = Ring!CumulativeOffset(n) + found.offset

(* What was proved of the ring alone holds of the driver's. *)
LEMMA SameRing ==
  /\ Ring!TypeOK => RingFacts!TypeOK
  /\ Ring!RingShape => RingFacts!RingShape
  /\ Ring!Count = RingFacts!Count
  /\ Ring!Kept = RingFacts!Kept
  /\ Ring!Slots = RingFacts!Slots
  /\ \A n : Ring!LogicalSlot(n) = RingFacts!LogicalSlot(n)
  /\ \A n : Ring!CumulativeOffset(n) = RingFacts!CumulativeOffset(n)
  <1>1. Ring!TypeOK => RingFacts!TypeOK
    BY DEF Ring!TypeOK, Ring!Slots, Ring!NoEntry,
           RingFacts!TypeOK, RingFacts!Slots, RingFacts!NoEntry
  <1>2. Ring!RingShape => RingFacts!RingShape
    BY DEF Ring!Slots, Ring!RingShape, Ring!Occupied,
           RingFacts!Slots, RingFacts!RingShape, RingFacts!Occupied
  <1>3. Ring!Count = RingFacts!Count /\ Ring!Slots = RingFacts!Slots
    BY DEF Ring!Count, Ring!Occupied, RingFacts!Count, RingFacts!Occupied,
           Ring!Slots, RingFacts!Slots
  <1>4. \A n : Ring!LogicalSlot(n) = RingFacts!LogicalSlot(n)
    BY DEF Ring!LogicalSlot, RingFacts!LogicalSlot
  <1>5. \A n : Ring!CumulativeOffset(n) = RingFacts!CumulativeOffset(n)
    BY Zenon DEF Ring!CumulativeOffset, RingFacts!CumulativeOffset,
           Ring!LogicalSlot, RingFacts!LogicalSlot
  <1>6. Ring!Kept = RingFacts!Kept
    BY <1>3, <1>4 DEF Ring!Kept, RingFacts!Kept
  <1>7. QED
    BY <1>1, <1>2, <1>3, <1>4, <1>5, <1>6

LEMMA OffsetFacts ==
  ASSUME Ring!TypeOK, Ring!RingShape
  PROVE  /\ Ring!Count \in 0 .. MaxWriteOps
         /\ Ring!CumulativeOffset(0) = 0
         /\ \A n \in 0 .. MaxWriteOps :
              /\ Ring!CumulativeOffset(n) \in Nat
              /\ Ring!CumulativeOffset(n) <= Ring!CumulativeOffset(Ring!Count)
         /\ \A n \in Nat : Ring!CumulativeOffset(n + 1)
              = Ring!CumulativeOffset(n) + entry[Ring!LogicalSlot(n)].size
  <1>1. RingFacts!TypeOK /\ RingFacts!RingShape
    BY SameRing
  <1>2. RingFacts!Count \in 0 .. MaxWriteOps
    BY <1>1, RingAssumptions, RingFacts!KeptIsASequence
  <1>3. /\ RingFacts!CumulativeOffset(0) = 0
        /\ \A n \in Nat : RingFacts!CumulativeOffset(n + 1)
             = RingFacts!CumulativeOffset(n)
                 + entry[RingFacts!LogicalSlot(n)].size
    BY RingAssumptions, RingFacts!OffsetRecurrence
  <1>4. \A n \in 0 .. MaxWriteOps :
          /\ RingFacts!CumulativeOffset(n) \in Nat
          /\ RingFacts!CumulativeOffset(n)
               <= RingFacts!CumulativeOffset(RingFacts!Count)
    BY <1>1, RingAssumptions, RingFacts!OffsetsGrow
  <1>5. QED
    BY <1>2, <1>3, <1>4, SameRing

LEMMA KeptFacts ==
  ASSUME Ring!TypeOK, Ring!RingShape, NEW i \in 1 .. Ring!Count
  PROVE  /\ Ring!Kept[i] = entry[Ring!LogicalSlot(i - 1)]
         /\ Ring!Kept[i] \in Commands
         /\ KeptLines[i] = Ring!Kept[i].buffptr
  <1>1. RingFacts!TypeOK /\ RingFacts!RingShape
    BY SameRing
  <1>2. Ring!Kept \in Seq(Commands) /\ Len(Ring!Kept) = Ring!Count
    BY <1>1, SameRing, RingAssumptions, RingFacts!KeptIsASequence
  <1>3. Ring!Kept[i] \in Commands
    BY <1>2
  <1>4. QED
    BY <1>3 DEF Ring!Kept, KeptLines

(* Where each byte of the kept lines lies in the contents. *)
LEMMA ContentsAre ==
  ASSUME Ring!TypeOK, Ring!RingShape
  PROVE  /\ Contents \in Seq(Bytes \cup {JUNK})
         /\ Len(Contents) = Ring!CumulativeOffset(Ring!Count)
         /\ \A n \in 0 .. Ring!Count - 1 :
              \A b \in 1 .. entry[Ring!LogicalSlot(n)].size :
                Contents[Ring!CumulativeOffset(n) + b]
                  = entry[Ring!LogicalSlot(n)].buffptr[b]
  <1> DEFINE R == Bytes \cup {JUNK}
             acc == [i \in 0 .. Ring!Count |-> Ring!CumulativeOffset(i)]
  <1>1. Ring!Count \in 0 .. MaxWriteOps /\ MaxWriteOps \in Nat
    BY OffsetFacts, CapacityAssumption
  <1>2. ASSUME NEW i \in 1 .. Ring!Count
        PROVE  /\ KeptLines[i] \in Seq(R)
               /\ KeptLines[i] = entry[Ring!LogicalSlot(i - 1)].buffptr
               /\ Len(KeptLines[i]) = entry[Ring!LogicalSlot(i - 1)].size
    BY KeptFacts DEF Commands
  <1>3. KeptLines \in Seq(Seq(R)) /\ Len(KeptLines) = Ring!Count
    <2>1. KeptLines = [i \in 1 .. Ring!Count |-> KeptLines[i]]
      BY DEF KeptLines
    <2> HIDE DEF R
    <2>2. QED
      BY <1>1, <1>2, <2>1
  <1>4. /\ acc[0] = 0
        /\ \A i \in 1 .. Len(KeptLines) :
             acc[i] \in Nat /\ acc[i] = acc[i - 1] + Len(KeptLines[i])
    <2>1. acc[0] = 0
      BY <1>1, OffsetFacts
    <2>2. ASSUME NEW i \in 1 .. Ring!Count
          PROVE  acc[i] \in Nat /\ acc[i] = acc[i - 1] + Len(KeptLines[i])
      <3>1. /\ i - 1 \in Nat /\ (i - 1) + 1 = i /\ i \in 0 .. MaxWriteOps
            /\ i - 1 \in 0 .. Ring!Count /\ i \in 0 .. Ring!Count
        BY <1>1
      <3>2. Ring!CumulativeOffset(i)
              = Ring!CumulativeOffset(i - 1) + Len(KeptLines[i])
        BY <1>2, <3>1, OffsetFacts
      <3>3. Ring!CumulativeOffset(i) \in Nat
        BY <3>1, OffsetFacts
      <3>4. acc[i] = Ring!CumulativeOffset(i)
            /\ acc[i - 1] = Ring!CumulativeOffset(i - 1)
        BY <3>1
      <3>5. QED
        BY <3>2, <3>3, <3>4
    <2> HIDE DEF acc
    <2>3. QED
      BY <1>3, <2>1, <2>2
  <1> HIDE DEF R
  <1>5. LaidOut(R, KeptLines, acc, Contents)
    <2> HIDE DEF acc
    <2>1. Starts(R, KeptLines, acc)
      BY <1>3, <1>4 DEF Starts
    <2>2. QED
      BY <2>1, FlattenIndex DEF Contents
  <1>6. /\ Contents \in Seq(R)
        /\ Len(Contents) = acc[Ring!Count]
        /\ \A i \in 1 .. Ring!Count : \A b \in 1 .. Len(KeptLines[i]) :
             Contents[acc[i - 1] + b] = KeptLines[i][b]
    <2> HIDE DEF acc
    <2>1. QED
      BY <1>3, <1>5 DEF LaidOut
  <1>7. ASSUME NEW n \in 0 .. Ring!Count - 1,
               NEW b \in 1 .. entry[Ring!LogicalSlot(n)].size
        PROVE  Contents[Ring!CumulativeOffset(n) + b]
                 = entry[Ring!LogicalSlot(n)].buffptr[b]
    <2>1. n + 1 \in 1 .. Ring!Count /\ (n + 1) - 1 = n /\ n \in 0 .. Ring!Count
      BY <1>1
    <2>2. /\ KeptLines[n + 1] = entry[Ring!LogicalSlot(n)].buffptr
          /\ Len(KeptLines[n + 1]) = entry[Ring!LogicalSlot(n)].size
      BY <1>2, <2>1
    <2>3. Contents[acc[(n + 1) - 1] + b] = KeptLines[n + 1][b]
      <3> HIDE DEF acc
      <3>1. QED
        BY <1>6, <2>1, <2>2
    <2>4. acc[(n + 1) - 1] = Ring!CumulativeOffset(n)
      BY <2>1
    <2>5. QED
      BY <2>2, <2>3, <2>4
  <1>8. acc[Ring!Count] = Ring!CumulativeOffset(Ring!Count)
    BY <1>1
  <1>9. QED
    BY <1>6, <1>7, <1>8 DEF R

(* The search of the driver's ring. *)
LEMMA SearchFacts ==
  ASSUME Ring!TypeOK, Ring!RingShape, NEW pos \in Nat
  PROVE  LET found == Ring!aesd_circular_buffer_find_entry_offset_for_fpos(pos)
         IN  /\ found = NULL => pos >= Len(Contents)
             /\ found # NULL => PlaceOf(found, pos)
  <1> DEFINE hits == {i \in Ring!Slots : Ring!CumulativeOffset(i + 1) > pos}
             m == Ring!Min(hits)
             found == Ring!aesd_circular_buffer_find_entry_offset_for_fpos(pos)
  <1>1. found = IF hits = {} THEN NULL
                ELSE [slot   |-> Ring!LogicalSlot(m),
                      offset |-> pos - Ring!CumulativeOffset(m)]
    BY Zenon DEF Ring!aesd_circular_buffer_find_entry_offset_for_fpos
  <1>2. /\ Ring!Count \in 0 .. MaxWriteOps /\ MaxWriteOps \in Nat
        /\ Ring!CumulativeOffset(Ring!Count) \in Nat
        /\ Len(Contents) = Ring!CumulativeOffset(Ring!Count)
    BY OffsetFacts, ContentsAre, CapacityAssumption
  <1>3. ASSUME pos < Ring!CumulativeOffset(Ring!Count)
        PROVE  /\ hits # {}
               /\ m \in 0 .. Ring!Count - 1
               /\ Ring!CumulativeOffset(m) <= pos
               /\ pos - Ring!CumulativeOffset(m)
                    \in 0 .. entry[Ring!LogicalSlot(m)].size - 1
    <2> DEFINE rhits == {i \in RingFacts!Slots :
                           RingFacts!CumulativeOffset(i + 1) > pos}
               rm == RingFacts!Min(rhits)
    <2>1. RingFacts!TypeOK /\ RingFacts!RingShape
          /\ pos < RingFacts!CumulativeOffset(RingFacts!Count)
      BY <1>3, SameRing
    <2>2. /\ rhits # {}
          /\ rm \in 0 .. RingFacts!Count - 1
          /\ RingFacts!CumulativeOffset(rm) <= pos
          /\ pos - RingFacts!CumulativeOffset(rm)
               \in 0 .. entry[RingFacts!LogicalSlot(rm)].size - 1
      BY <2>1, RingAssumptions, RingFacts!FirstHit
    <2>3. rhits = hits
      BY SameRing
    <2>4. rm = m
      <3> HIDE DEF rhits, hits
      <3>1. QED
        BY <2>3 DEF Ring!Min, RingFacts!Min
    <2> HIDE DEF rhits, hits, rm, m
    <2>5. QED
      BY <2>2, <2>3, <2>4, SameRing
  <1>4. hits # {} => pos < Ring!CumulativeOffset(Ring!Count)
    <2> SUFFICES ASSUME NEW i \in Ring!Slots, Ring!CumulativeOffset(i + 1) > pos
                 PROVE  pos < Ring!CumulativeOffset(Ring!Count)
      OBVIOUS
    <2>1. i + 1 \in 0 .. MaxWriteOps
      BY <1>2 DEF Ring!Slots
    <2> HIDE DEF hits, m, found
    <2>2. /\ Ring!CumulativeOffset(i + 1) \in Nat
          /\ Ring!CumulativeOffset(i + 1) <= Ring!CumulativeOffset(Ring!Count)
      BY <2>1, OffsetFacts
    <2>3. QED
      BY <1>2, <2>2
  <1> HIDE DEF hits, m, found
  <1>5. CASE hits = {}
    <2>1. found = NULL /\ ~(pos < Ring!CumulativeOffset(Ring!Count))
      BY <1>1, <1>3, <1>5
    <2>2. QED
      BY <1>2, <2>1 DEF found
  <1>6. CASE hits # {}
    <2>1. /\ m \in 0 .. Ring!Count - 1
          /\ Ring!CumulativeOffset(m) <= pos
          /\ pos - Ring!CumulativeOffset(m)
               \in 0 .. entry[Ring!LogicalSlot(m)].size - 1
      BY <1>3, <1>4, <1>6
    <2>2. found = [slot   |-> Ring!LogicalSlot(m),
                   offset |-> pos - Ring!CumulativeOffset(m)]
      BY <1>1, <1>6
    <2>3. m \in 0 .. MaxWriteOps /\ m \in Ring!Slots
      BY <1>2, <2>1 DEF Ring!Slots
    <2>4. Ring!CumulativeOffset(m) \in Nat
      BY <2>3, OffsetFacts
    <2>5. Ring!LogicalSlot(m) \in Ring!Slots
      <3>1. m \in RingFacts!Slots /\ out_offs \in RingFacts!Slots
        BY <2>3, SameRing DEF Ring!TypeOK
      <3>2. QED
        BY <3>1, RingAssumptions, RingFacts!SlotSumWraps, SameRing
        DEF Ring!LogicalSlot
    <2>6. found # NULL
      <3>1. Ring!LogicalSlot(m) \in Nat
        BY <1>2, <2>5 DEF Ring!Slots
      <3>2. pos - Ring!CumulativeOffset(m) \in Nat
        BY <2>1, <2>4
      <3>3. QED
        BY <2>2, <3>1, <3>2, ArgumentsAssumption
    <2>7. PlaceOf(found, pos)
      <3>1. pos = Ring!CumulativeOffset(m) + (pos - Ring!CumulativeOffset(m))
        BY <2>4
      <3>2. QED
        BY <2>1, <2>2, <3>1 DEF PlaceOf
    <2>8. QED
      BY <2>6, <2>7 DEF found
  <1>7. QED
    BY <1>5, <1>6

(* What a copy hands out from the place of the position. *)
LEMMA CopyIsASlice ==
  ASSUME Ring!TypeOK, Ring!RingShape, NEW p \in Procs, call[p].count \in Nat,
         f_pos[p] \in Nat, PlaceOf(local[p], f_pos[p])
  PROVE  LET got == BytesRead(p)
             pos == f_pos[p] + Len(got)
         IN  IF got = << >>
             THEN call[p].count = 0
             ELSE /\ Len(got) <= call[p].count
                  /\ Len(got) <= pos
                  /\ got = SubSeq(Contents, pos - Len(got) + 1, pos)
  <1>1. PICK m \in 0 .. Ring!Count - 1 :
          /\ local[p].slot = Ring!LogicalSlot(m)
          /\ local[p].offset \in 0 .. entry[Ring!LogicalSlot(m)].size - 1
          /\ f_pos[p] = Ring!CumulativeOffset(m) + local[p].offset
    BY DEF PlaceOf
  <1> DEFINE e == entry[Ring!LogicalSlot(m)]
             start == local[p].offset
             count == call[p].count
             n == IF start \in 0 .. e.size /\ e.size - start < count
                  THEN e.size - start ELSE count
             got == BytesRead(p)
  <1>2. /\ Ring!Count \in 0 .. MaxWriteOps /\ MaxWriteOps \in Nat
        /\ m \in Ring!Slots /\ m \in 0 .. MaxWriteOps
    BY OffsetFacts, CapacityAssumption DEF Ring!Slots
  <1>3. e.size \in Nat /\ e.size = Len(e.buffptr)
    <2>1. m + 1 \in 1 .. Ring!Count /\ (m + 1) - 1 = m
      BY <1>2
    <2>2. e \in Commands
      BY <2>1, KeptFacts
    <2>3. QED
      BY <2>2 DEF Commands
  <1>4. start \in Nat /\ start < e.size
    BY <1>1, <1>3
  <1>5. /\ n \in Nat /\ n <= count /\ start + n <= e.size
        /\ n = 0 => count = 0
    <2>1. count \in Nat
      OBVIOUS
    <2> HIDE DEF e, start, count
    <2>2. QED
      BY <1>3, <1>4, <2>1
  <1>6. got = [k \in 1 .. n |-> IF start + k <= e.size THEN e.buffptr[start + k]
                                                       ELSE JUNK]
    BY <1>1, Zenon DEF BytesRead
  <1>7. Ring!CumulativeOffset(m) \in Nat
    BY <1>2, OffsetFacts
  <1> HIDE DEF n, got
  <1>8. Len(got) = n /\ DOMAIN got = 1 .. n
    BY <1>5, <1>6
  <1> HIDE DEF e, start, count
  <1>9. ASSUME NEW k \in 1 .. n PROVE got[k] = Contents[f_pos[p] + k]
    <2>1. start + k \in 1 .. e.size /\ start + k <= e.size
      BY <1>3, <1>4, <1>5
    <2>2. got[k] = e.buffptr[start + k]
      BY <1>6, <2>1
    <2>3. Contents[Ring!CumulativeOffset(m) + (start + k)] = e.buffptr[start + k]
      BY <2>1, ContentsAre DEF e
    <2>4. Ring!CumulativeOffset(m) + (start + k) = f_pos[p] + k
      BY <1>1, <1>4, <1>7 DEF start
    <2>5. QED
      BY <2>2, <2>3, <2>4
  <1>10. CASE got = << >>
    <2>1. n = 0
      BY <1>8, <1>10
    <2>2. QED
      BY <1>5, <1>10, <2>1 DEF got, count
  <1>11. CASE got # << >>
    <2> DEFINE pos == f_pos[p] + n
    <2>1. Len(got) <= count /\ Len(got) <= pos /\ pos - n + 1 = f_pos[p] + 1
      BY <1>5, <1>8
    <2>2. SubSeq(Contents, f_pos[p] + 1, pos)
            = [k \in 1 .. n |-> Contents[f_pos[p] + k]]
      <3>1. f_pos[p] + n <= Len(Contents)
        <4>1. Ring!CumulativeOffset(m + 1) = Ring!CumulativeOffset(m) + e.size
          BY <1>2, OffsetFacts DEF e
        <4>2. m + 1 \in 0 .. MaxWriteOps
          BY <1>2 DEF Ring!Slots
        <4>3. /\ Ring!CumulativeOffset(m + 1) <= Ring!CumulativeOffset(Ring!Count)
              /\ Ring!CumulativeOffset(Ring!Count) \in Nat
              /\ Len(Contents) = Ring!CumulativeOffset(Ring!Count)
          BY <1>2, <4>2, OffsetFacts, ContentsAre
        <4>4. f_pos[p] + n = Ring!CumulativeOffset(m) + (start + n)
          BY <1>1, <1>4, <1>5, <1>7 DEF start
        <4>5. Ring!CumulativeOffset(m) + (start + n)
                <= Ring!CumulativeOffset(m) + e.size
          BY <1>3, <1>4, <1>5, <1>7
        <4>6. QED
          BY <1>3, <1>4, <1>5, <1>7, <4>1, <4>3, <4>4, <4>5
      <3>2. Contents \in Seq(Bytes \cup {JUNK})
        BY ContentsAre
      <3>3. QED
        BY <1>5, <3>1, <3>2, SliceIs
    <2>3. got = [k \in 1 .. n |-> Contents[f_pos[p] + k]]
      BY <1>6, <1>8, <1>9
    <2>4. QED
      BY <1>8, <1>11, <2>1, <2>2, <2>3 DEF got, count
  <1>12. QED
    BY <1>10, <1>11

(* A read under way: it has found the place of its position, or what it    *)
(* got is the slice that ReadsAreSlices asks for.                          *)
ReadOf(p) ==
  /\ pc[p] = "copy" => PlaceOf(local[p], f_pos[p])
  /\ (pc[p] = "unlock" /\ call[p].op = "read" /\ local[p] # NULL) =>
       LET got == local[p].got
       IN  IF got = << >>
           THEN f_pos[p] >= Len(Contents) \/ call[p].count = 0
           ELSE /\ Len(got) <= call[p].count
                /\ Len(got) <= f_pos[p]
                /\ got = SubSeq(Contents, f_pos[p] - Len(got) + 1, f_pos[p])

ReadInv == \A p \in Procs : ReadOf(p)

(* Nothing changes for a read while nobody touches the ring. *)
LEMMA RingFrame ==
  ASSUME UNCHANGED ring
  PROVE  /\ Contents' = Contents
         /\ \A found, pos : PlaceOf(found, pos)' = PlaceOf(found, pos)
  <1>1. UNCHANGED << entry, in_offs, out_offs, full >>
    BY DEF ring
  <1>2. UNCHANGED KeptLines
    BY <1>1 DEF KeptLines, Ring!Count, Ring!Kept, Ring!Occupied, Ring!LogicalSlot
  <1>3. Contents' = Contents
    BY <1>2 DEF Contents, FlattenSeq
  <1>4. ASSUME NEW found, NEW pos PROVE PlaceOf(found, pos)' = PlaceOf(found, pos)
    BY <1>1 DEF PlaceOf, Ring!Count, Ring!Occupied, Ring!LogicalSlot,
                Ring!CumulativeOffset
  <1>5. QED
    BY <1>3, <1>4

LEMMA ReadFrame ==
  ASSUME NEW p \in Procs, ReadOf(p), UNCHANGED ring,
         pc'[p] = pc[p], call'[p] = call[p], local'[p] = local[p],
         f_pos'[p] = f_pos[p]
  PROVE  ReadOf(p)'
  <1>1. Contents' = Contents
    BY RingFrame
  <1>2. pc'[p] = "copy" => PlaceOf(local[p], f_pos[p])'
    BY RingFrame DEF ReadOf
  <1>3. QED
    BY <1>1, <1>2 DEF ReadOf

(* A process that has no read under way. *)
LEMMA NoRead ==
  ASSUME NEW p \in Procs, pc'[p] # "copy",
         pc'[p] = "unlock" => call'[p].op # "read"
  PROVE  ReadOf(p)'
  BY DEF ReadOf

(* A step of q is no step of anybody else. *)
LEMMA StepIsOwn ==
  ASSUME PlaceInv, DataInv, NEW q \in Procs,
         User(q) \/ mutex_lock_interruptible(q) \/ Interrupted(q) \/ Kernel(q)
  PROVE  \A p \in Procs \ {q} :
           /\ pc'[p] = pc[p] /\ call'[p] = call[p]
           /\ local'[p] = local[p] /\ f_pos'[p] = f_pos[p]
  <1>1. StepOf(q)
    <2>1. CASE Other(q)
      BY <2>1, OtherStepsFrame
    <2>2. CASE WriteAlloc(q) \/ WriteFill(q) \/ WriteAppend(q) \/ WriteCommit(q)
      <3>1. UNCHANGED << call, local >>
        BY <2>2 DEF WriteAlloc, WriteFill, CopyFails, WriteAppend, WriteCommit,
                    Gather, ReallocFails, FreeThenFail, Fail
      <3>2. \E label \in {"unlock", "fill", "append", "commit", "oops"} :
              pc' = [pc EXCEPT ![q] = label]
        BY <2>2 DEF WriteAlloc, WriteFill, CopyFails, WriteAppend, WriteCommit,
                    Gather, ReallocFails, FreeThenFail, Fail, Goto
      <3>3. QED
        BY <3>1, <3>2 DEF StepOf, Labels, InKernel
    <2>3. QED
      BY <2>1, <2>2 DEF Kernel, Other
  <1>2. UNCHANGED f_pos \/ \E pos : f_pos' = [f_pos EXCEPT ![q] = pos]
    BY DEF User, aesd_open, aesd_release, aesd_read, aesd_write, aesd_llseek,
           aesd_ioctl, Enter, mutex_lock_interruptible, Interrupted, Kernel,
           ReadFind, ReadCopy, WriteAlloc, WriteFill, CopyFails, WriteAppend,
           WriteCommit, Gather, ReallocFails, FreeThenFail, Fail,
           get_buffer_size, SeekPlace, IoctlSum, IoctlPlace, mutex_unlock, MoveTo
  <1>3. /\ pc \in [Procs -> Labels] /\ DOMAIN call = Procs
        /\ DOMAIN local = Procs /\ DOMAIN f_pos = Procs
    BY DEF PlaceInv, PlaceTypeOK, DataInv, CarriedTypeOK
  <1>4. QED
    BY <1>1, <1>2, <1>3 DEF StepOf

(* The process that moves. *)
LEMMA MoverKeepsReadOf ==
  ASSUME ~Interruptible, PlaceInv, DataInv, DeviceRingShape, NEW q \in Procs,
         ReadOf(q),
         User(q) \/ mutex_lock_interruptible(q) \/ Interrupted(q) \/ Kernel(q)
  PROVE  ReadOf(q)'
  <1>0. /\ Ring!TypeOK /\ Ring!RingShape /\ f_pos[q] \in Nat
        /\ pc \in [Procs -> Labels] /\ call \in [Procs -> Calls \cup {NULL}]
        /\ DOMAIN local = Procs /\ f_pos \in [Procs -> Nat]
        /\ Fits(pc[q], call[q].op)
        /\ pc[q] \in InKernel => call[q] \in Calls
    BY DEF DataInv, DeviceTypeOK, DeviceRingShape, PlaceInv, PlaceTypeOK,
           CallMatchesPlace, CarriedTypeOK
  <1>1. CASE ReadFind(q)
    <2> DEFINE found ==
                 Ring!aesd_circular_buffer_find_entry_offset_for_fpos(f_pos[q])
    <2>1. /\ UNCHANGED << ring, call, f_pos >>
          /\ \/ found = NULL /\ pc'[q] = "unlock" /\ local'[q] = [got |-> << >>]
             \/ found # NULL /\ pc'[q] = "copy" /\ local'[q] = found
      BY <1>0, <1>1 DEF ReadFind, Goto, Keep
    <2> HIDE DEF found
    <2>2. CASE found = NULL
      <3>1. f_pos[q] >= Len(Contents)
        BY <1>0, <2>2, SearchFacts DEF found
      <3>2. /\ f_pos'[q] >= Len(Contents') /\ local'[q].got = << >>
            /\ pc'[q] = "unlock"
        BY <2>1, <2>2, <3>1, RingFrame
      <3>3. QED
        BY <3>2 DEF ReadOf
    <2>3. CASE found # NULL
      <3>1. PlaceOf(found, f_pos[q])
        BY <1>0, <2>3, SearchFacts DEF found
      <3>2. PlaceOf(local[q], f_pos[q])' /\ pc'[q] = "copy"
        BY <2>1, <2>3, <3>1, RingFrame
      <3>3. QED
        BY <3>2 DEF ReadOf
    <2>4. QED
      BY <2>2, <2>3
  <1>2. CASE ReadCopy(q)
    <2>1. /\ UNCHANGED << ring, call >> /\ pc'[q] = "unlock" /\ pc[q] = "copy"
          /\ \/ local'[q] = [got |-> BytesRead(q)]
                /\ f_pos'[q] = f_pos[q] + Len(BytesRead(q))
             \/ local'[q] = NULL
      BY <1>0, <1>2 DEF ReadCopy, Goto, Keep, MoveTo, PositionAfterRead
    <2>2. CASE local'[q] = NULL
      BY <2>1, <2>2 DEF ReadOf
    <2>3. CASE local'[q] = [got |-> BytesRead(q)]
               /\ f_pos'[q] = f_pos[q] + Len(BytesRead(q))
      <3>1. PlaceOf(local[q], f_pos[q])
        BY <2>1 DEF ReadOf
      <3>2. call[q].count \in Nat
        <4>1. call[q] \in Calls /\ call[q].op = "read"
          BY <1>0, <2>1 DEF InKernel, Fits
        <4>2. QED
          BY <4>1, CallArguments
      <3> DEFINE got == BytesRead(q)
                 pos == f_pos[q] + Len(got)
      <3>3. IF got = << >>
            THEN call[q].count = 0
            ELSE /\ Len(got) <= call[q].count
                 /\ Len(got) <= pos
                 /\ got = SubSeq(Contents, pos - Len(got) + 1, pos)
        BY <1>0, <3>1, <3>2, CopyIsASlice
      <3>4. /\ Contents' = Contents /\ local'[q].got = got /\ f_pos'[q] = pos
            /\ call'[q] = call[q] /\ pc'[q] = "unlock"
        BY <2>1, <2>3, RingFrame
      <3> HIDE DEF got, pos
      <3>5. QED
        BY <3>3, <3>4 DEF ReadOf
    <2>4. QED
      BY <2>1, <2>2, <2>3
  <1>3. CASE WriteAlloc(q) \/ WriteFill(q) \/ WriteAppend(q) \/ WriteCommit(q)
             \/ get_buffer_size(q)
    <2>1. /\ UNCHANGED call
          /\ pc[q] \in {"alloc", "fill", "append", "commit", "size"}
      BY <1>3 DEF WriteAlloc, WriteFill, CopyFails, WriteAppend, WriteCommit,
                  get_buffer_size, Gather, ReallocFails, FreeThenFail, Fail
    <2>2. pc'[q] \in {"unlock", "fill", "append", "commit", "oops"}
      BY <1>0, <1>3 DEF WriteAlloc, WriteFill, CopyFails, WriteAppend, WriteCommit,
                  get_buffer_size, Gather, ReallocFails, FreeThenFail, Fail, Goto
    <2>3. call'[q].op # "read"
      BY <1>0, <2>1 DEF Fits
    <2>4. QED
      BY <2>2, <2>3, NoRead
  <1>4. CASE mutex_lock_interruptible(q)
    <2>1. pc[q] = "lock" /\ pc'[q] = Locked(q)
      BY <1>0, <1>4 DEF mutex_lock_interruptible, Goto
    <2>2. call[q].op \in {"read", "write", "llseek"}
      BY <1>0, <2>1 DEF Fits
    <2>3. Locked(q) \in {"find", "alloc", "size"}
      BY <2>2 DEF Locked
    <2>4. QED
      BY <2>1, <2>3, NoRead
  <1>5. CASE User(q) \/ SeekPlace(q) \/ IoctlSum(q) \/ IoctlPlace(q)
             \/ mutex_unlock(q)
    <2>1. pc'[q] \in {"open", "closed", "lock", "sum", "place"}
      BY <1>0, <1>5
      DEF User, aesd_open, aesd_release, aesd_read, aesd_write, aesd_llseek,
          aesd_ioctl, Enter, SeekPlace, IoctlSum, IoctlPlace, mutex_unlock,
          Return, Goto
    <2>2. QED
      BY <2>1, NoRead
  <1>6. ~Interrupted(q)
    BY DEF Interrupted
  <1>7. QED
    BY <1>1, <1>2, <1>3, <1>4, <1>5, <1>6 DEF Kernel

(* Only the end of a line changes the ring, and behind the mutex no read   *)
(* is under way then.                                                      *)
LEMMA WaiterKeepsReadOf ==
  ASSUME ~Interruptible, PlaceInv, DataInv, NEW q \in Procs,
         User(q) \/ mutex_lock_interruptible(q) \/ Interrupted(q) \/ Kernel(q),
         NEW p \in Procs, p # q, ReadOf(p)
  PROVE  ReadOf(p)'
  <1>1. /\ pc'[p] = pc[p] /\ call'[p] = call[p]
        /\ local'[p] = local[p] /\ f_pos'[p] = f_pos[p]
    BY StepIsOwn
  <1>2. CASE WriteCommit(q)
    <2>1. pc[q] = "commit" /\ LockCoversDevice
      BY <1>2 DEF WriteCommit, PlaceInv, LockUnlessInterrupted
    <2>2. lock = q
      BY <2>1 DEF LockCoversDevice, Critical
    <2>3. pc[p] \notin Critical
      BY <2>1, <2>2 DEF LockCoversDevice
    <2>4. QED
      BY <1>1, <2>3, NoRead DEF Critical
  <1>3. CASE ~WriteCommit(q)
    <2>1. UNCHANGED ring
      BY <1>3
      DEF User, aesd_open, aesd_release, aesd_read, aesd_write, aesd_llseek,
          aesd_ioctl, Enter, mutex_lock_interruptible, Interrupted, Kernel,
          ReadFind, ReadCopy, WriteAlloc, WriteFill, CopyFails, WriteAppend,
          Gather, ReallocFails, FreeThenFail, Fail, get_buffer_size, SeekPlace,
          IoctlSum, IoctlPlace, mutex_unlock
    <2>2. QED
      BY <1>1, <2>1, ReadFrame
  <1>4. QED
    BY <1>2, <1>3

(* What a read returns is a piece of the kept lines laid end to end, ends  *)
(* where the position now is, and is empty only at the end of the device   *)
(* or when nothing was asked for: for any number of readers and writers,   *)
(* however often the ring wraps around, as long as no signal interrupts a  *)
(* wait for the mutex.                                                     *)
THEOREM ReadsReturnSlices ==
  ASSUME ~Interruptible
  PROVE  Spec => []ReadsAreSlices
  <1>1. Init => ReadInv
    BY DEF Init, ReadInv, ReadOf
  <1>2. PlaceInv /\ DataInv /\ DeviceRingShape /\ ReadInv /\ [Next]_vars
          => ReadInv'
    <2> SUFFICES ASSUME PlaceInv, DataInv, DeviceRingShape, ReadInv, [Next]_vars
                 PROVE  ReadInv'
      OBVIOUS
    <2>1. ASSUME NEW q \in Procs,
                 User(q) \/ mutex_lock_interruptible(q) \/ Interrupted(q)
                 \/ Kernel(q),
                 NEW p \in Procs
          PROVE  ReadOf(p)'
      <3>1. ReadOf(p) /\ ReadOf(q)
        BY DEF ReadInv
      <3>2. CASE p = q
        <4>1. ReadOf(q)'
          BY <2>1, <3>1, MoverKeepsReadOf
        <4>2. QED
          BY <3>2, <4>1
      <3>3. CASE p # q
        BY <2>1, <3>1, <3>3, WaiterKeepsReadOf
      <3>4. QED
        BY <3>2, <3>3
    <2>2. ASSUME UNCHANGED vars, NEW p \in Procs PROVE ReadOf(p)'
      <3>1. UNCHANGED << ring, pc, call, local, f_pos >>
        BY <2>2 DEF vars
      <3>2. QED
        BY <3>1, ReadFrame DEF ReadInv
    <2>3. QED
      BY <2>1, <2>2 DEF Next, ReadInv
  <1>3. ReadInv => ReadsAreSlices
    BY DEF ReadInv, ReadOf, ReadsAreSlices, Contents
  <1>4. QED
    BY <1>1, <1>2, <1>3, PlacesInvariant, DataInvariant, PTL DEF Spec

-----------------------------------------------------------------------------
(* Positions set by llseek and by the ioctl. *)

LEMMA SizesAreNatural ==
  ASSUME Ring!TypeOK
  PROVE  \A i \in Ring!Slots : entry[i].size \in Nat
  BY DEF Ring!TypeOK, Commands, Ring!NoEntry

(* The sizes that get_buffer_size adds up are those the search adds up, as *)
(* long as reading starts at the first slot.                               *)
LEMMA TotalIs ==
  ASSUME Ring!TypeOK, Ring!RingShape, out_offs = 0
  PROVE  TotalSize(Ring!Slots) = Ring!CumulativeOffset(MaxWriteOps)
  <1> DEFINE S == Ring!Slots
             f == [i \in S |-> entry[i].size]
             acc == [k \in Nat |-> Ring!CumulativeOffset(k)]
             Step(h) == [s \in SUBSET S |->
                           IF s = {} THEN 0
                           ELSE entry[CHOOSE x \in s : TRUE].size
                                  + h[s \ {CHOOSE x \in s : TRUE}]]
             g == CHOOSE sum : sum = Step(sum)
  <1>1. /\ IsFiniteSet(S) /\ MaxWriteOps \in Nat /\ S = 0 .. MaxWriteOps - 1
        /\ \A k \in Nat : k < MaxWriteOps => k \in S
    BY CapacityAssumption, FS_Interval DEF Ring!Slots
  <1>2. TotalSize(S) = g[S]
    BY DEF TotalSize, MapThenSumSet, MapThenFoldSet
  <1>3. \A i \in S : f[i] = entry[i].size /\ f[i] \in Nat
    BY SizesAreNatural
  <1>4. \A k \in Nat : acc[k] = Ring!CumulativeOffset(k)
    OBVIOUS
  <1> HIDE DEF S, f, acc
  <1>5. ASSUME NEW h
        PROVE  SumStep(S, f, h) = Step(h)
    <2>1. \A s \in SUBSET S : s # {} => f[Chosen(s)] = entry[Chosen(s)].size
      BY <1>3, ChosenIsIn
    <2>2. QED
      BY <2>1 DEF SumStep, Chosen
  <1>6. \E h : h = SumStep(S, f, h)
    BY <1>1, SumExists
  <1> HIDE DEF Step
  <1>7. g = SumStep(S, f, g)
    <2>1. PICK h : h = SumStep(S, f, h)
      BY <1>6
    <2>2. h = Step(h)
      BY <1>5, <2>1, Zenon
    <2>3. g = Step(g)
      BY <2>2, Zenon
    <2>4. QED
      BY <1>5, <2>3, Zenon
  <1> HIDE DEF g
  <1>8. Summed(0 .. MaxWriteOps - 1, f, g)
    BY <1>1, <1>3, <1>7 DEF Summed
  <1>9. ASSUME NEW k \in Nat, k < MaxWriteOps PROVE acc[k + 1] = acc[k] + f[k]
    <2>1. Ring!LogicalSlot(k) = k
      BY <1>1, <1>9 DEF Ring!LogicalSlot
    <2>2. f[k] = entry[Ring!LogicalSlot(k)].size
      BY <1>1, <1>3, <1>9, <2>1
    <2>3. Ring!CumulativeOffset(k + 1)
            = Ring!CumulativeOffset(k) + entry[Ring!LogicalSlot(k)].size
      BY OffsetFacts
    <2>4. QED
      BY <1>4, <2>2, <2>3
  <1>10. acc[0] = 0
    BY <1>4, OffsetFacts
  <1>11. g[0 .. MaxWriteOps - 1] = acc[MaxWriteOps]
    BY <1>1, <1>8, <1>9, <1>10, SumBelow
  <1>12. QED
    BY <1>1, <1>2, <1>4, <1>11 DEF S

(* The position of a command is the offset at which the search finds it. *)
LEMMA PositionIs ==
  ASSUME Ring!TypeOK, Ring!RingShape, NEW cmd \in 0 .. Ring!Count, NEW offset
  PROVE  PositionOf(cmd, offset) = Ring!CumulativeOffset(cmd) + offset
  <1> DEFINE S == 1 .. cmd
             f == [i \in S |-> Ring!Kept[i].size]
             acc == [k \in Nat |-> Ring!CumulativeOffset(k)]
             Step(h) == [s \in SUBSET S |->
                           IF s = {} THEN 0
                           ELSE Ring!Kept[CHOOSE x \in s : TRUE].size
                                  + h[s \ {CHOOSE x \in s : TRUE}]]
             g == CHOOSE sum : sum = Step(sum)
  <1>1. cmd \in Nat /\ Ring!Count \in Nat /\ cmd <= Ring!Count
    BY OffsetFacts, CapacityAssumption
  <1>2. /\ IsFiniteSet(S) /\ S \subseteq 1 .. Ring!Count
        /\ \A k \in Nat : k < cmd => k + 1 \in S /\ (k + 1) - 1 = k
    BY <1>1, FS_Interval
  <1>3. PositionOf(cmd, offset) = g[S] + offset
    BY DEF PositionOf, MapThenSumSet, MapThenFoldSet
  <1>4. \A i \in S : f[i] = Ring!Kept[i].size
    OBVIOUS
  <1>5. \A k \in Nat : acc[k] = Ring!CumulativeOffset(k)
    OBVIOUS
  <1> HIDE DEF S, f, acc
  <1>6. \A i \in S : /\ f[i] = entry[Ring!LogicalSlot(i - 1)].size
                     /\ f[i] \in Nat
    BY <1>2, <1>4, KeptFacts DEF Commands
  <1>7. ASSUME NEW h
        PROVE  SumStep(S, f, h) = Step(h)
    <2>1. \A s \in SUBSET S : s # {} => f[Chosen(s)] = Ring!Kept[Chosen(s)].size
      BY <1>4, ChosenIsIn
    <2>2. QED
      BY <2>1 DEF SumStep, Chosen
  <1>8. \E h : h = SumStep(S, f, h)
    BY <1>2, SumExists
  <1> HIDE DEF Step
  <1>9. g = SumStep(S, f, g)
    <2>1. PICK h : h = SumStep(S, f, h)
      BY <1>8
    <2>2. h = Step(h)
      BY <1>7, <2>1, Zenon
    <2>3. g = Step(g)
      BY <2>2, Zenon
    <2>4. QED
      BY <1>7, <2>3, Zenon
  <1> HIDE DEF g
  <1>10. Summed(S, f, g)
    BY <1>2, <1>6, <1>9 DEF Summed
  <1>11. ASSUME NEW k \in Nat, k < cmd PROVE acc[k + 1] = acc[k] + f[k + 1]
    <2>1. f[k + 1] = entry[Ring!LogicalSlot(k)].size
      <3>1. k + 1 \in S /\ (k + 1) - 1 = k
        BY <1>2, <1>11
      <3>2. f[k + 1] = entry[Ring!LogicalSlot((k + 1) - 1)].size
        BY <1>6, <3>1
      <3>3. QED
        BY <3>1, <3>2
    <2>2. Ring!CumulativeOffset(k + 1)
            = Ring!CumulativeOffset(k) + entry[Ring!LogicalSlot(k)].size
      BY OffsetFacts
    <2>3. QED
      BY <1>5, <2>1, <2>2
  <1>12. acc[0] = 0
    BY <1>5, OffsetFacts
  <1>13. g[S] = acc[cmd]
    BY <1>1, <1>10, <1>11, <1>12, SumUpTo DEF S
  <1>14. QED
    BY <1>1, <1>3, <1>5, <1>13

(* The sums of sizes, as a fact that can also be stated of the next state. *)
OffsetLaw ==
  /\ Ring!CumulativeOffset(0) = 0
  /\ \A n \in 0 .. MaxWriteOps : Ring!CumulativeOffset(n) \in Nat
  /\ \A n \in Nat : Ring!CumulativeOffset(n + 1)
                      = Ring!CumulativeOffset(n) + entry[Ring!LogicalSlot(n)].size

LEMMA OffsetsAddUp == Ring!TypeOK /\ Ring!RingShape => OffsetLaw
  BY OffsetFacts DEF OffsetLaw

(* An add that overwrites nothing fills an empty slot: no slot gets        *)
(* smaller, hence no sum of sizes does.                                    *)
LEMMA RingOnlyGrows ==
  ASSUME Ring!TypeOK, Ring!RingShape, ~full => out_offs = 0, NEW e \in Commands,
         Ring!aesd_circular_buffer_add_entry(e), ~full'
  PROVE  /\ ~full /\ out_offs' = 0
         /\ \A k \in 0 .. MaxWriteOps :
              /\ Ring!CumulativeOffset(k) \in Nat /\ Ring!CumulativeOffset(k)' \in Nat
              /\ Ring!CumulativeOffset(k) <= Ring!CumulativeOffset(k)'
  <1>1. Ring!TypeOK' /\ Ring!RingShape'
    BY RingAdd
  <1>2. OffsetLaw /\ OffsetLaw'
    <2>1. OffsetLaw
      BY OffsetsAddUp
    <2>2. OffsetLaw'
      BY <1>1, OffsetsAddUp, PTL
    <2>3. QED
      BY <2>1, <2>2
  <1>3. /\ ~full /\ ~Ring!Overwrites /\ out_offs = 0 /\ out_offs' = 0
        /\ entry' = [entry EXCEPT ![in_offs] = e]
    BY DEF Ring!aesd_circular_buffer_add_entry, Ring!TypeOK
  <1>4. entry[in_offs].size = 0
    <2>1. in_offs \in Ring!Slots /\ entry[in_offs].size \in Nat
      BY SizesAreNatural DEF Ring!TypeOK
    <2>2. ~Ring!Occupied(in_offs)
      BY <1>3 DEF Ring!RingShape, Ring!Overwrites, Ring!Occupied
    <2>3. QED
      BY <2>1, <2>2 DEF Ring!Occupied
  <1>5. \A i \in Ring!Slots : /\ entry[i].size \in Nat /\ entry'[i].size \in Nat
                              /\ entry[i].size <= entry'[i].size
    <2>1. \A i \in Ring!Slots : entry[i].size \in Nat
      BY SizesAreNatural
    <2>2. e.size \in Nat
      BY DEF Commands
    <2>3. \A i \in Ring!Slots : entry'[i] = IF i = in_offs THEN e ELSE entry[i]
      BY <1>3 DEF Ring!TypeOK
    <2>4. QED
      BY <1>4, <2>1, <2>2, <2>3
  <1>6. \A k \in Ring!Slots : Ring!LogicalSlot(k) = k /\ Ring!LogicalSlot(k)' = k
    <2>1. MaxWriteOps \in Nat /\ MaxWriteOps > 0
      BY CapacityAssumption
    <2>2. QED
      BY <1>3, <2>1 DEF Ring!LogicalSlot, Ring!Slots
  <1> DEFINE old(k) == Ring!CumulativeOffset(k)
             new(k) == Ring!CumulativeOffset(k)'
             T == {k \in Nat : k <= MaxWriteOps => old(k) <= new(k)}
  <1>7. /\ old(0) = 0 /\ new(0) = 0
        /\ \A k \in 0 .. MaxWriteOps : old(k) \in Nat /\ new(k) \in Nat
    BY <1>2 DEF OffsetLaw
  <1>8. \A k \in Ring!Slots : /\ k \in Nat
                              /\ old(k + 1) = old(k) + entry[k].size
                              /\ new(k + 1) = new(k) + entry'[k].size
    BY <1>2, <1>6 DEF OffsetLaw, Ring!Slots
  <1> HIDE DEF old, new
  <1>9. MaxWriteOps \in Nat
    BY CapacityAssumption
  <1>10. 0 \in T
    BY <1>7
  <1>11. ASSUME NEW k \in Nat, k \in T PROVE k + 1 \in T
    <2> SUFFICES ASSUME k + 1 <= MaxWriteOps PROVE old(k + 1) <= new(k + 1)
      OBVIOUS
    <2>1. k \in Ring!Slots /\ k \in 0 .. MaxWriteOps /\ k <= MaxWriteOps
      BY <1>9 DEF Ring!Slots
    <2>2. old(k) <= new(k)
      BY <1>11, <2>1
    <2>3. old(k) \in Nat /\ new(k) \in Nat
      BY <1>7, <2>1
    <2>4. entry[k].size \in Nat /\ entry'[k].size \in Nat
          /\ entry[k].size <= entry'[k].size
      BY <1>5, <2>1
    <2>5. QED
      BY <1>8, <2>1, <2>2, <2>3, <2>4
  <1> HIDE DEF T
  <1>12. Nat \subseteq T
    BY <1>10, <1>11, NatInd
  <1>13. \A k \in 0 .. MaxWriteOps : old(k) <= new(k)
    BY <1>9, <1>12 DEF T
  <1>14. QED
    BY <1>3, <1>7, <1>13 DEF old, new

(* A seek under way, while nothing has been overwritten: the size that     *)
(* llseek carries and the sum that the ioctl carries were right when they  *)
(* were read, and the device has only grown since.                         *)
SeekOf(p) ==
  ~full =>
    /\ (pc[p] \in {"unlock", "place"} /\ call[p].op = "llseek") =>
         /\ local[p].dev_size \in Int
         /\ local[p].dev_size <= Ring!CumulativeOffset(MaxWriteOps)
    /\ pc[p] = "sum" => local[p].newpos <= Ring!CumulativeOffset(local[p].i)

SeekInv == (~full => out_offs = 0) /\ \A p \in Procs : SeekOf(p)

(* A process that has no seek under way. *)
LEMMA NoSeek ==
  ASSUME NEW p \in Procs, pc'[p] # "sum",
         pc'[p] \in {"unlock", "place"} => call'[p].op # "llseek"
  PROVE  SeekOf(p)'
  BY DEF SeekOf

(* Nothing changes for a seek while nobody touches the ring. *)
LEMMA SeekFrame ==
  ASSUME NEW p \in Procs, SeekOf(p), UNCHANGED ring,
         pc'[p] = pc[p], call'[p] = call[p], local'[p] = local[p]
  PROVE  SeekOf(p)'
  <1>1. UNCHANGED << entry, in_offs, out_offs, full >>
    BY DEF ring
  <1>2. \A n : Ring!CumulativeOffset(n)' = Ring!CumulativeOffset(n)
    BY <1>1 DEF Ring!CumulativeOffset, Ring!LogicalSlot
  <1>3. QED
    BY <1>1, <1>2 DEF SeekOf

(* Nor when a command is added to a ring that has room. *)
LEMMA SeekUnderAdd ==
  ASSUME DataInv, DeviceRingShape, ~full => out_offs = 0,
         NEW e \in Commands, Ring!aesd_circular_buffer_add_entry(e),
         NEW p \in Procs, SeekOf(p),
         pc'[p] = pc[p], call'[p] = call[p], local'[p] = local[p]
  PROVE  SeekOf(p)'
  <1> SUFFICES ASSUME ~full' PROVE SeekOf(p)'
    BY DEF SeekOf
  <1>1. /\ ~full
        /\ \A k \in 0 .. MaxWriteOps :
             /\ Ring!CumulativeOffset(k) \in Nat /\ Ring!CumulativeOffset(k)' \in Nat
             /\ Ring!CumulativeOffset(k) <= Ring!CumulativeOffset(k)'
    BY RingOnlyGrows DEF DataInv, DeviceTypeOK, DeviceRingShape
  <1>2. MaxWriteOps \in Nat /\ MaxWriteOps \in 0 .. MaxWriteOps
    BY CapacityAssumption
  <1>3. ASSUME pc[p] \in {"unlock", "place"}, call[p].op = "llseek"
        PROVE  /\ local[p].dev_size \in Int
               /\ local[p].dev_size <= Ring!CumulativeOffset(MaxWriteOps)'
    <2>1. /\ local[p].dev_size \in Int
          /\ local[p].dev_size <= Ring!CumulativeOffset(MaxWriteOps)
      BY <1>1, <1>3 DEF SeekOf
    <2>2. /\ Ring!CumulativeOffset(MaxWriteOps) \in Nat
          /\ Ring!CumulativeOffset(MaxWriteOps)' \in Nat
          /\ Ring!CumulativeOffset(MaxWriteOps) <= Ring!CumulativeOffset(MaxWriteOps)'
      BY <1>1, <1>2
    <2>3. QED
      BY <2>1, <2>2
  <1>4. ASSUME pc[p] = "sum"
        PROVE  local[p].newpos <= Ring!CumulativeOffset(local[p].i)'
    <2>1. local[p].newpos <= Ring!CumulativeOffset(local[p].i) /\ local[p].newpos \in Nat
      BY <1>1, <1>4 DEF SeekOf, DataInv, CarriedTypeOK, CarriedBy
    <2>2. local[p].i \in 0 .. MaxWriteOps
      BY <1>2, <1>4 DEF DataInv, CarriedTypeOK, CarriedBy, Ring!Slots
    <2>3. /\ Ring!CumulativeOffset(local[p].i) \in Nat
          /\ Ring!CumulativeOffset(local[p].i)' \in Nat
          /\ Ring!CumulativeOffset(local[p].i) <= Ring!CumulativeOffset(local[p].i)'
      BY <1>1, <2>2
    <2>4. QED
      BY <2>1, <2>3
  <1>5. QED
    BY <1>3, <1>4 DEF SeekOf

(* The process that moves: it leaves llseek's size behind it, or reads it  *)
(* from the device as it is, and the ioctl adds the size of the slot that  *)
(* comes next.                                                             *)
LEMMA MoverKeepsSeekOf ==
  ASSUME PlaceInv, DataInv, DeviceRingShape, ~full => out_offs = 0,
         NEW q \in Procs, SeekOf(q), Other(q)
  PROVE  SeekOf(q)'
  <1>0. /\ pc \in [Procs -> Labels] /\ DOMAIN call = Procs /\ DOMAIN local = Procs
        /\ Fits(pc[q], call[q].op)
    BY DEF PlaceInv, PlaceTypeOK, CallMatchesPlace, DataInv, CarriedTypeOK
  <1>1. UNCHANGED ring /\ UNCHANGED << entry, out_offs, full >>
    BY OtherStepsFrame DEF ring
  <1>2. \A n : Ring!CumulativeOffset(n)' = Ring!CumulativeOffset(n)
    BY <1>1 DEF Ring!CumulativeOffset, Ring!LogicalSlot
  <1>3. OffsetLaw /\ MaxWriteOps \in Nat /\ MaxWriteOps \in 0 .. MaxWriteOps
    BY OffsetsAddUp, CapacityAssumption DEF DataInv, DeviceTypeOK, DeviceRingShape
  <1>4. CASE User(q) /\ ~aesd_ioctl(q)
    BY <1>0, <1>4, NoSeek
    DEF User, aesd_open, aesd_release, aesd_read, aesd_write, aesd_llseek, Enter, Goto
  <1>5. CASE aesd_ioctl(q)
    <2>1. pc'[q] = "sum" /\ local'[q] = [newpos |-> 0, i |-> 0]
      BY <1>0, <1>5 DEF aesd_ioctl, Enter, Goto, Keep
    <2>2. Ring!CumulativeOffset(0)' = 0
      BY <1>2, <1>3 DEF OffsetLaw
    <2>3. QED
      BY <2>1, <2>2 DEF SeekOf
  <1>6. CASE mutex_lock_interruptible(q)
    <2>1. call[q].op \in {"read", "write", "llseek"}
      BY <1>0, <1>6 DEF mutex_lock_interruptible, Fits
    <2>2. pc'[q] \in {"find", "alloc", "size"}
      BY <1>0, <1>6, <2>1 DEF mutex_lock_interruptible, Locked, Goto
    <2>3. QED
      BY <2>2, NoSeek
  <1>7. CASE Interrupted(q)
    <2>1. CASE call[q].op = "llseek"
      <3>1. pc'[q] = "unlock" /\ local'[q] = [dev_size |-> -12]
        BY <1>0, <1>7, <2>1 DEF Interrupted, Goto, Keep, ENOMEM
      <3>2. Ring!CumulativeOffset(MaxWriteOps)' \in Nat
        BY <1>2, <1>3 DEF OffsetLaw
      <3>3. QED
        BY <3>1, <3>2 DEF SeekOf
    <2>2. CASE call[q].op # "llseek"
      BY <1>0, <1>7, <2>2, NoSeek DEF Interrupted, ReadGivesUp, Goto, Return
    <2>3. QED
      BY <2>1, <2>2
  <1>8. CASE mutex_unlock(q)
    <2>1. CASE call[q].op = "llseek"
      <3>1. pc[q] = "unlock" /\ pc'[q] = "place" /\ local' = local /\ call' = call
        BY <1>0, <1>8, <2>1 DEF mutex_unlock, Goto
      <3>2. QED
        BY <1>1, <1>2, <2>1, <3>1 DEF SeekOf
    <2>2. CASE call[q].op # "llseek"
      BY <1>0, <1>8, <2>2, NoSeek DEF mutex_unlock, Goto, Return
    <2>3. QED
      BY <2>1, <2>2
  <1>9. CASE ReadFind(q) \/ ReadCopy(q)
    BY <1>0, <1>9, NoSeek DEF ReadFind, ReadCopy, Goto, Fits
  <1>10. CASE get_buffer_size(q)
    <2>1. local'[q] = [dev_size |-> TotalSize(Ring!Slots)] /\ pc'[q] = "unlock"
      BY <1>0, <1>10 DEF get_buffer_size, Keep, Goto
    <2>2. ~full => TotalSize(Ring!Slots) = Ring!CumulativeOffset(MaxWriteOps)
      BY TotalIs DEF DataInv, DeviceTypeOK, DeviceRingShape
    <2>3. Ring!CumulativeOffset(MaxWriteOps)' \in Nat
      BY <1>2, <1>3 DEF OffsetLaw
    <2>4. ~full' => local'[q].dev_size = Ring!CumulativeOffset(MaxWriteOps)'
      BY <1>1, <1>2, <2>1, <2>2
    <2>5. QED
      BY <2>1, <2>3, <2>4 DEF SeekOf
  <1>11. CASE SeekPlace(q) \/ IoctlPlace(q)
    BY <1>0, <1>11, NoSeek DEF SeekPlace, IoctlPlace, Return, Goto
  <1>12. CASE IoctlSum(q)
    <2> DEFINE i == local[q].i
    <2>1. /\ pc[q] = "sum" /\ pc' = pc
          /\ local'[q] = [newpos |-> local[q].newpos + entry[i].size, i |-> i + 1]
      BY <1>0, <1>12 DEF IoctlSum, Keep
    <2>2. i \in Ring!Slots /\ i \in Nat /\ local[q].newpos \in Nat
          /\ i \in 0 .. MaxWriteOps
      BY <1>3, <1>12, <2>1 DEF IoctlSum, DataInv, CarriedTypeOK, CarriedBy, Ring!Slots
    <2>3. entry[i].size \in Nat
      BY <2>2, SizesAreNatural DEF DataInv, DeviceTypeOK
    <2> SUFFICES ASSUME ~full'
                 PROVE  (local[q].newpos <= Ring!CumulativeOffset(local[q].i))'
      BY <2>1 DEF SeekOf
    <2>4. local[q].newpos <= Ring!CumulativeOffset(i)
      BY <1>1, <2>1 DEF SeekOf
    <2>5. Ring!LogicalSlot(i) = i
      BY <1>1, <1>3, <2>2 DEF Ring!LogicalSlot, Ring!Slots
    <2>6. /\ Ring!CumulativeOffset(i + 1) = Ring!CumulativeOffset(i) + entry[i].size
          /\ Ring!CumulativeOffset(i) \in Nat
      BY <1>3, <2>2, <2>5 DEF OffsetLaw
    <2>7. local[q].newpos + entry[i].size <= Ring!CumulativeOffset(i + 1)
      BY <2>2, <2>3, <2>4, <2>6
    <2>8. local'[q].newpos = local[q].newpos + entry[i].size /\ local'[q].i = i + 1
      BY <2>1
    <2>9. Ring!CumulativeOffset(local[q].i)' = Ring!CumulativeOffset(i + 1)
      BY <1>2, <2>8
    <2>10. QED
      BY <2>7, <2>8, <2>9
  <1>13. QED
    BY <1>4, <1>5, <1>6, <1>7, <1>8, <1>9, <1>10, <1>11, <1>12 DEF Other

(* A step of write: only the commit of a finished line touches the ring. *)
LEMMA WriteKeepsSeekInv ==
  ASSUME PlaceInv, DataInv, DeviceRingShape, SeekInv, NEW q \in Procs,
         WriteAlloc(q) \/ WriteFill(q) \/ WriteAppend(q) \/ WriteCommit(q),
         UNCHANGED broken
  PROVE  SeekInv'
  <1>1. \A p \in Procs \ {q} : pc'[p] = pc[p] /\ call'[p] = call[p] /\ local'[p] = local[p]
    BY StepIsOwn DEF Kernel
  <1>2. SeekOf(q)'
    <2>1. call[q].op = "write" /\ call' = call /\ pc \in [Procs -> Labels]
      BY DEF WriteAlloc, WriteFill, CopyFails, WriteAppend, WriteCommit, Gather,
             ReallocFails, FreeThenFail, Fail, PlaceInv, PlaceTypeOK, CallMatchesPlace, Fits
    <2>2. pc'[q] # "sum"
      BY <2>1 DEF WriteAlloc, WriteFill, CopyFails, WriteAppend, WriteCommit, Gather,
                  ReallocFails, FreeThenFail, Fail, Goto
    <2>3. QED
      BY <2>1, <2>2, NoSeek
  <1>3. CASE UNCHANGED ring
    <2>1. \A p \in Procs \ {q} : SeekOf(p)'
      BY <1>1, <1>3, SeekFrame DEF SeekInv
    <2>2. (~full => out_offs = 0)'
      BY <1>3 DEF ring, SeekInv
    <2>3. QED
      BY <1>2, <2>1, <2>2 DEF SeekInv
  <1>4. CASE ~UNCHANGED ring
    <2>1. dev_entry \in Commands /\ Ring!aesd_circular_buffer_add_entry(dev_entry)
      <3>1. WriteCommit(q) /\ dev_entry.size > 0 /\ EndLine
        BY <1>4 DEF WriteAlloc, WriteFill, CopyFails, WriteAppend, WriteCommit,
                    Gather, ReallocFails, FreeThenFail, Fail
      <3>2. QED
        BY <3>1 DEF EndLine, AddThenLeave, DataInv, DeviceTypeOK, Ring!NoEntry
    <2>2. \A p \in Procs \ {q} : SeekOf(p)'
      BY <1>1, <2>1, SeekUnderAdd DEF SeekInv
    <2>3. (~full => out_offs = 0)'
      BY <2>1, RingOnlyGrows DEF SeekInv, DataInv, DeviceTypeOK, DeviceRingShape
    <2>4. QED
      BY <1>2, <2>2, <2>3 DEF SeekInv
  <1>5. QED
    BY <1>3, <1>4

LEMMA SeekInvariant == Spec => []SeekInv
  <1>1. Init => SeekInv
    BY DEF Init, SeekInv, SeekOf, Ring!aesd_circular_buffer_init
  <1>2. PlaceInv /\ DataInv /\ DeviceRingShape /\ SeekInv /\ [Next]_vars => SeekInv'
    <2> SUFFICES ASSUME PlaceInv, DataInv, DeviceRingShape, SeekInv, [Next]_vars
                 PROVE  SeekInv'
      OBVIOUS
    <2>1. ASSUME NEW q \in Procs, Other(q) PROVE SeekInv'
      <3>1. UNCHANGED ring
        BY <2>1, OtherStepsFrame
      <3>2. \A p \in Procs \ {q} :
              pc'[p] = pc[p] /\ call'[p] = call[p] /\ local'[p] = local[p]
        BY <2>1, StepIsOwn DEF Other, Kernel
      <3>3. \A p \in Procs \ {q} : SeekOf(p)'
        BY <3>1, <3>2, SeekFrame DEF SeekInv
      <3>4. SeekOf(q)'
        BY <2>1, MoverKeepsSeekOf DEF SeekInv
      <3>5. (~full => out_offs = 0)'
        BY <3>1 DEF ring, SeekInv
      <3>6. QED
        BY <3>3, <3>4, <3>5 DEF SeekInv
    <2>2. CASE UNCHANGED vars
      <3>1. UNCHANGED << ring, pc, call, local >> /\ UNCHANGED << full, out_offs >>
        BY <2>2 DEF vars, ring
      <3>2. \A p \in Procs : SeekOf(p)'
        BY <3>1, SeekFrame DEF SeekInv
      <3>3. QED
        BY <3>1, <3>2 DEF SeekInv
    <2>3. QED
      BY <2>1, <2>2, WriteKeepsSeekInv DEF Next, Kernel, Other
  <1>3. QED
    BY <1>1, <1>2, PlacesInvariant, DataInvariant, PTL DEF Spec

(* llseek, which has given the mutex back before it stores the position,   *)
(* puts it inside the device as long as nothing was overwritten: for any   *)
(* number of processes, an interrupted get_buffer_size (whose result is    *)
(* negative) included.  With signals, until a broken mutex has let two     *)
(* calls meet (Raced).                                                     *)
THEOREM SeeksStayInside == Spec => SeekInsideUntilWrap
  <1> DEFINE A == \A p \in Procs :
                    (pc[p] = "place" /\ ~full /\ f_pos'[p] # f_pos[p]) =>
                      f_pos'[p] \in 0 .. TotalSize(Ring!Slots)
  <1>1. PlaceInv /\ DataInv /\ DeviceRingShape /\ SeekInv /\ [Next]_vars => [A]_vars
    <2> SUFFICES ASSUME PlaceInv, DataInv, DeviceRingShape, SeekInv, Next,
                        NEW p \in Procs,
                        pc[p] = "place", ~full, f_pos'[p] # f_pos[p]
                 PROVE  f_pos'[p] \in 0 .. TotalSize(Ring!Slots)
      OBVIOUS
    <2>1. PICK q \in Procs :
            User(q) \/ mutex_lock_interruptible(q) \/ Interrupted(q) \/ Kernel(q)
      BY DEF Next
    <2>2. q = p
      BY <2>1, StepIsOwn
    <2>3. SeekPlace(p)
      BY <2>1, <2>2
      DEF User, aesd_open, aesd_release, aesd_read, aesd_write, aesd_llseek,
          aesd_ioctl, Enter, mutex_lock_interruptible, Interrupted, Kernel,
          ReadFind, ReadCopy, WriteAlloc, WriteFill, WriteAppend, WriteCommit,
          get_buffer_size, IoctlSum, IoctlPlace, mutex_unlock
    <2>4. call[p].op = "llseek"
      BY DEF PlaceInv, CallMatchesPlace, Fits
    <2>5. local[p].dev_size \in Int /\ local[p].dev_size <= TotalSize(Ring!Slots)
      BY <2>4, TotalIs DEF SeekInv, SeekOf, DataInv, DeviceTypeOK, DeviceRingShape
    <2>6. f_pos'[p] = SeekTarget(p) /\ SeekTarget(p) \in 0 .. local[p].dev_size
      BY <2>3 DEF SeekPlace, AcceptsTarget, MoveTo, DataInv
    <2>7. TotalSize(Ring!Slots) \in Nat
      BY TotalIs, OffsetFacts, CapacityAssumption
      DEF SeekInv, DataInv, DeviceTypeOK, DeviceRingShape
    <2>8. QED
      BY <2>5, <2>6, <2>7
  <1>2. QED
    BY <1>1, PlacesInvariant, DataInvariant, SeekInvariant, PTL
    DEF Spec, SeekInsideUntilWrap

(* The ioctl, which never takes the mutex, moves the position only to a    *)
(* byte of a command the device has and never past the byte it was asked   *)
(* for, whatever is written while it adds up sizes, as long as nothing was *)
(* overwritten.  With signals, until a broken mutex has let two calls meet *)
(* (Raced).                                                                *)
THEOREM SeekToStaysBefore == Spec => SeekToNeverOvershoots
  <1> DEFINE A == \A p \in Procs :
                    (pc[p] = "sum" /\ pc'[p] = "open" /\ f_pos'[p] # f_pos[p] /\ ~full) =>
                      LET cmd    == call[p].write_cmd
                          offset == call[p].write_cmd_offset
                      IN  HasByte(cmd, offset) /\ f_pos'[p] <= PositionOf(cmd, offset)
  <1>1. PlaceInv /\ DataInv /\ DeviceRingShape /\ SeekInv /\ [Next]_vars => [A]_vars
    <2> SUFFICES ASSUME PlaceInv, DataInv, DeviceRingShape, SeekInv, Next,
                        NEW p \in Procs,
                        pc[p] = "sum", pc'[p] = "open", f_pos'[p] # f_pos[p], ~full
                 PROVE  LET cmd    == call[p].write_cmd
                            offset == call[p].write_cmd_offset
                        IN  HasByte(cmd, offset) /\ f_pos'[p] <= PositionOf(cmd, offset)
      OBVIOUS
    <2> DEFINE cmd    == call[p].write_cmd
               offset == call[p].write_cmd_offset
    <2>1. PICK q \in Procs :
            User(q) \/ mutex_lock_interruptible(q) \/ Interrupted(q) \/ Kernel(q)
      BY DEF Next
    <2>2. q = p
      BY <2>1, StepIsOwn
    <2>3. IoctlPlace(p)
      BY <2>1, <2>2
      DEF User, aesd_open, aesd_release, aesd_read, aesd_write, aesd_llseek,
          aesd_ioctl, Enter, mutex_lock_interruptible, Interrupted, Kernel,
          ReadFind, ReadCopy, WriteAlloc, WriteFill, WriteAppend, WriteCommit,
          get_buffer_size, IoctlSum, SeekPlace, mutex_unlock
    <2>4. /\ local[p].i = cmd /\ offset < entry[cmd].size
          /\ f_pos'[p] = local[p].newpos + offset
      BY <2>3 DEF IoctlPlace, AcceptsOffset, MoveTo, DataInv
    <2>5. /\ cmd \in Ring!Slots /\ cmd \in Nat /\ offset \in Nat
          /\ local[p].newpos \in Nat
          /\ local[p].newpos <= Ring!CumulativeOffset(cmd)
          /\ out_offs = 0
      <3>1. call[p] \in Calls /\ call[p].op = "ioctl"
        BY DEF PlaceInv, CallMatchesPlace, Fits, InKernel
      <3>2. cmd \in Nat /\ offset \in Nat
        BY <3>1, CallArguments
      <3>3. QED
        BY <2>4, <3>2 DEF SeekInv, SeekOf, DataInv, CarriedTypeOK, CarriedBy
    <2>6. Ring!TypeOK /\ Ring!RingShape
      BY DEF DataInv, DeviceTypeOK, DeviceRingShape
    <2>7. cmd < Ring!Count /\ cmd \in 0 .. Ring!Count /\ cmd + 1 \in 1 .. Ring!Count
      <3>1. entry[cmd].size \in Nat
        BY <2>5, <2>6, SizesAreNatural
      <3>2. Ring!Occupied(cmd)
        BY <2>4, <2>5, <3>1 DEF Ring!Occupied
      <3>3. cmd < Ring!Count
        BY <2>5, <2>6, <3>2, CapacityAssumption DEF Ring!RingShape, Ring!Count, Ring!Slots
      <3>4. Ring!Count \in Nat
        BY <2>6, OffsetFacts, CapacityAssumption
      <3>5. QED
        BY <2>5, <3>3, <3>4
    <2>8. Ring!Kept[cmd + 1] = entry[cmd]
      <3>1. Ring!LogicalSlot(cmd) = cmd
        BY <2>5, CapacityAssumption DEF Ring!LogicalSlot, Ring!Slots
      <3>2. (cmd + 1) - 1 = cmd
        BY <2>5
      <3>3. Ring!Kept[cmd + 1] = entry[Ring!LogicalSlot((cmd + 1) - 1)]
        BY <2>6, <2>7, KeptFacts
      <3>4. QED
        BY <3>1, <3>2, <3>3
    <2>9. HasByte(cmd, offset)
      BY <2>4, <2>7, <2>8 DEF HasByte
    <2>10. f_pos'[p] <= PositionOf(cmd, offset)
      <3>1. PositionOf(cmd, offset) = Ring!CumulativeOffset(cmd) + offset
        BY <2>6, <2>7, PositionIs
      <3>2. Ring!CumulativeOffset(cmd) \in Nat
        BY <2>5, <2>6, OffsetFacts, CapacityAssumption DEF Ring!Slots
      <3>3. QED
        BY <2>4, <2>5, <3>1, <3>2
    <2>11. QED
      BY <2>9, <2>10
  <1>2. QED
    BY <1>1, PlacesInvariant, DataInvariant, SeekInvariant, PTL
    DEF Spec, SeekToNeverOvershoots
=============================================================================
