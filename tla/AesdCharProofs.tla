--------------------------- MODULE AesdCharProofs ---------------------------
(* Theorems about the driver, for any number of processes, any capacity    *)
(* and any writes, reads and seeks.                                        *)
EXTENDS AesdChar, SequenceFacts

Labels == InKernel \cup {"closed", "open", "oops"}

(* The calls a process can be in. *)
Calls == [op : {"read"}, count : Counts]
           \cup [op : {"write"}, buf : Payloads]
           \cup {[op |-> "llseek", whence |-> s.whence, off_set |-> s.off_set] : s \in Seeks}
           \cup {[op |-> "ioctl", write_cmd |-> s.write_cmd,
                  write_cmd_offset |-> s.write_cmd_offset] : s \in Seektos}

PlaceTypeOK ==
  /\ lock \in Procs \cup {NULL}
  /\ pc \in [Procs -> Labels]
  /\ call \in [Procs -> Calls \cup {NULL}]
  /\ broken \in BOOLEAN

(* Which handlers a place is a piece of. *)
Fits(label, op) ==
  /\ label \in {"lock", "unlock"} => op \in {"read", "write", "llseek"}
  /\ label \in {"find", "copy"} => op = "read"
  /\ label \in {"alloc", "fill", "append", "commit"} => op = "write"
  /\ label \in {"size", "place"} => op = "llseek"
  /\ label = "sum" => op = "ioctl"

CallMatchesPlace ==
  \A p \in Procs : /\ pc[p] \in InKernel => call[p] \in Calls
                   /\ Fits(pc[p], call[p].op)

(* An interrupted call that unlocks breaks the mutex, and from then on     *)
(* only the rest is invariant.                                             *)
LockUnlessInterrupted ==
  /\ broken => Interruptible
  /\ ~broken => LockCoversDevice

PlaceInv == PlaceTypeOK /\ CallMatchesPlace /\ LockUnlessInterrupted

(* A step inside one handler that neither takes nor gives the mutex. *)
LEMMA StayInHandler ==
  ASSUME PlaceInv, NEW p \in Procs, pc[p] \in InKernel, NEW label \in Labels,
         Goto(p, label), UNCHANGED << lock, call, broken >>,
         pc[p] \in Critical \cup {"oops"} <=> label \in Critical \cup {"oops"},
         Fits(label, call[p].op)
  PROVE  PlaceInv'
  <1>1. pc' = [pc EXCEPT ![p] = label]
    BY DEF Goto
  <1>2. PlaceTypeOK'
    BY <1>1 DEF PlaceInv, PlaceTypeOK
  <1>3. LockUnlessInterrupted'
    BY <1>1 DEF PlaceInv, PlaceTypeOK, LockUnlessInterrupted, LockCoversDevice
  <1>4. CallMatchesPlace'
    BY <1>1 DEF PlaceInv, PlaceTypeOK, CallMatchesPlace
  <1>5. QED
    BY <1>2, <1>3, <1>4 DEF PlaceInv

(* A handler returns from a place outside the critical section. *)
LEMMA ReturnOutsideLock ==
  ASSUME PlaceInv, NEW p \in Procs, Return(p), UNCHANGED << lock, broken >>,
         pc[p] \notin Critical \cup {"oops"}
  PROVE  PlaceInv'
  <1>1. /\ pc' = [pc EXCEPT ![p] = "open"]
        /\ call' = [call EXCEPT ![p] = NULL]
    BY DEF Return, Goto
  <1>2. PlaceTypeOK'
    BY <1>1 DEF PlaceInv, PlaceTypeOK, Labels
  <1>3. LockUnlessInterrupted'
    BY <1>1 DEF PlaceInv, PlaceTypeOK, LockUnlessInterrupted, LockCoversDevice, Critical
  <1>4. CallMatchesPlace'
    BY <1>1 DEF PlaceInv, PlaceTypeOK, CallMatchesPlace, Fits, InKernel
  <1>5. QED
    BY <1>2, <1>3, <1>4 DEF PlaceInv

(* A process enters a handler, short of the mutex. *)
LEMMA EnterOutsideLock ==
  ASSUME PlaceInv, NEW p \in Procs, NEW args \in Calls, NEW label,
         Enter(p, label, args), UNCHANGED broken,
         \/ label = "lock" /\ args.op \in {"read", "write", "llseek"}
         \/ label = "sum" /\ args.op = "ioctl"
  PROVE  PlaceInv'
  <1>1. /\ pc[p] = "open"
        /\ pc' = [pc EXCEPT ![p] = label]
        /\ call' = [call EXCEPT ![p] = args]
        /\ UNCHANGED lock
    BY DEF Enter, Goto
  <1>2. PlaceTypeOK'
    BY <1>1 DEF PlaceInv, PlaceTypeOK, Labels, InKernel
  <1>3. LockUnlessInterrupted'
    BY <1>1 DEF PlaceInv, PlaceTypeOK, LockUnlessInterrupted, LockCoversDevice, Critical
  <1>4. CallMatchesPlace'
    BY <1>1 DEF PlaceInv, PlaceTypeOK, CallMatchesPlace, Fits, InKernel
  <1>5. QED
    BY <1>2, <1>3, <1>4 DEF PlaceInv

(* The user's steps. *)
LEMMA UserKeepsPlaceInv ==
  ASSUME PlaceInv, NEW p \in Procs, User(p)
  PROVE  PlaceInv'
  <1> UNCHANGED broken
    BY DEF User
  <1>1. ASSUME aesd_open(p) \/ aesd_release(p)
        PROVE  PlaceInv'
    <2>1. PICK label \in {"open", "closed"} :
            pc' = [pc EXCEPT ![p] = label] /\ pc[p] \in {"open", "closed"}
      BY <1>1 DEF aesd_open, aesd_release, Goto
    <2>2. UNCHANGED << lock, call >>
      BY <1>1 DEF aesd_open, aesd_release
    <2>3. PlaceTypeOK'
      BY <2>1, <2>2 DEF PlaceInv, PlaceTypeOK, Labels
    <2>4. LockUnlessInterrupted'
      BY <2>1, <2>2 DEF PlaceInv, PlaceTypeOK, LockUnlessInterrupted, LockCoversDevice, Critical
    <2>5. CallMatchesPlace'
      BY <2>1, <2>2 DEF PlaceInv, PlaceTypeOK, CallMatchesPlace, Fits, InKernel
    <2>6. QED
      BY <2>3, <2>4, <2>5 DEF PlaceInv
  <1>2. CASE aesd_read(p)
    <2>1. PICK count \in Counts :
            Enter(p, "lock", [op |-> "read", count |-> count])
      BY <1>2 DEF aesd_read
    <2>2. [op |-> "read", count |-> count] \in Calls
      BY DEF Calls
    <2>3. QED
      BY <2>1, <2>2, EnterOutsideLock
  <1>3. CASE aesd_write(p)
    <2>1. PICK buf \in Payloads :
            Enter(p, "lock", [op |-> "write", buf |-> buf])
      BY <1>3 DEF aesd_write
    <2>2. [op |-> "write", buf |-> buf] \in Calls
      BY DEF Calls
    <2>3. QED
      BY <2>1, <2>2, EnterOutsideLock
  <1>4. CASE aesd_llseek(p)
    <2>1. PICK s \in Seeks :
            Enter(p, "lock", [op |-> "llseek", whence |-> s.whence,
                              off_set |-> s.off_set])
      BY <1>4 DEF aesd_llseek
    <2>2. [op |-> "llseek", whence |-> s.whence, off_set |-> s.off_set] \in Calls
      BY DEF Calls
    <2>3. QED
      BY <2>1, <2>2, EnterOutsideLock
  <1>5. CASE aesd_ioctl(p)
    <2>1. PICK s \in Seektos :
            Enter(p, "sum", [op |-> "ioctl", write_cmd |-> s.write_cmd,
                             write_cmd_offset |-> s.write_cmd_offset])
      BY <1>5 DEF aesd_ioctl
    <2>2. [op |-> "ioctl", write_cmd |-> s.write_cmd,
           write_cmd_offset |-> s.write_cmd_offset] \in Calls
      BY DEF Calls
    <2>3. QED
      BY <2>1, <2>2, EnterOutsideLock
  <1>6. QED
    BY <1>1, <1>2, <1>3, <1>4, <1>5 DEF User

-----------------------------------------------------------------------------
(* The kernel's steps. *)

LEMMA KernelKeepsPlaceInv ==
  ASSUME PlaceInv, NEW p \in Procs, Kernel(p)
  PROVE  PlaceInv'
  <1> USE DEF Labels, InKernel, Critical, Fits
  <1> UNCHANGED broken
    BY DEF Kernel
  <1>1. CASE ReadFind(p)
    <2>1. PICK label \in {"unlock", "copy"} : Goto(p, label)
      BY <1>1 DEF ReadFind
    <2>2. pc[p] = "find" /\ UNCHANGED << lock, call >>
      BY <1>1 DEF ReadFind
    <2>3. call[p].op = "read"
      BY <2>2 DEF PlaceInv, CallMatchesPlace
    <2>4. QED
      BY <2>1, <2>2, <2>3, StayInHandler
  <1>2. CASE ReadCopy(p)
    <2>1. pc[p] = "copy" /\ Goto(p, "unlock") /\ UNCHANGED << lock, call >>
      BY <1>2 DEF ReadCopy
    <2>2. call[p].op = "read"
      BY <2>1 DEF PlaceInv, CallMatchesPlace
    <2>3. QED
      BY <2>1, <2>2, StayInHandler
  <1>3. CASE WriteAlloc(p)
    <2>1. PICK label \in {"unlock", "fill"} : Goto(p, label)
      BY <1>3 DEF WriteAlloc, Fail
    <2>2. pc[p] = "alloc" /\ UNCHANGED << lock, call >>
      BY <1>3 DEF WriteAlloc, Fail
    <2>3. call[p].op = "write"
      BY <2>2 DEF PlaceInv, CallMatchesPlace
    <2>4. QED
      BY <2>1, <2>2, <2>3, StayInHandler
  <1>4. CASE WriteAppend(p)
    <2>1. PICK label \in {"unlock", "commit"} : Goto(p, label)
      BY <1>4 DEF WriteAppend, Gather, ReallocFails, FreeThenFail, Fail
    <2>2. pc[p] = "append" /\ UNCHANGED << lock, call >>
      BY <1>4 DEF WriteAppend, Gather, ReallocFails, FreeThenFail, Fail
    <2>3. call[p].op = "write"
      BY <2>2 DEF PlaceInv, CallMatchesPlace
    <2>4. QED
      BY <2>1, <2>2, <2>3, StayInHandler
  <1>5. CASE WriteCommit(p)
    <2>1. PICK label \in {"unlock", "oops"} : Goto(p, label)
      BY <1>5 DEF WriteCommit
    <2>2. pc[p] = "commit" /\ UNCHANGED << lock, call >>
      BY <1>5 DEF WriteCommit
    <2>3. call[p].op = "write"
      BY <2>2 DEF PlaceInv, CallMatchesPlace
    <2>4. QED
      BY <2>1, <2>2, <2>3, StayInHandler
  <1>6. CASE get_buffer_size(p)
    <2>1. pc[p] = "size" /\ Goto(p, "unlock") /\ UNCHANGED << lock, call >>
      BY <1>6 DEF get_buffer_size
    <2>2. call[p].op = "llseek"
      BY <2>1 DEF PlaceInv, CallMatchesPlace
    <2>3. QED
      BY <2>1, <2>2, StayInHandler
  <1>7. CASE SeekPlace(p)
    <2>1. pc[p] = "place" /\ Return(p) /\ UNCHANGED lock
      BY <1>7 DEF SeekPlace
    <2>2. QED
      BY <2>1, ReturnOutsideLock
  <1>8. CASE IoctlSum(p)
    <2>1. UNCHANGED << lock, pc, call >>
      BY <1>8 DEF IoctlSum
    <2>2. QED
      BY <2>1 DEF PlaceInv, PlaceTypeOK, CallMatchesPlace, LockUnlessInterrupted,
           LockCoversDevice
  <1>9. CASE IoctlPlace(p)
    <2>1. pc[p] = "sum" /\ Return(p) /\ UNCHANGED lock
      BY <1>9 DEF IoctlPlace
    <2>2. QED
      BY <2>1, ReturnOutsideLock
  <1>10. CASE mutex_unlock(p)
    <2>1. /\ pc[p] = "unlock" /\ lock' = NULL
          /\ \/ /\ call[p].op = "llseek" /\ UNCHANGED call
                /\ pc' = [pc EXCEPT ![p] = "place"]
             \/ /\ call' = [call EXCEPT ![p] = NULL]
                /\ pc' = [pc EXCEPT ![p] = "open"]
      BY <1>10 DEF mutex_unlock, Return, Goto
    <2>2. ~broken => lock = p
      BY <2>1 DEF PlaceInv, LockUnlessInterrupted, LockCoversDevice
    <2>3. PlaceTypeOK'
      BY <2>1 DEF PlaceInv, PlaceTypeOK
    <2>4. LockUnlessInterrupted'
      BY <2>1, <2>2, ProcsAssumption DEF PlaceInv, PlaceTypeOK, LockUnlessInterrupted, LockCoversDevice
    <2>5. CallMatchesPlace'
      BY <2>1 DEF PlaceInv, PlaceTypeOK, CallMatchesPlace
    <2>6. QED
      BY <2>3, <2>4, <2>5 DEF PlaceInv
  <1>11. CASE WriteFill(p)
    <2>1. PICK label \in {"unlock", "append"} : Goto(p, label)
      BY <1>11 DEF WriteFill, CopyFails, FreeThenFail, Fail
    <2>2. pc[p] = "fill" /\ UNCHANGED << lock, call >>
      BY <1>11 DEF WriteFill, CopyFails, FreeThenFail, Fail
    <2>3. call[p].op = "write"
      BY <2>2 DEF PlaceInv, CallMatchesPlace
    <2>4. QED
      BY <2>1, <2>2, <2>3, StayInHandler
  <1>12. QED
    BY <1>1, <1>2, <1>3, <1>4, <1>5, <1>6, <1>7, <1>8, <1>9, <1>10, <1>11 DEF Kernel

LEMMA LockingKeepsPlaceInv ==
  ASSUME PlaceInv, NEW p \in Procs, mutex_lock_interruptible(p)
  PROVE  PlaceInv'
  <1> USE DEF Labels, InKernel, Critical, Fits
  <1>1. call[p].op \in {"read", "write", "llseek"}
    BY DEF PlaceInv, CallMatchesPlace, mutex_lock_interruptible
  <1>2. Locked(p) = IF call[p].op = "read" THEN "find"
                    ELSE IF call[p].op = "write" THEN "alloc" ELSE "size"
    BY <1>1 DEF Locked
  <1>3. /\ pc[p] = "lock" /\ lock = NULL /\ lock' = p /\ UNCHANGED << call, broken >>
        /\ pc' = [pc EXCEPT ![p] = Locked(p)]
    BY DEF mutex_lock_interruptible, LockFree, Goto
  <1>4. PlaceTypeOK'
    BY <1>1, <1>2, <1>3 DEF PlaceInv, PlaceTypeOK
  <1>5. LockUnlessInterrupted'
    BY <1>1, <1>2, <1>3, ProcsAssumption DEF PlaceInv, PlaceTypeOK, LockUnlessInterrupted, LockCoversDevice
  <1>6. CallMatchesPlace'
    BY <1>1, <1>2, <1>3 DEF PlaceInv, PlaceTypeOK, CallMatchesPlace
  <1>7. QED
    BY <1>4, <1>5, <1>6 DEF PlaceInv

(* With signals too a process stays in the handler it called. *)
LEMMA InterruptedKeepsPlaceInv ==
  ASSUME PlaceInv, NEW p \in Procs, Interrupted(p)
  PROVE  PlaceInv'
  <1> USE DEF Labels, InKernel, Critical, Fits
  <1>1. Interruptible /\ pc[p] = "lock" /\ UNCHANGED lock
    BY DEF Interrupted
  <1>2. CASE Return(p) /\ UNCHANGED broken
    BY <1>1, <1>2, ReturnOutsideLock
  <1>3. CASE /\ call[p].op \in {"write", "llseek"} /\ UNCHANGED call
             /\ Goto(p, "unlock") /\ broken' = TRUE
    <2>1. pc' = [pc EXCEPT ![p] = "unlock"]
      BY <1>3 DEF Goto
    <2>2. PlaceTypeOK'
      BY <1>1, <1>3, <2>1 DEF PlaceInv, PlaceTypeOK
    <2>3. CallMatchesPlace'
      BY <1>1, <1>3, <2>1 DEF PlaceInv, PlaceTypeOK, CallMatchesPlace
    <2>4. QED
      BY <1>1, <1>3, <2>2, <2>3 DEF PlaceInv, LockUnlessInterrupted
  <1>4. QED
    BY <1>2, <1>3 DEF Interrupted, ReadGivesUp

(* The places of the processes, for every behaviour. *)
LEMMA PlacesInvariant == Spec => []PlaceInv
  <1>1. Init => PlaceInv
    <2> SUFFICES ASSUME Init PROVE PlaceInv
      OBVIOUS
    <2>1. /\ lock = NULL /\ broken = FALSE
          /\ pc = [p \in Procs |-> "closed"]
          /\ call = [p \in Procs |-> NULL]
      BY DEF Init
    <2>2. QED
      BY <2>1, ProcsAssumption
      DEF PlaceInv, PlaceTypeOK, CallMatchesPlace, Fits,
          LockUnlessInterrupted, LockCoversDevice, Labels, InKernel, Critical
  <1>2. PlaceInv /\ [Next]_vars => PlaceInv'
    <2> SUFFICES ASSUME PlaceInv, [Next]_vars PROVE PlaceInv'
      OBVIOUS
    <2>1. ASSUME NEW p \in Procs, User(p) PROVE PlaceInv'
      BY <2>1, UserKeepsPlaceInv
    <2>2. ASSUME NEW p \in Procs, mutex_lock_interruptible(p) PROVE PlaceInv'
      BY <2>2, LockingKeepsPlaceInv
    <2>3. ASSUME NEW p \in Procs, Interrupted(p) PROVE PlaceInv'
      BY <2>3, InterruptedKeepsPlaceInv
    <2>4. ASSUME NEW p \in Procs, Kernel(p) PROVE PlaceInv'
      BY <2>4, KernelKeepsPlaceInv
    <2>5. CASE UNCHANGED vars
      BY <2>5 DEF vars, PlaceInv, PlaceTypeOK, CallMatchesPlace,
                  LockUnlessInterrupted, LockCoversDevice
    <2>6. QED
      BY <2>1, <2>2, <2>3, <2>4, <2>5 DEF Next
  <1>3. QED
    BY <1>1, <1>2, PTL DEF Spec

(* As long as no signal interrupts the wait for the mutex, every piece of  *)
(* a handler that touches the device runs with the mutex, for any number   *)
(* of processes: what "locking must be performed by caller" asks.          *)
THEOREM LockIsHeld ==
  ASSUME ~Interruptible
  PROVE  Spec => []LockCoversDevice
  <1>1. PlaceInv => LockCoversDevice
    BY DEF PlaceInv, LockUnlessInterrupted
  <1>2. QED
    BY <1>1, PlacesInvariant, PTL

(* Two calls meet at the line or at the ring only after an interrupted     *)
(* write or llseek has unlocked a mutex it did not own: whatever is true   *)
(* until they meet is true for ever when the waits of these two, of all    *)
(* calls the ones that unlock on their way out, are never interrupted.     *)
THEOREM OnlyInterruptionRaces == Spec => []RacesNeedInterruption
  <1>1. LockCoversDevice => ~Raced
    BY DEF LockCoversDevice, Raced, Critical
  <1>2. PlaceInv => RacesNeedInterruption
    BY <1>1 DEF PlaceInv, LockUnlessInterrupted, RacesNeedInterruption
  <1>3. QED
    BY <1>2, PlacesInvariant, PTL

-----------------------------------------------------------------------------
(* The ring in the driver: what was proved of it alone, with the commands  *)
(* for its entries.                                                        *)
RingFacts == INSTANCE CircularBufferProofs WITH Entries <- Commands

LEMMA RingAssumptions ==
  RingFacts!MaxWriteOpsAssumption /\ RingFacts!EntriesAssumption
  BY CapacityAssumption
  DEF Commands, RingFacts!MaxWriteOpsAssumption, RingFacts!EntriesAssumption

LEMMA RingInit ==
  ASSUME Ring!aesd_circular_buffer_init
  PROVE  Ring!TypeOK /\ Ring!RingShape
  <1>1. RingFacts!aesd_circular_buffer_init
    BY DEF Ring!aesd_circular_buffer_init, Ring!Slots, Ring!NoEntry,
           RingFacts!aesd_circular_buffer_init, RingFacts!Slots, RingFacts!NoEntry
  <1>2. RingFacts!TypeOK /\ RingFacts!RingShape
    BY <1>1, RingAssumptions, RingFacts!EmptyIsTyped, RingFacts!EmptyHasShape
  <1>3. QED
    BY <1>2
    DEF Ring!TypeOK, Ring!Slots, Ring!NoEntry, Ring!RingShape, Ring!Occupied,
        RingFacts!TypeOK, RingFacts!Slots, RingFacts!NoEntry,
        RingFacts!RingShape, RingFacts!Occupied

LEMMA RingAdd ==
  ASSUME Ring!TypeOK, NEW e \in Commands, Ring!aesd_circular_buffer_add_entry(e)
  PROVE  Ring!TypeOK' /\ (Ring!RingShape => Ring!RingShape')
  <1>1. RingFacts!TypeOK /\ (Ring!RingShape => RingFacts!RingShape)
    BY DEF Ring!TypeOK, Ring!Slots, Ring!NoEntry, Ring!RingShape, Ring!Occupied,
           RingFacts!TypeOK, RingFacts!Slots, RingFacts!NoEntry,
           RingFacts!RingShape, RingFacts!Occupied
  <1>2. RingFacts!aesd_circular_buffer_add_entry(e)
    BY DEF Ring!aesd_circular_buffer_add_entry, Ring!Overwrites, Ring!Advance,
           RingFacts!aesd_circular_buffer_add_entry, RingFacts!Overwrites,
           RingFacts!Advance
  <1>3. RingFacts!TypeOK'
    BY <1>1, <1>2, RingAssumptions, RingFacts!AddKeepsTypes
  <1>4. Ring!RingShape => RingFacts!RingShape'
    BY <1>1, <1>2, RingAssumptions, RingFacts!AddKeepsShape
  <1>5. QED
    BY <1>3, <1>4
    DEF Ring!TypeOK, Ring!Slots, Ring!NoEntry, Ring!RingShape, Ring!Occupied,
        RingFacts!TypeOK, RingFacts!Slots, RingFacts!NoEntry,
        RingFacts!RingShape, RingFacts!Occupied

-----------------------------------------------------------------------------
(* Type correctness. *)

(* What a call carries from one piece of its handler to the next. *)
CarriedBy(p) ==
  /\ pc[p] \in {"fill", "append"} => Len(call[p].buf) <= KMALLOC_MAX
  /\ pc[p] = "copy" => local[p].slot \in Ring!Slots
  /\ pc[p] = "sum" => /\ call[p].write_cmd \in Ring!Slots
                      /\ local[p].i \in 0 .. call[p].write_cmd
                      /\ local[p].newpos \in Nat

CarriedTypeOK == DOMAIN local = Procs /\ \A p \in Procs : CarriedBy(p)

DeviceTypeOK ==
  /\ Ring!TypeOK
  /\ dev_entry \in Commands \cup {Ring!NoEntry, [buffptr |-> << >>, size |-> 0]}
  /\ dev_entry.size <= KMALLOC_MAX
  /\ live \in Int /\ live <= HeapBlocks
  /\ evicted \in Nat

DataInv == DeviceTypeOK /\ f_pos \in [Procs -> Nat] /\ CarriedTypeOK

(* The arguments of the calls. *)
LEMMA CallArguments ==
  ASSUME NEW c \in Calls
  PROVE  /\ c.op = "read" => c.count \in Nat
         /\ c.op = "write" => c.buf \in Payloads /\ Len(c.buf) \in Nat
         /\ c.op = "ioctl" => c.write_cmd \in Nat /\ c.write_cmd_offset \in Nat
  <1>1. CASE c \in [op : {"read"}, count : Counts]
    BY <1>1, ArgumentsAssumption
  <1>2. CASE c \in [op : {"write"}, buf : Payloads]
    BY <1>2, ArgumentsAssumption
  <1>3. CASE \E s \in Seeks :
               c = [op |-> "llseek", whence |-> s.whence, off_set |-> s.off_set]
    BY <1>3
  <1>4. CASE \E s \in Seektos :
               c = [op |-> "ioctl", write_cmd |-> s.write_cmd,
                    write_cmd_offset |-> s.write_cmd_offset]
    BY <1>4, ArgumentsAssumption
  <1>5. QED
    BY <1>1, <1>2, <1>3, <1>4 DEF Calls

(* What a search finds is in the ring. *)
LEMMA FoundIsASlot ==
  ASSUME Ring!TypeOK, NEW char_offset,
         Ring!aesd_circular_buffer_find_entry_offset_for_fpos(char_offset) # NULL
  PROVE  Ring!aesd_circular_buffer_find_entry_offset_for_fpos(char_offset).slot
           \in Ring!Slots
  <1> DEFINE hits == {i \in Ring!Slots : Ring!CumulativeOffset(i + 1) > char_offset}
  <1>1. Ring!aesd_circular_buffer_find_entry_offset_for_fpos(char_offset)
          = IF hits = {} THEN NULL
            ELSE [slot   |-> Ring!LogicalSlot(Ring!Min(hits)),
                  offset |-> char_offset - Ring!CumulativeOffset(Ring!Min(hits))]
    BY Zenon DEF Ring!aesd_circular_buffer_find_entry_offset_for_fpos
  <1>2. hits # {} /\ hits \in SUBSET Nat /\ hits \subseteq Ring!Slots
    BY <1>1, CapacityAssumption DEF Ring!Slots
  <1>3. Ring!aesd_circular_buffer_find_entry_offset_for_fpos(char_offset).slot
          = Ring!LogicalSlot(Ring!Min(hits))
    BY <1>1, <1>2
  <1> HIDE DEF hits
  <1>4. Ring!Min(hits) \in hits
    BY <1>2, LeastNat DEF Ring!Min
  <1>5. Ring!Min(hits) \in Ring!Slots /\ out_offs \in Ring!Slots
    BY <1>2, <1>4 DEF Ring!TypeOK
  <1>6. Ring!LogicalSlot(Ring!Min(hits)) \in Ring!Slots
    BY <1>5, RingAssumptions, RingFacts!SlotSumWraps
    DEF Ring!LogicalSlot, Ring!Slots, RingFacts!Slots
  <1>7. QED
    BY <1>3, <1>6

(* A read gives as many bytes as it says. *)
LEMMA BytesReadCount ==
  ASSUME Ring!TypeOK, NEW p \in Procs, local[p].slot \in Ring!Slots, call[p].count \in Nat
  PROVE  Len(BytesRead(p)) \in Nat
  <1> DEFINE e     == entry[local[p].slot]
             start == local[p].offset
             n     == IF start \in 0 .. e.size /\ e.size - start < call[p].count
                      THEN e.size - start
                      ELSE call[p].count
             byte(k) == IF start + k <= e.size THEN e.buffptr[start + k] ELSE JUNK
  <1>1. e.size \in Nat
    BY DEF Ring!TypeOK, Commands, Ring!NoEntry
  <1>2. n \in Nat
    BY <1>1
  <1>3. BytesRead(p) = [k \in 1 .. n |-> byte(k)]
    BY Zenon DEF BytesRead
  <1> HIDE DEF n, byte
  <1>4. Len(BytesRead(p)) = n
    BY <1>2, <1>3
  <1>5. QED
    BY <1>2, <1>4

(* The gathered line is absent, or a sequence of as many bytes as it says. *)
LEMMA LineIsCounted ==
  ASSUME DeviceTypeOK
  PROVE  /\ dev_entry.size \in Nat
         /\ dev_entry.buffptr = NULL => dev_entry = Ring!NoEntry
         /\ dev_entry.buffptr # NULL =>
              /\ dev_entry.buffptr \in Seq(Bytes \cup {JUNK})
              /\ dev_entry.size = Len(dev_entry.buffptr)
         /\ dev_entry.size > 0 => dev_entry \in Commands
  <1>1. CASE dev_entry \in Commands
    BY <1>1, ArgumentsAssumption DEF Commands
  <1>2. CASE dev_entry = Ring!NoEntry
    BY <1>2 DEF Ring!NoEntry
  <1>3. CASE dev_entry = [buffptr |-> << >>, size |-> 0]
    <2>1. << >> \in Seq(Bytes \cup {JUNK}) /\ Len(<< >>) = 0
      OBVIOUS
    <2>2. << >> # NULL
      BY <2>1, ArgumentsAssumption
    <2>3. QED
      BY <1>3, <2>1, <2>2
  <1>4. QED
    BY <1>1, <1>2, <1>3 DEF DeviceTypeOK

(* What write does to the gathered line, whichever of its branches runs.   *)
LEMMA JoinedIsALine ==
  ASSUME DeviceTypeOK, NEW buf \in Payloads, NEW bytes,
         \/ dev_entry.buffptr = NULL /\ bytes = buf
         \/ dev_entry.buffptr # NULL /\ \E old \in Old : bytes = old \o buf
  PROVE  /\ [buffptr |-> bytes, size |-> dev_entry.size + Len(buf)]
               \in Commands \cup {[buffptr |-> << >>, size |-> 0]}
         /\ Blocks(bytes) <= Blocks(buf)
              + IF dev_entry.buffptr = NULL THEN 0 ELSE Blocks(dev_entry.buffptr)
  <1> DEFINE S == Seq(Bytes \cup {JUNK})
             joined == [buffptr |-> bytes, size |-> dev_entry.size + Len(buf)]
  <1>1. buf \in S /\ Len(buf) \in Nat
    BY ArgumentsAssumption
  <1>2. bytes \in S /\ Len(bytes) = dev_entry.size + Len(buf)
    <2>1. CASE dev_entry.buffptr = NULL
      <3>1. dev_entry.size = 0 /\ bytes = buf
        BY <2>1, LineIsCounted DEF Ring!NoEntry
      <3>2. QED
        BY <1>1, <3>1
    <2>2. CASE dev_entry.buffptr # NULL
      <3>1. PICK old \in Old : bytes = old \o buf
        BY <2>2
      <3>2. /\ dev_entry.buffptr \in S
            /\ dev_entry.size = Len(dev_entry.buffptr)
            /\ dev_entry.size \in Nat
        BY <2>2, LineIsCounted
      <3>3. CASE old = dev_entry.buffptr
        BY <1>1, <3>1, <3>2, <3>3
      <3>4. CASE old = [i \in 1 .. dev_entry.size |-> JUNK]
        <4>1. old \in S /\ Len(old) = dev_entry.size
          BY <3>2, <3>4
        <4>2. QED
          BY <1>1, <3>1, <4>1
      <3>5. QED
        BY <3>1, <3>3, <3>4 DEF Old
    <2>3. QED
      BY <2>1, <2>2
  <1>3. joined \in Commands \cup {[buffptr |-> << >>, size |-> 0]}
    <2>1. CASE Len(bytes) = 0
      BY <1>2, <2>1
    <2>2. CASE Len(bytes) # 0
      <3>1. Len(bytes) \in Nat \ {0}
        BY <1>2, <2>2
      <3>2. QED
        BY <1>2, <3>1 DEF Commands
    <2>3. QED
      BY <2>1, <2>2
  <1>4. Blocks(bytes) <= Blocks(buf)
          + IF dev_entry.buffptr = NULL THEN 0 ELSE Blocks(dev_entry.buffptr)
    <2>1. CASE dev_entry.buffptr = NULL
      BY <2>1 DEF Blocks
    <2>2. CASE dev_entry.buffptr # NULL /\ buf = << >> /\ dev_entry.buffptr = << >>
      <3>1. Len(bytes) = 0
        BY <1>2, <2>2, LineIsCounted
      <3>2. bytes = << >>
        BY <1>2, <3>1
      <3>3. QED
        BY <2>2, <3>2 DEF Blocks
    <2>3. CASE dev_entry.buffptr # NULL /\ ~(buf = << >> /\ dev_entry.buffptr = << >>)
      BY <2>3 DEF Blocks
    <2>4. QED
      BY <2>1, <2>2, <2>3
  <1>5. QED
    BY <1>3, <1>4

-----------------------------------------------------------------------------
(* Steps that leave the device alone. *)

LEMMA DeviceFrame ==
  ASSUME DeviceTypeOK, UNCHANGED << ring, dev_entry, heap >>
  PROVE  DeviceTypeOK'
  BY DEF DeviceTypeOK, ring, heap, Ring!TypeOK

(* A step of p changes what p carries and nobody else's. *)
StepOf(p) ==
  /\ \E label \in Labels : pc' = [pc EXCEPT ![p] = label]
  /\ UNCHANGED call \/ \E args : call' = [call EXCEPT ![p] = args]
  /\ UNCHANGED local \/ \E value : local' = [local EXCEPT ![p] = value]

LEMMA CarriedFrame ==
  ASSUME PlaceTypeOK, CarriedTypeOK, NEW p \in Procs, StepOf(p), CarriedBy(p)'
  PROVE  CarriedTypeOK'
  <1>1. DOMAIN local' = Procs
    BY DEF CarriedTypeOK, StepOf
  <1>2. ASSUME NEW q \in Procs, q # p PROVE CarriedBy(q)'
    <2>1. pc'[q] = pc[q] /\ call'[q] = call[q] /\ local'[q] = local[q]
      BY <1>2 DEF StepOf, PlaceTypeOK, CarriedTypeOK
    <2>2. QED
      BY <2>1, <1>2 DEF CarriedTypeOK, CarriedBy, Ring!Slots
  <1>3. QED
    BY <1>1, <1>2 DEF CarriedTypeOK

(* Coming to any place but these four carries nothing. *)
LEMMA NothingCarried ==
  ASSUME PlaceTypeOK, NEW p \in Procs, NEW label,
         pc' = [pc EXCEPT ![p] = label], label \notin {"fill", "append", "copy", "sum"}
  PROVE  CarriedBy(p)'
  BY DEF PlaceTypeOK, CarriedBy

LEMMA UserKeepsDataInv ==
  ASSUME PlaceInv, DataInv, NEW p \in Procs, User(p)
  PROVE  DataInv'
  <1> USE DEF Labels, InKernel
  <1>1. UNCHANGED << ring, dev_entry, heap >>
    BY DEF User, aesd_open, aesd_release, aesd_read, aesd_write, aesd_llseek,
           aesd_ioctl, Enter
  <1>2. DeviceTypeOK'
    BY <1>1, DeviceFrame DEF DataInv
  <1>3. f_pos' \in [Procs -> Nat]
    BY DEF DataInv, User, aesd_open, aesd_release, aesd_read, aesd_write,
           aesd_llseek, aesd_ioctl, Enter, MoveTo
  <1>4. StepOf(p)
    BY DEF StepOf, User, aesd_open, aesd_release, aesd_read, aesd_write,
           aesd_llseek, aesd_ioctl, Enter, Goto, Keep
  <1>5. CarriedBy(p)'
    <2>1. CASE aesd_ioctl(p)
      <3>1. PICK s \in Seektos :
              /\ s.write_cmd < MaxWriteOps
              /\ pc' = [pc EXCEPT ![p] = "sum"]
              /\ call' = [call EXCEPT ![p] =
                            [op |-> "ioctl", write_cmd |-> s.write_cmd,
                             write_cmd_offset |-> s.write_cmd_offset]]
              /\ local' = [local EXCEPT ![p] = [newpos |-> 0, i |-> 0]]
        BY <2>1 DEF aesd_ioctl, Enter, Goto, Keep
      <3>2. s.write_cmd \in Ring!Slots /\ s.write_cmd \in Nat
        BY <3>1, ArgumentsAssumption, CapacityAssumption DEF Ring!Slots
      <3>3. pc'[p] = "sum" /\ call'[p].write_cmd = s.write_cmd
              /\ local'[p].i = 0 /\ local'[p].newpos = 0
        BY <3>1 DEF PlaceInv, PlaceTypeOK, DataInv, CarriedTypeOK
      <3>4. QED
        BY <3>2, <3>3 DEF CarriedBy, Ring!Slots
    <2>2. CASE ~aesd_ioctl(p)
      <3>1. PICK label \in {"open", "closed", "lock"} : pc' = [pc EXCEPT ![p] = label]
        BY <2>2 DEF User, aesd_open, aesd_release, aesd_read, aesd_write,
                    aesd_llseek, Enter, Goto
      <3>2. QED
        BY <3>1, NothingCarried DEF PlaceInv
    <2>3. QED
      BY <2>1, <2>2
  <1>6. QED
    BY <1>2, <1>3, <1>4, <1>5, CarriedFrame DEF DataInv, PlaceInv

LEMMA LockingKeepsDataInv ==
  ASSUME PlaceInv, DataInv, NEW p \in Procs,
         mutex_lock_interruptible(p) \/ Interrupted(p) \/ mutex_unlock(p)
  PROVE  DataInv'
  <1> USE DEF Labels, InKernel
  <1>1. UNCHANGED << ring, dev_entry, heap >> /\ UNCHANGED f_pos
    BY DEF mutex_lock_interruptible, Interrupted, mutex_unlock
  <1>2. DeviceTypeOK'
    BY <1>1, DeviceFrame DEF DataInv
  <1>3. PICK label \in {"find", "alloc", "size", "open", "unlock", "place"} :
          pc' = [pc EXCEPT ![p] = label]
    <2>1. CASE mutex_lock_interruptible(p)
      <3>1. call[p].op \in {"read", "write", "llseek"}
        BY <2>1 DEF PlaceInv, CallMatchesPlace, Fits, mutex_lock_interruptible
      <3>2. Locked(p) \in {"find", "alloc", "size"}
        BY <3>1 DEF Locked
      <3>3. QED
        BY <2>1, <3>2 DEF mutex_lock_interruptible, Goto
    <2>2. CASE Interrupted(p) \/ mutex_unlock(p)
      BY <2>2 DEF Interrupted, ReadGivesUp, mutex_unlock, Return, Goto
    <2>3. QED
      BY <2>1, <2>2
  <1>4. StepOf(p)
    BY <1>3 DEF StepOf, mutex_lock_interruptible, Interrupted, ReadGivesUp,
                mutex_unlock, Return, Keep
  <1>5. CarriedBy(p)'
    BY <1>3, NothingCarried DEF PlaceInv
  <1>6. QED
    BY <1>1, <1>2, <1>4, <1>5, CarriedFrame DEF DataInv, PlaceInv

-----------------------------------------------------------------------------
(* The steps of read, llseek and ioctl, which change positions only. *)

LEMMA ReadKeepsDataInv ==
  ASSUME PlaceInv, DataInv, NEW p \in Procs, ReadFind(p) \/ ReadCopy(p)
  PROVE  DataInv'
  <1> USE DEF Labels, InKernel
  <1>1. DeviceTypeOK'
    BY DeviceFrame DEF DataInv, ReadFind, ReadCopy
  <1>2. StepOf(p)
    BY DEF StepOf, ReadFind, ReadCopy, Goto, Keep
  <1>3. CASE ReadFind(p)
    <2> DEFINE found ==
          Ring!aesd_circular_buffer_find_entry_offset_for_fpos(f_pos[p])
    <2>1. \/ found = NULL /\ pc' = [pc EXCEPT ![p] = "unlock"]
          \/ /\ found # NULL
             /\ pc' = [pc EXCEPT ![p] = "copy"]
             /\ local' = [local EXCEPT ![p] = found]
      BY <1>3 DEF ReadFind, Goto, Keep
    <2>2. UNCHANGED f_pos
      BY <1>3 DEF ReadFind
    <2>3. CASE found = NULL
      <3>1. CarriedBy(p)'
        BY <2>1, <2>3, NothingCarried DEF PlaceInv
      <3>2. QED
        BY <1>1, <1>2, <2>2, <3>1, CarriedFrame DEF DataInv, PlaceInv
    <2>4. CASE found # NULL
      <3>1. found.slot \in Ring!Slots
        BY <2>4, FoundIsASlot DEF DataInv, DeviceTypeOK
      <3>2. pc'[p] = "copy" /\ local'[p].slot = found.slot
        BY <2>1, <2>4 DEF PlaceInv, PlaceTypeOK, DataInv, CarriedTypeOK
      <3>3. CarriedBy(p)'
        BY <3>1, <3>2 DEF CarriedBy, Ring!Slots
      <3>4. QED
        BY <1>1, <1>2, <2>2, <3>3, CarriedFrame DEF DataInv, PlaceInv
    <2>5. QED
      BY <2>3, <2>4
  <1>4. CASE ReadCopy(p)
    <2>1. CarriedBy(p)'
      BY <1>4, NothingCarried DEF PlaceInv, ReadCopy, Goto
    <2>2. f_pos' \in [Procs -> Nat]
      <3>1. pc[p] = "copy"
        BY <1>4 DEF ReadCopy
      <3>2. call[p].op = "read" /\ call[p] \in Calls
        BY <3>1 DEF PlaceInv, PlaceTypeOK, CallMatchesPlace, Fits
      <3>3. local[p].slot \in Ring!Slots
        BY <3>1 DEF DataInv, CarriedTypeOK, CarriedBy
      <3>4. call[p].count \in Nat
        BY <3>1, <3>2, CallArguments
      <3>5. Len(BytesRead(p)) \in Nat
        BY <3>3, <3>4, BytesReadCount DEF DataInv, DeviceTypeOK
      <3>6. PositionAfterRead(p) \in Nat
        BY <3>5 DEF PositionAfterRead, DataInv
      <3>7. QED
        BY <1>4, <3>6 DEF ReadCopy, MoveTo, DataInv
    <2>3. QED
      BY <1>1, <1>2, <2>1, <2>2, CarriedFrame DEF DataInv, PlaceInv
  <1>5. QED
    BY <1>3, <1>4

LEMMA SeekKeepsDataInv ==
  ASSUME PlaceInv, DataInv, NEW p \in Procs, get_buffer_size(p) \/ SeekPlace(p)
  PROVE  DataInv'
  <1> USE DEF Labels, InKernel
  <1>1. DeviceTypeOK'
    BY DeviceFrame DEF DataInv, get_buffer_size, SeekPlace
  <1>2. PICK label \in {"unlock", "open"} : pc' = [pc EXCEPT ![p] = label]
    BY DEF get_buffer_size, SeekPlace, Return, Goto
  <1>3. StepOf(p)
    BY <1>2 DEF StepOf, get_buffer_size, SeekPlace, Return, Keep
  <1>4. CarriedBy(p)'
    BY <1>2, NothingCarried DEF PlaceInv
  <1>5. f_pos' \in [Procs -> Nat]
    <2>1. CASE get_buffer_size(p)
      BY <2>1 DEF get_buffer_size, DataInv
    <2>2. CASE SeekPlace(p)
      <3>1. AcceptsTarget(p) => SeekTarget(p) \in Nat
        BY DEF AcceptsTarget
      <3>2. QED
        BY <2>2, <3>1 DEF SeekPlace, MoveTo, DataInv
    <2>3. QED
      BY <2>1, <2>2
  <1>6. QED
    BY <1>1, <1>3, <1>4, <1>5, CarriedFrame DEF DataInv, PlaceInv

LEMMA IoctlKeepsDataInv ==
  ASSUME PlaceInv, DataInv, NEW p \in Procs, IoctlSum(p) \/ IoctlPlace(p)
  PROVE  DataInv'
  <1> USE DEF Labels, InKernel
  <1>1. DeviceTypeOK'
    BY DeviceFrame DEF DataInv, IoctlSum, IoctlPlace
  <1>2. /\ pc[p] = "sum"
        /\ call[p].write_cmd \in Nat /\ call[p].write_cmd_offset \in Nat
        /\ call[p].write_cmd \in Ring!Slots
        /\ local[p].i \in 0 .. call[p].write_cmd
        /\ local[p].newpos \in Nat
    <2>1. pc[p] = "sum"
      BY DEF IoctlSum, IoctlPlace
    <2>2. call[p] \in Calls /\ call[p].op = "ioctl"
      BY <2>1 DEF PlaceInv, CallMatchesPlace, Fits
    <2>3. QED
      BY <2>1, <2>2, CallArguments DEF DataInv, CarriedTypeOK, CarriedBy
  <1>3. CASE IoctlSum(p)
    <2> DEFINE i == local[p].i
    <2>1. /\ i < call[p].write_cmd
          /\ UNCHANGED << pc, call, f_pos >>
          /\ local' = [local EXCEPT ![p] = [newpos |-> local[p].newpos + entry[i].size,
                                           i |-> i + 1]]
      BY <1>3 DEF IoctlSum, Keep
    <2>2. entry[i].size \in Nat
      <3>1. i \in Ring!Slots
        BY <1>2, <2>1, CapacityAssumption DEF Ring!Slots
      <3>2. QED
        BY <3>1 DEF DataInv, DeviceTypeOK, Ring!TypeOK, Commands, Ring!NoEntry
    <2>3. /\ local'[p].i = i + 1
          /\ local'[p].newpos = local[p].newpos + entry[i].size
      BY <2>1 DEF DataInv, CarriedTypeOK
    <2>4. CarriedBy(p)'
      BY <1>2, <2>1, <2>2, <2>3 DEF CarriedBy, Ring!Slots
    <2>5. StepOf(p)
      <3>1. pc' = [pc EXCEPT ![p] = "sum"]
        BY <1>2, <2>1 DEF PlaceInv, PlaceTypeOK
      <3>2. QED
        BY <2>1, <3>1 DEF StepOf
    <2>6. QED
      BY <1>1, <2>1, <2>4, <2>5, CarriedFrame DEF DataInv, PlaceInv
  <1>4. CASE IoctlPlace(p)
    <2>1. /\ pc' = [pc EXCEPT ![p] = "open"]
          /\ StepOf(p)
      BY <1>4 DEF IoctlPlace, Return, Goto, Keep, StepOf
    <2>2. CarriedBy(p)'
      BY <2>1, NothingCarried DEF PlaceInv
    <2>3. local[p].newpos + call[p].write_cmd_offset \in Nat
      BY <1>2
    <2>4. f_pos' \in [Procs -> Nat]
      BY <1>4, <2>3 DEF IoctlPlace, MoveTo, DataInv
    <2>5. QED
      BY <1>1, <2>1, <2>2, <2>4, CarriedFrame DEF DataInv, PlaceInv
  <1>5. QED
    BY <1>3, <1>4

-----------------------------------------------------------------------------
(* The steps of write. *)

LEMMA AllocKeepsDataInv ==
  ASSUME PlaceInv, DataInv, NEW p \in Procs, WriteAlloc(p)
  PROVE  DataInv'
  <1> USE DEF Labels, InKernel
  <1> DEFINE buf == call[p].buf
  <1>1. UNCHANGED << ring, dev_entry, call, local, f_pos, evicted >>
    BY DEF WriteAlloc, Fail, heap
  <1>2. CASE UNCHANGED heap /\ pc' = [pc EXCEPT ![p] = "unlock"]
    <2>1. DeviceTypeOK'
      BY <1>1, <1>2, DeviceFrame DEF DataInv
    <2>2. CarriedBy(p)' /\ StepOf(p)
      BY <1>1, <1>2, NothingCarried DEF PlaceInv, StepOf
    <2>3. QED
      BY <1>1, <2>1, <2>2, CarriedFrame DEF DataInv, PlaceInv
  <1>3. CASE /\ Len(buf) <= KMALLOC_MAX
             /\ live + Blocks(buf) <= HeapBlocks
             /\ live' = live + Blocks(buf)
             /\ pc' = [pc EXCEPT ![p] = "fill"]
    <2>1. Blocks(buf) \in Nat
      BY DEF Blocks
    <2>2. DeviceTypeOK'
      BY <1>1, <1>3, <2>1 DEF DataInv, DeviceTypeOK, ring, Ring!TypeOK
    <2>3. CarriedBy(p)' /\ StepOf(p)
      BY <1>1, <1>3 DEF PlaceInv, PlaceTypeOK, CarriedBy, StepOf
    <2>4. QED
      BY <1>1, <2>2, <2>3, CarriedFrame DEF DataInv, PlaceInv
  <1>4. QED
    BY <1>2, <1>3 DEF WriteAlloc, Fail, Goto

LEMMA FillKeepsDataInv ==
  ASSUME PlaceInv, DataInv, NEW p \in Procs, WriteFill(p)
  PROVE  DataInv'
  <1> USE DEF Labels, InKernel
  <1>1. UNCHANGED << ring, dev_entry, call, local, f_pos, evicted >>
    BY DEF WriteFill, CopyFails, FreeThenFail, Fail, heap
  <1>2. DeviceTypeOK'
    <2>1. Blocks(call[p].buf) \in Nat
      BY DEF Blocks
    <2>2. live' = live \/ live' = live - Blocks(call[p].buf)
      BY DEF WriteFill, CopyFails, FreeThenFail, heap
    <2>3. QED
      BY <1>1, <2>1, <2>2, HeapAssumption DEF DataInv, DeviceTypeOK, ring, Ring!TypeOK
  <1>3. pc[p] = "fill" /\ (\/ pc' = [pc EXCEPT ![p] = "unlock"]
                           \/ pc' = [pc EXCEPT ![p] = "append"])
    BY DEF WriteFill, CopyFails, FreeThenFail, Fail, Goto
  <1>4. CarriedBy(p)' /\ StepOf(p)
    BY <1>1, <1>3 DEF PlaceInv, PlaceTypeOK, DataInv, CarriedTypeOK, CarriedBy, StepOf
  <1>5. QED
    BY <1>1, <1>2, <1>4, CarriedFrame DEF DataInv, PlaceInv

LEMMA AppendKeepsDataInv ==
  ASSUME PlaceInv, DataInv, NEW p \in Procs, WriteAppend(p)
  PROVE  DataInv'
  <1> USE DEF Labels, InKernel
  <1> DEFINE buf == call[p].buf
  <1>1. UNCHANGED << ring, call, local, f_pos, evicted >>
    BY DEF WriteAppend, Gather, ReallocFails, FreeThenFail, Fail
  <1>2. pc' = [pc EXCEPT ![p] = "commit"] \/ pc' = [pc EXCEPT ![p] = "unlock"]
    BY DEF WriteAppend, Gather, ReallocFails, FreeThenFail, Fail, Goto
  <1>3. CarriedTypeOK'
    <2>1. CarriedBy(p)' /\ StepOf(p)
      BY <1>1, <1>2, NothingCarried DEF PlaceInv, StepOf
    <2>2. QED
      BY <2>1, CarriedFrame DEF DataInv, PlaceInv
  <1>4. buf \in Payloads /\ Len(buf) \in Nat /\ Len(buf) <= KMALLOC_MAX
    <2>1. pc[p] = "append"
      BY DEF WriteAppend
    <2>2. call[p] \in Calls /\ call[p].op = "write"
      BY <2>1 DEF PlaceInv, CallMatchesPlace, Fits
    <2>3. QED
      BY <2>1, <2>2, CallArguments DEF DataInv, CarriedTypeOK, CarriedBy
  <1>5. DeviceTypeOK
    BY DEF DataInv
  <1>6. DeviceTypeOK'
    <2>1. ASSUME NEW bytes,
                 dev_entry' = [buffptr |-> bytes, size |-> GatheredSize(p)],
                 GatheredSize(p) <= KMALLOC_MAX,
                 live' \in Int, live' <= live,
                 \/ dev_entry.buffptr = NULL /\ bytes = buf
                 \/ dev_entry.buffptr # NULL /\ \E old \in Old : bytes = old \o buf
          PROVE  DeviceTypeOK'
      <3>1. dev_entry' \in Commands \cup {[buffptr |-> << >>, size |-> 0]}
        BY <1>4, <1>5, <2>1, JoinedIsALine DEF GatheredSize
      <3>2. dev_entry'.size <= KMALLOC_MAX
        BY <2>1
      <3>3. live' <= HeapBlocks
        BY <1>5, <2>1, HeapAssumption DEF DeviceTypeOK
      <3>4. QED
        BY <1>1, <1>5, <2>1, <3>1, <3>2, <3>3
        DEF DeviceTypeOK, ring, Ring!TypeOK, Ring!NoEntry
    <2>2. CASE dev_entry.buffptr = NULL /\ Gather(p, buf) /\ UNCHANGED live
      <3>1. GatheredSize(p) <= KMALLOC_MAX
        BY <1>4, <1>5, <2>2, LineIsCounted DEF GatheredSize, Ring!NoEntry
      <3>2. dev_entry' = [buffptr |-> buf, size |-> GatheredSize(p)]
        BY <2>2 DEF Gather
      <3>3. QED
        BY <1>5, <2>1, <2>2, <3>1, <3>2 DEF DeviceTypeOK
    <2>3. ASSUME dev_entry.buffptr # NULL, GatheredSize(p) <= KMALLOC_MAX,
                 NEW old \in Old, Gather(p, old \o buf),
                 live' = live - Blocks(buf) - Blocks(dev_entry.buffptr)
                           + Blocks(old \o buf)
          PROVE  DeviceTypeOK'
      <3>1. Blocks(old \o buf) <= Blocks(buf) + Blocks(dev_entry.buffptr)
        BY <1>4, <1>5, <2>3, JoinedIsALine
      <3>2. /\ Blocks(buf) \in Nat /\ Blocks(dev_entry.buffptr) \in Nat
            /\ Blocks(old \o buf) \in Nat /\ live \in Int
        BY <1>5 DEF Blocks, DeviceTypeOK
      <3>3. live' \in Int /\ live' <= live
        BY <2>3, <3>1, <3>2
      <3>4. QED
        BY <2>1, <2>3, <3>3 DEF Gather
    <2>4. CASE ReallocFails(p)
      <3>1. Blocks(buf) \in Nat
        BY DEF Blocks
      <3>2. UNCHANGED << ring, dev_entry, evicted >> /\ live' = live - Blocks(buf)
        BY <2>4 DEF ReallocFails, FreeThenFail, Fail
      <3>3. QED
        BY <1>5, <3>1, <3>2, HeapAssumption DEF DeviceTypeOK, ring, Ring!TypeOK
    <2>5. QED
      BY <2>2, <2>3, <2>4 DEF WriteAppend
  <1>7. QED
    BY <1>1, <1>3, <1>6 DEF DataInv

LEMMA CommitKeepsDataInv ==
  ASSUME PlaceInv, DataInv, NEW p \in Procs, WriteCommit(p)
  PROVE  DataInv' /\ (DeviceRingShape => DeviceRingShape')
  <1> USE DEF Labels, InKernel
  <1>1. UNCHANGED << call, local, live >>
    BY DEF WriteCommit
  <1>2. pc' = [pc EXCEPT ![p] = "oops"] \/ pc' = [pc EXCEPT ![p] = "unlock"]
    BY DEF WriteCommit, Goto
  <1>3. CarriedTypeOK'
    <2>1. CarriedBy(p)' /\ StepOf(p)
      BY <1>1, <1>2, NothingCarried DEF PlaceInv, StepOf
    <2>2. QED
      BY <2>1, CarriedFrame DEF DataInv, PlaceInv
  <1>4. DeviceTypeOK
    BY DEF DataInv
  <1>5. f_pos' \in [Procs -> Nat]
    <2>1. pc[p] = "commit"
      BY DEF WriteCommit
    <2>2. call[p] \in Calls /\ call[p].op = "write"
      BY <2>1 DEF PlaceInv, CallMatchesPlace, Fits
    <2>3. f_pos[p] + Len(call[p].buf) \in Nat
      BY <2>2, CallArguments DEF DataInv
    <2>4. QED
      BY <2>3 DEF WriteCommit, MoveTo, DataInv
  <1>6. DeviceTypeOK' /\ (DeviceRingShape => DeviceRingShape')
    <2>1. CASE UNCHANGED << ring, dev_entry, evicted >>
      BY <1>1, <1>4, <2>1
      DEF DeviceTypeOK, ring, Ring!TypeOK, DeviceRingShape, Ring!RingShape,
          Ring!Occupied
    <2>2. CASE dev_entry.size > 0 /\ EndLine
      <3>1. dev_entry \in Commands
        BY <1>4, <2>2, LineIsCounted
      <3>2. Ring!aesd_circular_buffer_add_entry(dev_entry)
        BY <2>2 DEF EndLine, AddThenLeave
      <3>3. Ring!TypeOK' /\ (Ring!RingShape => Ring!RingShape')
        BY <1>4, <3>1, <3>2, RingAdd DEF DeviceTypeOK
      <3>4. dev_entry' = Ring!NoEntry
        BY <2>2 DEF EndLine, AddThenLeave
      <3>5. dev_entry'.size <= KMALLOC_MAX
        BY <3>4, HeapAssumption DEF Ring!NoEntry
      <3>6. evicted' \in Nat
        <4>1. evicted' = evicted + IF Ring!Overwrites THEN 1 ELSE 0
          BY <2>2 DEF EndLine, AddThenLeave
        <4>2. QED
          BY <1>4, <4>1 DEF DeviceTypeOK
      <3>7. dev_entry' \in Commands \cup {Ring!NoEntry, [buffptr |-> << >>, size |-> 0]}
        BY <3>4
      <3>8. QED
        BY <1>1, <1>4, <3>3, <3>5, <3>6, <3>7
        DEF DeviceTypeOK, DeviceRingShape, Ring!NoEntry
    <2>3. QED
      BY <2>1, <2>2 DEF WriteCommit
  <1>7. QED
    BY <1>3, <1>5, <1>6 DEF DataInv

-----------------------------------------------------------------------------
(* The theorems about the device's data. *)

LEMMA StepKeepsDataInv ==
  ASSUME PlaceInv, DataInv, [Next]_vars
  PROVE  DataInv' /\ (DeviceRingShape => DeviceRingShape')
  <1>1. ASSUME NEW p \in Procs, WriteCommit(p)
        PROVE  DataInv' /\ (DeviceRingShape => DeviceRingShape')
    BY <1>1, CommitKeepsDataInv
  <1>2. ASSUME UNCHANGED ring
        PROVE  DeviceRingShape => DeviceRingShape'
    BY <1>2 DEF ring, DeviceRingShape, Ring!RingShape, Ring!Occupied, Ring!Slots
  <1>3. ASSUME NEW p \in Procs,
               User(p) \/ mutex_lock_interruptible(p) \/ Interrupted(p) \/ Kernel(p),
               ~WriteCommit(p)
        PROVE  UNCHANGED ring
    BY <1>3
    DEF User, aesd_open, aesd_release, aesd_read, aesd_write, aesd_llseek,
        aesd_ioctl, Enter, mutex_lock_interruptible, Interrupted, Kernel,
        ReadFind, ReadCopy, WriteAlloc, WriteFill, CopyFails, WriteAppend, Gather,
        ReallocFails, FreeThenFail, Fail, get_buffer_size, SeekPlace,
        IoctlSum, IoctlPlace, mutex_unlock
  <1>4. ASSUME NEW p \in Procs,
               User(p) \/ mutex_lock_interruptible(p) \/ Interrupted(p) \/ Kernel(p),
               ~WriteCommit(p)
        PROVE  DataInv'
    BY <1>4, UserKeepsDataInv, LockingKeepsDataInv, ReadKeepsDataInv,
       SeekKeepsDataInv, IoctlKeepsDataInv, AllocKeepsDataInv, FillKeepsDataInv,
       AppendKeepsDataInv
    DEF Kernel
  <1>5. CASE UNCHANGED vars
    <2>1. /\ UNCHANGED << ring, dev_entry, heap >> /\ UNCHANGED f_pos
          /\ UNCHANGED << pc, call, local >>
      BY <1>5 DEF vars
    <2>2. DeviceTypeOK'
      BY <2>1, DeviceFrame DEF DataInv
    <2>3. CarriedTypeOK'
      BY <2>1 DEF DataInv, CarriedTypeOK, CarriedBy, Ring!Slots
    <2>4. QED
      BY <1>2, <2>1, <2>2, <2>3 DEF DataInv
  <1>6. CASE Next
    <2>1. PICK p \in Procs :
            User(p) \/ mutex_lock_interruptible(p) \/ Interrupted(p) \/ Kernel(p)
      BY <1>6 DEF Next
    <2>2. CASE WriteCommit(p)
      BY <2>2, <1>1
    <2>3. CASE ~WriteCommit(p)
      BY <2>1, <2>3, <1>2, <1>3, <1>4
    <2>4. QED
      BY <2>2, <2>3
  <1>7. QED
    BY <1>5, <1>6

LEMMA DataInvariant == Spec => [](DataInv /\ DeviceRingShape)
  <1>1. Init => DataInv /\ DeviceRingShape
    <2> SUFFICES ASSUME Init PROVE DataInv /\ DeviceRingShape
      OBVIOUS
    <2>1. Ring!TypeOK /\ DeviceRingShape
      BY RingInit DEF Init, DeviceRingShape
    <2>2. DeviceTypeOK
      BY <2>1, HeapAssumption DEF Init, DeviceTypeOK, Ring!NoEntry
    <2>3. f_pos \in [Procs -> Nat] /\ CarriedTypeOK
      BY DEF Init, CarriedTypeOK, CarriedBy
    <2>4. QED
      BY <2>1, <2>2, <2>3 DEF DataInv
  <1>2. PlaceInv /\ DataInv /\ DeviceRingShape /\ [Next]_vars
          => (DataInv /\ DeviceRingShape)'
    BY StepKeepsDataInv
  <1>3. QED
    BY <1>1, <1>2, PlacesInvariant, PTL DEF Spec

(* Positions, sizes and indices stay what they should be and a line never  *)
(* outgrows the allocator, in every interleaving; with signals, until a    *)
(* broken mutex has let two calls meet (Raced), where behaviours end.      *)
THEOREM TypeCorrect == Spec => []TypeOK
  <1>1. PlaceInv /\ DataInv => TypeOK
    BY DEF PlaceInv, PlaceTypeOK, DataInv, DeviceTypeOK, TypeOK, Labels
  <1>2. QED
    BY <1>1, PlacesInvariant, DataInvariant, PTL

(* The ring is never given an empty command and never loses its shape;     *)
(* with signals, until a broken mutex has let two calls meet (Raced).      *)
THEOREM RingKeepsItsShape == Spec => []DeviceRingShape
  BY DataInvariant, PTL
=============================================================================
