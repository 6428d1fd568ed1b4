------------------------------ MODULE AesdChar ------------------------------
(***************************************************************************)
(* The AESD character driver, aesd-char-driver/main.c: processes that      *)
(* read, write, seek and ioctl one device, whose state is the circular     *)
(* buffer, the line being gathered (dev->entry) and a mutex.               *)
(*                                                                         *)
(* Every process has an open file of its own, hence a position of its own. *)
(* A step is a piece of a handler in which, while the mutex works, nobody  *)
(* can see or disturb it: the ioctl, which takes no mutex, loads one size  *)
(* per step.  Signals can break the mutex.  The pieces are still steps as  *)
(* long as no two processes are in pieces that conflict; when two are, the *)
(* C code has a data race (the same block grown or freed twice, two adds   *)
(* half way through one slot), and the model ends there: see Raced.        *)
(***************************************************************************)
EXTENDS Integers, FiniteSets, SequencesExt

CONSTANTS
  Procs,          (* the processes that use the device               *)
  Bytes,          (* the bytes they write                            *)
  NL,             (* the newline, one of Bytes                       *)
  JUNK,           (* a byte of memory that was never written or freed *)
  NULL,           (* the null pointer, and no process                *)
  MaxWriteOps,    (* AESDCHAR_MAX_WRITE_OPERATIONS_SUPPORTED         *)
  Payloads,       (* the buffers passed to write                     *)
  Counts,         (* the counts passed to read                       *)
  Seeks,          (* [whence, off_set] passed to llseek              *)
  Seektos,        (* [write_cmd, write_cmd_offset] passed to ioctl   *)
  KMALLOC_MAX,    (* the largest block the kernel hands out          *)
  HeapBlocks,     (* how many blocks the kernel has                  *)
  MaxPos,         (* bound: no write takes a position past it        *)
  Interruptible,  (* may signals interrupt the wait for the mutex?   *)
  Relocates       (* may krealloc move the block?                    *)

ASSUME ProcsAssumption == NULL \notin Procs

ASSUME CapacityAssumption == MaxWriteOps \in Nat \ {0}

ASSUME HeapAssumption == KMALLOC_MAX \in Nat /\ HeapBlocks \in Nat

(* What the callers pass: lengths, indices and offsets are numbers, those  *)
(* of read and of the ioctl unsigned.  No address is NULL, neither that of *)
(* a block nor that of an entry a search has found.                        *)
ASSUME ArgumentsAssumption ==
  /\ Payloads \subseteq Seq(Bytes)
  /\ NULL \notin Seq(Bytes \cup {JUNK})
  /\ NULL \notin [slot : Nat, offset : Nat]
  /\ Counts \subseteq Nat
  /\ \A s \in Seeks : s.off_set \in Int
  /\ \A s \in Seektos : s.write_cmd \in Nat /\ s.write_cmd_offset \in Nat

VARIABLES
  entry, in_offs, out_offs, full,  (* dev->buffer                    *)
  dev_entry,      (* dev->entry, buffptr being the bytes it points to *)
  lock,           (* the owner of dev->lock, NULL when it is free    *)
  pc,             (* where each process is                           *)
  call,           (* the call it makes, with the arguments           *)
  local,          (* the local variables its call carries along      *)
  f_pos,          (* the position of its open file                   *)
  live,           (* kmalloc'd blocks not freed                      *)
  evicted,        (* blocks of commands that add_entry has replaced  *)
  broken          (* history: was a call interrupted that unlocks?   *)

ring == << entry, in_offs, out_offs, full >>
heap == << live, evicted >>
vars == << ring, dev_entry, lock, pc, call, local, f_pos, heap, broken >>

(* A non-empty struct aesd_buffer_entry: the bytes and how many.           *)
Commands == {e \in [buffptr : Seq(Bytes \cup {JUNK}), size : Nat \ {0}] :
               e.size = Len(e.buffptr)}

Ring == INSTANCE CircularBuffer WITH Entries <- Commands

ENOMEM == 12

(* kmalloc(0) takes no memory. *)
Blocks(bytes) == IF bytes = << >> THEN 0 ELSE 1

TotalSize(slots) == MapThenSumSet(LAMBDA i : entry[i].size, slots)

Init ==
  /\ Ring!aesd_circular_buffer_init
  /\ dev_entry = Ring!NoEntry
  /\ lock = NULL
  /\ pc = [p \in Procs |-> "closed"]
  /\ call = [p \in Procs |-> NULL]
  /\ local = [p \in Procs |-> NULL]
  /\ f_pos = [p \in Procs |-> 0]
  /\ live = 0
  /\ evicted = 0
  /\ broken = FALSE

Goto(p, label) == pc' = [pc EXCEPT ![p] = label]
Keep(p, value) == local' = [local EXCEPT ![p] = value]
MoveTo(p, pos) == f_pos' = [f_pos EXCEPT ![p] = pos]

(* The call returns; its arguments and locals are gone. *)
Return(p) ==
  /\ Goto(p, "open")
  /\ Keep(p, NULL)
  /\ call' = [call EXCEPT ![p] = NULL]

-----------------------------------------------------------------------------
(* System calls entering the driver. *)

aesd_open(p) ==
  /\ pc[p] = "closed"
  /\ Goto(p, "open")
  /\ MoveTo(p, 0)
  /\ UNCHANGED << ring, dev_entry, lock, call, local, heap >>

aesd_release(p) ==
  /\ pc[p] = "open"
  /\ Goto(p, "closed")
  /\ MoveTo(p, 0)
  /\ UNCHANGED << ring, dev_entry, lock, call, local, heap >>

Enter(p, label, args) ==
  /\ pc[p] = "open"
  /\ Goto(p, label)
  /\ call' = [call EXCEPT ![p] = args]
  /\ UNCHANGED << ring, dev_entry, lock, f_pos, heap >>

aesd_read(p) ==
  \E count \in Counts :
    Enter(p, "lock", [op |-> "read", count |-> count]) /\ UNCHANGED local

aesd_write(p) ==
  \E buf \in Payloads :
    /\ f_pos[p] + Len(buf) <= MaxPos
    /\ Enter(p, "lock", [op |-> "write", buf |-> buf])
    /\ UNCHANGED local

aesd_llseek(p) ==
  \E s \in Seeks :
    /\ Enter(p, "lock", [op |-> "llseek", whence |-> s.whence, off_set |-> s.off_set])
    /\ UNCHANGED local

(* A command index past the array, another cmd or a bad pointer return     *)
(* before anything is done.  The loop starts with newpos = 0 and i = 0.    *)
aesd_ioctl(p) ==
  \E s \in Seektos :
    /\ s.write_cmd < MaxWriteOps
    /\ Enter(p, "sum", [op |-> "ioctl", write_cmd |-> s.write_cmd,
                        write_cmd_offset |-> s.write_cmd_offset])
    /\ Keep(p, [newpos |-> 0, i |-> 0])

-----------------------------------------------------------------------------
(* The mutex. *)

Locked(p) == CASE call[p].op = "read"   -> "find"
               [] call[p].op = "write"  -> "alloc"
               [] call[p].op = "llseek" -> "size"

(* Seeded fault: the critical section is entered without waiting. *)
Bug_NobodyWaits == TRUE

LockFree == lock = NULL

mutex_lock_interruptible(p) ==
  /\ pc[p] = "lock"
  /\ LockFree
  /\ lock' = p
  /\ Goto(p, Locked(p))
  /\ UNCHANGED << ring, dev_entry, call, local, f_pos, heap, broken >>

(* Seeded fault: an interrupted read goes to its label out. *)
Bug_ReadGoesToOut(p) == Goto(p, "unlock") /\ UNCHANGED << call, local >>

ReadGivesUp(p) == Return(p)

(* A signal ends the wait.  read returns; write and get_buffer_size go to  *)
(* their label out, which unlocks a mutex the process does not own.        *)
Interrupted(p) ==
  /\ Interruptible
  /\ pc[p] = "lock"
  /\ ~LockFree
  /\ \/ call[p].op = "read" /\ ReadGivesUp(p) /\ UNCHANGED broken
     \/ /\ call[p].op = "write"
        /\ Goto(p, "unlock")
        /\ broken' = TRUE
        /\ UNCHANGED << call, local >>
     \/ /\ call[p].op = "llseek"
        /\ Goto(p, "unlock")
        /\ Keep(p, [dev_size |-> -ENOMEM])
        /\ broken' = TRUE
        /\ UNCHANGED call
  /\ UNCHANGED << ring, dev_entry, lock, f_pos, heap >>

(* The kernel's mutex_unlock frees the mutex whoever owns it.  read and    *)
(* write are then done; llseek goes on without the mutex.                  *)
mutex_unlock(p) ==
  /\ pc[p] = "unlock"
  /\ lock' = NULL
  /\ IF call[p].op = "llseek"
     THEN Goto(p, "place") /\ UNCHANGED << call, local >>
     ELSE Return(p)
  /\ UNCHANGED << ring, dev_entry, f_pos, heap >>

-----------------------------------------------------------------------------
(* aesd_read. *)

ReadFind(p) ==
  LET found == Ring!aesd_circular_buffer_find_entry_offset_for_fpos(f_pos[p])
  IN  /\ pc[p] = "find"
      /\ IF found = NULL
         THEN Goto(p, "unlock") /\ Keep(p, [got |-> << >>])
         ELSE Goto(p, "copy") /\ Keep(p, found)
      /\ UNCHANGED << ring, dev_entry, lock, call, f_pos, heap >>

(* The bytes copied to the user.  The subtraction is unsigned: with an     *)
(* offset past the entry it would wrap, and count would win.               *)
BytesRead(p) ==
  LET e     == entry[local[p].slot]
      start == local[p].offset
      n     == IF start \in 0 .. e.size /\ e.size - start < call[p].count
               THEN e.size - start
               ELSE call[p].count
  IN  [k \in 1 .. n |-> IF start + k <= e.size THEN e.buffptr[start + k] ELSE JUNK]

(* Seeded fault: the position is that in the entry, not in the device. *)
Bug_PositionInEntry(p) == local[p].offset + Len(BytesRead(p))

PositionAfterRead(p) == f_pos[p] + Len(BytesRead(p))

(* The user's buffer may be bad: then the position stays. *)
ReadCopy(p) ==
  /\ pc[p] = "copy"
  /\ \/ Keep(p, [got |-> BytesRead(p)]) /\ MoveTo(p, PositionAfterRead(p))
     \/ Keep(p, NULL) /\ UNCHANGED f_pos
  /\ Goto(p, "unlock")
  /\ UNCHANGED << ring, dev_entry, lock, call, heap >>

-----------------------------------------------------------------------------
(* aesd_write. *)

(* Seeded fault: an error returns without unlocking. *)
Bug_FailReturns(p) == Return(p) /\ UNCHANGED << ring, dev_entry, lock, f_pos >>

Fail(p) ==
  /\ Goto(p, "unlock")
  /\ UNCHANGED << ring, dev_entry, lock, call, local, f_pos >>

(* Freeing the new block on the way out. *)
FreeThenFail(p) == Fail(p) /\ live' = live - Blocks(call[p].buf) /\ UNCHANGED evicted

(* kmalloc. *)
WriteAlloc(p) ==
  LET buf == call[p].buf
  IN  /\ pc[p] = "alloc"
      /\ \/ UNCHANGED heap /\ Fail(p)
         \/ /\ Len(buf) <= KMALLOC_MAX
            /\ live + Blocks(buf) <= HeapBlocks
            /\ live' = live + Blocks(buf)
            /\ Goto(p, "fill")
            /\ UNCHANGED << ring, dev_entry, lock, call, local, f_pos, evicted >>

(* Seeded fault: the new block is kept when copy_from_user fails. *)
Bug_CopyFailsKeepingBlock(p) == Fail(p) /\ UNCHANGED heap

CopyFails(p) == FreeThenFail(p)

(* copy_from_user. *)
WriteFill(p) ==
  /\ pc[p] = "fill"
  /\ \/ CopyFails(p)
     \/ /\ Goto(p, "append")
        /\ UNCHANGED << ring, dev_entry, lock, call, local, f_pos, heap >>

(* What memcpy brings from the block that krealloc was given: krealloc has *)
(* freed it when it moved the bytes.                                       *)
Old == IF Relocates
       THEN {dev_entry.buffptr, [i \in 1 .. dev_entry.size |-> JUNK]}
       ELSE {dev_entry.buffptr}

(* Seeded fault: the size is that of the last write. *)
Bug_SizeOfLastWrite(p) == Len(call[p].buf)

GatheredSize(p) == dev_entry.size + Len(call[p].buf)

Gather(p, bytes) ==
  /\ dev_entry' = [buffptr |-> bytes, size |-> GatheredSize(p)]
  /\ Goto(p, "commit")
  /\ UNCHANGED << ring, lock, call, local, f_pos, evicted >>

(* Seeded fault: the new block is kept when krealloc fails. *)
Bug_ReallocFailsKeepingBlock(p) == Fail(p) /\ UNCHANGED heap

ReallocFails(p) == FreeThenFail(p)

(* The first bytes of a line keep the new block.  Others are joined to the *)
(* line in a block grown by krealloc, and the new block is freed.          *)
WriteAppend(p) ==
  LET buf == call[p].buf
  IN  /\ pc[p] = "append"
      /\ \/ /\ dev_entry.buffptr = NULL
            /\ Gather(p, buf)
            /\ UNCHANGED live
         \/ /\ dev_entry.buffptr # NULL
            /\ GatheredSize(p) <= KMALLOC_MAX
            /\ \E old \in Old :
                 /\ Gather(p, old \o buf)
                 /\ live' = live - Blocks(buf) - Blocks(dev_entry.buffptr)
                              + Blocks(old \o buf)
         \/ /\ dev_entry.buffptr # NULL
            /\ ReallocFails(p)

AddThenLeave(added, left) ==
  /\ Ring!aesd_circular_buffer_add_entry(added)
  /\ evicted' = evicted + IF Ring!Overwrites THEN 1 ELSE 0
  /\ dev_entry' = left

(* Seeded fault: the gathered line stays behind after it was added. *)
Bug_LineStays == AddThenLeave(dev_entry, dev_entry)

(* Seeded fault: the gathered line is cleared before it is added. *)
Bug_LineClearedFirst == AddThenLeave(Ring!NoEntry, Ring!NoEntry)

(* The command that the add replaces is forgotten, not freed. *)
EndLine == AddThenLeave(dev_entry, Ring!NoEntry)

(* With no byte gathered the newline test reads before the block: the      *)
(* kernel kills the process, which keeps the mutex.                        *)
WriteCommit(p) ==
  /\ pc[p] = "commit"
  /\ \/ /\ dev_entry.size = 0
        /\ Goto(p, "oops")
        /\ UNCHANGED << ring, dev_entry, f_pos, evicted >>
     \/ /\ dev_entry.size > 0
        /\ IF Last(dev_entry.buffptr) = NL THEN EndLine
                                           ELSE UNCHANGED << ring, dev_entry, evicted >>
        /\ MoveTo(p, f_pos[p] + Len(call[p].buf))
        /\ Goto(p, "unlock")
  /\ UNCHANGED << lock, call, local, live >>

-----------------------------------------------------------------------------
(* aesd_llseek. *)

get_buffer_size(p) ==
  /\ pc[p] = "size"
  /\ Keep(p, [dev_size |-> TotalSize(Ring!Slots)])
  /\ Goto(p, "unlock")
  /\ UNCHANGED << ring, dev_entry, lock, call, f_pos, heap >>

SeekTarget(p) == call[p].off_set + CASE call[p].whence = "SEEK_SET" -> 0
                                     [] call[p].whence = "SEEK_CUR" -> f_pos[p]
                                     [] call[p].whence = "SEEK_END" -> local[p].dev_size

(* Seeded fault: only the sign of the target is checked. *)
Bug_AcceptsPastEnd(p) == SeekTarget(p) >= 0

AcceptsTarget(p) == SeekTarget(p) \in 0 .. local[p].dev_size

SeekPlace(p) ==
  /\ pc[p] = "place"
  /\ IF AcceptsTarget(p) THEN MoveTo(p, SeekTarget(p)) ELSE UNCHANGED f_pos
  /\ Return(p)
  /\ UNCHANGED << ring, dev_entry, lock, heap >>

-----------------------------------------------------------------------------
(* aesd_ioctl, which never takes the mutex. *)

IoctlSum(p) ==
  LET i == local[p].i
  IN  /\ pc[p] = "sum"
      /\ i < call[p].write_cmd
      /\ Keep(p, [newpos |-> local[p].newpos + entry[i].size, i |-> i + 1])
      /\ UNCHANGED << ring, dev_entry, lock, pc, call, f_pos, heap >>

(* Seeded fault: the offset may be the length of the command. *)
Bug_AcceptsLength(p) == call[p].write_cmd_offset <= entry[call[p].write_cmd].size

AcceptsOffset(p) == call[p].write_cmd_offset < entry[call[p].write_cmd].size

IoctlPlace(p) ==
  /\ pc[p] = "sum"
  /\ local[p].i = call[p].write_cmd
  /\ IF AcceptsOffset(p) THEN MoveTo(p, local[p].newpos + call[p].write_cmd_offset)
                         ELSE UNCHANGED f_pos
  /\ Return(p)
  /\ UNCHANGED << ring, dev_entry, lock, heap >>

-----------------------------------------------------------------------------
(* Two processes are where the C code of one can disturb that of the       *)
(* other: both at the line being gathered, or one at the add and the other *)
(* at the ring.  What the device holds after that is undetermined.         *)
Raced ==
  \E p \in Procs : \E q \in Procs \ {p} :
    \/ pc[p] \in {"append", "commit"} /\ pc[q] \in {"append", "commit"}
    \/ pc[p] = "commit" /\ pc[q] \in {"find", "copy", "size"}

User(p) ==
  /\ \/ aesd_open(p) \/ aesd_release(p)
     \/ aesd_read(p) \/ aesd_write(p) \/ aesd_llseek(p) \/ aesd_ioctl(p)
  /\ UNCHANGED broken

(* The steps of a call other than the wait for the mutex. *)
Kernel(p) ==
  /\ \/ ReadFind(p) \/ ReadCopy(p)
     \/ WriteAlloc(p) \/ WriteFill(p) \/ WriteAppend(p) \/ WriteCommit(p)
     \/ get_buffer_size(p) \/ SeekPlace(p)
     \/ IoctlSum(p) \/ IoctlPlace(p)
     \/ mutex_unlock(p)
  /\ UNCHANGED broken

Next ==
  /\ ~Raced
  /\ \E p \in Procs :
       User(p) \/ mutex_lock_interruptible(p) \/ Interrupted(p) \/ Kernel(p)

(* The kernel runs what is runnable, and its mutex is handed to the waiter *)
(* at the head of the queue, so no waiter is passed over for ever.  Nobody *)
(* has to make a call, and no signal has to come.                          *)
Fairness == \A p \in Procs : /\ WF_vars(~Raced /\ Kernel(p))
                             /\ SF_vars(~Raced /\ mutex_lock_interruptible(p))

Spec     == Init /\ [][Next]_vars
FairSpec == Spec /\ Fairness

-----------------------------------------------------------------------------
(* Properties. *)

InKernel == {"lock", "find", "copy", "alloc", "fill", "append", "commit", "size",
             "place", "sum", "unlock"}

(* Where a process believes it owns the mutex. *)
Critical == {"find", "copy", "alloc", "fill", "append", "commit", "size", "unlock"}

(* Type invariant.  The gathered line is absent, a non-empty block or the  *)
(* block of kmalloc(0), and its length never exceeds what kmalloc gives.   *)
TypeOK ==
  /\ Ring!TypeOK
  /\ dev_entry \in Commands \cup {Ring!NoEntry, [buffptr |-> << >>, size |-> 0]}
  /\ dev_entry.size <= KMALLOC_MAX
  /\ lock \in Procs \cup {NULL}
  /\ pc \in [Procs -> InKernel \cup {"closed", "open", "oops"}]
  /\ f_pos \in [Procs -> Nat]
  /\ live \in Int /\ live <= HeapBlocks
  /\ evicted \in Nat
  /\ broken \in BOOLEAN

(* "Any necessary locking must be performed by caller"                     *)
(* (aesd-circular-buffer.c:21 and :65): whoever is in the part of a        *)
(* handler that touches the device owns the mutex, so it is alone there.   *)
LockCoversDevice ==
  \A p \in Procs : pc[p] \in Critical \cup {"oops"} <=> lock = p

(* Nothing but an interrupted write or llseek lets two calls meet: reads   *)
(* may be interrupted, and before the first of the others is, no path of a *)
(* handler gives the mutex away while another process counts on it.        *)
RacesNeedInterruption == Raced => broken

(* The ring keeps its shape under the driver's interleaved calls, which    *)
(* needs that no empty command is ever added.  With signals: until a       *)
(* broken mutex has let two calls meet.                                    *)
DeviceRingShape == Ring!RingShape

Line     == dev_entry.buffptr
LineDone == dev_entry.size > 0 /\ Last(Line) = NL

KeptLines == [i \in 1 .. Ring!Count |-> Ring!Kept[i].buffptr]

(* A write takes effect when its bytes join the line: a line with its      *)
(* newline counts as kept although it is added one step later.             *)
Device == INSTANCE LineLog WITH
  kept    <- IF LineDone THEN Ring!Log!Remember(KeptLines, Line) ELSE KeptLines,
  partial <- IF Line = NULL \/ LineDone THEN << >> ELSE Line

(* To its writers the device is a line log: writes take effect one at a    *)
(* time and whole, a failed one not at all, and the lines they form are    *)
(* the most recent commands.  (write at main.c:124-202.)                   *)
ImplementsLineLog == Device!Spec

(* What a read returns is a piece of the kept lines laid end to end, ends  *)
(* where the position now is, and is empty only at the end of the device.  *)
(* (read at main.c:77-122, against writes that evict while it runs.)       *)
ReadsAreSlices ==
  \A p \in Procs :
    (pc[p] = "unlock" /\ call[p].op = "read" /\ local[p] # NULL) =>
      LET got      == local[p].got
          contents == FlattenSeq(KeptLines)
      IN  IF got = << >>
          THEN f_pos[p] >= Len(contents) \/ call[p].count = 0
          ELSE /\ Len(got) <= call[p].count
               /\ Len(got) <= f_pos[p]
               /\ got = SubSeq(contents, f_pos[p] - Len(got) + 1, f_pos[p])

OccupiedSlots == {i \in Ring!Slots : entry[i].buffptr # NULL}

InFlight == {p \in Procs : pc[p] \in {"fill", "append"} /\ call[p].buf # << >>}

Reachable == Cardinality(OccupiedSlots) + Cardinality(InFlight)
               + IF Line = NULL THEN 0 ELSE Blocks(Line)

(* No path of write, failing ones included, loses a block or frees one     *)
(* twice: the only blocks nobody can reach are those of replaced commands. *)
(* With signals: until a broken mutex has let two calls meet.              *)
BlocksAccountedFor == live = Reachable + evicted

(* The position of byte offset of the cmd-th oldest command. *)
HasByte(cmd, offset) == cmd < Ring!Count /\ offset < Ring!Kept[cmd + 1].size
PositionOf(cmd, offset) ==
  MapThenSumSet(LAMBDA i : Ring!Kept[i].size, 1 .. cmd) + offset

(* The ioctl puts the position on the byte its argument names, or leaves   *)
(* it when the device has no such byte: "Calculate new file position based *)
(* on command index and offset" (main.c:248), the position being one that  *)
(* read understands.                                                       *)
SeekToFindsCommand ==
  [][\A p \in Procs :
       (pc[p] = "sum" /\ pc'[p] = "open") =>
         LET cmd    == call[p].write_cmd
             offset == call[p].write_cmd_offset
         IN  f_pos'[p] = IF HasByte(cmd, offset) THEN PositionOf(cmd, offset)
                                                 ELSE f_pos[p]]_vars

(* The ioctl adds up sizes without the mutex.  While nothing has been       *)
(* overwritten, when slots and commands have the same numbers, writers can *)
(* only fill slots it has passed: it may fall short of the byte it was     *)
(* asked for, but the byte exists and it never goes past it.               *)
SeekToNeverOvershoots ==
  [][\A p \in Procs :
       (pc[p] = "sum" /\ pc'[p] = "open" /\ f_pos'[p] # f_pos[p] /\ ~full) =>
         LET cmd    == call[p].write_cmd
             offset == call[p].write_cmd_offset
         IN  HasByte(cmd, offset) /\ f_pos'[p] <= PositionOf(cmd, offset)]_vars

(* llseek stores a position computed from a size it read before it gave    *)
(* the mutex back.  As long as nothing is overwritten the device can only  *)
(* have grown since, and the position is inside it.                        *)
SeekInsideUntilWrap ==
  [][\A p \in Procs :
       (pc[p] = "place" /\ ~full /\ f_pos'[p] # f_pos[p]) =>
         f_pos'[p] \in 0 .. TotalSize(Ring!Slots)]_vars

(* Every system call returns, errors and interrupted waits included,       *)
(* unless some process was killed inside aesd_write by a write of nothing  *)
(* or a broken mutex let two calls meet: no path of a handler leaves the   *)
(* mutex taken.                                                            *)
EveryCallReturns ==
  \A p \in Procs :
    pc[p] \in InKernel ~>
      pc[p] = "open" \/ Raced \/ \E q \in Procs : pc[q] = "oops"
=============================================================================
