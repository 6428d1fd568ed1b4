# A verification project for the AESD assignments

This directory holds TLA+ models of the programs in this repository, the TLC
configurations that check them on small instances and theorems about them that
TLAPS checks. It is kept beside the code: every definition that models code is
listed in `PROJECT.json` under `map`, with the lines it stands for.

## 1. The system

The repository is a Linux course project. Its own logic is in C.

| component | files | state it keeps | operations |
| --- | --- | --- | --- |
| circular buffer | `aesd-char-driver/aesd-circular-buffer.[ch]` | array of 10 entries, `in_offs`, `out_offs`, `full` | init, add an entry, find the entry of a position |
| character driver | `aesd-char-driver/main.c`, `aesdchar.h`, `aesd_ioctl.h` | the buffer, the line being gathered (`dev->entry`), a mutex; per open file a position | open, release, read, write, llseek, ioctl; module init and cleanup |
| socket server | `server/aesdsocket.c` | `running`, `file_mutex`, the list of threads, the listening socket; per thread its socket and its open data file | main loop, client threads, timestamp thread, signal handler, cleanup |
| earlier server | `server/aesdsocket_old.c` | one open file, one client | the sequential version; not built |
| thread exercise | `examples/threading/threading.c` | `struct thread_data`, a mutex of the caller | start a thread that waits, locks, waits, unlocks |
| system-call exercise | `examples/systemcalls/systemcalls.c` | the caller, its child, an output file | `do_system`, `do_exec`, `do_exec_redirect` |
| finder application | `finder-app/*.sh`, `writer.c` | files | write a string to a file, count matching lines |
| load and start scripts | `aesd-char-driver/aesdchar_load`, `server/aesdsocket-start-stop.sh`, ... | module loaded or not, daemon running or not | load, unload, start, stop |
| tests, build, CI | `assignment-autotest/`, `student-test/`, `*/Makefile`, `CMakeLists.txt` | - | - |

How they interact. A client connects to the server; the server starts a thread,
which takes `file_mutex`, opens the data file (`/dev/aesdchar` in the default
build, a regular file otherwise), writes what it receives and, when a newline
was received, sends back what the file holds. With the device, each `open`,
`write`, `ioctl`, `lseek` and `read` of the thread enters the driver, which
takes its own mutex for each call (but for `ioctl`) and keeps the last ten
commands in the circular buffer. In the regular-file build another thread
appends a timestamp every ten seconds. A signal handler clears `running`; the
main loop then joins the threads and exits.

What is hard in it, all listed under `hazards` in `PROJECT.json`:

- the ring's indices are kept in step only by the test of an entry's size;
- the driver's calls interleave: `ioctl` takes no mutex, `llseek` uses a size
  read before it gave the mutex back, an interrupted `write` or `llseek` gives
  back a mutex it never had;
- the driver's memory: `krealloc`, its failure, the blocks of replaced entries,
  writes of nothing;
- the server's mutex is held while a thread waits for its client, and some paths
  never give it back; its list of threads is shared without any lock;
- start and shutdown: a signal may come before `accept`, threads may be waiting;
  a step of the driver's init may fail when others are done, and its cleanup has
  to find what the ring holds wherever the ring stands;
- the exercises: which side frees a block, who sees a flag when, what a function
  answers when a call fails in its child.

What makes each part correct, in short. The ring keeps the most recent commands
and finds their bytes. The driver makes a write atomic, a read a slice, and loses
no memory but what it gives up knowingly. Its module leaves nothing behind. The
server's threads look like one server serving one client after the other, answer
everybody and end when told to. A thread of the exercise gives its mutex back and
its block to one owner; a function of the other exercise says true only when the
command succeeded.

## 2. The modules

| module | models | state and actions against the code |
| --- | --- | --- |
| `CommandLog` | what the circular buffer promises: the most recent entries, in order | `Remember` |
| `CircularBuffer` | `aesd-circular-buffer.[ch]` | the variables are the fields of `struct aesd_circular_buffer`; `aesd_circular_buffer_add_entry` is the action; the search is an operator on the state |
| `LineLog` | what the device promises its writers: lines gathered from writes, the last ones kept | `Write`, one step, no lock, no heap, no ring; uses `CommandLog` |
| `AesdChar` | the file operations of `main.c`; instantiates `CircularBuffer` (as `Ring`) and `LineLog` (as `Device`) | `entry`..`full` are `dev->buffer`, `dev_entry` is `dev->entry`, `lock` is `dev->lock`, `f_pos` the open files' positions; `pc`, `call` and `local` are each process's place, arguments and local variables; `live` and `evicted` count blocks of the heap; `broken` is history (a call that unlocks after an interrupted wait has been interrupted) |
| `AesdModule` | `aesd_init_module`, `aesd_setup_cdev`, `aesd_cleanup_module`; extends `CircularBuffer`, whose adds are here the writes of an open device | `stage` is the step of insmod or rmmod that comes next, `held` what is registered with the kernel, `lock` the state of the mutex, `owned` the blocks that the driver still points to |
| `ThreadList` | the list of threads of `aesdsocket.c`, pointer by pointer | `head`, `next`, `node` are the list, `cursor` and `prev` the locals of `remove_thread`, `current` that of `join_threads`; `overlapped` is history |
| `AesdSocket` | `aesdsocket.c`, all of it; extends `ThreadList`, instantiates `LineLog` for the device it writes to and `AesdSocketOld` for what it should look like | `running` and `file_mutex` are the globals, `main` and `thread` the places of the threads; `file`/`linked` the regular file; `socket`, `inbox`, `sent`, `reply` the clients' end |
| `AesdSocketOld` | `aesdsocket_old.c`, the sequential server, as an abstract specification | `client` is `client_socket`; one step per blocking call |
| `Threading` | `threading.c` and the caller that `threading.h` asks for | `at` is the place of each call and then of its thread, `block` its `struct thread_data`, `success` its flag |
| `SystemCalls` | `systemcalls.c`, one call of one of its functions | `parent` and `child` are the places of the two processes, `status` how the child ended, `output` where the command wrote |
| `MC...` | small instances | definitions the configurations give to constants |
| `SequenceFacts` | lemmas about sequences, sums and induction that several proofs use | see section 5 |
| `CircularBufferProofs`, `AesdCharProofs`, `AesdCharDataProofs`, `AesdModuleProofs`, `AesdSocketProofs`, `AesdSocketListProofs`, `ExercisesProofs` | theorems and their proofs | see section 5; `ExercisesProofs` is about `Threading` and `SystemCalls` |

The refinements form a chain: `CircularBuffer` implements `CommandLog`;
`AesdChar` implements `LineLog`, which is built on `CommandLog`; `AesdSocket`
uses `LineLog` where the code uses the device. That replacement is sound as far
as `ImplementsLineLog` goes: the server holds `file_mutex` around every call, so its
calls on the device never overlap and its process is one caller of the driver.
At the end of the chain `AesdSocket` on the device implements `AesdSocketOld`
(`HandlesAsBefore`): the owner of `file_mutex` is mapped to the client the old
server serves, clients whose threads wait for the mutex to clients not accepted
yet, the device's kept and gathered lines to the old file, and the end of the
server to a server that goes on without doing anything (`running` is mapped to
TRUE, so the old server's exit is not used).

Steps. A step of a driver handler is a piece that, while the mutex works, nobody
else can see or disturb: a write is the `kmalloc`, the copy from the user, the
joining of the bytes to the line, and the test for a newline with the add; the
`ioctl`, which takes no mutex, loads one size per step. Interrupted waiters give
the mutex back while its owner is still inside, and then other processes run
between these pieces. The pieces stay steps as long as no two processes are in
pieces that conflict. When two are (both at the line being gathered, or one at the
add and one at the ring), the C code has a data race: the same block may be grown
twice, a line lost, two adds may store into one slot. What the device holds then is
undefined, and a model that ran one whole piece after the other would show too
little of it. So the model ends there: the state satisfies `Raced`, no step is
taken from it, and no property or theorem says anything of what follows. What is
asked about it is how it can come about (`RacesNeedInterruption`). In the server a step is one blocking call, or the
work between two of them. The list functions have no lock, so they are cut
between the accesses to shared links: `add_thread` before `head = new_node`,
`remove_thread` at each turn of its loop, before the unlinking store and before
`free`; `join_threads` at each turn. What is undefined in C, the use of a freed
node or the join of a thread that was never created, sets `process` to
`"corrupt"`, and nothing is said of what follows.

A definition named `Bug_...` is a seeded fault, a wrong variant of the
definition that follows it. `PROJECT.json` pairs each property with one, under
`mutants`: with the fault in place the run must find the property violated.

## 3. The runs

| run | what it asks | bounds |
| --- | --- | --- |
| `module` | do the ring's indices stay in step, are the last ten commands kept in order, does the search find every byte (`RingShape`, `KeepsMostRecent`, `FindsEveryByte`); does a failed init undo what it did, is the mutex there for every use, does cleanup free the ring (`NothingLeftRegistered`, `ReadyWhileInUse`, `CleanupFreesRing`)? | the real ten slots, two entry sizes, one open file |
| `driver_lines` | are writes atomic to readers and writers, lines and slices whole, blocks accounted for while allocation, `krealloc` and the copies to and from the user may fail (`ImplementsLineLog`, `ReadsAreSlices`, `BlocksAccountedFor`, `LockCoversDevice`); where may `llseek` and `ioctl` put a position meanwhile (`SeekInsideUntilWrap`, `SeekToNeverOvershoots`)? `DeviceRingShape` too | 2 processes, 2 slots, lines of up to 3 bytes, seeks in and out of range |
| `driver_calls` | with signals and writes of nothing: do two calls meet at the same data only after an interrupted `write` or `llseek` (`RacesNeedInterruption`); until two have met, do ring and heap stay consistent (`DeviceRingShape`, `BlocksAccountedFor`) and does every call return, but for the one that tests the byte before an empty block and those it leaves waiting (`EveryCallReturns`)? | 2 processes, one call of each kind, lines of up to 2 bytes |
| `server_device` | on the device, with lines in pieces, leavers and signals: `MutexCoversFile`, `CommandsHaveOneAuthor`, `RepliesIncludeOwnData`; do the threads look like the earlier server (`HandlesAsBefore`); is the list right as long as its calls do not overlap (`ListIsExact`, `ThreadsAreListed`), and does nothing else break it (`CorruptOnlyByOverlap`)? | 2 clients, 2 chunks each |
| `server_file` | the same mutex and list in the regular-file build, with the timestamp thread and every call failing, those of the start too | 2 clients, 1 chunk each, 1 timestamp |
| `server_answers` | is every line answered, and does a signal end the server (`LinesAreAnswered`, `SignalsEndServer`)? | 2 clients, lines and seek commands |
| `exercises` | a program that has threads of `threading.c` and is in a function of `systemcalls.c`: `TrueMeansSuccess`, `OutputGoesToFile`, `BlocksHandedOver`, `MutexHeldWhileHolding`, and does everything end (`EveryCallEnds`, `EveryThreadReturns`)? | 3 threads, one call |
| `driver_seekto` | does `ioctl` find the command that `read` numbers the same? It does not, after a wrap | violation |
| `driver_interrupted` | does the mutex cover the device when waits are interrupted? It does not | violation |
| `driver_relocated` | is the line kept when `krealloc` moves it? It is not | violation |
| `server_left_alone` | are clients served after one left without a newline? They are not | violation |
| `server_join` | is a node never used after it was freed, nor a thread joined that never was? They are | violation |

Bounds, and why they are enough. Two slots (`MaxWriteOps = 2` in the driver and
server runs) are the fewest at which the ring fills, wraps, and has an oldest
command that is not the newest; the ring itself is checked at ten. Two processes
give every pair of handlers every interleaving; a third would only queue for the
mutex. `KMALLOC_MAX` of 2 or 3 lets a line be gathered from up to three pieces
and then fail to grow. `HeapBlocks` is large enough for the slots, the line, a
block in flight and a few leaked ones, after which `kmalloc` fails, so both
outcomes occur. `MaxPos` stops the writers once two or three commands, so at
least one eviction, are through. `MaxChunks` and `MaxTicks` bound what clients
send and the timestamps written. Two clients and main are three parties on the
list of threads, which is what a lost link or a node freed twice takes; two
clients and the timestamp thread are in `server_file`. `MaxOpen = 1`: the module
only asks whether a file is open. Three threads in `exercises` have one in the
mutex, one waiting and one leaving.

`HandlesAsBefore` is compared with a file that is never cut, so it speaks of
behaviours in which the device has evicted nothing: a connection ends with its
first line, so two clients leave at most two commands, which is what the device
of that run keeps. `ListIsExact` and
`ThreadsAreListed` end with the first overlap of two calls (`overlapped`); what
then can happen is `server_join`.

Switches. `Interruptible` lets a signal end the wait for the driver's mutex,
`Relocates` lets `krealloc` move the block. The passing runs that ask about data
under the lock set both to FALSE: with either set the code does not keep what it
says, which is what `driver_interrupted` and `driver_relocated` show. `driver_calls`
sets `Interruptible`: its properties are about the behaviours up to the first race.

Fairness. The kernel runs whatever process is runnable (`WF` of its steps), and its
mutex is handed to the first waiter, so a waiter is not passed over for ever
(`SF` of the lock step in `AesdChar`). glibc's mutex promises no order, so in
`AesdSocket` the lock step has weak fairness as part of its thread. Nobody has to
make a call, connect or raise a signal; a client that has connected does send
what it has (`WF` of `ClientSends`), as otherwise the thread that serves it waits
in `recv`, mutex in hand, for a reason that is not the server's. In `exercises`
the two processes and each thread are run (`WF`) and the command ends; nobody has
to send the signal that interrupts `waitpid`, and nobody has to join. `WF` is
enough for the threads' lock, since each takes the mutex once.

## 4. What the code does otherwise than it says

Five runs end in a counterexample; `findings` in `PROJECT.json` quotes the lines.

1. `driver_seekto`: `aesd_ioctl` counts commands from slot 0 of the array, while
   `read` counts from `out_offs`. Equal until the first overwrite, different after.
2. `driver_interrupted`: an interrupted `write` or `get_buffer_size` unlocks a
   mutex that belongs to another process.
3. `driver_relocated`: `aesd_write` copies the line again from the block that
   `krealloc` has just freed.
4. `server_left_alone`: `handle_client` leaves its loop without unlocking.
5. `server_join`: `join_threads` reads and frees a node that the thread it waited
   for freed itself. That is the shortest of the ways to `"corrupt"`; others are a
   `remove_thread` whose walk stands on a node that its owner frees at that moment
   and, in the regular-file build, the join of a timestamp thread that could not
   be created.

Met while modelling, and in the models, but without a run of its own: the flag
`full` is raised one add later than `aesd-circular-buffer.h:49` says; replaced
entries are never freed (`BlocksAccountedFor` counts exactly these), nor is the
line being gathered when the module goes (`CleanupFreesRing` says so);
`device_create` fails with an error pointer that `main.c:356` does not look for,
so the module is loaded without its node; clients write at offset 0 of the
regular file, over timestamps and over the first piece of their own line, so the
regular-file build does not handle clients as before; a failed `bind` unlinks the
file of the server that is running; `do_exec_redirect`, "same as do_exec()" by its
comment, does not look at what `waitpid` returns or stores and answers true after
every failure of its child (`TrueMeansSuccess` leaves it out), and it ends its caller
when `open` or `fork` fails; the node of a thread
that ended before `add_thread` stays in the list; a signal between the test of
`running` and `accept` is noticed one client later (`SignalsEndServer` excepts
this case); a thread may create the data file again after `cleanup` unlinked it.

## 5. What is proved

All for every value of the constants that the named assumptions (and, where
given, the hypotheses of the theorem) allow. TLC evaluates the assumptions on
the constants in each run. The driver's theorems without a hypothesis cover behaviours
with signals, each up to the state, if any, in which a broken mutex has let two calls
meet (`Raced`); they say nothing of what the device holds after it.

| theorem | property | hypotheses |
| --- | --- | --- |
| `CircularBufferProofs!TypeCorrect`, `RingKeepsItsShape`, `ImplementsCommandLog`, `SearchFindsEveryByte` | `TypeOK`, `RingShape`, `KeepsMostRecent`, `FindsEveryByte` | - |
| `AesdCharProofs!LockIsHeld` | `LockCoversDevice` | no interrupted waits |
| `AesdCharProofs!OnlyInterruptionRaces` | `RacesNeedInterruption` | - |
| `AesdCharProofs!TypeCorrect`, `RingKeepsItsShape` | `TypeOK`, `DeviceRingShape` | - |
| `AesdCharDataProofs!HeapIsAccountedFor` | `BlocksAccountedFor` | - |
| `AesdCharDataProofs!DeviceImplementsLineLog` | `ImplementsLineLog` | no interrupted waits, `krealloc` moves nothing |
| `AesdCharDataProofs!ReadsReturnSlices` | `ReadsAreSlices` | no interrupted waits |
| `AesdCharDataProofs!SeeksStayInside`, `SeekToStaysBefore` | `SeekInsideUntilWrap`, `SeekToNeverOvershoots` | - |
| `AesdModuleProofs!FailureUndoesEverything`, `MutexOutlivesFiles`, `CleanupFreesEveryEntry`, `ModuleDrivesTheRing` | `NothingLeftRegistered`, `ReadyWhileInUse`, `CleanupFreesRing`, the ring's `Spec` | - |
| `AesdSocketProofs!MutexIsHeld`, `TypeCorrect` | `MutexCoversFile`, `TypeOK` | - |
| `AesdSocketProofs!LinesDoNotMix` | `CommandsHaveOneAuthor` | no faults, plain chunks |
| `AesdSocketProofs!OwnDataComesBack` | `RepliesIncludeOwnData` | no faults, signed chunks |
| `AesdSocketProofs!ThreadsServeAsBefore` | `HandlesAsBefore` | no faults, plain chunks, the device, no more clients than it keeps commands |
| `AesdSocketListProofs!ListStaysExact`, `StartedThreadsAreListed` | `ListIsExact`, `ThreadsAreListed` | - |
| `AesdSocketListProofs!OnlyOverlapCorrupts` | `CorruptOnlyByOverlap` | no faults |
| `ExercisesProofs!BlocksAreHandedOver`, `MutexIsHeld` | `BlocksHandedOver`, `MutexHeldWhileHolding` | - |
| `ExercisesProofs!TrueIsEarned`, `OutputIsRedirected` | `TrueMeansSuccess`, `OutputGoesToFile` | - |

Each is an induction on the steps; what follows says what had to be added to the
property to make it inductive.

**Sequences and sums** (`SequenceFacts`). The provers cannot use an induction rule that has
a predicate for a parameter. `NatInd` states induction about a *set* of naturals
instead (closed under successor and with 0, it is all of `Nat`), which they can,
and rests on `LeastNat`. From it come what `FlattenSeq` computes, index by index
(`FlattenIndex`), that it loses nothing (`FlattenKeepsElements`) and what a piece
added at the end does (`FlattenAppend`). `MapThenSumSet` adds over a set in an order
that CHOOSE picks: by induction on the cardinality its recursive equation has a
solution for every finite set (`SumExists`), the sum may be taken apart at any
element (`SumSplits`), and over an interval it is the running sum
(`SumOverInterval`).

**The ring** (`CircularBufferProofs`), assuming a positive capacity and non-empty
entries (the only caller adds a line that ends in a newline). The inductive
invariant is `TypeOK /\ RingShape`. `RingShape` names the two shapes of the array,
being filled and saturated; it is what makes the test of an entry's size a valid
test for a full ring, and so the strengthening that the refinement needs: an add
to a ring being filled appends to the log, an add to a saturated one also drops
its head. `AdvanceWraps` and `SlotSumWraps` rid the slot arithmetic of `%`. The
search is a pure function of the state: `OffsetRecurrence` says what the running
offset is after each entry, `FirstHit` that the first entry whose end lies beyond
the position is the only one, and `FlattenIndex` that its byte is the byte there.

**The driver** (`AesdCharProofs`, `AesdCharDataProofs`), for any set of processes,
any capacity, payloads that are sequences of bytes, counts and ioctl arguments that
are natural numbers, a NULL that is no process and no result of a search.

- `LockIsHeld`, `OnlyInterruptionRaces`: `LockCoversDevice` alone is not inductive,
  because where `mutex_lock_interruptible` and `mutex_unlock` lead depends on the
  call; `PlaceInv` adds that a process is only in pieces of the handler it called.
  It claims the cover as long as `broken` is FALSE (`LockUnlessInterrupted`), which
  without interrupted waits is always, and with them is until the first that
  unlocks: two calls that meet before it would both own the mutex.
- `TypeCorrect`: `DataInv` adds what is carried between the steps: a block that passed `kmalloc` is not longer than it allows, a slot found
  is a slot, the ioctl's sum and index are numbers in range.
- `RingKeepsItsShape`: the ring's lemmas, instantiated with the driver's
  commands (`RingFacts`), applied to the one step that adds; what is added is
  never empty, by `DataInv` and the guard of `WriteCommit`.
- `HeapIsAccountedFor`: with moved blocks and failures of every call. The invariant (`BlocksInv`) adds `DataInv` and the ring's shape, so that a commit that evicts
  nothing takes a free slot, and counts slots and processes by cardinality.
- `DeviceImplementsLineLog`: the step that maps to a `Write` is the one that joins
  the bytes to the line; the commit that follows is a stutter, which needs that a
  line with its newline always has its writer at the commit, alone
  (`DoneLineHasWriter`), and that the ring refines the command log.
- `ReadsReturnSlices`: between the search and the copy a read carries a slot and an
  offset. `ReadInv` says that they are still the place of the reader's position,
  which the mutex keeps true, and after the copy that the bytes are the slice;
  `FlattenIndex` turns slot and offset into an index of the contents.
- `SeeksStayInside` and `SeekToStaysBefore`: with moved blocks too. Neither `llseek`, when it stores the position, nor the ioctl, at any time, owns the
  mutex, so both rest on what the writers cannot undo. `SeekInv` says that as long as
  the ring is not full reading starts at slot 0, the size that `llseek` carries is at
  most the sum of the slots' sizes as they now are, and what the ioctl has added up
  is at most the sum of the slots before its index. Until the ring is full an add fills an
  empty slot (`RingOnlyGrows`, from `RingShape`), so these sums never shrink.
  `TotalIs` and `PositionIs` say that the sums over sets in the two properties are
  the running offset of the search.

**The module** (`AesdModuleProofs`), for any capacity and any number of open files.
Neither property of the registry says anything of the stages in between, so
`RegistryInv` gives, for each stage, exactly what may be registered then
(`MayHold`), and that files are open only while the module is loaded.
`ModuleDrivesTheRing` shows that the module's life seen at the ring alone is a
behaviour of `CircularBuffer`; with the ring's shape and `OwnedInv`, that the
blocks owned are those in slots, cleanup's loop over the slots frees all of them.

**The server** (`AesdSocketProofs`), assuming that NULL is no thread and no offset,
the timestamp thread no client, and that clients send bytes.

- `MutexIsHeld`: only the owner of `file_mutex` is at the data file. The converse is
  false (a thread whose client left keeps the mutex), so the invariant has one
  direction, with the typing of `thread`.
- `TypeCorrect`: `Typed` adds that `current` is a thread where main uses it, that a
  thread which stores has a chunk, and that the timestamp thread is short of its
  bound where it may write.
- `LinesDoNotMix`: `AuthorInv` says that the beginning of a line belongs to the
  owner of the mutex and is gone when a reply is due. Without the hypotheses this is
  false of the code: a seek command, a store that failed and bytes after a newline
  (`PlainChunks` excludes the first and the last) all give the mutex back with a
  line begun.
- `OwnDataComesBack`: `AnswerInv` says that from a client's write to its reply its
  data is in the file, since whoever else writes would own the mutex. On the file a
  client without a byte of its own in the last chunk may have overwritten its
  earlier ones, which `SignedChunks` excludes.
- `ThreadsServeAsBefore`: the refinement, step by step. `Lock` maps to `Accept`,
  `Recv`, `Store` and `Reply` to the steps of those names, everything main and
  leaving threads do to stutters (`Unseen`). `SerialInv` adds the order of
  connection and thread, `AuthorInv` that a reply finds no line begun, and
  `CountInv` that the device holds no more commands than clients have been
  answered, so that it evicts nothing while there are no more clients than it
  keeps commands. That bound is the exact extent of the claim: the earlier file was
  never cut.

**The list of threads** (`AesdSocketListProofs`). As long as no two calls overlapped
the nodes form a chain from `head`, or from `current` while main joins (`Chain`: each
is followed by another or by none, no two by the same one, none is left out);
`ListInv` adds whose node is outside the chain in the middle of a call, and where a
walk stands. All three theorems follow from it. Together they say that, once every
thread could be created, the corruption that `server_join` shows has two calls before
it that overlapped. They do not say which lock would prevent that: `join_threads`'
wait for a thread counts as part of its call, and a lock held over that wait would
stop the thread that has to take its own node out.

**The exercises** (`ExercisesProofs`), assuming that NOBODY is no thread. `ThreadInv`
is the two properties together, with what a call has answered at each of its places.
`CallInv` relates the places of caller and child, and says that only a command ends a
child with code 0: every other exit of a child has another code, which is why the
caller may take the code for the command's.

Only model-checked. Liveness (`EveryCallReturns`, `LinesAreAnswered`,
`SignalsEndServer`, `EveryCallEnds`, `EveryThreadReturns`) is out of the prover's
reach. What the five violation runs refute is, of course, not proved.

## 6. What is not modelled, and why

- What the driver does after two calls have met under a broken mutex: undefined in
  C, so behaviours end there.
- Text of the caller that stdio still buffers when `fork` copies it (the child of
  `do_exec_redirect` leaves with `exit` and prints it again).
- What becomes of the other threads' work when a thread of the server ends the whole
  process after a failed `open` or `ioctl`.
- Two calls at once on one open file, and `dup`ed descriptors: each process has an
  open file of its own.
- Descriptors and their exhaustion (`data_fd` is opened for each chunk and closed
  once); the lengths of `buffer` and of the reply's pieces: a reply is sent in one
  step, and it is the mutex that makes this sound.
- What `buffer` holds beyond the bytes received, which `strncmp` may look at
  (`aesdsocket.c:190`): a chunk is a seek command or data by its kind.
- A signal taken by another thread than main, which would interrupt its `recv`.
- A seek command split over chunks, or a line with more bytes after its newline.
- A second server beside the first, and the file an earlier one left behind.
- The kernel's own part in loading: an open through an old node between `cdev_add`
  and the end of init.
- The finder application, the scripts, the tests and the build files: sequential
  effects on files and on the system, with no state of their own to check.

## 7. Plan

Every component with logic of its own has its module, and every invariant, action
property and refinement that a passing run checks has its theorem. What is left are
hypotheses that could be weaker: `ReadsReturnSlices` and `DeviceImplementsLineLog`
for behaviours in which no wait *has been* interrupted, rather than may be, as
`OnlyInterruptionRaces` is. And in the model, should
the code come to promise something about them: open descriptors of the server, and a
second server on the same file.
