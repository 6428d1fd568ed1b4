-------------------------- MODULE AesdModuleProofs --------------------------
(* Theorems about the driver's start and end, for any number of slots and  *)
(* open files.                                                             *)
EXTENDS AesdModule, CircularBufferProofs, FiniteSetTheorems

(* What can be registered at each stage: exactly what init has registered  *)
(* so far and cleanup has not given back, but for the node, which is there *)
(* or not.                                                                 *)
MayHold ==
  [absent         |-> {{}},
   memset         |-> {{"region"}},
   cdev_add       |-> {{"region"}},
   class_create   |-> {{"region", "cdev"}},
   device_create  |-> {{"region", "cdev", "class"}},
   loaded         |-> {{"region", "cdev", "class"}, {"region", "cdev", "class", "node"}},
   class_destroy  |-> {{"region", "cdev", "class"}},
   cdev_del       |-> {{"region", "cdev"}},
   kfree          |-> {{"region"}},
   unregister     |-> {{"region"}},
   gone           |-> {{}}]

(* Nobody can open the device while its device_create is under way: the    *)
(* node is not there, and the load script has not run.                     *)
RegistryInv ==
  /\ stage \in DOMAIN MayHold
  /\ held \in MayHold[stage]
  /\ stage \in {"cdev_add", "class_create", "device_create", "loaded",
                "class_destroy", "cdev_del", "kfree"} => lock = "ready"
  /\ opens \in Nat
  /\ stage # "loaded" => opens = 0

LEMMA InitRegistryInv == ModuleInit => RegistryInv
  BY DEF ModuleInit, RegistryInv, MayHold

LEMMA InitModuleKeepsRegistryInv ==
  ASSUME RegistryInv, aesd_init_module
  PROVE  RegistryInv'
  <1> USE DEF RegistryInv, MayHold, Step, Registers, FailsAndUndoes
  <1>1. CASE alloc_chrdev_region
    BY <1>1 DEF alloc_chrdev_region
  <1>2. CASE InitDevice
    BY <1>2 DEF InitDevice, mutex_init
  <1>3. CASE aesd_setup_cdev
    BY <1>3 DEF aesd_setup_cdev
  <1>4. CASE class_create
    BY <1>4 DEF class_create, UndoneByClass
  <1>5. CASE device_create
    BY <1>5 DEF device_create
  <1>6. QED
    BY <1>1, <1>2, <1>3, <1>4, <1>5 DEF aesd_init_module

LEMMA CleanupModuleKeepsRegistryInv ==
  ASSUME RegistryInv, aesd_cleanup_module
  PROVE  RegistryInv'
  <1> USE DEF RegistryInv, MayHold, Step, Unregisters
  <1>1. CASE rmmod
    BY <1>1 DEF rmmod, Unused
  <1>2. CASE class_destroy
    BY <1>2 DEF class_destroy
  <1>3. CASE cdev_del
    BY <1>3 DEF cdev_del
  <1>4. CASE FreeEntries
    BY <1>4 DEF FreeEntries
  <1>5. CASE unregister_chrdev_region
    BY <1>5 DEF unregister_chrdev_region
  <1>6. QED
    BY <1>1, <1>2, <1>3, <1>4, <1>5 DEF aesd_cleanup_module

(* Files are opened once the module is loaded, and opening, closing and    *)
(* writing leave the registry alone.                                       *)
LEMMA UseKeepsRegistryInv ==
  ASSUME RegistryInv, Open \/ Release \/ WritePiece \/ (\E e \in Entries : WriteLine(e))
  PROVE  RegistryInv'
  <1>1. UNCHANGED << stage, held, lock >>
    BY DEF Open, Release, WritePiece, WriteLine, registry
  <1>2. stage = "loaded"
    BY DEF RegistryInv, MayHold, Open, Release, WritePiece, WriteLine
  <1>3. opens' \in Nat
    BY DEF RegistryInv, Open, Release, WritePiece, WriteLine
  <1>4. QED
    BY <1>1, <1>2, <1>3 DEF RegistryInv

LEMMA RegistryIsExact == ModuleSpec => []RegistryInv
  <1>1. RegistryInv /\ [ModuleNext]_moduleVars => RegistryInv'
    <2>1. RegistryInv /\ ModuleNext => RegistryInv'
      BY InitModuleKeepsRegistryInv, CleanupModuleKeepsRegistryInv, UseKeepsRegistryInv
      DEF ModuleNext
    <2>2. RegistryInv /\ UNCHANGED moduleVars => RegistryInv'
      BY DEF moduleVars, registry, RegistryInv
    <2>3. QED
      BY <2>1, <2>2
  <1>2. QED
    BY InitRegistryInv, <1>1, PTL DEF ModuleSpec

(* A failed init and a finished cleanup leave nothing registered, whatever *)
(* the step at which init failed.                                          *)
THEOREM FailureUndoesEverything == ModuleSpec => []NothingLeftRegistered
  <1>1. RegistryInv => NothingLeftRegistered
    BY DEF RegistryInv, MayHold, NothingLeftRegistered
  <1>2. QED
    BY <1>1, RegistryIsExact, PTL

(* From the moment the character device is live to the last release, the   *)
(* mutex that the file operations take is set up.                          *)
THEOREM MutexOutlivesFiles == ModuleSpec => []ReadyWhileInUse
  <1>1. RegistryInv => ReadyWhileInUse
    BY DEF RegistryInv, MayHold, ReadyWhileInUse
  <1>2. QED
    BY <1>1, RegistryIsExact, PTL

-----------------------------------------------------------------------------
(* The ring while the module is loaded, used and removed. *)

(* Until init is through, the device is as init leaves it; this is what a  *)
(* failed init goes back to.                                               *)
NotYetUsed ==
  stage \in {"absent", "memset", "cdev_add", "class_create", "device_create"} =>
    aesd_circular_buffer_init /\ gathering = FALSE /\ owned = 0

(* A step of the module is an add to the ring or leaves the ring alone.    *)
LEMMA ModuleStepIsARingStep ==
  ASSUME RegistryInv, NotYetUsed, [ModuleNext]_moduleVars
  PROVE  [Next]_bufferVars /\ NotYetUsed'
  <1> USE DEF aesd_circular_buffer_init, Slots, NoEntry
  <1>1. CASE InitDevice
    BY <1>1 DEF InitDevice, Step, NotYetUsed, bufferVars, memory
  <1>2. CASE alloc_chrdev_region \/ aesd_setup_cdev \/ class_create \/ device_create
    <2>1. UNCHANGED << bufferVars, memory >>
      BY <1>2
      DEF alloc_chrdev_region, aesd_setup_cdev, class_create, device_create,
          Registers, FailsAndUndoes, memory
    <2>2. stage \in {"absent", "cdev_add", "class_create", "device_create"}
      BY <1>2
      DEF alloc_chrdev_region, aesd_setup_cdev, class_create, device_create,
          Registers, FailsAndUndoes, Step
    <2>3. QED
      BY <2>1, <2>2 DEF NotYetUsed, bufferVars, memory
  <1>3. CASE aesd_cleanup_module
    <2>1. UNCHANGED bufferVars
      BY <1>3 DEF aesd_cleanup_module, rmmod, class_destroy, cdev_del, FreeEntries,
                  unregister_chrdev_region, Unregisters
    <2>2. stage' \in {"class_destroy", "cdev_del", "kfree", "unregister", "gone"}
      BY <1>3 DEF aesd_cleanup_module, rmmod, class_destroy, cdev_del, FreeEntries,
                  unregister_chrdev_region, Unregisters, Step
    <2>3. QED
      BY <2>1, <2>2 DEF NotYetUsed
  <1>4. CASE Open
    BY <1>4 DEF Open, NotYetUsed, bufferVars, memory, registry
  <1>5. ASSUME Release \/ WritePiece \/ \E e \in Entries : WriteLine(e)
        PROVE  [Next]_bufferVars /\ NotYetUsed'
    <2>1. stage = "loaded" /\ UNCHANGED stage
      BY <1>5 DEF RegistryInv, Release, WritePiece, WriteLine, registry
    <2>2. [Next]_bufferVars
      BY <1>5 DEF Release, WritePiece, WriteLine, Next
    <2>3. QED
      BY <2>1, <2>2 DEF NotYetUsed
  <1>6. CASE UNCHANGED moduleVars
    BY <1>6 DEF moduleVars, bufferVars, memory, registry, NotYetUsed
  <1>7. QED
    BY <1>1, <1>2, <1>3, <1>4, <1>5, <1>6 DEF ModuleNext, aesd_init_module

LEMMA UsedOnlyOnceLoaded == ModuleSpec => []NotYetUsed
  <1>1. ModuleInit => NotYetUsed
    BY DEF ModuleInit, NotYetUsed
  <1>2. RegistryInv /\ NotYetUsed /\ [ModuleNext]_moduleVars => NotYetUsed'
    BY ModuleStepIsARingStep
  <1>3. QED
    BY <1>1, <1>2, RegistryIsExact, PTL DEF ModuleSpec

(* Inside the driver's life the ring behaves as the ring alone: loading,   *)
(* failing to load, use and removal never touch it but through add_entry.  *)
THEOREM ModuleDrivesTheRing == ModuleSpec => Spec
  <1>1. ModuleInit => Init
    BY DEF ModuleInit, Init
  <1>2. RegistryInv /\ NotYetUsed /\ [ModuleNext]_moduleVars => [Next]_bufferVars
    BY ModuleStepIsARingStep
  <1>3. QED
    BY <1>1, <1>2, RegistryIsExact, UsedOnlyOnceLoaded, PTL DEF ModuleSpec, Spec

-----------------------------------------------------------------------------
(* The blocks cleanup frees. *)

LineBlock == IF gathering THEN 1 ELSE 0

(* As long as cleanup has not freed them, the blocks owned are those of    *)
(* the slots in use and that of the line.                                  *)
OwnedInv ==
  /\ gathering \in BOOLEAN
  /\ owned = IF stage \in {"unregister", "gone"}
             THEN LineBlock ELSE Cardinality(FreedSlots) + LineBlock

LEMMA FreedSlotsFacts ==
  ASSUME TypeOK
  PROVE  /\ IsFiniteSet(FreedSlots)
         /\ Cardinality(FreedSlots) \in Nat
         /\ \A i \in Slots : i \in FreedSlots <=> Occupied(i)
  <1>1. FreedSlots \subseteq 0 .. MaxWriteOps - 1
    BY DEF FreedSlots, Slots
  <1>2. IsFiniteSet(0 .. MaxWriteOps - 1)
    BY FS_Interval, MaxWriteOpsAssumption
  <1>3. IsFiniteSet(FreedSlots)
    BY <1>1, <1>2, FS_Subset
  <1>4. Cardinality(FreedSlots) \in Nat
    BY <1>3, FS_CardinalityType
  <1>5. ASSUME NEW i \in Slots PROVE i \in FreedSlots <=> Occupied(i)
    <2>1. CASE entry[i] \in Entries
      BY <2>1, BlocksAssumption, EntriesAssumption DEF FreedSlots, Occupied
    <2>2. CASE entry[i] = NoEntry
      BY <2>2 DEF FreedSlots, Occupied, NoEntry
    <2>3. QED
      BY <2>1, <2>2 DEF TypeOK
  <1>6. QED
    BY <1>3, <1>4, <1>5

(* A command fills a free slot or takes the place of another. *)
LEMMA AddCountsSlots ==
  ASSUME TypeOK, RingShape, NEW e \in Entries, aesd_circular_buffer_add_entry(e)
  PROVE  Cardinality(FreedSlots') = Cardinality(FreedSlots) + IF Overwrites THEN 0 ELSE 1
  <1>1. in_offs \in Slots /\ entry' = [entry EXCEPT ![in_offs] = e]
    BY DEF TypeOK, aesd_circular_buffer_add_entry
  <1>2. FreedSlots' = FreedSlots \cup {in_offs}
    BY <1>1, BlocksAssumption DEF FreedSlots, TypeOK, Slots
  <1>3. Overwrites <=> in_offs \in FreedSlots
    BY <1>1, FreedSlotsFacts DEF Overwrites, Occupied, RingShape
  <1>4. CASE in_offs \in FreedSlots
    <2>1. FreedSlots' = FreedSlots
      BY <1>2, <1>4
    <2>2. QED
      BY <1>3, <1>4, <2>1, FreedSlotsFacts
  <1>5. CASE in_offs \notin FreedSlots
    BY <1>2, <1>3, <1>5, FreedSlotsFacts, FS_AddElement
  <1>6. QED
    BY <1>4, <1>5

LEMMA StepKeepsOwnedInv ==
  ASSUME TypeOK, RingShape, RegistryInv, NotYetUsed, OwnedInv, [ModuleNext]_moduleVars
  PROVE  OwnedInv'
  <1>1. ASSUME UNCHANGED << entry, gathering, owned >>,
               stage \in {"unregister", "gone"} <=> stage' \in {"unregister", "gone"}
        PROVE  OwnedInv'
    <2>1. FreedSlots' = FreedSlots /\ LineBlock' = LineBlock
      BY <1>1 DEF FreedSlots, Slots, LineBlock
    <2>2. QED
      BY <1>1, <2>1 DEF OwnedInv
  <1>2. CASE aesd_init_module
    <2>1. UNCHANGED << gathering, owned >>
      BY <1>2
      DEF aesd_init_module, alloc_chrdev_region, InitDevice, aesd_setup_cdev,
          class_create, device_create, Registers, FailsAndUndoes, memory
    <2>2. UNCHANGED entry
      BY <1>2
      DEF aesd_init_module, alloc_chrdev_region, InitDevice, aesd_setup_cdev,
          class_create, device_create, Registers, FailsAndUndoes, Step, bufferVars,
          NotYetUsed, aesd_circular_buffer_init
    <2>3. /\ stage \notin {"unregister", "gone"}
          /\ stage' \notin {"unregister", "gone"}
      BY <1>2
      DEF aesd_init_module, alloc_chrdev_region, InitDevice, aesd_setup_cdev,
          class_create, device_create, Registers, FailsAndUndoes, Step
    <2>4. QED
      BY <1>1, <2>1, <2>2, <2>3
  <1>3. CASE rmmod \/ class_destroy \/ cdev_del \/ unregister_chrdev_region
    BY <1>1, <1>3
    DEF rmmod, class_destroy, cdev_del, unregister_chrdev_region, Unregisters, Step,
        bufferVars, memory
  <1>4. CASE FreeEntries
    <2>1. /\ stage = "kfree" /\ stage' = "unregister" /\ UNCHANGED gathering
          /\ owned' = owned - Cardinality(FreedSlots)
      BY <1>4 DEF FreeEntries, Step
    <2>2. owned = Cardinality(FreedSlots) + LineBlock /\ LineBlock \in Nat
      BY <2>1 DEF OwnedInv, LineBlock
    <2>3. owned' = LineBlock /\ LineBlock' = LineBlock
      BY <2>1, <2>2, FreedSlotsFacts DEF LineBlock
    <2>4. QED
      BY <2>1, <2>3 DEF OwnedInv
  <1>5. CASE Open \/ Release
    BY <1>1, <1>5 DEF Open, Release, bufferVars, registry, memory
  <1>6. CASE WritePiece
    <2>1. /\ stage = "loaded" /\ UNCHANGED stage /\ UNCHANGED entry
          /\ gathering' = TRUE
          /\ owned' = IF gathering THEN owned ELSE owned + 1
      BY <1>6 DEF WritePiece, RegistryInv, registry, bufferVars
    <2>2. FreedSlots' = FreedSlots
      BY <2>1 DEF FreedSlots, Slots
    <2>3. QED
      BY <2>1, <2>2, FreedSlotsFacts DEF OwnedInv, LineBlock
  <1>7. ASSUME NEW e \in Entries, WriteLine(e)
        PROVE  OwnedInv'
    <2>1. /\ stage = "loaded" /\ UNCHANGED stage
          /\ gathering' = FALSE
          /\ aesd_circular_buffer_add_entry(e)
          /\ owned' = owned + (IF gathering THEN 0 ELSE 1) - (IF Overwrites THEN 1 ELSE 0)
      BY <1>7 DEF WriteLine, RegistryInv, registry
    <2>2. Cardinality(FreedSlots') = Cardinality(FreedSlots) + IF Overwrites THEN 0 ELSE 1
      BY <2>1, AddCountsSlots
    <2>3. owned = Cardinality(FreedSlots) + IF gathering THEN 1 ELSE 0
      BY <2>1 DEF OwnedInv, LineBlock
    <2>4. owned' = Cardinality(FreedSlots')
      BY <2>1, <2>2, <2>3, FreedSlotsFacts DEF OwnedInv
    <2>5. Cardinality(FreedSlots') \in Nat
      BY <2>2, FreedSlotsFacts
    <2>6. LineBlock' = 0 /\ gathering' \in BOOLEAN
      BY <2>1, Zenon DEF LineBlock
    <2>7. owned' = Cardinality(FreedSlots') + LineBlock'
      BY <2>4, <2>5, <2>6
    <2>8. QED
      BY <2>1, <2>6, <2>7 DEF OwnedInv
  <1>8. CASE UNCHANGED moduleVars
    BY <1>1, <1>8 DEF moduleVars, bufferVars, memory, registry
  <1>9. QED
    BY <1>2, <1>3, <1>4, <1>5, <1>6, <1>7, <1>8 DEF ModuleNext, aesd_cleanup_module

(* Wherever the ring was in its array, and for any capacity, cleanup frees *)
(* every block the ring keeps, each once; only the line being gathered and *)
(* the blocks of replaced commands are left.                               *)
THEOREM CleanupFreesEveryEntry == ModuleSpec => []CleanupFreesRing
  <1>1. ModuleInit => OwnedInv
    <2> SUFFICES ASSUME ModuleInit PROVE OwnedInv
      OBVIOUS
    <2>1. FreedSlots = {}
      BY DEF ModuleInit, aesd_circular_buffer_init, FreedSlots, NoEntry
    <2>2. LineBlock = 0 /\ gathering \in BOOLEAN
      BY Zenon DEF ModuleInit, LineBlock
    <2>3. owned = Cardinality(FreedSlots) + LineBlock
      BY <2>1, <2>2, FS_EmptySet DEF ModuleInit
    <2>4. QED
      BY <2>2, <2>3 DEF ModuleInit, OwnedInv
  <1>2. TypeOK /\ RingShape /\ RegistryInv /\ NotYetUsed /\ OwnedInv
          /\ [ModuleNext]_moduleVars => OwnedInv'
    BY StepKeepsOwnedInv
  <1>3. OwnedInv => CleanupFreesRing
    BY DEF OwnedInv, CleanupFreesRing, LineBlock
  <1>4. QED
    BY <1>1, <1>2, <1>3, RegistryIsExact, UsedOnlyOnceLoaded, ModuleDrivesTheRing,
       TypeCorrect, RingKeepsItsShape, PTL
    DEF ModuleSpec
=============================================================================
