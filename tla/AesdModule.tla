----------------------------- MODULE AesdModule -----------------------------
(***************************************************************************)
(* The life of the AESD driver in the kernel, aesd-char-driver/main.c:     *)
(* aesd_init_module with each of its steps failing, the time in which the  *)
(* device is open and its ring fills, and aesd_cleanup_module.  The ring   *)
(* is CircularBuffer; how a file operation works is AesdChar.              *)
(*                                                                         *)
(* The stage is named for the step that comes next.  A module is loaded    *)
(* once: loaded again it starts with other memory.                         *)
(***************************************************************************)
EXTENDS CircularBuffer, FiniteSets

CONSTANT MaxOpen    (* bound: how many files are open at once         *)

ASSUME MaxOpenAssumption == MaxOpen \in Nat

(* The entries aesd_write adds point to a block that kmalloc gave it: a    *)
(* failed kmalloc or krealloc returns before the add.                      *)
ASSUME BlocksAssumption == \A e \in Entries : e.buffptr # NULL

VARIABLES
  stage,      (* where insmod or rmmod is                             *)
  held,       (* what is registered with the kernel                   *)
  lock,       (* aesd_device.lock: "unset", "ready" or "destroyed"    *)
  opens,      (* open files of the device                             *)
  gathering,  (* does dev->entry point to a block?                    *)
  owned       (* blocks allocated and neither freed nor replaced      *)

registry == << stage, held, lock >>
memory   == << gathering, owned >>
moduleVars == << bufferVars, registry, opens, memory >>

ModuleInit ==
  /\ aesd_circular_buffer_init
  /\ stage = "absent"
  /\ held = {}
  /\ lock = "unset"
  /\ opens = 0
  /\ gathering = FALSE
  /\ owned = 0

-----------------------------------------------------------------------------
(* aesd_init_module. *)

Step(from, to) == stage = from /\ stage' = to

(* A step that succeeds registers r; one that fails gives back what the    *)
(* steps before it registered, and the module is not loaded.               *)
Registers(r, from, to) ==
  Step(from, to) /\ held' = held \cup {r} /\ UNCHANGED << bufferVars, lock, opens, memory >>

FailsAndUndoes(undone, from) ==
  Step(from, "absent") /\ held' = held \ undone /\ UNCHANGED << bufferVars, lock, opens, memory >>

alloc_chrdev_region ==
  \/ Registers("region", "absent", "memset")
  \/ FailsAndUndoes({}, "absent")

mutex_init == "ready"

InitDevice ==
  /\ Step("memset", "cdev_add")
  /\ lock' = mutex_init
  /\ entry' = [i \in Slots |-> NoEntry] /\ in_offs' = 0 /\ out_offs' = 0 /\ full' = FALSE
  /\ UNCHANGED << held, opens, memory >>

aesd_setup_cdev ==
  \/ Registers("cdev", "cdev_add", "class_create")
  \/ FailsAndUndoes({"region"}, "cdev_add")

(* A definition named Bug_... is a seeded fault: a wrong variant of the    *)
(* definition after it, used only to show that a property can fail.  Here  *)
(* the character device is forgotten.                                      *)
Bug_UndoneByClassKeepsCdev == {"region"}

UndoneByClass == {"cdev", "region"}

class_create ==
  \/ Registers("class", "class_create", "device_create")
  \/ FailsAndUndoes(UndoneByClass, "class_create")

(* device_create fails with an error pointer, never with NULL, and so is   *)
(* never found to have failed: the module is loaded without its node.      *)
device_create ==
  \/ Registers("node", "device_create", "loaded")
  \/ Step("device_create", "loaded") /\ UNCHANGED << bufferVars, held, lock, opens, memory >>

-----------------------------------------------------------------------------
(* The device in use. *)

(* The node comes from device_create or, once insmod is through, from the  *)
(* load script.  An open file counts as a use of the module that owns the  *)
(* character device.                                                       *)
Open ==
  /\ "node" \in held \/ stage = "loaded"
  /\ "cdev" \in held
  /\ opens < MaxOpen
  /\ opens' = opens + 1
  /\ UNCHANGED << bufferVars, registry, memory >>

Release ==
  /\ opens > 0
  /\ opens' = opens - 1
  /\ UNCHANGED << bufferVars, registry, memory >>

(* A write without a newline keeps a block for the line. *)
WritePiece ==
  /\ opens > 0
  /\ gathering' = TRUE
  /\ owned' = IF gathering THEN owned ELSE owned + 1
  /\ UNCHANGED << bufferVars, registry, opens >>

(* A write that ends the line hands its block to the ring; the block of    *)
(* the entry it replaces is lost, and no longer counted here.              *)
WriteLine(e) ==
  /\ opens > 0
  /\ aesd_circular_buffer_add_entry(e)
  /\ gathering' = FALSE
  /\ owned' = owned + (IF gathering THEN 0 ELSE 1) - (IF Overwrites THEN 1 ELSE 0)
  /\ UNCHANGED << registry, opens >>

-----------------------------------------------------------------------------
(* aesd_cleanup_module, which the kernel calls when nobody uses the module. *)

Unregisters(r, from, to) ==
  Step(from, to) /\ held' = held \ {r} /\ UNCHANGED << bufferVars, lock, opens, memory >>

(* Seeded fault: cdev.owner is not set, so open files do not count. *)
Bug_OpenFilesDoNotCount == TRUE

Unused == opens = 0

rmmod ==
  /\ Unused
  /\ Unregisters("node", "loaded", "class_destroy")

class_destroy == Unregisters("class", "class_destroy", "cdev_del")
cdev_del      == Unregisters("cdev", "cdev_del", "kfree")

(* Seeded fault: the slots in front of the first entry are passed over. *)
Bug_FreedFromOutOffs == {i \in Slots : i >= out_offs /\ entry[i].buffptr # NULL}

FreedSlots == {i \in Slots : entry[i].buffptr # NULL}

FreeEntries ==
  /\ Step("kfree", "unregister")
  /\ owned' = owned - Cardinality(FreedSlots)
  /\ lock' = "destroyed"
  /\ UNCHANGED << bufferVars, held, opens, gathering >>

unregister_chrdev_region == Unregisters("region", "unregister", "gone")

-----------------------------------------------------------------------------
aesd_init_module == \/ alloc_chrdev_region \/ InitDevice \/ aesd_setup_cdev
                    \/ class_create \/ device_create

aesd_cleanup_module == \/ rmmod \/ class_destroy \/ cdev_del \/ FreeEntries
                       \/ unregister_chrdev_region

ModuleNext ==
  \/ aesd_init_module \/ aesd_cleanup_module
  \/ Open \/ Release \/ WritePiece \/ \E e \in Entries : WriteLine(e)

ModuleSpec == ModuleInit /\ [][ModuleNext]_moduleVars

-----------------------------------------------------------------------------
(* Properties. *)

(* Whether init failed at any of its steps or cleanup ran to its end,      *)
(* nothing stays registered with the kernel.                               *)
NothingLeftRegistered == stage \in {"absent", "gone"} => held = {}

(* A file operation never finds a mutex that is not set up or memory that  *)
(* is freed: the character device goes live after they are set up, goes    *)
(* away before they are destroyed, and open files keep the module.         *)
ReadyWhileInUse == ("cdev" \in held \/ opens > 0) => lock = "ready"

(* "Free the allocated memory buffers" (main.c:384): wherever the ring was *)
(* in its array, cleanup frees every entry it keeps.  Only the line that   *)
(* was being gathered is left, and the blocks of replaced entries.         *)
CleanupFreesRing ==
  stage \in {"unregister", "gone"} => owned = IF gathering THEN 1 ELSE 0
=============================================================================
