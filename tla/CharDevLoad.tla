---------------------------- MODULE CharDevLoad ----------------------------
(***************************************************************************)
(* Loading and unloading the character device modules of 04_Example:       *)
(* 006_mutex (both variants), 015_virtual_char_device,                     *)
(* 016_register_char_device and 017_msgdev.                                *)
(*                                                                         *)
(* Their init functions acquire resources one after the other, and when a  *)
(* step fails give back what they hold and return the error; their exit    *)
(* functions give back everything.  A driver is a table of these orders,   *)
(* read off its source.  Around it stands what the module loader and the   *)
(* VFS do: a file can be opened as soon as its cdev is added, which may be *)
(* before init has returned; an open file pins a loaded module; a module   *)
(* whose init fails is freed whether or not it is pinned.                  *)
(***************************************************************************)
EXTENDS Integers, Sequences, FiniteSets

CONSTANTS File,      \* files that may be opened on the device
          EEP_NBANK, \* the number of banks of eep-mem
          Drivers    \* the drivers that are loaded

VARIABLES drv,      \* the driver that is loaded and unloaded
          state,    \* of the module
          step,     \* the next step of its init function
          held,     \* the resources it holds
          todo,     \* the resources it has yet to release
          files,    \* the files open on it
          stranded  \* the files that were still open when it was freed

vars == <<drv, state, step, held, todo, files, stranded>>

Elems(s) == {s[i] : i \in DOMAIN s}

-----------------------------------------------------------------------------
(* The drivers.  undo[i] is what init releases when step i fails; a step   *)
(* that is not in checked goes unnoticed when it fails.                    *)

data == <<"data", 0>>      \* the memory the file operations work on
region == <<"region", 0>>  \* the device numbers
class == <<"class", 0>>
cdev(i) == <<"cdev", i>>
device(i) == <<"device", i>>

MsgDev_LeaksClass ==
  [setup   |-> <<data, region, class, device(0), cdev(0)>>,
   checked |-> 1 .. 5,
   undo    |-> << <<>>, <<data>>, <<region, data>>, <<class, region, data>>,
                  <<device(0), region, data>> >>,
   exit    |-> <<cdev(0), device(0), class, region, data>>]

MsgDev_FreesDataEarly ==
  [setup   |-> <<data, region, class, device(0), cdev(0)>>,
   checked |-> 1 .. 5,
   undo    |-> << <<>>, <<data>>, <<region, data>>, <<class, region, data>>,
                  <<device(0), class, region, data>> >>,
   exit    |-> <<data, cdev(0), device(0), class, region>>]

MsgDev ==
  [setup   |-> <<data, region, class, device(0), cdev(0)>>,
   checked |-> 1 .. 5,
   undo    |-> << <<>>, <<data>>, <<region, data>>, <<class, region, data>>,
                  <<device(0), class, region, data>> >>,
   exit    |-> <<cdev(0), device(0), class, region, data>>]

Usb829 ==
  [setup   |-> <<region, cdev(0), class, device(0)>>,
   checked |-> 1 .. 4,
   undo    |-> << <<>>, <<region>>, <<cdev(0), region>>, <<class, cdev(0), region>> >>,
   exit    |-> <<device(0), class, cdev(0), region>>]

(* The result of device_create is not looked at.                           *)
MutexDev ==
  [setup   |-> <<region, cdev(0), class, device(0)>>,
   checked |-> 1 .. 3,
   undo    |-> << <<>>, <<region>>, <<cdev(0), region>>, <<>> >>,
   exit    |-> <<device(0), class, cdev(0), region>>]

(* The steps of a bank i are 2 * i + 3 and 2 * i + 4.                      *)
EepBank(k) == (k - 3) \div 2
EepSetup == [k \in 1 .. 2 * EEP_NBANK + 2 |->
               IF k = 1 THEN region
               ELSE IF k = 2 THEN class
               ELSE IF k % 2 = 1 THEN cdev(EepBank(k)) ELSE device(EepBank(k))]

(* Slip: the rollback starts with the bank that failed.                    *)
EepRollback_FromFailed(i) ==
  [j \in 1 .. 2 * i + 2 |-> IF j % 2 = 1 THEN device(i - (j \div 2))
                            ELSE cdev(i - (j \div 2) + 1)] \o <<class, region>>

(* From the bank before the one that failed down to the first.             *)
EepRollback(i) ==
  [j \in 1 .. 2 * i |-> IF j % 2 = 1 THEN device(i - 1 - (j \div 2))
                        ELSE cdev(i - (j \div 2))] \o <<class, region>>

(* device_create is compared with NULL, but reports a failure by a pointer *)
(* that is not NULL (ERR_PTR): the test never succeeds.                    *)
Eep ==
  [setup   |-> EepSetup,
   checked |-> {1, 2} \cup {2 * i + 3 : i \in 0 .. EEP_NBANK - 1},
   undo    |-> [k \in DOMAIN EepSetup |->
                  IF k = 1 THEN <<>>
                  ELSE IF k = 2 THEN <<region>>
                  ELSE IF k % 2 = 1 THEN EepRollback(EepBank(k))
                  ELSE <<cdev(EepBank(k))>> \o EepRollback(EepBank(k))],
   exit    |-> [j \in 1 .. 2 * EEP_NBANK |->
                  IF j % 2 = 1 THEN device(j \div 2) ELSE cdev((j \div 2) - 1)]
               \o <<class, region>>]

-----------------------------------------------------------------------------
(* The module loader and the VFS.                                          *)

Init ==
  /\ drv \in Drivers
  /\ state = "absent"
  /\ step = 1
  /\ held = {}
  /\ todo = <<>>
  /\ files = {}
  /\ stranded = {}

Insmod ==
  /\ state = "absent"
  /\ state' = "coming"
  /\ step' = 1
  /\ UNCHANGED <<drv, held, todo, files, stranded>>

SetupOk ==
  /\ state = "coming"
  /\ step \in DOMAIN drv.setup
  /\ held' = held \cup {drv.setup[step]}
  /\ step' = step + 1
  /\ UNCHANGED <<drv, state, todo, files, stranded>>

SetupFails ==
  /\ state = "coming"
  /\ step \in drv.checked
  /\ state' = "undoing"
  /\ todo' = drv.undo[step]
  /\ UNCHANGED <<drv, step, held, files, stranded>>

SetupFailsUnnoticed ==
  /\ state = "coming"
  /\ step \in DOMAIN drv.setup \ drv.checked
  /\ step' = step + 1
  /\ UNCHANGED <<drv, state, held, todo, files, stranded>>

SetupDone ==
  /\ state = "coming"
  /\ step > Len(drv.setup)
  /\ state' = "live"
  /\ UNCHANGED <<drv, step, held, todo, files, stranded>>

(* Slip of a driver without .owner: open files do not pin the module.      *)
Rmmod_NoOwner ==
  /\ state = "live"
  /\ state' = "going"
  /\ todo' = drv.exit
  /\ UNCHANGED <<drv, step, held, files, stranded>>

Rmmod ==
  /\ state = "live"
  /\ files = {}
  /\ state' = "going"
  /\ todo' = drv.exit
  /\ UNCHANGED <<drv, step, held, files, stranded>>

Release ==
  /\ state \in {"undoing", "going"}
  /\ todo # <<>>
  /\ held' = held \ {Head(todo)}
  /\ todo' = Tail(todo)
  /\ UNCHANGED <<drv, state, step, files, stranded>>

(* The exit function, or a failed init function, has returned.             *)
Freed ==
  /\ state \in {"undoing", "going"}
  /\ todo = <<>>
  /\ state' = "absent"
  /\ files' = {}
  /\ stranded' = stranded \cup files
  /\ UNCHANGED <<drv, step, held, todo>>

IsCdev(r) == r[1] = "cdev"

(* fops.owner: a reference is refused only once the module is going.       *)
Open(f) ==
  /\ state \in {"coming", "undoing", "live"}
  /\ \E r \in held : IsCdev(r)
  /\ f \notin files \cup stranded
  /\ files' = files \cup {f}
  /\ UNCHANGED <<drv, state, step, held, todo, stranded>>

Close(f) ==
  /\ f \in files
  /\ files' = files \ {f}
  /\ UNCHANGED <<drv, state, step, held, todo, stranded>>

Next ==
  \/ Insmod \/ SetupOk \/ SetupFails \/ SetupFailsUnnoticed \/ SetupDone
  \/ Rmmod \/ Release \/ Freed
  \/ \E f \in File : Open(f) \/ Close(f)

Spec == Init /\ [][Next]_vars

-----------------------------------------------------------------------------
(* Properties                                                              *)

Resource == {"data", "region", "class", "cdev", "device"} \X Int

TypeOK ==
  /\ drv \in Drivers
  /\ state \in {"absent", "coming", "undoing", "live", "going"}
  /\ step \in 1 .. Len(drv.setup) + 1
  /\ held \subseteq Elems(drv.setup)
  /\ todo \in Seq(Resource)
  /\ files \subseteq File
  /\ stranded \subseteq File

(* A module that is gone, whether by rmmod or because any one step of its  *)
(* init failed, has left nothing behind.                                   *)
NoLeak == state = "absent" => held = {}

(* Nothing is released twice, and nothing that was not acquired; only what *)
(* a step acquires whose failure goes unnoticed may be missing.            *)
ReleasesWhatItHolds ==
  /\ \A i, j \in DOMAIN todo : i # j => todo[i] # todo[j]
  /\ Elems(todo) \subseteq held \cup {drv.setup[i] : i \in DOMAIN drv.setup \ drv.checked}

(* What a resource stands on is there for as long as the resource is: no   *)
(* class goes before its devices, no device numbers before their cdevs, no *)
(* memory before the cdev whose operations use it.                         *)
Needs(d, r) == CASE r[1] = "device" -> {region, class}
                 [] r[1] = "cdev"   -> {region, data} \cap Elems(d.setup)
                 [] OTHER           -> {}

Backed == \A r \in held : Needs(drv, r) \subseteq held

(* What makes a table right: it gives back all that the steps before the   *)
(* failing one acquired, in the end everything, and never anything else.   *)
Complete(d) ==
  /\ d.setup \in Seq(Resource) /\ d.exit \in Seq(Resource)
  /\ d.undo \in Seq(Seq(Resource)) /\ Len(d.undo) = Len(d.setup)
  /\ d.checked \subseteq DOMAIN d.setup
  /\ Elems(d.exit) = Elems(d.setup)
  /\ \A i \in d.checked :
       /\ Elems(d.undo[i]) \subseteq Elems(d.setup)
       /\ \A j \in 1 .. i - 1 : d.setup[j] \in Elems(d.undo[i])

(* ... and gives it back once, in a safe order: a step is taken when what  *)
(* it needs is there for certain, and nothing is released before what      *)
(* needs it.                                                               *)
SafeOrder(d, s) ==
  /\ \A i, j \in DOMAIN s : i # j => s[i] # s[j]
  /\ \A i, j \in DOMAIN s : s[i] \in Needs(d, s[j]) => j < i

Ordered(d) ==
  /\ SafeOrder(d, d.exit) /\ \A i \in d.checked : SafeOrder(d, d.undo[i])
  /\ \A i \in DOMAIN d.setup :
       Needs(d, d.setup[i]) \subseteq {d.setup[j] : j \in d.checked \cap (1 .. i - 1)}
  /\ \A i \in d.checked : Elems(d.undo[i]) \subseteq {d.setup[j] : j \in 1 .. i - 1}

(* A driver that adds its only cdev in its last step is never freed under  *)
(* an open file: the error paths run before the first open, and rmmod      *)
(* waits for the last close.                                               *)
CdevLast(d) == \A i \in 1 .. Len(d.setup) - 1 : ~ IsCdev(d.setup[i])

StrandedOnlyByEarlyCdev == stranded # {} => ~ CdevLast(drv)
=============================================================================
