--------------------------- MODULE PlatformDevice ---------------------------
(***************************************************************************)
(* Registration of platform devices (01_Device_Tree/platform.c): devices   *)
(* that are allocated, added, deleted and put one by one, concurrently,    *)
(* and a batch of static devices that platform_add_devices registers.      *)
(*                                                                         *)
(* The driver core, the ID allocator and the resource tree each have a     *)
(* lock of their own, so every call of them is a step; nothing protects    *)
(* the sequence. The callers are those of the documentation: a failed or   *)
(* deleted device is put, and not added again.                             *)
(***************************************************************************)
EXTENDS Integers, Sequences

CONSTANTS Dev,   \* platform devices
          Batch, \* the static ones among them, in order
          Id,    \* IDs of devices
          AUTO, NONE, \* PLATFORM_DEVID_AUTO, PLATFORM_DEVID_NONE
          IdOf,  \* the ID a device is made with
          Res    \* its resources: of a type, from lo to hi

ASSUME BatchAssumption ==
  /\ Batch \in Seq(Dev)
  /\ \A j, k \in 1 .. Len(Batch) : Batch[j] = Batch[k] => j = k
ASSUME IdAssumption ==
  IdOf \in [Dev -> Id \cup {AUTO, NONE}] /\ AUTO \notin Id /\ AUTO # NONE
ASSUME ResAssumption ==
  Res \in [Dev -> Seq([type : {"mem", "io", "irq"}, lo : Int, hi : Int])]

VARIABLES platform_devid_ida, \* the IDs that are allocated
          bus,     \* devices that device_add has added
          claimed, \* the resources of each device that are in the tree
          pc,      \* where each device is in its life
          i,       \* the loop counter of its add or del
          id, id_auto,
          ref,     \* does somebody hold a reference to it?
          bpc, b   \* platform_add_devices: where it is, and its counter

device == <<i, id, id_auto, ref>>
batch == <<bpc, b>>
vars == <<platform_devid_ida, bus, claimed, pc, device, batch>>

Static == {Batch[k] : k \in 1 .. Len(Batch)}

Init ==
  /\ platform_devid_ida = {} /\ bus = {}
  /\ claimed = [d \in Dev |-> {}]
  /\ pc = [d \in Dev |-> "none"]
  /\ i = [d \in Dev |-> 0]
  /\ id = IdOf
  /\ id_auto = [d \in Dev |-> FALSE]
  /\ ref = [d \in Dev |-> FALSE]
  /\ bpc = "idle" /\ b = 0

Goto(d, to) == pc' = [pc EXCEPT ![d] = to]

-----------------------------------------------------------------------------
(* Resources and names                                                     *)

(* Resources of other types have no tree and no parent.                    *)
InTree(r) == r.type \in {"mem", "io"}

Count(d) == 1 .. Len(Res[d])

(* insert_resource accepts ranges that are disjoint or nested.             *)
Together(r, s) ==
  r.type = s.type =>
    \/ r.hi < s.lo \/ s.hi < r.lo
    \/ r.lo <= s.lo /\ s.hi <= r.hi
    \/ s.lo <= r.lo /\ r.hi <= s.hi

Fits(r) == \A d \in Dev : \A k \in claimed[d] : Together(r, Res[d][k])

(* "%s", "%s.%d" and "%s.%d.auto" of the same base name.                   *)
NameOf(d) == <<id[d], id_auto[d]>>

-----------------------------------------------------------------------------
(* platform_device_alloc and what is attached to the device                *)

Alloc(d) ==
  /\ pc[d] = "none" /\ d \notin Static
  /\ Goto(d, "alloc")
  /\ ref' = [ref EXCEPT ![d] = TRUE]
  /\ id' = [id EXCEPT ![d] = IdOf[d]]
  /\ id_auto' = [id_auto EXCEPT ![d] = FALSE]
  /\ UNCHANGED <<platform_devid_ida, bus, claimed, i, batch>>

(* platform_device_add_resources, platform_device_add_data and the         *)
(* software node: one of them may fail.                                    *)
Attach(d) ==
  /\ pc[d] = "alloc"
  /\ Goto(d, "name") \/ Goto(d, "failed")
  /\ UNCHANGED <<platform_devid_ida, bus, claimed, device, batch>>

-----------------------------------------------------------------------------
(* platform_device_add                                                     *)

NameExplicit(d) ==
  /\ pc[d] = "name" /\ id[d] # AUTO
  /\ i' = [i EXCEPT ![d] = 0]
  /\ Goto(d, "insert")
  /\ UNCHANGED <<platform_devid_ida, bus, claimed, id, id_auto, ref, batch>>

(* Slip: the ID is not marked as allocated.                                *)
NameAuto_Unmarked(d) ==
  /\ pc[d] = "name" /\ id[d] = AUTO
  /\ \E n \in Id \ platform_devid_ida :
       /\ platform_devid_ida' = platform_devid_ida \cup {n}
       /\ id' = [id EXCEPT ![d] = n]
  /\ i' = [i EXCEPT ![d] = 0]
  /\ Goto(d, "insert")
  /\ UNCHANGED <<bus, claimed, id_auto, ref, batch>>

NameAuto(d) ==
  /\ pc[d] = "name" /\ id[d] = AUTO
  /\ \E n \in Id \ platform_devid_ida :
       /\ platform_devid_ida' = platform_devid_ida \cup {n}
       /\ id' = [id EXCEPT ![d] = n]
  /\ id_auto' = [id_auto EXCEPT ![d] = TRUE]
  /\ i' = [i EXCEPT ![d] = 0]
  /\ Goto(d, "insert")
  /\ UNCHANGED <<bus, claimed, ref, batch>>

NoId(d) ==
  /\ pc[d] = "name" /\ id[d] = AUTO
  /\ Goto(d, "failed")
  /\ UNCHANGED <<platform_devid_ida, bus, claimed, device, batch>>

(* Slip: a resource that could not be claimed is passed over.              *)
Claim_PassesOver(d) ==
  /\ pc[d] = "insert" /\ i[d] < Len(Res[d])
  /\ LET k == i[d] + 1
         r == Res[d][k]
     IN  /\ claimed' = [claimed EXCEPT ![d] = IF InTree(r) /\ Fits(r) THEN @ \cup {k} ELSE @]
         /\ i' = [i EXCEPT ![d] = k]
  /\ UNCHANGED <<platform_devid_ida, bus, pc, id, id_auto, ref, batch>>

Claim(d) ==
  /\ pc[d] = "insert" /\ i[d] < Len(Res[d])
  /\ LET k == i[d] + 1
         r == Res[d][k]
     IN  /\ InTree(r) => Fits(r)
         /\ claimed' = [claimed EXCEPT ![d] = IF InTree(r) THEN @ \cup {k} ELSE @]
         /\ i' = [i EXCEPT ![d] = k]
  /\ UNCHANGED <<platform_devid_ida, bus, pc, id, id_auto, ref, batch>>

ClaimFails(d) ==
  /\ pc[d] = "insert" /\ i[d] < Len(Res[d])
  /\ LET r == Res[d][i[d] + 1] IN InTree(r) /\ ~ Fits(r)
  /\ Goto(d, "undo_id")
  /\ UNCHANGED <<platform_devid_ida, bus, claimed, device, batch>>

(* device_add fails if the name is taken, and for reasons of its own.      *)
DeviceAdd(d) ==
  /\ pc[d] = "insert" /\ i[d] = Len(Res[d])
  /\ \A e \in bus : NameOf(e) # NameOf(d)
  /\ bus' = bus \cup {d}
  /\ Goto(d, "on")
  /\ UNCHANGED <<platform_devid_ida, claimed, device, batch>>

DeviceAddFails(d) ==
  /\ pc[d] = "insert" /\ i[d] = Len(Res[d])
  /\ Goto(d, "undo_id")
  /\ UNCHANGED <<platform_devid_ida, bus, claimed, device, batch>>

FreeId(d) ==
  IF id_auto[d]
  THEN /\ platform_devid_ida' = platform_devid_ida \ {id[d]}
       /\ id' = [id EXCEPT ![d] = AUTO]
  ELSE UNCHANGED <<platform_devid_ida, id>>

(* Slip: the ID stays allocated.                                           *)
UndoId_Forgets(d) ==
  /\ pc[d] = "undo_id"
  /\ id' = [id EXCEPT ![d] = IF id_auto[d] THEN AUTO ELSE @]
  /\ Goto(d, "undo_res")
  /\ UNCHANGED <<platform_devid_ida, bus, claimed, i, id_auto, ref, batch>>

UndoId(d) ==
  /\ pc[d] = "undo_id"
  /\ FreeId(d)
  /\ Goto(d, "undo_res")
  /\ UNCHANGED <<bus, claimed, i, id_auto, ref, batch>>

(* Slip: the first resource is left out, as "while (--i)" does.            *)
UndoRes_NotFirst(d) ==
  /\ pc[d] = "undo_res"
  /\ IF i[d] <= 1
     THEN Goto(d, "failed") /\ UNCHANGED <<claimed, i>>
     ELSE /\ claimed' = [claimed EXCEPT ![d] = @ \ {i[d]}]
          /\ i' = [i EXCEPT ![d] = @ - 1]
          /\ pc' = pc
  /\ UNCHANGED <<platform_devid_ida, bus, id, id_auto, ref, batch>>

UndoRes(d) ==
  /\ pc[d] = "undo_res"
  /\ IF i[d] = 0
     THEN Goto(d, "failed") /\ UNCHANGED <<claimed, i>>
     ELSE /\ claimed' = [claimed EXCEPT ![d] = @ \ {i[d]}]
          /\ i' = [i EXCEPT ![d] = @ - 1]
          /\ pc' = pc
  /\ UNCHANGED <<platform_devid_ida, bus, id, id_auto, ref, batch>>

-----------------------------------------------------------------------------
(* platform_device_del                                                     *)

DeviceDel(d) ==
  /\ bus' = bus \ {d}
  /\ i' = [i EXCEPT ![d] = 0]
  /\ Goto(d, "del_id")
  /\ UNCHANGED <<platform_devid_ida, claimed, id, id_auto, ref>>

(* By whoever registered the device, or __platform_create_bundle when the  *)
(* driver does not bind.                                                   *)
Unregister(d) ==
  /\ pc[d] = "on"
  /\ d \in Static => bpc = "done"
  /\ DeviceDel(d)
  /\ UNCHANGED batch

DelId(d) ==
  /\ pc[d] = "del_id"
  /\ FreeId(d)
  /\ Goto(d, "del_res")
  /\ UNCHANGED <<bus, claimed, i, id_auto, ref, batch>>

DelRes(d) ==
  /\ pc[d] = "del_res"
  /\ IF i[d] = Len(Res[d])
     THEN Goto(d, "deleted") /\ UNCHANGED <<claimed, i>>
     ELSE /\ claimed' = [claimed EXCEPT ![d] = @ \ {i[d] + 1}]
          /\ i' = [i EXCEPT ![d] = @ + 1]
          /\ pc' = pc
  /\ UNCHANGED <<platform_devid_ida, bus, id, id_auto, ref, batch>>

(* Slip: a device that is on the bus is put without being deleted, as when *)
(* __platform_create_bundle jumps to the wrong label.                      *)
Put_NotDeleted(d) ==
  /\ pc[d] \in {"failed", "deleted", "on"}
  /\ pc[d] = "failed" => d \notin Static
  /\ ref' = [ref EXCEPT ![d] = FALSE]
  /\ Goto(d, "none")
  /\ UNCHANGED <<platform_devid_ida, bus, claimed, i, id, id_auto, batch>>

(* platform_device_put, and platform_device_release, for a device that was *)
(* deleted, and for one that was allocated and could not be added.         *)
Put(d) ==
  /\ pc[d] \in {"failed", "deleted"}
  /\ pc[d] = "failed" => d \notin Static
  /\ ref' = [ref EXCEPT ![d] = FALSE]
  /\ Goto(d, "none")
  /\ UNCHANGED <<platform_devid_ida, bus, claimed, i, id, id_auto, batch>>

-----------------------------------------------------------------------------
(* platform_add_devices                                                    *)

AddDevices ==
  /\ bpc = "idle"
  /\ bpc' = "add" /\ b' = 1
  /\ UNCHANGED <<platform_devid_ida, bus, claimed, pc, device>>

(* platform_device_register                                                *)
Register(d) ==
  /\ pc[d] = "none"
  /\ ref' = [ref EXCEPT ![d] = TRUE]
  /\ Goto(d, "name")
  /\ UNCHANGED <<platform_devid_ida, bus, claimed, i, id, id_auto>>

AddNext ==
  /\ bpc = "add" /\ b <= Len(Batch)
  /\ Register(Batch[b])
  /\ UNCHANGED batch

Added ==
  /\ bpc = "add" /\ b <= Len(Batch)
  /\ pc[Batch[b]] = "on"
  /\ b' = b + 1 /\ bpc' = bpc
  /\ UNCHANGED <<platform_devid_ida, bus, claimed, pc, device>>

AllAdded ==
  /\ bpc = "add" /\ b = Len(Batch) + 1
  /\ bpc' = "done" /\ b' = b
  /\ UNCHANGED <<platform_devid_ida, bus, claimed, pc, device>>

(* Slip: the devices before the last one stay, as "while (--i > 0)" does.  *)
RollBack_NotFirst ==
  /\ bpc = "add" /\ b <= Len(Batch)
  /\ pc[Batch[b]] = "failed"
  /\ IF b <= 2 THEN bpc' = "failed" /\ b' = b ELSE bpc' = "rollback" /\ b' = b - 1
  /\ UNCHANGED <<platform_devid_ida, bus, claimed, pc, device>>

(* The device that failed is not put.                                      *)
RollBack ==
  /\ bpc = "add" /\ b <= Len(Batch)
  /\ pc[Batch[b]] = "failed"
  /\ bpc' = "rollback" /\ b' = b - 1
  /\ UNCHANGED <<platform_devid_ida, bus, claimed, pc, device>>

RollBackOne ==
  /\ bpc = "rollback" /\ b > 0
  /\ pc[Batch[b]] = "on"
  /\ DeviceDel(Batch[b])
  /\ UNCHANGED batch

RolledBackOne ==
  /\ bpc = "rollback" /\ b > 0
  /\ pc[Batch[b]] = "none"
  /\ b' = b - 1 /\ bpc' = bpc
  /\ UNCHANGED <<platform_devid_ida, bus, claimed, pc, device>>

RolledBack ==
  /\ bpc = "rollback" /\ b = 0
  /\ bpc' = "failed" /\ b' = b
  /\ UNCHANGED <<platform_devid_ida, bus, claimed, pc, device>>

-----------------------------------------------------------------------------
AddStep(d) ==
  \/ NameExplicit(d) \/ NameAuto(d) \/ NoId(d) \/ Claim(d) \/ ClaimFails(d)
  \/ DeviceAdd(d) \/ DeviceAddFails(d) \/ UndoId(d) \/ UndoRes(d)

DelStep(d) == DelId(d) \/ DelRes(d) \/ Put(d)

BatchStep ==
  AddNext \/ Added \/ AllAdded \/ RollBack \/ RollBackOne \/ RolledBackOne \/ RolledBack

Next ==
  \/ AddDevices \/ BatchStep
  \/ \E d \in Dev : Alloc(d) \/ Attach(d) \/ Unregister(d) \/ AddStep(d) \/ DelStep(d)

Spec == Init /\ [][Next]_vars

-----------------------------------------------------------------------------
(* Properties                                                              *)

PCs == {"none", "alloc", "name", "insert", "undo_id", "undo_res", "failed",
        "on", "del_id", "del_res", "deleted"}

TypeOK ==
  /\ platform_devid_ida \subseteq Id
  /\ bus \subseteq Dev
  /\ claimed \in [Dev -> SUBSET Nat] /\ \A d \in Dev : claimed[d] \subseteq Count(d)
  /\ pc \in [Dev -> PCs]
  /\ i \in [Dev -> Nat] /\ \A d \in Dev : i[d] <= Len(Res[d])
  /\ id \in [Dev -> Id \cup {AUTO, NONE}]
  /\ id_auto \in [Dev -> BOOLEAN]
  /\ ref \in [Dev -> BOOLEAN]
  /\ bpc \in {"idle", "add", "rollback", "done", "failed"}
  /\ b \in 0 .. Len(Batch) + 1

(* The allocated IDs are those of the devices that are being added or are  *)
(* on the bus, and each of them has one of its own: no ID is lost when an  *)
(* add fails at any of its steps, and none is freed twice.                 *)
HoldsId(d) == pc[d] \in {"insert", "undo_id", "on", "del_id"} /\ IdOf[d] = AUTO

IdsAreHeld ==
  /\ platform_devid_ida = {id[d] : d \in {e \in Dev : HoldsId(e)}}
  /\ \A d, e \in Dev : HoldsId(d) /\ HoldsId(e) /\ id[d] = id[e] => d = e

(* "we append a suffix to avoid namespace collision with explicit IDs"     *)
(* (platform.c:678-679): device_add never finds the name of a device with  *)
(* an ID of its own taken, by whatever device.                             *)
AutoNeverCollides ==
  \A d \in Dev, e \in bus :
    pc[d] = "insert" /\ IdOf[d] = AUTO => NameOf(d) # NameOf(e)

(* A device on the bus has all of its resources. One that could not be     *)
(* added, one that was deleted and one that is freed, or that nobody       *)
(* refers to, has none and is not on the bus.                              *)
AllOrNothing ==
  \A d \in Dev :
    /\ d \in bus => \A k \in Count(d) : InTree(Res[d][k]) => k \in claimed[d]
    /\ pc[d] \in {"failed", "deleted"} \/ ~ ref[d] => claimed[d] = {} /\ d \notin bus

(* platform_add_devices leaves all of its devices on the bus, or none.     *)
BatchAllOrNothing ==
  [][/\ bpc' = "failed" => bus' \cap Static = {}
     /\ bpc # "done" /\ bpc' = "done" => Static \subseteq bus']_vars

(* "Always use platform_device_put() to give up the reference initialised  *)
(* in this function" (platform.c:772-773): no reference is left when       *)
(* platform_add_devices has failed.                                        *)
FailedBatchIsPut == bpc = "failed" => \A d \in Static : ~ ref[d]

(* Devices are added and deleted at once, as far as the bus can tell.      *)
BusName == [d \in bus |-> NameOf(d)]

AnyName == (Id \cup {AUTO, NONE}) \X BOOLEAN

ShareTree(d, e) ==
  \A k \in Count(d), l \in Count(e) :
    InTree(Res[d][k]) /\ InTree(Res[e][l]) => Together(Res[d][k], Res[e][l])

Bus == INSTANCE PlatformBus
         WITH busName <- BusName, Name <- AnyName, Compatible <- ShareTree

AddsAtOnce == Bus!Spec
=============================================================================
