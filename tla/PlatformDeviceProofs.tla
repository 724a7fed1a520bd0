------------------------ MODULE PlatformDeviceProofs ------------------------
(***************************************************************************)
(* What PlatformDevice promises, for any devices, resources and batches.   *)
(***************************************************************************)
EXTENDS PlatformDevice, TLAPS

PlaceInv ==
  /\ bus = {d \in Dev : pc[d] = "on"}
  /\ \A d \in Dev : ref[d] <=> pc[d] # "none"

(* Only a device that holds an automatic ID has one.                       *)
IdInv ==
  \A d \in Dev :
    /\ HoldsId(d) => id[d] \in Id /\ id_auto[d]
    /\ IdOf[d] = AUTO /\ ~ HoldsId(d) => id[d] = AUTO
    /\ IdOf[d] # AUTO => id[d] = IdOf[d] /\ ~ id_auto[d]

(* Which resources are claimed, at every step of add and del.              *)
Trees(d) == {k \in Count(d) : InTree(Res[d][k])}

Claims(d, p, j) ==
  {k \in Trees(d) :
     \/ p \in {"insert", "undo_id", "undo_res"} /\ k <= j
     \/ p = "on"
     \/ p \in {"del_id", "del_res"} /\ k > j}

ClaimInv == \A d \in Dev : claimed[d] = Claims(d, pc[d], i[d])

TreeInv ==
  \A d, e \in Dev : \A k \in claimed[d], l \in claimed[e] : Together(Res[d][k], Res[e][l])

NameInv == \A d, e \in bus : NameOf(d) = NameOf(e) => d = e

(* Where the k-th device of the batch can be when platform_add_devices is  *)
(* at q with its counter at c.                                             *)
MayBeAt(k, p, q, c) ==
  /\ q = "idle" => p = "none"
  /\ q = "add" =>
       /\ k < c => p = "on"
       /\ k = c => p \in {"none", "name", "insert", "undo_id", "undo_res", "failed", "on"}
       /\ k > c => p = "none"
  /\ q = "rollback" =>
       /\ k < c => p = "on"
       /\ k = c => p \in {"none", "on", "del_id", "del_res", "deleted"}
       /\ k > c => p \in {"none", "failed"}
  /\ q = "done" => p \in {"none", "on", "del_id", "del_res", "deleted"}
  /\ q = "failed" => p \in {"none", "failed"}

BatchInv == \A k \in 1 .. Len(Batch) : MayBeAt(k, pc[Batch[k]], bpc, b)

CounterInv ==
  /\ bpc = "add" => b >= 1
  /\ bpc = "rollback" => b <= Len(Batch)

IInv ==
  /\ TypeOK /\ PlaceInv /\ IdInv /\ IdsAreHeld /\ ClaimInv /\ TreeInv /\ NameInv
  /\ BatchInv /\ CounterInv

-----------------------------------------------------------------------------
(* What a step leaves alone keeps its part of the invariant.               *)

LEMMA IdsFrame ==
  ASSUME IdInv, IdsAreHeld,
         id' = id, id_auto' = id_auto, platform_devid_ida' = platform_devid_ida,
         \A d \in Dev : HoldsId(d)' <=> HoldsId(d)
  PROVE  IdInv' /\ IdsAreHeld'
<1>1. IdInv'
  BY DEF IdInv
<1>2. {d \in Dev : HoldsId(d)}' = {d \in Dev : HoldsId(d)}
  OBVIOUS
<1>3. IdsAreHeld'
  BY <1>2 DEF IdsAreHeld
<1> QED  BY <1>1, <1>3

LEMMA TreeFrame ==
  ASSUME TreeInv, \A d \in Dev : claimed'[d] \subseteq claimed[d]
  PROVE  TreeInv'
BY DEF TreeInv

LEMMA NameFrame ==
  ASSUME NameInv, bus' \subseteq bus, \A d \in bus' : id'[d] = id[d] /\ id_auto'[d] = id_auto[d]
  PROVE  NameInv'
BY DEF NameInv, NameOf

LEMMA ClaimFrame ==
  ASSUME TypeOK, ClaimInv, NEW d \in Dev, NEW to, pc' = [pc EXCEPT ![d] = to],
         \A e \in Dev \ {d} : claimed'[e] = claimed[e] /\ i'[e] = i[e],
         claimed'[d] = Claims(d, to, i'[d])
  PROVE  ClaimInv'
<1>1. pc'[d] = to /\ \A e \in Dev \ {d} : pc'[e] = pc[e]
  BY DEF TypeOK
<1> SUFFICES ASSUME NEW e \in Dev
             PROVE  claimed'[e] = Claims(e, pc'[e], i'[e])
  BY DEF ClaimInv, Claims
<1>2. CASE e = d
  BY <1>1, <1>2
<1>3. CASE e # d
  BY <1>1, <1>3 DEF ClaimInv, Claims
<1> QED  BY <1>2, <1>3

(* The moves that the steps of add and del make with a static device.      *)
Moves ==
  {<<"name", "insert">>, <<"name", "failed">>, <<"insert", "undo_id">>, <<"insert", "on">>,
   <<"insert", "insert">>, <<"undo_id", "undo_res">>, <<"undo_res", "undo_res">>,
   <<"undo_res", "failed">>, <<"del_id", "del_res">>, <<"del_res", "del_res">>,
   <<"del_res", "deleted">>, <<"deleted", "none">>}

LEMMA BatchFrame ==
  ASSUME TypeOK, BatchInv, CounterInv, NEW d \in Dev, NEW to, pc' = [pc EXCEPT ![d] = to],
         bpc' = bpc, b' = b,
         d \in Static => \/ <<pc[d], to>> \in Moves
                         \/ pc[d] = "on" /\ to = "del_id" /\ bpc = "done"
                         \/ pc[d] = "on" /\ to = "del_id" /\ bpc = "rollback" /\ d = Batch[b]
                         \/ /\ pc[d] = "none" /\ to = "name" /\ bpc = "add"
                            /\ b <= Len(Batch) /\ d = Batch[b]
  PROVE  BatchInv' /\ CounterInv'
<1>1. CounterInv'
  BY DEF CounterInv
<1> SUFFICES ASSUME NEW k \in 1 .. Len(Batch)
             PROVE  MayBeAt(k, pc'[Batch[k]], bpc, b)
  BY <1>1 DEF BatchInv, MayBeAt
<1>2. Batch[k] \in Dev
  BY BatchAssumption
<1>3. CASE Batch[k] # d
  BY <1>2, <1>3 DEF BatchInv, TypeOK, MayBeAt
<1>4. CASE Batch[k] = d
  <2>1. d \in Static
    BY <1>4 DEF Static
  <2>2. pc'[d] = to
    BY DEF TypeOK
  <2>3. CASE <<pc[d], to>> \in Moves
    <3>1. \/ pc[d] = "name" /\ to \in {"insert", "failed"}
          \/ pc[d] = "insert" /\ to \in {"undo_id", "on", "insert"}
          \/ pc[d] = "undo_id" /\ to = "undo_res"
          \/ pc[d] = "undo_res" /\ to \in {"undo_res", "failed"}
          \/ pc[d] = "del_id" /\ to = "del_res"
          \/ pc[d] = "del_res" /\ to \in {"del_res", "deleted"}
          \/ pc[d] = "deleted" /\ to = "none"
      BY <2>3 DEF Moves
    <3> QED  BY <3>1, <2>2, <1>4 DEF BatchInv, TypeOK, MayBeAt
  <2>4. CASE pc[d] = "on" /\ to = "del_id" /\ bpc = "done"
    BY <2>2, <2>4, <1>4 DEF MayBeAt
  <2>5. CASE pc[d] = "on" /\ to = "del_id" /\ bpc = "rollback" /\ d = Batch[b]
    <3>1. k = b
      BY <2>5, <1>4, BatchAssumption DEF BatchInv, TypeOK, CounterInv, MayBeAt
    <3> QED  BY <3>1, <2>2, <2>5, <1>4 DEF MayBeAt
  <2>6. CASE pc[d] = "none" /\ to = "name" /\ bpc = "add" /\ b <= Len(Batch) /\ d = Batch[b]
    <3>1. k = b
      BY <2>6, <1>4, BatchAssumption DEF TypeOK, CounterInv
    <3> QED  BY <3>1, <2>2, <2>6, <1>4 DEF MayBeAt
  <2> QED  BY <2>1, <2>3, <2>4, <2>5, <2>6
<1> QED  BY <1>3, <1>4

-----------------------------------------------------------------------------
(* platform_add_devices: its own steps leave the devices alone.            *)

LEMMA DevicesFrame ==
  ASSUME IInv, UNCHANGED <<platform_devid_ida, bus, claimed, pc, device>>,
         b' \in 0 .. Len(Batch) + 1, bpc' \in {"idle", "add", "rollback", "done", "failed"}
  PROVE  TypeOK' /\ PlaceInv' /\ IdInv' /\ IdsAreHeld' /\ ClaimInv' /\ TreeInv' /\ NameInv'
<1> USE DEF IInv, device
<1>1. TypeOK'
  BY DEF TypeOK
<1>2. PlaceInv'
  BY DEF PlaceInv
<1>3. \A d \in Dev : HoldsId(d)' <=> HoldsId(d)
  BY DEF HoldsId
<1>4. IdInv' /\ IdsAreHeld'
  BY <1>3, IdsFrame
<1>5. ClaimInv'
  BY DEF ClaimInv, Claims
<1>6. TreeInv' /\ NameInv'
  BY DEF TreeInv, NameInv, NameOf
<1> QED  BY <1>1, <1>2, <1>4, <1>5, <1>6

LEMMA BatchOwnSteps ==
  ASSUME IInv, AddDevices \/ Added \/ AllAdded \/ RollBack \/ RolledBackOne \/ RolledBack
  PROVE  IInv'
<1>1. /\ UNCHANGED <<platform_devid_ida, bus, claimed, pc, device>>
      /\ b' \in 0 .. Len(Batch) + 1 /\ bpc' \in {"idle", "add", "rollback", "done", "failed"}
      /\ CounterInv'
  BY DEF IInv, TypeOK, CounterInv, AddDevices, Added, AllAdded, RollBack, RolledBackOne, RolledBack
<1>2. TypeOK' /\ PlaceInv' /\ IdInv' /\ IdsAreHeld' /\ ClaimInv' /\ TreeInv' /\ NameInv'
  BY <1>1, DevicesFrame
<1>3. BatchInv'
  <2> SUFFICES ASSUME NEW k \in 1 .. Len(Batch)
               PROVE  MayBeAt(k, pc[Batch[k]], bpc', b')
    BY <1>1 DEF BatchInv, MayBeAt
  <2> USE DEF IInv, TypeOK, CounterInv, BatchInv, MayBeAt
  <2>1. CASE AddDevices
    BY <2>1 DEF AddDevices
  <2>2. CASE Added
    BY <2>2 DEF Added
  <2>3. CASE AllAdded
    BY <2>3 DEF AllAdded
  <2>4. CASE RollBack
    BY <2>4 DEF RollBack
  <2>5. CASE RolledBackOne
    BY <2>5 DEF RolledBackOne
  <2>6. CASE RolledBack
    BY <2>6 DEF RolledBack
  <2> QED  BY <2>1, <2>2, <2>3, <2>4, <2>5, <2>6
<1> QED  BY <1>1, <1>2, <1>3 DEF IInv

-----------------------------------------------------------------------------
(* Steps of a device that change neither IDs nor the bus.                  *)

LEMMA MoveFrame ==
  ASSUME IInv, NEW d \in Dev, NEW to \in PCs, pc' = [pc EXCEPT ![d] = to],
         UNCHANGED <<platform_devid_ida, bus, id, id_auto, batch>>,
         pc[d] # "on", to # "on",
         HoldsId(d)' <=> HoldsId(d),
         ref' = [ref EXCEPT ![d] = to # "none"],
         i' \in [Dev -> Nat], \A e \in Dev \ {d} : i'[e] = i[e] /\ claimed'[e] = claimed[e],
         i'[d] <= Len(Res[d]), claimed' \in [Dev -> SUBSET Nat],
         claimed'[d] = Claims(d, to, i'[d]),
         d \in Static => \/ <<pc[d], to>> \in Moves
                         \/ /\ pc[d] = "none" /\ to = "name" /\ bpc = "add"
                            /\ b <= Len(Batch) /\ d = Batch[b]
  PROVE  TypeOK' /\ PlaceInv' /\ IdInv' /\ IdsAreHeld' /\ ClaimInv' /\ NameInv' /\ BatchInv' /\ CounterInv'
<1> USE DEF IInv, batch
<1>0. pc'[d] = to /\ \A e \in Dev \ {d} : pc'[e] = pc[e]
  BY DEF TypeOK
<1>1. TypeOK'
  BY <1>0 DEF TypeOK, Trees, Count, Claims
<1>2. PlaceInv'
  <2>1. bus' = {e \in Dev : pc'[e] = "on"}
    BY <1>0 DEF PlaceInv
  <2>2. ASSUME NEW e \in Dev
        PROVE  ref'[e] <=> pc'[e] # "none"
    <3>1. CASE e = d
      BY <1>0, <3>1 DEF TypeOK
    <3>2. CASE e # d
      BY <1>0, <3>2 DEF TypeOK, PlaceInv
    <3> QED  BY <3>1, <3>2
  <2> QED  BY <2>1, <2>2 DEF PlaceInv
<1>3. \A e \in Dev : HoldsId(e)' <=> HoldsId(e)
  BY <1>0 DEF HoldsId
<1>4. IdInv' /\ IdsAreHeld'
  BY <1>3, IdsFrame
<1>5. ClaimInv'
  BY ClaimFrame
<1>6. NameInv'
  BY NameFrame
<1>7. BatchInv' /\ CounterInv'
  BY BatchFrame
<1> QED  BY <1>1, <1>2, <1>4, <1>5, <1>6, <1>7

LEMMA AttachStep ==
  ASSUME IInv, NEW d \in Dev, Attach(d)
  PROVE  IInv'
<1>1. PICK to \in {"name", "failed"} : Goto(d, to)
  BY DEF Attach
<1>2. d \notin Static
  <2> SUFFICES ASSUME NEW k \in 1 .. Len(Batch), d = Batch[k] PROVE FALSE
    BY DEF Static
  <2>1. /\ pc[Batch[k]] = "alloc" /\ b \in 0 .. Len(Batch) + 1
        /\ bpc \in {"idle", "add", "rollback", "done", "failed"}
    BY DEF Attach, IInv, TypeOK
  <2> QED  BY <2>1 DEF IInv, BatchInv, MayBeAt
<1>3. claimed[d] = {} /\ ref[d]
  BY DEF Attach, IInv, ClaimInv, PlaceInv, Claims
<1>4. HoldsId(d)' <=> HoldsId(d)
  BY <1>1 DEF Attach, HoldsId, Goto, IInv, TypeOK
<1>5. ref' = [ref EXCEPT ![d] = to # "none"]
  BY <1>3 DEF Attach, device, IInv, TypeOK
<1>6. /\ pc' = [pc EXCEPT ![d] = to] /\ pc[d] # "on"
      /\ UNCHANGED <<platform_devid_ida, bus, claimed, i, id, id_auto, batch>>
  BY <1>1 DEF Attach, device, Goto
<1>7. /\ i' \in [Dev -> Nat] /\ i'[d] <= Len(Res[d]) /\ claimed' \in [Dev -> SUBSET Nat]
  BY <1>6 DEF IInv, TypeOK
<1>8. claimed'[d] = Claims(d, to, i'[d])
  BY <1>3, <1>6 DEF Claims
<1>9. TypeOK' /\ PlaceInv' /\ IdInv' /\ IdsAreHeld' /\ ClaimInv' /\ NameInv' /\ BatchInv' /\ CounterInv'
  BY <1>2, <1>4, <1>5, <1>6, <1>7, <1>8, MoveFrame DEF PCs
<1>10. TreeInv'
  BY <1>6, TreeFrame DEF IInv
<1> QED  BY <1>9, <1>10 DEF IInv

(* The steps of add that only go elsewhere.                                *)
LEMMA GotoStep ==
  ASSUME IInv, NEW d \in Dev, NEW from \in PCs, NEW to \in PCs,
         pc[d] = from, Goto(d, to),
         <<from, to>> \in {<<"name", "insert">>, <<"name", "failed">>, <<"insert", "undo_id">>},
         from = "name" /\ to = "insert" => id[d] # AUTO,
         i' = [i EXCEPT ![d] = IF to = "insert" THEN 0 ELSE @],
         UNCHANGED <<platform_devid_ida, bus, claimed, id, id_auto, ref, batch>>
  PROVE  IInv'
<1>1. /\ from = "name" \/ from = "insert"
      /\ to \in {"insert", "failed", "undo_id"} /\ <<from, to>> \in Moves
  BY DEF Moves
<1>2. pc' = [pc EXCEPT ![d] = to] /\ pc'[d] = to
  BY DEF Goto, IInv, TypeOK
<1>3. HoldsId(d)' <=> HoldsId(d)
  BY <1>1, <1>2 DEF HoldsId, IInv, IdInv
<1>4. i'[d] = (IF to = "insert" THEN 0 ELSE i[d]) /\ \A e \in Dev \ {d} : i'[e] = i[e]
  BY DEF IInv, TypeOK
<1>5. /\ i' \in [Dev -> Nat] /\ i'[d] <= Len(Res[d]) /\ claimed' \in [Dev -> SUBSET Nat]
  BY <1>4, ResAssumption DEF IInv, TypeOK
<1>6. ref' = [ref EXCEPT ![d] = to # "none"]
  BY <1>1 DEF IInv, TypeOK, PlaceInv
<1>7. claimed'[d] = Claims(d, to, i'[d])
  <2>1. CASE from = "name"
    <3>1. claimed[d] = {} /\ \A k \in Trees(d) : ~ k <= 0
      BY <2>1 DEF IInv, ClaimInv, Trees, Count, Claims
    <3>2. to = "insert" \/ to = "failed"
      BY <2>1
    <3> QED  BY <3>1, <3>2, <1>4 DEF Claims
  <2>2. CASE from = "insert"
    BY <2>2, <1>4 DEF IInv, ClaimInv, Claims
  <2> QED  BY <1>1, <2>1, <2>2
<1>8. TypeOK' /\ PlaceInv' /\ IdInv' /\ IdsAreHeld' /\ ClaimInv' /\ NameInv' /\ BatchInv' /\ CounterInv'
  BY <1>1, <1>2, <1>3, <1>4, <1>5, <1>6, <1>7, MoveFrame
<1>9. TreeInv'
  BY TreeFrame DEF IInv
<1> QED  BY <1>8, <1>9 DEF IInv

LEMMA AddGoesOn ==
  ASSUME IInv, NEW d \in Dev,
         NameExplicit(d) \/ NoId(d) \/ ClaimFails(d) \/ DeviceAddFails(d)
  PROVE  IInv'
<1> USE DEF device, PCs
<1>1. i = [i EXCEPT ![d] = @]
  BY DEF IInv, TypeOK
<1>2. CASE NameExplicit(d)
  BY <1>2, GotoStep DEF NameExplicit
<1>3. CASE NoId(d)
  BY <1>1, <1>3, GotoStep DEF NoId
<1>4. CASE ClaimFails(d)
  BY <1>1, <1>4, GotoStep DEF ClaimFails
<1>5. CASE DeviceAddFails(d)
  BY <1>1, <1>5, GotoStep DEF DeviceAddFails
<1> QED  BY <1>2, <1>3, <1>4, <1>5

LEMMA ResourceType ==
  ASSUME NEW d \in Dev, NEW k \in Count(d)
  PROVE  Res[d][k] \in [type : {"mem", "io", "irq"}, lo : Int, hi : Int]
<1> DEFINE S == [type : {"mem", "io", "irq"}, lo : Int, hi : Int]
<1>1. Res[d] \in Seq(S)
  BY ResAssumption
<1> HIDE DEF S
<1>2. Res[d][k] \in S
  BY <1>1 DEF Count
<1> QED  BY <1>2 DEF S

LEMMA Counts ==
  ASSUME IInv, NEW d \in Dev
  PROVE  /\ i[d] \in Nat /\ i[d] <= Len(Res[d]) /\ Len(Res[d]) \in Nat
         /\ claimed[d] \subseteq Count(d) /\ Trees(d) \subseteq Count(d)
<1>1. Len(Res[d]) \in Nat
  BY ResAssumption
<1> QED  BY <1>1 DEF IInv, TypeOK, Trees

LEMMA ClaimStep ==
  ASSUME IInv, NEW d \in Dev, Claim(d)
  PROVE  IInv'
<1> DEFINE k == i[d] + 1
<1>1. /\ pc[d] = "insert" /\ i[d] \in Nat /\ k \in Count(d) /\ k <= Len(Res[d])
      /\ claimed[d] = {l \in Trees(d) : l <= i[d]}
  <2>1. pc[d] = "insert" /\ i[d] < Len(Res[d])
    BY DEF Claim
  <2>2. claimed[d] = {l \in Trees(d) : l <= i[d]}
    BY <2>1 DEF IInv, ClaimInv, Claims
  <2> QED  BY <2>1, <2>2, Counts DEF Count
<1>2. /\ InTree(Res[d][k]) => Fits(Res[d][k])
      /\ claimed' = [claimed EXCEPT ![d] = IF InTree(Res[d][k]) THEN @ \cup {k} ELSE @]
      /\ i' = [i EXCEPT ![d] = k]
      /\ UNCHANGED <<platform_devid_ida, bus, pc, id, id_auto, ref, batch>>
  BY DEF Claim
<1>3. /\ claimed'[d] = IF InTree(Res[d][k]) THEN claimed[d] \cup {k} ELSE claimed[d]
      /\ i'[d] = k
      /\ \A e \in Dev \ {d} : i'[e] = i[e] /\ claimed'[e] = claimed[e]
  BY <1>2 DEF IInv, TypeOK
<1>4. claimed'[d] = {l \in Trees(d) : l <= i'[d]}
  BY <1>1, <1>3 DEF Trees, Count
<1>5. /\ pc' = [pc EXCEPT ![d] = "insert"] /\ ref' = [ref EXCEPT ![d] = "insert" # "none"]
      /\ (HoldsId(d)' <=> HoldsId(d))
  BY <1>1, <1>2 DEF IInv, TypeOK, PlaceInv, HoldsId
<1>6. i' \in [Dev -> Nat] /\ i'[d] <= Len(Res[d]) /\ claimed' \in [Dev -> SUBSET Nat]
  BY <1>1, <1>2 DEF IInv, TypeOK, Count
<1>7. TypeOK' /\ PlaceInv' /\ IdInv' /\ IdsAreHeld' /\ ClaimInv' /\ NameInv' /\ BatchInv' /\ CounterInv'
  <2>1. "insert" \in PCs /\ "insert" # "on" /\ <<"insert", "insert">> \in Moves
    BY DEF PCs, Moves
  <2> HIDE DEF k
  <2> QED  BY <2>1, <1>1, <1>2, <1>3, <1>4, <1>5, <1>6, MoveFrame DEF Claims
<1>8. TreeInv'
  <2>1. CASE ~ InTree(Res[d][k])
    BY <2>1, <1>3, TreeFrame DEF IInv
  <2>2. CASE InTree(Res[d][k])
    <3>1. Res[d][k] \in [type : {"mem", "io", "irq"}, lo : Int, hi : Int]
      BY <1>1, ResourceType
    <3>2. Together(Res[d][k], Res[d][k])
      BY <3>1 DEF Together
    <3>3. ASSUME NEW e \in Dev, NEW l \in claimed[e]
          PROVE  Together(Res[d][k], Res[e][l]) /\ Together(Res[e][l], Res[d][k])
      <4>1. Res[e][l] \in [type : {"mem", "io", "irq"}, lo : Int, hi : Int]
        BY ResourceType DEF IInv, TypeOK
      <4> QED  BY <1>2, <2>2, <3>1, <4>1 DEF Fits, Together
    <3> HIDE DEF k
    <3> SUFFICES ASSUME NEW e \in Dev, NEW f \in Dev, NEW l \in claimed'[e], NEW m \in claimed'[f]
                 PROVE  Together(Res[e][l], Res[f][m])
      BY DEF TreeInv
    <3>4. /\ l \in claimed[e] \/ (e = d /\ l = k)
          /\ m \in claimed[f] \/ (f = d /\ m = k)
      BY <1>3
    <3> QED  BY <3>2, <3>3, <3>4 DEF IInv, TreeInv
  <2> QED  BY <2>1, <2>2
<1> QED  BY <1>7, <1>8 DEF IInv

LEMMA UndoResStep ==
  ASSUME IInv, NEW d \in Dev, UndoRes(d)
  PROVE  IInv'
<1>1. /\ pc[d] = "undo_res" /\ i[d] \in Nat /\ i[d] <= Len(Res[d]) /\ Len(Res[d]) \in Nat
      /\ claimed[d] = {l \in Trees(d) : l <= i[d]}
      /\ UNCHANGED <<platform_devid_ida, bus, id, id_auto, ref, batch>>
  <2>1. pc[d] = "undo_res" /\ UNCHANGED <<platform_devid_ida, bus, id, id_auto, ref, batch>>
    BY DEF UndoRes
  <2> QED  BY <2>1, Counts DEF IInv, ClaimInv, Claims
<1>2. PICK to \in {"failed", "undo_res"} :
        /\ pc' = [pc EXCEPT ![d] = to]
        /\ to = "failed" => i[d] = 0 /\ claimed' = claimed /\ i' = i
        /\ to = "undo_res" => /\ i[d] # 0
                              /\ claimed' = [claimed EXCEPT ![d] = @ \ {i[d]}]
                              /\ i' = [i EXCEPT ![d] = @ - 1]
  <2>1. CASE i[d] = 0
    BY <2>1 DEF UndoRes, Goto
  <2>2. CASE i[d] # 0
    <3>1. pc' = [pc EXCEPT ![d] = "undo_res"]
      BY <1>1, <2>2 DEF UndoRes, IInv, TypeOK
    <3> QED  BY <2>2, <3>1 DEF UndoRes
  <2> QED  BY <2>1, <2>2
<1>3. /\ i' \in [Dev -> Nat] /\ i'[d] <= Len(Res[d]) /\ claimed' \in [Dev -> SUBSET Nat]
      /\ \A e \in Dev \ {d} : i'[e] = i[e] /\ claimed'[e] = claimed[e]
      /\ claimed'[d] \subseteq claimed[d]
  <2>1. CASE to = "failed"
    BY <1>1, <1>2, <2>1 DEF IInv, TypeOK
  <2>2. CASE to = "undo_res"
    <3>1. i[d] # 0 /\ i' = [i EXCEPT ![d] = @ - 1] /\ i \in [Dev -> Nat] /\ \A e \in Dev : i[e] \in Int
      BY <1>2, <2>2 DEF IInv, TypeOK
    <3>2. claimed' = [claimed EXCEPT ![d] = @ \ {i[d]}] /\ claimed \in [Dev -> SUBSET Nat]
      BY <1>2, <2>2 DEF IInv, TypeOK
    <3>3. i' \in [Dev -> Nat] /\ i'[d] <= Len(Res[d]) /\ \A e \in Dev \ {d} : i'[e] = i[e]
      BY <3>1, <1>1
    <3>4. claimed' \in [Dev -> SUBSET Nat] /\ claimed'[d] \subseteq claimed[d]
      BY <3>2
    <3>5. \A e \in Dev \ {d} : claimed'[e] = claimed[e]
      BY <3>2
    <3> QED  BY <3>3, <3>4, <3>5
  <2> QED  BY <2>1, <2>2
<1>4. claimed'[d] = {l \in Trees(d) : to = "undo_res" /\ l <= i'[d]}
  <2>1. CASE to = "failed"
    BY <1>1, <1>2, <2>1 DEF Trees, Count
  <2>2. CASE to = "undo_res"
    <3>1. claimed'[d] = claimed[d] \ {i[d]} /\ i'[d] = i[d] - 1
      BY <1>2, <2>2 DEF IInv, TypeOK
    <3>2. \A l \in Trees(d) : l \in Nat
      BY DEF Trees, Count
    <3>3. \A l \in Trees(d) : l <= i[d] /\ l # i[d] <=> l <= i[d] - 1
      BY <3>2, <1>1
    <3> QED  BY <3>1, <3>3, <1>1, <2>2
  <2> QED  BY <2>1, <2>2
<1>5. /\ HoldsId(d)' <=> HoldsId(d)
      /\ ref' = [ref EXCEPT ![d] = to # "none"]
  BY <1>1, <1>2 DEF IInv, TypeOK, PlaceInv, HoldsId
<1>6. TypeOK' /\ PlaceInv' /\ IdInv' /\ IdsAreHeld' /\ ClaimInv' /\ NameInv' /\ BatchInv' /\ CounterInv'
  <2>1. <<"undo_res", to>> \in Moves /\ to \in PCs
    BY DEF Moves, PCs
  <2> QED  BY <2>1, <1>1, <1>2, <1>3, <1>4, <1>5, MoveFrame DEF Claims
<1>7. TreeInv'
  BY <1>3, TreeFrame DEF IInv
<1> QED  BY <1>6, <1>7 DEF IInv

LEMMA DelResStep ==
  ASSUME IInv, NEW d \in Dev, DelRes(d)
  PROVE  IInv'
<1>1. /\ pc[d] = "del_res" /\ i[d] \in Nat /\ i[d] <= Len(Res[d]) /\ Len(Res[d]) \in Nat
      /\ claimed[d] = {l \in Trees(d) : l > i[d]}
      /\ UNCHANGED <<platform_devid_ida, bus, id, id_auto, ref, batch>>
  <2>1. pc[d] = "del_res" /\ UNCHANGED <<platform_devid_ida, bus, id, id_auto, ref, batch>>
    BY DEF DelRes
  <2> QED  BY <2>1, Counts DEF IInv, ClaimInv, Claims
<1>2. PICK to \in {"deleted", "del_res"} :
        /\ pc' = [pc EXCEPT ![d] = to]
        /\ to = "deleted" => i[d] = Len(Res[d]) /\ claimed' = claimed /\ i' = i
        /\ to = "del_res" => /\ i[d] # Len(Res[d])
                             /\ claimed' = [claimed EXCEPT ![d] = @ \ {i[d] + 1}]
                             /\ i' = [i EXCEPT ![d] = @ + 1]
  <2>1. CASE i[d] = Len(Res[d])
    BY <2>1 DEF DelRes, Goto
  <2>2. CASE i[d] # Len(Res[d])
    <3>1. pc' = [pc EXCEPT ![d] = "del_res"]
      BY <1>1, <2>2 DEF DelRes, IInv, TypeOK
    <3> QED  BY <2>2, <3>1 DEF DelRes
  <2> QED  BY <2>1, <2>2
<1>3. /\ i' \in [Dev -> Nat] /\ i'[d] <= Len(Res[d]) /\ claimed' \in [Dev -> SUBSET Nat]
      /\ \A e \in Dev \ {d} : i'[e] = i[e] /\ claimed'[e] = claimed[e]
      /\ claimed'[d] \subseteq claimed[d]
  <2>1. CASE to = "deleted"
    BY <1>1, <1>2, <2>1 DEF IInv, TypeOK
  <2>2. CASE to = "del_res"
    <3>1. i[d] # Len(Res[d]) /\ i' = [i EXCEPT ![d] = @ + 1] /\ i \in [Dev -> Nat] /\ \A e \in Dev : i[e] \in Int
      BY <1>2, <2>2 DEF IInv, TypeOK
    <3>2. claimed' = [claimed EXCEPT ![d] = @ \ {i[d] + 1}] /\ claimed \in [Dev -> SUBSET Nat]
      BY <1>2, <2>2 DEF IInv, TypeOK
    <3>3. i' \in [Dev -> Nat] /\ i'[d] <= Len(Res[d]) /\ \A e \in Dev \ {d} : i'[e] = i[e]
      BY <3>1, <1>1
    <3>4. claimed' \in [Dev -> SUBSET Nat] /\ claimed'[d] \subseteq claimed[d]
      BY <3>2
    <3>5. \A e \in Dev \ {d} : claimed'[e] = claimed[e]
      BY <3>2
    <3> QED  BY <3>3, <3>4, <3>5
  <2> QED  BY <2>1, <2>2
<1>4. claimed'[d] = {l \in Trees(d) : to = "del_res" /\ l > i'[d]}
  <2>1. CASE to = "deleted"
    BY <1>1, <1>2, <2>1 DEF Trees, Count
  <2>2. CASE to = "del_res"
    <3>1. claimed'[d] = claimed[d] \ {i[d] + 1} /\ i'[d] = i[d] + 1
      BY <1>2, <2>2 DEF IInv, TypeOK
    <3>2. \A l \in Trees(d) : l \in Nat
      BY DEF Trees, Count
    <3>3. \A l \in Trees(d) : l > i[d] /\ l # i[d] + 1 <=> l > i[d] + 1
      BY <3>2, <1>1
    <3> QED  BY <3>1, <3>3, <1>1, <2>2
  <2> QED  BY <2>1, <2>2
<1>5. /\ HoldsId(d)' <=> HoldsId(d)
      /\ ref' = [ref EXCEPT ![d] = to # "none"]
  BY <1>1, <1>2 DEF IInv, TypeOK, PlaceInv, HoldsId
<1>6. TypeOK' /\ PlaceInv' /\ IdInv' /\ IdsAreHeld' /\ ClaimInv' /\ NameInv' /\ BatchInv' /\ CounterInv'
  <2>1. <<"del_res", to>> \in Moves /\ to \in PCs
    BY DEF Moves, PCs
  <2> QED  BY <2>1, <1>1, <1>2, <1>3, <1>4, <1>5, MoveFrame DEF Claims
<1>7. TreeInv'
  BY <1>3, TreeFrame DEF IInv
<1> QED  BY <1>6, <1>7 DEF IInv

LEMMA PutStep ==
  ASSUME IInv, NEW d \in Dev, Put(d)
  PROVE  IInv'
<1>1. /\ pc[d] \in {"failed", "deleted"} /\ pc' = [pc EXCEPT ![d] = "none"]
      /\ ref' = [ref EXCEPT ![d] = FALSE]
      /\ UNCHANGED <<platform_devid_ida, bus, claimed, i, id, id_auto, batch>>
  BY DEF Put, Goto
<1>2. claimed[d] = {}
  BY <1>1 DEF IInv, ClaimInv, Claims
<1>3. HoldsId(d)' <=> HoldsId(d)
  BY <1>1 DEF HoldsId, IInv, TypeOK
<1>4. /\ i' \in [Dev -> Nat] /\ i'[d] <= Len(Res[d]) /\ claimed' \in [Dev -> SUBSET Nat]
  BY <1>1 DEF IInv, TypeOK
<1>5. d \in Static => <<pc[d], "none">> \in Moves
  BY <1>1 DEF Put, Moves
<1>6. ref' = [ref EXCEPT ![d] = "none" # "none"]
  BY <1>1
<1>7. TypeOK' /\ PlaceInv' /\ IdInv' /\ IdsAreHeld' /\ ClaimInv' /\ NameInv' /\ BatchInv' /\ CounterInv'
  BY <1>1, <1>2, <1>3, <1>4, <1>5, <1>6, MoveFrame DEF PCs, Claims
<1>8. TreeInv'
  BY <1>1, TreeFrame DEF IInv
<1> QED  BY <1>7, <1>8 DEF IInv

LEMMA AddNextStep ==
  ASSUME IInv, AddNext
  PROVE  IInv'
<1>2. Batch[b] \in Dev
  BY BatchAssumption DEF AddNext, IInv, CounterInv, TypeOK
<1> PICK d \in Dev : d = Batch[b]
  BY <1>2
<1>1. /\ bpc = "add" /\ b <= Len(Batch)
      /\ pc[d] = "none" /\ pc' = [pc EXCEPT ![d] = "name"]
      /\ ref' = [ref EXCEPT ![d] = TRUE]
      /\ UNCHANGED <<platform_devid_ida, bus, claimed, i, id, id_auto, batch>>
  BY DEF AddNext, Register, Goto
<1>3. claimed[d] = {}
  BY <1>1 DEF IInv, ClaimInv, Claims
<1>4. HoldsId(d)' <=> HoldsId(d)
  BY <1>1 DEF HoldsId, IInv, TypeOK
<1>5. i' \in [Dev -> Nat] /\ i'[d] <= Len(Res[d]) /\ claimed' \in [Dev -> SUBSET Nat]
  BY <1>1 DEF IInv, TypeOK
<1>6. ref' = [ref EXCEPT ![d] = "name" # "none"]
  BY <1>1
<1>7. TypeOK' /\ PlaceInv' /\ IdInv' /\ IdsAreHeld' /\ ClaimInv' /\ NameInv' /\ BatchInv' /\ CounterInv'
  BY <1>1, <1>3, <1>4, <1>5, <1>6, MoveFrame DEF PCs, Claims
<1>8. TreeInv'
  BY <1>1, TreeFrame DEF IInv
<1> QED  BY <1>7, <1>8 DEF IInv

-----------------------------------------------------------------------------
(* Steps that change the ID of a device, which is not on the bus.          *)

LEMMA IdFrame ==
  ASSUME IInv, NEW d \in Dev, NEW to \in PCs, pc' = [pc EXCEPT ![d] = to],
         UNCHANGED <<bus, claimed, batch>>, pc[d] # "on", to \notin {"on", "none"},
         ref' = [ref EXCEPT ![d] = TRUE],
         \A e \in Dev \ {d} : i'[e] = i[e] /\ id'[e] = id[e] /\ id_auto'[e] = id_auto[e],
         claimed[d] = Claims(d, to, i'[d]),
         d \in Static => <<pc[d], to>> \in Moves
  PROVE  PlaceInv' /\ ClaimInv' /\ TreeInv' /\ NameInv' /\ BatchInv' /\ CounterInv'
<1> USE DEF IInv, batch
<1>1. pc'[d] = to /\ \A e \in Dev \ {d} : pc'[e] = pc[e]
  BY DEF TypeOK
<1>2. PlaceInv'
  <2>1. bus' = {e \in Dev : pc'[e] = "on"}
    BY <1>1 DEF PlaceInv
  <2>2. ASSUME NEW e \in Dev
        PROVE  ref'[e] <=> pc'[e] # "none"
    <3>1. CASE e = d
      BY <1>1, <3>1 DEF TypeOK
    <3>2. CASE e # d
      BY <1>1, <3>2 DEF TypeOK, PlaceInv
    <3> QED  BY <3>1, <3>2
  <2> QED  BY <2>1, <2>2 DEF PlaceInv
<1>3. ClaimInv'
  BY ClaimFrame
<1>4. TreeInv'
  BY TreeFrame
<1>5. NameInv'
  BY NameFrame DEF PlaceInv
<1>6. BatchInv' /\ CounterInv'
  BY BatchFrame
<1> QED  BY <1>2, <1>3, <1>4, <1>5, <1>6

LEMMA AllocStep ==
  ASSUME IInv, NEW d \in Dev, Alloc(d)
  PROVE  IInv'
<1>1. /\ pc[d] = "none" /\ d \notin Static /\ pc' = [pc EXCEPT ![d] = "alloc"]
      /\ ref' = [ref EXCEPT ![d] = TRUE] /\ id' = [id EXCEPT ![d] = IdOf[d]]
      /\ id_auto' = [id_auto EXCEPT ![d] = FALSE]
      /\ UNCHANGED <<platform_devid_ida, bus, claimed, i, batch>>
  BY DEF Alloc, Goto
<1>2. id' = id
  <2>1. id[d] = IdOf[d]
    BY <1>1 DEF IInv, IdInv, HoldsId
  <2> QED  BY <1>1, <2>1 DEF IInv, TypeOK
<1>3. TypeOK'
  BY <1>1, <1>2 DEF IInv, TypeOK, PCs, batch
<1>4. \A e \in Dev : HoldsId(e)' <=> HoldsId(e)
  BY <1>1 DEF HoldsId, IInv, TypeOK
<1>5. IdInv'
  BY <1>1, <1>2, <1>4 DEF IInv, IdInv, HoldsId, TypeOK
<1>6. IdsAreHeld'
  <2>1. {e \in Dev : HoldsId(e)}' = {e \in Dev : HoldsId(e)}
    BY <1>4
  <2> QED  BY <1>1, <1>2, <1>4, <2>1 DEF IInv, IdsAreHeld
<1>7. claimed[d] = {}
  BY <1>1 DEF IInv, ClaimInv, Claims
<1>8. \A e \in Dev \ {d} : i'[e] = i[e] /\ id'[e] = id[e] /\ id_auto'[e] = id_auto[e]
  BY <1>1, <1>2 DEF IInv, TypeOK
<1>9. PlaceInv' /\ ClaimInv' /\ TreeInv' /\ NameInv' /\ BatchInv' /\ CounterInv'
  BY <1>1, <1>7, <1>8, IdFrame DEF PCs, Claims
<1> QED  BY <1>3, <1>5, <1>6, <1>9 DEF IInv

LEMMA NameAutoStep ==
  ASSUME IInv, NEW d \in Dev, NameAuto(d)
  PROVE  IInv'
<1>1. PICK n \in Id \ platform_devid_ida :
        /\ platform_devid_ida' = platform_devid_ida \cup {n}
        /\ id' = [id EXCEPT ![d] = n]
  BY DEF NameAuto
<1>2. /\ pc[d] = "name" /\ id[d] = AUTO /\ pc' = [pc EXCEPT ![d] = "insert"]
      /\ id_auto' = [id_auto EXCEPT ![d] = TRUE] /\ i' = [i EXCEPT ![d] = 0]
      /\ UNCHANGED <<bus, claimed, ref, batch>>
  BY DEF NameAuto, Goto
<1>3. TypeOK'
  BY <1>1, <1>2, Counts DEF IInv, TypeOK, PCs, batch
<1>4. IdOf[d] = AUTO /\ ~ HoldsId(d) /\ HoldsId(d)'
  BY <1>2 DEF IInv, IdInv, HoldsId, TypeOK
<1>5. \A e \in Dev \ {d} : /\ HoldsId(e)' <=> HoldsId(e)
                           /\ id'[e] = id[e] /\ id_auto'[e] = id_auto[e] /\ i'[e] = i[e]
  BY <1>1, <1>2 DEF IInv, HoldsId, TypeOK
<1>6. id'[d] = n /\ id_auto'[d] /\ i'[d] = 0
  BY <1>1, <1>2 DEF IInv, TypeOK
<1>7. IdInv'
  <2> SUFFICES ASSUME NEW e \in Dev
               PROVE  /\ HoldsId(e)' => id'[e] \in Id /\ id_auto'[e]
                      /\ IdOf[e] = AUTO /\ ~ HoldsId(e)' => id'[e] = AUTO
                      /\ IdOf[e] # AUTO => id'[e] = IdOf[e] /\ ~ id_auto'[e]
    BY DEF IdInv
  <2>1. CASE e = d
    BY <2>1, <1>4, <1>6
  <2>2. CASE e # d
    BY <2>2, <1>5 DEF IInv, IdInv
  <2> QED  BY <2>1, <2>2
<1>8. IdsAreHeld'
  <2>1. platform_devid_ida = {id[e] : e \in {f \in Dev : HoldsId(f)}}
    BY DEF IInv, IdsAreHeld
  <2>2. platform_devid_ida' = {id'[e] : e \in {f \in Dev : HoldsId(f)'}}
    BY <2>1, <1>1, <1>4, <1>5, <1>6
  <2>3. ASSUME NEW e \in Dev, NEW f \in Dev, HoldsId(e)', HoldsId(f)', id'[e] = id'[f]
        PROVE  e = f
    <3>1. CASE e # d /\ f # d
      BY <2>3, <3>1, <1>5 DEF IInv, IdsAreHeld
    <3>2. CASE e = d /\ f # d
      BY <2>3, <3>2, <2>1, <1>5, <1>6
    <3>3. CASE e # d /\ f = d
      BY <2>3, <3>3, <2>1, <1>5, <1>6
    <3> QED  BY <3>1, <3>2, <3>3
  <2> QED  BY <2>2, <2>3 DEF IdsAreHeld
<1>9. claimed[d] = {} /\ \A k \in Trees(d) : ~ k <= 0
  BY <1>2 DEF IInv, ClaimInv, Trees, Count, Claims
<1>10. ref' = [ref EXCEPT ![d] = TRUE]
  BY <1>2 DEF IInv, PlaceInv, TypeOK
<1>11. claimed[d] = Claims(d, "insert", i'[d])
  BY <1>6, <1>9 DEF Claims
<1>12. <<pc[d], "insert">> \in Moves /\ "insert" \in PCs
  BY <1>2 DEF Moves, PCs
<1>13. PlaceInv' /\ ClaimInv' /\ TreeInv' /\ NameInv' /\ BatchInv' /\ CounterInv'
  BY <1>2, <1>5, <1>10, <1>11, <1>12, IdFrame
<1> QED  BY <1>3, <1>7, <1>8, <1>13 DEF IInv

(* Both roll backs give the ID back before the resources.                  *)
LEMMA FreeIdStep ==
  ASSUME IInv, NEW d \in Dev, UndoId(d) \/ DelId(d)
  PROVE  IInv'
<1>1. PICK to \in {"undo_res", "del_res"} :
        /\ pc[d] = (IF to = "undo_res" THEN "undo_id" ELSE "del_id")
        /\ pc' = [pc EXCEPT ![d] = to]
        /\ UNCHANGED <<bus, claimed, i, id_auto, ref, batch>>
  BY DEF UndoId, DelId, Goto
<1>2. FreeId(d)
  BY DEF UndoId, DelId
<1>3. /\ id_auto[d] <=> IdOf[d] = AUTO
      /\ HoldsId(d) <=> IdOf[d] = AUTO
      /\ ~ HoldsId(d)'
  BY <1>1 DEF IInv, IdInv, HoldsId, TypeOK
<1>4. TypeOK'
  BY <1>1, <1>2 DEF FreeId, IInv, TypeOK, PCs, batch
<1>5. \A e \in Dev \ {d} : (HoldsId(e)' <=> HoldsId(e)) /\ id'[e] = id[e]
  BY <1>1, <1>2 DEF FreeId, IInv, HoldsId, TypeOK
<1>6. /\ IdOf[d] = AUTO => id'[d] = AUTO /\ platform_devid_ida' = platform_devid_ida \ {id[d]}
      /\ IdOf[d] # AUTO => id'[d] = id[d] /\ platform_devid_ida' = platform_devid_ida
  BY <1>2, <1>3 DEF FreeId, IInv, TypeOK
<1>7. IdInv'
  <2> SUFFICES ASSUME NEW e \in Dev
               PROVE  /\ HoldsId(e)' => id'[e] \in Id /\ id_auto[e]
                      /\ IdOf[e] = AUTO /\ ~ HoldsId(e)' => id'[e] = AUTO
                      /\ IdOf[e] # AUTO => id'[e] = IdOf[e] /\ ~ id_auto[e]
    BY <1>1 DEF IdInv
  <2>1. CASE e = d
    BY <2>1, <1>3, <1>6 DEF IInv, IdInv
  <2>2. CASE e # d
    BY <2>2, <1>5 DEF IInv, IdInv
  <2> QED  BY <2>1, <2>2
<1>8. IdsAreHeld'
  <2>1. /\ platform_devid_ida = {id[e] : e \in {f \in Dev : HoldsId(f)}}
        /\ \A e, f \in Dev : HoldsId(e) /\ HoldsId(f) /\ id[e] = id[f] => e = f
    BY DEF IInv, IdsAreHeld
  <2>2. platform_devid_ida' = {id'[e] : e \in {f \in Dev : HoldsId(f)'}}
    <3>1. CASE IdOf[d] = AUTO
      BY <3>1, <2>1, <1>3, <1>5, <1>6
    <3>2. CASE IdOf[d] # AUTO
      BY <3>2, <2>1, <1>3, <1>5, <1>6
    <3> QED  BY <3>1, <3>2
  <2>3. \A e, f \in Dev : HoldsId(e)' /\ HoldsId(f)' /\ id'[e] = id'[f] => e = f
    BY <2>1, <1>3, <1>5
  <2> QED  BY <2>2, <2>3 DEF IdsAreHeld
<1>9. ref' = [ref EXCEPT ![d] = TRUE]
  BY <1>1 DEF IInv, PlaceInv, TypeOK
<1>10. claimed[d] = Claims(d, to, i'[d])
  <2>1. CASE to = "undo_res"
    BY <1>1, <2>1 DEF IInv, ClaimInv, Claims
  <2>2. CASE to = "del_res"
    BY <1>1, <2>2 DEF IInv, ClaimInv, Claims
  <2> QED  BY <2>1, <2>2
<1>11. PlaceInv' /\ ClaimInv' /\ TreeInv' /\ NameInv' /\ BatchInv' /\ CounterInv'
  BY <1>1, <1>5, <1>9, <1>10, IdFrame DEF PCs, Moves
<1> QED  BY <1>4, <1>7, <1>8, <1>11 DEF IInv

-----------------------------------------------------------------------------
(* Steps that put a device on the bus or take it off.                      *)

LEMMA BusFrame ==
  ASSUME IInv, NEW d \in Dev, NEW to \in PCs, pc' = [pc EXCEPT ![d] = to],
         UNCHANGED <<platform_devid_ida, claimed, id, id_auto, ref, batch>>,
         i' \in [Dev -> Nat], i'[d] <= Len(Res[d]), \A e \in Dev \ {d} : i'[e] = i[e],
         pc[d] # "none", to # "none",
         HoldsId(d)' <=> HoldsId(d),
         bus' = (IF to = "on" THEN bus \cup {d} ELSE bus \ {d}),
         claimed[d] = Claims(d, to, i'[d])
  PROVE  TypeOK' /\ PlaceInv' /\ IdInv' /\ IdsAreHeld' /\ ClaimInv' /\ TreeInv'
<1> USE DEF IInv, batch
<1>1. pc'[d] = to /\ \A e \in Dev \ {d} : pc'[e] = pc[e]
  BY DEF TypeOK
<1>2. TypeOK'
  BY <1>1 DEF TypeOK
<1>3. PlaceInv'
  BY <1>1 DEF PlaceInv
<1>4. \A e \in Dev : HoldsId(e)' <=> HoldsId(e)
  BY <1>1 DEF HoldsId
<1>5. IdInv' /\ IdsAreHeld'
  BY <1>4, IdsFrame
<1>6. ClaimInv'
  BY ClaimFrame
<1>7. TreeInv'
  BY TreeFrame
<1> QED  BY <1>2, <1>3, <1>5, <1>6, <1>7

LEMMA DeviceAddStep ==
  ASSUME IInv, NEW d \in Dev, DeviceAdd(d)
  PROVE  IInv'
<1>1. /\ pc[d] = "insert" /\ i[d] = Len(Res[d]) /\ pc' = [pc EXCEPT ![d] = "on"]
      /\ \A e \in bus : NameOf(e) # NameOf(d)
      /\ bus' = bus \cup {d}
      /\ UNCHANGED <<platform_devid_ida, claimed, i, id, id_auto, ref, batch>>
  BY DEF DeviceAdd, Goto, device
<1>2. claimed[d] = Claims(d, "on", i'[d])
  <2>1. \A k \in Trees(d) : k <= i[d]
    BY <1>1, Counts DEF Trees, Count
  <2>2. claimed[d] = Trees(d)
    BY <1>1, <2>1 DEF IInv, ClaimInv, Claims
  <2> QED  BY <2>2 DEF Claims
<1>3. /\ i' \in [Dev -> Nat] /\ i'[d] <= Len(Res[d]) /\ \A e \in Dev \ {d} : i'[e] = i[e]
      /\ HoldsId(d)' <=> HoldsId(d)
  BY <1>1 DEF IInv, TypeOK, HoldsId
<1>4. TypeOK' /\ PlaceInv' /\ IdInv' /\ IdsAreHeld' /\ ClaimInv' /\ TreeInv'
  BY <1>1, <1>2, <1>3, BusFrame DEF PCs
<1>5. NameInv'
  BY <1>1 DEF IInv, NameInv, NameOf
<1>6. BatchInv' /\ CounterInv'
  BY <1>1, BatchFrame DEF IInv, Moves, batch
<1> QED  BY <1>4, <1>5, <1>6 DEF IInv

LEMMA DeviceDelStep ==
  ASSUME IInv, NEW d \in Dev, pc[d] = "on", DeviceDel(d), UNCHANGED batch,
         d \in Static => bpc = "done" \/ (bpc = "rollback" /\ d = Batch[b])
  PROVE  IInv'
<1>1. /\ pc' = [pc EXCEPT ![d] = "del_id"] /\ bus' = bus \ {d} /\ i' = [i EXCEPT ![d] = 0]
      /\ UNCHANGED <<platform_devid_ida, claimed, id, id_auto, ref>>
  BY DEF DeviceDel, Goto
<1>2. /\ i' \in [Dev -> Nat] /\ i'[d] = 0 /\ i'[d] <= Len(Res[d])
      /\ \A e \in Dev \ {d} : i'[e] = i[e]
      /\ HoldsId(d)' <=> HoldsId(d)
  BY <1>1, Counts DEF IInv, TypeOK, HoldsId
<1>3. claimed[d] = Claims(d, "del_id", i'[d])
  <2>1. claimed[d] = Trees(d)
    BY DEF IInv, ClaimInv, Claims
  <2>2. \A k \in Trees(d) : k > 0
    BY DEF Trees, Count
  <2> QED  BY <1>2, <2>1, <2>2 DEF Claims
<1>4. TypeOK' /\ PlaceInv' /\ IdInv' /\ IdsAreHeld' /\ ClaimInv' /\ TreeInv'
  BY <1>1, <1>2, <1>3, BusFrame DEF PCs
<1>5. NameInv'
  BY <1>1, NameFrame DEF IInv
<1>6. BatchInv' /\ CounterInv'
  BY <1>1, BatchFrame DEF IInv, batch
<1> QED  BY <1>4, <1>5, <1>6 DEF IInv

-----------------------------------------------------------------------------

LEMMA Initially == Init => IInv
<1> SUFFICES ASSUME Init PROVE IInv
  OBVIOUS
<1> USE DEF Init
<1>1. TypeOK
  BY IdAssumption, ResAssumption, BatchAssumption DEF TypeOK, PCs, Count
<1>2. PlaceInv /\ IdInv /\ TreeInv /\ NameInv /\ CounterInv
  BY IdAssumption DEF PlaceInv, IdInv, HoldsId, TreeInv, NameInv, CounterInv
<1>3. IdsAreHeld
  BY DEF IdsAreHeld, HoldsId
<1>4. ClaimInv
  BY DEF ClaimInv, Claims
<1>5. BatchInv
  BY BatchAssumption DEF BatchInv, MayBeAt
<1> QED  BY <1>1, <1>2, <1>3, <1>4, <1>5 DEF IInv

LEMMA StepKeepsInvariant == IInv /\ [Next]_vars => IInv'
<1> SUFFICES ASSUME IInv, [Next]_vars PROVE IInv'
  OBVIOUS
<1>1. CASE AddDevices
  BY <1>1, BatchOwnSteps
<1>2. CASE BatchStep
  <2>1. CASE AddNext
    BY <2>1, AddNextStep
  <2>2. CASE Added \/ AllAdded \/ RollBack \/ RolledBackOne \/ RolledBack
    BY <2>2, BatchOwnSteps
  <2>3. CASE RollBackOne
    <3>1. /\ bpc = "rollback" /\ b \in 1 .. Len(Batch) /\ pc[Batch[b]] = "on"
          /\ DeviceDel(Batch[b]) /\ UNCHANGED batch
      BY <2>3 DEF RollBackOne, IInv, TypeOK, CounterInv
    <3>2. PICK d \in Dev : d = Batch[b]
      BY <3>1, BatchAssumption
    <3>3. DeviceDel(d)
      BY <3>1, <3>2 DEF DeviceDel, Goto
    <3> QED  BY <3>1, <3>2, <3>3, DeviceDelStep
  <2> QED  BY <1>2, <2>1, <2>2, <2>3 DEF BatchStep
<1>3. ASSUME NEW d \in Dev, Alloc(d) \/ Attach(d) \/ Unregister(d) \/ AddStep(d) \/ DelStep(d)
      PROVE  IInv'
  <2>1. CASE Alloc(d)
    BY <2>1, AllocStep
  <2>2. CASE Attach(d)
    BY <2>2, AttachStep
  <2>3. CASE Unregister(d)
    BY <2>3, DeviceDelStep DEF Unregister
  <2>4. CASE AddStep(d)
    BY <2>4, AddGoesOn, NameAutoStep, ClaimStep, DeviceAddStep, FreeIdStep, UndoResStep DEF AddStep
  <2>5. CASE DelStep(d)
    BY <2>5, FreeIdStep, DelResStep, PutStep DEF DelStep
  <2> QED  BY <1>3, <2>1, <2>2, <2>3, <2>4, <2>5
<1>4. CASE UNCHANGED vars
  <2>1. UNCHANGED <<platform_devid_ida, bus, claimed, pc, device>> /\ bpc' = bpc /\ b' = b
    BY <1>4 DEF vars, batch
  <2>2. TypeOK' /\ PlaceInv' /\ IdInv' /\ IdsAreHeld' /\ ClaimInv' /\ TreeInv' /\ NameInv'
    BY <2>1, DevicesFrame DEF IInv, TypeOK
  <2>3. BatchInv' /\ CounterInv'
    BY <2>1 DEF IInv, BatchInv, CounterInv
  <2> QED  BY <2>2, <2>3 DEF IInv
<1> QED  BY <1>1, <1>2, <1>3, <1>4 DEF Next

LEMMA Invariance == Spec => []IInv
BY Initially, StepKeepsInvariant, PTL DEF Spec

-----------------------------------------------------------------------------

(* Loop counters stay within the resources of their device, also where the *)
(* roll back counts down an unsigned index.                                *)
THEOREM TypeCorrect == Spec => []TypeOK
<1>1. IInv => TypeOK
  BY DEF IInv
<1> QED  BY <1>1, Invariance, PTL

(* The IDs that are allocated are those of the devices that are being      *)
(* added or on the bus, each has one of its own, and every failure of      *)
(* platform_device_add and every platform_device_del gives one back.       *)
THEOREM NoIdIsLost == Spec => []IdsAreHeld
<1>1. IInv => IdsAreHeld
  BY DEF IInv
<1> QED  BY <1>1, Invariance, PTL

(* The ".auto" suffix of platform_device_add keeps automatic IDs apart     *)
(* from explicit ones with the same number.                                *)
THEOREM AutomaticNamesAreFree == Spec => []AutoNeverCollides
<1>1. IInv => AutoNeverCollides
  <2> SUFFICES ASSUME IInv, NEW d \in Dev, NEW e \in bus, pc[d] = "insert", IdOf[d] = AUTO
               PROVE  NameOf(d) # NameOf(e)
    BY DEF AutoNeverCollides
  <2>1. HoldsId(d) /\ id_auto[d]
    BY DEF HoldsId, IInv, IdInv
  <2>2. e \in Dev /\ pc[e] = "on" /\ e # d
    BY DEF IInv, PlaceInv
  <2>3. CASE IdOf[e] = AUTO
    BY <2>1, <2>2, <2>3 DEF IInv, IdsAreHeld, HoldsId, NameOf
  <2>4. CASE IdOf[e] # AUTO
    BY <2>1, <2>2, <2>4 DEF IInv, IdInv, NameOf
  <2> QED  BY <2>3, <2>4
<1> QED  BY <1>1, Invariance, PTL

(* The roll back of platform_device_add and the loop of                    *)
(* platform_device_del leave no resource behind, wherever an add failed.   *)
THEOREM AllResourcesOrNone == Spec => []AllOrNothing
<1>1. IInv => AllOrNothing
  <2> SUFFICES ASSUME IInv, NEW d \in Dev
               PROVE  /\ d \in bus => \A k \in Count(d) : InTree(Res[d][k]) => k \in claimed[d]
                      /\ pc[d] \in {"failed", "deleted"} \/ ~ ref[d] => claimed[d] = {} /\ d \notin bus
    BY DEF AllOrNothing
  <2>1. CASE d \in bus
    BY <2>1 DEF IInv, PlaceInv, ClaimInv, Claims, Trees
  <2>2. CASE pc[d] \in {"failed", "deleted", "none"}
    BY <2>2 DEF IInv, PlaceInv, ClaimInv, Claims
  <2>3. ~ ref[d] => pc[d] = "none"
    BY DEF IInv, PlaceInv
  <2> QED  BY <2>1, <2>2, <2>3
<1> QED  BY <1>1, Invariance, PTL

(* platform_add_devices registers all of its devices or none, for any      *)
(* number of them and whatever else is added and deleted in between.       *)
THEOREM BatchIsAllOrNothing == Spec => BatchAllOrNothing
<1>1. IInv /\ IInv' /\ [Next]_vars =>
        [/\ bpc' = "failed" => bus' \cap Static = {}
         /\ bpc # "done" /\ bpc' = "done" => Static \subseteq bus']_vars
  <2> SUFFICES ASSUME IInv, IInv', Next
               PROVE  /\ bpc' = "failed" => bus' \cap Static = {}
                      /\ bpc # "done" /\ bpc' = "done" => Static \subseteq bus'
    OBVIOUS
  <2>1. ASSUME bpc' = "failed" PROVE bus' \cap Static = {}
    <3>1. \A k \in 1 .. Len(Batch) : pc'[Batch[k]] \in {"none", "failed"}
      BY <2>1 DEF IInv, BatchInv, MayBeAt
    <3> QED  BY <3>1 DEF IInv, PlaceInv, Static
  <2>2. ASSUME bpc # "done", bpc' = "done" PROVE Static \subseteq bus'
    <3>1. AllAdded
      BY <2>2 DEF Next, BatchStep, AddDevices, AddNext, Added, RollBack, RollBackOne,
           RolledBackOne, RolledBack, Alloc, Attach, Unregister, AddStep, DelStep, batch,
           NameExplicit, NameAuto, NoId, Claim, ClaimFails, DeviceAdd, DeviceAddFails, UndoId,
           UndoRes, DelId, DelRes, Put
    <3>2. \A k \in 1 .. Len(Batch) : pc'[Batch[k]] = "on"
      BY <3>1 DEF AllAdded, IInv, BatchInv, MayBeAt
    <3> QED  BY <3>2, BatchAssumption DEF IInv, PlaceInv, Static
  <2> QED  BY <2>1, <2>2
<1> QED  BY <1>1, Invariance, PTL DEF Spec, BatchAllOrNothing

-----------------------------------------------------------------------------
(* The bus sees every add and every del as one step.                       *)

(* No other step changes the bus, or the ID of a device that is on it.     *)
LEMMA OffTheBus ==
  ASSUME IInv, NEW d \in Dev,
         \/ Alloc(d) \/ Attach(d) \/ DelStep(d)
         \/ NameExplicit(d) \/ NameAuto(d) \/ NoId(d) \/ Claim(d) \/ ClaimFails(d)
         \/ DeviceAddFails(d) \/ UndoId(d) \/ UndoRes(d)
  PROVE  bus' = bus /\ \A e \in bus : NameOf(e)' = NameOf(e)
<1>1. bus' = bus /\ d \notin bus
  BY DEF Alloc, Attach, DelStep, NameExplicit, NameAuto, NoId, Claim, ClaimFails,
     DeviceAddFails, UndoId, UndoRes, DelId, DelRes, Put, IInv, PlaceInv
<1>2. \A e \in Dev \ {d} : id'[e] = id[e] /\ id_auto'[e] = id_auto[e]
  BY DEF Alloc, Attach, DelStep, NameExplicit, NameAuto, NoId, Claim, ClaimFails,
     DeviceAddFails, UndoId, UndoRes, DelId, DelRes, Put, FreeId, device, IInv, TypeOK
<1> QED  BY <1>1, <1>2 DEF NameOf, IInv, TypeOK

LEMMA AddIsBusAdd ==
  ASSUME IInv, NEW d \in Dev, DeviceAdd(d)
  PROVE  Bus!Add(d, NameOf(d))
<1>1. /\ pc[d] = "insert" /\ i[d] = Len(Res[d]) /\ bus' = bus \cup {d}
      /\ \A e \in bus : NameOf(e) # NameOf(d)
      /\ UNCHANGED <<claimed, id, id_auto>>
  BY DEF DeviceAdd, device
<1>2. d \notin bus
  BY <1>1 DEF IInv, PlaceInv
<1>3. claimed[d] = Trees(d)
  <2>1. \A k \in Trees(d) : k <= i[d]
    BY <1>1, Counts DEF Trees, Count
  <2> QED  BY <1>1, <2>1 DEF IInv, ClaimInv, Claims
<1>4. ASSUME NEW e \in bus PROVE BusName[e] # NameOf(d) /\ ShareTree(d, e)
  <2>1. e \in Dev /\ claimed[e] = Trees(e)
    BY DEF IInv, PlaceInv, ClaimInv, Claims
  <2> QED  BY <1>1, <1>3, <2>1 DEF BusName, ShareTree, Trees, IInv, TreeInv
<1>5. BusName' = [e \in bus' |-> IF e = d THEN NameOf(d) ELSE BusName[e]]
  <2>1. \A e \in bus' : NameOf(e)' = NameOf(e)
    BY <1>1 DEF NameOf
  <2>2. \A e \in bus' : NameOf(e)' = (IF e = d THEN NameOf(d) ELSE BusName[e])
    BY <1>1, <2>1 DEF BusName
  <2> QED  BY <2>2 DEF BusName
<1> QED  BY <1>1, <1>2, <1>4, <1>5 DEF Bus!Add

LEMMA DelIsBusDel ==
  ASSUME IInv, NEW d \in bus, DeviceDel(d)
  PROVE  Bus!Del(d)
<1>1. bus' = bus \ {d} /\ \A e \in bus' : NameOf(e)' = BusName[e]
  BY DEF DeviceDel, NameOf, BusName
<1> QED  BY <1>1 DEF Bus!Del, BusName

LEMMA StepOnBus ==
  ASSUME IInv, [Next]_vars
  PROVE  [Bus!Next]_(Bus!vars)
<1>1. SUFFICES ASSUME bus' # bus \/ \E e \in bus : NameOf(e)' # NameOf(e)
               PROVE  Bus!Next
  BY DEF Bus!vars, BusName
<1>2. CASE UNCHANGED <<bus, id, id_auto>>
  BY <1>1, <1>2 DEF NameOf
<1>3. CASE \E d \in Dev : DeviceAdd(d)
  <2>1. PICK d \in Dev : DeviceAdd(d)
    BY <1>3
  <2>2. Bus!Add(d, NameOf(d))
    BY <2>1, AddIsBusAdd
  <2>3. NameOf(d) \in AnyName
    BY DEF NameOf, AnyName, IInv, TypeOK
  <2> QED  BY <2>2, <2>3 DEF Bus!Next
<1>4. CASE \E d \in bus : DeviceDel(d)
  BY <1>4, DelIsBusDel DEF Bus!Next, IInv, TypeOK
<1>5. CASE \E d \in Dev : \/ Alloc(d) \/ Attach(d) \/ DelStep(d)
                          \/ NameExplicit(d) \/ NameAuto(d) \/ NoId(d) \/ Claim(d)
                          \/ ClaimFails(d) \/ DeviceAddFails(d) \/ UndoId(d) \/ UndoRes(d)
  BY <1>1, <1>5, OffTheBus
<1>6. CASE UNCHANGED vars \/ AddDevices \/ AddNext \/ Added \/ AllAdded \/ RollBack
           \/ RolledBackOne \/ RolledBack
  <2>1. UNCHANGED <<bus, id, id_auto>>
    BY <1>6 DEF vars, device, AddDevices, AddNext, Register, Added, AllAdded, RollBack,
       RolledBackOne, RolledBack
  <2> QED  BY <1>2, <2>1
<1>7. CASE RollBackOne
  <2>1. Batch[b] \in bus
    BY <1>7, BatchAssumption DEF RollBackOne, IInv, TypeOK, PlaceInv, CounterInv
  <2> QED  BY <1>4, <1>7, <2>1 DEF RollBackOne
<1>8. CASE \E d \in Dev : Unregister(d)
  BY <1>4, <1>8 DEF Unregister, IInv, PlaceInv
<1> QED  BY <1>3, <1>5, <1>6, <1>7, <1>8 DEF Next, BatchStep, AddStep

(* Whatever interleaves with the steps of an add or a del, devices come to *)
(* the bus and leave it as PlatformBus says: at once, under a free name    *)
(* and with resources that go with those of every device there.            *)
THEOREM DriverCoreSeesOneStep == Spec => AddsAtOnce
<1>1. Init => Bus!Init
  BY DEF Init, Bus!Init, BusName
<1>2. IInv /\ [Next]_vars => [Bus!Next]_(Bus!vars)
  BY StepOnBus
<1> QED  BY <1>1, <1>2, Invariance, PTL DEF Spec, AddsAtOnce, Bus!Spec
=============================================================================
