--------------------------- MODULE PlatformDriver ---------------------------
(***************************************************************************)
(* Platform drivers (01_Device_Tree/platform.c): registration in its four  *)
(* forms, matching, and what platform_bus_type does when the driver core   *)
(* binds a device to a driver.                                             *)
(*                                                                         *)
(* The driver core is modelled as platform.c uses it. driver_register puts *)
(* the driver on the bus and then tries the devices there, one after the   *)
(* other; device_add tries the drivers, and so does the work that retries  *)
(* devices whose probe was deferred. A device has one such attempt at a    *)
(* time (device_lock). driver_unregister takes the driver off the bus,     *)
(* waits for the attempts that have found it, and unbinds its devices.     *)
(***************************************************************************)
EXTENDS Naturals, Sequences

CONSTANTS Dev, Drv, NoDrv, NoDev,
          Once,     \* drivers for __platform_driver_probe
          Own,      \* the device with which __platform_create_bundle makes one
          Systems,  \* devices and drivers that meet, and an array among these
          Managed,  \* drivers with driver_managed_dma
          NoName, NameOf, \* of a device or a driver
          id_table, \* the names in the table of a driver, if it has one
          Firmware, \* the drivers that a device matches in OF or ACPI style
          Overrides \* the overrides that are written to a device

ASSUME DriverAssumption ==
  /\ NoDrv \notin Drv /\ NoDev \notin Dev /\ Once \subseteq Drv
  /\ Own \in [Drv -> Dev \cup {NoDev}]
  /\ \A r \in Drv : Own[r] # NoDev => r \in Once
  /\ \A r, s \in Drv : Own[r] # NoDev /\ Own[r] = Own[s] => r = s
  /\ \A s \in Systems :
       /\ s.dev \subseteq Dev /\ s.drv \subseteq Drv
       /\ s.array \in Seq(s.drv \ Once)
       /\ \A j, k \in 1 .. Len(s.array) : s.array[j] = s.array[k] => j = k

VARIABLES system,   \* the one of Systems that there is
          rpc,      \* where the registration of each driver is
          todo,     \* the devices its loop over the bus has yet to visit
          at,       \* the device that driver_register has found to match
          probe,    \* drv->probe: the driver's own, or platform_probe_fail
          raced,    \* drivers that another thread has tried on a device meanwhile
          dpc,      \* where each device is
          driver,   \* dev->driver
          id_entry, \* the driver in whose table pdev->id_entry is
          attach,   \* devices for which device_attach is trying drivers
          deferred, \* devices whose probe is to be retried
          pm, dma,  \* devices in a PM domain, and in their DMA domain
          driver_override,
          overridden, \* devices to which an override was ever written
          rewritten,  \* history: drivers at the lock of a device whose override
                      \* was written after they matched it
          apc, i    \* __platform_register_drivers, and its counter

search == <<todo, probe, raced>>
match == <<driver_override, overridden, rewritten, id_entry>>
device == <<dpc, driver, attach, deferred, pm, dma>>
array == <<system, apc, i>>
vars == <<rpc, at, search, device, match, array>>

Array == system.array
Bus == {d \in Dev : dpc[d] # "off"}
Probing(d) == dpc[d] \in {"begin", "clk", "pm", "running"}
Listed(r) == rpc[r] \in {"attach", "lock", "trying", "registered", "walk", "on"}
InArray(r) == \E k \in 1 .. Len(Array) : Array[k] = r

Init ==
  /\ system \in Systems
  /\ rpc = [r \in Drv |-> "none"]
  /\ todo = [r \in Drv |-> {}]
  /\ at = [r \in Drv |-> NoDev]
  /\ probe = [r \in Drv |-> "own"]
  /\ raced = {}
  /\ dpc = [d \in Dev |-> "off"]
  /\ driver = [d \in Dev |-> NoDrv]
  /\ attach = {} /\ deferred = {} /\ pm = {} /\ dma = {}
  /\ driver_override = [d \in Dev |-> NoName] /\ overridden = {} /\ rewritten = {}
  /\ id_entry = [d \in Dev |-> NoDrv]
  /\ apc = "idle" /\ i = 0

-----------------------------------------------------------------------------
(* platform_match and driver_override                                      *)

(* Slip: the override is looked at only if the firmware has no match.      *)
platform_match_FirmwareFirst(d, r) ==
  \/ r \in Firmware[d]
  \/ IF driver_override[d] # NoName THEN driver_override[d] = NameOf[r]
     ELSE IF id_table[r] # {} THEN NameOf[d] \in id_table[r] ELSE NameOf[d] = NameOf[r]

platform_match(d, r) ==
  IF driver_override[d] # NoName THEN driver_override[d] = NameOf[r]
  ELSE \/ r \in Firmware[d]
       \/ IF id_table[r] # {} THEN NameOf[d] \in id_table[r] ELSE NameOf[d] = NameOf[r]

(* Slip: a driver of the name of the device needs no entry.                *)
MatchId_NameFirst(d, r) ==
  /\ id_entry' = IF /\ driver_override[d] = NoName /\ r \notin Firmware[d]
                    /\ NameOf[d] # NameOf[r] /\ NameOf[d] \in id_table[r]
                 THEN [id_entry EXCEPT ![d] = r] ELSE id_entry
  /\ UNCHANGED <<driver_override, overridden>>

(* platform_match_id leaves its mark on whatever device it is tried on.    *)
MatchId(d, r) ==
  /\ id_entry' = IF /\ driver_override[d] = NoName /\ r \notin Firmware[d]
                    /\ NameOf[d] \in id_table[r]
                 THEN [id_entry EXCEPT ![d] = r] ELSE id_entry
  /\ UNCHANGED <<driver_override, overridden>>

(* The name is replaced under the lock of the device.                      *)
driver_override_store(d, name) ==
  /\ d \in Bus /\ ~ Probing(d)
  /\ driver_override' = [driver_override EXCEPT ![d] = name]
  /\ overridden' = overridden \cup {d}
  /\ rewritten' = rewritten \cup {r \in Drv : rpc[r] = "lock" /\ at[r] = d}
  /\ UNCHANGED <<rpc, at, search, device, id_entry, array>>

-----------------------------------------------------------------------------
(* Binding: platform_dma_configure, platform_probe, and their undoing      *)

(* dev->driver is set before anything is called.                           *)
TryToBind(d, r) ==
  /\ dpc' = [dpc EXCEPT ![d] = "begin"]
  /\ driver' = [driver EXCEPT ![d] = r]

Goto(d, to) ==
  /\ dpc' = [dpc EXCEPT ![d] = to]
  /\ UNCHANGED <<rpc, at, driver, attach, deferred>>

(* driver_register goes on after the device it was at.                     *)
Passed(d, pc) ==
  LET R == {r \in Drv : rpc[r] = pc /\ at[r] = d}
  IN  /\ rpc' = [r \in Drv |-> IF r \in R THEN "attach" ELSE rpc[r]]
      /\ at' = [r \in Drv |-> IF r \in R THEN NoDev ELSE at[r]]

(* The core forgets the driver, and keeps the device for a later attempt   *)
(* if that was asked for.                                                  *)
GiveUp(d, ret) ==
  /\ dpc' = [dpc EXCEPT ![d] = "idle"]
  /\ driver' = [driver EXCEPT ![d] = NoDrv]
  /\ Passed(d, "trying")
  /\ deferred' = IF ret = "defer" THEN deferred \cup {d} ELSE deferred
  /\ UNCHANGED attach

Failure == {"defer", "error"}

(* Slip: deferral is never prevented.                                      *)
Returned_AsIs(r, ret) == ret

(* prevent_deferred_probe                                                  *)
Returned(r, ret) == IF r \in Once /\ ret = "defer" THEN "error" ELSE ret

(* What is not the driver's own (driver_managed_dma).                      *)
DmaCleanup(d) == dma' = IF driver[d] \in Managed THEN dma ELSE dma \ {d}

(* If the default domain cannot be had, what was set up is torn down.      *)
DmaConfigureFails(d) ==
  /\ dpc[d] = "begin"
  /\ \E ret \in Failure : GiveUp(d, ret)
  /\ UNCHANGED <<search, pm, dma, match, array>>

(* platform_dma_configure, and platform_probe's first look at drv->probe.  *)
Begin(d) ==
  /\ dpc[d] = "begin"
  /\ probe[driver[d]] = "own"
  /\ dma' = IF driver[d] \in Managed THEN dma ELSE dma \cup {d}
  /\ Goto(d, "clk")
  /\ UNCHANGED <<search, pm, match, array>>

BeginFails(d) ==
  /\ dpc[d] = "begin"
  /\ probe[driver[d]] = "fail"
  /\ GiveUp(d, "error") /\ DmaCleanup(d)
  /\ UNCHANGED <<search, pm, match, array>>

ClkSetDefaults(d) ==
  /\ dpc[d] = "clk"
  /\ \/ Goto(d, "pm") /\ dma' = dma
     \/ \E ret \in Failure : GiveUp(d, ret) /\ DmaCleanup(d)
  /\ UNCHANGED <<search, pm, match, array>>

PmDomainAttachFails(d, ret) ==
  /\ dpc[d] = "pm"
  /\ GiveUp(d, Returned(driver[d], ret)) /\ DmaCleanup(d)
  /\ UNCHANGED <<search, pm, match, array>>

(* The PM domain is attached; the second look at drv->probe.               *)
CallProbe(d) ==
  /\ dpc[d] = "pm"
  /\ probe[driver[d]] = "own"
  /\ Goto(d, "running")
  /\ pm' = pm \cup {d}
  /\ UNCHANGED <<search, dma, match, array>>

CallProbeFail(d) ==
  /\ dpc[d] = "pm"
  /\ probe[driver[d]] = "fail"
  /\ GiveUp(d, "error") /\ DmaCleanup(d)
  /\ UNCHANGED <<search, pm, match, array>>

ProbeSucceeds(d) ==
  /\ dpc[d] = "running"
  /\ dpc' = [dpc EXCEPT ![d] = "bound"]
  /\ attach' = attach \ {d}
  /\ Passed(d, "trying") /\ deferred' = deferred \ {d}
  /\ UNCHANGED <<search, driver, pm, dma, match, array>>

(* Slip: the device stays in its PM domain.                                *)
ProbeFails_KeepsPm(d, ret) ==
  /\ dpc[d] = "running"
  /\ GiveUp(d, Returned(driver[d], ret))
  /\ pm' = pm /\ DmaCleanup(d)
  /\ UNCHANGED <<search, match, array>>

ProbeFails(d, ret) ==
  /\ dpc[d] = "running"
  /\ GiveUp(d, Returned(driver[d], ret))
  /\ pm' = pm \ {d} /\ DmaCleanup(d)
  /\ UNCHANGED <<search, match, array>>

(* platform_remove and platform_dma_cleanup                                *)
Remove(d) ==
  /\ dpc[d] = "bound"
  /\ driver' = [driver EXCEPT ![d] = NoDrv]
  /\ pm' = pm \ {d} /\ DmaCleanup(d)

-----------------------------------------------------------------------------
(* Devices                                                                 *)

(* device_add calls device_attach.                                         *)
AddTo(d) ==
  /\ dpc[d] = "off"
  /\ dpc' = [dpc EXCEPT ![d] = "idle"]
  /\ attach' = attach \cup {d}
  /\ UNCHANGED <<driver, deferred, pm, dma>>

Add(d) ==
  /\ \A r \in Drv : Own[r] # d
  /\ AddTo(d)
  /\ UNCHANGED <<rpc, at, search, match, array>>

(* Whoever waits for the lock of the device finds it dead.                 *)
RemoveFrom(d) ==
  /\ dpc[d] \in {"idle", "bound"}
  /\ d \notin attach
  /\ IF dpc[d] = "bound" THEN Remove(d) ELSE UNCHANGED <<driver, pm, dma>>
  /\ dpc' = [dpc EXCEPT ![d] = "off"]
  /\ deferred' = deferred \ {d}
  /\ driver_override' = [driver_override EXCEPT ![d] = NoName]
  /\ overridden' = overridden \ {d} /\ rewritten' = rewritten
  /\ id_entry' = [id_entry EXCEPT ![d] = NoDrv]
  /\ Passed(d, "lock")
  /\ UNCHANGED attach

Del(d) ==
  /\ \A r \in Drv : Own[r] = d => rpc[r] \in {"none", "on"}
  /\ RemoveFrom(d)
  /\ UNCHANGED <<search, array>>

(* unbind of sysfs: suppress_bind_attrs keeps it from Once.                *)
Unbind(d) ==
  /\ driver[d] \notin Once
  /\ Remove(d)
  /\ dpc' = [dpc EXCEPT ![d] = "idle"]
  /\ UNCHANGED <<rpc, at, search, attach, deferred, match, array>>

Retry(d) ==
  /\ d \in deferred /\ dpc[d] = "idle" /\ d \notin attach
  /\ deferred' = deferred \ {d}
  /\ attach' = attach \cup {d}
  /\ UNCHANGED <<rpc, at, search, dpc, driver, pm, dma, match, array>>

DeviceAttach(d, r) ==
  /\ dpc[d] = "idle" /\ d \in attach
  /\ Listed(r) /\ platform_match(d, r)
  /\ MatchId(d, r) /\ rewritten' = rewritten
  /\ TryToBind(d, r)
  /\ raced' = IF rpc[r] = "on" THEN raced ELSE raced \cup {r}
  /\ UNCHANGED <<rpc, at, todo, probe, attach, deferred, pm, dma, array>>

DeviceAttached(d) ==
  /\ dpc[d] = "idle" /\ d \in attach
  /\ attach' = attach \ {d}
  /\ UNCHANGED <<rpc, at, search, dpc, driver, deferred, pm, dma, match, array>>

-----------------------------------------------------------------------------
(* driver_register and __platform_driver_probe                             *)

GotoReg(r, to) == rpc' = [rpc EXCEPT ![r] = to]

FailTo(r) == IF Own[r] = NoDev THEN "failed" ELSE "undo"

CreateBundle(r) ==
  /\ Own[r] # NoDev /\ rpc[r] \in {"none", "failed"}
  /\ dpc[Own[r]] = "off"
  /\ \/ AddTo(Own[r]) /\ GotoReg(r, "device")
     \/ UNCHANGED device /\ GotoReg(r, "failed")
  /\ UNCHANGED <<at, search, match, array>>

Turn(r) ==
  IF Own[r] # NoDev
  THEN rpc[r] = "device" /\ Own[r] \notin attach /\ ~ Probing(Own[r])
  ELSE /\ rpc[r] \in {"none", "failed"}
       /\ InArray(r) => rpc[r] = "none" /\ apc = "add" /\ i < Len(Array) /\ Array[i + 1] = r

(* Everything but driver_register itself is set up before.                 *)
Register(r) ==
  /\ Turn(r)
  /\ probe' = [probe EXCEPT ![r] = "own"]
  /\ raced' = raced \ {r}
  /\ \/ GotoReg(r, "attach") /\ todo' = [todo EXCEPT ![r] = Bus]
     \/ GotoReg(r, FailTo(r)) /\ todo' = todo
  /\ UNCHANGED <<at, device, match, array>>

Visit(r, d) == todo' = [todo EXCEPT ![r] = @ \ {d}]

(* platform_match is called before the device is locked.                   *)
SweepMatch(r, d) ==
  /\ rpc[r] = "attach" /\ d \in todo[r]
  /\ Visit(r, d)
  /\ IF d \in Bus THEN MatchId(d, r) ELSE UNCHANGED <<driver_override, overridden, id_entry>>
  /\ rewritten' = rewritten \ {r}
  /\ IF d \in Bus /\ platform_match(d, r)
     THEN GotoReg(r, "lock") /\ at' = [at EXCEPT ![r] = d]
     ELSE UNCHANGED <<rpc, at>>
  /\ UNCHANGED <<probe, raced, device, array>>

SweepTry(r) ==
  /\ rpc[r] = "lock"
  /\ ~ Probing(at[r])
  /\ IF dpc[at[r]] = "idle"
     THEN TryToBind(at[r], r) /\ GotoReg(r, "trying") /\ at' = at
     ELSE UNCHANGED <<dpc, driver>> /\ Passed(at[r], "lock")
  /\ UNCHANGED <<search, attach, deferred, pm, dma, match, array>>

(* Slip: the devices are tried in the background (no                       *)
(* PROBE_FORCE_SYNCHRONOUS), and nobody waits for them.                    *)
SweepDone_Async(r) ==
  /\ rpc[r] \in {"attach", "trying"} /\ todo[r] = {}
  /\ GotoReg(r, IF r \in Once THEN "registered" ELSE "on")
  /\ UNCHANGED <<at, search, device, match, array>>

SweepDone(r) ==
  /\ rpc[r] = "attach" /\ todo[r] = {}
  /\ GotoReg(r, IF r \in Once THEN "registered" ELSE "on")
  /\ UNCHANGED <<at, search, device, match, array>>

(* "Force all new probes of this driver to fail"                           *)
ForceFail(r) ==
  /\ rpc[r] = "registered"
  /\ probe' = [probe EXCEPT ![r] = "fail"]
  /\ todo' = [todo EXCEPT ![r] = Bus]
  /\ GotoReg(r, "walk")
  /\ UNCHANGED <<at, raced, device, match, array>>

(* is_bound_to_driver, which asks for dev->driver alone.                   *)
WalkFinds(r, d) ==
  /\ rpc[r] = "walk" /\ d \in todo[r]
  /\ driver[d] = r
  /\ GotoReg(r, "on") /\ todo' = [todo EXCEPT ![r] = {}]
  /\ UNCHANGED <<at, probe, raced, device, match, array>>

WalkPasses(r, d) ==
  /\ rpc[r] = "walk" /\ d \in todo[r]
  /\ driver[d] # r
  /\ Visit(r, d)
  /\ UNCHANGED <<rpc, at, probe, raced, device, match, array>>

(* Slip: the error is returned, but the driver stays registered.           *)
WalkEnds_StaysListed(r) ==
  /\ rpc[r] = "walk" /\ todo[r] = {}
  /\ GotoReg(r, FailTo(r))
  /\ UNCHANGED <<at, search, device, match, array>>

WalkEnds(r) ==
  /\ rpc[r] = "walk" /\ todo[r] = {}
  /\ GotoReg(r, "reject")
  /\ UNCHANGED <<at, search, device, match, array>>

-----------------------------------------------------------------------------
(* platform_driver_unregister                                              *)

Unregister(r) ==
  /\ rpc[r] = "on" /\ ~ InArray(r)
  /\ GotoReg(r, "unregister")
  /\ UNCHANGED <<at, search, device, match, array>>

Leaving(r) == rpc[r] \in {"reject", "unregister"}

Detach(r, d) ==
  /\ Leaving(r) /\ driver[d] = r
  /\ Remove(d)
  /\ dpc' = [dpc EXCEPT ![d] = "idle"]
  /\ UNCHANGED <<rpc, at, search, attach, deferred, match, array>>

Unregistered(r) ==
  /\ Leaving(r)
  /\ \A d \in Dev : driver[d] # r
  /\ GotoReg(r, IF rpc[r] = "reject" THEN FailTo(r) ELSE "none")
  /\ UNCHANGED <<at, search, device, match, array>>

(* err_pdev_del and err_pdev_put of __platform_create_bundle               *)
BundleDel(r) ==
  /\ rpc[r] = "undo"
  /\ RemoveFrom(Own[r])
  /\ UNCHANGED <<search, array>>

BundlePut(r) ==
  /\ rpc[r] = "undo" /\ dpc[Own[r]] = "off"
  /\ GotoReg(r, "failed")
  /\ UNCHANGED <<at, search, device, match, array>>

-----------------------------------------------------------------------------
(* __platform_register_drivers and platform_unregister_drivers             *)

RegisterDrivers ==
  /\ Array # <<>>
  /\ apc \in {"idle", "failed"}
  /\ apc' = "add" /\ i' = 0
  /\ rpc' = [r \in Drv |-> IF InArray(r) THEN "none" ELSE rpc[r]]
  /\ UNCHANGED <<at, search, device, match, system>>

Registered ==
  /\ apc = "add" /\ i < Len(Array)
  /\ rpc[Array[i + 1]] = "on"
  /\ i' = i + 1 /\ apc' = apc
  /\ UNCHANGED <<rpc, at, search, device, match, system>>

AllRegistered ==
  /\ apc = "add" /\ i = Len(Array)
  /\ apc' = "done" /\ i' = i
  /\ UNCHANGED <<rpc, at, search, device, match, system>>

RegisterFails ==
  /\ apc = "add" /\ i < Len(Array)
  /\ rpc[Array[i + 1]] = "failed"
  /\ apc' = "rollback" /\ i' = i
  /\ UNCHANGED <<rpc, at, search, device, match, system>>

UnregisterDrivers ==
  /\ apc = "done"
  /\ apc' = "unregister" /\ i' = i
  /\ UNCHANGED <<rpc, at, search, device, match, system>>

Undoing == apc \in {"rollback", "unregister"}

UnregisterOne ==
  /\ Undoing /\ i > 0
  /\ rpc[Array[i]] = "on"
  /\ GotoReg(Array[i], "unregister")
  /\ UNCHANGED <<at, search, device, match, array>>

UnregisteredOne ==
  /\ Undoing /\ i > 0
  /\ rpc[Array[i]] = "none"
  /\ i' = i - 1 /\ apc' = apc
  /\ UNCHANGED <<rpc, at, search, device, match, system>>

AllUnregistered ==
  /\ Undoing /\ i = 0
  /\ apc' = (IF apc = "rollback" THEN "failed" ELSE "idle") /\ i' = i
  /\ UNCHANGED <<rpc, at, search, device, match, system>>

-----------------------------------------------------------------------------
ProbeStep(d) ==
  \/ DmaConfigureFails(d) \/ Begin(d) \/ BeginFails(d) \/ ClkSetDefaults(d)
  \/ CallProbe(d) \/ CallProbeFail(d) \/ ProbeSucceeds(d)
  \/ \E ret \in Failure : PmDomainAttachFails(d, ret) \/ ProbeFails(d, ret)

AttachStep(d) == DeviceAttached(d) \/ \E r \in Drv : DeviceAttach(d, r)

RegisterStep(r) ==
  \/ SweepDone(r) \/ ForceFail(r) \/ WalkEnds(r) \/ Unregistered(r) \/ BundlePut(r)
  \/ \E d \in Dev : SweepMatch(r, d) \/ WalkFinds(r, d) \/ WalkPasses(r, d) \/ Detach(r, d)

ArrayStep ==
  \/ Registered \/ AllRegistered \/ RegisterFails
  \/ UnregisterOne \/ UnregisteredOne \/ AllUnregistered

Next ==
  \/ RegisterDrivers \/ UnregisterDrivers \/ ArrayStep
  \/ \E d \in system.dev :
       \/ Add(d) \/ Del(d) \/ Unbind(d) \/ Retry(d) \/ ProbeStep(d) \/ AttachStep(d)
       \/ \E name \in Overrides[d] : driver_override_store(d, name)
  \/ \E r \in system.drv :
       \/ CreateBundle(r) \/ Register(r) \/ Unregister(r)
       \/ RegisterStep(r) \/ SweepTry(r) \/ BundleDel(r)

Spec == Init /\ [][Next]_vars

-----------------------------------------------------------------------------
(* Properties                                                              *)

(* A device is in its PM domain, and owns its DMA domain, exactly from     *)
(* when its driver's probe may be called until that has failed or the      *)
(* driver is removed, on whatever way.                                     *)
DomainsAreBalanced ==
  \A d \in Dev :
    /\ d \in pm <=> dpc[d] \in {"running", "bound"}
    /\ d \in dma <=> /\ dpc[d] \in {"clk", "pm", "running", "bound"}
                     /\ driver[d] \notin Managed

(* "else returns a negative error code and with the driver not registered" *)
(* (platform.c:911): a registration that has failed, of one driver, of a   *)
(* bundle or of an array, has left no driver, no device of its own and no  *)
(* device bound.                                                           *)
Absent(r) ==
  /\ ~ Listed(r) /\ \A d \in Dev : driver[d] # r
  /\ Own[r] # NoDev => Own[r] \notin Bus

FailedIsGone ==
  /\ \A r \in Drv : rpc[r] = "failed" => Absent(r)
  /\ apc = "failed" => \A k \in 1 .. Len(Array) : Absent(Array[k])

(* Unless another thread has tried the driver meanwhile, a driver that     *)
(* __platform_driver_probe has registered is bound to a device by then,    *)
(* and its probe function, which may be discarded, runs no more.           *)
OnceIsOver ==
  [][\A r \in Once :
       rpc[r] = "walk" /\ rpc'[r] = "on" /\ r \notin raced =>
         /\ \E d \in Dev : driver[d] = r /\ dpc[d] = "bound"
         /\ \A d \in Dev : driver[d] = r => dpc[d] # "running"]_vars

(* "Prevent driver from requesting probe deferral to avoid further futile  *)
(* probe attempts" (platform.c:934-935): only its clocks and its DMA can   *)
(* still defer a device of such a driver.                                  *)
FutileOnlyByCore ==
  [][\A d \in Dev : driver[d] \in Once /\ d \in deferred' \ deferred =>
       dpc[d] \in {"begin", "clk"}]_vars

(* A device whose override is set is bound to no driver of another name,   *)
(* on whatever way, except that an override written after driver_register  *)
(* has matched the device and before it has locked it comes too late.      *)
OverrideDecides ==
  [][\A d \in Dev :
       driver[d] = NoDrv /\ driver'[d] # NoDrv =>
         \/ driver_override[d] \in {NoName, NameOf[driver'[d]]}
         \/ rpc[driver'[d]] = "lock" /\ driver'[d] \in rewritten]_vars

(* A probe that was found by the driver's id_table gets an entry of this   *)
(* table, unless the table of another driver names the device too.         *)
Contested(d) == \E r, s \in Drv : r # s /\ NameOf[d] \in id_table[r] \cap id_table[s]

IdEntryIsOwn ==
  \A d \in Dev :
    /\ Probing(d) /\ d \notin overridden /\ ~ Contested(d)
    /\ driver[d] \notin Firmware[d] /\ id_table[driver[d]] # {}
    => id_entry[d] = driver[d]
=============================================================================
