----------------------- MODULE PlatformBindingProofs ------------------------
(***************************************************************************)
(* What binding promises, for any devices and drivers, any array, any      *)
(* tables, and any interrupts.                                             *)
(***************************************************************************)
EXTENDS PlatformBinding, TLAPS

-----------------------------------------------------------------------------
(* The inductive invariant of the drivers.                                 *)

DriverTypeOK ==
  /\ system \in Systems
  /\ rpc \in [Drv -> {"none", "device", "attach", "lock", "trying", "registered", "walk",
                      "on", "reject", "unregister", "undo", "failed"}]
  /\ todo \in [Drv -> SUBSET Dev]
  /\ at \in [Drv -> Dev \cup {NoDev}]
  /\ probe \in [Drv -> {"own", "fail"}]
  /\ raced \subseteq Drv
  /\ dpc \in [Dev -> {"off", "idle", "begin", "clk", "pm", "running", "bound"}]
  /\ driver \in [Dev -> Drv \cup {NoDrv}]
  /\ attach \subseteq Dev /\ deferred \subseteq Dev
  /\ pm \subseteq Dev /\ dma \subseteq Dev
  /\ DOMAIN driver_override = Dev /\ overridden \subseteq Dev /\ rewritten \subseteq Drv
  /\ id_entry \in [Dev -> Drv \cup {NoDrv}]
  /\ apc \in {"idle", "add", "done", "rollback", "unregister", "failed"}
  /\ i \in 0 .. Len(Array)

(* A device has a driver from when the core sets dev->driver until it      *)
(* forgets it.                                                             *)
OwnerInv == \A d \in Dev : driver[d] = NoDrv <=> dpc[d] \in {"off", "idle"}

(* driver_register waits for the device it has found, and then probes it.  *)
AtInv ==
  \A r \in Drv :
    /\ rpc[r] \in {"lock", "trying"} <=> at[r] # NoDev
    /\ rpc[r] = "lock" => dpc[at[r]] # "off"
    /\ rpc[r] = "trying" => driver[at[r]] = r /\ Probing(at[r])

(* A driver that is off the bus has no device; only Once is walked over;   *)
(* only a bundle has a device to give back.                                *)
PlaceInv ==
  \A r \in Drv :
    /\ rpc[r] \in {"none", "device", "undo", "failed"} => \A d \in Dev : driver[d] # r
    /\ rpc[r] \in {"device", "registered", "walk", "reject", "undo"} => r \in Once
    /\ rpc[r] = "failed" /\ Own[r] # NoDev => dpc[Own[r]] = "off"
    /\ rpc[r] = "undo" => Own[r] # NoDev

(* Unless it has been raced, only driver_register itself probes.           *)
RaceInv ==
  \A r \in Drv :
    /\ rpc[r] \in {"attach", "lock", "trying", "registered", "walk"} /\ r \notin raced
    => \A d \in Dev : driver[d] = r => dpc[d] = "bound" \/ (rpc[r] = "trying" /\ at[r] = d)

(* Where the k-th driver of the array can be when the loop that registers  *)
(* or unregisters it is at q with its counter at c.                        *)
MayBeAt(k, p, q, c) ==
  /\ q \in {"idle", "failed"} => p \in {"none", "failed"}
  /\ q = "add" =>
       /\ k <= c => p = "on"
       /\ k > c + 1 => p = "none"
       /\ k = c + 1 => p \in {"none", "attach", "lock", "trying", "on", "failed"}
  /\ q = "done" => p = "on" /\ c = Len(Array)
  /\ q \in {"rollback", "unregister"} =>
       /\ k < c => p = "on"
       /\ k = c => p \in {"on", "unregister", "none"}
       /\ k > c => p \in {"none", "failed"}

ArrayInv == \A k \in 1 .. Len(Array) : MayBeAt(k, rpc[Array[k]], apc, i)

(* What is known when an id_table decides: the device is named in it, and  *)
(* so in no other.                                                         *)
ByTable(d, r) ==
  /\ d \notin overridden /\ ~ Contested(d)
  /\ r \notin Firmware[d] /\ id_table[r] # {}

IdInv ==
  /\ \A d \in Dev :
       /\ driver_override[d] # NoName => d \in overridden
       /\ id_entry[d] # NoDrv => NameOf[d] \in id_table[id_entry[d]]
       /\ Probing(d) /\ ByTable(d, driver[d]) => id_entry[d] = driver[d]
  /\ \A r \in Drv : rpc[r] = "lock" /\ ByTable(at[r], r) => id_entry[at[r]] = r

(* A driver that waits for the lock of a device has matched it under the   *)
(* override that is still there, or it has been rewritten.                 *)
OverrideInv ==
  \A r \in Drv : rpc[r] = "lock" /\ r \notin rewritten =>
    driver_override[at[r]] \in {NoName, NameOf[r]}

DriverInv ==
  /\ DriverTypeOK /\ OwnerInv /\ AtInv /\ PlaceInv /\ RaceInv /\ ArrayInv /\ IdInv
  /\ OverrideInv /\ DomainsAreBalanced

-----------------------------------------------------------------------------
(* A step of the drivers, of whatever system.                              *)
Step ==
  \/ RegisterDrivers \/ UnregisterDrivers \/ ArrayStep
  \/ \E d \in Dev :
       \/ Add(d) \/ Del(d) \/ Unbind(d) \/ Retry(d) \/ ProbeStep(d) \/ AttachStep(d)
       \/ \E name \in Overrides[d] : driver_override_store(d, name)
  \/ \E r \in Drv :
       \/ CreateBundle(r) \/ Register(r) \/ Unregister(r)
       \/ RegisterStep(r) \/ SweepTry(r) \/ BundleDel(r)

LEMMA StepsAreSteps == system \in Systems /\ BindingNext => Step \/ UNCHANGED vars
<1> SUFFICES ASSUME system \in Systems, BindingNext PROVE Step \/ UNCHANGED vars
  OBVIOUS
<1>1. system.dev \subseteq Dev /\ system.drv \subseteq Drv
  BY DriverAssumption
<1>2. CASE Next
  BY <1>1, <1>2 DEF Next, Step
<1>3. CASE CallProbe(IrqDev) \/ ProbeSucceeds(IrqDev)
  BY <1>3, BindingAssumption DEF Step, ProbeStep
<1>4. ASSUME NEW err \in Failure, ProbeReturns(err) PROVE Step
  BY <1>4, BindingAssumption DEF ProbeReturns, Step, ProbeStep
<1> QED
  BY <1>2, <1>3, <1>4 DEF BindingNext

-----------------------------------------------------------------------------
(* What a step does to a device: nothing, or one of these.                 *)

Rest == UNCHANGED <<raced, match, array>>

GoesOn(d, to) ==
  /\ <<dpc[d], to>> \in {<<"begin", "clk">>, <<"clk", "pm">>, <<"pm", "running">>,
                         <<"running", "bound">>}
  /\ dpc' = [dpc EXCEPT ![d] = to] /\ driver' = driver
  /\ pm' = IF to = "running" THEN pm \cup {d} ELSE pm
  /\ dma' = IF to = "clk" /\ driver[d] \notin Managed THEN dma \cup {d} ELSE dma
  /\ IF to = "bound" THEN Passed(d, "trying") ELSE UNCHANGED <<rpc, at>>
  /\ Rest

LeavesDomains(d) == pm' = pm \ {d} /\ dma' = dma \ {d}

GivesUp(d) ==
  /\ Probing(d) /\ dpc' = [dpc EXCEPT ![d] = "idle"]
  /\ driver' = [driver EXCEPT ![d] = NoDrv]
  /\ LeavesDomains(d)
  /\ Passed(d, "trying")
  /\ Rest

LetsGo(d) ==
  /\ dpc[d] = "bound" /\ dpc' = [dpc EXCEPT ![d] = "idle"]
  /\ driver' = [driver EXCEPT ![d] = NoDrv]
  /\ LeavesDomains(d)
  /\ UNCHANGED <<rpc, at>>
  /\ Rest

Comes(d) ==
  /\ dpc[d] = "off" /\ dpc' = [dpc EXCEPT ![d] = "idle"]
  /\ UNCHANGED <<driver, pm, dma, at>>
  /\ Rest
  /\ \/ (\A r \in Drv : Own[r] # d) /\ rpc' = rpc
     \/ \E r \in Drv : Own[r] = d /\ rpc[r] \in {"none", "failed"} /\ GotoReg(r, "device")

Goes(d) ==
  /\ dpc[d] \in {"idle", "bound"} /\ dpc' = [dpc EXCEPT ![d] = "off"]
  /\ driver' = [driver EXCEPT ![d] = NoDrv]
  /\ LeavesDomains(d)
  /\ Passed(d, "lock")
  /\ driver_override' = [driver_override EXCEPT ![d] = NoName]
  /\ overridden' = overridden \ {d} /\ rewritten' = rewritten
  /\ id_entry' = [id_entry EXCEPT ![d] = NoDrv]
  /\ UNCHANGED <<raced, array>>

Binds(d, r) ==
  /\ dpc[d] = "idle" /\ TryToBind(d, r)
  /\ UNCHANGED <<pm, dma, array>>
  /\ \/ /\ rpc[r] = "lock" /\ at[r] = d
        /\ rpc' = [rpc EXCEPT ![r] = "trying"] /\ UNCHANGED <<at, raced, match>>
     \/ /\ Listed(r) /\ platform_match(d, r) /\ MatchId(d, r) /\ rewritten' = rewritten
        /\ raced' = (IF rpc[r] = "on" THEN raced ELSE raced \cup {r})
        /\ UNCHANGED <<rpc, at>>

DeviceKind ==
  \E d \in Dev :
    \/ GivesUp(d) \/ LetsGo(d) \/ Comes(d) \/ Goes(d)
    \/ \E to \in {"clk", "pm", "running", "bound"} : GoesOn(d, to)
    \/ \E r \in Drv : Binds(d, r)

Elsewhere ==
  /\ UNCHANGED <<dpc, driver, pm, dma>>
  /\ \/ RegisterDrivers \/ UnregisterDrivers \/ ArrayStep
     \/ UNCHANGED <<rpc, at>> /\ Rest
     \/ \E d \in Dev : \E name \in Overrides[d] : driver_override_store(d, name)
     \/ \E r \in Drv :
          \/ Own[r] # NoDev /\ rpc[r] \in {"none", "failed"} /\ dpc[Own[r]] = "off"
             /\ GotoReg(r, "failed") /\ at' = at /\ Rest
          \/ Register(r) \/ Unregister(r) \/ SweepDone(r) \/ ForceFail(r) \/ WalkEnds(r)
          \/ Unregistered(r) \/ BundlePut(r)
          \/ \E d \in Dev : SweepMatch(r, d) \/ WalkFinds(r, d) \/ WalkPasses(r, d)
          \/ rpc[r] = "lock" /\ dpc[at[r]] # "idle" /\ Passed(at[r], "lock") /\ Rest

(* A driver that manages its DMA has left nothing to be cleaned up.        *)
LEMMA CleansUp ==
  ASSUME DriverInv, NEW d \in Dev, DmaCleanup(d)
  PROVE  dma' = dma \ {d}
<1>1. driver[d] \in Managed => d \notin dma
  BY DEF DriverInv, DomainsAreBalanced
<1> QED
  BY <1>1 DEF DmaCleanup

LEMMA ProbeKinds ==
  ASSUME DriverInv, NEW d \in Dev, ProbeStep(d)
  PROVE  GivesUp(d) \/ \E to \in {"clk", "pm", "running", "bound"} : GoesOn(d, to)
<1> USE DEF DriverInv, DriverTypeOK, DomainsAreBalanced, Rest, search, match, array
<1>1. CASE DmaConfigureFails(d) \/ BeginFails(d)
  BY <1>1, CleansUp DEF DmaConfigureFails, BeginFails, GiveUp, GivesUp, Probing, LeavesDomains
<1>2. CASE \E err \in Failure : PmDomainAttachFails(d, err) \/ ProbeFails(d, err)
  BY <1>2, CleansUp DEF PmDomainAttachFails, ProbeFails, GiveUp, GivesUp, Probing, LeavesDomains
<1>3. CASE CallProbeFail(d)
  BY <1>3, CleansUp DEF CallProbeFail, GiveUp, GivesUp, Probing, LeavesDomains
<1>4. CASE ClkSetDefaults(d)
  <2>1. CASE Goto(d, "pm") /\ dma' = dma
    BY <1>4, <2>1 DEF ClkSetDefaults, Goto, GoesOn
  <2>2. CASE \E err \in Failure : GiveUp(d, err) /\ DmaCleanup(d)
    BY <1>4, <2>2, CleansUp DEF ClkSetDefaults, GiveUp, GivesUp, Probing, LeavesDomains
  <2> QED
    BY <1>4, <2>1, <2>2 DEF ClkSetDefaults
<1>5. CASE Begin(d) \/ CallProbe(d)
  BY <1>5 DEF Begin, CallProbe, Goto, GoesOn
<1>6. CASE ProbeSucceeds(d)
  BY <1>6 DEF ProbeSucceeds, GoesOn
<1> QED
  BY <1>1, <1>2, <1>3, <1>4, <1>5, <1>6 DEF ProbeStep

LEMMA RemoveKind ==
  ASSUME DriverInv, NEW d \in Dev, RemoveFrom(d), UNCHANGED <<search, array>>
  PROVE  Goes(d)
<1> USE DEF DriverInv, DriverTypeOK, OwnerInv, DomainsAreBalanced
<1>1. CASE dpc[d] = "bound"
  BY <1>1, CleansUp DEF RemoveFrom, Remove, Goes, LeavesDomains, search
<1>2. CASE dpc[d] = "idle"
  <2>1. d \notin pm /\ d \notin dma /\ driver[d] = NoDrv
    BY <1>2
  <2> QED
    BY <1>2, <2>1 DEF RemoveFrom, Goes, LeavesDomains, search
<1> QED
  BY <1>1, <1>2 DEF RemoveFrom

LEMMA Kinds ==
  ASSUME DriverInv, Step
  PROVE  DeviceKind \/ Elsewhere
<1> USE DEF DeviceKind
<1>1. ASSUME NEW d \in Dev, ProbeStep(d) PROVE DeviceKind
  BY <1>1, ProbeKinds
<1>2. ASSUME NEW d \in Dev, Add(d) PROVE DeviceKind
  BY <1>2 DEF Add, AddTo, Comes, Rest, search, match, array
<1>3. ASSUME NEW d \in Dev, Del(d) PROVE DeviceKind
  BY <1>3, RemoveKind DEF Del
<1>4. ASSUME NEW d \in Dev, Unbind(d) PROVE DeviceKind
  BY <1>4, CleansUp DEF Unbind, Remove, LetsGo, LeavesDomains, Rest, search, match, array
<1>5. ASSUME NEW d \in Dev, Retry(d) \/ DeviceAttached(d) PROVE Elsewhere
  BY <1>5 DEF Retry, DeviceAttached, Elsewhere, Rest, search, match, array
<1>6. ASSUME NEW d \in Dev, NEW r \in Drv, DeviceAttach(d, r) PROVE DeviceKind
  BY <1>6 DEF DeviceAttach, TryToBind, Binds, Rest, array
<1>7. ASSUME NEW d \in Dev, NEW name \in Overrides[d], driver_override_store(d, name)
      PROVE  Elsewhere
  BY <1>7 DEF driver_override_store, Elsewhere, device
<1>8. ASSUME NEW r \in Drv, CreateBundle(r) PROVE DeviceKind \/ Elsewhere
  <2>1. Own[r] \in Dev
    BY <1>8, DriverAssumption DEF CreateBundle
  <2>2. CASE AddTo(Own[r]) /\ GotoReg(r, "device")
    BY <1>8, <2>1, <2>2 DEF CreateBundle, AddTo, Comes, Rest, search, match, array
  <2>3. CASE UNCHANGED device /\ GotoReg(r, "failed")
    BY <1>8, <2>1, <2>3 DEF CreateBundle, Elsewhere, Rest, device, search, match, array
  <2> QED
    BY <1>8, <2>2, <2>3 DEF CreateBundle
<1>9. ASSUME NEW r \in Drv, Register(r) \/ Unregister(r) PROVE Elsewhere
  BY <1>9 DEF Register, Unregister, Elsewhere, device
<1>10. ASSUME NEW r \in Drv, RegisterStep(r) PROVE DeviceKind \/ Elsewhere
  <2>1. CASE SweepDone(r) \/ ForceFail(r) \/ WalkEnds(r) \/ Unregistered(r) \/ BundlePut(r)
    BY <2>1 DEF SweepDone, ForceFail, WalkEnds, Unregistered, BundlePut, Elsewhere, device
  <2>2. ASSUME NEW d \in Dev, SweepMatch(r, d) \/ WalkFinds(r, d) \/ WalkPasses(r, d)
        PROVE  Elsewhere
    BY <2>2 DEF SweepMatch, WalkFinds, WalkPasses, Elsewhere, device
  <2>3. ASSUME NEW d \in Dev, Detach(r, d) PROVE DeviceKind
    BY <2>3, CleansUp DEF Detach, Remove, LetsGo, LeavesDomains, Rest, search, match, array
  <2> QED
    BY <1>10, <2>1, <2>2, <2>3 DEF RegisterStep
<1>11. ASSUME NEW r \in Drv, SweepTry(r) PROVE DeviceKind \/ Elsewhere
  <2>1. at[r] \in Dev
    BY <1>11 DEF SweepTry, DriverInv, DriverTypeOK, AtInv
  <2>2. CASE dpc[at[r]] = "idle"
    BY <1>11, <2>1, <2>2 DEF SweepTry, GotoReg, Binds, Rest, search, match, array
  <2>3. CASE dpc[at[r]] # "idle"
    BY <1>11, <2>1, <2>3 DEF SweepTry, Elsewhere, Rest, search, match, array
  <2> QED
    BY <2>2, <2>3
<1>12. ASSUME NEW r \in Drv, BundleDel(r) PROVE DeviceKind
  <2>1. Own[r] \in Dev
    BY <1>12, DriverAssumption DEF BundleDel, DriverInv, PlaceInv
  <2> QED
    BY <1>12, <2>1, RemoveKind DEF BundleDel
<1>13. CASE RegisterDrivers \/ UnregisterDrivers \/ ArrayStep
  BY <1>13 DEF RegisterDrivers, UnregisterDrivers, ArrayStep, Registered, AllRegistered,
     RegisterFails, UnregisterOne, UnregisteredOne, AllUnregistered, Elsewhere, device
<1> HIDE DEF DeviceKind
<1> QED
  BY <1>1, <1>2, <1>3, <1>4, <1>5, <1>6, <1>7, <1>8, <1>9, <1>10, <1>11, <1>12, <1>13
     DEF Step, AttachStep

-----------------------------------------------------------------------------
(* Each part of the invariant is kept.                                     *)

LEMMA OwnerStep ==
  ASSUME DriverInv, DeviceKind \/ Elsewhere \/ UNCHANGED vars
  PROVE  OwnerInv' /\ DomainsAreBalanced'
<1> USE DEF DriverInv, DriverTypeOK, OwnerInv, DomainsAreBalanced
<1>0. NoDrv \notin Drv
  BY DriverAssumption
<1>1. ASSUME NEW d \in Dev, NEW to \in {"clk", "pm", "running", "bound"}, GoesOn(d, to)
      PROVE  OwnerInv' /\ DomainsAreBalanced'
  BY <1>0, <1>1 DEF GoesOn
<1>2. ASSUME NEW d \in Dev, GivesUp(d) \/ LetsGo(d) \/ Goes(d)
      PROVE  OwnerInv' /\ DomainsAreBalanced'
  BY <1>0, <1>2 DEF GivesUp, LetsGo, Goes, LeavesDomains
<1>3. ASSUME NEW d \in Dev, Comes(d) PROVE OwnerInv' /\ DomainsAreBalanced'
  BY <1>3 DEF Comes
<1>4. ASSUME NEW d \in Dev, NEW r \in Drv, Binds(d, r) PROVE OwnerInv' /\ DomainsAreBalanced'
  BY <1>0, <1>4 DEF Binds, TryToBind
<1>5. CASE Elsewhere \/ UNCHANGED vars
  BY <1>5 DEF Elsewhere, vars, device
<1> QED
  BY <1>1, <1>2, <1>3, <1>4, <1>5 DEF DeviceKind

LEMMA AtStep ==
  ASSUME DriverInv, DeviceKind \/ Elsewhere \/ UNCHANGED vars
  PROVE  AtInv'
<1> USE DEF DriverInv, DriverTypeOK, OwnerInv, AtInv, Probing
<1>0. NoDrv \notin Drv /\ NoDev \notin Dev
  BY DriverAssumption
<1>1. ASSUME NEW d \in Dev, NEW to \in {"clk", "pm", "running", "bound"}, GoesOn(d, to)
      PROVE  AtInv'
  BY <1>0, <1>1 DEF GoesOn, Passed
<1>2. ASSUME NEW d \in Dev, GivesUp(d) PROVE AtInv'
  BY <1>0, <1>2 DEF GivesUp, Passed
<1>3. ASSUME NEW d \in Dev, LetsGo(d) PROVE AtInv'
  BY <1>0, <1>3 DEF LetsGo
<1>4. ASSUME NEW d \in Dev, Goes(d) PROVE AtInv'
  BY <1>0, <1>4 DEF Goes, Passed
<1>5. ASSUME NEW d \in Dev, Comes(d) PROVE AtInv'
  BY <1>0, <1>5 DEF Comes, GotoReg
<1>6. ASSUME NEW d \in Dev, NEW r \in Drv, Binds(d, r) PROVE AtInv'
  BY <1>0, <1>6 DEF Binds, TryToBind
<1>7. CASE Elsewhere
  <2>1. UNCHANGED <<dpc, driver>>
    BY <1>7 DEF Elsewhere
  <2>2. CASE UNCHANGED <<rpc, at>>
    BY <2>1, <2>2
  <2>3. CASE RegisterDrivers \/ UnregisterDrivers \/ ArrayStep
    <3>1. CASE RegisterDrivers
      <4>1. \A r \in Drv : rpc'[r] # rpc[r] => rpc[r] \notin {"lock", "trying"}
        BY <3>1 DEF RegisterDrivers, ArrayInv, MayBeAt, InArray
      <4>2. at' = at /\ \A r \in Drv : rpc'[r] \in {rpc[r], "none"}
        BY <3>1 DEF RegisterDrivers
      <4> QED
        BY <2>1, <4>1, <4>2
    <3>2. CASE UnregisterOne
      BY <2>1, <3>2 DEF UnregisterOne, GotoReg
    <3>3. CASE UNCHANGED <<rpc, at>>
      BY <2>2, <3>3
    <3> QED
      BY <2>3, <3>1, <3>2, <3>3 DEF UnregisterDrivers, ArrayStep, Registered, AllRegistered,
         RegisterFails, UnregisteredOne, AllUnregistered
  <2>4. ASSUME NEW r \in Drv, NEW to \in {"failed", "attach", "undo", "unregister", "registered", "on", "walk", "reject", "none"},
               rpc[r] \notin {"lock", "trying"}, GotoReg(r, to), at' = at
        PROVE  AtInv'
    BY <2>1, <2>4 DEF GotoReg
  <2>5. ASSUME NEW r \in Drv, NEW d \in Dev, SweepMatch(r, d) PROVE AtInv'
    BY <1>0, <2>1, <2>5 DEF SweepMatch, GotoReg, Bus
  <2>6. ASSUME NEW r \in Drv, rpc[r] = "lock", Passed(at[r], "lock") PROVE AtInv'
    BY <1>0, <2>1, <2>6 DEF Passed
  <2> QED
    BY <1>7, <2>2, <2>3, <2>4, <2>5, <2>6 DEF Elsewhere, Register, Turn, FailTo, Unregister, SweepDone, ForceFail,
       WalkEnds, Unregistered, Leaving, BundlePut, WalkFinds, WalkPasses, driver_override_store
<1>8. CASE UNCHANGED vars
  BY <1>8 DEF vars, device
<1> QED
  BY <1>1, <1>2, <1>3, <1>4, <1>5, <1>6, <1>7, <1>8 DEF DeviceKind

LEMMA PlaceStep ==
  ASSUME DriverInv, DeviceKind \/ Elsewhere \/ UNCHANGED vars
  PROVE  PlaceInv'
<1> USE DEF DriverInv, DriverTypeOK, OwnerInv, AtInv, PlaceInv, Probing
<1>0. /\ NoDrv \notin Drv /\ NoDev \notin Dev /\ Own \in [Drv -> Dev \cup {NoDev}]
      /\ \A r \in Drv : Own[r] # NoDev => r \in Once
      /\ \A r, s \in Drv : Own[r] # NoDev /\ Own[r] = Own[s] => r = s
  BY DriverAssumption
<1>1. ASSUME NEW d \in Dev, NEW to \in {"clk", "pm", "running", "bound"}, GoesOn(d, to)
      PROVE  PlaceInv'
  BY <1>0, <1>1 DEF GoesOn, Passed
<1>2. ASSUME NEW d \in Dev, GivesUp(d) PROVE PlaceInv'
  BY <1>0, <1>2 DEF GivesUp, Passed
<1>3. ASSUME NEW d \in Dev, LetsGo(d) PROVE PlaceInv'
  BY <1>0, <1>3 DEF LetsGo
<1>4. ASSUME NEW d \in Dev, Goes(d) PROVE PlaceInv'
  BY <1>0, <1>4 DEF Goes, Passed
<1>5. ASSUME NEW d \in Dev, Comes(d) PROVE PlaceInv'
  BY <1>0, <1>5 DEF Comes, GotoReg
<1>6. ASSUME NEW d \in Dev, NEW r \in Drv, Binds(d, r) PROVE PlaceInv'
  BY <1>0, <1>6 DEF Binds, TryToBind, Listed
<1>7. CASE Elsewhere
  <2>1. UNCHANGED <<dpc, driver>>
    BY <1>7 DEF Elsewhere
  <2>2. CASE UNCHANGED <<rpc, at>>
    BY <2>1, <2>2
  <2>3. CASE RegisterDrivers \/ UnregisterDrivers \/ ArrayStep
    <3>1. \A r \in Drv : rpc'[r] = rpc[r] \/ rpc'[r] = "unregister"
                         \/ (rpc'[r] = "none" /\ rpc[r] \in {"none", "failed"})
      BY <2>3 DEF RegisterDrivers, UnregisterDrivers, ArrayStep, Registered, AllRegistered,
         RegisterFails, UnregisterOne, UnregisteredOne, AllUnregistered, GotoReg, ArrayInv,
         MayBeAt, InArray
    <3> QED
      BY <2>1, <3>1
  <2>4. ASSUME NEW r \in Drv,
               \/ GotoReg(r, "failed") /\ rpc[r] \in {"none", "failed"} /\ dpc[Own[r]] = "off"
               \/ Register(r) \/ Unregister(r) \/ SweepDone(r) \/ ForceFail(r) \/ WalkEnds(r)
               \/ Unregistered(r) \/ BundlePut(r)
        PROVE  PlaceInv'
    BY <1>0, <2>1, <2>4 DEF GotoReg, Register, Turn, FailTo, Unregister, SweepDone, ForceFail,
       WalkEnds, Unregistered, Leaving, BundlePut
  <2>5. ASSUME NEW r \in Drv, NEW d \in Dev,
               SweepMatch(r, d) \/ WalkFinds(r, d) \/ WalkPasses(r, d)
        PROVE  PlaceInv'
    BY <1>0, <2>1, <2>5 DEF SweepMatch, WalkFinds, WalkPasses, GotoReg
  <2>6. ASSUME NEW r \in Drv, rpc[r] = "lock", Passed(at[r], "lock") PROVE PlaceInv'
    BY <1>0, <2>1, <2>6 DEF Passed
  <2> QED
    BY <1>7, <2>2, <2>3, <2>4, <2>5, <2>6 DEF Elsewhere, driver_override_store
<1>8. CASE UNCHANGED vars
  BY <1>8 DEF vars, device
<1> QED
  BY <1>1, <1>2, <1>3, <1>4, <1>5, <1>6, <1>7, <1>8 DEF DeviceKind

LEMMA RaceStep ==
  ASSUME DriverInv, DeviceKind \/ Elsewhere \/ UNCHANGED vars
  PROVE  RaceInv'
<1> USE DEF DriverInv, DriverTypeOK, OwnerInv, AtInv, RaceInv, Probing
<1>0. NoDrv \notin Drv /\ NoDev \notin Dev
  BY DriverAssumption
<1>1. ASSUME NEW d \in Dev, NEW to \in {"clk", "pm", "running", "bound"}, GoesOn(d, to)
      PROVE  RaceInv'
  BY <1>0, <1>1 DEF GoesOn, Passed, Rest
<1>2. ASSUME NEW d \in Dev, GivesUp(d) PROVE RaceInv'
  BY <1>0, <1>2 DEF GivesUp, Passed, Rest
<1>3. ASSUME NEW d \in Dev, LetsGo(d) PROVE RaceInv'
  BY <1>0, <1>3 DEF LetsGo, Rest
<1>4. ASSUME NEW d \in Dev, Goes(d) PROVE RaceInv'
  BY <1>0, <1>4 DEF Goes, Passed
<1>5. ASSUME NEW d \in Dev, Comes(d) PROVE RaceInv'
  BY <1>0, <1>5 DEF Comes, GotoReg, Rest
<1>6. ASSUME NEW d \in Dev, NEW r \in Drv, Binds(d, r) PROVE RaceInv'
  BY <1>0, <1>6 DEF Binds, TryToBind, Listed
<1>7. CASE Elsewhere
  <2>1. UNCHANGED <<dpc, driver>>
    BY <1>7 DEF Elsewhere
  <2>2. CASE UNCHANGED <<rpc, at, raced>>
    BY <2>1, <2>2
  <2>3. CASE RegisterDrivers \/ UnregisterDrivers \/ ArrayStep
    BY <2>1, <2>3 DEF RegisterDrivers, UnregisterDrivers, ArrayStep, Registered, AllRegistered,
       RegisterFails, UnregisterOne, UnregisteredOne, AllUnregistered, GotoReg, search
  <2>4. ASSUME NEW r \in Drv, Register(r) PROVE RaceInv'
    BY <2>1, <2>4 DEF Register, Turn, FailTo, GotoReg, PlaceInv
  <2>5. ASSUME NEW r \in Drv,
               NEW to \in {"failed", "undo", "unregister", "registered", "on", "walk", "reject", "none"},
               GotoReg(r, to), at' = at, raced' = raced,
               to \in {"registered", "walk"} => rpc[r] \in {"attach", "registered", "walk"}
        PROVE  RaceInv'
    BY <2>1, <2>5 DEF GotoReg
  <2>6. ASSUME NEW r \in Drv,
               \/ Unregister(r) \/ SweepDone(r) \/ ForceFail(r) \/ WalkEnds(r)
               \/ Unregistered(r) \/ BundlePut(r)
        PROVE  RaceInv'
    BY <2>5, <2>6 DEF FailTo, Unregister, SweepDone, ForceFail,
       WalkEnds, Unregistered, BundlePut, search
  <2>7. ASSUME NEW r \in Drv, NEW d \in Dev,
               SweepMatch(r, d) \/ WalkFinds(r, d) \/ WalkPasses(r, d)
        PROVE  RaceInv'
    BY <1>0, <2>1, <2>7 DEF SweepMatch, WalkFinds, WalkPasses, GotoReg
  <2>8. ASSUME NEW r \in Drv, rpc[r] = "lock", Passed(at[r], "lock"), Rest PROVE RaceInv'
    BY <1>0, <2>1, <2>8 DEF Passed, Rest
  <2> QED
    BY <1>7, <2>2, <2>3, <2>4, <2>5, <2>6, <2>7, <2>8 DEF Elsewhere, driver_override_store, Rest, search
<1>8. CASE UNCHANGED vars
  BY <1>8 DEF vars, device, search
<1> QED
  BY <1>1, <1>2, <1>3, <1>4, <1>5, <1>6, <1>7, <1>8 DEF DeviceKind

LEMMA ArrayIsOwn ==
  ASSUME system \in Systems
  PROVE  /\ Len(Array) \in Nat
         /\ \A k \in 1 .. Len(Array) : /\ Array[k] \in Drv \ Once /\ Own[Array[k]] = NoDev
                                       /\ InArray(Array[k])
         /\ \A j, k \in 1 .. Len(Array) : Array[j] = Array[k] => j = k
<1>1. /\ Array \in Seq(system.drv \ Once) /\ system.drv \subseteq Drv
      /\ \A j, k \in 1 .. Len(Array) : Array[j] = Array[k] => j = k
  BY DriverAssumption DEF Array
<1>2. \A r \in Drv : Own[r] # NoDev => r \in Once
  BY DriverAssumption
<1> QED
  BY <1>1, <1>2 DEF InArray

LEMMA ArrayInvStep ==
  ASSUME DriverInv, DeviceKind \/ Elsewhere \/ UNCHANGED vars
  PROVE  ArrayInv'
<1> USE DEF DriverInv, DriverTypeOK, ArrayInv, MayBeAt
<1>0. /\ Len(Array) \in Nat
      /\ \A k \in 1 .. Len(Array) : /\ Array[k] \in Drv \ Once /\ Own[Array[k]] = NoDev
                                    /\ InArray(Array[k])
      /\ \A j, k \in 1 .. Len(Array) : Array[j] = Array[k] => j = k
  BY ArrayIsOwn
<1> HIDE DEF Array
(* A step of one driver that is in the array is as far as its turn.        *)
<1>1. ASSUME UNCHANGED array,
             \A k \in 1 .. Len(Array) :
               LET p == rpc[Array[k]]  q == rpc'[Array[k]] IN
               \/ q = p
               \/ p \in {"attach", "lock", "trying"}
                  /\ q \in {"attach", "lock", "trying", "on"}
               \/ p = "unregister" /\ q = "none"
               \/ p = "none" /\ q \in {"attach", "failed"} /\ apc = "add" /\ k = i + 1
      PROVE  ArrayInv'
  <2>1. Array' = Array /\ apc' = apc /\ i' = i
    BY <1>1 DEF array, Array
  <2> QED
    BY <1>0, <1>1, <2>1
<1>2. ASSUME DeviceKind PROVE ArrayInv'
  <2>1. UNCHANGED array
    BY <1>2 DEF DeviceKind, GivesUp, LetsGo, Comes, Goes, GoesOn, Binds, Rest
  <2>2. \A r \in Drv : Own[r] = NoDev =>
          \/ rpc'[r] = rpc[r]
          \/ rpc[r] \in {"lock", "trying"} /\ rpc'[r] \in {"attach", "trying"}
    BY <1>2, DriverAssumption
       DEF DeviceKind, GivesUp, LetsGo, Comes, Goes, GoesOn, Binds, Passed, GotoReg
  <2> QED
    BY <1>0, <1>1, <2>1, <2>2
<1>3. CASE Elsewhere
  <2>1. CASE UNCHANGED <<rpc, array>>
    BY <1>0, <1>1, <2>1
  <2>2. CASE RegisterDrivers
    <3>1. /\ apc \in {"idle", "failed"} /\ apc' = "add" /\ i' = 0 /\ Array' = Array
          /\ \A k \in 1 .. Len(Array) : rpc'[Array[k]] = "none"
      BY <1>0, <2>2 DEF RegisterDrivers, Array
    <3> QED
      BY <1>0, <3>1
  <2>3. CASE UnregisterDrivers
    <3>1. /\ apc = "done" /\ apc' = "unregister" /\ i' = i /\ Array' = Array /\ rpc' = rpc
      BY <2>3 DEF UnregisterDrivers, Array
    <3> QED
      BY <1>0, <3>1
  <2>4. CASE ArrayStep
    <3>1. Array' = Array
      BY <2>4 DEF ArrayStep, Registered, AllRegistered, RegisterFails, UnregisterOne,
         UnregisteredOne, AllUnregistered, array, Array
    <3>2. CASE Registered \/ AllRegistered \/ RegisterFails
      BY <1>0, <3>1, <3>2 DEF Registered, AllRegistered, RegisterFails
    <3>3. CASE UnregisterOne
      BY <1>0, <3>1, <3>3 DEF UnregisterOne, Undoing, GotoReg, array
    <3>4. CASE UnregisteredOne \/ AllUnregistered
      BY <1>0, <3>1, <3>4 DEF UnregisteredOne, AllUnregistered, Undoing
    <3> QED
      BY <2>4, <3>2, <3>3, <3>4 DEF ArrayStep
  <2>5. ASSUME NEW r \in Drv, Own[r] # NoDev, GotoReg(r, "failed"), Rest PROVE ArrayInv'
    BY <1>0, <1>1, <2>5 DEF GotoReg, Rest
  <2>6. ASSUME NEW r \in Drv, Register(r) PROVE ArrayInv'
    <3>1. ASSUME NEW k \in 1 .. Len(Array), Array[k] = r
          PROVE  /\ rpc[r] = "none" /\ apc = "add" /\ k = i + 1
                 /\ rpc'[r] \in {"attach", "failed"}
      BY <1>0, <2>6, <3>1 DEF Register, Turn, FailTo, GotoReg
    <3>2. UNCHANGED array /\ \A s \in Drv : s # r => rpc'[s] = rpc[s]
      BY <2>6 DEF Register, GotoReg
    <3> QED
      BY <1>0, <1>1, <3>1, <3>2
  <2>7. ASSUME NEW r \in Drv, Unregister(r) \/ ForceFail(r) \/ WalkEnds(r) \/ BundlePut(r)
        PROVE  ArrayInv'
    <3>1. \A k \in 1 .. Len(Array) : Array[k] # r
      BY <1>0, <2>7 DEF Unregister, ForceFail, WalkEnds, BundlePut, PlaceInv
    <3>2. UNCHANGED array /\ \A s \in Drv : s # r => rpc'[s] = rpc[s]
      BY <2>7 DEF Unregister, ForceFail, WalkEnds, BundlePut, GotoReg
    <3> QED
      BY <1>0, <1>1, <3>1, <3>2
  <2>8. ASSUME NEW r \in Drv, SweepDone(r) PROVE ArrayInv'
    BY <1>0, <1>1, <2>8 DEF SweepDone, GotoReg
  <2>9. ASSUME NEW r \in Drv, Unregistered(r) PROVE ArrayInv'
    BY <1>0, <1>1, <2>9 DEF Unregistered, Leaving, GotoReg, FailTo, PlaceInv
  <2>10. ASSUME NEW r \in Drv, NEW d \in Dev,
               SweepMatch(r, d) \/ WalkFinds(r, d) \/ WalkPasses(r, d)
        PROVE  ArrayInv'
    BY <1>0, <1>1, <2>10 DEF SweepMatch, WalkFinds, WalkPasses, GotoReg, PlaceInv
  <2>11. ASSUME NEW r \in Drv, rpc[r] = "lock", Passed(at[r], "lock"), Rest PROVE ArrayInv'
    BY <1>0, <1>1, <2>11 DEF Passed, Rest
  <2> QED
    BY <1>3, <2>1, <2>2, <2>3, <2>4, <2>5, <2>6, <2>7, <2>8, <2>9, <2>10, <2>11
       DEF Elsewhere, driver_override_store, Rest
<1>4. CASE UNCHANGED vars
  BY <1>0, <1>1, <1>4 DEF vars
<1> QED
  BY <1>2, <1>3, <1>4

(* platform_match_id keeps what is known of the tables.                    *)
LEMMA MatchedById ==
  ASSUME DriverInv, NEW d \in Dev, NEW r \in Drv, MatchId(d, r)
  PROVE  /\ id_entry' \in [Dev -> Drv \cup {NoDrv}]
         /\ UNCHANGED <<driver_override, overridden>>
         /\ \A e \in Dev : id_entry'[e] # NoDrv => NameOf[e] \in id_table[id_entry'[e]]
         /\ \A e \in Dev, s \in Drv :
              ByTable(e, s) /\ id_entry[e] = s => id_entry'[e] = s
         /\ platform_match(d, r) /\ ByTable(d, r) => id_entry'[d] = r
<1> USE DEF DriverInv, DriverTypeOK, IdInv
<1>0. NoDrv \notin Drv
  BY DriverAssumption
<1>1. CASE id_entry' = id_entry /\ ~ (/\ driver_override[d] = NoName /\ r \notin Firmware[d]
                                      /\ NameOf[d] \in id_table[r])
  BY <1>1 DEF MatchId, platform_match, ByTable
<1>2. CASE /\ id_entry' = [id_entry EXCEPT ![d] = r]
           /\ NameOf[d] \in id_table[r]
  <2>1. ASSUME NEW s \in Drv, ByTable(d, s), id_entry[d] = s PROVE s = r
    BY <1>0, <1>2, <2>1 DEF ByTable, Contested
  <2> QED
    BY <1>2, <2>1 DEF MatchId
<1> QED
  BY <1>1, <1>2 DEF MatchId

LEMMA IdStep ==
  ASSUME DriverInv, DeviceKind \/ Elsewhere \/ UNCHANGED vars
  PROVE  IdInv'
<1> USE DEF DriverInv, DriverTypeOK, OwnerInv, AtInv, IdInv, Probing
<1>0. NoDrv \notin Drv /\ NoDev \notin Dev
  BY DriverAssumption
<1>a. ASSUME UNCHANGED overridden PROVE \A d, r : ByTable(d, r)' <=> ByTable(d, r)
  BY <1>a DEF ByTable, Contested
<1>1. ASSUME NEW d \in Dev, NEW to \in {"clk", "pm", "running", "bound"}, GoesOn(d, to)
      PROVE  IdInv'
  BY <1>0, <1>1, <1>a DEF GoesOn, Passed, Rest, match
<1>2. ASSUME NEW d \in Dev, GivesUp(d) PROVE IdInv'
  BY <1>0, <1>2, <1>a DEF GivesUp, Passed, Rest, match
<1>3. ASSUME NEW d \in Dev, LetsGo(d) PROVE IdInv'
  BY <1>0, <1>3, <1>a DEF LetsGo, Rest, match
<1>4. ASSUME NEW d \in Dev, Goes(d) PROVE IdInv'
  <2>1. \A e \in Dev : \A r : e # d => (ByTable(e, r)' <=> ByTable(e, r))
    BY <1>4 DEF Goes, ByTable, Contested
  <2>2. \A r \in Drv : rpc'[r] = "lock" => rpc[r] = "lock" /\ at'[r] = at[r] /\ at[r] # d /\ at[r] \in Dev
    BY <1>0, <1>4 DEF Goes, Passed
  <2>3. ~ Probing(d)'
    BY <1>4 DEF Goes
  <2> QED
    BY <1>0, <1>4, <2>1, <2>2, <2>3 DEF Goes
<1>5. ASSUME NEW d \in Dev, Comes(d) PROVE IdInv'
  BY <1>0, <1>5, <1>a DEF Comes, GotoReg, Rest, match
<1>6. ASSUME NEW d \in Dev, NEW r \in Drv, Binds(d, r) PROVE IdInv'
  <2>1. CASE UNCHANGED match /\ rpc[r] = "lock" /\ at[r] = d /\ at' = at
             /\ rpc' = [rpc EXCEPT ![r] = "trying"]
    BY <1>0, <1>6, <2>1, <1>a DEF Binds, TryToBind, match
  <2>2. CASE platform_match(d, r) /\ MatchId(d, r) /\ UNCHANGED <<rpc, at>>
    <3>1. \A e, s : ByTable(e, s)' <=> ByTable(e, s)
      BY <2>2 DEF MatchId, ByTable, Contested
    <3>2. \A s \in Drv : rpc[s] = "lock" => at[s] \in Dev
      BY <1>0
    <3> QED
      BY <1>0, <1>6, <2>2, <3>1, <3>2, MatchedById DEF Binds, TryToBind
  <2> QED
    BY <1>6, <2>1, <2>2 DEF Binds
<1>7. CASE Elsewhere
  <2>1. UNCHANGED <<dpc, driver>>
    BY <1>7 DEF Elsewhere
  <2>2. ASSUME UNCHANGED <<driver_override, overridden, id_entry>>,
               \A r \in Drv : rpc'[r] = "lock" => rpc[r] = "lock" /\ at'[r] = at[r]
        PROVE  IdInv'
    BY <2>1, <2>2, <1>a
  <2>3. CASE RegisterDrivers \/ UnregisterDrivers \/ ArrayStep
    BY <2>2, <2>3 DEF RegisterDrivers, UnregisterDrivers, ArrayStep, Registered, AllRegistered,
       RegisterFails, UnregisterOne, UnregisteredOne, AllUnregistered, GotoReg, match
  <2>4. ASSUME NEW d \in Dev, NEW name \in Overrides[d], driver_override_store(d, name)
        PROVE  IdInv'
    BY <2>1, <2>4 DEF driver_override_store, ByTable, Contested
  <2>5. ASSUME NEW r \in Drv,
               \/ GotoReg(r, "failed") /\ at' = at /\ Rest
               \/ Register(r) \/ Unregister(r) \/ SweepDone(r) \/ ForceFail(r) \/ WalkEnds(r)
               \/ Unregistered(r) \/ BundlePut(r)
        PROVE  IdInv'
    BY <2>2, <2>5 DEF GotoReg, Register, FailTo, Unregister, SweepDone, ForceFail,
       WalkEnds, Unregistered, BundlePut, Rest, match
  <2>6. ASSUME NEW r \in Drv, NEW d \in Dev, WalkFinds(r, d) \/ WalkPasses(r, d)
        PROVE  IdInv'
    BY <2>2, <2>6 DEF WalkFinds, WalkPasses, GotoReg, match
  <2>7. ASSUME NEW r \in Drv, NEW d \in Dev, SweepMatch(r, d)
        PROVE  IdInv'
    <3>1. CASE d \notin Bus
      BY <2>2, <2>7, <3>1 DEF SweepMatch
    <3>2. CASE d \in Bus
      <4>1. MatchId(d, r) /\ \A s \in Drv : s # r => rpc'[s] = rpc[s] /\ at'[s] = at[s]
        BY <2>7, <3>2 DEF SweepMatch, GotoReg
      <4>2. rpc'[r] = "lock" => platform_match(d, r) /\ at'[r] = d
        BY <2>7, <3>2 DEF SweepMatch, GotoReg
      <4>3. \A e, s : ByTable(e, s)' <=> ByTable(e, s)
        BY <4>1 DEF MatchId, ByTable, Contested
      <4>4. \A s \in Drv : rpc[s] = "lock" => at[s] \in Dev
        BY <1>0
      <4> QED
        BY <1>0, <2>1, <4>1, <4>2, <4>3, <4>4, MatchedById
    <3> QED
      BY <3>1, <3>2
  <2>8. ASSUME NEW r \in Drv, rpc[r] = "lock", Passed(at[r], "lock"), Rest PROVE IdInv'
    BY <1>0, <2>2, <2>8 DEF Passed, Rest, match
  <2> QED
    BY <1>7, <2>2, <2>3, <2>4, <2>5, <2>6, <2>7, <2>8 DEF Elsewhere, Rest, match
<1>8. CASE UNCHANGED vars
  BY <1>8, <1>a DEF vars, device, match
<1> QED
  BY <1>1, <1>2, <1>3, <1>4, <1>5, <1>6, <1>7, <1>8 DEF DeviceKind

LEMMA OverrideStep ==
  ASSUME DriverInv, DeviceKind \/ Elsewhere \/ UNCHANGED vars
  PROVE  OverrideInv'
<1> USE DEF DriverInv, DriverTypeOK, AtInv, OverrideInv
<1>0. NoDrv \notin Drv /\ NoDev \notin Dev
  BY DriverAssumption
<1>1. ASSUME UNCHANGED <<driver_override, rewritten>>,
             \A r \in Drv : rpc'[r] = "lock" => rpc[r] = "lock" /\ at'[r] = at[r]
      PROVE  OverrideInv'
  BY <1>1
<1>2. ASSUME NEW d \in Dev, Goes(d) PROVE OverrideInv'
  <2>1. \A r \in Drv : rpc'[r] = "lock" => rpc[r] = "lock" /\ at'[r] = at[r] /\ at[r] \in Dev
    BY <1>0, <1>2 DEF Goes, Passed
  <2> QED
    BY <1>2, <2>1 DEF Goes
<1>3. ASSUME NEW d \in Dev, NEW r \in Drv, Binds(d, r) PROVE OverrideInv'
  <2>1. UNCHANGED <<driver_override, rewritten>>
    BY <1>3 DEF Binds, MatchId, match
  <2>2. \A q \in Drv : rpc'[q] = "lock" => rpc[q] = "lock" /\ at'[q] = at[q]
    BY <1>3 DEF Binds
  <2> QED
    BY <1>1, <2>1, <2>2
<1>4. ASSUME NEW d \in Dev,
             \/ GivesUp(d) \/ LetsGo(d) \/ Comes(d)
             \/ \E to \in {"clk", "pm", "running", "bound"} : GoesOn(d, to)
      PROVE  OverrideInv'
  <2>1. UNCHANGED <<driver_override, rewritten>>
    BY <1>4 DEF GivesUp, LetsGo, Comes, GoesOn, Rest, match
  <2>2. \A q \in Drv : rpc'[q] = "lock" => rpc[q] = "lock" /\ at'[q] = at[q]
    BY <1>4 DEF GivesUp, LetsGo, Comes, GoesOn, Passed, GotoReg
  <2> QED
    BY <1>1, <2>1, <2>2
<1>5. ASSUME NEW d \in Dev, NEW name \in Overrides[d], driver_override_store(d, name)
      PROVE  OverrideInv'
  <2>1. /\ rpc' = rpc /\ at' = at /\ driver_override' = [driver_override EXCEPT ![d] = name]
        /\ rewritten' = rewritten \cup {r \in Drv : rpc[r] = "lock" /\ at[r] = d}
    BY <1>5 DEF driver_override_store
  <2>2. \A r \in Drv : rpc[r] = "lock" /\ r \notin rewritten' => at[r] # d /\ at[r] \in Dev
    BY <1>0, <2>1
  <2> QED
    BY <2>1, <2>2
<1>6. ASSUME NEW r \in Drv, NEW d \in Dev, SweepMatch(r, d) PROVE OverrideInv'
  <2>1. driver_override' = driver_override /\ rewritten' = rewritten \ {r}
    BY <1>6 DEF SweepMatch, MatchId
  <2>2. \A q \in Drv \ {r} : rpc'[q] = rpc[q] /\ at'[q] = at[q]
    BY <1>6 DEF SweepMatch, GotoReg
  <2>3. rpc'[r] = "lock" => at'[r] = d /\ platform_match(d, r)
    BY <1>6 DEF SweepMatch, GotoReg
  <2>4. platform_match(d, r) => driver_override[d] \in {NoName, NameOf[r]}
    BY DEF platform_match
  <2> QED
    BY <2>1, <2>2, <2>3, <2>4
<1>7. CASE Elsewhere
  <2>1. CASE RegisterDrivers \/ UnregisterDrivers \/ ArrayStep
    BY <1>1, <2>1 DEF RegisterDrivers, UnregisterDrivers, ArrayStep, Registered, AllRegistered,
       RegisterFails, UnregisterOne, UnregisteredOne, AllUnregistered, GotoReg, match
  <2>2. ASSUME NEW r \in Drv,
               \/ GotoReg(r, "failed") /\ at' = at /\ Rest
               \/ Register(r) \/ Unregister(r) \/ SweepDone(r) \/ ForceFail(r) \/ WalkEnds(r)
               \/ Unregistered(r) \/ BundlePut(r)
        PROVE  OverrideInv'
    BY <1>1, <2>2 DEF GotoReg, Register, FailTo, Unregister, SweepDone, ForceFail,
       WalkEnds, Unregistered, BundlePut, Rest, match
  <2>3. ASSUME NEW r \in Drv, NEW d \in Dev, WalkFinds(r, d) \/ WalkPasses(r, d)
        PROVE  OverrideInv'
    BY <1>1, <2>3 DEF WalkFinds, WalkPasses, GotoReg, match
  <2>4. ASSUME NEW r \in Drv, rpc[r] = "lock", Passed(at[r], "lock"), Rest PROVE OverrideInv'
    BY <1>1, <2>4 DEF Passed, Rest, match
  <2>5. CASE UNCHANGED <<rpc, at>> /\ Rest
    BY <1>1, <2>5 DEF Rest, match
  <2> QED
    BY <1>5, <1>6, <1>7, <2>1, <2>2, <2>3, <2>4, <2>5 DEF Elsewhere
<1>8. CASE UNCHANGED vars
  BY <1>1, <1>8 DEF vars, match
<1> QED
  BY <1>2, <1>3, <1>4, <1>7, <1>8 DEF DeviceKind

LEMMA TypeStep ==
  ASSUME DriverInv, Step \/ UNCHANGED vars
  PROVE  DriverTypeOK'
<1> USE DEF DriverInv, DriverTypeOK, Array
<1>0. Own \in [Drv -> Dev \cup {NoDev}]
  BY DriverAssumption
<1>1. ASSUME NEW d \in Dev, ProbeStep(d) PROVE DriverTypeOK'
  <2>1. CASE DmaConfigureFails(d) \/ BeginFails(d) \/ CallProbeFail(d)
             \/ \E err \in Failure : PmDomainAttachFails(d, err) \/ ProbeFails(d, err)
    BY <2>1 DEF DmaConfigureFails, BeginFails, CallProbeFail, PmDomainAttachFails, ProbeFails, GiveUp,
       DmaCleanup, Passed, search, match, array
  <2>2. CASE Begin(d) \/ ClkSetDefaults(d) \/ CallProbe(d) \/ ProbeSucceeds(d)
    BY <2>2 DEF Begin, ClkSetDefaults, CallProbe, ProbeSucceeds, Goto, GiveUp, DmaCleanup, Passed,
       search, match, array
  <2> QED
    BY <1>1, <2>1, <2>2 DEF ProbeStep
<1>2. ASSUME NEW d \in Dev, Add(d) \/ Unbind(d) \/ Retry(d) \/ DeviceAttached(d)
      PROVE  DriverTypeOK'
  BY <1>2 DEF Add, AddTo, Unbind, Remove, DmaCleanup, Retry, DeviceAttached, search, match, array
<1>3. ASSUME NEW d \in Dev, RemoveFrom(d), UNCHANGED <<search, array>> PROVE DriverTypeOK'
  BY <1>3 DEF RemoveFrom, Remove, DmaCleanup, Passed, search, array
<1>4. ASSUME NEW d \in Dev, NEW r \in Drv, DeviceAttach(d, r) PROVE DriverTypeOK'
  BY <1>4, MatchedById DEF DeviceAttach, TryToBind, array
<1>5. ASSUME NEW d \in Dev, NEW name \in Overrides[d], driver_override_store(d, name)
      PROVE  DriverTypeOK'
  BY <1>5 DEF driver_override_store, device, search, array
<1>6. ASSUME NEW r \in Drv, CreateBundle(r) PROVE DriverTypeOK'
  BY <1>0, <1>6 DEF CreateBundle, AddTo, GotoReg, device, search, match, array
<1>7. ASSUME NEW r \in Drv, Register(r) \/ Unregister(r) PROVE DriverTypeOK'
  BY <1>7 DEF Register, Unregister, GotoReg, FailTo, Bus, device, search, match, array
<1>8. ASSUME NEW r \in Drv, RegisterStep(r) PROVE DriverTypeOK'
  <2>1. CASE SweepDone(r) \/ ForceFail(r) \/ WalkEnds(r) \/ Unregistered(r) \/ BundlePut(r)
    BY <2>1 DEF SweepDone, ForceFail, WalkEnds, Unregistered, BundlePut, GotoReg, FailTo, Bus,
       device, search, match, array
  <2>2. ASSUME NEW d \in Dev, SweepMatch(r, d) PROVE DriverTypeOK'
    BY <2>2, MatchedById DEF SweepMatch, Visit, GotoReg, device, match, array
  <2>3. ASSUME NEW d \in Dev, WalkFinds(r, d) \/ WalkPasses(r, d) \/ Detach(r, d)
        PROVE  DriverTypeOK'
    BY <2>3 DEF WalkFinds, WalkPasses, Detach, Remove, DmaCleanup, Visit, GotoReg, device, search,
       match, array
  <2> QED
    BY <1>8, <2>1, <2>2, <2>3 DEF RegisterStep
<1>9. ASSUME NEW r \in Drv, SweepTry(r) PROVE DriverTypeOK'
  BY <1>9 DEF SweepTry, TryToBind, GotoReg, Passed, search, match, array
<1>10. ASSUME NEW r \in Drv, BundleDel(r) PROVE DriverTypeOK'
  <2>1. Own[r] \in Dev
    BY <1>0, <1>10 DEF BundleDel, PlaceInv
  <2> QED
    BY <1>3, <1>10, <2>1 DEF BundleDel
<1>11. CASE RegisterDrivers \/ UnregisterDrivers \/ ArrayStep
  <2>1. Len(Array) \in Nat
    BY ArrayIsOwn
  <2>2. UNCHANGED <<at, search, device, match, system>>
    BY <1>11 DEF RegisterDrivers, UnregisterDrivers, ArrayStep, Registered, AllRegistered, RegisterFails,
       UnregisterOne, UnregisteredOne, AllUnregistered, array
  <2>3. i' \in 0 .. Len(Array)' /\ apc' \in {"idle", "add", "done", "rollback", "unregister", "failed"}
    BY <1>11, <2>1 DEF RegisterDrivers, UnregisterDrivers, ArrayStep, Registered, AllRegistered,
       RegisterFails, UnregisterOne, UnregisteredOne, AllUnregistered, array
  <2>4. rpc' \in [Drv -> {"none", "device", "attach", "lock", "trying", "registered", "walk",
                          "on", "reject", "unregister", "undo", "failed"}]
    BY <1>11 DEF RegisterDrivers, UnregisterDrivers, ArrayStep, Registered, AllRegistered,
       RegisterFails, UnregisterOne, UnregisteredOne, AllUnregistered, GotoReg
  <2> QED
    BY <2>2, <2>3, <2>4 DEF search, device, match
<1>12. CASE UNCHANGED vars
  BY <1>12 DEF vars, search, device, match, array
<1> QED
  BY <1>1, <1>2, <1>3, <1>4, <1>5, <1>6, <1>7, <1>8, <1>9, <1>10, <1>11, <1>12
     DEF Step, AttachStep, Del

LEMMA DriverInitInv == Init => DriverInv
<1> SUFFICES ASSUME Init PROVE DriverInv
  OBVIOUS
<1> USE DEF Init
<1>1. Len(Array) \in Nat
  BY ArrayIsOwn
<1>2. DriverTypeOK
  BY <1>1 DEF DriverTypeOK
<1>3. OwnerInv /\ AtInv /\ PlaceInv /\ RaceInv /\ DomainsAreBalanced
  BY DriverAssumption DEF OwnerInv, AtInv, PlaceInv, RaceInv, DomainsAreBalanced
<1>4. ArrayInv
  BY <1>1, ArrayIsOwn DEF ArrayInv, MayBeAt
<1>5. IdInv /\ OverrideInv
  BY DEF IdInv, OverrideInv, Probing
<1> QED
  BY <1>2, <1>3, <1>4, <1>5 DEF DriverInv

LEMMA DriverStep == DriverInv /\ [BindingNext]_bindingVars => DriverInv'
<1> SUFFICES ASSUME DriverInv, [BindingNext]_bindingVars PROVE DriverInv'
  OBVIOUS
<1>1. Step \/ UNCHANGED vars
  BY StepsAreSteps DEF bindingVars, DriverInv, DriverTypeOK
<1>2. DeviceKind \/ Elsewhere \/ UNCHANGED vars
  BY <1>1, Kinds
<1> QED
  BY <1>1, <1>2, TypeStep, OwnerStep, AtStep, PlaceStep, RaceStep, ArrayInvStep, IdStep, OverrideStep
     DEF DriverInv

LEMMA DriverInvariance == BindingSpec => []DriverInv
BY DriverInitInv, DriverStep, PTL DEF BindingSpec, BindingInit

(* The PM domain and the DMA domain of a device are balanced on every way  *)
(* through platform_probe and back, for any devices and drivers.           *)
THEOREM DomainsBalance == BindingSpec => []DomainsAreBalanced
<1>1. DriverInv => DomainsAreBalanced
  BY DEF DriverInv
<1> QED
  BY <1>1, DriverInvariance, PTL

(* A registration that fails, of a driver, a bundle or an array of any     *)
(* length, leaves neither driver nor device nor binding.                   *)
THEOREM FailedLeavesNothing == BindingSpec => []FailedIsGone
<1>1. DriverInv => FailedIsGone
  <2> SUFFICES ASSUME DriverInv PROVE FailedIsGone
    OBVIOUS
  <2>1. Own \in [Drv -> Dev \cup {NoDev}] /\ \A r \in Drv : Own[r] # NoDev => r \in Once
    BY DriverAssumption
  <2>2. ASSUME NEW r \in Drv, rpc[r] = "failed" PROVE Absent(r)
    BY <2>1, <2>2 DEF Absent, Listed, Bus, DriverInv, PlaceInv
  <2>3. ASSUME apc = "failed", NEW k \in 1 .. Len(Array) PROVE Absent(Array[k])
    <3>1. Array[k] \in Drv /\ Own[Array[k]] = NoDev /\ rpc[Array[k]] \in {"none", "failed"}
      BY <2>3, ArrayIsOwn DEF DriverInv, DriverTypeOK, ArrayInv, MayBeAt
    <3> QED
      BY <3>1 DEF Absent, Listed, DriverInv, PlaceInv
  <2> QED
    BY <2>2, <2>3 DEF FailedIsGone
<1> QED
  BY <1>1, DriverInvariance, PTL

(* A probe that was found by an id_table gets an entry of that table, for  *)
(* any tables.                                                             *)
THEOREM EntryIsOfTheTable == BindingSpec => []IdEntryIsOwn
<1>1. DriverInv => IdEntryIsOwn
  BY DEF DriverInv, IdInv, ByTable, IdEntryIsOwn
<1> QED
  BY <1>1, DriverInvariance, PTL

(* Only the walk of __platform_driver_probe ends its registration well.    *)
LEMMA WalkEndsWell ==
  ASSUME DriverInv, DeviceKind \/ Elsewhere, NEW r \in Drv, rpc[r] = "walk", rpc'[r] = "on"
  PROVE  \E d \in Dev : driver[d] = r
<1> USE DEF DriverInv, DriverTypeOK
<1>1. CASE DeviceKind
  BY <1>1 DEF DeviceKind, GivesUp, LetsGo, Comes, Goes, GoesOn, Binds, Passed, GotoReg
<1>2. CASE Elsewhere
  <2>1. CASE RegisterDrivers \/ UnregisterDrivers \/ ArrayStep
    BY <2>1 DEF RegisterDrivers, UnregisterDrivers, ArrayStep, Registered, AllRegistered,
       RegisterFails, UnregisterOne, UnregisteredOne, AllUnregistered, GotoReg
  <2>2. ASSUME NEW s \in Drv,
               \/ GotoReg(s, "failed")
               \/ Register(s) \/ Unregister(s) \/ SweepDone(s) \/ ForceFail(s) \/ WalkEnds(s)
               \/ Unregistered(s) \/ BundlePut(s)
        PROVE  FALSE
    BY <2>2 DEF GotoReg, Register, FailTo, Unregister, SweepDone, ForceFail,
       WalkEnds, Unregistered, BundlePut
  <2>3. ASSUME NEW s \in Drv, NEW d \in Dev,
               SweepMatch(s, d) \/ WalkPasses(s, d) \/ Passed(at[s], "lock")
        PROVE  FALSE
    BY <2>3 DEF SweepMatch, WalkPasses, GotoReg, Passed
  <2>4. ASSUME NEW s \in Drv, NEW d \in Dev, WalkFinds(s, d)
        PROVE  driver[d] = r
    BY <2>4 DEF WalkFinds, GotoReg
  <2>5. ASSUME NEW s \in Drv, Passed(at[s], "lock") PROVE FALSE
    BY <2>5 DEF Passed
  <2> QED
    BY <1>2, <2>1, <2>2, <2>3, <2>4, <2>5 DEF Elsewhere, driver_override_store
<1> QED
  BY <1>1, <1>2

(* When __platform_driver_probe returns, unless another thread has tried   *)
(* the driver meanwhile, a device is bound and no probe runs.              *)
THEOREM ProbeIsDiscarded == BindingSpec => OnceIsOver
<1> DEFINE A == \A r \in Once :
                  rpc[r] = "walk" /\ rpc'[r] = "on" /\ r \notin raced =>
                    /\ \E d \in Dev : driver[d] = r /\ dpc[d] = "bound"
                    /\ \A d \in Dev : driver[d] = r => dpc[d] # "running"
<1>1. DriverInv /\ [BindingNext]_bindingVars => [A]_vars
  <2> SUFFICES ASSUME DriverInv, [BindingNext]_bindingVars, vars' # vars, NEW r \in Once,
                      rpc[r] = "walk", rpc'[r] = "on", r \notin raced
               PROVE  /\ \E d \in Dev : driver[d] = r /\ dpc[d] = "bound"
                      /\ \A d \in Dev : driver[d] = r => dpc[d] # "running"
    OBVIOUS
  <2>1. r \in Drv
    BY DriverAssumption
  <2>2. DeviceKind \/ Elsewhere
    BY StepsAreSteps, Kinds DEF bindingVars, DriverInv, DriverTypeOK
  <2>3. \E d \in Dev : driver[d] = r
    BY <2>1, <2>2, WalkEndsWell
  <2>4. \A d \in Dev : driver[d] = r => dpc[d] = "bound"
    BY <2>1 DEF DriverInv, RaceInv
  <2> QED
    BY <2>3, <2>4
<1> QED
  BY <1>1, DriverInvariance, PTL DEF BindingSpec, OnceIsOver

(* No probe of a driver for __platform_driver_probe can defer: only its    *)
(* clocks and its DMA still do.                                            *)
THEOREM OnlyCoreDefers == BindingSpec => FutileOnlyByCore
<1> DEFINE A == \A d \in Dev : driver[d] \in Once /\ d \in deferred' \ deferred =>
                  dpc[d] \in {"begin", "clk"}
<1>1. DriverInv /\ [BindingNext]_bindingVars => [A]_vars
  <2> SUFFICES ASSUME DriverInv, [BindingNext]_bindingVars, vars' # vars, NEW d \in Dev,
                      driver[d] \in Once, d \in deferred', d \notin deferred
               PROVE  dpc[d] \in {"begin", "clk"}
    OBVIOUS
  <2>1. Step
    BY StepsAreSteps DEF bindingVars, DriverInv, DriverTypeOK
  <2>2. ASSUME NEW e \in Dev, ProbeStep(e) PROVE dpc[d] \in {"begin", "clk"}
    <3>1. CASE DmaConfigureFails(e) \/ ClkSetDefaults(e)
      BY <3>1 DEF DmaConfigureFails, ClkSetDefaults, GiveUp, Goto
    <3>2. CASE BeginFails(e) \/ CallProbeFail(e) \/ Begin(e) \/ CallProbe(e) \/ ProbeSucceeds(e)
      BY <3>2 DEF BeginFails, CallProbeFail, Begin, CallProbe, ProbeSucceeds, GiveUp, Goto
    <3>3. CASE \E err \in Failure : PmDomainAttachFails(e, err) \/ ProbeFails(e, err)
      BY <3>3 DEF PmDomainAttachFails, ProbeFails, GiveUp, Returned
    <3> QED
      BY <2>2, <3>1, <3>2, <3>3 DEF ProbeStep
  <2>3. ASSUME NEW e \in Dev,
               \/ Add(e) \/ Del(e) \/ Unbind(e) \/ Retry(e) \/ AttachStep(e)
               \/ \E name \in Overrides[e] : driver_override_store(e, name)
        PROVE  FALSE
    BY <2>3 DEF Add, AddTo, Del, RemoveFrom, Unbind, Retry, AttachStep, DeviceAttached,
       DeviceAttach, driver_override_store, device
  <2>4. ASSUME NEW r \in Drv,
               CreateBundle(r) \/ Register(r) \/ Unregister(r) \/ SweepTry(r) \/ BundleDel(r)
        PROVE  FALSE
    BY <2>4 DEF CreateBundle, AddTo, Register, Unregister, SweepTry, BundleDel, RemoveFrom, device
  <2>5. ASSUME NEW r \in Drv, RegisterStep(r) PROVE FALSE
    BY <2>5 DEF RegisterStep, SweepDone, ForceFail, WalkEnds, Unregistered, BundlePut, SweepMatch,
       WalkFinds, WalkPasses, Detach, device
  <2>6. CASE RegisterDrivers \/ UnregisterDrivers \/ ArrayStep
    BY <2>6 DEF RegisterDrivers, UnregisterDrivers, ArrayStep, Registered, AllRegistered,
       RegisterFails, UnregisterOne, UnregisteredOne, AllUnregistered, device
  <2> QED
    BY <2>1, <2>2, <2>3, <2>4, <2>5, <2>6 DEF Step
<1> QED
  BY <1>1, DriverInvariance, PTL DEF BindingSpec, FutileOnlyByCore

(* Whoever binds a device, and whenever its override is written, cleared   *)
(* by its removal or found by a driver that waits for its lock: the device *)
(* gets no driver of another name, unless the override was written in the  *)
(* one window between match and lock.                                      *)
THEOREM OverrideIsObeyed == BindingSpec => OverrideDecides
<1> DEFINE A == \A d \in Dev :
                  driver[d] = NoDrv /\ driver'[d] # NoDrv =>
                    \/ driver_override[d] \in {NoName, NameOf[driver'[d]]}
                    \/ rpc[driver'[d]] = "lock" /\ driver'[d] \in rewritten
<1>1. DriverInv /\ [BindingNext]_bindingVars => [A]_vars
  <2> SUFFICES ASSUME DriverInv, [BindingNext]_bindingVars, vars' # vars, NEW d \in Dev,
                      driver[d] = NoDrv, driver'[d] # NoDrv
               PROVE  \/ driver_override[d] \in {NoName, NameOf[driver'[d]]}
                      \/ rpc[driver'[d]] = "lock" /\ driver'[d] \in rewritten
    OBVIOUS
  <2>1. DeviceKind \/ Elsewhere
    BY StepsAreSteps, Kinds DEF bindingVars, DriverInv, DriverTypeOK
  <2>2. PICK e \in Dev, r \in Drv : Binds(e, r)
    BY <2>1 DEF DeviceKind, Elsewhere, GivesUp, LetsGo, Comes, Goes, GoesOn, DriverInv, DriverTypeOK
  <2>3. d = e /\ driver'[d] = r
    BY <2>2 DEF Binds, TryToBind, DriverInv, DriverTypeOK
  <2>4. CASE rpc[r] = "lock" /\ at[r] = d
    BY <2>3, <2>4 DEF DriverInv, OverrideInv
  <2>5. CASE platform_match(d, r)
    BY <2>3, <2>5 DEF platform_match
  <2> QED
    BY <2>2, <2>3, <2>4, <2>5 DEF Binds
<1> QED
  BY <1>1, DriverInvariance, PTL DEF BindingSpec, OverrideDecides

-----------------------------------------------------------------------------
(* The interrupts.                                                         *)

(* A resource that a lookup has written into, or the firmware, belongs to  *)
(* a line that leads somewhere and is mapped; of the fixed numbers only    *)
(* those are mapped that the board code has mapped.                        *)
TableInv ==
  /\ \A k \in enabled : acpi /\ HasResource(k) /\ k \in mapped /\ line(k) # NoCtl
  /\ \A k \in mapped : Fixed(k) => resource(k).ready

InOrder == \A k \in 1 .. Len(irqs) : irqs[k] = k

(* The interrupts whose affinity has been set are mapped.                  *)
Updated(n) == \A k \in 1 .. n : irqs[k] - 1 \in mapped

CallInv ==
  /\ ipc \in {"idle", "failed", "count", "calc"} => ~ ptr /\ ~ desc /\ irqs = <<>>
  /\ ipc = "count" => \A k \in 0 .. num - 1 : Usable(k)
  /\ ipc = "get" =>
       /\ ptr /\ ~ desc /\ nvec \in minvec .. maxvec
       /\ Len(irqs) = num /\ num <= nvec /\ InOrder
  /\ ipc \in {"update", "held"} =>
       /\ ptr /\ (desc <=> ipc = "update") /\ nvec \in minvec .. maxvec
       /\ Len(irqs) = nvec /\ num <= nvec /\ InOrder
       /\ Updated(IF ipc = "update" THEN num ELSE nvec)

IrqInv == IrqTypeOK /\ TableInv /\ CallInv

IrqStep ==
  \/ \E c \in Ctl : Online(c)
  \/ Call \/ CallStep \/ Release \/ Forget
  \/ UNCHANGED irqVars

LEMMA IrqSteps == [BindingNext]_bindingVars => IrqStep
BY DEF BindingNext, bindingVars, IrqStep, ProbeReturns

(* The device is one that there may be; without a firmware node its        *)
(* numbers are fixed.                                                      *)
LEMMA DeviceShape ==
  ASSUME dev \in Devices
  PROVE  /\ dev.fwnode \in {"of", "acpi", "none"} /\ Len(dev.res) \in Nat
         /\ dev.fwnode = "none" => \A k \in Nat : line(k) = NoCtl
         /\ \A k \in Nat : HasResource(k) =>
              resource(k) \in [start : Nat, trigger : BOOLEAN, ready : BOOLEAN]
<1> DEFINE R == [start : Nat, trigger : BOOLEAN, ready : BOOLEAN]
<1>1. /\ dev.fwnode \in {"of", "acpi", "none"}
      /\ dev.fwnode = "none" => dev.line = <<>>
      /\ dev.res \in Seq(R)
  BY IrqAssumption
<1>2. Len(dev.res) \in Nat
      /\ \A k \in 1 .. Len(dev.res) : dev.res[k] \in R
  <2> HIDE DEF R
  <2> QED
    BY <1>1
<1>3. dev.fwnode = "none" => \A k \in Nat : line(k) = NoCtl
  <2>1. Len(<<>>) = 0
    OBVIOUS
  <2> QED
    BY <1>1, <2>1 DEF line
<1>4. \A k \in Nat : k < Len(dev.res) => k + 1 \in 1 .. Len(dev.res)
  BY <1>2
<1> QED
  BY <1>1, <1>2, <1>3, <1>4 DEF HasResource, resource

(* An interrupt that is found has its own number and is a usable one.      *)
LEMMA FoundIsUsable ==
  ASSUME IrqTypeOK, TableInv, NEW k \in Nat, IsIrq(platform_get_irq_optional(k))
  PROVE  /\ platform_get_irq_optional(k) = k + 1
         /\ Usable(k)
         /\ Asks(k) => Controller(k) \in Ctl
<1>0. NoCtl \notin Ctl /\ online \subseteq Ctl
  BY IrqAssumption DEF IrqTypeOK
<1>1. CASE Asks(k)
  <2>1. platform_get_irq_optional(k) = FromController(k)
    BY <1>1 DEF platform_get_irq_optional
  <2>2. Controller(k) \in Ctl /\ FromController(k) = k + 1
    BY <1>0, <2>1 DEF FromController, IsIrq, ENXIO, EPROBE_DEFER
  <2>3. Usable(k)
    BY <1>0, <1>1, <2>2 DEF Asks, Controller, Usable, Fixed, acpi
  <2> QED
    BY <2>1, <2>2, <2>3
<1>2. CASE ~ Asks(k) /\ HasResource(k)
  <2>1. platform_get_irq_optional(k) = FromResource(k)
    BY <1>2 DEF platform_get_irq_optional
  <2>2. /\ FromResource(k) = k + 1
        /\ ~ (resource(k).trigger /\ k \notin mapped)
        /\ acpi \/ resource(k).start # 0
    BY <2>1 DEF FromResource, IsIrq, ENXIO
  <2>3. ASSUME acpi PROVE Usable(k)
    BY <1>2, <2>3 DEF Asks, TableInv, Usable, Fixed
  <2>4. ASSUME ~ acpi PROVE Usable(k)
    <3>1. Fixed(k)
      BY <1>2, <2>4, DeviceShape DEF IrqTypeOK, Asks, Fixed, acpi
    <3> QED
      BY <2>2, <2>4, <3>1 DEF TableInv, Usable
  <2> QED
    BY <1>2, <2>1, <2>2, <2>3, <2>4
<1>3. CASE ~ Asks(k) /\ ~ HasResource(k)
  BY <1>3 DEF platform_get_irq_optional, IsIrq, ENXIO
<1> QED
  BY <1>1, <1>2, <1>3

(* An interrupt that is not found, and need not be waited for, is not      *)
(* usable, or it is a fixed number that has been released.                 *)
LEMMA AbsentIsUnusable ==
  ASSUME IrqTypeOK, TableInv, NEW k \in Nat, ~ IsIrq(platform_get_irq_optional(k)),
         platform_get_irq_optional(k) # EPROBE_DEFER
  PROVE  ~ Usable(k) \/ (Disposed(k) /\ resource(k).trigger)
<1>1. CASE Asks(k)
  <2>1. platform_get_irq_optional(k) = FromController(k)
    BY <1>1 DEF platform_get_irq_optional
  <2>2. Controller(k) = NoCtl
    BY <2>1 DEF FromController, IsIrq
  <2> QED
    BY <1>1, <2>2 DEF Asks, Controller, Usable, Fixed, acpi
<1>2. CASE ~ Asks(k) /\ HasResource(k)
  <2>1. platform_get_irq_optional(k) = FromResource(k)
    BY <1>2 DEF platform_get_irq_optional
  <2>2. \/ resource(k).trigger /\ k \notin mapped
        \/ ~ acpi /\ resource(k).start = 0
    BY <2>1 DEF FromResource, IsIrq
  <2>3. ~ acpi
    BY <1>2, <2>2 DEF Asks, TableInv
  <2>4. Fixed(k)
    BY <1>2, <2>3, DeviceShape DEF IrqTypeOK, Asks, Fixed, acpi
  <2> QED
    BY <2>2, <2>3, <2>4 DEF Usable, Disposed
<1>3. CASE ~ Asks(k) /\ ~ HasResource(k)
  BY <1>3, DeviceShape DEF IrqTypeOK, Asks, Usable, Fixed, acpi
<1> QED
  BY <1>1, <1>2, <1>3

LEMMA IrqInitInv == IrqInit => IrqInv
<1> SUFFICES ASSUME IrqInit PROVE IrqInv
  OBVIOUS
<1>0. dev \in Devices /\ Len(dev.res) \in Nat
  BY DeviceShape DEF IrqInit
<1>1. mapped \subseteq 0 .. Len(dev.res) - 1 /\ enabled \subseteq 0 .. Len(dev.res) - 1
  BY DEF IrqInit
<1>2. IrqTypeOK
  <2>1. irqs \in Seq(Nat)
    BY DEF IrqInit
  <2>2. mapped \subseteq Nat /\ enabled \subseteq Nat /\ online \subseteq Ctl
    BY <1>0, <1>1 DEF IrqInit
  <2>3. ret \in {0, ENXIO, EPROBE_DEFER} /\ ptr \in BOOLEAN /\ desc \in BOOLEAN
    BY DEF IrqInit
  <2> QED
    BY <1>0, <2>1, <2>2, <2>3 DEF IrqTypeOK, IrqInit
<1>3. TableInv
  <2>1. ASSUME NEW k \in enabled PROVE acpi /\ HasResource(k) /\ k \in mapped /\ line(k) # NoCtl
    BY <1>0, <1>1, IrqAssumption DEF IrqInit, HasResource
  <2>2. ASSUME NEW k \in mapped, Fixed(k) PROVE resource(k).ready
    BY <2>2 DEF IrqInit, Fixed
  <2> QED
    BY <2>1, <2>2 DEF TableInv
<1>4. CallInv
  BY DEF IrqInit, CallInv
<1> QED
  BY <1>2, <1>3, <1>4 DEF IrqInv

(* What a device has does not change.                                      *)
LEMMA SameDevice ==
  ASSUME dev' = dev, NEW k
  PROVE  /\ acpi' = acpi /\ line(k)' = line(k) /\ resource(k)' = resource(k)
         /\ (HasResource(k)' <=> HasResource(k)) /\ (Fixed(k)' <=> Fixed(k))
         /\ (Usable(k)' <=> Usable(k))
BY DEF acpi, line, resource, HasResource, Fixed, Usable

(* A lookup adds the interrupt it has found to the tables.                 *)
LEMMA Acquired ==
  ASSUME IrqInv, NEW k \in Nat, IsIrq(platform_get_irq_optional(k)), Acquire(k), dev' = dev
  PROVE  /\ mapped' \subseteq Nat /\ enabled' \subseteq Nat
         /\ TableInv'
<1>0. NoCtl \notin Ctl /\ mapped \subseteq Nat /\ enabled \subseteq Nat /\ TableInv
  BY IrqAssumption DEF IrqInv, IrqTypeOK
<1>1. mapped' \subseteq Nat /\ enabled' \subseteq Nat
  BY <1>0 DEF Acquire
<1>2. Asks(k) => Controller(k) \in Ctl
  BY FoundIsUsable DEF IrqInv
<1>3. ASSUME NEW n \in enabled' PROVE acpi /\ HasResource(n) /\ n \in mapped' /\ line(n) # NoCtl
  <2>1. CASE n \in enabled
    BY <1>0, <2>1 DEF TableInv, Acquire
  <2>2. CASE n \notin enabled
    <3>1. n = k /\ acpi /\ HasResource(k) /\ Asks(k)
      BY <1>3, <2>2 DEF Acquire, Asks
    <3> QED
      BY <1>0, <1>2, <3>1 DEF Acquire, Controller
  <2> QED
    BY <2>1, <2>2
<1>4. ASSUME NEW n \in mapped', Fixed(n) PROVE resource(n).ready
  <2>1. ~ Asks(n)
    BY <1>4 DEF Fixed, Asks
  <2> QED
    BY <1>0, <1>4, <2>1 DEF Acquire, TableInv
<1> QED
  BY <1>1, <1>3, <1>4, SameDevice DEF TableInv

TableTypes ==
  /\ dev \in Devices /\ online \subseteq Ctl
  /\ mapped \subseteq Nat /\ enabled \subseteq Nat

CallTypes ==
  /\ ipc \in {"idle", "count", "calc", "get", "update", "held", "failed"}
  /\ num \in Nat /\ nvec \in Nat

MemoryTypes == ret \in {0, ENXIO, EPROBE_DEFER} /\ ptr \in BOOLEAN /\ desc \in BOOLEAN

Others == TableTypes /\ CallTypes /\ MemoryTypes

LEMMA IrqTypeStep ==
  ASSUME IrqInv, IrqStep
  PROVE  IrqTypeOK'
<1>0. minvec \in Nat /\ maxvec \in Nat /\ minvec <= maxvec
  BY IrqAssumption
<1>a. Others /\ irqs \in Seq(Nat) /\ (Others' /\ irqs' \in Seq(Nat) => IrqTypeOK')
  BY DEF IrqInv, IrqTypeOK, Others, TableTypes, CallTypes, MemoryTypes
<1>b. <<>> \in Seq(Nat)
  OBVIOUS
<1>1. CASE (\E c \in Ctl : Online(c)) \/ Call \/ Release \/ Forget \/ UNCHANGED irqVars
  <2>1. irqs' \in {irqs, <<>>}
    BY <1>1 DEF Online, Call, Release, Forget, Back, call, irqVars
  <2>2. Others'
    <3>1. TableTypes'
      BY <1>1, <1>a DEF Others, TableTypes, Online, Call, Release, Forget, Back, hardware, tables, call, irqVars
    <3>2. CallTypes'
      BY <1>1, <1>a DEF Others, CallTypes, Online, Call, Release, Forget, Back, hardware, tables, call, irqVars
    <3>3. MemoryTypes'
      BY <1>1, <1>a DEF Others, MemoryTypes, Online, Call, Release, Forget, Back, hardware, tables, call, irqVars
    <3> QED
      BY <3>1, <3>2, <3>3 DEF Others
  <2> QED
    BY <1>a, <1>b, <2>1, <2>2
<1>2. CASE Count
  <2>1. /\ IsIrq(platform_get_irq_optional(num)) /\ Acquire(num) /\ num' = num + 1
        /\ UNCHANGED <<dev, online, ipc, nvec, irqs, ret, ptr, desc>>
    BY <1>2 DEF Count, hardware
  <2>2. mapped' \subseteq Nat /\ enabled' \subseteq Nat
    BY <1>a, <2>1, Acquired DEF Others, CallTypes
  <2>3. Others'
    BY <1>a, <2>1, <2>2 DEF Others, TableTypes, CallTypes, MemoryTypes
  <2> QED
    BY <1>a, <2>1, <2>3
<1>3. CASE CountEnds \/ CreateMasks \/ Update \/ UpdateFails \/ Return
  <2>1. irqs' \in {irqs, <<>>}
    BY <1>3 DEF CountEnds, CreateMasks, Update, UpdateFails, Return, Fail
  <2>2. Others'
    <3>1. TableTypes'
      BY <1>3, <1>a DEF Others, TableTypes, CountEnds, CreateMasks, Update, UpdateFails, Return, Fail, hardware, tables
    <3>2. CallTypes'
      BY <1>3, <1>a DEF Others, CallTypes, CountEnds, CreateMasks, Update, UpdateFails, Return, Fail, hardware, tables
    <3>3. MemoryTypes'
      BY <1>3, <1>a DEF Others, MemoryTypes, CountEnds, CreateMasks, Update, UpdateFails, Return, Fail, hardware, tables
    <3> QED
      BY <3>1, <3>2, <3>3 DEF Others
  <2> QED
    BY <1>a, <1>b, <2>1, <2>2
<1>4. CASE Calc
  <2>1. irqs' \in {irqs, <<>>}
    BY <1>4 DEF Calc, Fail
  <2>2. Others'
    <3>1. TableTypes'
      BY <1>0, <1>4, <1>a DEF Others, TableTypes, Calc, Fail, hardware, tables
    <3>2. CallTypes'
      BY <1>0, <1>4, <1>a DEF Others, CallTypes, Calc, Fail, hardware, tables
    <3>3. MemoryTypes'
      BY <1>0, <1>4, <1>a DEF Others, MemoryTypes, Calc, Fail, hardware, tables
    <3> QED
      BY <3>1, <3>2, <3>3 DEF Others
  <2> QED
    BY <1>a, <1>b, <2>1, <2>2
<1>5. CASE Get
  <2>1. CASE IsIrq(platform_get_irq_optional(num))
    <3>1. /\ Acquire(num) /\ irqs' = Append(irqs, platform_get_irq_optional(num))
          /\ num' = num + 1 /\ UNCHANGED <<dev, online, ipc, nvec, ret, ptr, desc>>
      BY <1>5, <2>1 DEF Get, hardware
    <3>2. platform_get_irq_optional(num) \in Nat
      BY <1>a, <2>1, FoundIsUsable DEF Others, CallTypes, IrqInv
    <3>3. irqs' \in Seq(Nat)
      BY <1>a, <3>1, <3>2
    <3>4. mapped' \subseteq Nat /\ enabled' \subseteq Nat
      BY <1>a, <2>1, <3>1, Acquired DEF Others, CallTypes
    <3>5. Others'
      BY <1>a, <3>1, <3>4 DEF Others, TableTypes, CallTypes, MemoryTypes
    <3> QED
      BY <1>a, <3>3, <3>5
  <2>2. CASE ~ IsIrq(platform_get_irq_optional(num))
    <3>1. platform_get_irq_optional(num) \in {ENXIO, EPROBE_DEFER}
      BY <1>a, <2>2 DEF platform_get_irq_optional, FromController, FromResource, IsIrq, Others, CallTypes
    <3>2. irqs' = <<>>
      BY <1>5, <2>2 DEF Get, Fail
    <3>3. Others'
      <4>1. TableTypes'
        BY <1>5, <1>a, <2>2, <3>1 DEF Others, TableTypes, Get, Fail, hardware, tables
      <4>2. CallTypes'
        BY <1>5, <1>a, <2>2, <3>1 DEF Others, CallTypes, Get, Fail, hardware, tables
      <4>3. MemoryTypes'
        BY <1>5, <1>a, <2>2, <3>1 DEF Others, MemoryTypes, Get, Fail, hardware, tables
      <4> QED
        BY <4>1, <4>2, <4>3 DEF Others
    <3> QED
      BY <1>a, <1>b, <3>2, <3>3
  <2> QED
    BY <2>1, <2>2
<1> QED
  BY <1>1, <1>2, <1>3, <1>4, <1>5 DEF IrqStep, CallStep

LEMMA TableStep ==
  ASSUME IrqInv, IrqStep
  PROVE  TableInv'
<1> USE DEF IrqInv
<1>0. num \in Nat
  BY DEF IrqTypeOK
<1>1. ASSUME UNCHANGED <<dev, tables>> PROVE TableInv'
  BY <1>1, SameDevice DEF TableInv, tables
<1>2. CASE (\E c \in Ctl : Online(c)) \/ Call \/ Forget \/ UNCHANGED irqVars
  BY <1>1, <1>2 DEF Online, Call, Forget, hardware, irqVars
<1>3. CASE Count
  BY <1>0, <1>3, Acquired DEF Count, hardware
<1>4. CASE CountEnds \/ Calc \/ CreateMasks \/ Update \/ UpdateFails \/ Return
  BY <1>1, <1>4 DEF CountEnds, Calc, CreateMasks, Update, UpdateFails, Return, hardware
<1>5. CASE Get
  BY <1>0, <1>1, <1>5, Acquired DEF Get, hardware
<1>6. CASE Release
  <2>1. dev' = dev /\ mapped' = mapped \ Vectors
    BY <1>6 DEF Release, hardware
  <2>2. enabled' = enabled \ Vectors
    BY <1>6 DEF Release, TableInv
  <2> QED
    BY <2>1, <2>2, SameDevice DEF TableInv
<1> QED
  BY <1>2, <1>3, <1>4, <1>5, <1>6 DEF IrqStep, CallStep

LEMMA CallInvStep ==
  ASSUME IrqInv, IrqStep
  PROVE  CallInv'
<1> USE DEF CallInv
<1>0. /\ CallInv /\ num \in Nat /\ nvec \in Nat /\ irqs \in Seq(Nat) /\ Len(irqs) \in Nat
      /\ minvec \in Nat /\ maxvec \in Nat /\ minvec <= maxvec
  BY IrqAssumption DEF IrqInv, IrqTypeOK
<1>a. ASSUME Fail(ENXIO) \/ Fail(EPROBE_DEFER) \/ \E err : Fail(err) PROVE CallInv'
  BY <1>a DEF Fail
<1>1. CASE (\E c \in Ctl : Online(c)) \/ UNCHANGED irqVars
  <2>1. UNCHANGED <<dev, mapped, ipc, num, nvec, irqs, ptr, desc>>
    BY <1>1 DEF Online, irqVars, hardware, tables, call
  <2> QED
    BY <1>0, <2>1, SameDevice DEF InOrder, Updated
<1>2. CASE Call
  BY <1>0, <1>2 DEF Call
<1>3. CASE Count
  <2>1. Usable(num)
    BY <1>0, <1>3, FoundIsUsable DEF Count, IrqInv
  <2>2. /\ ipc = "count" /\ num' = num + 1 /\ dev' = dev
        /\ UNCHANGED <<ipc, irqs, ptr, desc>>
    BY <1>3 DEF Count, hardware
  <2>3. \A k \in 0 .. num' - 1 : Usable(k)'
    <3> SUFFICES ASSUME NEW k \in 0 .. num PROVE Usable(k)
      BY <1>0, <2>2, SameDevice
    <3> QED
      BY <1>0, <2>1, <2>2
  <2> QED
    BY <1>0, <2>2, <2>3
<1>4. CASE CountEnds
  <2>1. CASE ipc' = "calc" /\ UNCHANGED <<num, nvec, irqs, ret, ptr, desc>>
    BY <1>0, <1>4, <2>1 DEF CountEnds
  <2> QED
    BY <1>4, <1>a, <2>1 DEF CountEnds
<1>5. CASE Calc
  <2>1. PICK v \in 0 .. num :
          \/ Fail(ENXIO)
          \/ /\ v >= minvec
             /\ ipc' = "get" /\ ptr' = TRUE /\ num' = 0
             /\ nvec' = IF v > maxvec THEN maxvec ELSE v
             /\ UNCHANGED <<irqs, ret, desc>>
    BY <1>0, <1>5 DEF Calc
  <2>2. ASSUME v >= minvec, ipc' = "get", ptr' = TRUE, num' = 0,
               nvec' = IF v > maxvec THEN maxvec ELSE v, irqs' = irqs, desc' = desc
        PROVE  CallInv'
    <3>1. irqs' = <<>> /\ ~ desc'
      BY <1>0, <1>5, <2>2 DEF Calc
    <3>2. nvec' \in minvec .. maxvec /\ num' <= nvec'
      BY <1>0, <2>2
    <3>3. Len(irqs') = num' /\ InOrder'
      BY <2>2, <3>1 DEF InOrder
    <3> QED
      BY <2>2, <3>1, <3>2, <3>3
  <2> QED
    BY <1>a, <2>1, <2>2
<1>6. CASE Get
  <2>1. CASE IsIrq(platform_get_irq_optional(num))
    <3>1. /\ ipc = "get" /\ num < nvec /\ Acquire(num) /\ dev' = dev
          /\ irqs' = Append(irqs, num + 1) /\ num' = num + 1
          /\ UNCHANGED <<ipc, nvec, ptr, desc>>
      BY <1>0, <1>6, <2>1, FoundIsUsable DEF Get, hardware, IrqInv
    <3>2. Len(irqs) = num /\ Len(irqs') = num + 1 /\ irqs'[num + 1] = num + 1
          /\ \A k \in 1 .. num : irqs'[k] = irqs[k]
      BY <1>0, <3>1
    <3>3. InOrder'
      BY <1>0, <3>1, <3>2 DEF InOrder
    <3>4. num' <= nvec' /\ nvec' \in minvec .. maxvec /\ Len(irqs') = num'
      BY <1>0, <3>1, <3>2
    <3>5. ptr' /\ ~ desc' /\ ipc' = "get"
      BY <1>0, <3>1
    <3> QED
      BY <3>3, <3>4, <3>5
  <2>2. CASE ~ IsIrq(platform_get_irq_optional(num))
    BY <1>6, <1>a, <2>2 DEF Get
  <2> QED
    BY <2>1, <2>2
<1>7. CASE CreateMasks
  <2>1. CASE ipc' = "update" /\ desc' = TRUE /\ num' = 0 /\ UNCHANGED <<nvec, irqs, ret, ptr>>
    BY <1>0, <1>7, <2>1 DEF CreateMasks, InOrder, Updated
  <2> QED
    BY <1>7, <1>a, <2>1 DEF CreateMasks
<1>8. CASE UpdateFails
  BY <1>8, <1>a DEF UpdateFails
<1>9. CASE Update
  <2>1. /\ ipc = "update" /\ num < nvec /\ irqs[num + 1] - 1 \in mapped
        /\ num' = num + 1 /\ UNCHANGED <<mapped, ipc, nvec, irqs, ptr, desc>>
    BY <1>9 DEF Update, tables
  <2>2. Updated(num)
    BY <1>0, <2>1
  <2>3. Updated(num)' /\ InOrder'
    <3> SUFFICES ASSUME NEW k \in 1 .. num + 1 PROVE irqs[k] - 1 \in mapped
      BY <1>0, <2>1 DEF InOrder, Updated
    <3> QED
      BY <1>0, <2>1, <2>2 DEF Updated
  <2> QED
    BY <1>0, <2>1, <2>3
<1>10. CASE Return
  BY <1>0, <1>10 DEF Return, InOrder, Updated, tables
<1>11. CASE Release \/ Forget
  BY <1>0, <1>11 DEF Release, Forget, Back
<1> QED
  BY <1>1, <1>2, <1>3, <1>4, <1>5, <1>6, <1>7, <1>8, <1>9, <1>10, <1>11 DEF IrqStep, CallStep

LEMMA IrqInvariance == BindingSpec => []IrqInv
<1>1. BindingInit => IrqInv
  BY IrqInitInv DEF BindingInit
<1>2. IrqInv /\ [BindingNext]_bindingVars => IrqInv'
  BY IrqSteps, IrqTypeStep, TableStep, CallInvStep DEF IrqInv
<1> QED
  BY <1>1, <1>2, PTL DEF BindingSpec

(* devm_platform_get_irqs_affinity keeps nothing when it fails, and gives  *)
(* a set of interrupts within its bounds otherwise, for any bounds, any    *)
(* device and any order in which the controllers come.                     *)
THEOREM AffinityIsAllOrNothing == BindingSpec => []GetsWhatItMay
<1>1. IrqInv => GetsWhatItMay
  <2> SUFFICES ASSUME IrqInv PROVE GetsWhatItMay
    OBVIOUS
  <2>1. CASE ipc \in {"idle", "failed"}
    BY <2>1 DEF IrqInv, CallInv, GetsWhatItMay
  <2>2. CASE ipc = "held"
    BY <2>2 DEF IrqInv, CallInv, InOrder, Updated, GetsWhatItMay
  <2> QED
    BY <2>1, <2>2 DEF GetsWhatItMay
<1> QED
  BY <1>1, IrqInvariance, PTL

(* The interrupts it counts are those of the device before the first that  *)
(* can never be had, whatever earlier probes have mapped and released, for *)
(* any device: a later count can only differ at a fixed number whose       *)
(* trigger type has to be set and whose mapping has been released.         *)
THEOREM CountIsOfTheDevice == BindingSpec => CountsTheDevice
<1> DEFINE A == ipc = "count" /\ ipc' = "calc" =>
                  /\ \A k \in 0 .. num - 1 : Usable(k)
                  /\ ~ Usable(num) \/ (Disposed(num) /\ resource(num).trigger)
<1>1. IrqInv /\ [BindingNext]_bindingVars => [A]_irqVars
  <2> SUFFICES ASSUME IrqInv, IrqStep, ipc = "count", ipc' = "calc"
               PROVE  /\ \A k \in 0 .. num - 1 : Usable(k)
                      /\ ~ Usable(num) \/ (Disposed(num) /\ resource(num).trigger)
    BY IrqSteps
  <2>1. CountEnds
    BY DEF IrqStep, Online, Call, CallStep, Count, CountEnds, Calc, Get, CreateMasks, Update,
       UpdateFails, Return, Release, Forget, call, irqVars
  <2>2. /\ num \in Nat /\ ~ IsIrq(platform_get_irq_optional(num))
        /\ platform_get_irq_optional(num) # EPROBE_DEFER
    BY <2>1 DEF CountEnds, Fail, IrqInv, IrqTypeOK
  <2> QED
    BY <2>2, AbsentIsUnusable DEF IrqInv, CallInv
<1> QED
  BY <1>1, IrqInvariance, PTL DEF BindingSpec, CountsTheDevice

-----------------------------------------------------------------------------
(* The two components together.                                            *)

Far(d) == dpc[d] \in {"clk", "pm", "running", "bound"}

(* platform_dma_configure is called for the devices of the system alone.   *)
InSystem == \A d \in Dev : Far(d) => d \in system.dev

LEMMA BeginsInSystem ==
  ASSUME DriverInv, BindingNext, NEW d \in Dev, dpc[d] = "begin", dpc'[d] = "clk"
  PROVE  d \in system.dev
<1> USE DEF DriverInv, DriverTypeOK
<1>1. system.dev \subseteq Dev /\ system.drv \subseteq Drv
  BY DriverAssumption
<1>2. ASSUME NEW e \in system.dev, ProbeStep(e) PROVE d \in system.dev
  BY <1>1, <1>2, ProbeKinds DEF GivesUp, GoesOn
<1>3. ASSUME NEW e \in Dev, dpc' = [dpc EXCEPT ![e] = "idle"] \/ dpc' = [dpc EXCEPT ![e] = "off"]
                            \/ dpc' = [dpc EXCEPT ![e] = "begin"]
      PROVE  FALSE
  BY <1>3
<1>4. dpc' # dpc
  OBVIOUS
<1>5. CASE Next
  <2>1. ASSUME NEW e \in system.dev,
               \/ Add(e) \/ Del(e) \/ Unbind(e) \/ Retry(e) \/ AttachStep(e)
               \/ \E name \in Overrides[e] : driver_override_store(e, name)
        PROVE  FALSE
    BY <1>1, <1>3, <1>4, <2>1 DEF Add, AddTo, Del, RemoveFrom, Unbind, Retry, AttachStep, DeviceAttached,
       DeviceAttach, TryToBind, driver_override_store, device
  <2>2. ASSUME NEW r \in system.drv, CreateBundle(r) \/ BundleDel(r) PROVE FALSE
    <3>1. Own[r] \in Dev
      BY <1>1, <2>2, DriverAssumption DEF CreateBundle, BundleDel, PlaceInv
    <3> QED
      BY <1>3, <1>4, <2>2, <3>1 DEF CreateBundle, AddTo, BundleDel, RemoveFrom, device
  <2>3. ASSUME NEW r \in system.drv, Register(r) \/ Unregister(r) \/ RegisterStep(r) PROVE FALSE
    BY <1>1, <1>3, <1>4, <2>3 DEF Register, Unregister, RegisterStep, SweepDone, ForceFail, WalkEnds, Unregistered,
       BundlePut, SweepMatch, WalkFinds, WalkPasses, Detach, device
  <2>4. ASSUME NEW r \in system.drv, SweepTry(r) PROVE FALSE
    <3>1. at[r] \in Dev
      BY <1>1, <2>4 DEF SweepTry, AtInv
    <3> QED
      BY <1>3, <1>4, <2>4, <3>1 DEF SweepTry, TryToBind
  <2>5. CASE RegisterDrivers \/ UnregisterDrivers \/ ArrayStep
    BY <1>4, <2>5 DEF RegisterDrivers, UnregisterDrivers, ArrayStep, Registered, AllRegistered,
       RegisterFails, UnregisterOne, UnregisteredOne, AllUnregistered, device
  <2> QED
    BY <1>2, <1>5, <2>1, <2>2, <2>3, <2>4, <2>5 DEF Next
<1>6. CASE CallProbe(IrqDev) \/ ProbeSucceeds(IrqDev)
  BY <1>6, BindingAssumption DEF CallProbe, ProbeSucceeds, Goto
<1>7. ASSUME NEW err \in Failure, ProbeReturns(err) PROVE FALSE
  BY <1>3, <1>7, BindingAssumption DEF ProbeReturns, ProbeFails, GiveUp
<1>8. CASE UNCHANGED vars
  BY <1>4, <1>8 DEF vars, device
<1> QED
  BY <1>5, <1>6, <1>7, <1>8 DEF BindingNext

(* A device does not skip what platform_probe does first.                  *)
LEMMA Starts ==
  ASSUME DriverInv, BindingNext, NEW d \in Dev, ~ Far(d), Far(d)'
  PROVE  dpc[d] = "begin" /\ dpc'[d] = "clk"
<1> USE DEF DriverInv, DriverTypeOK, Far
<1>1. dpc' # dpc
  OBVIOUS
<1>2. DeviceKind
  BY <1>1, StepsAreSteps, Kinds DEF Elsewhere, vars, device
<1>3. PICK e \in Dev : \/ GivesUp(e) \/ LetsGo(e) \/ Comes(e) \/ Goes(e)
                       \/ \E to \in {"clk", "pm", "running", "bound"} : GoesOn(e, to)
                       \/ \E r \in Drv : Binds(e, r)
  BY <1>2 DEF DeviceKind
<1>4. CASE GivesUp(e) \/ LetsGo(e) \/ Comes(e) \/ Goes(e) \/ \E r \in Drv : Binds(e, r)
  BY <1>4 DEF GivesUp, LetsGo, Comes, Goes, Binds, TryToBind
<1>5. ASSUME NEW to \in {"clk", "pm", "running", "bound"}, GoesOn(e, to)
      PROVE  dpc[d] = "begin" /\ dpc'[d] = "clk"
  BY <1>5 DEF GoesOn
<1> QED
  BY <1>3, <1>4, <1>5

LEMMA SystemStays ==
  ASSUME DriverInv, Step \/ UNCHANGED vars
  PROVE  system' = system
<1>1. CASE DeviceKind
  BY <1>1 DEF DeviceKind, GivesUp, LetsGo, Comes, Goes, GoesOn, Binds, Rest, array
<1>2. CASE Elsewhere
  BY <1>2 DEF Elsewhere, Rest, array, RegisterDrivers, UnregisterDrivers, ArrayStep, Registered,
     AllRegistered, RegisterFails, UnregisterOne, UnregisteredOne, AllUnregistered,
     driver_override_store, Register, Unregister, SweepDone, ForceFail, WalkEnds, Unregistered,
     BundlePut, SweepMatch, WalkFinds, WalkPasses
<1>3. CASE UNCHANGED vars
  BY <1>3 DEF vars, array
<1> QED
  BY <1>1, <1>2, <1>3, Kinds

LEMMA SystemStep == DriverInv /\ InSystem /\ [BindingNext]_bindingVars => InSystem'
<1> SUFFICES ASSUME DriverInv, InSystem, BindingNext, NEW d \in Dev, Far(d)' PROVE d \in system'.dev
  BY DEF InSystem, bindingVars, vars, device, array, Far
<1>1. system' = system
  BY StepsAreSteps, SystemStays DEF DriverInv, DriverTypeOK
<1>2. CASE Far(d)
  BY <1>1, <1>2 DEF InSystem
<1>3. CASE ~ Far(d)
  BY <1>1, <1>3, Starts, BeginsInSystem
<1> QED
  BY <1>2, <1>3

LEMMA SystemInvariance == BindingSpec => []InSystem
<1>1. BindingInit => InSystem
  BY DEF BindingInit, Init, InSystem, Far
<1> QED
  BY <1>1, SystemStep, DriverInvariance, PTL DEF BindingSpec

(* The interrupts do not disturb the drivers: whatever happens to a        *)
(* driver whose probe asks for interrupts happens in PlatformDriver, where *)
(* a probe just succeeds or fails.                                         *)
THEOREM BindingImplementsDriver == BindingSpec => Spec
<1>1. BindingInit => Init
  BY DEF BindingInit
<1>2. DriverInv /\ InSystem /\ [BindingNext]_bindingVars => [Next]_vars
  <2> SUFFICES ASSUME DriverInv, InSystem, BindingNext PROVE Next \/ UNCHANGED vars
    BY DEF bindingVars, vars
  <2>1. CASE CallProbe(IrqDev) \/ ProbeSucceeds(IrqDev) \/ \E err \in Failure : ProbeReturns(err)
    <3>1. ProbeStep(IrqDev)
      BY <2>1 DEF ProbeReturns, ProbeStep
    <3>2. dpc[IrqDev] \in {"pm", "running"}
      BY <2>1 DEF CallProbe, ProbeSucceeds, ProbeReturns, ProbeFails
    <3>3. IrqDev \in system.dev
      BY <3>2, BindingAssumption DEF InSystem, Far
    <3> QED
      BY <3>1, <3>3 DEF Next
  <2> QED
    BY <2>1 DEF BindingNext
<1> QED
  BY <1>1, <1>2, DriverInvariance, SystemInvariance, PTL DEF BindingSpec, Spec

(* Interrupts are asked for by the probe, and the driver is bound with all *)
(* of them.                                                                *)
Coupled ==
  /\ ipc = "idle" <=> dpc[IrqDev] \notin {"running", "bound"}
  /\ dpc[IrqDev] = "bound" => ipc = "held"

LEMMA BoundFromProbe ==
  ASSUME DriverInv, Step \/ UNCHANGED vars, NEW d \in Dev, dpc'[d] \in {"bound", "running"},
         dpc[d] \notin {"bound", "running"}
  PROVE  dpc'[d] = "running"
<1> USE DEF DriverInv, DriverTypeOK
<1>1. dpc' # dpc
  OBVIOUS
<1>2. DeviceKind
  BY <1>1, Kinds DEF Elsewhere, vars, device
<1>3. PICK e \in Dev : \/ GivesUp(e) \/ LetsGo(e) \/ Comes(e) \/ Goes(e)
                       \/ \E to \in {"clk", "pm", "running", "bound"} : GoesOn(e, to)
                       \/ \E r \in Drv : Binds(e, r)
  BY <1>2 DEF DeviceKind
<1>4. CASE GivesUp(e) \/ LetsGo(e) \/ Comes(e) \/ Goes(e) \/ \E r \in Drv : Binds(e, r)
  BY <1>4 DEF GivesUp, LetsGo, Comes, Goes, Binds, TryToBind
<1>5. ASSUME NEW to \in {"clk", "pm", "running", "bound"}, GoesOn(e, to)
      PROVE  dpc'[d] = "running"
  BY <1>5 DEF GoesOn
<1> QED
  BY <1>3, <1>4, <1>5

LEMMA CoupledStep == DriverInv /\ Coupled /\ [BindingNext]_bindingVars => Coupled'
<1> SUFFICES ASSUME DriverInv, Coupled, BindingNext \/ UNCHANGED bindingVars PROVE Coupled'
  OBVIOUS
<1> USE BindingAssumption DEF Coupled
<1>0. dpc \in [Dev -> {"off", "idle", "begin", "clk", "pm", "running", "bound"}]
  BY DEF DriverInv, DriverTypeOK
<1>1. CASE Present /\ (\E c \in Ctl : Online(c)) /\ UNCHANGED vars
  BY <1>1 DEF Online, call, vars, device
<1>2. CASE CallProbe(IrqDev) /\ Call
  BY <1>0, <1>2 DEF CallProbe, Goto, Call
<1>3. CASE InProbe /\ CallStep /\ UNCHANGED vars
  <2>1. dpc'[IrqDev] = "running"
    BY <1>3 DEF InProbe, vars, device
  <2>2. ipc' # "idle"
    BY <1>3, <2>1 DEF InProbe, CallStep, Count, CountEnds, Calc, Get, CreateMasks, Update, UpdateFails, Return,
       Fail
  <2> QED
    BY <2>1, <2>2
<1>4. CASE ProbeSucceeds(IrqDev) /\ ipc = "held" /\ UNCHANGED irqVars
  BY <1>0, <1>4 DEF ProbeSucceeds, irqVars, call
<1>5. ASSUME NEW err \in Failure, ProbeReturns(err) PROVE Coupled'
  BY <1>0, <1>5 DEF ProbeReturns, ProbeFails, GiveUp, Release, Forget, Back
<1>6. CASE Next /\ InProbe' = InProbe /\ IF Unbound THEN Release ELSE UNCHANGED irqVars
  <2>1. Step \/ UNCHANGED vars
    BY <1>6, StepsAreSteps DEF BindingNext, DriverInv, DriverTypeOK
  <2>2. CASE Unbound
    BY <1>0, <1>6, <2>2 DEF Unbound, InProbe, Release, Back
  <2>3. CASE ~ Unbound
    <3>1. ipc' = ipc
      BY <1>6, <2>3 DEF irqVars, call
    <3>2. CASE dpc[IrqDev] \in {"bound", "running"}
      BY <1>6, <2>3, <3>1, <3>2 DEF Unbound, InProbe
    <3>3. CASE dpc[IrqDev] \notin {"bound", "running"}
      <4>1. dpc'[IrqDev] \notin {"bound", "running"}
        BY <1>6, <2>1, <3>3, BoundFromProbe DEF InProbe
      <4> QED
        BY <3>1, <3>3, <4>1
    <3> QED
      BY <3>2, <3>3
  <2> QED
    BY <2>2, <2>3
<1>7. CASE UNCHANGED bindingVars
  BY <1>7 DEF bindingVars, vars, device, irqVars, call
<1> QED
  BY <1>1, <1>2, <1>3, <1>4, <1>5, <1>6, <1>7 DEF BindingNext

LEMMA Coupling == BindingSpec => []Coupled
<1>1. BindingInit => Coupled
  BY BindingAssumption DEF BindingInit, Init, IrqInit, Coupled
<1> QED
  BY <1>1, CoupledStep, DriverInvariance, PTL DEF BindingSpec

(* A device has interrupts only while it is in its PM domain, and a bound  *)
(* one has as many as its driver asked for: a probe that fails, late or    *)
(* early, an unbind, a removal and a registration that is undone all find  *)
(* them in a state in which they can be released.                          *)
InterruptsInDomain ==
  /\ IrqDev \notin pm => ipc = "idle" /\ ~ ptr /\ ~ desc
  /\ dpc[IrqDev] = "bound" => ipc = "held" /\ ptr /\ Len(irqs) \in minvec .. maxvec

THEOREM InterruptsFollowTheDriver == BindingSpec => []InterruptsInDomain
<1>1. DriverInv /\ Coupled /\ GetsWhatItMay => InterruptsInDomain
  BY BindingAssumption DEF DriverInv, DomainsAreBalanced, Coupled, GetsWhatItMay, InterruptsInDomain
<1> QED
  BY <1>1, DriverInvariance, Coupling, AffinityIsAllOrNothing, PTL

(* driver_register waits for the lock of a device that is on the bus, or   *)
(* for a probe of its own driver that goes on: what it waits for cannot    *)
(* be over without it, whoever adds, binds and removes devices meanwhile.  *)
WaitsForADevice ==
  \A r \in Drv :
    /\ rpc[r] = "lock" => at[r] \in Bus
    /\ rpc[r] = "trying" => driver[at[r]] = r /\ Probing(at[r])

THEOREM RegistrationIsNotLost == BindingSpec => []WaitsForADevice
<1>1. DriverInv => WaitsForADevice
  BY DEF DriverInv, DriverTypeOK, AtInv, WaitsForADevice, Bus
<1> QED
  BY <1>1, DriverInvariance, PTL

(* The type invariants of both components.                                 *)
THEOREM TypeCorrect == BindingSpec => [](DriverTypeOK /\ IrqTypeOK)
<1>1. DriverInv /\ IrqInv => DriverTypeOK /\ IrqTypeOK
  BY DEF DriverInv, IrqInv
<1> QED
  BY <1>1, DriverInvariance, IrqInvariance, PTL

-----------------------------------------------------------------------------
(* What PlatformDriver takes device_add and device_del to do is what       *)
(* platform_device_add and platform_device_del do in one step each.        *)
Any(d, e) == TRUE

Platform == INSTANCE PlatformBus
              WITH Name <- Dev, Compatible <- Any, bus <- Bus, busName <- [d \in Bus |-> d]

LEMMA BusStep ==
  ASSUME DriverInv, Step \/ UNCHANGED vars
  PROVE  Platform!Next \/ UNCHANGED Platform!vars
<1> USE DEF DriverInv, DriverTypeOK, Bus, Any
<1>0. ASSUME Bus' = Bus PROVE UNCHANGED Platform!vars
  BY <1>0 DEF Platform!vars
<1>1. CASE dpc' = dpc
  BY <1>0, <1>1
<1>2. CASE dpc' # dpc
  <2>1. PICK d \in Dev : \/ GivesUp(d) \/ LetsGo(d) \/ Comes(d) \/ Goes(d)
                         \/ \E to \in {"clk", "pm", "running", "bound"} : GoesOn(d, to)
                         \/ \E r \in Drv : Binds(d, r)
    BY <1>2, Kinds DEF DeviceKind, Elsewhere, vars, device
  <2>2. CASE GivesUp(d) \/ LetsGo(d) \/ (\E r \in Drv : Binds(d, r))
             \/ \E to \in {"clk", "pm", "running", "bound"} : GoesOn(d, to)
    <3>1. Bus' = Bus
      BY <2>2 DEF GivesUp, LetsGo, Binds, TryToBind, GoesOn, Probing
    <3> QED
      BY <1>0, <3>1
  <2>3. CASE Comes(d)
    <3>1. d \notin Bus /\ Bus' = Bus \cup {d}
      BY <2>3 DEF Comes
    <3>2. Platform!Add(d, d)
      BY <3>1 DEF Platform!Add
    <3> QED
      BY <3>2 DEF Platform!Next
  <2>4. CASE Goes(d)
    <3>1. d \in Bus /\ Bus' = Bus \ {d}
      BY <2>4 DEF Goes
    <3>2. Platform!Del(d)
      BY <3>1 DEF Platform!Del
    <3> QED
      BY <3>2 DEF Platform!Next
  <2> QED
    BY <2>1, <2>2, <2>3, <2>4
<1> QED
  BY <1>1, <1>2

(* Drivers see a bus on which a device comes or goes in one step, by       *)
(* whatever call: the abstract bus that PlatformDevice implements.         *)
THEOREM DevicesComeAtOnce == BindingSpec => Platform!Spec
<1>1. BindingInit => Platform!Init
  <2>1. BindingInit => Bus = {}
    BY DEF BindingInit, Init, Bus
  <2> QED
    BY <2>1 DEF Platform!Init
<1>2. DriverInv /\ [BindingNext]_bindingVars => [Platform!Next]_(Platform!vars)
  <2> SUFFICES ASSUME DriverInv, BindingNext \/ UNCHANGED bindingVars
               PROVE  Platform!Next \/ UNCHANGED Platform!vars
    OBVIOUS
  <2>1. Step \/ UNCHANGED vars
    BY StepsAreSteps DEF DriverInv, DriverTypeOK, bindingVars
  <2> QED
    BY <2>1, BusStep
<1> QED
  BY <1>1, <1>2, DriverInvariance, PTL DEF BindingSpec, Platform!Spec

=============================================================================
