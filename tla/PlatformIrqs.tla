---------------------------- MODULE PlatformIrqs ----------------------------
(***************************************************************************)
(* The interrupts of a platform device (01_Device_Tree/platform.c): what   *)
(* platform_get_irq_optional finds, and the call with which a probe gets   *)
(* a set of them, devm_platform_get_irqs_affinity. What this call obtains  *)
(* the driver core releases when the probe fails or the driver is removed. *)
(*                                                                         *)
(* A lookup is more than a lookup: the first one maps the interrupt, and   *)
(* in ACPI style writes the number it was given into the resource, which   *)
(* is believed from then on. A number that is fixed in the resource is     *)
(* mapped by nobody here; board code may have done it beforehand.          *)
(***************************************************************************)
EXTENDS Integers, Sequences

CONSTANTS Ctl, NoCtl, \* interrupt controllers, and a line that leads to none
          Devices,    \* the devices there may be
          minvec, maxvec

(* A device has lines in its firmware node, interrupt resources, and the   *)
(* controller of its first GpioInt.                                        *)
ASSUME IrqAssumption ==
  /\ NoCtl \notin Ctl
  /\ minvec \in Nat /\ maxvec \in Nat /\ minvec <= maxvec
  /\ \A dev \in Devices :
       /\ dev.fwnode \in {"of", "acpi", "none"}
       /\ dev.line \in Seq(Ctl \cup {NoCtl}) /\ dev.gpio \in Ctl \cup {NoCtl}
       /\ dev.fwnode = "none" => dev.line = <<>>
       /\ dev.res \in Seq([start : Nat, trigger : BOOLEAN, ready : BOOLEAN])

VARIABLES dev,     \* the device
          online,  \* controllers whose driver has been bound
          mapped,  \* interrupts that have been mapped
          enabled, \* resources that are not IORESOURCE_DISABLED
          ipc,     \* where the call is
          num,     \* its loop counter
          nvec, irqs, ret,
          ptr, desc \* is the memory it allocates there?

hardware == <<dev, online>>
tables == <<mapped, enabled>>
call == <<ipc, num, nvec, irqs, ret, ptr, desc>>
irqVars == <<hardware, tables, call>>

acpi == dev.fwnode = "acpi"
line(k) == IF k < Len(dev.line) THEN dev.line[k + 1] ELSE NoCtl
HasResource(k) == k < Len(dev.res)
resource(k) == dev.res[k + 1]

(* The number in the resource is the board's, not the firmware's.          *)
Fixed(k) == HasResource(k) /\ ~ acpi /\ line(k) = NoCtl

(* The ACPI scan has mapped what it could, and disabled the other resources *)
(* (external); board code has mapped the numbers that are ready.           *)
IrqInit ==
  /\ dev \in Devices
  /\ online \in SUBSET Ctl
  /\ enabled = {k \in 0 .. Len(dev.res) - 1 : acpi /\ line(k) \in online}
  /\ mapped = enabled \cup {k \in 0 .. Len(dev.res) - 1 : Fixed(k) /\ resource(k).ready}
  /\ ipc = "idle" /\ num = 0 /\ nvec = 0 /\ irqs = <<>> /\ ret = 0
  /\ ptr = FALSE /\ desc = FALSE

Online(c) ==
  /\ c \notin online
  /\ online' = online \cup {c}
  /\ UNCHANGED <<dev, tables, call>>

-----------------------------------------------------------------------------
(* platform_get_irq_optional                                               *)

EPROBE_DEFER == -517
ENXIO == -6 \* stands for every other error

(* Of whom the number is asked: of_irq_get of a controller (if there is    *)
(* none, the resource is looked at next), acpi_irq_get for a resource that *)
(* is disabled, acpi_dev_gpio_irq_get instead of a first resource.         *)
Asks(k) ==
  \/ dev.fwnode = "of" /\ line(k) # NoCtl
  \/ acpi /\ (IF HasResource(k) THEN k \notin enabled ELSE k = 0)

Controller(k) == IF acpi /\ ~ HasResource(k) THEN dev.gpio ELSE line(k)

(* Number 1 stands for interrupt 0 of the device, and so on.               *)
FromController(k) ==
  CASE Controller(k) \in online -> k + 1
    [] Controller(k) = NoCtl    -> ENXIO
    [] OTHER                    -> EPROBE_DEFER

(* The number in the resource, which must be mapped only if its trigger    *)
(* type has to be set; 0 is no number.                                     *)
FromResource(k) ==
  IF (resource(k).trigger /\ k \notin mapped) \/ (~ acpi /\ resource(k).start = 0)
  THEN ENXIO ELSE k + 1

platform_get_irq_optional(k) ==
  CASE Asks(k) -> FromController(k)
    [] ~ Asks(k) /\ HasResource(k) -> FromResource(k)
    [] OTHER -> ENXIO

IsIrq(r) == r > 0

(* Who is asked maps the interrupt; a resource does not.                   *)
Acquire(k) ==
  /\ mapped' = IF Asks(k) THEN mapped \cup {k} ELSE mapped
  /\ enabled' = IF acpi /\ HasResource(k) THEN enabled \cup {k} ELSE enabled

-----------------------------------------------------------------------------
(* devm_platform_get_irqs_affinity                                         *)

Call ==
  /\ ipc = "idle"
  /\ ipc' = "count" /\ num' = 0
  /\ UNCHANGED <<hardware, tables, nvec, irqs, ret, ptr, desc>>

Fail(err) ==
  /\ ipc' = "failed" /\ ret' = err
  /\ ptr' = FALSE /\ desc' = FALSE
  /\ num' = 0 /\ nvec' = 0 /\ irqs' = <<>>

Count ==
  /\ ipc = "count"
  /\ IsIrq(platform_get_irq_optional(num))
  /\ Acquire(num)
  /\ num' = num + 1
  /\ UNCHANGED <<hardware, ipc, nvec, irqs, ret, ptr, desc>>

CountEnds ==
  /\ ipc = "count"
  /\ ~ IsIrq(platform_get_irq_optional(num))
  /\ IF platform_get_irq_optional(num) = EPROBE_DEFER
     THEN Fail(EPROBE_DEFER)
     ELSE ipc' = "calc" /\ UNCHANGED <<num, nvec, irqs, ret, ptr, desc>>
  /\ UNCHANGED <<hardware, tables>>

(* irq_calc_affinity_vectors may give less than there are; then the memory *)
(* is allocated.                                                           *)
Calc ==
  /\ ipc = "calc"
  /\ \E v \in 0 .. num :
       IF v < minvec THEN Fail(ENXIO)
       ELSE \/ Fail(ENXIO)
            \/ /\ ipc' = "get" /\ ptr' = TRUE /\ num' = 0
               /\ nvec' = IF v > maxvec THEN maxvec ELSE v
               /\ UNCHANGED <<irqs, ret, desc>>
  /\ UNCHANGED <<hardware, tables>>

Get ==
  /\ ipc = "get" /\ num < nvec
  /\ LET irq == platform_get_irq_optional(num)
     IN  IF IsIrq(irq)
         THEN /\ Acquire(num)
              /\ irqs' = Append(irqs, irq) /\ num' = num + 1
              /\ UNCHANGED <<ipc, nvec, ret, ptr, desc>>
         ELSE Fail(irq) /\ UNCHANGED tables
  /\ UNCHANGED hardware

CreateMasks ==
  /\ ipc = "get" /\ num = nvec
  /\ \/ ipc' = "update" /\ desc' = TRUE /\ num' = 0 /\ UNCHANGED <<nvec, irqs, ret, ptr>>
     \/ Fail(ENXIO)
  /\ UNCHANGED <<hardware, tables>>

(* Slip: the masks are not freed (err_free_devres).                        *)
UpdateFails_KeepsDesc ==
  /\ ipc = "update" /\ num < nvec
  /\ ipc' = "failed" /\ ret' = ENXIO
  /\ ptr' = FALSE /\ desc' = desc
  /\ num' = 0 /\ nvec' = 0 /\ irqs' = <<>>
  /\ UNCHANGED <<hardware, tables>>

UpdateFails ==
  /\ ipc = "update" /\ num < nvec
  /\ Fail(ENXIO)
  /\ UNCHANGED <<hardware, tables>>

(* irq_update_affinity_desc refuses a number that is not mapped.           *)
Update ==
  /\ ipc = "update" /\ num < nvec
  /\ irqs[num + 1] - 1 \in mapped
  /\ num' = num + 1
  /\ UNCHANGED <<hardware, tables, ipc, nvec, irqs, ret, ptr, desc>>

Return ==
  /\ ipc = "update" /\ num = nvec
  /\ ipc' = "held" /\ desc' = FALSE /\ num' = 0
  /\ UNCHANGED <<hardware, tables, nvec, irqs, ret, ptr>>

CallStep ==
  \/ Count \/ CountEnds \/ Calc \/ Get \/ CreateMasks
  \/ Update \/ UpdateFails \/ Return

-----------------------------------------------------------------------------
(* The probe is over, or the driver is removed                             *)

Back ==
  /\ ipc' = "idle" /\ ret' = 0 /\ ptr' = FALSE
  /\ num' = 0 /\ nvec' = 0 /\ irqs' = <<>> /\ desc' = desc

Forget == ipc = "failed" /\ Back /\ UNCHANGED <<hardware, tables>>

Vectors == {irqs[k] - 1 : k \in 1 .. Len(irqs)}

(* Slip: the resources are not disabled again.                             *)
Release_StaysEnabled ==
  /\ ipc = "held"
  /\ mapped' = mapped \ Vectors
  /\ enabled' = enabled
  /\ Back
  /\ UNCHANGED hardware

(* devm_platform_get_irqs_affinity_release: the mappings are disposed of   *)
(* whoever made them.                                                      *)
Release ==
  /\ ipc = "held"
  /\ mapped' = mapped \ Vectors
  /\ enabled' = IF acpi THEN enabled \ Vectors ELSE enabled
  /\ Back
  /\ UNCHANGED hardware

-----------------------------------------------------------------------------
(* Properties                                                              *)

IrqTypeOK ==
  /\ dev \in Devices /\ online \subseteq Ctl
  /\ mapped \subseteq Nat /\ enabled \subseteq Nat
  /\ ipc \in {"idle", "count", "calc", "get", "update", "held", "failed"}
  /\ num \in Nat /\ nvec \in Nat
  /\ irqs \in Seq(Nat) /\ ret \in {0, ENXIO, EPROBE_DEFER}
  /\ ptr \in BOOLEAN /\ desc \in BOOLEAN

(* A call that has failed has left nothing, and one that has succeeded     *)
(* just what is released with the device; it returns "a set of IRQs"       *)
(* within its bounds, in the order of the device, and all of them mapped.  *)
GetsWhatItMay ==
  /\ ipc \in {"idle", "failed"} => ~ ptr /\ ~ desc
  /\ ipc = "held" =>
       /\ ptr /\ ~ desc
       /\ Len(irqs) \in minvec .. maxvec
       /\ \A k \in 1 .. Len(irqs) : irqs[k] = k /\ k - 1 \in mapped

(* What can ever be had: a line that leads to a controller, or a number    *)
(* that is fixed, and mapped if its trigger type has to be set.            *)
Usable(k) ==
  IF Fixed(k) THEN resource(k).start # 0 /\ (resource(k).trigger => resource(k).ready)
  ELSE IF acpi /\ ~ HasResource(k) THEN k = 0 /\ dev.gpio # NoCtl
  ELSE line(k) # NoCtl

(* The mapping of a fixed number has gone with the driver that held it,    *)
(* and nobody makes it again.                                              *)
Disposed(k) == Fixed(k) /\ resource(k).ready /\ k \notin mapped

(* The count is that of the interrupts before the first one that can never *)
(* be had, whatever earlier probes have mapped, written into the resources *)
(* and released: one whose controller is missing only now is not passed    *)
(* off as absent. Only a fixed number that an earlier probe has released,  *)
(* and whose trigger type has to be set, ends it before.                   *)
CountsTheDevice ==
  [][ipc = "count" /\ ipc' = "calc" =>
       /\ \A k \in 0 .. num - 1 : Usable(k)
       /\ ~ Usable(num) \/ (Disposed(num) /\ resource(num).trigger)]_irqVars
=============================================================================
