-------------------------- MODULE PlatformBinding ---------------------------
(***************************************************************************)
(* Platform drivers and the interrupts of a device: the probe of IrqDev    *)
(* begins with devm_platform_get_irqs_affinity and returns its error; it   *)
(* may also fail later, with the interrupts in hand. Whenever the driver   *)
(* core lets go of the device it releases them.                            *)
(***************************************************************************)
EXTENDS PlatformDriver, PlatformIrqs

CONSTANT IrqDev

ASSUME BindingAssumption == IrqDev \in Dev

bindingVars == <<vars, irqVars>>

Present == IrqDev \in system.dev

BindingInit ==
  /\ Init /\ IrqInit
  /\ Present \/ (dev = (CHOOSE d \in Devices : TRUE) /\ online = {})

InProbe == dpc[IrqDev] = "running"
Unbound == dpc[IrqDev] = "bound" /\ dpc'[IrqDev] # "bound"

(* The error of the call is the error of the probe; if the call succeeds,  *)
(* the rest of the probe may still fail.                                   *)
ProbeReturns(err) ==
  /\ ProbeFails(IrqDev, err)
  /\ \/ Release
     \/ Forget /\ err = (IF ret = EPROBE_DEFER THEN "defer" ELSE "error")

BindingNext ==
  \/ Present /\ (\E c \in Ctl : Online(c)) /\ UNCHANGED vars
  \/ CallProbe(IrqDev) /\ Call
  \/ InProbe /\ CallStep /\ UNCHANGED vars
  \/ ProbeSucceeds(IrqDev) /\ ipc = "held" /\ UNCHANGED irqVars
  \/ \E err \in Failure : ProbeReturns(err)
  \/ /\ Next
     /\ InProbe' = InProbe
     /\ IF Unbound THEN Release ELSE UNCHANGED irqVars

BindingSpec == BindingInit /\ [][BindingNext]_bindingVars

=============================================================================
