------------------------- MODULE MCPlatformBinding --------------------------
(* A bundle driver with its device and a driver that competes for both     *)
(* devices; an array of two drivers with a device that is overridden; and  *)
(* a device with interrupts, with a driver that may and one that may not   *)
(* defer its probe.                                                        *)
EXTENDS PlatformBinding, TLC

CONSTANTS a, b, c, p, q, x, y, z, w, gic, gpio

MCDrv == {a, b, c, p, q}
MCDev == {x, y, z, w}
MCOwn == [r \in MCDrv |-> IF r = a THEN y ELSE NoDev]
MCSystems == {[dev |-> {x, y}, drv |-> {a, b}, array |-> <<>>],
              [dev |-> {z}, drv |-> {b, c}, array |-> <<b, c>>],
              [dev |-> {w}, drv |-> {p}, array |-> <<>>],
              [dev |-> {w}, drv |-> {q}, array |-> <<>>]}
MCNameOf == a :> "A" @@ b :> "B" @@ c :> "C" @@ p :> "W" @@ q :> "W"
            @@ x :> "B" @@ y :> "A" @@ z :> "C" @@ w :> "W"
MCIdTable == [r \in MCDrv |-> CASE r = a -> {"A"} [] r = b -> {"A", "B"} [] OTHER -> {}]
MCOverrides == [d \in MCDev |-> IF d = z THEN {"C", NoName} ELSE {}]
MCFirmware == [d \in MCDev |-> CASE d = x -> {a} [] d = z -> {b} [] OTHER -> {}]

Res(start, trigger, ready) == [start |-> start, trigger |-> trigger, ready |-> ready]
Plain(trigger) == Res(0, trigger, FALSE)

MCDevices ==
  {[fwnode |-> "of", gpio |-> NoCtl, line |-> <<gic, gpio, NoCtl>>, res |-> <<>>],
   [fwnode |-> "of", gpio |-> NoCtl, line |-> <<gic, NoCtl>>,
    res |-> <<Plain(FALSE), Res(5, TRUE, TRUE)>>],
   [fwnode |-> "acpi", gpio |-> NoCtl, line |-> <<gic, gic, gpio>>,
    res |-> <<Plain(TRUE), Plain(FALSE), Plain(TRUE)>>],
   [fwnode |-> "acpi", gpio |-> gpio, line |-> <<>>, res |-> <<>>],
   [fwnode |-> "none", gpio |-> NoCtl, line |-> <<>>,
    res |-> <<Res(7, TRUE, TRUE), Res(5, FALSE, FALSE), Plain(FALSE)>>]}
=============================================================================
