---------------------------- MODULE PlatformBus -----------------------------
(***************************************************************************)
(* What platform_device_add and platform_device_del promise: a device is   *)
(* on the bus with a name of its own and all of its resources, or not at   *)
(* all. Everything happens at once.                                        *)
(***************************************************************************)
CONSTANTS Dev,                \* platform devices
          Name,               \* of a device
          Compatible(_, _)    \* can two devices have their resources together?

VARIABLES bus,     \* the devices on the bus
          busName  \* the name each has there

vars == <<bus, busName>>

Init == bus = {} /\ busName = [d \in bus |-> d]

Add(d, name) ==
  /\ d \notin bus
  /\ \A e \in bus : busName[e] # name /\ Compatible(d, e)
  /\ bus' = bus \cup {d}
  /\ busName' = [e \in bus' |-> IF e = d THEN name ELSE busName[e]]

Del(d) ==
  /\ d \in bus
  /\ bus' = bus \ {d}
  /\ busName' = [e \in bus' |-> busName[e]]

Next == \E d \in Dev : Del(d) \/ \E name \in Name : Add(d, name)

Spec == Init /\ [][Next]_vars
=============================================================================
