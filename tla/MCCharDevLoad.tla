--------------------------- MODULE MCCharDevLoad ---------------------------
(* The four drivers, with eep-mem cut down to a few banks.                 *)
EXTENDS CharDevLoad

AllDrivers == {MsgDev, Usb829, MutexDev, Eep}
=============================================================================
