-------------------------- MODULE MCPlatformDevice --------------------------
(* A device with resources, one without that has the name of another, and  *)
(* a batch of two. Both kinds of explicit ID, and automatic ones.          *)
EXTENDS PlatformDevice, TLC

CONSTANTS d1, d2, d3, d4

MCDev == {d1, d2, d3, d4}
MCBatch == <<d2, d3>>
MCId == 0 .. 2

Mem(lo, hi) == [type |-> "mem", lo |-> lo, hi |-> hi]
Irq == [type |-> "irq", lo |-> 5, hi |-> 5]
Io == [type |-> "io", lo |-> 0, hi |-> 2]

(* d1 and d3 overlap; d2 contains a part of d1.                            *)
MCRes == d1 :> <<Mem(0, 1), Irq, Mem(3, 5)>> @@ d2 :> <<Mem(2, 6)>> 
         @@ d3 :> <<Io, Mem(4, 6)>> @@ d4 :> <<>>
MCIdOf == d1 :> AUTO @@ d2 :> AUTO @@ d3 :> 0 @@ d4 :> 0
=============================================================================
