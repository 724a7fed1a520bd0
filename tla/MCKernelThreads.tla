-------------------------- MODULE MCKernelThreads ---------------------------
(* The two threads of either example, with the five rounds of              *)
(* spinlock_example for both.                                              *)
EXTENDS KernelThreads
=============================================================================
