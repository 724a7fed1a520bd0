---------------------------- MODULE MCLockedRead ----------------------------
(* Both variants of the driver.                                            *)
EXTENDS LockedRead

CONSTANTS p1, p2, p3

MCProc == {p1, p2, p3}
=============================================================================
