------------------------------ MODULE MCMsgDev ------------------------------
(* Small instances of MsgDev.                                              *)
EXTENDS MsgDev

CONSTANTS p1, p2, f1, a, b

MCProc == {p1, p2}
MCPayloadLong == {<<a>>, <<b, a, b, b>>}
=============================================================================
