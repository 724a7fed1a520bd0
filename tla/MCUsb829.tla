------------------------------ MODULE MCUsb829 ------------------------------
(* Two writers and a reader on a buffer of five bytes.                     *)
EXTENDS Usb829, TLC

CONSTANTS w1, w2, r1, A, x

MCWriter == {w1, w2}
MCReader == {r1}
MCChar == {A, x}
MCPrefix == <<A>>

(* Nothing, a byte, a NUL between bytes, and one byte more than fits.      *)
MCPayload == {<<>>, <<x>>, <<x, NUL, x>>, <<x, x, x, x>>}
MCReadLen == {0, 1, 2, 5}
MCSymmetry == Permutations(MCWriter)
=============================================================================
