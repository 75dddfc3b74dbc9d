------------------------------ MODULE MCNative ------------------------------
(***************************************************************************)
(* Native.tla for TLC: two or three commands whose programs exit with 0 or *)
(* 1 or are killed by SIGKILL.                                             *)
(***************************************************************************)
EXTENDS Native

CONSTANTS a, b, c

MCTwo == {a, b}
MCThree == {a, b, c}
MCExitCodes == {0, 1}
MCSignals == {9}
=============================================================================
