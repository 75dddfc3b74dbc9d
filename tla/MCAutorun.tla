----------------------------- MODULE MCAutorun ------------------------------
(***************************************************************************)
(* Autorun.tla for TLC.                                                    *)
(***************************************************************************)
EXTENDS Autorun, TLC

CONSTANTS h1, h2, h3, n1, n2, n3, n4

MCHandle == {h1, h2, h3}
MCNode == {n1, n2, n3, n4}
MCSymmetry == Permutations(Handle) \cup Permutations(Node)
=============================================================================
