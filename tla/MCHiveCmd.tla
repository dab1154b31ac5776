------------------------------ MODULE MCHiveCmd ------------------------------
(* HiveCmd with two addresses for connections, so that a freed one may be  *)
(* used again or not, and files of up to 2 bytes.                          *)
EXTENDS HiveCmd, TLC

CONSTANTS h1, h2
TwoHandles == {h1, h2}
Symmetry == Permutations(TwoHandles)
=============================================================================
