----------------------------- MODULE MCHiveFile -----------------------------
(* HiveFile has numeric bounds only; the cfg files give them.              *)
EXTENDS HiveFile
=============================================================================
