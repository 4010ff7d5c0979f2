---------------------------- MODULE MCInitConfig ----------------------------
(* Small instances of InitConfig for TLC. *)
EXTENDS InitConfig, TLC

Symmetric == Permutations(Proc)
=============================================================================
