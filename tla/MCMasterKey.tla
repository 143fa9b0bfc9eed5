----------------------------- MODULE MCMasterKey -----------------------------
(* Small instances of MasterKey for TLC: the configurations choose how many *)
(* rekey-dek processes there are, the volumes to start from and whether     *)
(* processes are killed.                                                    *)
EXTENDS MasterKey
=============================================================================
