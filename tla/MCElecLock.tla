----------------------------- MODULE MCElecLock -----------------------------
(* Instances of ElecLock for TLC. *)
EXTENDS ElecLock
=============================================================================
