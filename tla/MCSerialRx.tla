----------------------------- MODULE MCSerialRx -----------------------------
(* Instances of SerialRx for TLC; the constants are in the .cfg files.     *)
EXTENDS SerialRx
=============================================================================
