---------------------------- MODULE MCKeyCabinet ----------------------------
(* Instances of KeyCabinet for TLC; the constants are in the .cfg files.   *)
EXTENDS KeyCabinet
=============================================================================
