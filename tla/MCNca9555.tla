------------------------------ MODULE MCNca9555 ------------------------------
(* Instances of Nca9555 for TLC. *)
EXTENDS Nca9555

CONSTANTS p0, p1, q0, stat, led

OnePortPair   == {p0}
TwoPins       == {p0, p1}
SecondPort    == {q0}
OneThread     == {led}
TwoThreads    == {stat, led}
AllToOne      == [d \in Chips |-> {led}]
OneThreadEach == [d \in Chips |-> IF d = 0 THEN {stat} ELSE {led}]
AllCmds       == WriteCmds \cup ControlCmds
AppCmds       == WriteCmds \cup {"OUTPUT", "INPUT"}
=============================================================================
