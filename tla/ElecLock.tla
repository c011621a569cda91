------------------------------ MODULE ElecLock ------------------------------
(***************************************************************************)
(* The locks (elec.c) and the shell command that opens them (operate_lock),*)
(* composed with the driver of the expander they hang on.                  *)
(*                                                                         *)
(* Each lock has two coils, on the pins IO0_i and IO1_i of the chip ELEC0. *)
(* A pulse on the first opens it, a pulse on the second closes it; current *)
(* through both at once, or a pulse that does not end, is a hazard to the  *)
(* hardware.  The shell thread makes every call of the driver for this     *)
(* chip, and ignores what the calls return.                                *)
(***************************************************************************)
EXTENDS Naturals, Sequences

CONSTANTS
  Slots,      \* the locks of the board
  tshell,     \* the shell thread
  NoReq,      \* the driver has no call in progress
  MaxFaults   \* bound on failing transfers

VARIABLES
  output, config, polarity, boot, req, temp, faults,   \* the driver
  opened,     \* ELEC has opened the device
  job         \* operate_lock: slot, action, and the next call of elec_toggle

driver == <<output, config, polarity, boot, req, temp, faults>>
vars   == <<output, config, polarity, boot, req, temp, faults, opened, job>>

(* The pin "IO<port>_<i>". *)
IO(port, i) == <<port, i>>
Port0 == {IO(0, i) : i \in Slots}
Port1 == {IO(1, i) : i \in Slots}

ELEC0 == 0

ASSUME ElecLockAssumption ==
  /\ MaxFaults \in Nat
  /\ NoReq \notin [chip : {ELEC0}, pin : Port0 \cup Port1, cmd : {"HIGH", "LOW", "OUTPUT"}]

Driver == INSTANCE Nca9555 WITH
  NCHIP <- 1, Clients <- {tshell}, Users <- [d \in {ELEC0} |-> {tshell}],
  Cmds <- {"HIGH", "LOW", "OUTPUT"}

Idle == 0   \* job.step when no operate_lock is running

Init ==
  /\ Driver!Init
  /\ opened = FALSE
  /\ job \in [slot : Slots, stat : {"unlock"}, step : {Idle}]

-----------------------------------------------------------------------------
(* nca9555_init, before the threads run. *)
Boot ==
  /\ Driver!InitConfig \/ Driver!InitOutput
  /\ UNCHANGED <<opened, job>>

(* The thread ELEC: elec_entry calls elec_init and then does nothing.      *)
ElecInit ==
  /\ boot.reg = "done" /\ ~ opened
  /\ opened' = TRUE
  /\ UNCHANGED <<output, config, polarity, boot, req, temp, faults, job>>

(* The two pins of elec_toggle: a gets the pulse, b is held low. *)
APoint == IO(IF job.stat = "unlock" THEN 0 ELSE 1, job.slot)
BPoint == IO(IF job.stat = "unlock" THEN 1 ELSE 0, job.slot)

(* Mutant: the other coil is put out only after the pulse has begun. *)
TogglePulseFirst ==
  << [pin |-> APoint, cmd |-> "OUTPUT"], [pin |-> APoint, cmd |-> "HIGH"],
     [pin |-> BPoint, cmd |-> "OUTPUT"], [pin |-> BPoint, cmd |-> "LOW"],
     [pin |-> APoint, cmd |-> "LOW"] >>

(* Mutant: the pulse is ended on the other pin. *)
ToggleWrongEnd ==
  << [pin |-> BPoint, cmd |-> "OUTPUT"], [pin |-> BPoint, cmd |-> "LOW"],
     [pin |-> APoint, cmd |-> "OUTPUT"], [pin |-> APoint, cmd |-> "HIGH"],
     [pin |-> BPoint, cmd |-> "LOW"] >>

(* The calls of elec_toggle in their order; before the last one it sleeps  *)
(* for the 50 ms of the pulse.                                             *)
Toggle ==
  << [pin |-> BPoint, cmd |-> "OUTPUT"], [pin |-> BPoint, cmd |-> "LOW"],
     [pin |-> APoint, cmd |-> "OUTPUT"], [pin |-> APoint, cmd |-> "HIGH"],
     [pin |-> APoint, cmd |-> "LOW"] >>

Call == [chip |-> ELEC0, pin |-> Toggle[job.step].pin, cmd |-> Toggle[job.step].cmd]

(* After the last call of an unlock comes the lock, then operate_lock ends.*)
Advance ==
  job' = IF job.step < Len(Toggle)
         THEN [slot |-> job.slot, stat |-> job.stat, step |-> job.step + 1]
         ELSE IF job.stat = "unlock"
              THEN [slot |-> job.slot, stat |-> "lock", step |-> 1]
              ELSE [slot |-> job.slot, stat |-> "unlock", step |-> Idle]

(* operate_lock i *)
OperateLock ==
  /\ boot.reg = "done" /\ job.step = Idle
  /\ \E i \in Slots : job' = [slot |-> i, stat |-> "unlock", step |-> 1]
  /\ UNCHANGED <<output, config, polarity, boot, req, temp, faults, opened>>

(* A call begins with its read.  operate_lock sleeps for 500 ms before the *)
(* first one, in which the threads of lower priority run and ELEC opens the*)
(* device: rt_device_write would refuse a closed one.                      *)
Begin ==
  /\ opened /\ job.step # Idle
  /\ Driver!ReadRegister(tshell, Call)
  /\ UNCHANGED <<opened, job>>

(* It ends with its write, whose result elec_toggle ignores. *)
End ==
  /\ Driver!WriteRegister(tshell)
  /\ Advance
  /\ UNCHANGED opened

Shell == Begin \/ End
Next == Boot \/ ElecInit \/ OperateLock \/ Shell

(* The board initialisation runs before all threads; ELEC gets its time    *)
(* slices; the shell, of higher priority, sleeps only with timeouts.       *)
Fairness == WF_vars(Boot) /\ WF_vars(ElecInit) /\ WF_vars(Shell)

Spec == Init /\ [][Next]_vars
FairSpec == Spec /\ Fairness

-----------------------------------------------------------------------------
(* Properties                                                              *)

TypeOK ==
  /\ Driver!TypeOK
  /\ opened \in BOOLEAN
  /\ job \in [slot : Slots, stat : {"unlock", "lock"}, step : 0 .. 5]

Energised == Driver!Driven(ELEC0)

(* Current never flows through both coils of a lock, although every error  *)
(* is ignored, unless two transfers fail: elec_toggle puts the other coil  *)
(* out again before each pulse.                                            *)
NeverBothCoils ==
  boot.reg = "done" /\ faults <= 1 =>
    \A i \in Slots : ~ {IO(0, i), IO(1, i)} \subseteq Energised

(* While the bus works, the only coil that can be energised is the one the *)
(* running action pulses, and between two actions and after them none is.  *)
OnlyPulsedCoil ==
  boot.reg = "done" /\ faults = 0 =>
    Energised \subseteq IF job.step = Len(Toggle) THEN {APoint} ELSE {}

(* However many transfers fail, and although the bytes of a failed read are*)
(* written back, a coil gets a high level only by the call of elec_toggle  *)
(* that begins its pulse.  Current begins to flow by this call or, through *)
(* a level that nca9555_init failed to clear, by the call that makes the   *)
(* coil an output; through any other coil only when two transfers fail.    *)
RaisedByPulse ==
  [][boot.reg = "done" =>
       /\ output'[ELEC0] \ output[ELEC0] \subseteq IF job.step = 4 THEN {APoint} ELSE {}
       /\ faults' <= 1 => Energised' \ Energised \subseteq
                            CASE job.step \in {3, 4} -> {APoint}
                              [] job.step = 1 -> {BPoint}
                              [] OTHER -> {}]_vars

(* If no transfer ever fails, an energised coil is released again. *)
CoilReleased ==
  \A i \in Slots : \A port \in {0, 1} :
    [](boot.reg = "done" /\ IO(port, i) \in Energised
         => <>(IO(port, i) \notin Energised \/ faults > 0))

(* The locks use the driver only as a thread may: what holds of every      *)
(* behaviour of the driver holds of the chip the locks hang on.            *)
UsesDriver == Driver!Spec

-----------------------------------------------------------------------------
(* What the comments of the code say and the code does not do.             *)

(* elec.c, elec_action: returns 0 on success.  It always does; when the    *)
(* second action returns, the lock's coils must be off again.              *)
SuccessMeansReleased ==
  boot.reg = "done" /\ job.step = Idle => Energised = {}

=============================================================================
