------------------------------- MODULE Nca9555 -------------------------------
(***************************************************************************)
(* The driver of the NCA9555 I/O expanders (drv_i2c_nca9555.c).            *)
(*                                                                         *)
(* Every call of the driver is one or two transfers over the I2C bus.  The *)
(* bus lock makes each transfer atomic, but it is released between them, so*)
(* the read-modify-write of a register pair is two steps and other threads *)
(* may use the bus in between.  A transfer may fail: none or only the first*)
(* of its two bytes arrives.  The driver reports failures to its callers   *)
(* nowhere and goes on with what it has.                                   *)
(*                                                                         *)
(* A register pair is the set of pins whose bit is 1.  The registers       *)
(* survive a restart of the processor, so the driver may find any content  *)
(* when it initialises the chips.                                          *)
(***************************************************************************)
EXTENDS Naturals

CONSTANTS
  NCHIP,      \* chips in nca9555_obj[], initialised in this order
  Port0,      \* pins IO0_x: the first byte of a register pair
  Port1,      \* pins IO1_x: the second byte
  Clients,    \* threads that call the driver
  Users,      \* Users[d]: the threads that call it for chip d
  Cmds,       \* the calls the threads make
  NoReq,      \* no call in progress
  MaxFaults   \* bound on failing transfers

Chips == 0 .. NCHIP - 1
Pins  == Port0 \cup Port1
WriteCmds   == {"HIGH", "LOW"}                \* rt_nca9555_write_pin
ControlCmds == {"OUTPUT", "INPUT", "INVERT"}  \* rt_nca9555_control_pin

ASSUME Nca9555Assumption ==
  /\ NCHIP \in Nat \ {0}
  /\ Port0 \cap Port1 = {}
  /\ Users \in [Chips -> SUBSET Clients]
  /\ Cmds \subseteq WriteCmds \cup ControlCmds
  /\ NoReq \notin [chip : Chips, pin : Pins, cmd : Cmds]
  /\ MaxFaults \in Nat

(* No two threads call the driver for the same chip: the threads LED, STAT *)
(* and tshell each have their own.                                         *)
Exclusive == \A d \in Chips : \A c1, c2 \in Users[d] : c1 = c2

Requests == [chip : Chips, pin : Pins, cmd : Cmds]

VARIABLES
  output,    \* output[d]: OUTPUT registers of chip d
  config,    \* config[d]: CONFIGURATION registers, 1 for an input
  polarity,  \* polarity[d]: POLARITY INVERSION registers
  boot,      \* initialisation: the chip, and the register it writes next
  req,       \* req[c]: the call that is between its two transfers, or NoReq
  temp,      \* temp[c]: the two bytes it has read
  faults     \* transfers that failed

vars == <<output, config, polarity, boot, req, temp, faults>>

Init ==
  /\ output \in [Chips -> SUBSET Pins]
  /\ config \in [Chips -> SUBSET Pins]
  /\ polarity \in [Chips -> SUBSET Pins]
  /\ boot = [chip |-> 0, reg |-> "config"]
  /\ req = [c \in Clients |-> NoReq]
  /\ temp = [c \in Clients |-> {}]
  /\ faults = 0

-----------------------------------------------------------------------------
(* Transfers.  n of the two bytes arrive; fewer than two is a failure.     *)

Arrived(n) == CASE n = 0 -> {} [] n = 1 -> Port0 [] n = 2 -> Pins

Transfer(n) ==
  \/ n = 2 /\ UNCHANGED faults
  \/ n \in {0, 1} /\ faults < MaxFaults /\ faults' = faults + 1

(* nca9555_read_data into a buffer of zeros *)
ReadData(reg, n) == reg \cap Arrived(n)

(* nca9555_write_data of the bytes buf *)
WriteData(reg, n, buf) == (buf \cap Arrived(n)) \cup (reg \ Arrived(n))

-----------------------------------------------------------------------------
(* Mutant: the two halves of set_pin[] swapped, zeros into CONFIGURATION.  *)
InitConfigZero ==
  /\ boot.reg = "config"
  /\ \E n \in 0 .. 2 :
       /\ Transfer(n)
       /\ config' = [config EXCEPT ![boot.chip] = WriteData(@, n, {})]
  /\ boot' = [chip |-> boot.chip, reg |-> "output"]
  /\ UNCHANGED <<output, polarity, req, temp>>

(* nca9555_init: all pins become inputs, then all output levels low.       *)
InitConfig ==
  /\ boot.reg = "config"
  /\ \E n \in 0 .. 2 :
       /\ Transfer(n)
       /\ config' = [config EXCEPT ![boot.chip] = WriteData(@, n, Pins)]
  /\ boot' = [chip |-> boot.chip, reg |-> "output"]
  /\ UNCHANGED <<output, polarity, req, temp>>

(* rt_hw_nca9555_port goes on to the next chip.  Its error return needs a  *)
(* name that is already registered, and the names in nca9555_obj[] differ. *)
NextChip ==
  IF boot.chip + 1 < NCHIP
  THEN [chip |-> boot.chip + 1, reg |-> "config"]
  ELSE [chip |-> boot.chip, reg |-> "done"]

(* Mutant: the output levels are left as they are. *)
InitOutputSkipped ==
  /\ boot.reg = "output"
  /\ boot' = NextChip
  /\ UNCHANGED <<output, config, polarity, req, temp, faults>>

InitOutput ==
  /\ boot.reg = "output"
  /\ \E n \in 0 .. 2 :
       /\ Transfer(n)
       /\ output' = [output EXCEPT ![boot.chip] = WriteData(@, n, {})]
  /\ boot' = NextChip
  /\ UNCHANGED <<config, polarity, req, temp>>

(* Mutant: write_pin starts from the CONFIGURATION registers. *)
SourceRegConfig(r) == config[r.chip]

(* The register pair a call reads. *)
SourceReg(r) == IF r.cmd \in WriteCmds THEN output[r.chip] ELSE config[r.chip]

(* First transfer of rt_nca9555_write_pin or rt_nca9555_control_pin; its   *)
(* error is ignored and the bytes that did not arrive are zero.            *)
ReadRegister(c, r) ==
  /\ boot.reg = "done" /\ req[c] = NoReq /\ c \in Users[r.chip]
  /\ \E n \in 0 .. 2 :
       /\ Transfer(n)
       /\ temp' = [temp EXCEPT ![c] = ReadData(SourceReg(r), n)]
  /\ req' = [req EXCEPT ![c] = r]
  /\ UNCHANGED <<output, config, polarity, boot>>

(* Mutant: the whole register is overwritten instead of one bit. *)
ModifyAll(r, buf) == IF r.cmd \in {"LOW", "OUTPUT"} THEN {} ELSE {r.pin}

(* The bit of the pin is cleared by LOW and OUTPUT, set by the others. *)
Modify(r, buf) ==
  IF r.cmd \in {"LOW", "OUTPUT"} THEN buf \ {r.pin} ELSE buf \cup {r.pin}

(* Second transfer: the two bytes are written back. *)
WriteRegister(c) ==
  /\ req[c] # NoReq
  /\ LET r == req[c]
         buf == Modify(r, temp[c])
     IN \E n \in 0 .. 2 :
          /\ Transfer(n)
          /\ \/ /\ r.cmd \in WriteCmds
                /\ output' = [output EXCEPT ![r.chip] = WriteData(@, n, buf)]
                /\ UNCHANGED <<config, polarity>>
             \/ /\ r.cmd \in {"OUTPUT", "INPUT"}
                /\ config' = [config EXCEPT ![r.chip] = WriteData(@, n, buf)]
                /\ UNCHANGED <<output, polarity>>
             \/ /\ r.cmd = "INVERT"
                /\ polarity' = [polarity EXCEPT ![r.chip] = WriteData(@, n, buf)]
                /\ UNCHANGED <<output, config>>
  /\ req' = [req EXCEPT ![c] = NoReq]
  /\ temp' = [temp EXCEPT ![c] = {}]
  /\ UNCHANGED boot

Client(c) == (\E r \in Requests : ReadRegister(c, r)) \/ WriteRegister(c)

Next == InitConfig \/ InitOutput \/ \E c \in Clients : Client(c)

Spec == Init /\ [][Next]_vars
-----------------------------------------------------------------------------
(* Properties                                                              *)

TypeOK ==
  /\ output \in [Chips -> SUBSET Pins]
  /\ config \in [Chips -> SUBSET Pins]
  /\ polarity \in [Chips -> SUBSET Pins]
  /\ boot \in [chip : Chips, reg : {"config", "output", "done"}]
  /\ req \in [Clients -> Requests \cup {NoReq}]
  /\ temp \in [Clients -> SUBSET Pins]
  /\ faults \in 0 .. MaxFaults

(* The pins of chip d that drive a high level. *)
Driven(d) == output[d] \ config[d]

(* Whatever a restart leaves in the registers and whichever transfers fail,*)
(* nca9555_init never makes a pin drive high that did not before.          *)
BootOnlyReleases ==
  [][boot.reg # "done" => \A d \in Chips : Driven(d)' \subseteq Driven(d)]_vars

(* The two writes of nca9555_init cover for each other: with at most one   *)
(* failing transfer no pin of an initialised chip is left driving high.    *)
BootSurvivesOneFault ==
  [][\A d \in Chips :
       boot = [chip |-> d, reg |-> "output"] /\ faults' <= 1 => Driven(d)' = {}]_vars

(* A thread is between the two transfers of this call. *)
Called(d, p, cmd) == \E c \in Clients : req[c] = [chip |-> d, pin |-> p, cmd |-> cmd]

(* The zeros of failed transfers that the driver writes back never set a   *)
(* level: only a HIGH call for this very pin does.  A pin begins to drive  *)
(* high by HIGH or, with its level already set, by OUTPUT for this pin; a  *)
(* call for the direction of another pin of the chip can do it only when a *)
(* transfer has failed and the call's read has lost the bit of this pin.   *)
(* It needs one thread per chip: the read and the write are not atomic.    *)
NoSpuriousHigh ==
  [][boot.reg = "done" => \A d \in Chips :
       /\ \A p \in output'[d] \ output[d] : Called(d, p, "HIGH")
       /\ \A p \in Driven(d)' \ Driven(d) :
            \/ Called(d, p, "HIGH")
            \/ p \in output[d] /\ Called(d, p, "OUTPUT")
            \/ /\ p \in output[d] /\ faults > 0
               /\ \E c \in Clients :
                    /\ req[c] \in [chip : {d}, pin : Pins, cmd : {"OUTPUT", "INPUT"}]
                    /\ p \notin temp[c]]_vars

(* What the driver's calls look like to its callers while the bus works:   *)
(* from the end of the initialisation, registers of independent pins.      *)
Bank == INSTANCE PinBank WITH
  high   <- IF boot.reg = "done" THEN output ELSE [d \in Chips |-> {}],
  inputs <- IF boot.reg = "done" THEN config ELSE [d \in Chips |-> Pins]

(* The driver implements PinBank when no transfer fails. *)
PinsAreIndependent == Bank!Spec

(* The strengthenings that make the properties above inductive: the calls  *)
(* begin when all chips are initialised; the bytes a call holds are bytes  *)
(* of the register it will write, since no other thread writes it; and the *)
(* progress of the initialisation is what the transfers have achieved.     *)
CallsAfterBoot ==
  \A c \in Clients : req[c] # NoReq => boot.reg = "done" /\ c \in Users[req[c].chip]

CopyBounded == \A c \in Clients : req[c] # NoReq => temp[c] \subseteq SourceReg(req[c])
CopyExact ==
  faults = 0 => \A c \in Clients : req[c] # NoReq => temp[c] = SourceReg(req[c])

ConfigWritten == boot.reg = "output" /\ faults = 0 => config[boot.chip] = Pins

BootProgress ==
  \A d \in Chips :
    d < boot.chip /\ boot.reg # "done" => config[d] = Pins /\ output[d] = {}

=============================================================================
