---------------------------- MODULE ElecLockProofs ----------------------------
(***************************************************************************)
(* What the pulse script of elec_toggle keeps true of the coils, for every *)
(* number of locks and of failing transfers.                               *)
(***************************************************************************)
EXTENDS ElecLock, TLAPS

Pins == Port0 \cup Port1

(* The registers of the one chip, and the call the shell has in the driver.*)
High == output[ELEC0]
Ins  == config[ELEC0]
Pending == req[tshell]
Copy == temp[tshell]

Both(i) == {IO(0, i), IO(1, i)}

(* The five calls of elec_toggle, as the driver sees them.                 *)
LEMMA Script ==
  ASSUME job \in [slot : Slots, stat : {"unlock", "lock"}, step : 0 .. 5]
  PROVE  /\ Len(Toggle) = 5
         /\ APoint \in Pins /\ BPoint \in Pins /\ APoint # BPoint
         /\ Both(job.slot) = {APoint, BPoint}
         /\ job.step = 1 => Call = [chip |-> ELEC0, pin |-> BPoint, cmd |-> "OUTPUT"]
         /\ job.step = 2 => Call = [chip |-> ELEC0, pin |-> BPoint, cmd |-> "LOW"]
         /\ job.step = 3 => Call = [chip |-> ELEC0, pin |-> APoint, cmd |-> "OUTPUT"]
         /\ job.step = 4 => Call = [chip |-> ELEC0, pin |-> APoint, cmd |-> "HIGH"]
         /\ job.step = 5 => Call = [chip |-> ELEC0, pin |-> APoint, cmd |-> "LOW"]
  <1>1. Len(Toggle) = 5
    BY DEF Toggle
  <1>2. APoint \in Pins /\ BPoint \in Pins
    BY DEF APoint, BPoint, Pins, Port0, Port1, IO
  <1>3. APoint # BPoint
    BY DEF APoint, BPoint, IO
  <1>4. Both(job.slot) = {APoint, BPoint}
    BY DEF Both, APoint, BPoint, IO
  <1>5. /\ Toggle[1] = [pin |-> BPoint, cmd |-> "OUTPUT"]
        /\ Toggle[2] = [pin |-> BPoint, cmd |-> "LOW"]
        /\ Toggle[3] = [pin |-> APoint, cmd |-> "OUTPUT"]
        /\ Toggle[4] = [pin |-> APoint, cmd |-> "HIGH"]
        /\ Toggle[5] = [pin |-> APoint, cmd |-> "LOW"]
    BY DEF Toggle
  <1> QED
    BY <1>1, <1>2, <1>3, <1>4, <1>5 DEF Call

(* The shell has a call in the driver only while operate_lock is at a      *)
(* step, and it is the call of that step.                                  *)
CallIsCurrent ==
  /\ boot.reg # "done" => Pending = NoReq /\ job.step = Idle
  /\ Pending # NoReq => Pending = Call /\ job.step # Idle

(* What a transfer of the initialisation does to the registers.            *)
LEMMA BootStep ==
  ASSUME TypeOK, Boot
  PROVE  /\ faults' = faults \/ faults' = faults + 1
         /\ boot.reg = "config" \/ boot.reg = "output"
         /\ boot.reg = "config" =>
              boot'.reg = "output" /\ (faults' = faults => Ins' = Pins)
         /\ boot.reg = "output" =>
              boot'.reg = "done" /\ Ins' = Ins /\ (faults' = faults => High' = {})
         /\ Pending' = Pending /\ job' = job
  <1> USE DEF ELEC0, Driver!Chips, Driver!Pins, Pins
  <1>1. boot \in [chip : {0}, reg : {"config", "output", "done"}]
    BY DEF TypeOK, Driver!TypeOK
  <1>2. faults \in Nat
    BY DEF TypeOK, Driver!TypeOK
  <1>3. config \in [{0} -> SUBSET Pins] /\ output \in [{0} -> SUBSET Pins]
    BY DEF TypeOK, Driver!TypeOK
  <1>4. CASE Driver!InitConfig
    BY <1>1, <1>2, <1>3, <1>4 DEF Boot, Driver!InitConfig, Driver!WriteData, Driver!Arrived,
         Driver!Transfer, Ins, High, Pending
  <1>5. CASE Driver!InitOutput
    BY <1>1, <1>2, <1>3, <1>5 DEF Boot, Driver!InitOutput, Driver!NextChip, Driver!WriteData, Driver!Arrived,
         Driver!Transfer, Ins, High, Pending
  <1> QED
    BY <1>4, <1>5 DEF Boot

(* A call begins: its copy holds no bit that the register does not have.   *)
LEMMA BeginStep ==
  ASSUME TypeOK, Begin
  PROVE  /\ faults' = faults \/ faults' = faults + 1
         /\ Pending = NoReq /\ Pending' = Call /\ job.step # Idle /\ boot.reg = "done"
         /\ Copy' \subseteq Driver!SourceReg(Call)
         /\ faults' = faults => Copy' = Driver!SourceReg(Call)
         /\ High' = High /\ Ins' = Ins /\ job' = job /\ boot' = boot
  <1> USE DEF ELEC0, Driver!Chips, Driver!Pins, Pins
  <1>0. job \in [slot : Slots, stat : {"unlock", "lock"}, step : 0 .. 5]
    BY DEF TypeOK
  <1>1. faults \in Nat /\ req \in [{tshell} -> Driver!Requests \cup {NoReq}]
        /\ temp \in [{tshell} -> SUBSET Pins]
    BY DEF TypeOK, Driver!TypeOK
  <1>2. config \in [{0} -> SUBSET Pins] /\ output \in [{0} -> SUBSET Pins]
    BY DEF TypeOK, Driver!TypeOK
  <1>3. PICK n \in 0 .. 2 :
          /\ Driver!Transfer(n)
          /\ temp' = [temp EXCEPT ![tshell] = Driver!ReadData(Driver!SourceReg(Call), n)]
    BY DEF Begin, Driver!ReadRegister
  <1>4. /\ req[tshell] = NoReq /\ boot.reg = "done" /\ job.step # Idle
        /\ req' = [req EXCEPT ![tshell] = Call]
        /\ output' = output /\ config' = config /\ boot' = boot /\ job' = job
    BY DEF Begin, Driver!ReadRegister
  <1>5. Copy' = Driver!SourceReg(Call) \cap Driver!Arrived(n)
    BY <1>1, <1>3 DEF Copy, Driver!ReadData
  <1>6. Driver!SourceReg(Call) \subseteq Pins
    <2>1. Call.chip = 0
      BY DEF Call
    <2> QED
      BY <2>1, <1>2 DEF Driver!SourceReg
  <1>7. faults' = faults \/ faults' = faults + 1
    BY <1>3 DEF Driver!Transfer
  <1>8. faults' = faults => n = 2
    BY <1>1, <1>3 DEF Driver!Transfer
  <1>9. faults' = faults => Copy' = Driver!SourceReg(Call)
    BY <1>5, <1>6, <1>8 DEF Driver!Arrived
  <1> QED
    BY <1>1, <1>4, <1>5, <1>7, <1>9 DEF Pending, High, Ins

(* A call ends: the register it names takes the bytes that arrive.         *)
LEMMA EndStep ==
  ASSUME TypeOK, End, Pending = Call
  PROVE  /\ faults' = faults \/ faults' = faults + 1
         /\ boot' = boot /\ Pending # NoReq /\ Pending' = NoReq /\ Advance
         /\ Call.cmd \in {"HIGH", "LOW"} =>
              /\ Ins' = Ins
              /\ High' \subseteq High \cup Driver!Modify(Call, Copy)
              /\ faults' = faults => High' = Driver!Modify(Call, Copy)
         /\ Call.cmd = "OUTPUT" =>
              /\ High' = High
              /\ Ins' \subseteq Ins \cup Driver!Modify(Call, Copy)
              /\ Ins \cap Driver!Modify(Call, Copy) \subseteq Ins'
              /\ faults' = faults => Ins' = Driver!Modify(Call, Copy)
  <1> USE DEF ELEC0, Driver!Chips, Driver!Pins, Pins, Pending, Copy
  <1>1. faults \in Nat /\ req \in [{tshell} -> Driver!Requests \cup {NoReq}]
        /\ temp \in [{tshell} -> SUBSET Pins]
    BY DEF TypeOK, Driver!TypeOK
  <1>2. config \in [{0} -> SUBSET Pins] /\ output \in [{0} -> SUBSET Pins]
    BY DEF TypeOK, Driver!TypeOK
  <1>3. Call.chip = 0
    BY DEF Call
  <1>4. /\ Pending # NoReq /\ boot' = boot /\ Advance
        /\ req' = [req EXCEPT ![tshell] = NoReq]
    BY DEF End, Driver!WriteRegister
  <1> DEFINE buf == Driver!Modify(Call, temp[tshell])
  <1>5. PICK n \in 0 .. 2 :
          /\ Driver!Transfer(n)
          /\ \/ /\ Call.cmd \in {"HIGH", "LOW"}
                /\ output' = [output EXCEPT ![0] = Driver!WriteData(@, n, buf)]
                /\ config' = config
             \/ /\ Call.cmd \in {"OUTPUT", "INPUT"}
                /\ config' = [config EXCEPT ![0] = Driver!WriteData(@, n, buf)]
                /\ output' = output
             \/ Call.cmd = "INVERT" /\ output' = output /\ config' = config
    BY <1>3 DEF End, Driver!WriteRegister, Driver!WriteCmds
  <1>6. buf \subseteq Pins
    <2>1. Call \in Driver!Requests
      BY <1>1, <1>4
    <2> QED
      BY <2>1, <1>1 DEF Driver!Modify, Driver!Requests
  <1> HIDE DEF buf
  <1>7. \A reg \in SUBSET Pins :
          /\ Driver!WriteData(reg, n, buf) \subseteq reg \cup buf
          /\ reg \cap buf \subseteq Driver!WriteData(reg, n, buf)
          /\ n = 2 => Driver!WriteData(reg, n, buf) = buf
    BY <1>6 DEF Driver!WriteData, Driver!Arrived
  <1>8. faults' = faults \/ faults' = faults + 1
    BY <1>5 DEF Driver!Transfer
  <1>9. faults' = faults => n = 2
    BY <1>1, <1>5 DEF Driver!Transfer
  <1>10. ASSUME Call.cmd \in {"HIGH", "LOW"}
         PROVE  /\ Ins' = Ins /\ High' \subseteq High \cup buf
                /\ faults' = faults => High' = buf
    BY <1>2, <1>5, <1>7, <1>9, <1>10 DEF High, Ins
  <1>11. ASSUME Call.cmd = "OUTPUT"
         PROVE  /\ High' = High /\ Ins' \subseteq Ins \cup buf /\ Ins \cap buf \subseteq Ins'
                /\ faults' = faults => Ins' = buf
    BY <1>2, <1>5, <1>7, <1>9, <1>11 DEF High, Ins
  <1>12. Pending' = NoReq
    BY <1>1, <1>4
  <1> QED
    BY <1>4, <1>8, <1>10, <1>11, <1>12 DEF buf

(* The types of the registers, of the command and of the driver's call.    *)
LEMMA TypeInit == Init => TypeOK
  <1> SUFFICES ASSUME Init PROVE TypeOK
    OBVIOUS
  <1> USE DEF ELEC0, Driver!Chips, Driver!Pins
  <1>1. /\ output \in [0 .. 1 - 1 -> SUBSET (Port0 \cup Port1)]
        /\ config \in [0 .. 1 - 1 -> SUBSET (Port0 \cup Port1)]
        /\ polarity \in [0 .. 1 - 1 -> SUBSET (Port0 \cup Port1)]
    BY DEF Init, Driver!Init
  <1>2. boot \in [chip : 0 .. 1 - 1, reg : {"config", "output", "done"}]
    BY DEF Init, Driver!Init
  <1>3. req \in [{tshell} -> Driver!Requests \cup {NoReq}]
    BY DEF Init, Driver!Init
  <1>4. temp \in [{tshell} -> SUBSET (Port0 \cup Port1)]
    BY DEF Init, Driver!Init
  <1>5. faults \in 0 .. MaxFaults
    BY ElecLockAssumption DEF Init, Driver!Init
  <1>6. opened \in BOOLEAN
    BY DEF Init
  <1>7. job \in [slot : Slots, stat : {"unlock", "lock"}, step : 0 .. 5]
    BY DEF Init, Idle
  <1> QED
    BY <1>1, <1>2, <1>3, <1>4, <1>5, <1>6, <1>7 DEF TypeOK, Driver!TypeOK

(* Every step keeps the types: a call of the script is one the driver has.*)
LEMMA TypeNext ==
  ASSUME TypeOK, CallIsCurrent, [Next]_vars
  PROVE  TypeOK'
  <1> USE ElecLockAssumption DEF ELEC0, Driver!Chips, Driver!Pins
  <1>1. CASE Boot
    BY <1>1 DEF TypeOK, Driver!TypeOK, Boot, Driver!InitConfig, Driver!InitOutput, Driver!NextChip,
         Driver!WriteData, Driver!Arrived, Driver!Transfer
  <1>2. CASE ElecInit
    BY <1>2 DEF TypeOK, Driver!TypeOK, ElecInit
  <1>3. CASE OperateLock
    BY <1>3 DEF TypeOK, Driver!TypeOK, OperateLock
  <1>4. CASE Begin
    <2>0. job \in [slot : Slots, stat : {"unlock", "lock"}, step : 0 .. 5] /\ opened \in BOOLEAN
      BY DEF TypeOK
    <2>1. Call \in Driver!Requests
      <3>1. job.step \in 1 .. 5
        BY <1>4, <2>0 DEF Begin, Idle
      <3> QED
        BY <3>1, <2>0, Script DEF Driver!Requests, Pins
    <2>2. job' = job /\ opened' = opened /\ output' = output /\ config' = config
          /\ polarity' = polarity /\ boot' = boot
      BY <1>4 DEF Begin, Driver!ReadRegister
    <2>3. req' \in [{tshell} -> Driver!Requests \cup {NoReq}]
      BY <1>4, <2>1 DEF Begin, Driver!ReadRegister, TypeOK, Driver!TypeOK
    <2>4. faults' \in 0 .. MaxFaults
      BY <1>4 DEF Begin, Driver!ReadRegister, TypeOK, Driver!TypeOK, Driver!Transfer
    <2>5. temp' \in [{tshell} -> SUBSET (Port0 \cup Port1)]
      <3>1. temp \in [{tshell} -> SUBSET (Port0 \cup Port1)]
        BY DEF TypeOK, Driver!TypeOK
      <3>2. \A n \in 0 .. 2 : Driver!ReadData(Driver!SourceReg(Call), n) \subseteq Port0 \cup Port1
        BY DEF Driver!ReadData, Driver!Arrived
      <3> QED
        BY <1>4, <3>1, <3>2 DEF Begin, Driver!ReadRegister
    <2> QED
      BY <2>0, <2>2, <2>3, <2>4, <2>5 DEF TypeOK, Driver!TypeOK
  <1>5. CASE End
    <2>0. job \in [slot : Slots, stat : {"unlock", "lock"}, step : 0 .. 5] /\ opened \in BOOLEAN
      BY DEF TypeOK
    <2>1. Pending \in Driver!Requests
      BY <1>5 DEF End, Driver!WriteRegister, Pending, TypeOK, Driver!TypeOK
    <2>2. faults' \in 0 .. MaxFaults
      BY <1>5 DEF End, Driver!WriteRegister, TypeOK, Driver!TypeOK, Driver!Transfer
    <2>3. /\ req' \in [{tshell} -> Driver!Requests \cup {NoReq}]
          /\ temp' \in [{tshell} -> SUBSET (Port0 \cup Port1)]
          /\ boot' = boot /\ opened' = opened
      BY <1>5 DEF End, Driver!WriteRegister, TypeOK, Driver!TypeOK
    <2>4. /\ output' \in [0 .. 1 - 1 -> SUBSET (Port0 \cup Port1)]
          /\ config' \in [0 .. 1 - 1 -> SUBSET (Port0 \cup Port1)]
          /\ polarity' \in [0 .. 1 - 1 -> SUBSET (Port0 \cup Port1)]
      <3>1. \A n \in 0 .. 2 : \A reg \in SUBSET (Port0 \cup Port1) :
              Driver!WriteData(reg, n, Driver!Modify(Pending, temp[tshell])) \in SUBSET (Port0 \cup Port1)
        <4>1. Driver!Modify(Pending, temp[tshell]) \subseteq Port0 \cup Port1
          BY <2>1 DEF Driver!Modify, Driver!Requests, TypeOK, Driver!TypeOK
        <4> QED
          BY <4>1 DEF Driver!WriteData, Driver!Arrived
      <3>2. Pending.chip = 0
        BY <2>1 DEF Driver!Requests
      <3> QED
        BY <1>5, <3>1, <3>2 DEF End, Driver!WriteRegister, Pending, TypeOK, Driver!TypeOK
    <2>5. job' \in [slot : Slots, stat : {"unlock", "lock"}, step : 0 .. 5]
      <3>1. Len(Toggle) = 5
        BY <2>0, Script
      <3>2. Advance
        BY <1>5 DEF End
      <3> QED
        BY <2>0, <3>1, <3>2 DEF Advance, Idle
    <2> QED
      BY <2>2, <2>3, <2>4, <2>5 DEF TypeOK, Driver!TypeOK
  <1>6. CASE UNCHANGED vars
    BY <1>6 DEF vars, TypeOK, Driver!TypeOK
  <1> QED
    BY <1>1, <1>2, <1>3, <1>4, <1>5, <1>6 DEF Next, Shell

(* A call begins at its step of the script and ends with the step.         *)
LEMMA CallNext ==
  ASSUME TypeOK, CallIsCurrent, [Next]_vars
  PROVE  CallIsCurrent'
  <1> USE DEF CallIsCurrent
  <1>1. CASE Boot
    <2>1. boot.reg # "done" /\ Pending' = Pending /\ job' = job
      BY <1>1, BootStep
    <2> QED
      BY <2>1
  <1>2. CASE ElecInit
    BY <1>2 DEF ElecInit, Pending, Call, Toggle, APoint, BPoint
  <1>3. CASE OperateLock
    BY <1>3 DEF OperateLock, Pending
  <1>4. CASE Begin
    <2>1. Pending' = Call /\ job.step # Idle /\ boot.reg = "done" /\ job' = job /\ boot' = boot
      BY <1>4, BeginStep
    <2>2. Call' = Call
      BY <2>1 DEF Call, Toggle, APoint, BPoint
    <2> QED
      BY <2>1, <2>2
  <1>5. CASE End
    <2>1. Pending # NoReq
      BY <1>5 DEF End, Driver!WriteRegister, Pending
    <2>2. boot' = boot /\ Pending' = NoReq
      BY <1>5, <2>1, EndStep
    <2> QED
      BY <2>1, <2>2
  <1>6. CASE UNCHANGED vars
    BY <1>6 DEF vars, Pending, Call, Toggle, APoint, BPoint
  <1> QED
    BY <1>1, <1>2, <1>3, <1>4, <1>5, <1>6 DEF Next, Shell

(* Types: the calls elec_toggle makes are calls the driver accepts, and no *)
(* call is under way while nca9555_init runs.                              *)
THEOREM TypeCorrect == Spec => [](TypeOK /\ CallIsCurrent)
  <1>1. Init => TypeOK
    BY TypeInit
  <1>2. Init => CallIsCurrent
    BY DEF Init, Driver!Init, CallIsCurrent, Pending, Idle
  <1>3. TypeOK /\ CallIsCurrent /\ [Next]_vars => TypeOK' /\ CallIsCurrent'
    BY TypeNext, CallNext
  <1> QED
    BY <1>1, <1>2, <1>3, PTL DEF Spec

-----------------------------------------------------------------------------
(* The inductive invariant about the coils.                                *)

(* As long as no transfer has failed: the chip is released before its      *)
(* levels are cleared, and then only the pulsed coil has a high level, and *)
(* only between the fourth and the fifth call.                             *)
Clean ==
  faults = 0 =>
    /\ boot.reg = "output" => Ins = Pins
    /\ boot.reg = "done" => High = IF job.step = 5 THEN {APoint} ELSE {}

(* The bytes between the two transfers of a call are bits of the register. *)
CopyWithin == Pending # NoReq => Copy \subseteq Driver!SourceReg(Pending)

(* With one failure at most, the other coil is low from the third call on. *)
OtherLow == boot.reg = "done" /\ faults <= 1 /\ job.step >= 3 => BPoint \notin High

(* No lock has the levels of both coils high.                              *)
NoPair == \A i \in Slots : ~ Both(i) \subseteq High

(* The failure was that of nca9555_init, which left old levels: then the   *)
(* copies are exact, and a lock whose levels are both high has its pins as *)
(* inputs, or is the one being pulsed, with one coil made an output.       *)
Leftover ==
  /\ faults = 1
  /\ Pending # NoReq => Copy = Driver!SourceReg(Pending)
  /\ \A i \in Slots : Both(i) \subseteq High =>
       \/ Both(i) \subseteq Ins
       \/ job.step = 2 /\ i = job.slot /\ APoint \in Ins

Pairs == boot.reg = "done" /\ faults <= 1 => NoPair \/ Leftover

CoilInv == Clean /\ CopyWithin /\ OtherLow /\ Pairs

(* Before nca9555_init nothing is claimed of the coils.                    *)
LEMMA CoilInit == Init => CoilInv
  <1> SUFFICES ASSUME Init PROVE CoilInv
    OBVIOUS
  <1>1. boot.reg = "config" /\ Pending = NoReq
    BY DEF Init, Driver!Init, Pending
  <1> QED
    BY <1>1 DEF CoilInv, Clean, CopyWithin, OtherLow, Pairs

(* nca9555_init: of its two writes one may fail.                           *)
LEMMA CoilBoot ==
  ASSUME TypeOK, CallIsCurrent, CoilInv, Boot
  PROVE  CoilInv'
  <1>1. /\ faults' = faults \/ faults' = faults + 1
        /\ Pending' = Pending /\ job' = job
        /\ boot.reg = "config" \/ boot.reg = "output"
    BY BootStep
  <1>2. /\ boot.reg = "config" =>
             boot'.reg = "output" /\ (faults' = faults => Ins' = Pins)
        /\ boot.reg = "output" =>
             boot'.reg = "done" /\ Ins' = Ins /\ (faults' = faults => High' = {})
    BY BootStep
  <1>3. faults \in Nat
    BY DEF TypeOK, Driver!TypeOK
  <1>4. Pending = NoReq /\ job.step = 0
    BY <1>1 DEF CallIsCurrent, Idle
  <1>5. Pins' = Pins
    BY DEF Pins, Port0, Port1
  <1>6. \A i \in Slots : Both(i) \subseteq Pins
    BY DEF Both, Pins, Port0, Port1
  <1>7. Clean'
    BY <1>1, <1>2, <1>3, <1>4, <1>5 DEF Clean, CoilInv
  <1>8. CopyWithin' /\ OtherLow'
    BY <1>1, <1>4 DEF CopyWithin, OtherLow
  <1>9. Pairs'
    <2> SUFFICES ASSUME boot'.reg = "done", faults' <= 1
                 PROVE  (NoPair \/ Leftover)'
      BY DEF Pairs
    <2>1. boot.reg = "output"
      BY <1>1, <1>2
    <2>2. CASE faults' = faults
      <3>1. High' = {}
        BY <1>2, <2>1, <2>2
      <3> QED
        BY <3>1 DEF NoPair, Both
    <2>3. CASE faults' = faults + 1
      <3>1. faults = 0 /\ faults' = 1
        BY <1>3, <2>3
      <3>2. Ins' = Pins
        BY <1>2, <2>1, <3>1 DEF CoilInv, Clean
      <3>3. Pending' = NoReq
        BY <1>1, <1>4
      <3> QED
        BY <3>1, <3>2, <3>3, <1>6 DEF Leftover, Both
    <2> QED
      BY <1>1, <2>2, <2>3
  <1> QED
    BY <1>7, <1>8, <1>9 DEF CoilInv

(* A read, whole or not, moves no coil.                                    *)
LEMMA CoilBegin ==
  ASSUME TypeOK, CallIsCurrent, CoilInv, Begin
  PROVE  CoilInv'
  <1>1. /\ faults' = faults \/ faults' = faults + 1
        /\ Pending = NoReq /\ Pending' = Call /\ boot.reg = "done"
        /\ Copy' \subseteq Driver!SourceReg(Call)
        /\ faults' = faults => Copy' = Driver!SourceReg(Call)
    BY BeginStep
  <1>2. High' = High /\ Ins' = Ins /\ job' = job /\ boot' = boot
    BY BeginStep
  <1>3. faults \in Nat
    BY DEF TypeOK, Driver!TypeOK
  <1>4. APoint' = APoint /\ BPoint' = BPoint /\ Pins' = Pins
    BY <1>2 DEF APoint, BPoint, Pins, Port0, Port1
  <1>5. Driver!SourceReg(Pending)' = Driver!SourceReg(Call)
    <2>1. output' = output /\ config' = config
      BY DEF Begin, Driver!ReadRegister
    <2> QED
      BY <1>1, <2>1 DEF Driver!SourceReg
  <1>6. Clean'
    BY <1>1, <1>2, <1>3, <1>4 DEF Clean, CoilInv
  <1>7. CopyWithin'
    BY <1>1, <1>5 DEF CopyWithin
  <1>8. OtherLow'
    BY <1>1, <1>2, <1>3, <1>4 DEF OtherLow, CoilInv
  <1>9. Pairs'
    <2> SUFFICES ASSUME faults' <= 1
                 PROVE  (NoPair \/ Leftover)'
      BY DEF Pairs
    <2>1. NoPair \/ Leftover
      BY <1>1, <1>3 DEF CoilInv, Pairs
    <2>2. CASE NoPair
      BY <1>2, <2>2 DEF NoPair, Both
    <2>3. CASE Leftover
      <3>1. faults' = faults
        BY <1>1, <2>3 DEF Leftover
      <3>2. Copy' = Driver!SourceReg(Pending)'
        BY <1>1, <1>5, <3>1
      <3> QED
        BY <1>2, <1>4, <2>3, <3>1, <3>2 DEF Leftover, Both
    <2> QED
      BY <2>1, <2>2, <2>3
  <1> QED
    BY <1>6, <1>7, <1>8, <1>9 DEF CoilInv

(* The end of a call, at any of the five steps of the script.              *)
LEMMA CoilEnd ==
  ASSUME TypeOK, CallIsCurrent, CoilInv, End
  PROVE  CoilInv'
  <1>1. Pending # NoReq
    BY DEF End, Driver!WriteRegister, Pending
  <1>2. Pending = Call /\ job.step # 0 /\ boot.reg = "done"
    BY <1>1 DEF CallIsCurrent, Idle
  <1>3. job \in [slot : Slots, stat : {"unlock", "lock"}, step : 0 .. 5] /\ faults \in Nat
    BY DEF TypeOK, Driver!TypeOK
  <1>4. job.step \in 1 .. 5 /\ job.slot \in Slots
    BY <1>2, <1>3
  <1>5. /\ faults' = faults \/ faults' = faults + 1
        /\ boot' = boot /\ Pending' = NoReq /\ Advance
    BY <1>2, EndStep
  <1>6. Call.cmd \in {"HIGH", "LOW"} =>
          /\ Ins' = Ins
          /\ High' \subseteq High \cup Driver!Modify(Call, Copy)
          /\ faults' = faults => High' = Driver!Modify(Call, Copy)
    BY <1>2, EndStep
  <1>7. Call.cmd = "OUTPUT" =>
          /\ High' = High
          /\ faults' = faults => Ins' = Driver!Modify(Call, Copy)
    BY <1>2, EndStep
  <1>8. /\ Len(Toggle) = 5 /\ APoint # BPoint
        /\ Both(job.slot) = {APoint, BPoint}
    BY <1>3, Script
  <1>9. \A i \in Slots : i # job.slot => APoint \notin Both(i) /\ BPoint \notin Both(i)
    BY DEF Both, APoint, BPoint, IO
  <1>10. job.step < 5 =>
           job'.step = job.step + 1 /\ job'.slot = job.slot /\ APoint' = APoint /\ BPoint' = BPoint
    BY <1>3, <1>5, <1>8 DEF Advance, APoint, BPoint
  <1>11. job.step = 5 => job'.step \in {0, 1}
    BY <1>3, <1>5, <1>8 DEF Advance, Idle
  <1>12. Call.cmd \in {"HIGH", "LOW"} =>
           Copy \subseteq High /\ (Leftover => Copy = High)
    <2>1. Call.chip = ELEC0
      BY DEF Call
    <2> QED
      BY <1>1, <1>2, <2>1 DEF CoilInv, CopyWithin, Leftover, Driver!SourceReg, Driver!WriteCmds, High
  <1>13. Call.cmd = "OUTPUT" => (Leftover => Copy = Ins)
    <2>1. Call.chip = ELEC0
      BY DEF Call
    <2> QED
      BY <1>1, <1>2, <2>1 DEF Leftover, Driver!SourceReg, Driver!WriteCmds, Ins
  <1>14. faults = 0 => High = IF job.step = 5 THEN {APoint} ELSE {}
    BY <1>2 DEF CoilInv, Clean
  <1>15. faults <= 1 /\ job.step >= 3 => BPoint \notin High
    BY <1>2 DEF CoilInv, OtherLow
  <1>16. faults <= 1 => NoPair \/ Leftover
    BY <1>2 DEF CoilInv, Pairs
  <1>17. faults' <= 1 => faults <= 1 /\ (Leftover => faults' = faults)
    BY <1>3, <1>5 DEF Leftover
  <1>18. CopyWithin'
    BY <1>5 DEF CopyWithin
  <1>19. faults' = 0 => faults = 0 /\ faults' = faults
    BY <1>3, <1>5
  <1>20. faults' # faults /\ faults' <= 1 => faults = 0
    BY <1>3, <1>5
  <1> DEFINE Fits(i) == Both(i) \subseteq Ins' \/ (job'.step = 2 /\ i = job'.slot /\ APoint' \in Ins')
  <1>21. ASSUME Leftover, faults' <= 1,
                \A i \in Slots : Both(i) \subseteq High' => Fits(i)
         PROVE  Leftover'
    <2>1. faults' = 1
      BY <1>17, <1>21 DEF Leftover
    <2>2. \A i \in Slots : Both(i)' = Both(i)
      BY DEF Both
    <2> QED
      BY <1>5, <1>21, <2>1, <2>2 DEF Leftover
  <1>22. ASSUME NoPair, High' \subseteq High PROVE NoPair'
    BY <1>22 DEF NoPair, Both
  <1>23. Leftover => \A i \in Slots : i # job.slot /\ Both(i) \subseteq High => Both(i) \subseteq Ins
    BY DEF Leftover
  <1> HIDE DEF Fits
  <1>a. CASE job.step = 1
    <2>1. Call = [chip |-> ELEC0, pin |-> BPoint, cmd |-> "OUTPUT"]
      BY <1>3, <1>a, Script
    <2>2. High' = High /\ (faults' = faults => Ins' = Copy \ {BPoint})
      BY <1>7, <2>1 DEF Driver!Modify
    <2>3. job'.step = 2 /\ job'.slot = job.slot /\ APoint' = APoint
      BY <1>10, <1>a
    <2>4. Clean'
      BY <1>2, <1>5, <1>14, <1>19, <1>a, <2>2, <2>3 DEF Clean
    <2>5. OtherLow'
      BY <2>3 DEF OtherLow
    <2>6. ASSUME Leftover, faults' <= 1 PROVE Leftover'
      <3>1. Ins' = Ins \ {BPoint}
        BY <1>13, <1>17, <2>1, <2>2, <2>6
      <3>2. ASSUME NEW i \in Slots, Both(i) \subseteq High', i # job.slot PROVE Fits(i)
        BY <1>9, <1>23, <2>2, <2>6, <3>1, <3>2 DEF Fits
      <3>3. ASSUME NEW i \in Slots, Both(i) \subseteq High', i = job.slot PROVE Fits(i)
        <4>1. Both(i) \subseteq Ins
          BY <1>a, <2>2, <2>6, <3>3 DEF Leftover
        <4> QED
          BY <1>8, <2>3, <3>1, <3>3, <4>1 DEF Fits
      <3> QED
        BY <1>21, <2>6, <3>2, <3>3
    <2> QED
      BY <1>16, <1>17, <1>18, <1>22, <2>2, <2>4, <2>5, <2>6 DEF CoilInv, Pairs
  <1>b. CASE job.step = 2
    <2>1. Call = [chip |-> ELEC0, pin |-> BPoint, cmd |-> "LOW"]
      BY <1>3, <1>b, Script
    <2>2. Ins' = Ins /\ High' \subseteq High /\ (faults' = faults => High' = Copy \ {BPoint})
      BY <1>6, <1>12, <2>1 DEF Driver!Modify
    <2>3. job'.step = 3 /\ BPoint' = BPoint
      BY <1>10, <1>b
    <2>4. Clean'
      BY <1>2, <1>5, <1>14, <1>19, <1>b, <2>2, <2>3 DEF Clean
    <2>5. OtherLow'
      BY <1>14, <1>20, <1>b, <2>2, <2>3 DEF OtherLow
    <2>6. ASSUME Leftover, faults' <= 1 PROVE Leftover'
      <3>1. High' = High \ {BPoint}
        BY <1>12, <1>17, <2>1, <2>2, <2>6
      <3>2. ASSUME NEW i \in Slots, Both(i) \subseteq High' PROVE Fits(i)
        <4>1. i # job.slot
          BY <1>8, <3>1, <3>2
        <4> QED
          BY <1>23, <2>2, <2>6, <3>2, <4>1 DEF Fits
      <3> QED
        BY <1>21, <2>6, <3>2
    <2> QED
      BY <1>16, <1>17, <1>18, <1>22, <2>2, <2>4, <2>5, <2>6 DEF CoilInv, Pairs
  <1>c. CASE job.step = 3
    <2>1. Call = [chip |-> ELEC0, pin |-> APoint, cmd |-> "OUTPUT"]
      BY <1>3, <1>c, Script
    <2>2. High' = High /\ (faults' = faults => Ins' = Copy \ {APoint})
      BY <1>7, <2>1 DEF Driver!Modify
    <2>3. job'.step = 4 /\ BPoint' = BPoint
      BY <1>10, <1>c
    <2>4. Clean'
      BY <1>2, <1>5, <1>14, <1>19, <1>c, <2>2, <2>3 DEF Clean
    <2>5. OtherLow'
      BY <1>15, <1>17, <1>c, <2>2, <2>3 DEF OtherLow
    <2>6. ASSUME Leftover, faults' <= 1 PROVE Leftover'
      <3>1. Ins' = Ins \ {APoint} /\ BPoint \notin High
        BY <1>13, <1>15, <1>17, <1>c, <2>1, <2>2, <2>6
      <3>2. ASSUME NEW i \in Slots, Both(i) \subseteq High' PROVE Fits(i)
        <4>1. i # job.slot
          BY <1>8, <2>2, <3>1, <3>2
        <4> QED
          BY <1>9, <1>23, <2>2, <2>6, <3>1, <3>2, <4>1 DEF Fits
      <3> QED
        BY <1>21, <2>6, <3>2
    <2> QED
      BY <1>16, <1>17, <1>18, <1>22, <2>2, <2>4, <2>5, <2>6 DEF CoilInv, Pairs
  <1>d. CASE job.step = 4
    <2>1. Call = [chip |-> ELEC0, pin |-> APoint, cmd |-> "HIGH"]
      BY <1>3, <1>d, Script
    <2>2. /\ Ins' = Ins /\ High' \subseteq High \cup {APoint}
          /\ faults' = faults => High' = Copy \cup {APoint}
      BY <1>6, <1>12, <2>1 DEF Driver!Modify
    <2>3. job'.step = 5 /\ APoint' = APoint /\ BPoint' = BPoint
      BY <1>10, <1>d
    <2>4. Clean'
      <3>1. ASSUME faults' = 0 PROVE High' = {APoint}
        BY <1>12, <1>14, <1>19, <1>d, <2>1, <2>2, <3>1
      <3> QED
        BY <1>2, <1>5, <2>3, <3>1 DEF Clean
    <2>5. OtherLow'
      BY <1>8, <1>15, <1>17, <1>d, <2>2, <2>3 DEF OtherLow
    <2>6. ASSUME faults' <= 1, NEW i \in Slots, Both(i) \subseteq High'
          PROVE  i # job.slot /\ Both(i) \subseteq High
      <3>1. i # job.slot
        BY <1>8, <1>15, <1>17, <1>d, <2>2, <2>6
      <3> QED
        BY <1>9, <2>2, <2>6, <3>1
    <2>7. ASSUME NoPair, faults' <= 1 PROVE NoPair'
      <3>1. \A i \in Slots : ~ Both(i) \subseteq High'
        BY <2>6, <2>7 DEF NoPair
      <3> QED
        BY <3>1 DEF NoPair, Both
    <2>8. ASSUME Leftover, faults' <= 1 PROVE Leftover'
      <3>1. ASSUME NEW i \in Slots, Both(i) \subseteq High' PROVE Fits(i)
        BY <1>23, <2>2, <2>6, <2>8, <3>1 DEF Fits
      <3> QED
        BY <1>21, <2>8, <3>1
    <2> QED
      BY <1>16, <1>17, <1>18, <2>4, <2>5, <2>7, <2>8 DEF CoilInv, Pairs
  <1>e. CASE job.step = 5
    <2>1. Call = [chip |-> ELEC0, pin |-> APoint, cmd |-> "LOW"]
      BY <1>3, <1>e, Script
    <2>2. Ins' = Ins /\ High' \subseteq High /\ (faults' = faults => High' = Copy \ {APoint})
      BY <1>6, <1>12, <2>1 DEF Driver!Modify
    <2>3. job'.step \in {0, 1}
      BY <1>11, <1>e
    <2>4. Clean'
      <3>1. ASSUME faults' = 0 PROVE High' = {}
        BY <1>12, <1>14, <1>19, <1>e, <2>1, <2>2, <3>1
      <3> QED
        BY <1>2, <1>5, <2>3, <3>1 DEF Clean
    <2>5. OtherLow'
      BY <2>3 DEF OtherLow
    <2>6. ASSUME Leftover, faults' <= 1 PROVE Leftover'
      <3>1. BPoint \notin High
        BY <1>15, <1>17, <1>e, <2>6
      <3>2. ASSUME NEW i \in Slots, Both(i) \subseteq High' PROVE Fits(i)
        <4>1. i # job.slot
          BY <1>8, <2>2, <3>1, <3>2
        <4> QED
          BY <1>23, <2>2, <2>6, <3>2, <4>1 DEF Fits
      <3> QED
        BY <1>21, <2>6, <3>2
    <2> QED
      BY <1>16, <1>17, <1>18, <1>22, <2>2, <2>4, <2>5, <2>6 DEF CoilInv, Pairs
  <1> QED
    BY <1>4, <1>a, <1>b, <1>c, <1>d, <1>e

(* operate_lock starts with levels that are all low, or with those that a  *)
(* failure has left.                                                       *)
LEMMA CoilOperate ==
  ASSUME TypeOK, CallIsCurrent, CoilInv, OperateLock
  PROVE  CoilInv'
  <1>1. boot.reg = "done" /\ job.step = 0 /\ job'.step = 1 /\ boot' = boot
    BY DEF OperateLock, Idle
  <1>2. /\ High' = High /\ Ins' = Ins /\ faults' = faults
        /\ Pending' = Pending /\ Copy' = Copy
        /\ output' = output /\ config' = config
    BY DEF OperateLock, High, Ins, Pending, Copy
  <1>3. Pending = NoReq
    BY <1>1 DEF CallIsCurrent, Idle
  <1>4. Clean' /\ CopyWithin' /\ OtherLow'
    BY <1>1, <1>2, <1>3 DEF CoilInv, Clean, CopyWithin, OtherLow
  <1>5. NoPair => NoPair'
    BY <1>2 DEF NoPair, Both
  <1>6. Leftover => Leftover'
    <2>1. \A i \in Slots : Both(i)' = Both(i)
      BY DEF Both
    <2> QED
      BY <1>1, <1>2, <1>3, <2>1 DEF Leftover
  <1> QED
    BY <1>1, <1>2, <1>4, <1>5, <1>6 DEF CoilInv, Pairs

(* ELEC opens the device; nothing the invariant speaks of changes.         *)
LEMMA CoilSame ==
  ASSUME CoilInv, UNCHANGED <<driver, job>>
  PROVE  CoilInv'
  <1>1. /\ High' = High /\ Ins' = Ins /\ faults' = faults /\ boot' = boot /\ job' = job
        /\ Pending' = Pending /\ Copy' = Copy /\ Pins' = Pins
        /\ APoint' = APoint /\ BPoint' = BPoint
        /\ Driver!SourceReg(Pending)' = Driver!SourceReg(Pending)
    BY DEF driver, High, Ins, Pending, Copy, APoint, BPoint, Pins, Port0, Port1, Driver!SourceReg
  <1>2. \A i \in Slots : Both(i)' = Both(i)
    BY DEF Both
  <1> QED
    BY <1>1, <1>2 DEF CoilInv, Clean, CopyWithin, OtherLow, Pairs, NoPair, Leftover

(* The invariant holds of every execution.                                 *)
LEMMA CoilInvariant == Spec => [](TypeOK /\ CallIsCurrent /\ CoilInv)
  <1>1. Init => CoilInv
    BY CoilInit
  <1>2. TypeOK /\ CallIsCurrent /\ CoilInv /\ [Next]_vars => CoilInv'
    <2> SUFFICES ASSUME TypeOK, CallIsCurrent, CoilInv, [Next]_vars PROVE CoilInv'
      OBVIOUS
    <2>1. CASE Boot
      BY <2>1, CoilBoot
    <2>2. CASE ElecInit
      BY <2>2, CoilSame DEF ElecInit, driver
    <2>3. CASE OperateLock
      BY <2>3, CoilOperate
    <2>4. CASE Begin
      BY <2>4, CoilBegin
    <2>5. CASE End
      BY <2>5, CoilEnd
    <2>6. CASE UNCHANGED vars
      BY <2>6, CoilSame DEF vars, driver
    <2> QED
      BY <2>1, <2>6, <2>2, <2>5, <2>3, <2>4 DEF Next, Shell
  <1> QED
    BY <1>1, <1>2, TypeCorrect, PTL DEF Spec

(* While the bus works, the only energised coil is the one being pulsed.   *)
THEOREM PulseAlone == Spec => []OnlyPulsedCoil
  <1>1. TypeOK /\ CallIsCurrent /\ CoilInv => OnlyPulsedCoil
    <2> SUFFICES ASSUME TypeOK, CoilInv PROVE OnlyPulsedCoil
      OBVIOUS
    <2>1. Len(Toggle) = 5
      BY Script DEF TypeOK
    <2> QED
      BY <2>1 DEF OnlyPulsedCoil, Energised, Driver!Driven, CoilInv, Clean, High
  <1> QED
    BY <1>1, CoilInvariant, PTL

(* With at most one failing transfer, wherever it happens, the two coils   *)
(* of a lock are never energised together, although every error is ignored.*)
THEOREM CoilsExclude == Spec => []NeverBothCoils
  <1>1. TypeOK /\ CallIsCurrent /\ CoilInv => NeverBothCoils
    <2> SUFFICES ASSUME TypeOK, CoilInv, boot.reg = "done", faults <= 1, NEW i \in Slots
                 PROVE  ~ Both(i) \subseteq High \ Ins
      BY DEF NeverBothCoils, Energised, Driver!Driven, High, Ins, Both
    <2>1. CASE NoPair
      BY <2>1 DEF NoPair
    <2>2. CASE Leftover
      <3>1. i = job.slot => APoint \in Both(i)
        BY Script DEF TypeOK
      <3>2. Both(i) # {}
        BY DEF Both
      <3> QED
        BY <2>2, <3>1, <3>2 DEF Leftover
    <2> QED
      BY <2>1, <2>2 DEF CoilInv, Pairs
  <1> QED
    BY <1>1, CoilInvariant, PTL

(* With one failure at most, a call that makes a coil an output has read   *)
(* the CONFIGURATION registers whole, or no coil has a high level.         *)
WholeOrLow ==
  Pending # NoReq /\ Pending.cmd = "OUTPUT" /\ faults <= 1 => Copy = Ins \/ High = {}

(* Only the read of a call can disturb it, and its end ends the call.      *)
LEMMA WholeOrLowStep ==
  TypeOK /\ CallIsCurrent /\ CoilInv /\ WholeOrLow /\ [Next]_vars => WholeOrLow'
  <1> SUFFICES ASSUME TypeOK, CallIsCurrent, CoilInv, WholeOrLow, [Next]_vars
               PROVE  WholeOrLow'
    OBVIOUS
  <1>0. job \in [slot : Slots, stat : {"unlock", "lock"}, step : 0 .. 5] /\ faults \in Nat
    BY DEF TypeOK, Driver!TypeOK
  <1>1. CASE Boot
    <2>1. Pending' = NoReq
      BY <1>1, BootStep DEF CallIsCurrent
    <2> QED
      BY <2>1 DEF WholeOrLow
  <1>2. CASE ElecInit \/ OperateLock \/ UNCHANGED vars
    BY <1>2 DEF ElecInit, OperateLock, vars, WholeOrLow, Pending, Copy, Ins, High
  <1>3. CASE Begin
    <2> SUFFICES ASSUME Call.cmd = "OUTPUT", faults' <= 1
                 PROVE  Copy' = Ins' \/ High' = {}
      BY <1>3, BeginStep DEF WholeOrLow
    <2>1. job.step # 5 /\ Call.chip = ELEC0
      BY <1>0, Script DEF Call
    <2>2. CASE faults' = faults
      <3>1. Copy' = Driver!SourceReg(Call) /\ Ins' = Ins
        BY <1>3, <2>2, BeginStep
      <3>2. Driver!SourceReg(Call) = Ins
        BY <2>1 DEF Driver!SourceReg, Driver!WriteCmds, Ins
      <3> QED
        BY <3>1, <3>2
    <2>3. CASE faults' # faults
      <3>1. faults = 0 /\ boot.reg = "done" /\ High' = High
        BY <1>0, <1>3, <2>3, BeginStep
      <3> QED
        BY <2>1, <3>1 DEF CoilInv, Clean
    <2> QED
      BY <2>2, <2>3
  <1>4. CASE End
    <2>1. Pending # NoReq
      BY <1>4 DEF End, Driver!WriteRegister, Pending
    <2>2. Pending' = NoReq
      BY <1>4, <2>1, EndStep DEF CallIsCurrent
    <2> QED
      BY <2>2 DEF WholeOrLow
  <1> QED
    BY <1>1, <1>2, <1>3, <1>4 DEF Next, Shell

(* No failure of any number of transfers raises a level: the bytes a call  *)
(* writes back are within the register, but for the pin of the fourth call.*)
LEMMA LevelsRaised ==
  ASSUME TypeOK, CallIsCurrent, CoilInv, [Next]_vars, boot.reg = "done"
  PROVE  High' \ High \subseteq IF job.step = 4 THEN {APoint} ELSE {}
  <1>0. job \in [slot : Slots, stat : {"unlock", "lock"}, step : 0 .. 5]
    BY DEF TypeOK
  <1>1. CASE Boot
    BY <1>1, BootStep
  <1>2. CASE ElecInit \/ OperateLock \/ Begin \/ UNCHANGED vars
    <2>1. High' = High
      BY <1>2 DEF ElecInit, OperateLock, Begin, Driver!ReadRegister, vars, High
    <2> QED
      BY <2>1
  <1>3. CASE End
    <2>1. Pending # NoReq
      BY <1>3 DEF End, Driver!WriteRegister, Pending
    <2>2. Pending = Call /\ job.step \in 1 .. 5
      BY <1>0, <2>1 DEF CallIsCurrent, Idle
    <2>3. Copy \subseteq Driver!SourceReg(Call)
      BY <2>1, <2>2 DEF CoilInv, CopyWithin
    <2>4. CASE job.step \in {1, 3}
      <3>1. Call.cmd = "OUTPUT"
        BY <1>0, <2>4, Script
      <3> QED
        BY <1>3, <2>2, <3>1, EndStep
    <2>5. CASE job.step \in {2, 4, 5}
      <3>1. /\ Call.cmd \in {"HIGH", "LOW"} /\ Call.chip = ELEC0
            /\ job.step = 4 => Call.pin = APoint
            /\ job.step # 4 => Call.cmd = "LOW"
        BY <1>0, <2>5, Script
      <3>2. Copy \subseteq High
        BY <2>3, <3>1 DEF Driver!SourceReg, Driver!WriteCmds, High
      <3>3. High' \subseteq High \cup Driver!Modify(Call, Copy)
        BY <1>3, <2>2, <3>1, EndStep
      <3> QED
        BY <3>1, <3>2, <3>3 DEF Driver!Modify
    <2> QED
      BY <2>2, <2>4, <2>5
  <1> QED
    BY <1>1, <1>2, <1>3 DEF Next, Shell

(* A coil begins to be driven when its level rises, or when it becomes an  *)
(* output.                                                                 *)
LEMMA CurrentRaised ==
  ASSUME TypeOK, CallIsCurrent, CoilInv, WholeOrLow, [Next]_vars, boot.reg = "done",
         faults' <= 1
  PROVE  (High \ Ins)' \ (High \ Ins) \subseteq
           CASE job.step \in {3, 4} -> {APoint}
             [] job.step = 1 -> {BPoint}
             [] OTHER -> {}
  <1>0. job \in [slot : Slots, stat : {"unlock", "lock"}, step : 0 .. 5] /\ faults \in Nat
    BY DEF TypeOK, Driver!TypeOK
  <1>1. ~ Boot
    BY BootStep
  <1>2. CASE ElecInit \/ OperateLock \/ Begin \/ UNCHANGED vars
    BY <1>2 DEF ElecInit, OperateLock, Begin, Driver!ReadRegister, vars, High, Ins
  <1>3. CASE End
    <2>1. Pending # NoReq
      BY <1>3 DEF End, Driver!WriteRegister, Pending
    <2>2. Pending = Call /\ job.step \in 1 .. 5
      BY <1>0, <2>1 DEF CallIsCurrent, Idle
    <2>3. CASE job.step \in {1, 3}
      <3>1. Call.cmd = "OUTPUT" /\ Call.pin = IF job.step = 1 THEN BPoint ELSE APoint
        BY <1>0, <2>3, Script
      <3>2. High' = High /\ Ins \cap Driver!Modify(Call, Copy) \subseteq Ins'
        BY <1>3, <2>2, <3>1, EndStep
      <3>3. faults <= 1
        BY <1>0, <1>3, <2>2, EndStep
      <3>4. Copy = Ins \/ High = {}
        BY <2>1, <2>2, <3>1, <3>3 DEF WholeOrLow
      <3>5. (High \ Ins)' \ (High \ Ins) \subseteq {Call.pin}
        BY <3>1, <3>2, <3>4 DEF Driver!Modify
      <3> QED
        BY <2>3, <3>1, <3>5
    <2>4. CASE job.step \in {2, 4, 5}
      <3>1. Call.cmd \in {"HIGH", "LOW"}
        BY <1>0, <2>4, Script
      <3>2. Ins' = Ins
        BY <1>3, <2>2, <3>1, EndStep
      <3>3. High' \ High \subseteq IF job.step = 4 THEN {APoint} ELSE {}
        BY LevelsRaised
      <3> QED
        BY <2>4, <3>2, <3>3
    <2> QED
      BY <2>2, <2>3, <2>4
  <1> QED
    BY <1>1, <1>2, <1>3 DEF Next, Shell

(* A level rises only by the call that begins the pulse of its coil, and   *)
(* with one failure at most current begins to flow only through the coil   *)
(* of the current call.                                                    *)
THEOREM OnlyPulseRaises == Spec => RaisedByPulse
  <1>1. Init => WholeOrLow
    BY DEF Init, Driver!Init, WholeOrLow, Pending
  <1>2. ASSUME TypeOK, CallIsCurrent, CoilInv, WholeOrLow, [Next]_vars
        PROVE  [boot.reg = "done" =>
                  /\ output'[ELEC0] \ output[ELEC0] \subseteq IF job.step = 4 THEN {APoint} ELSE {}
                  /\ faults' <= 1 => Energised' \ Energised \subseteq
                                       CASE job.step \in {3, 4} -> {APoint}
                                         [] job.step = 1 -> {BPoint}
                                         [] OTHER -> {}]_vars
    <2> SUFFICES ASSUME boot.reg = "done"
                 PROVE  /\ High' \ High \subseteq IF job.step = 4 THEN {APoint} ELSE {}
                        /\ faults' <= 1 => (High \ Ins)' \ (High \ Ins) \subseteq
                                             CASE job.step \in {3, 4} -> {APoint}
                                               [] job.step = 1 -> {BPoint}
                                               [] OTHER -> {}
      BY DEF High, Ins, Energised, Driver!Driven
    <2> QED
      BY <1>2, LevelsRaised, CurrentRaised
  <1> QED
    BY <1>1, <1>2, WholeOrLowStep, CoilInvariant, PTL DEF Spec, RaisedByPulse

-----------------------------------------------------------------------------
(* The locks are a client of the driver: each call elec_toggle makes is one*)
(* the driver has, for the chip the shell may use, and it begins only when *)
(* the one before has ended; ELEC and the command itself leave the driver  *)
(* alone.                                                                  *)
THEOREM LocksUseDriver == Spec => UsesDriver
  <1>1. Init => Driver!Init
    BY DEF Init
  <1>2. ASSUME TypeOK, [Next]_vars
        PROVE  [Driver!Next]_driver
    <2>1. CASE Boot
      BY <2>1 DEF Boot, Driver!Next
    <2>2. CASE ElecInit \/ OperateLock \/ UNCHANGED vars
      BY <2>2 DEF ElecInit, OperateLock, vars, driver
    <2>3. CASE Begin
      <3>0. job \in [slot : Slots, stat : {"unlock", "lock"}, step : 0 .. 5]
        BY <1>2 DEF TypeOK
      <3>1. job.step \in 1 .. 5
        BY <2>3, <3>0 DEF Begin, Idle
      <3>2. Call \in Driver!Requests
        BY <3>0, <3>1, Script DEF Driver!Requests, Driver!Chips, Driver!Pins, Pins, ELEC0
      <3>3. Driver!ReadRegister(tshell, Call)
        BY <2>3 DEF Begin
      <3>4. Driver!Client(tshell)
        BY <3>2, <3>3 DEF Driver!Client
      <3> QED
        BY <3>4 DEF Driver!Next
    <2>4. CASE End
      <3>1. Driver!WriteRegister(tshell)
        BY <2>4 DEF End
      <3>2. Driver!Client(tshell)
        BY <3>1 DEF Driver!Client
      <3> QED
        BY <3>2 DEF Driver!Next
    <2> QED
      BY <1>2, <2>1, <2>2, <2>3, <2>4 DEF Next, Shell
  <1> QED
    BY <1>1, <1>2, TypeCorrect, PTL DEF Spec, UsesDriver, Driver!Spec, Driver!vars, driver
=============================================================================
