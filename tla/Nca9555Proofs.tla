---------------------------- MODULE Nca9555Proofs ----------------------------
(* Properties of the expander driver for any number of chips, pins, threads*)
(* and failing transfers.                                                  *)
EXTENDS Nca9555, TLAPS

USE Nca9555Assumption

(* The bytes that arrive are bytes of the register pair. *)
LEMMA ArrivedAll == Arrived(2) = Pins
  BY DEF Arrived

(* A failing transfer is counted. *)
LEMMA TransferType ==
  ASSUME TypeOK, NEW n, Transfer(n)
  PROVE  /\ faults' \in 0 .. MaxFaults
         /\ n \in 0 .. 2
         /\ (faults' = faults /\ n = 2) \/ faults' = faults + 1
  BY DEF Transfer, TypeOK

(* The modified bytes are the bytes and, at most, the pin of the call. *)
LEMMA ModifyData ==
  ASSUME NEW r \in Requests, NEW buf \in SUBSET Pins
  PROVE  /\ Modify(r, buf) \in SUBSET Pins
         /\ Modify(r, buf) \subseteq buf \cup {r.pin}
         /\ r.cmd = "LOW" => Modify(r, buf) \subseteq buf
  BY DEF Modify, Requests

LEMMA RequestFields ==
  ASSUME NEW r \in Requests
  PROVE  /\ r.chip \in Chips /\ r.pin \in Pins
         /\ r.cmd \in {"HIGH", "LOW", "OUTPUT", "INPUT", "INVERT"}
         /\ r = [chip |-> r.chip, pin |-> r.pin, cmd |-> r.cmd]
  BY DEF Requests, WriteCmds, ControlCmds

LEMMA SourceType ==
  ASSUME TypeOK, NEW r \in Requests
  PROVE  SourceReg(r) \in SUBSET Pins
  BY RequestFields DEF TypeOK, SourceReg

(* Every variable keeps its type; the initialisation stays within          *)
(* nca9555_obj[] and calls begin only when it is done.                     *)
THEOREM TypeCorrect == Spec => [](TypeOK /\ CallsAfterBoot)
<1>1. Init => TypeOK /\ CallsAfterBoot
  BY DEF Init, TypeOK, CallsAfterBoot, Chips
<1>2. TypeOK /\ CallsAfterBoot /\ [Next]_vars => TypeOK' /\ CallsAfterBoot'
  <2> SUFFICES ASSUME TypeOK, CallsAfterBoot, [Next]_vars
               PROVE  TypeOK' /\ CallsAfterBoot'
    OBVIOUS
  <2>config. CASE InitConfig
    <3>1. PICK n \in 0 .. 2 :
            /\ Transfer(n)
            /\ config' = [config EXCEPT ![boot.chip] = WriteData(config[boot.chip], n, Pins)]
      BY <2>config DEF InitConfig
    <3>2. boot.chip \in Chips /\ config[boot.chip] \in SUBSET Pins
      BY DEF TypeOK
    <3>3. WriteData(config[boot.chip], n, Pins) \in SUBSET Pins
      BY <3>2 DEF WriteData
    <3>4. config' \in [Chips -> SUBSET Pins]
      BY <3>1, <3>3 DEF TypeOK
    <3>5. faults' \in 0 .. MaxFaults
      BY <3>1, TransferType
    <3>6. QED
      BY <2>config, <3>4, <3>5 DEF InitConfig, TypeOK, CallsAfterBoot
  <2>release. CASE InitOutput
    <3>1. PICK n \in 0 .. 2 :
            /\ Transfer(n)
            /\ output' = [output EXCEPT ![boot.chip] = WriteData(output[boot.chip], n, {})]
      BY <2>release DEF InitOutput
    <3>2. boot.chip \in Chips /\ output[boot.chip] \in SUBSET Pins
      BY DEF TypeOK
    <3>3. WriteData(output[boot.chip], n, {}) \in SUBSET Pins
      BY <3>2 DEF WriteData
    <3>4. output' \in [Chips -> SUBSET Pins]
      BY <3>1, <3>3 DEF TypeOK
    <3>5. faults' \in 0 .. MaxFaults
      BY <3>1, TransferType
    <3>6. boot' \in [chip : Chips, reg : {"config", "output", "done"}]
      BY <2>release DEF InitOutput, NextChip, TypeOK, Chips
    <3>7. QED
      BY <2>release, <3>4, <3>5, <3>6 DEF InitOutput, NextChip, TypeOK, CallsAfterBoot
  <2>read. ASSUME NEW c \in Clients, NEW r \in Requests, ReadRegister(c, r)
        PROVE  TypeOK' /\ CallsAfterBoot'
    <3>1. PICK n \in 0 .. 2 :
            /\ Transfer(n)
            /\ temp' = [temp EXCEPT ![c] = ReadData(SourceReg(r), n)]
      BY <2>read DEF ReadRegister
    <3>2. SourceReg(r) \in SUBSET Pins
      BY SourceType
    <3>3. ReadData(SourceReg(r), n) \in SUBSET Pins
      BY <3>2 DEF ReadData
    <3>4. temp' \in [Clients -> SUBSET Pins]
      BY <3>1, <3>3 DEF TypeOK
    <3>5. faults' \in 0 .. MaxFaults
      BY <3>1, TransferType
    <3>6. QED
      BY <2>read, <3>4, <3>5 DEF ReadRegister, TypeOK, CallsAfterBoot
  <2>write. ASSUME NEW c \in Clients, WriteRegister(c)
        PROVE  TypeOK' /\ CallsAfterBoot'
    <3>1. req[c] \in Requests /\ temp[c] \in SUBSET Pins
      BY <2>write DEF WriteRegister, TypeOK
    <3>2. PICK n \in 0 .. 2 :
            /\ Transfer(n)
            /\ \/ /\ output' = [output EXCEPT ![req[c].chip] = WriteData(output[req[c].chip], n, Modify(req[c], temp[c]))]
                  /\ UNCHANGED <<config, polarity>>
               \/ /\ config' = [config EXCEPT ![req[c].chip] = WriteData(config[req[c].chip], n, Modify(req[c], temp[c]))]
                  /\ UNCHANGED <<output, polarity>>
               \/ /\ polarity' = [polarity EXCEPT ![req[c].chip] = WriteData(polarity[req[c].chip], n, Modify(req[c], temp[c]))]
                  /\ UNCHANGED <<output, config>>
      BY <2>write DEF WriteRegister
    <3>3. ASSUME NEW reg \in SUBSET Pins
          PROVE  WriteData(reg, n, Modify(req[c], temp[c])) \in SUBSET Pins
      <4>1. Modify(req[c], temp[c]) \in SUBSET Pins
        BY <3>1, ModifyData
      <4>2. QED
        BY <4>1 DEF WriteData
    <3>4. req[c].chip \in Chips
      BY <3>1, RequestFields
    <3>5. /\ output' \in [Chips -> SUBSET Pins] /\ config' \in [Chips -> SUBSET Pins]
          /\ polarity' \in [Chips -> SUBSET Pins]
      BY <3>2, <3>3, <3>4 DEF TypeOK
    <3>6. faults' \in 0 .. MaxFaults
      BY <3>2, TransferType
    <3>7. QED
      BY <2>write, <3>5, <3>6 DEF WriteRegister, TypeOK, CallsAfterBoot
  <2>idle. CASE UNCHANGED vars
    BY <2>idle DEF vars, TypeOK, CallsAfterBoot
  <2> QED
    BY <2>config, <2>release, <2>read, <2>write, <2>idle DEF Next, Client
<1> QED
  BY PTL, <1>2, <1>1 DEF Spec

-----------------------------------------------------------------------------
(* Initialisation                                                          *)

(* ConfigWritten: a chip whose output levels are being written has been    *)
(* configured, unless a transfer has failed.                               *)
LEMMA ConfigStep ==
  TypeOK /\ CallsAfterBoot /\ ConfigWritten /\ [Next]_vars => ConfigWritten'
<1> SUFFICES ASSUME TypeOK, CallsAfterBoot, ConfigWritten, [Next]_vars
             PROVE  ConfigWritten'
  OBVIOUS
<1>config. CASE InitConfig
  <2>1. PICK n \in 0 .. 2 :
          /\ Transfer(n)
          /\ config' = [config EXCEPT ![boot.chip] = WriteData(config[boot.chip], n, Pins)]
    BY <1>config DEF InitConfig
  <2>2. boot.chip \in Chips /\ config[boot.chip] \in SUBSET Pins /\ boot'.chip = boot.chip
    BY <1>config DEF TypeOK, InitConfig
  <2>3. faults' = 0 => n = 2
    BY <2>1 DEF Transfer, TypeOK
  <2>4. n = 2 => WriteData(config[boot.chip], n, Pins) = Pins
    BY <2>2, ArrivedAll DEF WriteData
  <2>5. QED
    BY <2>1, <2>2, <2>3, <2>4 DEF ConfigWritten, TypeOK
<1>release. CASE InitOutput
  BY <1>release DEF InitOutput, NextChip, ConfigWritten
<1>read. ASSUME NEW c \in Clients, NEW r \in Requests, ReadRegister(c, r)
      PROVE  ConfigWritten'
  BY <1>read DEF ReadRegister, ConfigWritten
<1>write. ASSUME NEW c \in Clients, WriteRegister(c)
      PROVE  ConfigWritten'
  BY <1>write DEF WriteRegister, CallsAfterBoot, ConfigWritten
<1>idle. CASE UNCHANGED vars
  BY <1>idle DEF vars, ConfigWritten
<1> QED
  BY <1>config, <1>release, <1>read, <1>write, <1>idle DEF Next, Client

(* nca9555_init never makes a pin drive high, whatever a restart left in   *)
(* the registers and whichever of its transfers fail.                      *)
THEOREM InitReleases == Spec => BootOnlyReleases
<1>1. TypeOK /\ CallsAfterBoot /\ [Next]_vars =>
        [boot.reg # "done" => \A d \in Chips : Driven(d)' \subseteq Driven(d)]_vars
  <2> SUFFICES ASSUME TypeOK, CallsAfterBoot, Next, boot.reg # "done",
                      NEW d \in Chips
               PROVE  Driven(d)' \subseteq Driven(d)
    BY DEF vars
  <2>config. CASE InitConfig
    <3>1. PICK n \in 0 .. 2 :
            config' = [config EXCEPT ![boot.chip] = WriteData(config[boot.chip], n, Pins)]
      BY <2>config DEF InitConfig
    <3>2. boot.chip \in Chips /\ config[boot.chip] \in SUBSET Pins /\ output' = output
      BY <2>config DEF TypeOK, InitConfig
    <3>3. config[boot.chip] \subseteq WriteData(config[boot.chip], n, Pins)
      BY <3>2 DEF WriteData
    <3>4. config[d] \subseteq config'[d]
      BY <3>1, <3>2, <3>3 DEF TypeOK
    <3>5. QED
      BY <3>2, <3>4 DEF Driven
  <2>release. CASE InitOutput
    <3>1. PICK n \in 0 .. 2 :
            output' = [output EXCEPT ![boot.chip] = WriteData(output[boot.chip], n, {})]
      BY <2>release DEF InitOutput
    <3>2. boot.chip \in Chips /\ config' = config
      BY <2>release DEF TypeOK, InitOutput
    <3>3. WriteData(output[boot.chip], n, {}) \subseteq output[boot.chip]
      BY DEF WriteData
    <3>4. output'[d] \subseteq output[d]
      BY <3>1, <3>2, <3>3 DEF TypeOK
    <3>5. QED
      BY <3>2, <3>4 DEF Driven
  <2>read. ASSUME NEW c \in Clients, NEW r \in Requests, ReadRegister(c, r) PROVE FALSE
    BY <2>read DEF ReadRegister
  <2>write. ASSUME NEW c \in Clients, WriteRegister(c) PROVE FALSE
    BY <2>write DEF WriteRegister, CallsAfterBoot
  <2> QED
    BY <2>config, <2>release, <2>read, <2>write DEF Next, Client
<1>2. QED
  BY <1>1, TypeCorrect, PTL DEF Spec, BootOnlyReleases

(* Either write of nca9555_init alone releases the pins of a chip: one     *)
(* failing transfer leaves none of them driving high.                      *)
THEOREM InitSurvivesOneFault == Spec => BootSurvivesOneFault
<1>1. Init => ConfigWritten
  BY DEF Init, ConfigWritten
<1>2. TypeOK /\ CallsAfterBoot /\ ConfigWritten /\ [Next]_vars =>
        [\A d \in Chips : boot = [chip |-> d, reg |-> "output"] /\ faults' <= 1
                          => Driven(d)' = {}]_vars
  <2> SUFFICES ASSUME TypeOK, CallsAfterBoot, ConfigWritten, Next, NEW d \in Chips,
                      boot = [chip |-> d, reg |-> "output"], faults' <= 1
               PROVE  Driven(d)' = {}
    BY DEF vars
  <2>0. boot.reg = "output" /\ boot.chip = d
    OBVIOUS
  <2>1. InitOutput
    <3>1. ~ InitConfig
      BY <2>0 DEF InitConfig
    <3>2. ASSUME NEW c \in Clients, NEW r \in Requests, ReadRegister(c, r) PROVE FALSE
      BY <2>0, <3>2 DEF ReadRegister
    <3>3. ASSUME NEW c \in Clients, WriteRegister(c) PROVE FALSE
      BY <2>0, <3>3 DEF WriteRegister, CallsAfterBoot
    <3>4. QED
      BY <3>1, <3>2, <3>3 DEF Next, Client
  <2>2. PICK n \in 0 .. 2 :
          /\ Transfer(n)
          /\ output' = [output EXCEPT ![d] = WriteData(output[d], n, {})]
    BY <2>0, <2>1 DEF InitOutput
  <2>3. output'[d] = WriteData(output[d], n, {}) /\ config'[d] = config[d]
    BY <2>1, <2>2 DEF InitOutput, TypeOK
  <2>4. output[d] \in SUBSET Pins
    BY DEF TypeOK
  <2>5. CASE n = 2
    <3>1. output'[d] = {}
      BY <2>3, <2>4, <2>5, ArrivedAll DEF WriteData
    <3>2. QED
      BY <3>1 DEF Driven
  <2>6. CASE n # 2
    <3>1. faults = 0
      BY <2>2, <2>6 DEF Transfer, TypeOK
    <3>2. config[d] = Pins
      BY <2>0, <3>1 DEF ConfigWritten
    <3>3. output'[d] \subseteq Pins
      BY <2>3, <2>4 DEF WriteData
    <3>4. QED
      BY <2>3, <3>2, <3>3 DEF Driven
  <2>7. QED
    BY <2>5, <2>6
<1>3. QED
  BY <1>1, <1>2, ConfigStep, TypeCorrect, PTL DEF Spec, BootSurvivesOneFault

-----------------------------------------------------------------------------
(* Calls, when each chip is used by one thread                             *)

(* A thread that writes back a register pair leaves alone the registers    *)
(* that the calls of the other threads have read.                          *)
LEMMA OthersUndisturbed ==
  ASSUME TypeOK, CallsAfterBoot, Exclusive,
         NEW c \in Clients, WriteRegister(c),
         NEW o \in Clients, o # c, req[o] # NoReq
  PROVE  /\ req'[o] = req[o] /\ temp'[o] = temp[o]
         /\ SourceReg(req[o])' = SourceReg(req[o])
<1>1. req[c] \in Requests /\ req[o] \in Requests
  BY DEF WriteRegister, TypeOK
<1>2. req[c].chip \in Chips /\ req[o].chip \in Chips
  BY <1>1, RequestFields
<1>3. req[c].chip # req[o].chip
  BY <1>2 DEF CallsAfterBoot, Exclusive, WriteRegister
<1>4. req'[o] = req[o] /\ temp'[o] = temp[o]
  BY DEF WriteRegister, TypeOK
<1>5. PICK buf :
        \/ output' = [output EXCEPT ![req[c].chip] = buf] /\ config' = config
        \/ config' = [config EXCEPT ![req[c].chip] = buf] /\ output' = output
        \/ config' = config /\ output' = output
  BY DEF WriteRegister
<1>6. output'[req[o].chip] = output[req[o].chip] /\ config'[req[o].chip] = config[req[o].chip]
  BY <1>2, <1>3, <1>5 DEF TypeOK
<1>7. QED
  BY <1>4, <1>6 DEF SourceReg

(* Before the initialisation is done no call is in progress. *)
LEMMA NoCalls ==
  ASSUME CallsAfterBoot, boot.reg # "done"
  PROVE  \A c \in Clients : req[c] = NoReq
  BY DEF CallsAfterBoot

(* CopyBounded: a call holds no bit that its register has not. *)
LEMMA CopyBoundedStep ==
  ASSUME Exclusive
  PROVE  TypeOK /\ CallsAfterBoot /\ CopyBounded /\ [Next]_vars => CopyBounded'
<1> SUFFICES ASSUME TypeOK, CallsAfterBoot, CopyBounded, [Next]_vars
             PROVE  CopyBounded'
  OBVIOUS
<1>boot. CASE InitConfig \/ InitOutput
  <2>1. \A c \in Clients : req'[c] = NoReq
    BY <1>boot, NoCalls DEF InitConfig, InitOutput
  <2>2. QED
    BY <2>1 DEF CopyBounded
<1>read. ASSUME NEW c \in Clients, NEW r \in Requests, ReadRegister(c, r)
      PROVE  CopyBounded'
  <2> SUFFICES ASSUME NEW o \in Clients, req'[o] # NoReq
               PROVE  temp'[o] \subseteq SourceReg(req[o])'
    BY DEF CopyBounded
  <2>1. CASE o = c
    <3>1. PICK n \in 0 .. 2 : temp' = [temp EXCEPT ![c] = ReadData(SourceReg(r), n)]
      BY <1>read DEF ReadRegister
    <3>2. temp'[c] = ReadData(SourceReg(r), n)
      BY <3>1 DEF TypeOK
    <3>3. SourceReg(req[c])' = SourceReg(r)
      BY <1>read DEF ReadRegister, SourceReg, TypeOK
    <3>4. ReadData(SourceReg(r), n) \subseteq SourceReg(r)
      BY DEF ReadData
    <3>5. QED
      BY <2>1, <3>2, <3>3, <3>4
  <2>2. CASE o # c
    <3>1. req'[o] = req[o] /\ temp'[o] = temp[o]
      BY <1>read, <2>2 DEF ReadRegister, TypeOK
    <3>2. SourceReg(req[o])' = SourceReg(req[o])
      BY <1>read, <3>1 DEF ReadRegister, SourceReg
    <3>3. QED
      BY <3>1, <3>2 DEF CopyBounded
  <2>3. QED
    BY <2>1, <2>2
<1>write. ASSUME NEW c \in Clients, WriteRegister(c)
      PROVE  CopyBounded'
  <2> SUFFICES ASSUME NEW o \in Clients, req'[o] # NoReq
               PROVE  temp'[o] \subseteq SourceReg(req[o])'
    BY DEF CopyBounded
  <2>1. o # c /\ req[o] # NoReq
    BY <1>write DEF WriteRegister, TypeOK
  <2>2. QED
    BY <1>write, <2>1, OthersUndisturbed DEF CopyBounded
<1>idle. CASE UNCHANGED vars
  BY <1>idle DEF vars, CopyBounded, SourceReg
<1> QED
  BY <1>boot, <1>read, <1>write, <1>idle DEF Next, Client

(* The calls of a bus that has not failed read both bytes. *)
LEMMA ReadCopy ==
  ASSUME TypeOK, faults' = 0, NEW c \in Clients, NEW r \in Requests, ReadRegister(c, r)
  PROVE  temp' = [temp EXCEPT ![c] = SourceReg(r)]
<1>1. PICK n \in 0 .. 2 :
        Transfer(n) /\ temp' = [temp EXCEPT ![c] = ReadData(SourceReg(r), n)]
  BY DEF ReadRegister
<1>2. n = 2 /\ SourceReg(r) \in SUBSET Pins
  BY <1>1, SourceType DEF Transfer, TypeOK
<1>3. ReadData(SourceReg(r), n) = SourceReg(r)
  BY <1>2, ArrivedAll DEF ReadData
<1>4. QED
  BY <1>1, <1>3

(* A failure that has been counted stays counted. *)
LEMMA FaultsStay ==
  ASSUME TypeOK, Next, faults' = 0
  PROVE  faults = 0
<1>1. ASSUME NEW n, Transfer(n) PROVE faults = 0
  BY <1>1, TransferType DEF TypeOK
<1>2. QED
  BY <1>1 DEF Next, Client, InitConfig, InitOutput, ReadRegister, WriteRegister

(* CopyExact: while no transfer has failed, the bytes a call holds are the *)
(* content of its register.                                                *)
LEMMA CopyExactStep ==
  ASSUME Exclusive
  PROVE  TypeOK /\ CallsAfterBoot /\ CopyExact /\ [Next]_vars => CopyExact'
<1> SUFFICES ASSUME TypeOK, CallsAfterBoot, CopyExact, Next, faults' = 0
             PROVE  CopyExact'
  BY DEF vars, CopyExact, SourceReg
<1>whole. faults = 0
  BY FaultsStay
<1>boot. CASE InitConfig \/ InitOutput
  <2>1. \A c \in Clients : req'[c] = NoReq
    BY <1>boot, NoCalls DEF InitConfig, InitOutput
  <2>2. QED
    BY <2>1 DEF CopyExact
<1>read. ASSUME NEW c \in Clients, NEW r \in Requests, ReadRegister(c, r)
      PROVE  CopyExact'
  <2> SUFFICES ASSUME NEW o \in Clients, req'[o] # NoReq
               PROVE  temp'[o] = SourceReg(req[o])'
    BY DEF CopyExact
  <2>1. CASE o = c
    <3>1. temp'[c] = SourceReg(r)
      BY <1>read, ReadCopy DEF TypeOK
    <3>2. SourceReg(req[c])' = SourceReg(r)
      BY <1>read DEF ReadRegister, SourceReg, TypeOK
    <3>3. QED
      BY <2>1, <3>1, <3>2
  <2>2. CASE o # c
    <3>1. req'[o] = req[o] /\ temp'[o] = temp[o]
      BY <1>read, <2>2 DEF ReadRegister, TypeOK
    <3>2. SourceReg(req[o])' = SourceReg(req[o])
      BY <1>read, <3>1 DEF ReadRegister, SourceReg
    <3>3. QED
      BY <1>whole, <3>1, <3>2 DEF CopyExact
  <2>3. QED
    BY <2>1, <2>2
<1>write. ASSUME NEW c \in Clients, WriteRegister(c)
      PROVE  CopyExact'
  <2> SUFFICES ASSUME NEW o \in Clients, req'[o] # NoReq
               PROVE  temp'[o] = SourceReg(req[o])'
    BY DEF CopyExact
  <2>1. o # c /\ req[o] # NoReq
    BY <1>write DEF WriteRegister, TypeOK
  <2>2. QED
    BY <1>whole, <1>write, <2>1, OthersUndisturbed DEF CopyExact
<1> QED
  BY <1>boot, <1>read, <1>write DEF Next, Client

(* What the second transfer of a call does to the registers of its chip;   *)
(* no other chip is concerned.                                             *)
LEMMA WriteBack ==
  ASSUME TypeOK, NEW c \in Clients, WriteRegister(c), NEW d \in Chips
  PROVE  \E n \in 0 .. 2 :
           LET buf == Modify(req[c], temp[c]) IN
           \/ /\ req[c].cmd \in WriteCmds /\ req[c].chip = d
              /\ output'[d] = WriteData(output[d], n, buf) /\ config'[d] = config[d]
           \/ /\ req[c].cmd \in {"OUTPUT", "INPUT"} /\ req[c].chip = d
              /\ config'[d] = WriteData(config[d], n, buf) /\ output'[d] = output[d]
           \/ output'[d] = output[d] /\ config'[d] = config[d]
<1>1. PICK n \in 0 .. 2 :
        \/ /\ req[c].cmd \in WriteCmds
           /\ output' = [output EXCEPT ![req[c].chip] =
                           WriteData(output[req[c].chip], n, Modify(req[c], temp[c]))]
           /\ config' = config
        \/ /\ req[c].cmd \in {"OUTPUT", "INPUT"}
           /\ config' = [config EXCEPT ![req[c].chip] =
                           WriteData(config[req[c].chip], n, Modify(req[c], temp[c]))]
           /\ output' = output
        \/ output' = output /\ config' = config
  BY DEF WriteRegister
<1>2. QED
  BY <1>1 DEF TypeOK

(* The errors of the transfers are ignored, and still only                 *)
(* rt_nca9555_write_pin sets a level, that of its argument, and a pin      *)
(* begins to drive high by a call for it, or because the read of another   *)
(* call has failed; provided each chip is used by one thread.              *)
THEOREM OnlyCallsRaise == ASSUME Exclusive PROVE Spec => NoSpuriousHigh
<1> DEFINE Lost(d, p) ==
      /\ p \in output[d] /\ faults > 0
      /\ \E c \in Clients :
           /\ req[c] \in [chip : {d}, pin : Pins, cmd : {"OUTPUT", "INPUT"}]
           /\ p \notin temp[c]
<1>1. Init => CopyBounded /\ CopyExact
  BY DEF Init, CopyBounded, CopyExact
<1>2. TypeOK /\ CallsAfterBoot /\ CopyBounded /\ CopyExact /\ [Next]_vars =>
        [boot.reg = "done" => \A d \in Chips :
           /\ \A p \in output'[d] \ output[d] : Called(d, p, "HIGH")
           /\ \A p \in Driven(d)' \ Driven(d) :
                \/ Called(d, p, "HIGH")
                \/ p \in output[d] /\ Called(d, p, "OUTPUT")
                \/ Lost(d, p)]_vars
  <2> SUFFICES ASSUME TypeOK, CallsAfterBoot, CopyBounded, CopyExact, Next,
                      boot.reg = "done", NEW d \in Chips
               PROVE  /\ \A p \in output'[d] \ output[d] : Called(d, p, "HIGH")
                      /\ \A p \in Driven(d)' \ Driven(d) :
                           \/ Called(d, p, "HIGH")
                           \/ p \in output[d] /\ Called(d, p, "OUTPUT")
                           \/ Lost(d, p)
    BY DEF vars, Driven
  <2>read. ASSUME NEW c \in Clients, NEW r \in Requests, ReadRegister(c, r)
        PROVE  output'[d] = output[d] /\ config'[d] = config[d]
    BY <2>read DEF ReadRegister
  <2>write. ASSUME NEW c \in Clients, WriteRegister(c)
        PROVE  \/ /\ \A p \in output'[d] \ output[d] : Called(d, p, "HIGH")
                  /\ config'[d] = config[d]
               \/ /\ \A p \in config[d] \ config'[d] : Called(d, p, "OUTPUT") \/ p \notin output[d] \/ Lost(d, p)
                  /\ output'[d] = output[d]
    <3> DEFINE r == req[c]
    <3>1. r \in Requests /\ temp[c] \in SUBSET Pins /\ r # NoReq
      BY <2>write DEF WriteRegister, TypeOK
    <3>2. PICK n \in 0 .. 2 :
            \/ /\ r.cmd \in WriteCmds /\ r.chip = d /\ config'[d] = config[d]
               /\ output'[d] = WriteData(output[d], n, Modify(r, temp[c]))
            \/ /\ r.cmd \in {"OUTPUT", "INPUT"} /\ r.chip = d /\ output'[d] = output[d]
               /\ config'[d] = WriteData(config[d], n, Modify(r, temp[c]))
            \/ output'[d] = output[d] /\ config'[d] = config[d]
      BY <2>write, WriteBack
    <3>3. CASE /\ r.cmd \in WriteCmds /\ r.chip = d /\ config'[d] = config[d]
               /\ output'[d] = WriteData(output[d], n, Modify(r, temp[c]))
      <4>1. temp[c] \subseteq output[d]
        BY <3>1, <3>3 DEF CopyBounded, SourceReg
      <4>2. ASSUME NEW p \in output'[d], p \notin output[d]
            PROVE  Called(d, p, "HIGH")
        <5>1. p \in Modify(r, temp[c])
          BY <3>3, <4>2 DEF WriteData
        <5>2. r.cmd # "LOW" /\ p = r.pin
          BY <4>1, <4>2, <5>1 DEF Modify
        <5>3. r.cmd = "HIGH"
          BY <3>3, <5>2 DEF WriteCmds
        <5>4. QED
          BY <3>1, <3>3, <5>2, <5>3, RequestFields DEF Called
      <4>3. QED
        BY <3>3, <4>2
    <3>4. CASE /\ r.cmd \in {"OUTPUT", "INPUT"} /\ r.chip = d /\ output'[d] = output[d]
               /\ config'[d] = WriteData(config[d], n, Modify(r, temp[c]))
      <4>1. ASSUME NEW p \in config[d], p \notin config'[d], p \in output[d]
            PROVE  Called(d, p, "OUTPUT") \/ Lost(d, p)
        <5>1. p \notin Modify(r, temp[c])
          BY <3>4, <4>1 DEF WriteData
        <5>2. CASE p \in temp[c]
          <6>1. r.cmd = "OUTPUT" /\ p = r.pin
            BY <3>4, <5>1, <5>2 DEF Modify
          <6>2. QED
            BY <3>1, <3>4, <6>1, RequestFields DEF Called
        <5>3. CASE p \notin temp[c]
          <6>1. SourceReg(r) = config[d]
            BY <3>4 DEF SourceReg, WriteCmds
          <6>2. faults # 0
            BY <3>1, <4>1, <5>3, <6>1 DEF CopyExact
          <6>3. faults > 0
            BY <6>2 DEF TypeOK
          <6>4. r \in [chip : {d}, pin : Pins, cmd : {"OUTPUT", "INPUT"}]
            BY <3>1, <3>4 DEF Requests
          <6>5. QED
            BY <4>1, <5>3, <6>3, <6>4
        <5>4. QED
          BY <5>2, <5>3
      <4>2. QED
        BY <3>4, <4>1
    <3>5. QED
      BY <3>2, <3>3, <3>4
  <2>1. \/ /\ \A p \in output'[d] \ output[d] : Called(d, p, "HIGH")
           /\ config'[d] = config[d]
        \/ /\ \A p \in config[d] \ config'[d] : Called(d, p, "OUTPUT") \/ p \notin output[d] \/ Lost(d, p)
           /\ output'[d] = output[d]
    <3>1. ~ InitConfig /\ ~ InitOutput
      BY DEF InitConfig, InitOutput
    <3> HIDE DEF Lost
    <3>2. QED
      BY <2>read, <2>write, <3>1 DEF Next, Client
  <2> HIDE DEF Lost
  <2>2. QED
    BY <2>1 DEF Driven
<1>3. QED
  BY <1>1, <1>2, CopyBoundedStep, CopyExactStep, TypeCorrect, PTL DEF Spec, NoSpuriousHigh

-----------------------------------------------------------------------------
(* The driver implements PinBank when no transfer fails                    *)

Reliable == Exclusive /\ MaxFaults = 0
BankInv  == CopyExact /\ BootProgress /\ ConfigWritten

(* Without failures every transfer carries both bytes. *)
LEMMA BothBytes ==
  ASSUME TypeOK, MaxFaults = 0, NEW n, Transfer(n)
  PROVE  n = 2 /\ faults = 0
  BY DEF Transfer, TypeOK

(* What the actions do to the registers then. *)
LEMMA ConfigFill ==
  ASSUME TypeOK, MaxFaults = 0, InitConfig
  PROVE  config' = [config EXCEPT ![boot.chip] = Pins]
<1>1. PICK n \in 0 .. 2 :
        /\ Transfer(n)
        /\ config' = [config EXCEPT ![boot.chip] = WriteData(config[boot.chip], n, Pins)]
  BY DEF InitConfig
<1>2. n = 2 /\ config[boot.chip] \in SUBSET Pins
  BY <1>1, BothBytes DEF TypeOK
<1>3. WriteData(config[boot.chip], n, Pins) = Pins
  BY <1>2, ArrivedAll DEF WriteData
<1>4. QED
  BY <1>1, <1>3

LEMMA OutputClear ==
  ASSUME TypeOK, MaxFaults = 0, InitOutput
  PROVE  output' = [output EXCEPT ![boot.chip] = {}]
<1>1. PICK n \in 0 .. 2 :
        /\ Transfer(n)
        /\ output' = [output EXCEPT ![boot.chip] = WriteData(output[boot.chip], n, {})]
  BY DEF InitOutput
<1>2. n = 2 /\ output[boot.chip] \in SUBSET Pins
  BY <1>1, BothBytes DEF TypeOK
<1>3. WriteData(output[boot.chip], n, {}) = {}
  BY <1>2, ArrivedAll DEF WriteData
<1>4. QED
  BY <1>1, <1>3

(* A write changes the bit of its pin in the register it has read, except  *)
(* that INVERT writes another register.                                    *)
LEMMA WriteOnePin ==
  ASSUME TypeOK, MaxFaults = 0, CopyExact, NEW c \in Clients, WriteRegister(c)
  PROVE  LET d == req[c].chip
             p == req[c].pin
         IN  \/ /\ \/ output' = [output EXCEPT ![d] = output[d] \cup {p}]
                   \/ output' = [output EXCEPT ![d] = output[d] \ {p}]
                /\ config' = config
             \/ /\ \/ config' = [config EXCEPT ![d] = config[d] \cup {p}]
                   \/ config' = [config EXCEPT ![d] = config[d] \ {p}]
                /\ output' = output
             \/ output' = output /\ config' = config
<1> DEFINE r == req[c]  d == r.chip  p == r.pin
<1>1. r \in Requests /\ temp[c] \in SUBSET Pins /\ r # NoReq
  BY DEF WriteRegister, TypeOK
<1>2. temp[c] = SourceReg(r) /\ d \in Chips
  BY <1>1, RequestFields DEF CopyExact, TypeOK
<1>3. Modify(r, temp[c]) \in SUBSET Pins
  BY <1>1, ModifyData
<1>4. PICK n \in 0 .. 2 :
        /\ Transfer(n)
        /\ \/ /\ r.cmd \in WriteCmds
              /\ output' = [output EXCEPT ![d] = WriteData(output[d], n, Modify(r, temp[c]))]
              /\ config' = config
           \/ /\ r.cmd \in {"OUTPUT", "INPUT"}
              /\ config' = [config EXCEPT ![d] = WriteData(config[d], n, Modify(r, temp[c]))]
              /\ output' = output
           \/ output' = output /\ config' = config
  BY DEF WriteRegister
<1>5. n = 2
  BY <1>4, BothBytes
<1>6. /\ WriteData(output[d], n, Modify(r, temp[c])) = Modify(r, temp[c])
      /\ WriteData(config[d], n, Modify(r, temp[c])) = Modify(r, temp[c])
  <2>1. output[d] \in SUBSET Pins /\ config[d] \in SUBSET Pins
    BY <1>2 DEF TypeOK
  <2>2. QED
    BY <1>3, <1>5, <2>1, ArrivedAll DEF WriteData
<1>7. Modify(r, temp[c]) = temp[c] \cup {p} \/ Modify(r, temp[c]) = temp[c] \ {p}
  BY DEF Modify
<1>8. CASE /\ r.cmd \in WriteCmds
           /\ output' = [output EXCEPT ![d] = Modify(r, temp[c])]
           /\ config' = config
  <2>1. temp[c] = output[d]
    BY <1>2, <1>8 DEF SourceReg
  <2>2. QED
    BY <1>7, <1>8, <2>1
<1>9. CASE /\ r.cmd \in {"OUTPUT", "INPUT"}
           /\ config' = [config EXCEPT ![d] = Modify(r, temp[c])]
           /\ output' = output
  <2>1. temp[c] = config[d]
    BY <1>2, <1>9 DEF SourceReg, WriteCmds
  <2>2. QED
    BY <1>7, <1>9, <2>1
<1>10. QED
  BY <1>4, <1>6, <1>8, <1>9

(* BootProgress: the chips before the one being initialised are released.  *)
LEMMA BootProgressStep ==
  ASSUME Reliable
  PROVE  TypeOK /\ CallsAfterBoot /\ ConfigWritten /\ BootProgress /\ [Next]_vars
           => BootProgress'
<1> SUFFICES ASSUME TypeOK, CallsAfterBoot, ConfigWritten, BootProgress, [Next]_vars
             PROVE  BootProgress'
  OBVIOUS
<1>config. CASE InitConfig
  <2>1. config' = [config EXCEPT ![boot.chip] = Pins]
    BY <1>config, ConfigFill DEF Reliable
  <2>2. boot'.chip = boot.chip /\ output' = output /\ boot.reg # "done"
    BY <1>config DEF InitConfig
  <2>3. QED
    BY <2>1, <2>2 DEF BootProgress, TypeOK
<1>release. CASE InitOutput
  <2>1. output' = [output EXCEPT ![boot.chip] = {}] /\ config' = config
    BY <1>release, OutputClear DEF Reliable, InitOutput
  <2>2. config[boot.chip] = Pins /\ boot.chip \in Nat /\ boot.reg # "done"
    BY <1>release DEF ConfigWritten, InitOutput, TypeOK, Reliable, Chips
  <2>3. boot'.reg = "done" \/ boot'.chip = boot.chip + 1
    BY <1>release DEF InitOutput, NextChip
  <2>4. ASSUME NEW d \in Chips, d < boot.chip + 1
        PROVE  config'[d] = Pins /\ output'[d] = {}
    BY <2>1, <2>2, <2>4 DEF BootProgress, TypeOK, Chips
  <2>5. QED
    BY <2>3, <2>4 DEF BootProgress
<1>read. ASSUME NEW c \in Clients, NEW r \in Requests, ReadRegister(c, r)
      PROVE  BootProgress'
  BY <1>read DEF ReadRegister, BootProgress
<1>write. ASSUME NEW c \in Clients, WriteRegister(c)
      PROVE  BootProgress'
  BY <1>write DEF WriteRegister, CallsAfterBoot, BootProgress
<1>idle. CASE UNCHANGED vars
  BY <1>idle DEF vars, BootProgress
<1> QED
  BY <1>config, <1>release, <1>read, <1>write, <1>idle DEF Next, Client

(* To its callers the driver is a bank of independent pins: every step of  *)
(* it, under the mapping of Bank, changes one pin or none.                 *)
THEOREM ImplementsPinBank == ASSUME Reliable PROVE Spec => PinsAreIndependent
<1> DEFINE high   == IF boot.reg = "done" THEN output ELSE [d \in Chips |-> {}]
           inputs == IF boot.reg = "done" THEN config ELSE [d \in Chips |-> Pins]
<1>1. Init => BankInv
  BY DEF Init, BankInv, CopyExact, BootProgress, ConfigWritten, Chips
<1>2. Init => Bank!Init
  BY DEF Init, Bank!Init
<1>3. TypeOK /\ CallsAfterBoot /\ BankInv /\ [Next]_vars => BankInv'
  BY CopyExactStep, BootProgressStep, ConfigStep DEF BankInv, Reliable
<1>4. TypeOK /\ CallsAfterBoot /\ BankInv /\ [Next]_vars => [Bank!Next]_<<high, inputs>>
  <2> SUFFICES ASSUME TypeOK, CallsAfterBoot, BankInv, [Next]_vars
               PROVE  [Bank!Next]_<<high, inputs>>
    OBVIOUS
  <2>config. CASE InitConfig
    <3>1. boot.reg # "done" /\ boot'.reg # "done"
      BY <2>config DEF InitConfig
    <3>2. QED
      BY <3>1
  <2>release. CASE InitOutput
    <3>1. boot.reg # "done"
      BY <2>release DEF InitOutput
    <3>2. CASE boot'.reg # "done"
      BY <3>1, <3>2
    <3>3. CASE boot'.reg = "done"
      <4>1. output' = [output EXCEPT ![boot.chip] = {}] /\ config' = config
        BY <2>release, OutputClear DEF Reliable, InitOutput
      <4>2. config[boot.chip] = Pins /\ boot.chip \in Chips /\ boot.chip + 1 >= NCHIP
        BY <2>release, <3>3 DEF BankInv, ConfigWritten, InitOutput, NextChip, TypeOK, Reliable, Chips
      <4>3. ASSUME NEW d \in Chips
            PROVE  config'[d] = Pins /\ output'[d] = {}
        BY <3>1, <4>1, <4>2 DEF BankInv, BootProgress, TypeOK, Chips
      <4>4. config' = [d \in Chips |-> Pins] /\ output' = [d \in Chips |-> {}]
        BY <4>1, <4>3 DEF TypeOK
      <4>5. QED
        BY <3>1, <3>3, <4>4
    <3>4. QED
      BY <3>2, <3>3
  <2>read. ASSUME NEW c \in Clients, NEW r \in Requests, ReadRegister(c, r)
        PROVE  UNCHANGED <<high, inputs>>
    BY <2>read DEF ReadRegister
  <2>write. ASSUME NEW c \in Clients, WriteRegister(c)
        PROVE  [Bank!Next]_<<high, inputs>>
    <3>1. boot.reg = "done" /\ boot' = boot
      BY <2>write DEF WriteRegister, CallsAfterBoot
    <3>2. req[c].chip \in Chips /\ req[c].pin \in Pins
      <4>1. req[c] \in Requests
        BY <2>write DEF WriteRegister, TypeOK
      <4>2. QED
        BY <4>1, RequestFields
    <3>3. high = output /\ inputs = config /\ high' = output' /\ inputs' = config'
      BY <3>1
    <3>4. \/ Bank!Write(req[c].chip, req[c].pin)
          \/ Bank!Control(req[c].chip, req[c].pin)
          \/ UNCHANGED <<high, inputs>>
      BY <2>write, <3>1, <3>3, WriteOnePin DEF Reliable, BankInv, Bank!Write, Bank!Control
    <3>5. QED
      BY <3>2, <3>4 DEF Bank!Next
  <2>idle. CASE UNCHANGED vars
    BY <2>idle DEF vars
  <2> QED
    BY <2>config, <2>release, <2>read, <2>write, <2>idle DEF Next, Client
<1>5. QED
  BY <1>1, <1>2, <1>3, <1>4, TypeCorrect, PTL DEF Spec, PinsAreIndependent, Bank!Spec

=============================================================================
