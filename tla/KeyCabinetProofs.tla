-------------------------- MODULE KeyCabinetProofs --------------------------
(* Invariants of KeyCabinet for every number of slots, window length,      *)
(* threshold and set of tags.                                              *)
EXTENDS KeyCabinet, Sequences, FiniteSetTheorems, TLAPS

(* A window of zeros has no ones. *)
LEMMA ZeroWindow ==
  ASSUME NEW win, \A j \in 0 .. WINDOW - 1 : win[j] = 0
  PROVE  Ones(win) = 0
<1>1. {j \in 0 .. WINDOW - 1 : win[j] = 1} = {}
  OBVIOUS
<1>2. QED
  BY <1>1, FS_EmptySet DEF Ones

(* Shifting keeps a window a window. *)
LEMMA ShiftType ==
  ASSUME NEW win \in Windows, NEW s \in {0, 1}
  PROVE  Shift(win, s) \in Windows
  BY CabinetAssumption DEF Windows, Shift

(* A debounced status is an enumerator. *)
LEMMA StatusType ==
  ASSUME NEW win
  PROVE  AmrStatus(win) \in StatusBytes /\ LockStatus(win) \in {unlock, lock}
  BY DEF AmrStatus, LockStatus, StatusBytes, key_in, key_out

USE CabinetAssumption

(* Storing one field of a slot, or what a scan makes of it, keeps its type.*)
LEMMA EntryType ==
  ASSUME NEW k \in KeyInfo, NEW b \in StatusBytes, NEW l \in {unlock, lock},
         NEW tok \in Tags \cup {Zero, NoTok}
  PROVE  /\ [k EXCEPT !.key_status = b] \in KeyInfo
         /\ [k EXCEPT !.last_key_status = b] \in KeyInfo
         /\ [k EXCEPT !.lock_status = l] \in KeyInfo
         /\ [k EXCEPT !.last_rfid_code = k.cur_rfid_code] \in KeyInfo
         /\ CodeSplit(k, tok) \in KeyInfo
         /\ Adopt(k) \in KeyInfo
<1>1. [k EXCEPT !.key_status = b] \in KeyInfo
  BY DEF KeyInfo
<1>2. [k EXCEPT !.last_key_status = b] \in KeyInfo
  BY DEF KeyInfo
<1>3. [k EXCEPT !.lock_status = l] \in KeyInfo
  BY DEF KeyInfo
<1>4. [k EXCEPT !.last_rfid_code = k.cur_rfid_code] \in KeyInfo
  BY DEF KeyInfo
<1>5. CodeSplit(k, tok) \in KeyInfo
  BY DEF CodeSplit, Str2Hex, Entry, KeyInfo, Codes, StatusBytes
<1>6. Adopt(k) \in KeyInfo
  BY DEF Adopt, Entry, KeyInfo
<1>7. QED
  BY <1>1, <1>2, <1>3, <1>4, <1>5, <1>6

(* The slots may be updated one at a time. *)
LEMMA TableType ==
  ASSUME NEW t \in [Slots -> KeyInfo], NEW i \in Slots, NEW e \in KeyInfo
  PROVE  [t EXCEPT ![i] = e] \in [Slots -> KeyInfo]
  OBVIOUS

(* Every variable keeps its type: the semaphore value stays a 16-bit       *)
(* number, check_id stays below 3, every status byte is 0, 1 or 2, and     *)
(* rfid_printf prints exactly CODE_LEN bytes (LineInv).                    *)
THEOREM TypeCorrect == Spec => [](TypeOK /\ LineInv)
<1>1. Init => TypeOK /\ LineInv
  BY DEF Init, TypeOK, LineInv, Entry, KeyInfo, Codes, StatusBytes, Windows,
         Slots, StatPcs, LedPcs
<1>2. TypeOK /\ LineInv /\ [Next]_vars => TypeOK' /\ LineInv'
  <2> SUFFICES ASSUME TypeOK, LineInv, [Next]_vars
               PROVE  TypeOK' /\ LineInv'
    OBVIOUS
  <2> USE DEF TypeOK, LineInv
  <2>0. stat.i \in Slots /\ led.i \in Slots /\ led.tmp \in StatusBytes
    OBVIOUS
  <2>1. CASE StatInit
    BY <2>1, SMTT(30) DEF StatInit, StatLoop, Entry, Slots, StatPcs, KeyInfo, StatusBytes, key_in, key_out
  <2>2. CASE CheckKey
    <3>1. PICK s \in AmrSamples :
            /\ check_amr' = [check_amr EXCEPT ![stat.i] = Shift(check_amr[stat.i], s)]
            /\ key' = [key EXCEPT ![stat.i].key_status =
                                    AmrStatus(Shift(check_amr[stat.i], s))]
      BY <2>2 DEF CheckKey
    <3>2. check_amr' \in [Slots -> Windows]
      BY <3>1, <2>0, ShiftType
    <3>3. key' \in [Slots -> KeyInfo]
      BY <3>1, <2>0, StatusType, EntryType, TableType
    <3>4. stat' \in [pc : StatPcs, i : Slots]
      BY <2>2 DEF CheckKey, StatLoop, Slots, StatPcs
    <3>5. QED
      BY <2>2, <3>2, <3>3, <3>4 DEF CheckKey
  <2>3. CASE CheckLock
    <3>1. PICK s \in LockSamples :
            /\ check_elec' = [check_elec EXCEPT ![stat.i] = Shift(check_elec[stat.i], s)]
            /\ key' = [key EXCEPT ![stat.i].lock_status =
                                    LockStatus(Shift(check_elec[stat.i], s))]
      BY <2>3 DEF CheckLock
    <3>2. check_elec' \in [Slots -> Windows]
      BY <3>1, <2>0, ShiftType
    <3>3. key' \in [Slots -> KeyInfo]
      BY <3>1, <2>0, StatusType, EntryType, TableType
    <3>4. stat' \in [pc : StatPcs, i : Slots]
      BY <2>3 DEF CheckLock, StatLoop, Slots, StatPcs
    <3>5. QED
      BY <2>3, <3>2, <3>3, <3>4 DEF CheckLock
  <2>4. CASE SemRelease
    BY <2>4, SMTT(30) DEF SemRelease, Slots, StatPcs, LedPcs
  <2>5. CASE LedInit \/ SemTake \/ SemTakeReturn
    BY <2>5, SMTT(30) DEF LedInit, SemTake, SemTakeReturn, StartPass, LedGo, Slots, LedPcs
  <2>6. CASE InStatus \/ InLast \/ OutStatus \/ OutLast \/ PrintCmp
    BY <2>6 DEF InStatus, InLast, OutStatus, OutLast, PrintCmp, Test, LedGo, LedPcs
  <2>7. CASE LedOnlyRed \/ LedOnlyGreen
    BY <2>7, <2>0 DEF LedOnlyRed, LedOnlyGreen, WritePin, LedGo, LedPcs
  <2>8. CASE LoadStatus
    BY <2>8, <2>0 DEF LoadStatus, LedPcs, KeyInfo
  <2>9. CASE StoreLast
    <3>1. key' \in [Slots -> KeyInfo]
      BY <2>9, <2>0, EntryType, TableType DEF StoreLast
    <3>2. QED
      BY <2>9, <2>0, <3>1 DEF StoreLast, LedPcs, StatusBytes
  <2>10. CASE PrintCopy
    <3>1. key' \in [Slots -> KeyInfo]
      BY <2>10, <2>0, EntryType, TableType DEF PrintCopy
    <3>2. QED
      BY <2>10, <3>1 DEF PrintCopy, LedGo, LedPcs
  <2>11. CASE PrintByte \/ PrintEnd
    <3>1. key[led.i].cur_rfid_code \in Codes
      BY <2>0 DEF KeyInfo
    <3>2. QED
      BY <2>11, <3>1 DEF PrintByte, PrintEnd, LedGo, LedPcs
  <2>12. CASE NextSlot
    BY <2>12 DEF NextSlot, LedPcs, Slots
  <2>13. CASE Rfid
    <3>1. PICK toks \in Frames : Scan(toks)
      BY <2>13 DEF Rfid
    <3>2. \A i \in Slots : CodeSplit(key[i], toks[i]) \in KeyInfo
      BY EntryType DEF Frames
    <3>3. \A i \in Slots : Adopt(CodeSplit(key[i], toks[i])) \in KeyInfo
      BY <3>2, EntryType
    <3>4. key' \in [Slots -> KeyInfo]
      BY <3>1, <3>2, <3>3 DEF Scan
    <3>5. check_id' \in [Slots -> 0 .. 2]
      BY <3>1 DEF Scan, Counted
    <3>6. QED
      BY <3>1, <3>4, <3>5 DEF Scan
  <2>idle. CASE UNCHANGED vars
    BY <2>idle DEF vars
  <2> QED
    BY <2>idle, <2>13, <2>12, <2>11, <2>10, <2>9, <2>8, <2>7, <2>6, <2>5,
       <2>4, <2>3, <2>2, <2>1 DEF Next, Stat, Led
<1> QED
  BY PTL, <1>2, <1>1 DEF Spec

(* A slot shows both colours only between the two writes of led_only_red,  *)
(* for any number of slots and any interleaving with STAT and RFID.        *)
THEOREM LampsExclusive == Spec => []LampExclusive
<1>1. Init => LampExclusive /\ RedIsOut
  BY DEF Init, LampExclusive, RedIsOut
<1>2. TypeOK /\ LampExclusive /\ RedIsOut /\ [Next]_vars => LampExclusive' /\ RedIsOut'
  <2> SUFFICES ASSUME TypeOK, LampExclusive, RedIsOut, [Next]_vars
               PROVE  LampExclusive' /\ RedIsOut'
    OBVIOUS
  <2> USE DEF LampExclusive, RedIsOut
  <2>1. CASE Stat \/ Rfid
    BY <2>1 DEF Stat, StatInit, CheckKey, CheckLock, SemRelease, Rfid, Scan
  <2>2. CASE LedOnlyRed
    BY <2>2 DEF LedOnlyRed, WritePin, LedGo, TypeOK
  <2>3. CASE LedOnlyGreen
    BY <2>3 DEF LedOnlyGreen, WritePin, LedGo, TypeOK
  <2>4. CASE LedInit \/ SemTake \/ SemTakeReturn \/ NextSlot
    BY <2>4 DEF LedInit, SemTake, SemTakeReturn, NextSlot, StartPass, LedGo
  <2>5. CASE InStatus \/ InLast \/ OutStatus \/ OutLast \/ PrintCmp
    BY <2>5 DEF InStatus, InLast, OutStatus, OutLast, PrintCmp, Test, LedGo
  <2>6. CASE LoadStatus \/ StoreLast \/ PrintCopy \/ PrintByte \/ PrintEnd
    BY <2>6 DEF LoadStatus, StoreLast, PrintCopy, PrintByte, PrintEnd, LedGo
  <2>7. CASE UNCHANGED vars
    BY <2>7 DEF vars
  <2>8. QED
    BY <2>1, <2>2, <2>3, <2>4, <2>5, <2>6, <2>7 DEF Next, Led
<1>3. QED
  BY <1>1, <1>2, TypeCorrect, PTL DEF Spec

(* LED never sleeps on app_flag while the semaphore has a unit, wherever   *)
(* the 16-bit value stands.                                                *)
THEOREM NoLostWakeup == Spec => []WaiterMeansEmpty
<1>1. Init => WaiterMeansEmpty
  BY DEF Init, WaiterMeansEmpty
<1>2. TypeOK /\ WaiterMeansEmpty /\ [Next]_vars => WaiterMeansEmpty'
  <2> SUFFICES ASSUME TypeOK, WaiterMeansEmpty, [Next]_vars
               PROVE  WaiterMeansEmpty'
    OBVIOUS
  <2> USE DEF WaiterMeansEmpty
  <2>1. CASE StatInit \/ CheckKey \/ CheckLock \/ Rfid
    BY <2>1 DEF StatInit, CheckKey, CheckLock, Rfid, Scan
  <2>2. CASE SemRelease
    BY <2>2 DEF SemRelease
  <2>3. CASE SemTake \/ SemTakeReturn
    BY <2>3 DEF SemTake, SemTakeReturn, StartPass, LedGo, TypeOK
  <2>4. CASE LedInit \/ NextSlot \/ LedOnlyRed \/ LedOnlyGreen
    BY <2>4 DEF LedInit, NextSlot, LedOnlyRed, LedOnlyGreen, WritePin, LedGo
  <2>5. CASE InStatus \/ InLast \/ OutStatus \/ OutLast \/ PrintCmp
    BY <2>5 DEF InStatus, InLast, OutStatus, OutLast, PrintCmp, Test, LedGo
  <2>6. CASE LoadStatus \/ StoreLast \/ PrintCopy \/ PrintByte \/ PrintEnd
    BY <2>6 DEF LoadStatus, StoreLast, PrintCopy, PrintByte, PrintEnd, LedGo
  <2>7. CASE UNCHANGED vars
    BY <2>7 DEF vars
  <2>8. QED
    BY <2>1, <2>2, <2>3, <2>4, <2>5, <2>6, <2>7 DEF Next, Stat, Led
<1>3. QED
  BY <1>1, <1>2, TypeCorrect, PTL DEF Spec

(* Once stat_init is done a slot reads as taken or locked only when its    *)
(* debounce window says so: the bytes str2hex overwrites can lose a status *)
(* but not invent one.                                                     *)
THEOREM ScansForgeNothing == Spec => []ScanNeverForges
<1> USE DEF ScanNeverForges, NothingSampled
<1>1. Init => ScanNeverForges /\ NothingSampled
  BY DEF Init, Entry
<1>2. TypeOK /\ ScanNeverForges /\ NothingSampled /\ [Next]_vars
        => ScanNeverForges' /\ NothingSampled'
  <2> SUFFICES ASSUME TypeOK, ScanNeverForges, NothingSampled, [Next]_vars
               PROVE  ScanNeverForges' /\ NothingSampled'
    OBVIOUS
  <2>0. stat.i \in Slots /\ led.i \in Slots
    BY DEF TypeOK
  <2>k. key \in [Slots -> KeyInfo]
    BY DEF TypeOK
  <2>1. CASE StatInit
    <3>1. /\ check_amr' = check_amr /\ check_elec' = check_elec
          /\ stat.pc \in {"init_IO0", "init_IO1"}
          /\ stat'.pc \in {"init_IO0", "init_IO1", "check_key"}
      BY <2>1 DEF StatInit, StatLoop, TypeOK
    <3>2. \A i \in Slots : /\ key'[i].key_status \in {0, key_in}
                           /\ key'[i].lock_status = unlock
      BY <2>1, <2>0, <2>k, <3>1 DEF StatInit, Entry, KeyInfo
    <3>3. \A i \in Slots : AmrStatus(check_amr'[i]) = key_in
      BY <3>1, ZeroWindow DEF AmrStatus
    <3>4. QED
      BY <3>1, <3>2, <3>3
  <2>2. CASE CheckKey
    <3>1. PICK s \in AmrSamples :
            /\ check_amr' = [check_amr EXCEPT ![stat.i] = Shift(check_amr[stat.i], s)]
            /\ key' = [key EXCEPT ![stat.i].key_status =
                                    AmrStatus(Shift(check_amr[stat.i], s))]
      BY <2>2 DEF CheckKey
    <3>2. stat.pc = "check_key" /\ stat'.pc \in {"check_key", "check_lock"}
            /\ check_elec' = check_elec
      BY <2>2 DEF CheckKey, StatLoop, TypeOK
    <3>3. ASSUME NEW i \in Slots
          PROVE  /\ key'[i].lock_status = key[i].lock_status
                 /\ \/ key'[i].key_status = key[i].key_status /\ check_amr'[i] = check_amr[i]
                    \/ key'[i].key_status = AmrStatus(check_amr'[i])
      BY <3>1, <2>0, <2>k DEF TypeOK, KeyInfo
    <3>4. QED
      BY <3>2, <3>3
  <2>3. CASE CheckLock
    <3>1. PICK s \in LockSamples :
            /\ check_elec' = [check_elec EXCEPT ![stat.i] = Shift(check_elec[stat.i], s)]
            /\ key' = [key EXCEPT ![stat.i].lock_status =
                                    LockStatus(Shift(check_elec[stat.i], s))]
      BY <2>3 DEF CheckLock
    <3>2. stat.pc = "check_lock" /\ stat'.pc \in {"check_lock", "release"}
            /\ check_amr' = check_amr
      BY <2>3 DEF CheckLock, StatLoop, TypeOK
    <3>3. ASSUME NEW i \in Slots
          PROVE  /\ key'[i].key_status = key[i].key_status
                 /\ \/ key'[i].lock_status = key[i].lock_status /\ check_elec'[i] = check_elec[i]
                    \/ key'[i].lock_status = LockStatus(check_elec'[i])
      BY <3>1, <2>0, <2>k DEF TypeOK, KeyInfo
    <3>4. QED
      BY <3>2, <3>3
  <2>4. CASE Rfid
    <3>1. PICK toks \in Frames : Scan(toks)
      BY <2>4 DEF Rfid
    <3>2. ASSUME NEW i \in Slots
          PROVE  /\ key'[i].key_status \in {0, key[i].key_status}
                 /\ key'[i].lock_status \in {unlock, key[i].lock_status}
      BY <3>1, <2>k DEF Scan, CodeSplit, Str2Hex, Adopt, Entry, KeyInfo
    <3>3. stat' = stat /\ check_amr' = check_amr /\ check_elec' = check_elec
      BY <3>1 DEF Scan
    <3>4. QED
      BY <3>2, <3>3
  <2>5. CASE StoreLast \/ PrintCopy
    <3>1. ASSUME NEW i \in Slots
          PROVE  /\ key'[i].key_status = key[i].key_status
                 /\ key'[i].lock_status = key[i].lock_status
      BY <2>5, <2>0, <2>k DEF StoreLast, PrintCopy, KeyInfo
    <3>2. stat' = stat /\ check_amr' = check_amr /\ check_elec' = check_elec
      BY <2>5 DEF StoreLast, PrintCopy
    <3>3. QED
      BY <3>1, <3>2
  <2>6. CASE SemRelease
    BY <2>6 DEF SemRelease
  <2>7. CASE LedInit \/ SemTake \/ SemTakeReturn \/ NextSlot \/ LedOnlyRed \/ LedOnlyGreen
             \/ LoadStatus
    BY <2>7 DEF LedInit, SemTake, SemTakeReturn, NextSlot, LedOnlyRed, LedOnlyGreen, WritePin, LoadStatus
  <2>8. CASE InStatus \/ InLast \/ OutStatus \/ OutLast \/ PrintCmp \/ PrintByte \/ PrintEnd
    BY <2>8 DEF InStatus, InLast, OutStatus, OutLast, PrintCmp, Test, PrintByte, PrintEnd
  <2>9. CASE UNCHANGED vars
    BY <2>9 DEF vars
  <2>10. QED
    BY <2>1, <2>2, <2>3, <2>4, <2>5, <2>6, <2>7, <2>8, <2>9 DEF Next, Stat, Led
<1>3. QED
  BY <1>1, <1>2, TypeCorrect, PTL DEF Spec

(* STAT and LED use app_flag as a semaphore and in no other way: with what *)
(* SchedProofs shows of the kernel's semaphore this joins the cabinet to   *)
(* the kernel.                                                             *)
THEOREM CabinetUsesSemaphore == Spec => UsesSemaphore
<1> DEFINE wait == IF led.pc = "blocked" THEN <<"LED">> ELSE <<>>
           have == IF led.pc = "resumed" THEN {"LED"} ELSE {}
           mapped == <<app_flag, wait, have, {}>>
<1>1. Init => Flag!Init
  BY DEF Init, Flag!Init
<1>2. TypeOK /\ [Next]_vars => [Flag!Next]_mapped
  <2> SUFFICES ASSUME TypeOK, [Next]_vars PROVE Flag!Next \/ UNCHANGED mapped
    OBVIOUS
  <2>0. app_flag \in Nat /\ led \in [pc : LedPcs, i : Slots, tmp : StatusBytes]
    BY DEF TypeOK
  <2>1. CASE SemRelease
    <3>1. CASE led.pc = "blocked"
      <4>1. led'.pc = "resumed" /\ app_flag' = app_flag
        BY <2>1, <3>1 DEF SemRelease
      <4>2. wait = <<"LED">> /\ wait' = <<>> /\ have = {} /\ have' = {"LED"}
        BY <3>1, <4>1
      <4>3. Head(<<"LED">>) = "LED" /\ Tail(<<"LED">>) = <<>> /\ <<"LED">> # <<>>
        OBVIOUS
      <4>4. Flag!Release
        BY <4>1, <4>2, <4>3 DEF Flag!Release
      <4> QED BY <4>4 DEF Flag!Next
    <3>2. CASE led.pc # "blocked"
      <4>1. led' = led /\ app_flag' = (app_flag + 1) % SEM_MOD
        BY <2>1, <3>2 DEF SemRelease
      <4>2. wait = <<>> /\ wait' = wait /\ have' = have
        BY <3>2, <4>1
      <4>3. Flag!Release
        BY <4>1, <4>2 DEF Flag!Release
      <4> QED BY <4>3 DEF Flag!Next
    <3> QED BY <3>1, <3>2
  <2>2. CASE SemTake
    <3>1. led.pc = "take" /\ wait = <<>> /\ have = {}
      BY <2>2 DEF SemTake
    <3>2. ~Flag!Pending("LED")
      BY <3>1 DEF Flag!Pending
    <3>3. CASE app_flag > 0
      <4>1. app_flag' = app_flag - 1 /\ led'.pc = "in_status"
        BY <2>2, <3>3 DEF SemTake, StartPass
      <4>2. wait' = <<>> /\ have' = {}
        BY <4>1
      <4>3. Flag!Take("LED")
        BY <3>1, <3>2, <3>3, <4>1, <4>2 DEF Flag!Take
      <4> QED BY <4>3 DEF Flag!Next
    <3>4. CASE ~(app_flag > 0)
      <4>1. app_flag = 0 /\ app_flag' = app_flag /\ led'.pc = "blocked"
        BY <2>0, <2>2, <3>4 DEF SemTake, LedGo
      <4>2. wait' = <<"LED">> /\ have' = {} /\ Append(<<>>, "LED") = <<"LED">>
        BY <4>1
      <4>3. Flag!Wait("LED")
        BY <3>1, <3>2, <4>1, <4>2 DEF Flag!Wait
      <4> QED BY <4>3 DEF Flag!Next
    <3> QED BY <3>3, <3>4
  <2>3. CASE SemTakeReturn
    <3>1. led.pc = "resumed" /\ led'.pc = "in_status" /\ app_flag' = app_flag
      BY <2>3 DEF SemTakeReturn, StartPass
    <3>2. wait' = wait /\ have = {"LED"} /\ have' = {}
      BY <3>1
    <3>3. Flag!Return("LED")
      BY <3>1, <3>2 DEF Flag!Return
    <3> QED BY <3>3 DEF Flag!Next
  <2>4. CASE /\ app_flag' = app_flag
             /\ \/ led' = led
                \/ {led.pc, led'.pc} \cap {"blocked", "resumed"} = {}
    BY <2>4
  <2>5. CASE StatInit \/ CheckKey \/ CheckLock \/ Rfid
    BY <2>4, <2>5 DEF StatInit, CheckKey, CheckLock, Rfid, Scan
  <2>6. CASE LedInit \/ NextSlot \/ LedOnlyRed \/ LedOnlyGreen
    BY <2>4, <2>6 DEF LedInit, NextSlot, LedOnlyRed, LedOnlyGreen, WritePin, LedGo
  <2>7. CASE InStatus \/ InLast \/ OutStatus \/ OutLast \/ PrintCmp
    BY <2>4, <2>7 DEF InStatus, InLast, OutStatus, OutLast, PrintCmp, Test, LedGo
  <2>8. CASE LoadStatus \/ StoreLast \/ PrintCopy \/ PrintByte \/ PrintEnd
    BY <2>4, <2>8 DEF LoadStatus, StoreLast, PrintCopy, PrintByte, PrintEnd, LedGo
  <2>9. CASE UNCHANGED vars
    BY <2>4, <2>9 DEF vars
  <2> QED
    BY <2>1, <2>2, <2>3, <2>5, <2>6, <2>7, <2>8, <2>9 DEF Next, Stat, Led
<1> QED
  BY <1>1, <1>2, TypeCorrect, PTL DEF Spec, UsesSemaphore, Flag!Spec
=============================================================================
