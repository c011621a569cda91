----------------------------- MODULE KeyCabinet -----------------------------
(***************************************************************************)
(* The application threads of the key cabinet and the table they share.    *)
(*                                                                         *)
(*   STAT  (stat_entry)  samples the presence and lock sensors of every    *)
(*         slot, debounces them into key[i] and releases app_flag;         *)
(*   LED   (led_entry)   takes app_flag, compares key[i].key_status with   *)
(*         key[i].last_key_status, drives the two lamps of the slot and    *)
(*         prints the slot's tag code;                                     *)
(*   RFID  (rfid_entry)  parses the frames of the tag reader into key[i].  *)
(*                                                                         *)
(* STAT and LED have priority 21 and share the processor by time slices,   *)
(* so they interleave at every access to shared memory.  RFID has priority *)
(* 20 and blocks only while it waits for a frame, so one scan of a frame   *)
(* is a single step, which may fall between any two steps of the others.   *)
(***************************************************************************)
EXTENDS Naturals, FiniteSets

CONSTANTS
  APP_NUM,      \* slots of the cabinet (6 in tool.h)
  WINDOW,       \* samples in a debounce window (7 in stat.c)
  THRESH,       \* a sum above it reads as 1 (4 in stat.c)
  AmrSamples,   \* levels the presence sensors may return
  LockSamples,  \* levels the lock sensors may return
  SEM_MOD,      \* the semaphore value is a 16-bit counter (65536)
  CODE_LEN,     \* bytes of a tag code, one rt_kprintf each (5)
  Tags,         \* codes of the tags in use
  Zero,         \* the code of five 0x00 bytes
  FF,           \* the code of five 0xFF bytes
  NoTok         \* a frame has no ten-digit token for the slot

ASSUME CabinetAssumption ==
  /\ APP_NUM \in Nat \ {0}
  /\ WINDOW \in Nat \ {0}
  /\ THRESH \in 0 .. WINDOW - 1
  /\ AmrSamples \subseteq {0, 1}
  /\ LockSamples \subseteq {0, 1}
  /\ SEM_MOD \in Nat \ {0, 1}
  /\ CODE_LEN \in Nat \ {0}
  /\ NoTok \notin Tags \cup {Zero, FF}

Slots == 0 .. APP_NUM - 1
Codes == Tags \cup {Zero, FF}

(* key_status_t; 0 is no enumerator, but the bytes can hold it. *)
key_out == 1
key_in  == 2
StatusBytes == 0 .. 2

(* lock_status_t *)
unlock == 0
lock   == 1

(* An entry of the table key[], as a record of key_info_t. *)
Entry(cur, last, code, ks, last_ks, lk) ==
  [cur_rfid_code |-> cur, last_rfid_code |-> last, code |-> code,
   key_status |-> ks, last_key_status |-> last_ks, lock_status |-> lk]

VARIABLES
  key,       \* the shared table key[APP_NUM]
  check_amr, \* STAT's window of presence samples, per slot
  check_elec,\* STAT's window of lock samples, per slot
  check_id,  \* RFID's count of scans that disagree with cur_rfid_code
  lamp,      \* the lamps that are lit, per slot
  app_flag,  \* value of the semaphore app_flag
  stat,      \* STAT: where it is and the slot it works on
  led,       \* LED: where it is, the slot, and the byte it has loaded
  line       \* bytes of the line rfid_printf is writing

vars == <<key, check_amr, check_elec, check_id, lamp, app_flag, stat, led, line>>

-----------------------------------------------------------------------------
(* Debouncing in STAT                                                      *)

Windows == [0 .. WINDOW - 1 -> {0, 1}]

(* The oldest sample leaves the window and s enters it. *)
Shift(win, s) ==
  [j \in 0 .. WINDOW - 1 |-> IF j < WINDOW - 1 THEN win[j + 1] ELSE s]

(* The number of samples of the window that are 1. *)
Ones(win) == Cardinality({j \in 0 .. WINDOW - 1 : win[j] = 1})

AmrStatus(win)  == IF Ones(win) > THRESH THEN key_out ELSE key_in
LockStatus(win) == IF Ones(win) > THRESH THEN lock ELSE unlock

-----------------------------------------------------------------------------
(* The table as the board initialisation leaves it: cleared memory, then   *)
(* rt_hw_M606_init fills the two codes of every slot with 0xFF.            *)
Init ==
  /\ key = [i \in Slots |-> Entry(FF, FF, Zero, 0, 0, unlock)]
  /\ check_amr  = [i \in Slots |-> [j \in 0 .. WINDOW - 1 |-> 0]]
  /\ check_elec = [i \in Slots |-> [j \in 0 .. WINDOW - 1 |-> 0]]
  /\ check_id   = [i \in Slots |-> 0]
  /\ lamp = [i \in Slots |-> {}]
  /\ app_flag = 0
  /\ stat = [pc |-> "init_IO0", i |-> 0]
  /\ led  = [pc |-> "init", i |-> 0, tmp |-> 0]
  /\ line = 0

-----------------------------------------------------------------------------
(* STAT                                                                    *)

(* Advance STAT's loop over the slots; after the last slot go to `next`.   *)
StatLoop(next) ==
  stat' = IF stat.i + 1 < APP_NUM THEN [pc |-> stat.pc, i |-> stat.i + 1]
                                  ELSE [pc |-> next, i |-> 0]

(* stat_init: both rows of pins are set up in turn, and each time the      *)
(* slot's two status bytes are reset.                                      *)
StatInit ==
  /\ stat.pc \in {"init_IO0", "init_IO1"}
  /\ key' = [key EXCEPT ![stat.i] = Entry(@.cur_rfid_code, @.last_rfid_code,
                                @.code, key_in, key_out, @.lock_status)]
  /\ StatLoop(IF stat.pc = "init_IO0" THEN "init_IO1" ELSE "check_key")
  /\ UNCHANGED <<check_amr, check_elec, check_id, lamp, app_flag, led, line>>

(* Mutant: the status is computed before the new sample enters the window. *)
CheckKeyStale ==
  /\ stat.pc = "check_key"
  /\ \E s \in AmrSamples :
       /\ check_amr' = [check_amr EXCEPT ![stat.i] = Shift(@, s)]
       /\ key' = [key EXCEPT ![stat.i].key_status = AmrStatus(check_amr[stat.i])]
  /\ StatLoop("check_lock")
  /\ UNCHANGED <<check_elec, check_id, lamp, app_flag, led, line>>

(* check_key for one slot: sample, shift the window, store the status.     *)
CheckKey ==
  /\ stat.pc = "check_key"
  /\ \E s \in AmrSamples :
       LET win == Shift(check_amr[stat.i], s)
       IN  /\ check_amr' = [check_amr EXCEPT ![stat.i] = win]
           /\ key' = [key EXCEPT ![stat.i].key_status = AmrStatus(win)]
  /\ StatLoop("check_lock")
  /\ UNCHANGED <<check_elec, check_id, lamp, app_flag, led, line>>

(* check_lock for one slot. *)
CheckLock ==
  /\ stat.pc = "check_lock"
  /\ \E s \in LockSamples :
       LET win == Shift(check_elec[stat.i], s)
       IN  /\ check_elec' = [check_elec EXCEPT ![stat.i] = win]
           /\ key' = [key EXCEPT ![stat.i].lock_status = LockStatus(win)]
  /\ StatLoop("release")
  /\ UNCHANGED <<check_amr, check_id, lamp, app_flag, led, line>>

(* Mutant: the value is incremented but the suspended thread not resumed.  *)
SemReleaseNoResume ==
  /\ stat.pc = "release"
  /\ stat' = [pc |-> "check_key", i |-> 0]
  /\ app_flag' = (app_flag + 1) % SEM_MOD
  /\ UNCHANGED <<key, check_amr, check_elec, check_id, lamp, led, line>>

(* Mutant: the unit is given to LED and counted as well. *)
SemReleaseTwice ==
  /\ stat.pc = "release"
  /\ stat' = [pc |-> "check_key", i |-> 0]
  /\ led' = [pc |-> IF led.pc = "blocked" THEN "resumed" ELSE led.pc, i |-> led.i,
             tmp |-> led.tmp]
  /\ app_flag' = (app_flag + 1) % SEM_MOD
  /\ UNCHANGED <<key, check_amr, check_elec, check_id, lamp, line>>

(* rt_sem_release(app_flag): a suspended LED is given the unit and made    *)
(* ready, otherwise the 16-bit value is incremented, unchecked.            *)
SemRelease ==
  /\ stat.pc = "release"
  /\ stat' = [pc |-> "check_key", i |-> 0]
  /\ IF led.pc = "blocked"
     THEN led' = [pc |-> "resumed", i |-> led.i, tmp |-> led.tmp] /\ UNCHANGED app_flag
     ELSE app_flag' = (app_flag + 1) % SEM_MOD /\ UNCHANGED led
  /\ UNCHANGED <<key, check_amr, check_elec, check_id, lamp, line>>

Stat == StatInit \/ CheckKey \/ CheckLock \/ SemRelease

-----------------------------------------------------------------------------
(* LED                                                                     *)

LedGo(from, to) ==
  led.pc = from /\ led' = [pc |-> to, i |-> led.i, tmp |-> led.tmp]

(* led_init only turns the pins of the slots into outputs. *)
LedInit ==
  /\ LedGo("init", "take")
  /\ UNCHANGED <<key, check_amr, check_elec, check_id, lamp, app_flag, stat, line>>

(* LED begins a pass over the slots. *)
StartPass == [pc |-> "in_status", i |-> 0, tmp |-> led.tmp]

(* rt_sem_take(app_flag, RT_WAITING_FOREVER) *)
SemTake ==
  /\ led.pc = "take"
  /\ IF app_flag > 0
     THEN app_flag' = app_flag - 1 /\ led' = StartPass
     ELSE LedGo("take", "blocked") /\ UNCHANGED app_flag
  /\ UNCHANGED <<key, check_amr, check_elec, check_id, lamp, stat, line>>

(* LED has the processor again and returns from rt_sem_take. *)
SemTakeReturn ==
  /\ led.pc = "resumed" /\ led' = StartPass
  /\ UNCHANGED <<key, check_amr, check_elec, check_id, lamp, app_flag, stat, line>>

(* The four reads of the two conditions of key_status_led, each a separate *)
(* access: the second operand of && is read only when the first holds.     *)
Test(from, holds, yes, no) ==
  /\ LedGo(from, IF holds THEN yes ELSE no)
  /\ UNCHANGED <<key, check_amr, check_elec, check_id, lamp, app_flag, stat, line>>

(* Mutant: the second condition only recognises a slot recorded as in.     *)
OutLastNarrow ==
  Test("out_last", key[led.i].last_key_status = key_in, "red_off", "next")

InStatus == Test("in_status", key[led.i].key_status = key_in, "in_last", "out_status")
InLast   == Test("in_last", key[led.i].last_key_status # key_in, "red_on", "out_status")
OutLast  == Test("out_last", key[led.i].last_key_status # key_out, "red_off", "next")
OutStatus ==
  Test("out_status", key[led.i].key_status = key_out, "out_last", "next")

(* One rt_device_write of led_only_red or led_only_green. *)
WritePin(from, colour, level, to) ==
  /\ LedGo(from, to)
  /\ lamp' = [lamp EXCEPT ![led.i] = IF level THEN @ \cup {colour} ELSE @ \ {colour}]
  /\ UNCHANGED <<key, check_amr, check_elec, check_id, app_flag, stat, line>>

(* led_only_red: red high, then green low. *)
LedOnlyRed ==
  \/ WritePin("red_on", "red", TRUE, "green_off")
  \/ WritePin("green_off", "green", FALSE, "in_load")

(* Mutant: the two writes of led_only_green swapped. *)
LedOnlyGreenSwapped ==
  \/ WritePin("red_off", "green", TRUE, "green_on")
  \/ WritePin("green_on", "red", FALSE, "out_load")

(* led_only_green: red low, then green high. *)
LedOnlyGreen ==
  \/ WritePin("red_off", "red", FALSE, "green_on")
  \/ WritePin("green_on", "green", TRUE, "out_load")

(* key[i].last_key_status = key[i].key_status: the status byte is read     *)
(* again, and stored by a later instruction (tmp is 0 while it is dead).   *)
LoadStatus ==
  /\ led.pc \in {"in_load", "out_load"}
  /\ led' = [pc |-> IF led.pc = "in_load" THEN "in_store" ELSE "out_store",
             i |-> led.i, tmp |-> key[led.i].key_status]
  /\ UNCHANGED <<key, check_amr, check_elec, check_id, lamp, app_flag, stat, line>>

StoreLast ==
  /\ led.pc \in {"in_store", "out_store"}
  /\ led' = [pc |-> IF led.pc = "in_store" THEN "print_cmp" ELSE "next",
             i |-> led.i, tmp |-> 0]
  /\ key' = [key EXCEPT ![led.i].last_key_status = led.tmp]
  /\ UNCHANGED <<check_amr, check_elec, check_id, lamp, app_flag, stat, line>>

(* rfid_printf: compare the two codes; when they differ copy cur to last   *)
(* and print cur byte by byte, reading the table again for every byte; a   *)
(* newline ends the line.                                                  *)
PrintCmp ==
  Test("print_cmp", key[led.i].last_rfid_code = key[led.i].cur_rfid_code,
       "out_status", "print_copy")

PrintCopy ==
  /\ LedGo("print_copy", "print")
  /\ key' = [key EXCEPT ![led.i].last_rfid_code = key[led.i].cur_rfid_code]
  /\ UNCHANGED <<check_amr, check_elec, check_id, lamp, app_flag, stat, line>>

PrintByte ==
  /\ LedGo("print", IF line + 1 < CODE_LEN THEN "print" ELSE "newline")
  /\ line' = line + 1
  /\ UNCHANGED <<key, check_amr, check_elec, check_id, lamp, app_flag, stat>>

PrintEnd ==
  /\ LedGo("newline", "out_status")
  /\ line' = 0
  /\ UNCHANGED <<key, check_amr, check_elec, check_id, lamp, app_flag, stat>>

(* The loop of key_status_led goes to the next slot, or the pass ends. *)
NextSlot ==
  /\ led.pc = "next"
  /\ led' = IF led.i + 1 < APP_NUM
            THEN [pc |-> "in_status", i |-> led.i + 1, tmp |-> led.tmp]
            ELSE [pc |-> "take", i |-> 0, tmp |-> led.tmp]
  /\ UNCHANGED <<key, check_amr, check_elec, check_id, lamp, app_flag, stat, line>>

Led ==
  \/ LedInit \/ SemTake \/ SemTakeReturn
  \/ InStatus \/ InLast \/ LedOnlyRed
  \/ OutStatus \/ OutLast \/ LedOnlyGreen
  \/ LoadStatus \/ StoreLast
  \/ PrintCmp \/ PrintCopy \/ PrintByte \/ PrintEnd
  \/ NextSlot

-----------------------------------------------------------------------------
(* RFID                                                                    *)

(* str2hex: the %02X of the last bytes stores a whole unsigned int, so the *)
(* three bytes behind code[4] are cleared.  With the compiler's one-byte   *)
(* enums they are key_status, last_key_status and lock_status.             *)
Str2Hex(k, c) ==
  Entry(k.cur_rfid_code, k.last_rfid_code, c, 0, 0, unlock)

(* code_split: a slot whose token has ten digits takes the new code. *)
CodeSplit(k, tok) == IF tok = NoTok THEN k ELSE Str2Hex(k, tok)

(* Mutant: off by one in the count of disagreeing scans. *)
CountedOneMore(k, n) == k.code # k.cur_rfid_code /\ n <= 2

(* The first two disagreeing scans of a slot are only counted. *)
Counted(k, n) == k.code # k.cur_rfid_code /\ n < 2

(* Mutant: cur is not replaced. *)
AdoptNot(k) == [k EXCEPT !.last_rfid_code = k.cur_rfid_code]

(* Otherwise cur moves to last and the scanned code becomes cur. *)
Adopt(k) ==
  Entry(k.code, k.cur_rfid_code, k.code, k.key_status, k.last_key_status, k.lock_status)

(* scan_rfid on a frame that carries the tokens toks. *)
Scan(toks) ==
  LET split(i) == CodeSplit(key[i], toks[i])
  IN  /\ key' = [i \in Slots |-> IF Counted(split(i), check_id[i])
                                 THEN split(i) ELSE Adopt(split(i))]
      /\ check_id' = [i \in Slots |-> IF Counted(split(i), check_id[i])
                                      THEN check_id[i] + 1 ELSE 0]
      /\ UNCHANGED <<check_amr, check_elec, lamp, app_flag, stat, led, line>>

Frames == [Slots -> Tags \cup {Zero, NoTok}]
Rfid == \E toks \in Frames : Scan(toks)

-----------------------------------------------------------------------------
Next == Stat \/ Led \/ Rfid

(* Round robin among equal priorities runs STAT and LED again and again;   *)
(* nothing obliges the reader to send frames.                              *)
Fairness == WF_vars(Stat) /\ WF_vars(Led)

Spec == Init /\ [][Next]_vars
FairSpec == Spec /\ Fairness

-----------------------------------------------------------------------------
(* Properties                                                              *)

StatPcs == {"init_IO0", "init_IO1", "check_key", "check_lock", "release"}
LedPcs  == {"init", "take", "blocked", "resumed", "in_status", "in_last",
            "red_on", "green_off", "in_load", "in_store", "print_cmp", "print_copy",
            "print", "newline", "out_status", "out_last", "red_off", "green_on",
            "out_load", "out_store", "next"}

KeyInfo == [cur_rfid_code : Codes, last_rfid_code : Codes, code : Codes,
            key_status : StatusBytes, last_key_status : StatusBytes,
            lock_status : {unlock, lock}]

(* Types; also that check_id stays below 3 and the semaphore value fits.   *)
TypeOK ==
  /\ key \in [Slots -> KeyInfo]
  /\ check_amr \in [Slots -> Windows]
  /\ check_elec \in [Slots -> Windows]
  /\ check_id \in [Slots -> 0 .. 2]
  /\ lamp \in [Slots -> SUBSET {"red", "green"}]
  /\ app_flag \in 0 .. SEM_MOD - 1
  /\ stat \in [pc : StatPcs, i : Slots]
  /\ led \in [pc : LedPcs, i : Slots, tmp : StatusBytes]
  /\ line \in 0 .. CODE_LEN

(* The line being printed: started at "print", full at "newline", and      *)
(* empty everywhere else.                                                  *)
LineInv ==
  CASE led.pc = "print"   -> line < CODE_LEN
    [] led.pc = "newline" -> line = CODE_LEN
    [] OTHER              -> line = 0

(* A slot never shows both colours at once, except between the two pin     *)
(* writes of led_only_red: every other path through key_status_led, however*)
(* STAT and RFID change the table meanwhile, leaves one of them off.       *)
LampExclusive ==
  \A i \in Slots :
    lamp[i] = {"red", "green"} => led.pc = "green_off" /\ led.i = i

(* No wake-up is lost: LED never sleeps in rt_sem_take while app_flag has  *)
(* units, although the 16-bit value may wrap to zero in rt_sem_release.    *)
WaiterMeansEmpty == led.pc = "blocked" => app_flag = 0

(* What the two threads do with app_flag are calls of a semaphore, as the  *)
(* kernel implements it: STAT releases it, LED takes it and waits for it   *)
(* without a time limit.                                                   *)
Flag == INSTANCE Semaphore WITH
  Threads <- {"LED"}, MOD <- SEM_MOD, count <- app_flag,
  waiting <- IF led.pc = "blocked" THEN <<"LED">> ELSE <<>>,
  granted <- IF led.pc = "resumed" THEN {"LED"} ELSE {},
  expired <- {}

UsesSemaphore == Flag!Spec

(* The bytes cleared by str2hex can only lose a status, never forge one:   *)
(* once stat_init is done a slot reads as taken or as locked only when the *)
(* debounced samples say so.                                               *)
ScanNeverForges ==
  stat.pc \notin {"init_IO0", "init_IO1"} =>
    \A i \in Slots :
      /\ key[i].key_status \in {0, AmrStatus(check_amr[i])}
      /\ key[i].lock_status \in {unlock, LockStatus(check_elec[i])}

(* The strengthenings that make the invariants above inductive: led_only_  *)
(* green has put the red lamp out before it lights the green one, and until*)
(* stat_init is done no sample has been taken.                             *)
RedIsOut == led.pc = "green_on" => "red" \notin lamp[led.i]

NothingSampled ==
  stat.pc \in {"init_IO0", "init_IO1"} =>
    \A i \in Slots :
      /\ \A j \in 0 .. WINDOW - 1 : check_amr[i][j] = 0 /\ check_elec[i][j] = 0
      /\ key[i].key_status \in {0, key_in}
      /\ key[i].lock_status = unlock

(* A status that settles is recorded: when key_status stays key_in or      *)
(* key_out forever, key_status_led brings last_key_status to it.           *)
StatusRecorded ==
  \A i \in Slots : \A s \in {key_in, key_out} :
    <>[](key[i].key_status = s) => <>[](key[i].last_key_status = s)

BetweenPasses == led.pc \in {"take", "blocked", "resumed"}

(* The samples of slot i are all s, so check_key can only store one status.*)
SamplesStay(i, s) == \A j \in 0 .. WINDOW - 1 : check_amr[i][j] = s

(* A slot whose samples have settled is redrawn once str2hex has cleared   *)
(* its last_key_status between two passes of LED: unless later frames go   *)
(* on clearing key_status, the lamp ends in the colour of the slot's state,*)
(* whatever race had left it stale before.                                 *)
ClearedLampRedrawn ==
  \A i \in Slots :
    \A c \in {[s |-> 1, k |-> key_out, on |-> "green"],
               [s |-> 0, k |-> key_in,  on |-> "red"]} :
      []( /\ BetweenPasses
          /\ stat.pc \notin {"init_IO0", "init_IO1"}
          /\ key[i].last_key_status = 0
          /\ []SamplesStay(i, c.s)
          /\ <>[](key[i].key_status = c.k)
          => <>[](lamp[i] = {c.on}))

(* scan_rfid adopts a tag: when the scanned code of a slot stays the same  *)
(* and frames keep coming, it becomes cur_rfid_code and stays.             *)
StableTagAdopted ==
  \A i \in Slots : \A c \in Codes :
    <>[](key[i].code = c) /\ []<><<Rfid>>_vars => <>[](key[i].cur_rfid_code = c)

-----------------------------------------------------------------------------
(* What the comments of the code say and the code does not do.             *)

(* led.c, led_only_red and led_only_green: red when the key is in place,   *)
(* green when it is not.  Between passes no slot recorded as taken may     *)
(* show red and no slot recorded as in place green.                        *)
LampMatchesRecord ==
  BetweenPasses =>
    \A i \in Slots :
      /\ key[i].last_key_status = key_out => "red" \notin lamp[i]
      /\ key[i].last_key_status = key_in => "green" \notin lamp[i]

(* stat.c, check_key: the key status is what presence detection and its    *)
(* debouncing write.                                                       *)
StatusIsDebounced ==
  stat.pc \notin {"init_IO0", "init_IO1"} =>
    \A i \in Slots : key[i].key_status = AmrStatus(check_amr[i])

=============================================================================
