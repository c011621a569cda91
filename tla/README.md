# A TLA+ model of the key cabinet WL164001

The repository is the firmware of a cabinet that keeps keys: an STM32F103 under
RT-Thread 4.0.2, one processor core.  A board has six slots.  Each slot has a
presence sensor, a lock with two coils and a lock sensor, a red and a green
lamp, and an RFID tag on its key.  Three NCA9555 I/O expanders on one I2C bus
carry sensors, lamps and coils; an M606 tag reader sends the tag codes of all
slots as frames over a UART.

Paths below are relative to `src/WL164001/`.

## 1. Inventory

| Component | State it keeps | Operations | Talks to |
|---|---|---|---|
| Key table and threads (`applications/hw_module`, `app/app_work.c`, `M606_tool.c`) | `key[]`, debounce windows, `check_id[]`, lamps, semaphore `app_flag` | `stat_entry`: `check_key`, `check_lock`, `rt_sem_release`; `led_entry`: `rt_sem_take`, `key_status_led`, `rfid_printf`; `rfid_entry`: `scan_rfid` | all three share `key[]` without a lock; LED and STAT call the expander driver |
| Tag reader receive path (`drv_usart.c`, `serial.c`, `M606_init.c`) | DMA buffer, `last_index`, `put_index`, `get_index`, `is_full`, `rx_mq` | idle-line interrupt `uart_isr`, `rt_hw_serial_isr`, callback `M606_rx`, `rfid_get` | hardware writes the buffer, the interrupt fills the queue, RFID empties both |
| Expander driver (`drivers/drv_i2c_nca9555.c`) | registers of the chips | `nca9555_init`, `write_pin`, `control_pin`, `read_pin` | called by STAT, LED and the shell; two transfers per call |
| Locks (`elec.c`, `operate_lock`) | the coils, progress of the pulse script | `elec_action`, `elec_toggle` | shell command, calls the driver |
| I2C bus (`i2c_core.c`, `i2c-bit-ops.c`) | bus lock | `rt_i2c_transfer` | a kernel mutex per transfer |
| Start-up (`app_start.c`, `components.c`) | device handles | `app_open`, the init levels | creates the threads |
| Kernel scheduler, timers, semaphore (`scheduler.c`, `thread.c`, `timer.c`, `clock.c`, `ipc.c`) | ready table, thread states, timer list, tick, wait lists | `rt_schedule`, `rt_thread_*`, `rt_timer_*`, `rt_tick_increase`, `rt_sem_*` | all threads; the clock and device interrupts |
| Kernel mutex (`ipc.c`) | owner, lent priority, wait list | `rt_mutex_take`, `rt_mutex_release` | the bus lock |
| Kernel message queue (`ipc.c`) | two lists of linked cells, two wait lists | `rt_mq_send_wait`, `rt_mq_urgent`, `rt_mq_recv`, `rt_mq_control` | interrupt of the reader and RFID |
| FLASH thread, shell, demos, HAL, CMSIS, other kernel objects | | | not modelled |

What is hard to test in it, and what correctness means:

- *No lock protects `key[]`.*  STAT and LED have priority 21 and alternate by
  time slices; RFID, priority 20, interrupts both anywhere.  Correct: the lamps
  follow the status, both are never lit, no wake-up is lost, a tag that is there
  is adopted.
- *Results of bus transfers are ignored everywhere.*  Correct: a failed transfer
  must not raise a pin, and must not energise both coils of a lock.
- *Calls of the driver are read-modify-write in two transfers.*  Correct: pins
  look independent to the callers.
- *The processor may restart while the expanders keep their registers.*
  Correct: initialisation only ever releases pins.
- *The interrupt reconstructs what the DMA has done from two positions.*
  Correct: reads deliver the stream in order and lose only what was overwritten.
- *A message is copied with interrupts enabled, between two critical sections.*
  Correct: no cell is lost or used twice, no waiting thread is forgotten, and the
  threads see a bounded queue.
- *A thread that blocks is suspended before it calls `rt_schedule`, and interrupts
  fall in between.*  Correct: the ready table is right at every moment, the highest
  ready priority runs, a time limit and a release never both count.
- *The tick wraps.*  Correct: waits end at their tick all the same.
- *The mutex lends priorities.*  Correct: the owner is never outranked by those
  that find it holding the bus, and every lent priority is returned.

`PROJECT.json` lists each hazard at its line with the properties that watch it.

## 2. Modules

| Module | Models |
|---|---|
| `KeyCabinet`, `KeyCabinetProofs` | table, STAT, LED, RFID, `app_flag`; uses `Semaphore` |
| `PinBank` | abstract: a bank of independent pins |
| `Nca9555`, `Nca9555Proofs` | the driver and its transfers; implements `PinBank` |
| `ElecLock`, `ElecLockProofs` | `operate_lock` and `elec_toggle`, composed with `Nca9555` (`INSTANCE`); uses it as its specification allows |
| `SerialRx`, `SerialRxProofs` | DMA ring, idle interrupt, message queue, `rfid_get`; uses `BoundedQueue` |
| `BoundedQueue` | abstract: a bounded queue of messages |
| `MsgQueue`, `MsgQueueProofs` | the kernel message queue; implements `BoundedQueue` |
| `ReadyTable`, `ReadyTableProofs` | operations on the ready table, shared by the next two |
| `Semaphore` | abstract: units, waiting threads, time-outs |
| `Sched`, `SchedProofs` | scheduler, thread timers, clock, semaphore; implements `Semaphore` |
| `FifoLock` | abstract: a lock with a line of waiting threads |
| `BusLock`, `BusLockProofs` | the mutex of the I2C bus over the ready table; implements `FifoLock` |
| `MC*` | instances for TLC |

How they fit together.  `KeyCabinet`, `ElecLock` and `SerialRx` are the
application.  What they take for granted is what the other modules show, and the
two sides meet in an abstract specification, with a proved refinement on each:

| Service | implemented by | used by |
|---|---|---|
| `Semaphore` | `Sched` (`IsSemaphore`) | `KeyCabinet` (`UsesSemaphore`) |
| `BoundedQueue` | `MsgQueue` (`IsBoundedQueue`) | `SerialRx` (`UsesQueue`) |
| the driver `Nca9555` itself | | `ElecLock` (`UsesDriver`) |
| `PinBank` | `Nca9555` (`PinsAreIndependent`) | the pins of `KeyCabinet` |
| `FifoLock` | `BusLock` (`IsFifoLock`) | `Nca9555`, which takes a transfer as one step |

"Used by" in the first three rows is a refinement as well: the steps of the
user, seen through the mapping, are operations of the service.  In the last two
rows it is what the user's model takes for granted: `KeyCabinet` writes a lamp
in one step, `Nca9555` carries out a transfer in one.  The fairness of all of
them rests on `Sched`: time slices are served (`TimeSliced`), in turn
(`ReadyInOrder`), and waits end (`WaitsEnd`).

Definitions whose comment begins with "Mutant" are wrong versions of the
definition that follows them.  Nothing uses them; they show that the property
they are listed with in `PROJECT.json` can fail.

### KeyCabinet

`key` is the table; an entry has the fields of `key_info_t` (a tag code is one
value: five bytes that are written and compared together, except by
`rfid_printf`, which reads them one by one).  `stat` and `led` are the program
counters of the two threads with their loop index; every read or write of the
table by `key_status_led` is a step of its own, so that STAT falls between any
two.  `check_key` and `check_lock` do one slot per step: they read no shared
state that another thread writes, and write one byte of it.  A scan is one step:
RFID sleeps only in `rt_mq_recv`, so nothing of lower priority runs between the
first and the last access of `scan_rfid`.  The shell, of priority 15, touches no
entry of the table.  The bus lock may lend its holder a higher priority, but
only inside a transfer, where the table is not accessed.

When LED sleeps in `rt_sem_take`, `SemRelease` makes it ready (`resumed`) and it
returns from the call in a step of its own (`SemTakeReturn`), so that STAT may
release `app_flag` again in between; such a release is counted.

`Str2Hex` models what `sscanf("%02X")` into a byte array does with the
compiler's one-byte enums: the three bytes behind `code[4]` are cleared, and they
are the status bytes of the slot.  The type of a status
byte therefore contains 0, although 0 is no enumerator.  `Init` is the table
after `rt_hw_M606_init`; `stat_init` and `led_init` are steps.  Sensors return
any level of `AmrSamples` and `LockSamples`; that covers a failed `read_pin`,
which returns 0.

### Nca9555 and PinBank

A register pair is the set of pins whose bit is 1.  `Transfer(n)`: n of the two
bytes arrive, and n < 2 is a failure (`i2c-bit-ops.c` stops at the first byte
that is not acknowledged).  A call is `ReadRegister` and `WriteRegister`; the
bus lock makes each atomic and nothing more.  `Users[d]` are the threads that use
chip d; in the application each chip has one (STAT0, LED0, ELEC0), which is the
assumption `Exclusive` of the theorems.  Registers are arbitrary at first.

`PinBank` is what callers rely on: a call changes one pin at one instant.  The
mapping shows the bank as released until initialisation is done.

### ElecLock

`job` is the state of `operate_lock`: slot, action, next call of `elec_toggle`.
Time is not modelled: the sleeps only separate the steps.  One consequence is
used: `operate_lock` sleeps 500 ms before its first call, in which ELEC runs and
opens the device (`Begin` waits for `opened`).

### SerialRx

A byte is its number in the stream.  `Receive` is the hardware (DMA and idle
flag, external).  The interrupt is two steps: `UartIsr` reads the DMA counter and
runs the callback, `UartIsrEnd` clears the idle flag.  Threads do not run
before it returns, but the DMA goes on: `MaxLate` bytes may arrive while it is
pending and as many between the two steps, and the flag of a frame that ends
there is cleared without a report.
`dropped` and `reported` only serve the properties.  The half and full buffer
callbacks do nothing in this tree (their `dma_isr` calls are commented out), so
they are no actions.  The message queue is a bounded queue.

### MsgQueue and BoundedQueue

The cells of the pool are linked by `next` into the stored messages
(`msg_queue_head`, `msg_queue_tail`) and the free cells (`msg_queue_free`).  An
action is one stretch with interrupts disabled, or one copy: `Send` takes a free
cell, `SendCopy` fills it, `SendLink` links it at the end (or, for
`rt_mq_urgent`, at the head) and resumes a receiver; `Recv`, `RecvCopy` and
`RecvFree` do the reverse.  A thread that finds nothing is suspended; when it
runs again (`SendResumed`, `RecvResumed`) it looks again, as the loops of the
code do, and may find that another was faster.  `WaitTimeout` is the thread
timer; how much of a time limit is left is not counted, so a resumed thread may
have some or none.  `IsrSend` is a send from an interrupt: since the interrupt
runs to its end, it is one step.  `rt_mq_control(RESET)` keeps interrupts
disabled and goes cell by cell (`ResetCell`).  `order` and `pool` are auxiliary:
the two lists as sequences, which `ListsIntact` compares with the pointers.

`BoundedQueue` is what threads rely on: messages enter at the end or, when
urgent, at the head, leave from the head, and never exceed the pool.

### ReadyTable and Sched

The scheduler's state is a record, and the operations of `scheduler.c` are
functions on it, because the code calls several of them within one stretch of
disabled interrupts.  `InsertThread`, `RemoveThread`, `ChangePriority` and
`Schedule` are the functions of the same names; `Schedule` includes the time
slice flag, the scheduler lock and the case that the current thread goes on.

An action of `Sched` is a stretch that no interrupt can split.  A call that
blocks has three: suspend and start the timer (`Sleep`, `TakeWait`), then
`CallSchedule`, then the return.  `Tick` and the loop of `rt_timer_check`
(`FireTimer`, `CheckDone`) exclude everything else, since SysTick has the
highest priority; the device interrupt (`IsrRelease`, `IsrSchedule`) can be
interrupted by it.  Ticks are numbers up to `RT_TICK_MAX`, compared as the code
does by unsigned differences.  `due` and `units` are auxiliary: the ticks a
timer has left, counted independently of the clock, and the units released and
not yet taken.  The tick of a timer that does not run is kept at 0, since nobody
reads it.

`Semaphore` is what threads rely on.  Its `granted` are the threads that a
release has taken from the wait list and that have not got the processor yet,
its `expired` those that the timer has taken from it; in `Sched` the two differ
by `error`, which `rt_thread_timeout` sets.  `Sched` bounds the units by
`MaxUnits` and does not reach the wrap of the value; `KeyCabinet` does.

`ReadyInOrder` says what round robin is: from one state to the next nobody gets
in front of a thread in the list of its priority, and a thread that is given
the processor is the first of its list.

### BusLock

`rt_i2c_transfer` takes the mutex (`Take`, or `TakeWait` and `TakeReturn`),
sleeps in it as often as a chip stretches the clock (`Sleep` at `xfer`), and
releases it (`Release`, with `Restore` and `HandOver`).  Time is abstracted: a
slice may end and a sleep may end at any moment.  The mutex is never taken twice
by its owner here, and always without a time limit, so those branches are left
out.

`FifoLock` is what its users see: `using` is the thread between `rt_mutex_take`
and `rt_mutex_release`, `granted` the one that the mutex was handed to and that
has not run since, `line` the wait list.  It says nothing of priorities, and
that is the point: the order of service does not depend on them.

## 3. Runs

| Run | Instance | Shows |
|---|---|---|
| `cabinet` | one slot, windows of 2 with threshold 1, counter modulo 2, lines of 2 bytes, one tag and the zero code | `TypeOK`, `LampExclusive`, `WaiterMeansEmpty`, `ScanNeverForges`, `UsesSemaphore`, and under fairness `StatusRecorded`, `ClearedLampRedrawn`, `StableTagAdopted` |
| `expander_faults` | one chip, pins on both ports, all commands, two failures | `BootOnlyReleases`, `BootSurvivesOneFault`, `NoSpuriousHigh` |
| `expander_refines_bank` | two chips, a thread each, no failure | `PinsAreIndependent`: the refinement |
| `lock_coils` | two locks, two failures | `NeverBothCoils`, `OnlyPulsedCoil`, `CoilReleased` |
| `reader_stream` | buffer of 5, frames of 2, queue of 2, 18 bytes | `OfferedInOrder`, `NothingStranded`, `LossOnlyByOverrun`, `FramesAreRead` |
| `message_queue` | three threads and an interrupt, two cells, two messages | `ListsIntact`, `CellsAccounted`, `NoLostWakeup`, `NoneOverslept`, `IsBoundedQueue`: the refinement |
| `scheduler` | four threads of three priorities, a clock of eight ticks | `TableSound`, `HighestRuns`, `NoStaleTimer`, `OnTime`, `UnitsConserved`, `ReadyInOrder`, `IsSemaphore`: the refinement, `WaitsEnd`, `TimeSliced` |
| `bus_lock` | five threads of four priorities, three of them on the bus | `BusExclusive`, `TableSound`, `OnlyLent`, `Lent`, `HighestRuns`, `IsFifoLock`: the refinement, `EveryoneServed` |
| `cabinet_lamp_race` | the real window 7 and threshold 4 | violation: the lamp does not match the recorded status |
| `cabinet_spill` | | violation: a scan clears the debounced status |
| `lock_failed_write` | one failure | violation: success is reported with a coil energised |
| `reader_stale_message` | no failure, no overrun | violation: a message that delivers nothing |

Why the bounds are enough.  One slot suffices for the invariants of the cabinet,
because slots interact only through the positions of the loops, and the theorems
cover every number of slots.  In a window of two samples the status crosses the
threshold of one sample in both directions; where the length matters
(`cabinet_lamp_race`) it is the real one.  The counter modulo 2
wraps within a few passes.  The chip has two pins of one port and one of the
other, so a torn transfer separates them.  Two failures exceed the one that
`BootSurvivesOneFault` and `NeverBothCoils` tolerate.  The buffer of 5 is no
multiple of the frame, as 512 is none of 80, so frames wrap at every offset
within 18 bytes; `MaxLate` = 4 lets a whole buffer and more arrive between two
interrupts, and two frames end while one runs.

In `message_queue` two threads can wait for a cell and two for a message, with
and without a time limit, while a third copies; two cells are enough for a list
with a first and a last element that differ, and for a full and an empty queue.
In `scheduler` two threads share a priority and have different slices, one is
above them; the main thread starts them, so the table also grows and shrinks.
The clock wraps after eight ticks, so every order of two timers occurs on both
sides of the wrap; `MaxUnits` = 2 allows one unit in the value and one handed
over, `MaxNest` = 1 the scheduler lock.  In `bus_lock` a low user can own the
bus, a second one of its priority and a higher one wait, and the thread in
between tries to keep the owner from running: the case for which priorities are
lent.

The types of the other modules are proved (section 5) and not run again; so are
`RaisedByPulse`, `UsesDriver`, `UsesQueue` and the `ReadyInOrder` of `BusLock`.

Deadlock is checked everywhere except in the runs of `SerialRx`, where the tag
reader may fall silent, and of `MsgQueue`, where all threads may wait for ever.

Fairness.  `KeyCabinet`: weak fairness of STAT and of LED, which the round robin
of equal priorities gives; RFID sleeps between frames, and no fairness is
assumed for it (`StableTagAdopted` has the arrival of frames as a premise).
`ElecLock`: the initialisation runs, ELEC gets its time slices, the shell wakes
from its sleeps.  `SerialRx`: a pending interrupt is taken and ends, and RFID
runs when it is ready.  `MsgQueue`: a ready thread runs on, and a reset ends.  `Sched`: the
clock ticks and an interrupt ends; the current thread gets on with its kernel
call and leaves a critical section it has entered, each with strong fairness,
because interrupts take the processor away again and again but always return
it.  Nothing is assumed of a thread's own code: that a slice ends is the work of
the clock.  `BusLock`: the same for the threads that use the bus, and sleeps
end; `EveryoneServed` has as its premise that no ready user of the bus is kept
from the processor for ever, which a thread of higher priority could do.
Nothing is assumed about the tag reader or the user.

## 4. What the runs found

Each is a finding in `PROJECT.json` with the line it contradicts.

1. `key_status_led` reads `key_status` twice.  A change in between leaves, for
   example, a slot recorded as taken with a red lamp, until the status changes
   again or a scan clears the slot.
2. `str2hex` clears the status bytes of every slot it scans.  By luck this
   repairs 1: the next pass redraws a slot whose last status is 0
   (`ClearedLampRedrawn`), and it never forges a status (`ScanNeverForges`).
3. `elec_action` reports success when the end of the pulse was lost.
4. A message may deliver two frames, a later one none; the old frame is then
   scanned again.  The read of two frames also exceeds the 129 bytes of
   `rx_buffer`.

Also seen, without a run of their own:

- `rfid_printf` reads a code byte by byte, so a printed line can mix two codes;
  and it prints the all-zero code, which `M606.h:22` says is not printed.
- A failed read in `write_pin` puts all other outputs of the chip low.  It cannot
  set a level (`NoSpuriousHigh`).  A failed read in `control_pin` makes other
  pins outputs, and levels that `nca9555_init` failed to clear then drive.
- `uart_isr` reads the DMA counter (`drv_usart.c:691`) and clears the idle flag only
  after the callback (`:700`).  A frame that ends in between is not reported; it
  is read with the next one, or never if the tag reader falls silent.  The time
  in between is much shorter than a frame, except when the first overrun prints a
  warning there (`serial.c:336`).  `FramesAreRead` therefore speaks of what has
  arrived when the flag is up and the counter not yet read; stated of every frame
  it has a counterexample of ten steps.
- `INVERT` writes the bits of the CONFIGURATION registers into the POLARITY
  registers (no thread calls it).
- A second thread on one chip, as `nca9555_sample` starts it, loses updates.
- `rt_thread_yield` (`thread.c:473`) does not set the YIELD flag, so `rt_schedule`
  keeps the current thread although one of equal priority is ready; the comment
  above it says that it yields the processor.  `Yield` models what it does.
- The YIELD flag stays set when the slice ends and no thread of equal priority
  is ready; it takes effect at a later `rt_schedule`.
- The mutex is handed over in the order of arrival, and the new owner does not
  inherit from higher threads that were waiting before it: `Lent` therefore
  speaks of those that arrive after the owner got the lock.
- In branches the bus lock does not use: a waiter whose time limit ends leaves
  the owner with the priority it lent, a release that lowers the owner's
  priority without a waiter does not reschedule, and the release of one of two
  nested mutexes can restore the wrong priority.
- ELEC ends in a loop that does nothing at the priority of STAT and LED; the idle
  thread never runs, so the memory of exited threads is not freed.

## 5. Proofs

The eight `*Proofs` modules are checked by TLAPS to the last leaf, for every
value of the constants that the named assumption of the component allows.

- `KeyCabinetProofs!TypeCorrect`: `TypeOK /\ LineInv`.  `LineInv` (how much of a
  line is printed at each program counter) keeps the count within the line.
- `LampsExclusive`: `LampExclusive` alone is not inductive; `RedIsOut` adds that
  the red lamp is out when the green one is about to be lit.
- `NoLostWakeup`: inductive together with the types.
- `CabinetUsesSemaphore`: the refinement of `Semaphore` by LED and STAT.  The
  wait list of `app_flag` has LED or nobody, by its program counter; a release maps
  to the abstract one of either kind, and the rest of both threads stutters.
- `ScansForgeNothing`: `NothingSampled` carries the invariant through
  `stat_init`, before the first sample.
- `Nca9555Proofs!TypeCorrect`: with `CallsAfterBoot`.
- `InitReleases`, `InitSurvivesOneFault`: action properties; the second needs
  `ConfigWritten` (the first write succeeded unless a failure was counted).
- `OnlyCallsRaise`: assumes `Exclusive`.  `CopyBounded` says the bytes a call
  holds are bits of the register it will write, which is stable because no other
  thread writes that chip (`OthersUndisturbed`): so no level is set but that of
  the pin of a HIGH call.  `CopyExact` says that they are all its bits until a
  transfer fails: so the direction of another pin changes only after that.
- `ImplementsPinBank`: assumes `Exclusive` and no failures.  `CopyExact`,
  `BootProgress` and `ConfigWritten` make every step of the driver a step of
  `PinBank` or a stutter: boot ends with all pins released, a read is invisible,
  a write changes one pin.
- `ElecLockProofs`: `CoilInv` has four parts.  `Clean`: before any failure only
  the pulsed coil has a high level.  `CopyWithin`: a call's copy adds no bits.
  `OtherLow`: from the third call on the other coil is low; with one failure this
  holds either because that failure is the write itself, and the levels were all
  low, or because the write is whole.  `Pairs`: no lock has both levels high, or
  the one failure was in `nca9555_init` and left old levels (`Leftover`), and then
  every later transfer is whole, so a lock is made an output one coil at a time
  with the other low.  `PulseAlone` and `CoilsExclude` follow.  `OnlyPulseRaises`:
  for the levels `CopyWithin` is enough, with any number of failures; for the
  current, with one failure, `WholeOrLow` adds that a call that makes a coil an
  output has read its register whole or finds all levels low.  `LocksUseDriver`: every
  call of the script is a request the driver has (`Script`), so the theorems about
  `Nca9555` hold of the chip of the locks.
- `SerialRxProofs`: `StreamInv` is inductive (`StreamInvariant`).  Its core is
  `PutIsLast`: `put_index` is where the last interrupt saw the DMA, so the sum of
  `put_index` and a length that may be negative is again the position of the DMA
  (`PutFollowsDma`, the only place where the 16-bit arithmetic matters: it needs
  `IDX_MOD` >= `BUFSZ`, and the assumption has a factor of two to spare).
  `DmaAhead` says how far the DMA has gone since, `Newest` what is behind it, and
  `FirstRound` that nothing before the first byte is offered.  From these:
  `TypeCorrect`; `StreamInOrder`; `OnlyOverrunLoses`, because an interrupt that
  comes in time adds exactly the bytes that have arrived (`IsrAddsArrived`).
  `NoneStranded` follows from `LastCovers` (the newest message asks for
  everything unread) and `NoOldSize`.  `PathUsesQueue`: a message of the interrupt
  is a `Put` or, when it is dropped, a stutter; RFID holds one message at a time.
- `MsgQueueProofs`: `Inv` is `Waiting` (states of threads, wait lists and resumed
  threads), `Whole` (both lists are whole, every cell is in one place) and
  `Local` (what a thread remembers of its call).  The argument is that a cell in
  a thread's hands is in neither list, so nothing that happens during the copy
  can touch it.  `TypeCorrect`, `ListsStayIntact`, `CellsConserved`; `WakeupsKept`
  counts resumed threads against messages and cells; `ImplementsQueue` is the
  refinement: linking and unlinking are the steps of `BoundedQueue`, everything
  else stutters.
- `ReadyTableProofs`: lemmas about each operation on the table.  `Sound` says that
  bits, lists, states and priorities agree.  A thread that was taken out satisfies
  it with the exception of that thread (`ListsBut`), and changing its state or
  priority and putting it back restores it.  `Schedule` leaves the highest ready
  priority running.  The lemmas about the order of the lists say of each operation
  that the lists grow at the end only (`Grown`) or lose a thread, and that neither
  lets anybody be overtaken.  `InOrder` itself does not compose: a
  thread that left a list and joined it again would have lost its place between two
  steps that are each in order.  `Grown` does, since nobody leaves; so it is carried
  through what happens before `Schedule`, which takes the head of a list and keeps
  `InOrder` after it (`ScheduleInOrder`).
- `SchedProofs`: `Inv` is `Table`, `Flow` (which states are possible at which
  program counter), `Placed` (outside of the stretch before `rt_schedule` the
  current thread has the highest priority), `Waits` (the wait list is exactly the
  threads suspended in `rt_sem_take`) and `Timers`.  The wrapping clock is in
  `Timers`: `EndsAt` relates the tick of a timer to the ticks it has left, counted
  from now around the clock (`Fwd`).  As no timer has more than half of the range
  left, unsigned differences compare as the numbers of ticks left do
  (`LaterIsLonger`), so insertion keeps the list in order and exactly the due
  timers are found.  Theorems: `TypeCorrect`, `TableStaysSound`,
  `HighestAlwaysRuns`, `TimersNeverStale`, `WaitsEndOnTime`, `UnitsStayConserved`.
  `ImplementsSemaphore`: each call maps to one step where it changes the value or
  the wait list (`TakeIsTake` and the lemmas after it); the rest, the clock and the
  scheduler included, stutters, because `granted` and `expired` depend only on
  program counters, errors and on who is suspended, which `Waits` ties to the wait
  list.  `NobodyOvertaken`: `Grown` and `ScheduleInOrder`, action by action.
- `BusLockProofs`: `Inv` is `Kernel`, `Lock` (a thread in `rt_mutex_take` either
  waits or has been handed the mutex), `Placed` and `Lending` (a priority that is
  not a thread's own is that of a waiting one, and only the owner has it).
  Theorems: `TypeCorrect`, `TransfersExclude`, `TableStaysSound`,
  `PrioritiesReturned`, `OwnerIsRaised`, `HighestAlwaysRuns`, `NobodyOvertaken`.
  `ImplementsFifoLock`: by `Lock` a thread in `rt_mutex_take` that is not in the wait
  list has been handed the mutex, and only the owner drives the bus
  (`DrivingIsOwner`); a release with waiters is then the abstract `Pass`.

Only model-checked: the liveness properties (`StatusRecorded`,
`ClearedLampRedrawn`, `StableTagAdopted`, `CoilReleased`, `FramesAreRead`,
`NoneOverslept`, `WaitsEnd`, `TimeSliced`, `EveryoneServed`): liveness under
fairness is out of the reach of the prover.  Every invariant, action property
and refinement that a run checks is also proved.

## 6. Not modelled

Most of the lines of the repository are two copies of the vendored HAL and CMSIS
headers, RT-Thread components the firmware does not build, and code page tables;
the application, its drivers and the kernel services it uses are a small part of
it, and the modules cover that part.

Of the parts the firmware uses: the bit-level I2C protocol; UART transmission
and configuration; the allocation failures of `nca9555_init`, `M606_init` and
`app_open` (their handlers free a null pointer and go on with it); the error return
of `rt_hw_nca9555_port` (only for a name registered twice, and the names differ);
the start-up order, which the linker fixes; the FLASH thread; the shell; the heap,
object and
device layers.  The memory behind `rx_buffer`, which a read of several frames
exceeds.  The slave board (`USING_SLAVE_BOARD` is off).

Of the kernel: events, mailboxes and memory pools, which the application does not
use; detach and delete of objects with waiting threads; waiting by priority
(`RT_IPC_FLAG_PRIO`); recursive and timed mutexes; periodic and software timers;
suspending another thread; `rt_thread_delay_until`; freeing exited threads.

## 7. What could follow

1. Start-up: initialisation levels and devices that are not found.
2. The mutex with time limits and nesting, where the kernel does not give
   priorities back as it should (see section 4).
3. The fairness the application assumes, derived from `TimeSliced` and `WaitsEnd`
   in a composition of `Sched` with `KeyCabinet`.
