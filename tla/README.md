# A verification of the Loko Air firmware

Loko Air is a GNSS tracker on an STM32WLE5: a button, a 5 V input for the
charger, a battery, a GNSS module and a LoRa radio. It sleeps in the shutdown
mode of the microcontroller, is woken by the RTC, the button or the charger, looks
for a fix, sends it by LoRa point to point or by LoRaWAN, keeps some of the
fixes in flash, and shuts itself down again. `src/loko_air/Core` holds the code
of the project itself; `Drivers` and `Middlewares` are ST's and others'.

This directory holds TLA+ models of that code, the TLC configurations that
check them, and TLAPS proofs about them. Paths below are relative to
`src/loko_air/Core`.

## 1. Inventory

| Component | State it keeps | Operations | Interacts with | What is hard | What makes it correct |
|---|---|---|---|---|---|
| GNSS trace, `gnss_trace/gnss_trace.c` | two flash pages of records; page, index and count in RAM | `gtrace_init`, `_add`, `_get_record`, `_erase_all` | main loop, console, flash driver | power loss between any two flash operations; the order of the pages is not stored but inferred | never programs over a record; records stay in order; the count is right; old pages go first; the last position is the latest |
| Settings, `settings/settings.c` | one flash page used as a journal; the settings in RAM | `settings_init`, `settings_reset`, `settings_save` and the setters | everything reads them; console writes them | power loss between any two double words; a full page is erased before it is written | a change is durable as a whole or not at all; what is in use is what a start would load |
| Receive queue, `queue/queue.c` | ring of bytes and a count | `queue_init`, `_enqueue`, `_dequeue` | UART interrupts on one side, main loop (and bootloader) on the other | the interrupt may come between any two instructions; no locks are registered | first in, first out; nothing accepted is forgotten |
| Main loop, `Src/application.c` | `_system_state`, button and power-off flags, wake-up counter | wake-up reason, one branch per system state, `_background_loop`, `_shutdown` | all others | button, charger, battery and timer change at any time; the button is also looked at during a LoRaWAN send | power commands win; the wake-up timer is as the user left it; it sleeps again |
| Low power, RTC, start reason, `bsp_stm32wle5/bsp_low_power.c`, `bsp_rtc.c`, `bsp.c` | wake-up timer, flags, polarity of the 5 V pin, backup register 0 | `bsp_lp_shutdown`, `bsp_rtc_*`, `bsp_get_start_reason` | main loop, bootloader | what survives the shutdown and who clears it | as above |
| Battery filter, `bsp_battery.c` | filtered voltage | `bsp_battery_measure` | main loop | starts at 4200 mV and moves slowly | decisions follow the battery |
| Bootloader, `Src/bootloader.c` | the mailbox in backup register 0; the image in flash | mailbox, image check, the host's memory commands | host protocol, main loop | power loss while an image is written | never runs a partly written image |
| Host protocol, `stm32_bootloader_host_protocol/` | a buffer of received bytes, a command | one byte at a time | bootloader, host | lost bytes, restarts in the middle of a packet, a host that repeats the update | the last acknowledgement means that the image is in flash; an update can always be brought to its end |
| Command line, `cmd_line/cmd_line.c` | line buffer | one byte at a time | queue, settings, trace, reset | backspace, overflow, the `0x7F` entry | a command runs when its line was typed |
| Timer server, `Src/lorawan_app/stm32_timer.c` | list of timers, one alarm for its head | start, stop, set the period, the interrupt handler | LoRaWAN stack, RTC | callbacks start and stop timers while the list is walked, some of them timers that the main loop starts too; time passes while the next alarm is computed | no alarm is lost; each timer fires once, not before its time, and late by a bound at most |
| LoRaWAN application, `Src/lorawan_app/lora_app.c` | joined and completion flags, the stored context | init, join, send, stop, callbacks | main loop, stack, flash | a send the stack refuses; a confirmation of another uplink; a restart of the session | a send ends, on its own confirmation |
| LoRa point to point, `Src/subghz_phy_app.c` | `_is_sent`, `_is_timeout` | blocking send, radio interrupts | main loop, radio | a late interrupt of the send before; a LoRaWAN stack that still has the radio | a send ends and reports its own result |
| Clock switching, `bsp_clocks.c` | frequency, flash latency, voltage range | `bsp_clock_init`, `bsp_clock_switch` | main loop, bootloader | the order of latency, range and clock | latency suffices at every step |
| CRC, log, GPIO, UART, ADC, vendored code | - | - | - | - | left out, see section 7 |

The hazards, each at its line, are in `PROJECT.json`.

## 2. Plan

Order of work, most important behaviour first. All steps but 11 are done.

1. `GnssTrace`: the trace on flash with power losses.
2. `GnssTraceProofs`: its inductive invariant and the theorems from it.
3. `Settings`, implementing the abstract `DurableSettings`.
4. `RxQueue`, implementing the abstract `ByteFifo` when it has locks.
5. `Tracker`: bootloader entry, wake-up reason, main loop, shutdown. It uses the
   other components through what they promise (the trace as "holds a record").
6. `TrackerProofs`: its inductive invariant, `PowerOffSticks`, `WaitsWithGnss`
   and `PowerStateKept`.
7. `TimerServer`: the list, the handler, the callbacks and the alarm,
   implementing the abstract `TimerService`.
8. `FirmwareUpdate`: application, bootloader, host protocol and flash with a
   host that repeats the update, lost bytes and power losses.
9. `LoraSend`: both kinds of send against the stack and the radio's interrupts;
   it looks into the one step `SendDone` of `Tracker`.
10. `ClockSwitch`: the wait states of the flash at each register write.
11. `CmdLine` (the assembly of a line) and the pure functions (`_pack_vbat`, the
    battery filter, CRC16) against reference definitions over bounded inputs.
12. Proofs, each in a module beside its component: `SettingsProofs` (with the step
    simulation of `DurableSettings`), `RxQueueProofs` (with that of `ByteFifo`),
    `TimerServerProofs` (with that of `TimerService`), `LoraSendProofs`, and
    `GnssTraceLapProofs` (the count and the order of the pages).
13. `FirmwareUpdateProofs`: the types, the bytes of a packet that the protocol holds, and the order
    in which an erase takes the flash.
14. In the same modules, the two properties that need a measure or a script: `BoundedDelay` for every number of
    timers, and `TruthfulEnd` and `NoPartialLaunch` for every image, while the line loses nothing.

How the modules divide the system: `Tracker` is the whole device at the level of
its power states. `LoraSend` refines the step in which it sends, and `SendsEnd`,
which `Tracker` assumes for its liveness, is what `LoraSend` examines.
`TimerServer` is under the stack of `LoraSend`, which takes its promise (a
request ends) as the action `RequestEnds`. `FirmwareUpdate` composes the
application's entry to the bootloader, the bootloader and the flash; the image
it starts is the program of the other modules.

## 3. Modules and code

Every module models a step of the code as one action; `PROJECT.json` "map" gives
the lines of each definition. Definitions whose comment calls them a mistake (for
instance `NextPage_NoStep`) are wrong variants of the definition that follows
them; with one of them in its place the check of a property has to fail.

### GnssTrace
`flash[p][s]` is a slot of a page: `Empty`, `Torn`, or the number of the fix
saved in it. `current_page`, `current_index` and `written_records` are `gtrace_t`.
`mode` says where the program is in the trace's functions. Each erase of a page
and each write of a record is an action, and `Reset` and `ResetInWrite` may come
at any point; the latter leaves a record of which one or two of its three double
words are programmed. `gtrace_init` is `InitBegin` and one `InitCheckPage` a
page, and runs again without a reset when the main loop returns to
`SYSTEM_STATE_INIT`. A page with a torn record is erased by `_check_page`, its
good records with it. Assumptions: the checksum detects every torn record (it is
the sum of the record's bytes); a page erase is atomic; programming a double word is
atomic. The erase command is modelled from the point where the trace has been
initialised: the console can be used before it (a button held during a charge),
when `gtrace_t` is still zero.

### Settings and DurableSettings
`flash[i]` is a record: `body`, the double words of the settings, and `last`, the
double word with index, signature and checksum. `Set` is a setter followed by
`settings_save`; the double words are programmed one at a time (`ProgramBody`,
`ProgramLast`), and `PowerLoss` may come before each. A double word that is not
erased is not programmed again, unless with zeros, as the flash does.
`checked` stands for the checksum: the settings it was computed from. The 8-bit
sum is taken to tell a mixed or cut record from a whole one.
`DurableSettings` is the promise: a store whose changes are durable as a whole, in
which a failing supply may also bring the default values back. The refinement
maps `stored` to what a start would load from the page as it is.

### RxQueue and ByteFifo
`Enqueue` is the UART interrupt. The main loop's `queue_init` and
`queue_dequeue` are cut into the assignments between which the interrupt may come;
`q->count--` is a load and a store (`DequeueLoad`, `DequeueStore`), as on this
processor. `locked`, chosen at the start, says whether `queue_register_locks` was
called: neither the application nor the bootloader calls it, so each property
says for which of the two it holds. Bytes are the numbers in which they were
received. `ByteFifo` is a bounded first-in first-out buffer, which drops a byte
that arrives when it is full.

### Tracker
The board: `usb`, `button`, `battery`, the wake-up timer and its flag, backup register 0,
the polarity at which the 5 V pin wakes. The program: `pc` is where it is between
the points at which it looks at the board, `system_state` and the other variables
are those of `application.c`. `Boot` is the bootloader up to the start of the
application (which clears the register), `StartReason` and the `Detect...`
actions are `_detect_wakeup_reason`, the `Run...` actions the branches of the switch,
`Background` and `ButtonHeld` are `_background_loop` without and with a button held
to the end, `Shutdown` and `ShutdownNow` are `_shutdown` before and after its wait for
the button. A LoRaWAN send runs the background loop, a point to point send does not.
Voltages are three levels. What is left open: whether `PWR_CR4` keeps the polarity of
the pin over a shutdown (`Reasons` allows both), and whether a fix is caught.
`unsaved_wakeups`, `command` and `timer_at_start` are history and no guard reads them.

### TimerServer and TimerService
`timerList` is the list at `TimerListHead`, `Timestamp` what the code keeps less
the time elapsed since its reference: all comparisons of the code are between
times, so the model counts from the present and `Tick` moves everything by one.
`alarm` is what the RTC's alarm A still has to count, `arming` the time-out that
`TIMER_IF_StartTimer` is about to set: ticks may pass between the computation and
the setting, and an alarm that was passed never matches. Interrupts are masked
inside the server, so that an alarm can come between a caller's look at the list
(`MainLook`, before `UTIL_TIMER_ENTER_CRITICAL_SECTION`) and the insertion
(`MainInsert`), and between the calls that `UTIL_TIMER_SetPeriod` makes
(`todo`).

Main loop and callbacks start the same timers. `OnTxDelayedTimerEvent`, the callback of
`TxDelayedTimer`, goes through `ScheduleTx` (`LoRaMac.c:2108`) and starts `TxTimeoutTimer`
(`radio.c:1372`) or `TxDelayedTimer` itself (`LoRaMac.c:3199`); the main loop starts both by the
same function. `Starts[t]` is what the callback of `t` starts, and `CallbackStop` and `CallbackStart` are
its calls, as many as it makes until `CallbackReturn`, so that a callback may also stop a timer and start it again.
Nothing in the timer server keeps such a callback from starting a timer between the main loop's look and insertion;
the timer would be in the list twice. The MAC does: while a timer of which a callback sends is running it is
busy (`LORAMAC_TX_DELAYED`, set with the timer and cleared in its callback or where the timer is stopped), and
`LoRaMacIsBusy` turns requests away. This is the guard `NoneStarts(t)` of `SetPeriodAndStart`: the main loop begins to start
`t` only while no timer runs whose callback starts `t`. Without it (`NoneStarts_Not`) TLC finds the timer that is
in the list twice. The guard is looked at once, at the beginning; that it still holds at the insertion, whatever has expired,
been stopped and been started in between, is what `ListIsRunning` and the proof are about. The retransmission from the main loop (`LoRaMac.c:1906`)
stops `TxDelayedTimer` first and then starts it: `StopTimer`, then `SetPeriodAndStart`. `StopTimer`
is also the radio's interrupt, which stops its timers (`radio.c:1626`) at any point of the main loop's calls but starts none.
A sender that does not ask the MAC is in section 6. All timers of this firmware are one-shot;
the periodic mode and `UTIL_TIMER_StartWithPeriod` have no caller.
`TimerService` is the promise: a timer that was started fires once, not before its time,
unless it is stopped. `TimerSetTimeout` may put the head off without moving it, so
the list need not be sorted, whatever the remark of `TimerInsertTimer` says
(`stm32_timer.c:416`); what follows from that is a delay, which `BoundedDelay` bounds.

### LoraSend
`lora` is the stack with the variables of `lora_app.c`: the request in progress, the
event that ended it, the activation, a pending empty uplink, `_is_joined`,
`_is_tx_complete`. Each function of the handler gives the set of stacks it can leave, because
the duty cycle (`budget`) and the channels decide whether a request is taken. The three loops of
`_send_gnss_data_by_lorawan` are `WaitJoin`, `WaitTx` and `Deinit`; each serves the stack
only in `_background_loop`, and only while LoRaWAN is on, which the console may
change. `SendByP2p` and `P2pDone` are `subghz_radio_send_block` with its two flags, its
own time-out, the radio's, and a receive window of a stack that was not stopped.
A confirmation with an error status sets `_is_tx_complete` too, so it is not told apart. A
frame that is too long for the data rate is replaced by an empty one in the stack
(`PAYLOAD_LENGTH_RESTRICTED`), which the application cannot see either.

### FirmwareUpdate
The line carries the bytes of the protocol, `byte_handle` is the function of that
name with the arithmetic of its checksums and one operator for each case of its switch (`ProcessRead`, `ProcessWrite`,
`ProcessErase`, `ProcessGo`), `context` its buffer and state. The flash is
a few double words: the first holds the signature and the place of the CRC, the last
of an image the CRC or the word that says there is none. `Programmed` and `ErasedUpTo`
give what an operation leaves at each point at which the supply may fail.
The host is external and does what one that follows the protocol does: send
a packet, wait for its acknowledgements, begin again when it is refused or hears
nothing. `AppReceive` is the entry by two bytes `0x7F` in the running
application, `Boot` the mailbox and the check of the image. A charger that is
unplugged and the button in the bootloader are resets like `PowerCut`.
`misheard` is history: the protocol answers a synchronisation and a command as it answers a
packet, so a bootloader that restarts in the middle of one, and then hears a byte
`0x7F`, or two bytes that add up to `0xFF`, gives the host the answer it waits for (a data byte of 0 before a
checksum of 255 is a `GET`). The running application has the same weakness for two bytes `0x7F`. The application's and the
bootloader's step set it when they acknowledge a byte while the host's packet is neither
a synchronisation nor a command.

### ClockSwitch
`bsp_clock_init` and the two switches are the sequences of registers they write, and
`Write` writes one. `msi`, `latency` and `scale` are the registers,
`SystemCoreClock` the variable that `bsp_clock_switch` compares.

## 4. Runs

| Run | Instance | What it shows |
|---|---|---|
| `trace` | 2 pages of 3 records, 12 fixes, 1 erase command | `IInv`, `LapInv`: the inductive invariants of section 5; `CursorErased`: the place to write at is erased; `PagesOrdered`; `CountMatches`: the count is what flash holds (until the erase command is used); `FullPageStable`: a full page's worth of records is only lost to the erase command. `FirstLap...`: until page 0 is full for the second time, the console lists the records oldest first (unless the page in use has just been filled, see section 6), the fallback position is the newest, a page switch drops the oldest |
| `trace_stale` | 9 fixes, no erase | violated: after that point and a restart, the fallback position is not the newest |
| `settings` | 3 records of 2 fields of 3 values | `IInv`; the journal implements `DurableSettings`; `NoGap`; `ValidStable`: no save damages an older record; `CleanSaveDurable`: while no record is damaged, a finished save is what a start loads |
| `settings_lost` | 2 records | violated: after a save that was cut short, the next save is lost |
| `queue` | 3 cells, 7 bytes, with and without locks | with locks the queue implements `ByteFifo`, and `AllDelivered`; without them `IInv`, `CountNeverExceeds`, `ExactUntilCollision`, and `LagNeverHeals`: a byte the count forgot is never counted again |
| `tracker` | count 2, LoRaWAN, 1 reset or battery change, with fairness | `IInv`; `PowerOffSticks`: a request to power off is not undone; `WaitsWithGnss`; `PowerStateKept`: a start leaves the wake-up timer as the user's commands in it want it; `SleepsAgain`: left alone off the charger, and with sends that end, the tracker comes to its shutdown |
| `tracker_count` | count 2, no reset | violated: the count of "gtrace period" is never reached |
| `tracker_tickle` | with fairness | violated: the tickle charge loop is not left when the battery has recovered |
| `timer` | 3 timers, all started by the main loop; the callback of the delayed send starts the send's time-out or the delay again; periods 2 and 5 ticks | `LateInv`, the inductive invariant of section 5 (with `IInv`); `AlarmForHead`: while the server rests, the alarm is set for the head and still to come, or has matched; `ListIsRunning`: each running timer is in the list once, although main loop and callback start the same ones; `BoundedDelay`: no timer is later than `MaxLate`; the server implements `TimerService` |
| `radio` | 3 requests per session, with fairness | `IInv`; `JoinedAgrees`: no send on the join of an earlier session; `CompleteIsOwn`: the wait for an uplink ends on its own confirmation; `ResultIsOwn`: a block reported as sent was on the air; `SendEnds`: a send ends, unless the stack refused it or LoRaWAN was switched off in its middle |
| `update` | images of 3 double words in 4, page list or all for the erase, 1 lost byte, 2 power losses, with fairness | `UpdateInv`, the inductive invariant of section 5 (with `IInv`); `EraseFromFront`: what was programmed is lost only to an erase that took the information block first; `TruthfulEnd`: the last acknowledgement means that the image is in flash; `NoPartialLaunch`: no partly written image is started (both unless a byte of a packet was taken for a command, `misheard` in section 3); `UpdateCompletes`: the host that repeats comes to the end |
| `clock` | the two programs | violated: on the way to 16 MHz the oscillator is set before the wait states |

**Bounds.** The trace: with N pages of R records the inferred order of the pages can go
wrong first when page 0 is full for the second time, that is after (N+1)R = 9 fixes;
12 fixes are two laps, so every page has been dropped once and the ring's order is that
of the beginning again. Three records a page give a first, a middle and a last
one. The proofs cover the rest. The settings: 3 records make the page wrap, with one
record neither first nor last; two fields are enough for a record that is half
programmed; three values give one that is zero (which flash lets through), the
default and another. The queue: 7 bytes through 3 cells wrap the ring twice. The
tracker: the counter saturates at the count, and there is one reset or battery
change; charger, button, battery and timer are unbounded.
The timers: three give a head, one behind it and one inserted between them, and they are one whose
callback starts itself and another (`TxDelayedTimer`), the other (`TxTimeoutTimer`), and one whose callback starts none; one
period is below `MIN_ALARM_DELAY` (3, as in the code) and one above. `MaxSlip` = 1 is
the number of ticks (of about 1 ms) that one stretch of the server's code
takes; the assumption is that two of them are shorter than `MIN_ALARM_DELAY`. Time is not bounded. `MaxLate`, `(number of timers - 1) * (MIN_ALARM_DELAY + MaxSlip)
+ 3 * MaxSlip`, is 11 ticks here, which is tight: with 10 TLC finds a timer that is later. `LateInv` was also checked with four timers. The sends: three requests per session are a join, an
empty uplink and the send, so the duty cycle can refuse any of them; everything else is unbounded, sessions
included. The update: three double words give the one that is looked at first, one in
between, and the one with the CRC; the new image is one whose bytes can be misheard in each way: a `0x7F` in the body and as a
checksum, and a body whose end is a `GET`. One byte may be lost, because the checksum is
an exclusive or and cannot detect the loss of two equal bytes, as no check of eight bits can detect every loss: with two
lost bytes TLC finds an application that is started with a part of the image; two power losses
make one come while the first is being repaired. Updates follow one another without a bound.

**Deadlock** is checked in all runs but `trace` and `queue`, which
stop when their bound of fixes or bytes is used up.

**Fairness.** `RxQueue`: weak fairness of the main loop's steps, since the loop drains
the queue in each round; nothing obliges the UART to receive. `Tracker!FairSpec`: the
processor executes (`WF(Program)`) and the tick counter reaches the time-out
(`WF(NoFixTimeout)`). That a send ends is the premise `SendsEnd` of `SleepsAgain` and not a fairness
condition, because the code does not always justify it (see `LoraSend`).
`LoraSend!FairSpec`: the program runs, a request that the stack has taken ends (its
receive windows and the radio's time-out run on timers), and the tick counter reaches the
time-outs. `FirmwareUpdate!FairSpec`: the program that is started handles its bytes, and the host goes on.
Nothing is asked of user, charger, battery, network or line.

## 5. Proofs

Each module of proofs extends its component and states the inductive invariant `IInv`
(and `LapInv`, `LateInv`; `UpdateInv` is in `FirmwareUpdate`), which TLC checks in the component's run before TLAPS proves it. Every
theorem holds for all values of the constants that satisfy the component's assumptions,
bounds included: those are `GnssTraceAssumption`, `SettingsAssumption` with
`OffAssumption`, `RxQueueAssumption`, `TrackerAssumption`, `TimerServerAssumption`,
`LoraSendAssumption` and `FirmwareUpdateAssumption`, which TLC evaluates in each run. They say that sizes are numbers and
marks differ from data; the ones that restrict the code are those of the timer server and three for the update. The timer
server: `2 * MaxSlip < MIN_ALARM_DELAY`; finitely many timers; and `Starts` is transitive (what the callback of a timer
sets going starts nothing that the callback itself does not start, as `TxDelayedTimer` does with itself and `TxTimeoutTimer`, whose callback starts none). Two more are in
its actions: `NoneStarts`, by which the main loop begins to start a timer only while no running timer's callback starts it
(section 3 says what in the MAC does that, section 6 where it fails), and all calls of a callback together take `MaxSlip` ticks at most. The update: the application fits its 108 pages (`MaxWords`, from
`bsp_flash_layout.h`), an erase list is one that a host sends to erase the application (all pages, or as many as it says with the
application's first among them), and the information block of the new image gives its last double word as the place of the CRC, as
`app_stm32wle5jcix_flash.ld` puts it behind all else.

| Module | Theorems | For every |
|---|---|---|
| `GnssTraceProofs` | `InvariantHolds` (`IInv`), `TypeCorrect`, `CursorSafe` (`CursorErased`), `Ordered` (`PagesOrdered`), `FullPageKept` (`FullPageStable`) | page size, number of pages from two up, fixes, erase commands |
| `GnssTraceLapProofs` | `LapHolds` (`LapInv`), `CountHolds` (`CountMatches`), `PrintHolds` (`FirstLapPrintInOrder`), `FallbackHolds` (`FirstLapFallback`), `EvictHolds` (`FirstLapEvictsOldest`) | page size, fixes, erase commands; two pages |
| `SettingsProofs` | `InvariantHolds` (`IInv`), `TypeCorrect`, `NoGapHolds`, `CleanSaveHolds` (`CleanSaveDurable`), `ValidStableHolds`, `RefinementHolds` (`ImplementsDurable`) | number of records, fields and values |
| `RxQueueProofs` | `InvariantHolds` (`IInv`), `TypeCorrect`, `CountHolds` (`CountNeverExceeds`), `ExactHolds` (`ExactUntilCollision`), `LagHolds` (`LagNeverHeals`), `FifoHolds` (`ImplementsFifo`) | size of the queue, bytes received |
| `TrackerProofs` | `InvariantHolds` (`IInv`), `TypeCorrect`, `PowerOffHolds` (`PowerOffSticks`), `WaitHolds` (`WaitsWithGnss`), `PowerStateHolds` (`PowerStateKept`) | count, with and without LoRaWAN and debug output, resets, battery changes; the last one with a wake-up period set |
| `TimerServerProofs` | `InvariantHolds` (`IInv`), `TypeCorrect`, `AlarmHolds` (`AlarmForHead`), `ListHolds` (`ListIsRunning`), `RefinementHolds` (`ImplementsService`), `LateHolds` (`LateInv`), `DelayHolds` (`BoundedDelay`) | number of timers, periods, and timers that each callback starts |
| `LoraSendProofs` | `InvariantHolds` (`IInv`), `TypeCorrect`, `JoinedHolds` (`JoinedAgrees`), `CompleteHolds` (`CompleteIsOwn`), `ResultHolds` (`ResultIsOwn`) | duty cycle |
| `FirmwareUpdateProofs` | `InvariantHolds` (`IInv`), `TypeCorrect`, `BufferHolds` (`BufferNeverFull`), `EraseOrder` (`EraseFromFront`), `UpdateHolds` (`UpdateInv`), `TruthfulHolds` (`TruthfulEnd`), `LaunchHolds` (`NoPartialLaunch`) | images, size of the application, erase lists, power losses; lost bytes, but for the last three, which say nothing once a byte is lost |

**The trace.** `CursorErased` is not inductive: it speaks of a position that
`gtrace_init` has reckoned by counting programmed slots. That the count is the first
free position needs each page to be a prefix of programmed slots (`FlashInv`), which is kept
because writes go to the cursor, which is `CursorErased` again. While the scan runs, `ScanInv` says
what is known of the pages already passed; `CursorInv` says that, once it is done, no
page holds a torn record. `FullPageStable` follows: a page is only erased when it is torn, by the
command, or by `AddSwitchPage`, and then the page just left is full.

**The turn of the pages.** The count and the order of the pages are nowhere in flash;
`LapInv` says what they can be inferred from. At any time the trace is on page 0 with nothing
behind it (`Starting`), on page 1 behind a full page 0 (`Following`), or on page 0 behind a
full page 1 (`Wrapped`), and every record of the full page is older than those of the other.
`Placed` says that `gtrace_init` takes these for what they are, but for one: with page 0 full behind a full
page 1 it takes page 1 for the newer one. `Saved` bounds from below how many fixes it takes to come there, three pages
of them, which is what `FirstLap` leaves out (a torn record fills a slot without a fix that was saved; the
page is erased before it is written again). `PlacedListing` then gives the list of stored records, as
long as the count; the four theorems read it off. They need `PageCount = 2`, as in the firmware
(`FLASH_GNSS_TRACE_PAGE_COUNT`): with three pages `CountMatches` is false, since
`_switch_page` subtracts a page's worth of records although the page it moves to was empty. TLC finds that at the
seventh fix of an instance with 3 pages of 3.

**The settings.** What a start loads must change with the last double word of a save and with no
other. `ProgramInv` says that the record being written is invalid until then; `IndexInv` that
no valid record lies behind it. A save that goes over the remains of one that was cut
short is the hard case: flash lets only zeros through, so `TrailersInv` has to say that a record
is zero wherever its checksum was computed of zero; then nothing that is programmed over a
valid record changes it, and nothing makes an invalid one valid but what it was meant to be. `RefinementHolds` proves
each step a step of `DurableSettings` or a stutter, with `ram` and `stored` mapped to the settings in use and those a start would load.

**The receive queue.** `q->count--` is a load and a store with the interrupt between them. `CountInv`
says that what is stored is less than what was loaded, so the count never tells more
than there is, whatever was lost. `RingInv` ties the two indices and the cells to the bytes that wait, while the count
is exact. With locks it always is, and `LockedInv` keeps the byte in the hands of
`queue_dequeue` the first of the abstract queue, which is what the simulation of `ByteFifo` needs.

**The main loop.** `StateInv` adds to `PowerOffSticks` and `WaitsWithGnss` the point after the switch
(`background`), and the start, where both are established; while a message is sent neither
need hold, because the button may change the state then, and `SendDone` restores them. `TimerInv` and
`CommandInv` carry what `PowerStateKept` compares: during a start the wake-up timer is as it was
found, a pending wake-up flag implies a running timer, and the power-off flag is
the user's last command. `PowerStateHolds` assumes `AutoWakeup = "auto"`: a period of 0 or 0xFFFFFFFF means to
`_shutdown` what `SHUTDOWN_NO_AUTO_WAKEUP` and `SHUTDOWN_KEEP_WAKEUP` mean, and with it the
button cannot switch the tracker on for good.

**The timer server.** `ListIsRunning` is kept by each critical section, by way of what the insertion
and the removal of a timer make of a sequence (`InsertAtEffect`, `RemoveAtEffect`). `AlarmForHead` needs `HeadInv`, which
says what holds in the middle of the handler: a head without an alarm is not pending, so that the end of the handler sets
one, or it has expired, so that the loop takes it out. `SlipInv` bounds the time an alarm that has been
computed may take until it is set; this is where the assumption on `MIN_ALARM_DELAY` is used: without it an alarm could be set for a
time that has gone. That a timer which was not listed when `UTIL_TIMER_Start` looked is not listed when it is inserted is the hard part, since a callback may come
in between and start timers, those of the main loop included. `TodoInv` carries the main loop's guard through the call: as long as a call for `t` is
under way, no running timer's callback starts `t`, nor does the one that runs. A callback keeps that because `Starts` is transitive: a timer that it starts
could start `t` only if it could itself. A call that has stopped `t` and will start it again needs in addition that
`t`'s own callback does not start `t`, which `NoneStarts` gave while `t` was running. So nothing but the main loop puts `t` into the list before the insertion.

How late a timer can be is not to be seen in one timer. `TimerSetTimeout` puts a head off that is due too soon, and if
that head is stopped or served, the next one may be put off in its turn, and the list is not sorted any more. `OrderInv` says how little
of the order is lost: behind the head all is in order, and only a head whose time is `MIN_ALARM_DELAY` or less may be behind the
next one. `ExactInv` says that a timestamp is the true time that is left, but for that head and for timers that are due. `AlarmInv` ties the alarm to the
head; in the handler it is too far away to match. `Rest` is how many ticks it takes at most until the head is out of the
list (its alarm, then one slip to serve it and one to take it out; less in the middle of the handler; a head for which a callback has set an alarm keeps it). `DelayInv` is the measure:
each timer has room for `Rest` and for one more delay, `MIN_ALARM_DELAY + MaxSlip`, for each place before it (`Stage`). Taking the
head out pays for the place. An insertion moves the timers behind it one place back, but none of them is due before the timer
inserted, so that they have the whole of `MaxLate` for the places before them.

**The sends.** Between `lorawan_init` and `lorawan_send` the stack has at most a join in progress and
no empty uplink to send (`Joining`), because only a confirmed uplink announces one and the initialisation
forgets it. So the first confirmation after `lorawan_send` is that of its own uplink (`Sending`).

**The update.** That `byte_handle` keeps its types needs to know what it has received: it indexes its buffer
by the length and waits for exact lengths, `received == 5`, `received == buffer[5] + 8`, `received ==
buffer[0] + 3`. `Within` bounds the bytes held by the state and the command, so each case that reads
`buffer[i]` has received it, and a context never goes past the length it waits for; since a length is a byte, 288 are
never reached (`BufferHolds`). The lengths come from the line, so this holds for any bytes. `HostInv` says that the host waits only
for answers to packets of its script, of which there are finitely many (`step`'s type). `EraseOrder` goes through what the flash may hold
after each operation and each interruption of it: a write changes only erased double words, an erase a first part of the
application. It is the device's half of `NoPartialLaunch`, and does not depend on what the host sends.

`TruthfulEnd` and `NoPartialLaunch` join the host's script, the bytes in flight, the protocol and the flash. `TrackInv` says how:
either host and device are at the same packet, which has not been sent (`Idle`), is answered (`Answered`) or is partly heard (`Hearing`:
what the buffer holds and what is on the line make up the packets since the last command), or the device is in no command and will
not acknowledge anything the host can wait for (`Silent`). In the first three the flash holds exactly the double words whose packets
were acknowledged, with the rest erased (`Reached`). A power loss leads to `Silent` or to a packet the device still hears from its
first byte; only a synchronisation leads back, and the host sends one only when it begins again. Each last byte of a packet does to the
flash what the packet asks for, or is refused (`PacketHeard`, `EffectOf`). The flash is at any time one that `Corrupted` refuses, or all of an
image: the beginning of an image has no mark in its last double word yet (`BeginningRefused`), a double word that was cut short
is not that mark (`WordRefused`), and an erase that was cut short has taken the information block (`EraseRefused`). The invariant is
stated for `lost = 0` and until something is misheard. With lost bytes what the device takes for a checksum depends on the bytes of the
image, so that there is no statement for every image; TLC checks one lost byte on the instance.

Only model-checked: `TruthfulEnd` and `NoPartialLaunch` after a byte was lost, for the reason just given (and with two lost bytes they are
false); `ClockSwitch`, whose property the code violates; and all liveness (`AllDelivered`,
`SleepsAgain`, `SendEnds`, `UpdateCompletes`), since fairness and ENABLED are beyond TLAPS.

## 6. Other disagreements met

Seen in the same models, without a run of their own:

- `gtrace_init` takes the last page for the current one when all pages are full, whatever their age,
  so the next save erases page 0, also when it holds the newest records.
- When the page in use has just been filled, `gtrace_get_record` sends every index of it to the next page
  (`>=` in `gnss_trace.c:147`), so that "gtrace print" shows none of them; `FirstLapPrintInOrder`
  excludes that state.
- `gtrace_get_record` accepts an index equal to the count when an old record lies there.
- An erase command that is interrupted between its pages leaves a count that a later page switch corrects wrongly;
  `CountMatches` stops at the first erase command.
- `settings_save` compares only the settings of the record at the index and not its checksum, so a damaged record
  may make it skip a save.
- The filtered voltage starts at 4200 mV and is not measured before `SYSTEM_STATE_INIT` on a timer wake-up, so the
  GNSS module is enabled on a low battery (`application.c:857` says the contrary).
- `_pack_vbat` has `MIN` and `MAX` exchanged and always gives 15.
- Without locks, a byte that the receive queue forgot comes out behind newer ones once the ring has gone round
  (`queue_test.cpp:89` expects the order of arrival, but calls the queue from one thread).
- When the stack refuses a send (duty cycle), `lorawan_send` says nothing and `application.c:606` waits for a completion
  that does not come: `Refused`, which `SendEnds` names. The same loop and the next one do not end
  when the console switches LoRaWAN off in the middle of a send, because `_background_loop` then no longer serves the stack.
- An empty uplink that is pending when `lorawan_deinit` stops the stack makes it join again, on a radio that has been taken down.
- The bootloader acknowledges a write that the flash refused or that lies outside the application (`bootloader.c:110`).
  `TruthfulEnd` holds because an update begins with an erase.
- A read of one byte is acknowledged without data (`stm32_bootloader_host_protocol.c:170`), and the guard of its buffer at 288 bytes is never
  reached by a command (`BufferHolds`).
- The image of a build without a CRC is started without a check. `NoPartialLaunch` holds
  for it because the word that says so is the last that is written.

- The point to point send starts `TxTimeoutTimer` (`RadioSend`, `subghz_phy_app.c:100`) without asking the MAC. When the console switches
  LoRaWAN off between `lorawan_init` and the send, the stack is not stopped and the send goes point to point; if `TxDelayedTimer`
  runs then (a retransmission that waits for the duty cycle), `NoneStarts` does not hold, and its callback can start `TxTimeoutTimer` between the look and the insertion of that send. What follows is what the
  mutant `NoneStarts_Not` shows: the timer is inserted twice, and in the code the second insertion overwrites its link, so that timers are lost or the
  list becomes a ring. The window is a few instructions in `stm32_timer.c:155`; `TimerServer` leaves this sender out.

## 7. Not modelled

GPIO, UART, ADC and log (register accesses and formatting: what they report is a
nondeterministic input), NMEA parsing and packet layouts, AES, CRC16 as arithmetic
(`FirmwareUpdate` takes it to be right for one image only), the assembly of
command lines, and the vendored code: the HAL, CMSIS, the radio driver, lwgps, cayenne_lpp, and the
LoRaWAN stack but for what `LoraSend` says of requests and confirmations. Vendored files
are nearly all of the repository's lines, so the modules cover few of those,
though most of what the project's own code decides.

Left out of the modelled parts: a page erase that was cut short and leaves cells between the two states (an erase of the update
takes whole pages, one after the other); the reload mode and the wrap-around of the timer
server; the store of the LoRaWAN context, whose groups the stack guards with checksums of its
own; `UTIL_TIMER_Create` on a timer that is listed, when `lorawan_init` runs twice; the radio's
registers after `subghz_deinit`; `queue_enqueue_drop_first`, `queue_pick` and the peeks, which have no caller.
