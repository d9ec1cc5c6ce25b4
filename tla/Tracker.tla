------------------------------ MODULE Tracker -------------------------------
(***************************************************************************)
(* The life of the tracker from one wake-up to the next: the start of the  *)
(* bootloader (Core/Src/bootloader.c), the wake-up reason, the main loop   *)
(* with its system states and the button (Core/Src/application.c), and the *)
(* entry into the shutdown mode (bsp_low_power.c).                         *)
(*                                                                         *)
(* The microcontroller keeps two things while it is shut down: the wake-up *)
(* timer of the RTC and backup register 0.  The register is the mailbox    *)
(* through which the console asks for the bootloader and also the wake-up  *)
(* counter of the GNSS trace.                                              *)
(*                                                                         *)
(* Voltages are three levels: Critical (below BATTERY_MIN_LEVEL_POWER_ON), *)
(* Low (below BATTERY_MIN_LEVEL_FOR_GNSS) and Good.  The filter of         *)
(* bsp_battery.c moves by a tenth of the difference, never across a whole  *)
(* level in one measurement.                                               *)
(***************************************************************************)
EXTENDS Integers

CONSTANTS
  SaveMult,     \* settings_get_gnss_trace_save_mult
  AutoWakeup,   \* settings_get_auto_wakeup_period_s: "auto", "none" (0) or
                \* "keep" (SHUTDOWN_KEEP_WAKEUP)
  Lorawan,      \* settings_get_is_lorawan_mode
  DebugOutput,  \* settings_is_debug_output
  MaxResets     \* bound: resets and battery changes in a behaviour

ASSUME TrackerAssumption ==
  /\ SaveMult \in Nat
  /\ AutoWakeup \in {"auto", "none", "keep"}
  /\ Lorawan \in BOOLEAN
  /\ DebugOutput \in BOOLEAN
  /\ MaxResets \in Nat

VARIABLES
  \* the board
  usb, button, battery,
  wakeup_timer,         \* RTC_CR_WUTE
  wakeup_flag,          \* PWR_SR1_WUFI
  pin3_low,             \* the polarity at which the 5 V pin wakes
  register,             \* backup register 0
  has_record,           \* gtrace_get_record_count is not 0
  \* the program
  pc,
  system_state,         \* _system_state
  power_off_request,    \* _is_power_off_request
  button_last,          \* _is_button_pressed_last_state
  reason,               \* bsp_get_start_reason
  voltage,              \* _battery_voltage
  no_fix_timeout,       \* NO_FIX_TIMEOUT_MS has passed since no_fix_ts
  gnss_awake,           \* the GNSS module is on and not put to sleep
  time_off,             \* the argument of _shutdown
  \* history
  command,              \* the last power command of the user in this start
  timer_at_start,       \* wakeup_timer when this start began
  unsaved_wakeups,      \* wake-ups since a record was saved, up to SaveMult
  resets

board == <<usb, button, battery>>
backup == <<wakeup_timer, wakeup_flag, pin3_low>>
trace == <<register, has_record, unsaved_wakeups>>
ram == <<system_state, power_off_request, button_last, reason, voltage,
         no_fix_timeout, gnss_awake, time_off>>
start == <<command, timer_at_start>>
vars == <<board, backup, trace, pc, ram, start, resets>>

-----------------------------------------------------------------------------
Critical == 0
Low == 1
Good == 2
Levels == Critical .. Good

Mailbox == -1  \* INTER_TARGET_MAILBOX_CMD_STAY_IN_BOOTLOADER

SystemStates == {"INIT", "TICKLE", "WAIT_FOR_GPS_FIX", "SEND_DATA",
                 "SHUTDOWN", "SHUTDOWN_CHARGING"}

(* Where the program is; in "shutdown" it is not running at all. *)
Points == {"shutdown", "boot", "bootloader", "start", "detect",
           "run", "sending", "background", "release"}

TypeOK ==
  /\ usb \in BOOLEAN /\ button \in BOOLEAN /\ battery \in Levels
  /\ wakeup_timer \in BOOLEAN /\ wakeup_flag \in BOOLEAN
  /\ pin3_low \in BOOLEAN
  /\ register \in {Mailbox} \cup 0 .. SaveMult
  /\ has_record \in BOOLEAN
  /\ pc \in Points
  /\ system_state \in SystemStates
  /\ power_off_request \in BOOLEAN /\ button_last \in BOOLEAN
  /\ reason \in {"button", "charger", "timer"}
  /\ voltage \in Levels
  /\ no_fix_timeout \in BOOLEAN /\ gnss_awake \in BOOLEAN
  /\ time_off \in {"auto", "none", "keep"}
  /\ command \in {"no", "on", "off"}
  /\ timer_at_start \in BOOLEAN
  /\ unsaved_wakeups \in 0 .. SaveMult
  /\ resets \in 0 .. MaxResets

(* The battery is put in: the backup domain is clear. *)
Init ==
  /\ usb \in BOOLEAN /\ button \in BOOLEAN /\ battery \in Levels
  /\ wakeup_timer = FALSE /\ wakeup_flag = FALSE /\ pin3_low = FALSE
  /\ register = 0
  /\ has_record = FALSE
  /\ pc = "boot"
  /\ system_state = "INIT"
  /\ power_off_request = FALSE /\ button_last = FALSE
  /\ reason = "button"
  /\ voltage = Good
  /\ no_fix_timeout = FALSE /\ gnss_awake = FALSE
  /\ time_off = "keep"
  /\ command = "no"
  /\ timer_at_start = FALSE
  /\ unsaved_wakeups = 0
  /\ resets = 0

-----------------------------------------------------------------------------
(***************************************************************************)
(* The board: the charger, the button, the battery and the wake-up timer.  *)
(***************************************************************************)
PlugOrUnplug ==
  /\ usb' = ~usb
  /\ pc' = IF pc = "shutdown" /\ usb = pin3_low THEN "boot" ELSE pc
  /\ UNCHANGED <<button, battery, backup, trace, ram, start, resets>>

PressOrRelease ==
  /\ button' = ~button
  /\ pc' = IF pc = "shutdown" /\ ~button THEN "boot" ELSE pc
  /\ UNCHANGED <<usb, battery, backup, trace, ram, start, resets>>

BatteryChange ==
  /\ battery' = IF usb THEN battery + 1 ELSE battery - 1
  /\ battery' \in Levels
  /\ UNCHANGED <<usb, button, backup, trace, pc, ram, start, resets>>

TimerFires ==
  /\ wakeup_timer
  /\ wakeup_flag' = TRUE
  /\ pc' = IF pc = "shutdown" THEN "boot" ELSE pc
  /\ UNCHANGED <<board, wakeup_timer, pin3_low, trace, ram, start, resets>>

NoFixTimeout ==
  /\ pc \in {"run", "background", "sending"}
  /\ no_fix_timeout' = TRUE
  /\ UNCHANGED <<board, backup, trace, pc, system_state, power_off_request,
                 button_last, reason, voltage, gnss_awake, time_off, start,
                 resets>>

(* The battery is changed: the backup domain loses its contents. *)
BatteryReplaced ==
  /\ resets < MaxResets
  /\ resets' = resets + 1
  /\ battery' \in Levels
  /\ wakeup_timer' = FALSE /\ wakeup_flag' = FALSE /\ pin3_low' = FALSE
  /\ register' = 0
  /\ pc' = "boot"
  /\ UNCHANGED <<usb, button, has_record, unsaved_wakeups, ram, start>>

-----------------------------------------------------------------------------
(***************************************************************************)
(* bsp_lp_shutdown, entered once the button is released, and the           *)
(* bootloader.                                                             *)
(***************************************************************************)
LpShutdown(timer) ==
  /\ wakeup_timer' = timer
  /\ wakeup_flag' = FALSE
  /\ pin3_low' = usb
  /\ pc' = "shutdown"

(* The bootloader reads the mailbox and clears the register. *)
Boot ==
  /\ pc = "boot"
  /\ pc' = IF register = Mailbox THEN "bootloader" ELSE "start"
  /\ register' = 0
  /\ command' = "no"
  /\ timer_at_start' = wakeup_timer
  /\ UNCHANGED <<board, backup, has_record, unsaved_wakeups, ram, resets>>

BootloaderExit ==
  /\ pc = "bootloader"
  /\ ~usb
  /\ LpShutdown(FALSE)
  /\ UNCHANGED <<board, trace, ram, start, resets>>

(* The host's "go" command, or the button held for three seconds. *)
BootloaderReset ==
  /\ pc = "bootloader"
  /\ pc' = "boot"
  /\ UNCHANGED <<board, backup, trace, ram, start, resets>>

-----------------------------------------------------------------------------
(***************************************************************************)
(* The start of the application.                                           *)
(***************************************************************************)
(* bsp_get_start_reason, which keeps its first answer.  Whether the        *)
(* polarity of the 5 V pin survives in PWR_CR4 is left open.               *)
Reasons ==
  IF wakeup_flag THEN {"timer"}
  ELSE IF usb THEN {"charger"}
  ELSE IF pin3_low THEN {"charger", "button"} ELSE {"button"}

StartReason ==
  /\ pc = "start"
  /\ reason' \in Reasons
  /\ system_state' = "INIT"
  /\ power_off_request' = FALSE
  /\ button_last' = FALSE
  /\ voltage' = Good
  /\ no_fix_timeout' = FALSE
  /\ gnss_awake' = FALSE
  /\ time_off' = "keep"
  /\ pc' = "detect"
  /\ UNCHANGED <<board, backup, trace, start, resets>>

(* _shutdown up to the loop that waits for the button.  The timer is        *)
(* deactivated before the loop, _prepare_to_sleep quiets the GNSS module.   *)
(* Mistake the checks must reject: the timer is left running.               *)
Deactivated_Not(off) == UNCHANGED <<wakeup_timer, wakeup_flag>>
Deactivated(off) ==
  IF off = "none" THEN wakeup_timer' = FALSE /\ wakeup_flag' = FALSE
                  ELSE UNCHANGED <<wakeup_timer, wakeup_flag>>

PrepareToSleep == gnss_awake' = (gnss_awake /\ DebugOutput)

Shutdown(off) ==
  /\ time_off' = off
  /\ Deactivated(off)
  /\ PrepareToSleep
  /\ pc' = "release"

ShutdownNow ==
  /\ pc = "release"
  /\ ~button
  /\ LpShutdown(IF time_off = "auto" THEN TRUE ELSE wakeup_timer)
  /\ UNCHANGED <<board, trace, ram, start, resets>>

(* What bsp_battery_measure may leave in _battery_voltage, once and in the  *)
(* three seconds of a held button.                                         *)
Measured == {v \in Levels : v = voltage \/ (v = voltage - 1 /\ battery < voltage)
                                        \/ (v = voltage + 1 /\ battery > voltage)}
MeasuredLong == voltage .. battery \cup battery .. voltage

(* _detect_wakeup_reason *)
DetectTimer ==
  /\ pc = "detect" /\ reason = "timer"
  /\ pc' = "run"
  /\ UNCHANGED <<board, backup, trace, ram, start, resets>>

DetectCharger ==
  /\ pc = "detect" /\ reason = "charger"
  /\ IF usb
     THEN pc' = "run" /\ UNCHANGED <<backup, ram>>
     ELSE /\ Shutdown("keep")
          /\ UNCHANGED <<pin3_low, system_state, power_off_request, button_last,
                         reason, voltage, no_fix_timeout>>
  /\ UNCHANGED <<board, trace, start, resets>>

(* The button switches a tracker on that has no wake-up timer, and off one *)
(* that has, if it is held to the end.                                     *)
DetectButtonOn ==
  /\ pc = "detect" /\ reason = "button"
  /\ ~wakeup_timer
  /\ button
  /\ voltage' \in MeasuredLong
  /\ pc' = "run"
  /\ command' = "on"
  /\ UNCHANGED <<board, backup, trace, system_state, power_off_request,
                 button_last, reason, no_fix_timeout, gnss_awake, time_off,
                 timer_at_start, resets>>

DetectButtonOff ==
  /\ pc = "detect" /\ reason = "button"
  /\ wakeup_timer
  /\ button
  /\ Shutdown("none")
  /\ command' = "off"
  /\ UNCHANGED <<board, pin3_low, trace, system_state, power_off_request,
                 button_last, reason, voltage, no_fix_timeout,
                 timer_at_start, resets>>

(* The button is released at the end of the time and pressed again before  *)
(* it is read a second time: the tracker runs, as after a timer wake-up.   *)
DetectButtonAgain ==
  /\ pc = "detect" /\ reason = "button"
  /\ wakeup_timer
  /\ button
  /\ pc' = "run"
  /\ UNCHANGED <<board, backup, trace, ram, start, resets>>

DetectButtonShort ==
  /\ pc = "detect" /\ reason = "button"
  /\ Shutdown("keep")
  /\ button' = FALSE
  /\ UNCHANGED <<usb, battery, pin3_low, trace, system_state, power_off_request,
                 button_last, reason, voltage, no_fix_timeout, start, resets>>

-----------------------------------------------------------------------------
(***************************************************************************)
(* The switch of the main loop, one action per state.                      *)
(***************************************************************************)
AtState(s) == pc = "run" /\ system_state = s
Capped(n) == IF n < SaveMult THEN n + 1 ELSE SaveMult

(* _gtrace_load counts the wake-up. *)
GtraceLoad ==
  /\ register' = Capped(register)
  /\ unsaved_wakeups' = Capped(unsaved_wakeups)
  /\ UNCHANGED has_record

RunInitCritical ==
  /\ AtState("INIT")
  /\ voltage = Critical
  /\ system_state' = IF usb THEN "TICKLE" ELSE "SHUTDOWN"
  /\ UNCHANGED <<trace, gnss_awake>>

RunInitLow ==
  /\ AtState("INIT")
  /\ voltage = Low /\ ~usb
  /\ GtraceLoad
  /\ system_state' = "SEND_DATA"
  /\ UNCHANGED gnss_awake

(* _gnss_init.  Mistake: the module is powered but not woken. *)
GnssInit_NoWakeup == UNCHANGED gnss_awake
GnssInit == gnss_awake' = TRUE

RunInitGood ==
  /\ AtState("INIT")
  /\ voltage = Good \/ (voltage = Low /\ usb)
  /\ GnssInit
  /\ GtraceLoad
  /\ system_state' = "WAIT_FOR_GPS_FIX"

(* A fix is saved when the counter has come to the multiple, or as the     *)
(* first record.                                                           *)
NeedSave == register >= SaveMult \/ ~has_record

RunWait ==
  /\ AtState("WAIT_FOR_GPS_FIX")
  /\ \E fix \in BOOLEAN :
       /\ IF fix /\ NeedSave
          THEN register' = 0 /\ has_record' = TRUE /\ unsaved_wakeups' = 0
          ELSE UNCHANGED trace
       /\ IF fix \/ (~usb /\ no_fix_timeout) \/ voltage < Good
          THEN /\ gnss_awake' = (gnss_awake /\ DebugOutput)
               /\ system_state' = "SEND_DATA"
          ELSE UNCHANGED <<gnss_awake, system_state>>

RunShutdownCharging ==
  /\ AtState("SHUTDOWN_CHARGING")
  /\ system_state' = IF usb THEN system_state ELSE "SHUTDOWN"
  /\ UNCHANGED <<trace, gnss_awake>>

RunShutdownPlugged ==
  /\ AtState("SHUTDOWN")
  /\ usb
  /\ PrepareToSleep
  /\ system_state' = "SHUTDOWN_CHARGING"
  /\ UNCHANGED trace

(* The loop of SYSTEM_STATE_TICKLE_CHARGE_MODE, left when the measured    *)
(* voltage is no longer critical or the charger is gone; nothing measures *)
(* it in the loop.  Mistake: the charger is not looked at.                *)
TickleDone_Voltage == voltage # Critical
TickleDone == voltage # Critical \/ ~usb

RunTickle ==
  /\ AtState("TICKLE")
  /\ TickleDone
  /\ system_state' = "INIT"
  /\ UNCHANGED <<trace, gnss_awake>>

Run ==
  /\ \/ RunInitCritical \/ RunInitLow \/ RunInitGood \/ RunWait
     \/ RunShutdownCharging \/ RunShutdownPlugged \/ RunTickle
  /\ pc' = "background"
  /\ UNCHANGED <<board, backup, power_off_request, button_last, reason,
                 voltage, no_fix_timeout, time_off, start, resets>>

SendBegin ==
  /\ AtState("SEND_DATA")
  /\ pc' = "sending"
  /\ UNCHANGED <<board, backup, trace, ram, start, resets>>

(* The message is sent, or given up; the state is set whatever the button *)
(* did meanwhile.                                                         *)
SendDone ==
  /\ pc = "sending"
  /\ pc' = "background"
  /\ system_state' = "SHUTDOWN"
  /\ UNCHANGED <<board, backup, trace, power_off_request, button_last, reason,
                 voltage, no_fix_timeout, gnss_awake, time_off, start, resets>>

(* SYSTEM_STATE_SHUTDOWN without the charger. *)
TimeOff ==
  IF reason = "charger" THEN "keep"
  ELSE IF power_off_request THEN "none" ELSE AutoWakeup

RunShutdown ==
  /\ AtState("SHUTDOWN")
  /\ ~usb
  /\ Shutdown(TimeOff)
  /\ UNCHANGED <<board, pin3_low, trace, system_state, power_off_request,
                 button_last, reason, voltage, no_fix_timeout, start, resets>>

-----------------------------------------------------------------------------
(***************************************************************************)
(* _background_loop, after each state and while a LoRaWAN message is sent. *)
(***************************************************************************)
BackgroundPoint == pc = "background" \/ (pc = "sending" /\ Lorawan)
AfterBackground == IF pc = "background" THEN "run" ELSE "sending"

(* No edge of the button, its release, or a press that is not held. *)
Background ==
  /\ BackgroundPoint
  /\ pc' = AfterBackground
  /\ voltage' \in Measured
  /\ button_last' = button
  /\ button' \in IF button /\ ~button_last THEN {FALSE} ELSE {button}
  /\ UNCHANGED <<usb, battery, backup, trace, system_state, power_off_request,
                 reason, no_fix_timeout, gnss_awake, time_off, start, resets>>

(* The button is held for BUTTON_HOLD_TIMEOUT_MS. Mistake: the states are *)
(* swapped.                                                               *)
StateAfterHold_Swapped(off) == IF off THEN "INIT" ELSE "SHUTDOWN"
StateAfterHold(off) == IF off THEN "SHUTDOWN" ELSE "INIT"

ButtonHeld ==
  /\ BackgroundPoint
  /\ button /\ ~button_last
  /\ pc' = AfterBackground
  /\ button_last' = TRUE
  /\ power_off_request' = ~power_off_request
  /\ system_state' = StateAfterHold(~power_off_request)
  /\ voltage' \in IF power_off_request THEN MeasuredLong ELSE Measured
  /\ command' = IF power_off_request THEN "on" ELSE "off"
  /\ UNCHANGED <<board, backup, trace, reason, no_fix_timeout, gnss_awake,
                 time_off, timer_at_start, resets>>

(* The console commands "reset" and "reset bootloader". *)
ConsoleReset ==
  /\ BackgroundPoint
  /\ resets < MaxResets
  /\ resets' = resets + 1
  /\ register' \in {register, Mailbox}
  /\ pc' = "boot"
  /\ UNCHANGED <<board, backup, has_record, unsaved_wakeups, ram, start>>

(* The console command "gtrace erase". *)
ConsoleErase ==
  /\ BackgroundPoint
  /\ has_record
  /\ has_record' = FALSE
  /\ UNCHANGED <<board, backup, register, unsaved_wakeups, pc, ram, start, resets>>

-----------------------------------------------------------------------------
Board ==
  \/ PlugOrUnplug \/ PressOrRelease \/ BatteryChange
  \/ TimerFires \/ NoFixTimeout \/ BatteryReplaced

Program ==
  \/ Boot \/ BootloaderExit
  \/ StartReason \/ DetectTimer \/ DetectCharger
  \/ DetectButtonOn \/ DetectButtonOff \/ DetectButtonAgain
  \/ DetectButtonShort
  \/ Run \/ SendBegin \/ SendDone \/ RunShutdown \/ ShutdownNow
  \/ Background \/ ButtonHeld

Next == Board \/ Program \/ BootloaderReset \/ ConsoleReset \/ ConsoleErase

Spec == Init /\ [][Next]_vars

(* The processor executes and the tick counter counts.  Nothing is asked of *)
(* the user, the battery or the network: a LoRaWAN send, during which       *)
(* _background_loop runs, may last for ever (module LoraSend).                 *)
FairSpec ==
  /\ Spec
  /\ WF_vars(Program)
  /\ WF_vars(NoFixTimeout)

-----------------------------------------------------------------------------
(***************************************************************************)
(* Properties                                                              *)
(***************************************************************************)

(* Once the user has asked to power off, the main loop never goes back to  *)
(* looking for a fix or sending, in whatever state the button was held.    *)
PowerOffSticks ==
  pc = "run" /\ power_off_request =>
    system_state \in {"SHUTDOWN", "SHUTDOWN_CHARGING"}

(* The tracker waits for a fix only with the GNSS module awake, also after *)
(* it was quieted for a charge and then switched on again.                 *)
WaitsWithGnss ==
  pc = "run" /\ system_state = "WAIT_FOR_GPS_FIX" => gnss_awake

(* What the wake-up timer has to be when a start ends: as the user's last   *)
(* command in it wants it, or as it was before if there was none or the    *)
(* charger caused the start.                                               *)
WantedTimer ==
  IF reason = "charger" \/ command = "no" THEN timer_at_start
                                          ELSE command = "on"

(* No path through the wake-up reasons, the low battery, the charger and   *)
(* the button switches the tracker on or off by itself.                    *)
PowerStateKept ==
  [][pc = "release" /\ pc' = "shutdown" => wakeup_timer' = WantedTimer]_vars

(* A tracker that is left alone, off the charger, always comes to its      *)
(* shutdown again, unless a LoRaWAN send never ends.                       *)
LeftAlone == ~usb /\ ~button
SendsEnd == []<>(pc # "sending")
SleepsAgain == <>[]LeftAlone /\ SendsEnd => []<>(pc = "shutdown")

(* "Set wakeup count before write GNSS trace" (cmd_line.c:694): a fix that  *)
(* is captured at the wake-up of that count, or later, is written.          *)
FixSavedAtCount ==
  [][AtState("WAIT_FOR_GPS_FIX") /\ system_state' = "SEND_DATA"
       /\ voltage = Good /\ ~no_fix_timeout
       /\ unsaved_wakeups = SaveMult => unsaved_wakeups' = 0]_vars

(* "Hangs here until the battery level is critically low and the USB       *)
(* connected" (application.c:951), that is, as long as both are so: a      *)
(* tracker on the charger whose battery has recovered goes on.             *)
TickleEnds ==
  [](AtState("TICKLE") /\ battery = Good =>
       <>(~AtState("TICKLE") \/ battery # Good))
=============================================================================
