---------------------------- MODULE TrackerProofs ----------------------------
(***************************************************************************)
(* What holds of the tracker for every setting, whatever the board does    *)
(* and however often it is reset, proved with TLAPS.                       *)
(*                                                                         *)
(* The argument: between Boot and the end of a start nothing but _shutdown *)
(* and a change of the battery touches the wake-up timer, and the          *)
(* power-off request and the system state follow the user's last command   *)
(* wherever the main loop looks at them, though not while a message is     *)
(* sent.                                                                   *)
(***************************************************************************)
EXTENDS Tracker, TLAPS

Looping == {"run", "sending", "background"}

(* The system state where the main loop looks at it. *)
StateInv ==
  /\ pc = "detect" => ~power_off_request /\ system_state = "INIT"
  /\ pc \in {"run", "background"} =>
       /\ power_off_request => system_state \in {"SHUTDOWN", "SHUTDOWN_CHARGING"}
       /\ system_state = "WAIT_FOR_GPS_FIX" => gnss_awake

(* The wake-up timer and the reason of the start. *)
TimerInv ==
  /\ wakeup_flag => wakeup_timer
  /\ pc \in {"start", "detect"} \cup Looping => wakeup_timer = timer_at_start
  /\ pc \in {"detect"} \cup Looping /\ reason = "timer" => timer_at_start

(* The power commands, and what they mean for the timer. *)
CommandInv ==
  /\ pc \in {"start", "detect"} => command = "no"
  /\ pc \in Looping =>
       /\ command = "off" <=> power_off_request
       /\ reason = "button" /\ command = "no" => timer_at_start
  /\ pc = "release" /\ AutoWakeup = "auto" =>
       (time_off = "auto" \/ wakeup_timer) = WantedTimer

IInv == TypeOK /\ StateInv /\ TimerInv /\ CommandInv

(* TypeOK in two parts, for different provers. *)
BooleansOK ==
  /\ usb \in BOOLEAN /\ button \in BOOLEAN
  /\ wakeup_timer \in BOOLEAN /\ wakeup_flag \in BOOLEAN
  /\ pin3_low \in BOOLEAN
  /\ has_record \in BOOLEAN
  /\ power_off_request \in BOOLEAN /\ button_last \in BOOLEAN
  /\ no_fix_timeout \in BOOLEAN /\ gnss_awake \in BOOLEAN
  /\ timer_at_start \in BOOLEAN

RangesOK ==
  /\ battery \in Levels
  /\ register \in {Mailbox} \cup 0 .. SaveMult
  /\ pc \in Points
  /\ system_state \in SystemStates
  /\ reason \in {"button", "charger", "timer"}
  /\ voltage \in Levels
  /\ time_off \in {"auto", "none", "keep"}
  /\ command \in {"no", "on", "off"}
  /\ unsaved_wakeups \in 0 .. SaveMult
  /\ resets \in 0 .. MaxResets

-----------------------------------------------------------------------------
(* Every variable that is true or false stays so. *)
LEMMA BooleansStep == TypeOK /\ [Next]_vars => BooleansOK'
<1> SUFFICES ASSUME TypeOK, [Next]_vars PROVE BooleansOK'
  OBVIOUS
<1> USE DEF board, backup, trace, ram, start
<1>1. CASE PlugOrUnplug
  BY <1>1, Zenon DEF TypeOK, BooleansOK, PlugOrUnplug
<1>2. CASE PressOrRelease
  BY <1>2, Zenon DEF TypeOK, BooleansOK, PressOrRelease
<1>3. CASE BatteryChange
  BY <1>3, Zenon DEF TypeOK, BooleansOK, BatteryChange
<1>4. CASE TimerFires
  BY <1>4, Zenon DEF TypeOK, BooleansOK, TimerFires
<1>5. CASE NoFixTimeout
  BY <1>5, Zenon DEF TypeOK, BooleansOK, NoFixTimeout
<1>6. CASE BatteryReplaced
  BY <1>6, Zenon DEF TypeOK, BooleansOK, BatteryReplaced
<1>7. CASE Boot
  BY <1>7, Zenon DEF TypeOK, BooleansOK, Boot
<1>8. CASE BootloaderExit
  BY <1>8, Zenon DEF TypeOK, BooleansOK, BootloaderExit, LpShutdown
<1>9. CASE StartReason
  BY <1>9, Zenon DEF TypeOK, BooleansOK, StartReason, Reasons
<1>10. CASE DetectTimer
  BY <1>10, ZenonT(40) DEF TypeOK, BooleansOK, DetectTimer
<1>11. CASE DetectCharger
  BY <1>11, ZenonT(40) DEF TypeOK, BooleansOK, DetectCharger, Shutdown,
  Deactivated, PrepareToSleep
<1>12. CASE DetectButtonOn
  BY <1>12, Zenon DEF TypeOK, BooleansOK, DetectButtonOn, MeasuredLong
<1>13. CASE DetectButtonOff
  BY <1>13, Zenon DEF TypeOK, BooleansOK, DetectButtonOff, Shutdown,
  Deactivated, PrepareToSleep
<1>14. CASE DetectButtonAgain
  BY <1>14, Zenon DEF TypeOK, BooleansOK, DetectButtonAgain
<1>15. CASE DetectButtonShort
  BY <1>15, Zenon DEF TypeOK, BooleansOK, DetectButtonShort, Shutdown,
  Deactivated, PrepareToSleep
<1>16. CASE Run
  <2>1. CASE RunInitCritical
    BY <1>16, <2>1, Zenon DEF TypeOK, BooleansOK, Run, RunInitCritical
  <2>2. CASE RunInitLow
    BY <1>16, <2>2, Zenon DEF TypeOK, BooleansOK, Run, RunInitLow, GtraceLoad
  <2>3. CASE RunInitGood
    BY <1>16, <2>3, Zenon DEF TypeOK, BooleansOK, Run, RunInitGood, GtraceLoad,
    GnssInit
  <2>4. CASE RunWait
    <3>1. has_record' \in BOOLEAN /\ gnss_awake' \in BOOLEAN
      BY <2>4, Zenon DEF TypeOK, RunWait
    <3>2. QED
      BY <1>16, <3>1, Zenon DEF TypeOK, BooleansOK, Run
  <2>5. CASE RunShutdownCharging
    BY <1>16, <2>5, Zenon DEF TypeOK, BooleansOK, Run, RunShutdownCharging
  <2>6. CASE RunShutdownPlugged
    BY <1>16, <2>6, Zenon DEF TypeOK, BooleansOK, Run, RunShutdownPlugged,
    PrepareToSleep
  <2>7. CASE RunTickle
    BY <1>16, <2>7, ZenonT(40) DEF TypeOK, BooleansOK, Run, RunTickle
  <2>8. QED
    BY <1>16, <2>1, <2>2, <2>3, <2>4, <2>5, <2>6, <2>7 DEF Run
<1>17. CASE SendBegin
  BY <1>17, ZenonT(40) DEF TypeOK, BooleansOK, SendBegin, AtState
<1>18. CASE SendDone
  BY <1>18, Zenon DEF TypeOK, BooleansOK, SendDone
<1>19. CASE RunShutdown
  BY <1>19, Zenon DEF TypeOK, BooleansOK, RunShutdown, AtState, TimeOff,
  Shutdown, Deactivated, PrepareToSleep
<1>20. CASE ShutdownNow
  BY <1>20, Zenon DEF TypeOK, BooleansOK, ShutdownNow, LpShutdown
<1>21. CASE Background
  BY <1>21, Zenon DEF TypeOK, BooleansOK, Background, BackgroundPoint,
  AfterBackground, Measured
<1>22. CASE ButtonHeld
  BY <1>22, Zenon DEF TypeOK, BooleansOK, ButtonHeld, BackgroundPoint,
  AfterBackground, Measured, MeasuredLong, StateAfterHold
<1>23. CASE BootloaderReset
  BY <1>23, Zenon DEF TypeOK, BooleansOK, BootloaderReset
<1>24. CASE ConsoleReset
  BY <1>24, ZenonT(40) DEF TypeOK, BooleansOK, ConsoleReset, BackgroundPoint
<1>25. CASE ConsoleErase
  BY <1>25, Zenon DEF TypeOK, BooleansOK, ConsoleErase, BackgroundPoint
<1>26. CASE UNCHANGED vars
  BY <1>26 DEF TypeOK, BooleansOK, vars
<1>27. QED
  BY <1>1, <1>2, <1>3, <1>4, <1>5, <1>6, <1>7, <1>8, <1>9, <1>10, <1>11,
  <1>12, <1>13, <1>14, <1>15, <1>16, <1>17, <1>18, <1>19, <1>20, <1>21, <1>22,
  <1>23, <1>24, <1>25, <1>26 DEF Next, Board, Program

(* The others stay in their ranges. *)
LEMMA RangesStep == TypeOK /\ [Next]_vars => RangesOK'
<1> SUFFICES ASSUME TypeOK, [Next]_vars PROVE RangesOK'
  OBVIOUS
<1> USE DEF board, backup, trace, ram, start
<1>1. CASE PlugOrUnplug
  BY <1>1, TrackerAssumption DEF TypeOK, RangesOK, Points, SystemStates,
  Levels, Critical, Low, Good, Mailbox, PlugOrUnplug
<1>2. CASE PressOrRelease
  BY <1>2, TrackerAssumption DEF TypeOK, RangesOK, Points, SystemStates,
  Levels, Critical, Low, Good, Mailbox, PressOrRelease
<1>3. CASE BatteryChange
  BY <1>3, TrackerAssumption DEF TypeOK, RangesOK, Points, SystemStates,
  Levels, Critical, Low, Good, Mailbox, BatteryChange
<1>4. CASE TimerFires
  BY <1>4, TrackerAssumption DEF TypeOK, RangesOK, Points, SystemStates,
  Levels, Critical, Low, Good, Mailbox, TimerFires
<1>5. CASE NoFixTimeout
  BY <1>5, TrackerAssumption DEF TypeOK, RangesOK, Points, SystemStates,
  Levels, Critical, Low, Good, Mailbox, NoFixTimeout
<1>6. CASE BatteryReplaced
  BY <1>6, TrackerAssumption DEF TypeOK, RangesOK, Points, SystemStates,
  Levels, Critical, Low, Good, Mailbox, BatteryReplaced
<1>7. CASE Boot
  BY <1>7, TrackerAssumption DEF TypeOK, RangesOK, Points, SystemStates,
  Levels, Critical, Low, Good, Mailbox, Boot
<1>8. CASE BootloaderExit
  BY <1>8, TrackerAssumption DEF TypeOK, RangesOK, Points, SystemStates,
  Levels, Critical, Low, Good, Mailbox, BootloaderExit, LpShutdown
<1>9. CASE StartReason
  BY <1>9, TrackerAssumption DEF TypeOK, RangesOK, Points, SystemStates,
  Levels, Critical, Low, Good, Mailbox, StartReason, Reasons
<1>10. CASE DetectTimer
  BY <1>10, TrackerAssumption DEF TypeOK, RangesOK, Points, SystemStates,
  Levels, Critical, Low, Good, Mailbox, DetectTimer
<1>11. CASE DetectCharger
  BY <1>11, TrackerAssumption DEF TypeOK, RangesOK, Points, SystemStates,
  Levels, Critical, Low, Good, Mailbox, DetectCharger, Shutdown, Deactivated,
  PrepareToSleep
<1>12. CASE DetectButtonOn
  BY <1>12, TrackerAssumption DEF TypeOK, RangesOK, Points, SystemStates,
  Levels, Critical, Low, Good, Mailbox, DetectButtonOn, MeasuredLong
<1>13. CASE DetectButtonOff
  BY <1>13, TrackerAssumption DEF TypeOK, RangesOK, Points, SystemStates,
  Levels, Critical, Low, Good, Mailbox, DetectButtonOff, Shutdown,
  Deactivated, PrepareToSleep
<1>14. CASE DetectButtonAgain
  BY <1>14, TrackerAssumption DEF TypeOK, RangesOK, Points, SystemStates,
  Levels, Critical, Low, Good, Mailbox, DetectButtonAgain
<1>15. CASE DetectButtonShort
  BY <1>15, TrackerAssumption DEF TypeOK, RangesOK, Points, SystemStates,
  Levels, Critical, Low, Good, Mailbox, DetectButtonShort, Shutdown,
  Deactivated, PrepareToSleep
<1>16. CASE Run
  BY <1>16, TrackerAssumption DEF TypeOK, RangesOK, Points, SystemStates,
  Levels, Critical, Low, Good, Mailbox, Run, AtState, RunInitCritical,
  RunInitLow, RunInitGood, RunWait, RunShutdownCharging, RunShutdownPlugged,
  RunTickle, GtraceLoad, Capped, GnssInit, NeedSave, PrepareToSleep,
  TickleDone
<1>17. CASE SendBegin
  BY <1>17, TrackerAssumption DEF TypeOK, RangesOK, Points, SystemStates,
  Levels, Critical, Low, Good, Mailbox, SendBegin, AtState
<1>18. CASE SendDone
  BY <1>18, TrackerAssumption DEF TypeOK, RangesOK, Points, SystemStates,
  Levels, Critical, Low, Good, Mailbox, SendDone
<1>19. CASE RunShutdown
  BY <1>19, TrackerAssumption DEF TypeOK, RangesOK, Points, SystemStates,
  Levels, Critical, Low, Good, Mailbox, RunShutdown, AtState, TimeOff,
  Shutdown, Deactivated, PrepareToSleep
<1>20. CASE ShutdownNow
  BY <1>20, TrackerAssumption DEF TypeOK, RangesOK, Points, SystemStates,
  Levels, Critical, Low, Good, Mailbox, ShutdownNow, LpShutdown
<1>21. CASE Background
  BY <1>21, TrackerAssumption DEF TypeOK, RangesOK, Points, SystemStates,
  Levels, Critical, Low, Good, Mailbox, Background, BackgroundPoint,
  AfterBackground, Measured
<1>22. CASE ButtonHeld
  <2>1. voltage' \in Measured \/ voltage' \in MeasuredLong
    BY <1>22 DEF ButtonHeld
  <2>2. voltage' \in Levels
    BY <2>1 DEF TypeOK, Measured, MeasuredLong, Levels, Critical, Good
  <2>3. /\ pc' \in Points
        /\ system_state' \in SystemStates
        /\ command' \in {"no", "on", "off"}
    BY <1>22 DEF ButtonHeld, AfterBackground, StateAfterHold, Points, SystemStates
  <2>4. QED
    BY <1>22, <2>2, <2>3 DEF TypeOK, RangesOK, ButtonHeld, board, backup, trace
<1>23. CASE BootloaderReset
  BY <1>23, TrackerAssumption DEF TypeOK, RangesOK, Points, SystemStates,
  Levels, Critical, Low, Good, Mailbox, BootloaderReset
<1>24. CASE ConsoleReset
  BY <1>24, TrackerAssumption DEF TypeOK, RangesOK, Points, SystemStates,
  Levels, Critical, Low, Good, Mailbox, ConsoleReset, BackgroundPoint
<1>25. CASE ConsoleErase
  BY <1>25, TrackerAssumption DEF TypeOK, RangesOK, Points, SystemStates,
  Levels, Critical, Low, Good, Mailbox, ConsoleErase, BackgroundPoint
<1>26. CASE UNCHANGED vars
  BY <1>26 DEF TypeOK, RangesOK, Points, SystemStates, Levels, Critical, Low,
  Good, Mailbox, vars
<1>27. QED
  BY <1>1, <1>2, <1>3, <1>4, <1>5, <1>6, <1>7, <1>8, <1>9, <1>10, <1>11,
  <1>12, <1>13, <1>14, <1>15, <1>16, <1>17, <1>18, <1>19, <1>20, <1>21, <1>22,
  <1>23, <1>24, <1>25, <1>26 DEF Next, Board, Program

(* Every step preserves what is known of the system state. *)
LEMMA StateStep == TypeOK /\ StateInv /\ [Next]_vars => StateInv'
<1> SUFFICES ASSUME TypeOK /\ StateInv, [Next]_vars PROVE StateInv'
  OBVIOUS
<1> USE DEF board, backup, trace, ram, start
<1>1. CASE PlugOrUnplug
  BY <1>1 DEF TypeOK, StateInv, PlugOrUnplug
<1>2. CASE PressOrRelease
  BY <1>2 DEF TypeOK, StateInv, PressOrRelease
<1>3. CASE BatteryChange
  BY <1>3 DEF TypeOK, StateInv, BatteryChange
<1>4. CASE TimerFires
  BY <1>4 DEF TypeOK, StateInv, TimerFires
<1>5. CASE NoFixTimeout
  BY <1>5 DEF TypeOK, StateInv, NoFixTimeout
<1>6. CASE BatteryReplaced
  BY <1>6 DEF TypeOK, StateInv, BatteryReplaced
<1>7. CASE Boot
  BY <1>7 DEF TypeOK, StateInv, Boot
<1>8. CASE BootloaderExit
  BY <1>8 DEF TypeOK, StateInv, BootloaderExit, LpShutdown
<1>9. CASE StartReason
  BY <1>9 DEF TypeOK, StateInv, StartReason, Reasons
<1>10. CASE DetectTimer
  BY <1>10 DEF TypeOK, StateInv, DetectTimer
<1>11. CASE DetectCharger
  BY <1>11 DEF TypeOK, StateInv, DetectCharger, Shutdown, Deactivated,
  PrepareToSleep
<1>12. CASE DetectButtonOn
  BY <1>12 DEF TypeOK, StateInv, DetectButtonOn, MeasuredLong
<1>13. CASE DetectButtonOff
  BY <1>13 DEF TypeOK, StateInv, DetectButtonOff, Shutdown, Deactivated,
  PrepareToSleep
<1>14. CASE DetectButtonAgain
  BY <1>14 DEF TypeOK, StateInv, DetectButtonAgain
<1>15. CASE DetectButtonShort
  BY <1>15 DEF TypeOK, StateInv, DetectButtonShort, Shutdown, Deactivated,
  PrepareToSleep
<1>16. CASE Run
  BY <1>16 DEF TypeOK, StateInv, Run, AtState, RunInitCritical, RunInitLow,
  RunInitGood, RunWait, RunShutdownCharging, RunShutdownPlugged, RunTickle,
  GtraceLoad, Capped, GnssInit, NeedSave, PrepareToSleep, TickleDone
<1>17. CASE SendBegin
  BY <1>17 DEF TypeOK, StateInv, SendBegin, AtState
<1>18. CASE SendDone
  BY <1>18 DEF TypeOK, StateInv, SendDone
<1>19. CASE RunShutdown
  BY <1>19 DEF TypeOK, StateInv, RunShutdown, AtState, TimeOff, Shutdown,
  Deactivated, PrepareToSleep
<1>20. CASE ShutdownNow
  BY <1>20 DEF TypeOK, StateInv, ShutdownNow, LpShutdown
<1>21. CASE Background
  BY <1>21 DEF TypeOK, StateInv, Background, BackgroundPoint, AfterBackground,
  Measured
<1>22. CASE ButtonHeld
  BY <1>22 DEF TypeOK, StateInv, ButtonHeld, BackgroundPoint, AfterBackground,
  Measured, MeasuredLong, StateAfterHold
<1>23. CASE BootloaderReset
  BY <1>23 DEF TypeOK, StateInv, BootloaderReset
<1>24. CASE ConsoleReset
  BY <1>24 DEF TypeOK, StateInv, ConsoleReset, BackgroundPoint
<1>25. CASE ConsoleErase
  BY <1>25 DEF TypeOK, StateInv, ConsoleErase, BackgroundPoint
<1>26. CASE UNCHANGED vars
  BY <1>26 DEF TypeOK, StateInv, vars
<1>27. QED
  BY <1>1, <1>2, <1>3, <1>4, <1>5, <1>6, <1>7, <1>8, <1>9, <1>10, <1>11,
  <1>12, <1>13, <1>14, <1>15, <1>16, <1>17, <1>18, <1>19, <1>20, <1>21, <1>22,
  <1>23, <1>24, <1>25, <1>26 DEF Next, Board, Program

(* Every step preserves what is known of the wake-up timer. *)
LEMMA TimerStep == TypeOK /\ TimerInv /\ [Next]_vars => TimerInv'
<1> SUFFICES ASSUME TypeOK /\ TimerInv, [Next]_vars PROVE TimerInv'
  OBVIOUS
<1> USE DEF board, backup, trace, ram, start
<1>1. CASE PlugOrUnplug
  BY <1>1 DEF TypeOK, TimerInv, Looping, PlugOrUnplug
<1>2. CASE PressOrRelease
  BY <1>2 DEF TypeOK, TimerInv, Looping, PressOrRelease
<1>3. CASE BatteryChange
  BY <1>3 DEF TypeOK, TimerInv, Looping, BatteryChange
<1>4. CASE TimerFires
  BY <1>4 DEF TypeOK, TimerInv, Looping, TimerFires
<1>5. CASE NoFixTimeout
  BY <1>5 DEF TypeOK, TimerInv, Looping, NoFixTimeout
<1>6. CASE BatteryReplaced
  BY <1>6 DEF TypeOK, TimerInv, Looping, BatteryReplaced
<1>7. CASE Boot
  BY <1>7 DEF TypeOK, TimerInv, Looping, Boot
<1>8. CASE BootloaderExit
  BY <1>8 DEF TypeOK, TimerInv, Looping, BootloaderExit, LpShutdown
<1>9. CASE StartReason
  BY <1>9 DEF TypeOK, TimerInv, Looping, StartReason, Reasons
<1>10. CASE DetectTimer
  BY <1>10 DEF TypeOK, TimerInv, Looping, DetectTimer
<1>11. CASE DetectCharger
  BY <1>11 DEF TypeOK, TimerInv, Looping, DetectCharger, Shutdown,
  Deactivated, PrepareToSleep
<1>12. CASE DetectButtonOn
  BY <1>12 DEF TypeOK, TimerInv, Looping, DetectButtonOn, MeasuredLong
<1>13. CASE DetectButtonOff
  BY <1>13 DEF TypeOK, TimerInv, Looping, DetectButtonOff, Shutdown,
  Deactivated, PrepareToSleep
<1>14. CASE DetectButtonAgain
  BY <1>14 DEF TypeOK, TimerInv, Looping, DetectButtonAgain
<1>15. CASE DetectButtonShort
  BY <1>15 DEF TypeOK, TimerInv, Looping, DetectButtonShort, Shutdown,
  Deactivated, PrepareToSleep
<1>16. CASE Run
  BY <1>16 DEF TypeOK, TimerInv, Looping, Run, AtState, RunInitCritical,
  RunInitLow, RunInitGood, RunWait, RunShutdownCharging, RunShutdownPlugged,
  RunTickle, GtraceLoad, Capped, GnssInit, NeedSave, PrepareToSleep,
  TickleDone
<1>17. CASE SendBegin
  BY <1>17 DEF TypeOK, TimerInv, Looping, SendBegin, AtState
<1>18. CASE SendDone
  BY <1>18 DEF TypeOK, TimerInv, Looping, SendDone
<1>19. CASE RunShutdown
  BY <1>19 DEF TypeOK, TimerInv, Looping, RunShutdown, AtState, TimeOff,
  Shutdown, Deactivated, PrepareToSleep
<1>20. CASE ShutdownNow
  BY <1>20 DEF TypeOK, TimerInv, Looping, ShutdownNow, LpShutdown
<1>21. CASE Background
  BY <1>21 DEF TypeOK, TimerInv, Looping, Background, BackgroundPoint,
  AfterBackground, Measured
<1>22. CASE ButtonHeld
  BY <1>22 DEF TypeOK, TimerInv, Looping, ButtonHeld, BackgroundPoint,
  AfterBackground, Measured, MeasuredLong, StateAfterHold
<1>23. CASE BootloaderReset
  BY <1>23 DEF TypeOK, TimerInv, Looping, BootloaderReset
<1>24. CASE ConsoleReset
  BY <1>24 DEF TypeOK, TimerInv, Looping, ConsoleReset, BackgroundPoint
<1>25. CASE ConsoleErase
  BY <1>25 DEF TypeOK, TimerInv, Looping, ConsoleErase, BackgroundPoint
<1>26. CASE UNCHANGED vars
  BY <1>26 DEF TypeOK, TimerInv, Looping, vars
<1>27. QED
  BY <1>1, <1>2, <1>3, <1>4, <1>5, <1>6, <1>7, <1>8, <1>9, <1>10, <1>11,
  <1>12, <1>13, <1>14, <1>15, <1>16, <1>17, <1>18, <1>19, <1>20, <1>21, <1>22,
  <1>23, <1>24, <1>25, <1>26 DEF Next, Board, Program

(* Every step preserves what is known of the power commands. *)
LEMMA CommandStep == IInv /\ [Next]_vars => CommandInv'
<1> SUFFICES ASSUME IInv, [Next]_vars PROVE CommandInv'
  OBVIOUS
<1> USE DEF board, backup, trace, ram, start
<1>1. CASE PlugOrUnplug
  BY <1>1, TrackerAssumption DEF IInv, TypeOK, StateInv, TimerInv, CommandInv,
  WantedTimer, Looping, PlugOrUnplug
<1>2. CASE PressOrRelease
  BY <1>2, TrackerAssumption DEF IInv, TypeOK, StateInv, TimerInv, CommandInv,
  WantedTimer, Looping, PressOrRelease
<1>3. CASE BatteryChange
  BY <1>3, TrackerAssumption DEF IInv, TypeOK, StateInv, TimerInv, CommandInv,
  WantedTimer, Looping, BatteryChange
<1>4. CASE TimerFires
  BY <1>4, TrackerAssumption DEF IInv, TypeOK, StateInv, TimerInv, CommandInv,
  WantedTimer, Looping, TimerFires
<1>5. CASE NoFixTimeout
  BY <1>5, TrackerAssumption DEF IInv, TypeOK, StateInv, TimerInv, CommandInv,
  WantedTimer, Looping, NoFixTimeout
<1>6. CASE BatteryReplaced
  BY <1>6, TrackerAssumption DEF IInv, TypeOK, StateInv, TimerInv, CommandInv,
  WantedTimer, Looping, BatteryReplaced
<1>7. CASE Boot
  BY <1>7, TrackerAssumption DEF IInv, TypeOK, StateInv, TimerInv, CommandInv,
  WantedTimer, Looping, Boot
<1>8. CASE BootloaderExit
  BY <1>8, TrackerAssumption DEF IInv, TypeOK, StateInv, TimerInv, CommandInv,
  WantedTimer, Looping, BootloaderExit, LpShutdown
<1>9. CASE StartReason
  BY <1>9, TrackerAssumption DEF IInv, TypeOK, StateInv, TimerInv, CommandInv,
  WantedTimer, Looping, StartReason, Reasons
<1>10. CASE DetectTimer
  BY <1>10, TrackerAssumption DEF IInv, TypeOK, StateInv, TimerInv,
  CommandInv, WantedTimer, Looping, DetectTimer
<1>11. CASE DetectCharger
  BY <1>11, TrackerAssumption DEF IInv, TypeOK, StateInv, TimerInv,
  CommandInv, WantedTimer, Looping, DetectCharger, Shutdown, Deactivated,
  PrepareToSleep
<1>12. CASE DetectButtonOn
  BY <1>12, TrackerAssumption DEF IInv, TypeOK, StateInv, TimerInv,
  CommandInv, WantedTimer, Looping, DetectButtonOn, MeasuredLong
<1>13. CASE DetectButtonOff
  BY <1>13, TrackerAssumption DEF IInv, TypeOK, StateInv, TimerInv,
  CommandInv, WantedTimer, Looping, DetectButtonOff, Shutdown, Deactivated,
  PrepareToSleep
<1>14. CASE DetectButtonAgain
  BY <1>14, TrackerAssumption DEF IInv, TypeOK, StateInv, TimerInv,
  CommandInv, WantedTimer, Looping, DetectButtonAgain
<1>15. CASE DetectButtonShort
  BY <1>15, TrackerAssumption DEF IInv, TypeOK, StateInv, TimerInv,
  CommandInv, WantedTimer, Looping, DetectButtonShort, Shutdown, Deactivated,
  PrepareToSleep
<1>16. CASE Run
  BY <1>16, TrackerAssumption DEF IInv, TypeOK, StateInv, TimerInv,
  CommandInv, WantedTimer, Looping, Run, AtState, RunInitCritical, RunInitLow,
  RunInitGood, RunWait, RunShutdownCharging, RunShutdownPlugged, RunTickle,
  GtraceLoad, Capped, GnssInit, NeedSave, PrepareToSleep, TickleDone
<1>17. CASE SendBegin
  BY <1>17, TrackerAssumption DEF IInv, TypeOK, StateInv, TimerInv,
  CommandInv, WantedTimer, Looping, SendBegin, AtState
<1>18. CASE SendDone
  BY <1>18, TrackerAssumption DEF IInv, TypeOK, StateInv, TimerInv,
  CommandInv, WantedTimer, Looping, SendDone
<1>19. CASE RunShutdown
  BY <1>19, TrackerAssumption DEF IInv, TypeOK, StateInv, TimerInv,
  CommandInv, WantedTimer, Looping, RunShutdown, AtState, TimeOff, Shutdown,
  Deactivated, PrepareToSleep
<1>20. CASE ShutdownNow
  BY <1>20, TrackerAssumption DEF IInv, TypeOK, StateInv, TimerInv,
  CommandInv, WantedTimer, Looping, ShutdownNow, LpShutdown
<1>21. CASE Background
  BY <1>21, TrackerAssumption DEF IInv, TypeOK, StateInv, TimerInv,
  CommandInv, WantedTimer, Looping, Background, BackgroundPoint,
  AfterBackground, Measured
<1>22. CASE ButtonHeld
  BY <1>22, TrackerAssumption DEF IInv, TypeOK, StateInv, TimerInv,
  CommandInv, WantedTimer, Looping, ButtonHeld, BackgroundPoint,
  AfterBackground, Measured, MeasuredLong, StateAfterHold
<1>23. CASE BootloaderReset
  BY <1>23, TrackerAssumption DEF IInv, TypeOK, StateInv, TimerInv,
  CommandInv, WantedTimer, Looping, BootloaderReset
<1>24. CASE ConsoleReset
  BY <1>24, TrackerAssumption DEF IInv, TypeOK, StateInv, TimerInv,
  CommandInv, WantedTimer, Looping, ConsoleReset, BackgroundPoint
<1>25. CASE ConsoleErase
  BY <1>25, TrackerAssumption DEF IInv, TypeOK, StateInv, TimerInv,
  CommandInv, WantedTimer, Looping, ConsoleErase, BackgroundPoint
<1>26. CASE UNCHANGED vars
  BY <1>26 DEF IInv, TypeOK, StateInv, TimerInv, CommandInv, WantedTimer,
  Looping, vars
<1>27. QED
  BY <1>1, <1>2, <1>3, <1>4, <1>5, <1>6, <1>7, <1>8, <1>9, <1>10, <1>11,
  <1>12, <1>13, <1>14, <1>15, <1>16, <1>17, <1>18, <1>19, <1>20, <1>21, <1>22,
  <1>23, <1>24, <1>25, <1>26 DEF Next, Board, Program

-----------------------------------------------------------------------------
(* Every step preserves the types. *)
LEMMA TypeStep == TypeOK /\ [Next]_vars => TypeOK'
<1> SUFFICES ASSUME TypeOK, [Next]_vars PROVE TypeOK'
  OBVIOUS
<1>1. BooleansOK' /\ RangesOK'
  BY BooleansStep, RangesStep
<1>2. QED
  BY <1>1 DEF TypeOK, BooleansOK, RangesOK

(* The invariant holds at the start. *)
LEMMA InitIInv == Init => IInv
<1> SUFFICES ASSUME Init PROVE IInv
  OBVIOUS
<1>1. BooleansOK
  BY Zenon DEF Init, BooleansOK
<1>2. RangesOK
  BY TrackerAssumption
     DEF Init, RangesOK, Points, SystemStates, Levels, Critical, Low, Good, Mailbox
<1>3. TypeOK
  BY <1>1, <1>2 DEF TypeOK, BooleansOK, RangesOK
<1>4. StateInv /\ TimerInv /\ CommandInv
  BY DEF Init, StateInv, TimerInv, CommandInv, Looping
<1>5. QED
  BY <1>3, <1>4 DEF IInv

(* Every step preserves the inductive invariant. *)
LEMMA StepIInv == IInv /\ [Next]_vars => IInv'
BY TypeStep, StateStep, TimerStep, CommandStep DEF IInv

-----------------------------------------------------------------------------
(* The inductive invariant: types, the system state where the main loop    *)
(* looks at it, the wake-up timer during a start, and the power commands.  *)
THEOREM InvariantHolds == Spec => []IInv
BY InitIInv, StepIInv, PTL DEF Spec

(* Type correctness of the tracker. *)
THEOREM TypeCorrect == Spec => []TypeOK
<1>1. IInv => TypeOK
  BY DEF IInv
<1>2. QED
  BY <1>1, InvariantHolds, PTL

(* Whatever the program was doing when the user asked to power off, also   *)
(* sending a message, _background_loop and the switch never bring it back  *)
(* to a fix or a transmission.                                             *)
THEOREM PowerOffHolds == Spec => []PowerOffSticks
<1>1. IInv => PowerOffSticks
  BY DEF IInv, StateInv, PowerOffSticks
<1>2. QED
  BY <1>1, InvariantHolds, PTL

(* main looks for a fix only with the GNSS module awake. *)
THEOREM WaitHolds == Spec => []WaitsWithGnss
<1>1. IInv => WaitsWithGnss
  BY DEF IInv, StateInv, WaitsWithGnss
<1>2. QED
  BY <1>1, InvariantHolds, PTL

(* With a wake-up period set, _shutdown leaves the wake-up timer as the    *)
(* user's commands in this start want it.                                  *)
THEOREM PowerStateHolds == AutoWakeup = "auto" /\ Spec => PowerStateKept
<1> SUFFICES ASSUME AutoWakeup = "auto" PROVE Spec => PowerStateKept
  OBVIOUS
<1>1. ASSUME IInv, [Next]_vars
      PROVE  [pc = "release" /\ pc' = "shutdown" => wakeup_timer' = WantedTimer]_vars
  <2> SUFFICES ASSUME pc = "release", pc' = "shutdown"
               PROVE  wakeup_timer' = WantedTimer
    OBVIOUS
  <2>1. ShutdownNow
    <3>1. pc' # pc /\ pc = "release"
      OBVIOUS
    <3>2. QED
      BY <3>1, <1>1 DEF Next, Board, Program, vars, Boot, BootloaderExit,
         StartReason, DetectTimer, DetectCharger, DetectButtonOn,
         DetectButtonOff, DetectButtonAgain, DetectButtonShort, Run, SendBegin,
         SendDone, RunShutdown, Background, ButtonHeld, BootloaderReset,
         ConsoleReset, ConsoleErase, PlugOrUnplug, PressOrRelease,
         BatteryChange, TimerFires, NoFixTimeout, BatteryReplaced,
         BackgroundPoint, AfterBackground, AtState
  <2>2. wakeup_timer' = (time_off = "auto" \/ wakeup_timer)
    BY <2>1, <1>1 DEF ShutdownNow, LpShutdown, IInv, TypeOK
  <2>3. QED
    BY <2>2, <1>1 DEF IInv, CommandInv
<1>2. QED
  BY <1>1, InvariantHolds, PTL DEF Spec, PowerStateKept
=============================================================================
