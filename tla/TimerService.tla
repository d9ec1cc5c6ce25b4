---- MODULE TimerService ----
(*************************************************************************)
(* What Src/lorawan_app/stm32_timer.c promises the LoRaWAN stack: a      *)
(* timer that was started runs until it is stopped or fires, and fires   *)
(* once, not before its time. left[t] is the time that t still has to    *)
(* run, negative when t is late; current is the timer whose callback     *)
(* runs.                                                                 *)
(*************************************************************************)
EXTENDS Integers

CONSTANTS Timers, Durations, None

VARIABLES left, current

Running(t) == left[t] # None

Init == left = [t \in Timers |-> None] /\ current = None

Start(t, d) ==
  /\ ~Running(t)
  /\ left' = [left EXCEPT ![t] = d]
  /\ UNCHANGED current

Stop(t) ==
  /\ left' = [left EXCEPT ![t] = None]
  /\ UNCHANGED current

Fire(t) ==
  /\ current = None
  /\ Running(t) /\ left[t] <= 0
  /\ left' = [left EXCEPT ![t] = None]
  /\ current' = t

Return == current # None /\ current' = None /\ UNCHANGED left

Tick ==
  /\ left' = [t \in Timers |-> IF Running(t) THEN left[t] - 1 ELSE None]
  /\ UNCHANGED current

Next ==
  \/ Tick \/ Return
  \/ \E t \in Timers :
       \/ Stop(t) \/ Fire(t)
       \/ \E d \in Durations : Start(t, d)

Spec == Init /\ [][Next]_<<left, current>>
====
