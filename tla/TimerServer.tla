---- MODULE TimerServer ----
(*************************************************************************)
(* The timer server of Src/lorawan_app/stm32_timer.c on the RTC of       *)
(* timer_if.c: one-shot timers in a linked list, one RTC alarm for the   *)
(* head of the list. Timers are started by the main loop and by the      *)
(* callbacks of other timers, which run in the alarm interrupt, some of  *)
(* them (TxTimeoutTimer, TxDelayedTimer) by both; they are stopped there *)
(* and in the radio's interrupt. Interrupts are masked inside each       *)
(* function of the server, but UTIL_TIMER_Start and UTIL_TIMER_SetPeriod *)
(* look the timer up before they mask them. The RTC counts on while code *)
(* runs. The code compares times only with each other, so the model      *)
(* counts them from the present.                                         *)
(*************************************************************************)
EXTENDS Integers, SequencesExt, FiniteSetsExt

CONSTANTS
  Timers,
  Starts,           \* Starts[t]: the timers that the callback of t starts
  Periods,          \* of the timers, in ticks
  MIN_ALARM_DELAY,  \* the shortest alarm, in ticks
  MaxSlip,          \* ticks that pass while the server computes or waits
  None

ASSUME TimerServerAssumption ==
  /\ MIN_ALARM_DELAY \in Nat /\ MaxSlip \in Nat /\ 2 * MaxSlip < MIN_ALARM_DELAY
  /\ Periods \subseteq Nat
  /\ IsFiniteSet(Timers)
  /\ Starts \in [Timers -> SUBSET Timers]
  /\ \A t, u, v \in Timers : u \in Starts[t] /\ v \in Starts[u] => v \in Starts[t]
  /\ None \notin Timers \cup Int

VARIABLES
  elapsed,          \* GetTimerElapsedTime in UTIL_TIMER_IRQ_Handler, else 0
  timerList,        \* the list at TimerListHead, as a sequence
  Timestamp,        \* less GetTimerElapsedTime; 0 for a timer not in the list
  IsPending, IsRunning,
  alarm,            \* the ticks until alarm A matches, or None
  alarmFlag,        \* alarm A has matched
  arming,           \* the timeout TIMER_IF_StartTimer is about to set, or None
  handler,          \* "off", or where UTIL_TIMER_IRQ_Handler is
  current,          \* the timer whose callback runs, or None
  todo,             \* what is left of the main loop's call
  slip,             \* ticks since the server last took a step
  left              \* history: the time each running timer has to run

server == <<timerList, Timestamp, IsPending, IsRunning>>
rtc == <<elapsed, alarm, alarmFlag>>
vars == <<server, rtc, arming, handler, current, todo, slip, left>>

TypeOK ==
  /\ elapsed \in Nat
  /\ timerList \in Seq(Timers)
  /\ Timestamp \in [Timers -> Int]
  /\ IsPending \in [Timers -> BOOLEAN] /\ IsRunning \in [Timers -> BOOLEAN]
  /\ alarm \in (Nat \ {0}) \cup {None} /\ alarmFlag \in BOOLEAN
  /\ arming \in (Nat \ {0}) \cup {None}
  /\ handler \in {"off", "loop", "callback"}
  /\ current \in Timers \cup {None}
  /\ slip \in 0..MaxSlip
  /\ left \in [Timers -> Int \cup {None}]

Init ==
  /\ elapsed = 0
  /\ timerList = <<>>
  /\ Timestamp = [t \in Timers |-> 0]
  /\ IsPending = [t \in Timers |-> FALSE]
  /\ IsRunning = [t \in Timers |-> FALSE]
  /\ alarm = None /\ alarmFlag = FALSE /\ arming = None
  /\ handler = "off" /\ current = None
  /\ todo = <<>> /\ slip = 0
  /\ left = [t \in Timers |-> None]

TimerExists(t) == t \in ToSet(timerList)

--------------------------------------------------------------------------
(* The RTC. *)

\* An alarm that waits to be served and each stretch of the server's code take
\* MaxSlip ticks at most.
Busy == alarmFlag \/ arming # None \/ handler # "off"

Tick ==
  /\ Busy => slip < MaxSlip
  /\ slip' = IF Busy THEN slip + 1 ELSE 0
  /\ elapsed' = IF handler = "off" THEN 0 ELSE elapsed + 1
  /\ Timestamp' = [t \in Timers |-> IF TimerExists(t) THEN Timestamp[t] - 1 ELSE 0]
  /\ arming' = IF arming = None THEN None ELSE arming - 1
  /\ IF alarm = 1
     THEN alarmFlag' = TRUE /\ alarm' = None
     ELSE /\ alarm' = IF alarm = None THEN None ELSE alarm - 1
          /\ UNCHANGED alarmFlag
  /\ left' = [t \in Timers |-> IF left[t] = None THEN None ELSE left[t] - 1]
  /\ UNCHANGED <<timerList, IsPending, IsRunning, handler, current, todo>>

\* A period, at least what the alarm needs.
MinimumTicks(p) == IF p < MIN_ALARM_DELAY THEN MIN_ALARM_DELAY ELSE p

--------------------------------------------------------------------------
(* The list. *)

\* The timeout TimerSetTimeout sets for a timer with this timestamp; without its
\* correction (a mistake, NotTooSoon_Not).
NotTooSoon_Not(stamp) == stamp
NotTooSoon(stamp) == IF stamp < MIN_ALARM_DELAY THEN MIN_ALARM_DELAY ELSE stamp

\* Where TimerInsertTimer puts a timer: behind the head, before the first
\* follower with a timestamp that is not smaller; a version that compares the other
\* way round (a mistake).
InsertPos_Reversed(stamp) ==
  LET stop == {i \in 2..Len(timerList) : stamp >= Timestamp[timerList[i]]}
  IN  IF stop = {} THEN Len(timerList) + 1 ELSE Min(stop)
InsertPos(stamp) ==
  LET stop == {i \in 2..Len(timerList) : stamp <= Timestamp[timerList[i]]}
  IN  IF stop = {} THEN Len(timerList) + 1 ELSE Min(stop)

\* The pending flags when a timer is put before the head; without the reset of the
\* head's (a mistake, HeadNotPending_Not).
HeadNotPending_Not == IsPending
HeadNotPending == [u \in Timers |-> IsPending[u] /\ (timerList # <<>> => u # Head(timerList))]

\* The condition of UTIL_TIMER_Start.
MayStart(t) == ~TimerExists(t) /\ ~IsRunning[t]

\* UTIL_TIMER_Start from the critical section on.
Insert(t, p) ==
  LET d == MinimumTicks(p)
      newHead == timerList = <<>> \/ d < Timestamp[Head(timerList)]
  IN  /\ elapsed' = IF timerList = <<>> THEN 0 ELSE elapsed
      /\ IsRunning' = [IsRunning EXCEPT ![t] = TRUE]
      /\ left' = [left EXCEPT ![t] = d]
      /\ Timestamp' = [Timestamp EXCEPT ![t] = IF newHead THEN NotTooSoon(d) ELSE d]
      /\ IF newHead
         THEN /\ timerList' = <<t>> \o timerList
              /\ IsPending' = [HeadNotPending EXCEPT ![t] = TRUE]
              /\ arming' = NotTooSoon(d)
         ELSE /\ timerList' = InsertAt(timerList, InsertPos(d), t)
              /\ IsPending' = [IsPending EXCEPT ![t] = FALSE]
              /\ UNCHANGED arming

\* TimerSetTimeout, up to the setting of the alarm.
SetTimeout(t) ==
  LET at == NotTooSoon(Timestamp[t])
  IN  /\ Timestamp' = [Timestamp EXCEPT ![t] = at]
      /\ IsPending' = [IsPending EXCEPT ![t] = TRUE]
      /\ arming' = at

\* The timestamp and the pending flag of a timer that leaves the list.
Cleared(t) ==
  /\ Timestamp' = [Timestamp EXCEPT ![t] = 0]
  /\ IsPending' = [IsPending EXCEPT ![t] = FALSE]

\* UTIL_TIMER_Stop.
Stop(t) ==
  /\ left' = [left EXCEPT ![t] = None]
  /\ IsRunning' = IF timerList = <<>> THEN IsRunning ELSE [IsRunning EXCEPT ![t] = FALSE]
  /\ timerList' = RemoveFirst(timerList, t)
  /\ UNCHANGED elapsed
  /\ CASE timerList = <<>> \/ t # Head(timerList) ->
            Cleared(t) /\ UNCHANGED <<arming, alarm, alarmFlag>>
       [] timerList = <<t>> ->
            Cleared(t) /\ alarm' = None /\ alarmFlag' = FALSE /\ UNCHANGED arming
       [] OTHER ->
            LET next == timerList[2]
                at == NotTooSoon(Timestamp[next])
            IN  /\ Timestamp' = [Timestamp EXCEPT ![t] = 0, ![next] = at]
                /\ IsPending' = [IsPending EXCEPT ![t] = FALSE, ![next] = TRUE]
                /\ arming' = at
                /\ UNCHANGED <<alarm, alarmFlag>>

\* TIMER_IF_StartTimer, at the end of the function that asked for it. The alarm
\* matches when the counter reaches it: one that has been passed is lost. A
\* callback goes on with what it does.
ProgramAlarm ==
  /\ arming # None
  /\ alarm' = IF arming > 0 THEN arming ELSE None
  /\ alarmFlag' = FALSE
  /\ arming' = None
  /\ slip' = IF handler = "callback" THEN slip ELSE 0
  /\ UNCHANGED <<server, elapsed, handler, current, todo, left>>

--------------------------------------------------------------------------
(* The main loop: TimerSetValue followed by TimerStart, and TimerStop.   *)

MainRuns == handler = "off" /\ arming = None

Call(op, t, p) == [op |-> op, timer |-> t, period |-> p]

\* What keeps the main loop and the callbacks from starting one timer at once: the
\* MAC is busy while a timer runs whose callback starts t, and takes no request then
\* (LORAMAC_TX_DELAYED for the timer of a delayed send). Without the check
\* (a mistake, NoneStarts_Not) either may come between the other's look and insertion.
NoneStarts_Not(t) == TRUE
NoneStarts(t) == \A u \in Timers : IsRunning[u] => t \notin Starts[u]

\* UTIL_TIMER_SetPeriod up to its look at the list, with the UTIL_TIMER_Start that
\* follows it in each caller.
SetPeriodAndStart(t, p) ==
  /\ MainRuns /\ todo = <<>>
  /\ NoneStarts(t)
  /\ todo' = IF TimerExists(t)
             THEN <<Call("stop", t, p), Call("look", t, p), Call("look", t, p)>>
             ELSE <<Call("look", t, p)>>
  /\ UNCHANGED <<server, rtc, arming, handler, current, slip, left>>

\* UTIL_TIMER_Stop by itself: a call of the main loop, or of the radio's interrupt,
\* which may come in the middle of another call of the main loop.
StopTimer(t) ==
  /\ MainRuns
  /\ Stop(t)
  /\ UNCHANGED <<handler, current, todo, slip>>

\* UTIL_TIMER_Stop as UTIL_TIMER_SetPeriod calls it.
MainStop ==
  /\ MainRuns /\ todo # <<>> /\ Head(todo).op = "stop"
  /\ Stop(Head(todo).timer)
  /\ todo' = Tail(todo)
  /\ UNCHANGED <<handler, current, slip>>

\* UTIL_TIMER_Start, the condition; interrupts are not masked yet.
MainLook ==
  /\ MainRuns /\ todo # <<>> /\ Head(todo).op = "look"
  /\ LET t == Head(todo).timer
     IN  todo' = IF MayStart(t)
                 THEN <<[Head(todo) EXCEPT !.op = "insert"]>> \o Tail(todo)
                 ELSE Tail(todo)
  /\ UNCHANGED <<server, rtc, arming, handler, current, slip, left>>

\* UTIL_TIMER_Start, the critical section.
MainInsert ==
  /\ MainRuns /\ todo # <<>> /\ Head(todo).op = "insert"
  /\ Insert(Head(todo).timer, Head(todo).period)
  /\ todo' = Tail(todo)
  /\ UNCHANGED <<alarm, alarmFlag, handler, current, slip>>

--------------------------------------------------------------------------
(* UTIL_TIMER_IRQ_Handler, with interrupts masked. *)

\* The timestamp of a timer after the time reference has moved to the present.
Rebased(stamp) == IF stamp > 0 THEN stamp ELSE 0

IrqBegin ==
  /\ alarmFlag /\ MainRuns
  /\ alarmFlag' = FALSE
  /\ Timestamp' = [t \in Timers |-> Rebased(Timestamp[t])]
  /\ handler' = "loop"
  /\ slip' = 0
  /\ UNCHANGED <<timerList, IsPending, IsRunning, elapsed, alarm, arming, current, todo, left>>

\* Whether the handler's loop takes the head for expired; a version that takes it
\* one tick early (a mistake).
Expired_Early(stamp) == stamp + elapsed = 0 \/ stamp <= 1
Expired(stamp) == stamp + elapsed = 0 \/ stamp < 0

IrqExpire ==
  /\ handler = "loop" /\ arming = None
  /\ timerList # <<>> /\ Expired(Timestamp[Head(timerList)])
  /\ LET t == Head(timerList)
     IN  /\ timerList' = Tail(timerList)
         /\ Cleared(t)
         /\ IsRunning' = [IsRunning EXCEPT ![t] = FALSE]
         /\ current' = t
         /\ left' = [left EXCEPT ![t] = None]
  /\ handler' = "callback"
  /\ slip' = 0
  /\ UNCHANGED <<rtc, arming, todo>>

\* The callback, until it returns: it stops any timers, and starts those of its own.
CallbackStop ==
  /\ handler = "callback" /\ arming = None
  /\ \E t \in Timers : Stop(t)
  /\ UNCHANGED <<handler, current, todo, slip>>

CallbackStart ==
  /\ handler = "callback" /\ arming = None
  /\ \E t \in Starts[current], p \in Periods : MayStart(t) /\ Insert(t, p)
  /\ UNCHANGED <<alarm, alarmFlag, handler, current, todo, slip>>

CallbackReturn ==
  /\ handler = "callback" /\ arming = None
  /\ handler' = "loop" /\ current' = None
  /\ UNCHANGED <<server, rtc, arming, todo, slip, left>>

IrqEnd ==
  /\ handler = "loop" /\ arming = None
  /\ timerList # <<>> => ~Expired(Timestamp[Head(timerList)])
  /\ IF timerList # <<>> /\ ~IsPending[Head(timerList)]
     THEN SetTimeout(Head(timerList))
     ELSE UNCHANGED <<IsPending, Timestamp, arming>>
  /\ handler' = "off"
  /\ elapsed' = 0
  /\ slip' = 0
  /\ UNCHANGED <<timerList, IsRunning, alarm, alarmFlag, current, todo, left>>

--------------------------------------------------------------------------
Next ==
  \/ Tick \/ ProgramAlarm
  \/ MainStop \/ MainLook \/ MainInsert
  \/ IrqBegin \/ IrqExpire \/ CallbackStop \/ CallbackStart \/ CallbackReturn \/ IrqEnd
  \/ \E t \in Timers : StopTimer(t) \/ \E p \in Periods : SetPeriodAndStart(t, p)

Spec == Init /\ [][Next]_vars

--------------------------------------------------------------------------
(* Properties. *)

\* No alarm is lost: whenever a timer runs and the server rests, alarm A is set
\* for the head of the list and has not been passed by the counter, or it has
\* matched and the interrupt is on its way. TimerSetTimeout guards against an
\* alarm in the past, IsPending against one that was never set.
AlarmForHead ==
  MainRuns /\ timerList # <<>> =>
    \/ alarmFlag
    \/ alarm # None /\ alarm = Timestamp[Head(timerList)]

\* The list holds each running timer once, though UTIL_TIMER_Start looks at it
\* before it masks interrupts: the callbacks and the radio's interrupt may start and
\* stop timers between the look and the insertion, and only the MAC's busy state
\* (NoneStarts) keeps a callback from starting the same timer there.
ListIsRunning ==
  /\ \A i, j \in DOMAIN timerList : timerList[i] = timerList[j] => i = j
  /\ \A t \in Timers : IsRunning[t] <=> TimerExists(t)

\* What the timers before it may cost a timer: each of them may be put off to
\* MIN_ALARM_DELAY and be stopped just before its alarm is served.
MaxLate == (Cardinality(Timers) - 1) * (MIN_ALARM_DELAY + MaxSlip) + 3 * MaxSlip

\* TimerSetTimeout may put the head's time off again and again, as timers before
\* and behind it come and go; no timer is late by more than MaxLate.
BoundedDelay == \A t \in Timers : left[t] # None => left[t] >= -MaxLate

\* The server fires each timer once, not before its time, and no timer that was
\* stopped.
Service == INSTANCE TimerService WITH Durations <- {MinimumTicks(p) : p \in Periods}
ImplementsService == Service!Spec
====
