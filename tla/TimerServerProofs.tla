--------------------------- MODULE TimerServerProofs --------------------------
(*************************************************************************)
(* The proofs about the timer server of Src/lorawan_app/stm32_timer.c:   *)
(* an inductive invariant that ties the RTC alarm to the head of the     *)
(* list, the refinement of TimerService, and a bound on how late a timer *)
(* can be.                                                               *)
(*************************************************************************)
EXTENDS TimerServer, SequenceTheorems, FiniteSetTheorems, WellFoundedInduction, TLAPS

Distinct(s) == \A i, j \in 1 .. Len(s) : s[i] = s[j] => i = j

--------------------------------------------------------------------------
(* The operators on the list. *)

\* The least place TimerInsertTimer looks for exists.
LEMMA MinExists ==
  ASSUME NEW S \in SUBSET Nat, S # {}
  PROVE  Min(S) \in S /\ \A i \in S : Min(S) <= i
<1> DEFINE R == OpToRel(<, Nat)
<1>1. IsWellFoundedOn(R, Nat)
  BY NatLessThanWellFounded
<1>2. \A x, y \in Nat : <<y, x>> \in R <=> y < x
  BY DEF OpToRel
<1> HIDE DEF R
<1>3. PICK x \in S : \A y \in S : ~(<<y, x>> \in R)
  BY <1>1, WFMin
<1>4. ASSUME NEW y \in S PROVE x =< y
  <2>1. x \in Nat /\ y \in Nat /\ ~(y < x)
    BY <1>2, <1>3
  <2>2. QED
    BY <2>1
<1>5. QED
  BY <1>4 DEF Min

\* What the insertion of one timer makes of the list.
LEMMA InsertAtEffect ==
  ASSUME NEW T, NEW s \in Seq(T), NEW t \in T, NEW p \in 1 .. Len(s) + 1
  PROVE  /\ InsertAt(s, p, t) \in Seq(T)
         /\ Len(InsertAt(s, p, t)) = Len(s) + 1
         /\ \A i \in 1 .. Len(s) + 1 : InsertAt(s, p, t)[i] =
              IF i < p THEN s[i] ELSE IF i = p THEN t ELSE s[i - 1]
<1> DEFINE a == SubSeq(s, 1, p - 1)
           b == SubSeq(s, p, Len(s))
           c == a \o <<t>>
<1>1. a \in Seq(T) /\ Len(a) = p - 1 /\ \A i \in 1 .. p - 1 : a[i] = s[i]
  BY SubSeqProperties
<1>2. b \in Seq(T) /\ Len(b) = Len(s) - p + 1 /\ \A i \in 1 .. Len(s) - p + 1 : b[i] = s[p + i - 1]
  BY SubSeqProperties
<1>3. <<t>> \in Seq(T) /\ Len(<<t>>) = 1 /\ <<t>>[1] = t
  OBVIOUS
<1> HIDE DEF a, b
<1>4. c \in Seq(T) /\ Len(c) = p /\ \A i \in 1 .. p : c[i] = IF i < p THEN s[i] ELSE t
  BY <1>1, <1>3, ConcatProperties
<1> HIDE DEF c
<1>5. /\ c \o b \in Seq(T)
      /\ Len(c \o b) = Len(s) + 1
      /\ \A i \in 1 .. Len(s) + 1 : (c \o b)[i] = IF i <= p THEN c[i] ELSE b[i - p]
  BY <1>2, <1>4, ConcatProperties
<1>6. InsertAt(s, p, t) = c \o b
  BY DEF InsertAt, a, b, c
<1>7. QED
  BY <1>2, <1>4, <1>5, <1>6

\* What the insertion before the head makes of the list.
LEMMA ConsEffect ==
  ASSUME NEW T, NEW s \in Seq(T), NEW t \in T
  PROVE  /\ <<t>> \o s \in Seq(T)
         /\ Len(<<t>> \o s) = Len(s) + 1
         /\ \A i \in 1 .. Len(s) + 1 :
              (<<t>> \o s)[i] = IF i < 1 THEN s[i] ELSE IF i = 1 THEN t ELSE s[i - 1]
<1>1. <<t>> \in Seq(T) /\ Len(<<t>>) = 1 /\ <<t>>[1] = t
  OBVIOUS
<1>2. /\ <<t>> \o s \in Seq(T)
      /\ Len(<<t>> \o s) = Len(<<t>>) + Len(s)
      /\ \A i \in 1 .. Len(<<t>>) + Len(s) :
           (<<t>> \o s)[i] = IF i <= Len(<<t>>) THEN <<t>>[i] ELSE s[i - Len(<<t>>)]
  BY <1>1, ConcatProperties
<1> DEFINE c == <<t>> \o s
<1> HIDE DEF c
<1>3. /\ c \in Seq(T) /\ Len(c) = 1 + Len(s)
      /\ \A i \in 1 .. 1 + Len(s) : c[i] = IF i <= 1 THEN <<t>>[i] ELSE s[i - 1]
  BY <1>1, <1>2 DEF c
<1>4. /\ c \in Seq(T)
      /\ Len(c) = Len(s) + 1
      /\ \A i \in 1 .. Len(s) + 1 :
           c[i] = IF i < 1 THEN s[i] ELSE IF i = 1 THEN t ELSE s[i - 1]
  BY <1>1, <1>3
<1>5. QED
  BY <1>4 DEF c

\* What the removal of one timer makes of the list.
LEMMA RemoveAtEffect ==
  ASSUME NEW T, NEW s \in Seq(T), NEW p \in 1 .. Len(s)
  PROVE  /\ RemoveAt(s, p) \in Seq(T)
         /\ Len(RemoveAt(s, p)) = Len(s) - 1
         /\ \A i \in 1 .. Len(s) - 1 : RemoveAt(s, p)[i] =
              IF i < p THEN s[i] ELSE s[i + 1]
<1> DEFINE a == SubSeq(s, 1, p - 1)
           b == SubSeq(s, p + 1, Len(s))
<1>1. a \in Seq(T) /\ Len(a) = p - 1 /\ \A i \in 1 .. p - 1 : a[i] = s[i]
  BY SubSeqProperties
<1>2. b \in Seq(T) /\ Len(b) = Len(s) - p /\ \A i \in 1 .. Len(s) - p : b[i] = s[p + i]
  BY SubSeqProperties
<1> HIDE DEF a, b
<1>3. /\ a \o b \in Seq(T)
      /\ Len(a \o b) = Len(a) + Len(b)
      /\ \A i \in 1 .. Len(a) + Len(b) : (a \o b)[i] =
           IF i <= Len(a) THEN a[i] ELSE b[i - Len(a)]
  BY <1>1, <1>2, ConcatProperties
<1>4. Len(a) + Len(b) = Len(s) - 1
  BY <1>1, <1>2
<1>5. ASSUME NEW i \in 1 .. Len(s) - 1
      PROVE  (a \o b)[i] = IF i < p THEN s[i] ELSE s[i + 1]
  <2>1. CASE i < p
    BY <1>1, <1>3, <1>4, <2>1
  <2>2. CASE ~(i < p)
    <3>1. i - (p - 1) \in 1 .. Len(s) - p /\ p + (i - (p - 1)) = i + 1
      BY <2>2
    <3>2. (a \o b)[i] = b[i - (p - 1)]
      BY <1>1, <1>3, <1>4, <2>2
    <3>3. QED
      BY <1>2, <2>2, <3>1, <3>2
  <2>3. QED
    BY <2>1, <2>2
<1>6. RemoveAt(s, p) = a \o b
  BY DEF RemoveAt, a, b
<1>7. QED
  BY <1>3, <1>4, <1>5, <1>6

\* RemoveFirst takes the only occurrence out of a list without repetition.
LEMMA RemoveFirstIs ==
  ASSUME NEW T, NEW s \in Seq(T), Distinct(s), NEW p \in 1 .. Len(s)
  PROVE  RemoveFirst(s, s[p]) = RemoveAt(s, p)
<1> DEFINE I == {i \in 1 .. Len(s) : s[i] = s[p]}
<1>1. I = {p}
  BY DEF Distinct
<1>2. Min(I) = p
  BY <1>1 DEF Min
<1>3. SelectInSeq(s, LAMBDA v : v = s[p]) = p
  BY <1>1, <1>2 DEF SelectInSeq
<1>4. QED
  BY <1>3 DEF RemoveFirst

--------------------------------------------------------------------------
(* The inductive invariant. *)

\* The server's own data, which only its critical sections change: the list
\* holds the running timers, only its head can be pending, and no timer expires
\* before its time.
ServerType ==
  /\ timerList \in Seq(Timers)
  /\ Timestamp \in [Timers -> Int]
  /\ IsPending \in [Timers -> BOOLEAN] /\ IsRunning \in [Timers -> BOOLEAN]
  /\ left \in [Timers -> Int \cup {None}]
PendingInv == \A i \in 2 .. Len(timerList) : ~IsPending[timerList[i]]
LeftInv ==
  /\ \A t \in Timers : left[t] # None <=> IsRunning[t]
  /\ \A t \in Timers : TimerExists(t) => left[t] <= Timestamp[t]
ServerInv == ServerType /\ ListIsRunning /\ PendingInv /\ LeftInv

\* The alarm is set, or is about to be set, for the head of the list, or it has
\* matched when the head's time had come.
Armed ==
  IF arming # None THEN arming = Timestamp[Head(timerList)]
  ELSE IF alarmFlag THEN Timestamp[Head(timerList)] <= 0
  ELSE alarm # None /\ alarm = Timestamp[Head(timerList)]

\* The handler leaves a head without an alarm only while that head is not pending,
\* so that IrqEnd sets one, or has expired, so that the loop takes it out.
HeadInv ==
  timerList # <<>> =>
    IF handler = "off" THEN Armed
    ELSE IsPending[Head(timerList)] =>
           Armed \/ (arming = None /\ Expired(Timestamp[Head(timerList)]))

\* An alarm to be set stays in the future until it is set.
SlipInv == arming # None => arming + slip >= MIN_ALARM_DELAY

HandlerInv ==
  /\ handler = "off" => elapsed = 0
  /\ handler = "callback" <=> current # None

\* What the main loop may have to do, all of it for one timer, which the callback
\* of no running timer starts, nor the callback that runs. So a timer that was not
\* in the list when UTIL_TIMER_Start looked is not in it when it is inserted.
Calls(t) == [op : {"stop", "look"}, timer : {t}, period : Periods]
Insertions == [op : {"insert"}, timer : Timers, period : Periods]
TodoInv ==
  todo # <<>> =>
    LET t == Head(todo).timer
    IN  /\ t \in Timers
        /\ Head(todo) \in Calls(t) \cup Insertions
        /\ Tail(todo) \in Seq(Calls(t))
        /\ Tail(todo) # <<>> => t \notin Starts[t]
        /\ NoneStarts(t)
        /\ handler = "callback" => t \notin Starts[current]
        /\ Head(todo) \in Insertions => ~TimerExists(t)

IInv == TypeOK /\ ServerInv /\ HeadInv /\ SlipInv /\ HandlerInv /\ TodoInv

--------------------------------------------------------------------------
(* The two critical sections that change the list. *)

\* Each either asks for an alarm for the head, or keeps the head and the alarm.
AlarmSet ==
  /\ arming' \in Int /\ arming' >= MIN_ALARM_DELAY
  /\ timerList' # <<>> => arming' = Timestamp'[Head(timerList')]
HeadKept ==
  /\ arming' = arming
  /\ timerList' # <<>> =>
       /\ timerList # <<>>
       /\ UNCHANGED <<Head(timerList), Timestamp[Head(timerList)],
                      IsPending[Head(timerList)], alarm, alarmFlag>>

\* A timer is in the list when it stands at one of its places.
LEMMA ExistsAt ==
  ASSUME timerList \in Seq(Timers), NEW t
  PROVE  TimerExists(t) <=> \E i \in 1 .. Len(timerList) : timerList[i] = t
BY DEF TimerExists, ToSet

\* The place TimerInsertTimer finds is behind the head.
LEMMA InsertPosBehind ==
  ASSUME timerList \in Seq(Timers), timerList # <<>>, NEW d \in Int
  PROVE  InsertPos(d) \in 2 .. Len(timerList) + 1
<1> DEFINE stop == {i \in 2 .. Len(timerList) : d <= Timestamp[timerList[i]]}
<1>1. Len(timerList) \in Nat /\ Len(timerList) >= 1
  OBVIOUS
<1>2. stop \in SUBSET Nat
  BY <1>1
<1>3. stop # {} => Min(stop) \in stop
  BY <1>2, MinExists
<1>4. InsertPos(d) = IF stop = {} THEN Len(timerList) + 1 ELSE Min(stop)
  BY DEF InsertPos
<1>5. QED
  BY <1>1, <1>3, <1>4

\* UTIL_TIMER_Start puts its timer at one place of the list: at the head, which
\* then gets the alarm, or behind it.
LEMMA InsertEffect ==
  ASSUME ServerInv, NEW t \in Timers, NEW p \in Periods, ~TimerExists(t), Insert(t, p)
  PROVE  /\ timerList' \in Seq(Timers)
         /\ \E q \in 1 .. Len(timerList) + 1 :
              /\ Len(timerList') = Len(timerList) + 1
              /\ \A i \in 1 .. Len(timerList) + 1 : timerList'[i] =
                   IF i < q THEN timerList[i] ELSE IF i = q THEN t ELSE timerList[i - 1]
              /\ q = 1 => /\ Timestamp'[t] >= MIN_ALARM_DELAY
                          /\ Timestamp'[t] \in Int
                          /\ arming' = Timestamp'[t]
                          /\ timerList # <<>> => ~IsPending'[timerList[1]]
              /\ q > 1 => /\ arming' = arming
                          /\ ~IsPending'[t]
                          /\ timerList # <<>>
                          /\ IsPending'[timerList[1]] = IsPending[timerList[1]]
<1> DEFINE d == MinimumTicks(p)
           newHead == timerList = <<>> \/ d < Timestamp[Head(timerList)]
<1>1. d \in Int /\ NotTooSoon(d) \in Int /\ NotTooSoon(d) >= MIN_ALARM_DELAY
  BY TimerServerAssumption DEF MinimumTicks, NotTooSoon
<1>2. timerList \in Seq(Timers) /\ Timestamp \in [Timers -> Int] /\ IsPending \in [Timers -> BOOLEAN]
  BY DEF ServerInv, ServerType
<1>3. /\ Timestamp' = [Timestamp EXCEPT ![t] = IF newHead THEN NotTooSoon(d) ELSE d]
      /\ newHead => /\ timerList' = <<t>> \o timerList
                    /\ IsPending' = [HeadNotPending EXCEPT ![t] = TRUE]
                    /\ arming' = NotTooSoon(d)
      /\ ~newHead => /\ timerList' = InsertAt(timerList, InsertPos(d), t)
                     /\ IsPending' = [IsPending EXCEPT ![t] = FALSE]
                     /\ arming' = arming
  BY DEF Insert
<1>4. timerList # <<>> => /\ Head(timerList) = timerList[1] /\ 1 \in 1 .. Len(timerList)
                          /\ timerList[1] # t /\ timerList[1] \in Timers
  BY <1>2, ExistsAt
<1> HIDE DEF d
<1>5. CASE newHead
  <2>1. /\ timerList' \in Seq(Timers)
        /\ Len(timerList') = Len(timerList) + 1
        /\ \A i \in 1 .. Len(timerList) + 1 : timerList'[i] =
             IF i < 1 THEN timerList[i] ELSE IF i = 1 THEN t ELSE timerList[i - 1]
    <3>1. timerList' = <<t>> \o timerList
      BY <1>3, <1>5
    <3>2. QED
      BY ONLY <1>2, <3>1, t \in Timers, ConsEffect
  <2>2. Timestamp'[t] = NotTooSoon(d) /\ arming' = NotTooSoon(d)
    BY <1>2, <1>3, <1>5
  <2>3. timerList # <<>> => ~IsPending'[timerList[1]]
    BY <1>2, <1>3, <1>4, <1>5 DEF HeadNotPending
  <2>4. 1 \in 1 .. Len(timerList) + 1
    BY <1>2
  <2>5. QED
    BY <1>1, <2>1, <2>2, <2>3, <2>4
<1>6. CASE ~newHead
  <2> DEFINE q == InsertPos(d)
  <2>1. timerList # <<>>
    BY <1>6
  <2>2. q \in 2 .. Len(timerList) + 1
    BY <1>1, <1>2, <2>1, InsertPosBehind
  <2>3. timerList' = InsertAt(timerList, q, t)
    BY <1>3, <1>6
  <2> HIDE DEF q
  <2>4. q \in 1 .. Len(timerList) + 1 /\ q > 1 /\ q # 1
    BY <1>2, <2>2
  <2>5. /\ timerList' \in Seq(Timers)
        /\ Len(timerList') = Len(timerList) + 1
        /\ \A i \in 1 .. Len(timerList) + 1 : timerList'[i] =
             IF i < q THEN timerList[i] ELSE IF i = q THEN t ELSE timerList[i - 1]
    <3>1. timerList \in Seq(Timers)
      BY <1>2
    <3>2. /\ InsertAt(timerList, q, t) \in Seq(Timers)
          /\ Len(InsertAt(timerList, q, t)) = Len(timerList) + 1
          /\ \A i \in 1 .. Len(timerList) + 1 : InsertAt(timerList, q, t)[i] =
               IF i < q THEN timerList[i] ELSE IF i = q THEN t ELSE timerList[i - 1]
      BY ONLY <2>4, <3>1, t \in Timers, InsertAtEffect, SMTT(60)
    <3>3. QED
      BY ONLY <2>3, <3>2
  <2>6. ~IsPending'[t] /\ IsPending'[timerList[1]] = IsPending[timerList[1]] /\ arming' = arming
    BY <1>2, <1>3, <1>4, <1>6, <2>1
  <2>7. QED
    BY <2>1, <2>4, <2>5, <2>6
<1>7. QED
  BY <1>5, <1>6

\* UTIL_TIMER_Start keeps the list in order.
LEMMA InsertServer ==
  ASSUME ServerInv, NEW t \in Timers, NEW p \in Periods, ~TimerExists(t), Insert(t, p),
         UNCHANGED <<alarm, alarmFlag>>
  PROVE  /\ ServerInv'
         /\ AlarmSet \/ HeadKept
         /\ \A u \in Timers : TimerExists(u)' <=> TimerExists(u) \/ u = t
<1>1. PICK q \in 1 .. Len(timerList) + 1 :
        /\ Len(timerList') = Len(timerList) + 1
        /\ \A i \in 1 .. Len(timerList) + 1 : timerList'[i] =
             IF i < q THEN timerList[i] ELSE IF i = q THEN t ELSE timerList[i - 1]
        /\ q = 1 => /\ Timestamp'[t] >= MIN_ALARM_DELAY
                    /\ Timestamp'[t] \in Int
                    /\ arming' = Timestamp'[t]
                    /\ timerList # <<>> => ~IsPending'[timerList[1]]
        /\ q > 1 => /\ arming' = arming
                    /\ ~IsPending'[t]
                    /\ timerList # <<>>
                    /\ IsPending'[timerList[1]] = IsPending[timerList[1]]
  BY InsertEffect
<1>2. timerList \in Seq(Timers) /\ timerList' \in Seq(Timers)
  BY InsertEffect DEF ServerInv, ServerType
<1> DEFINE d == MinimumTicks(p)
<1>3. d \in Int /\ d <= NotTooSoon(d) /\ NotTooSoon(d) \in Int /\ d # None
  BY TimerServerAssumption DEF MinimumTicks, NotTooSoon
<1>4. /\ Timestamp \in [Timers -> Int] /\ IsPending \in [Timers -> BOOLEAN]
      /\ IsRunning \in [Timers -> BOOLEAN] /\ left \in [Timers -> Int \cup {None}]
      /\ Distinct(timerList)
      /\ \A u \in Timers : IsRunning[u] <=> TimerExists(u)
      /\ \A u \in Timers : left[u] # None <=> IsRunning[u]
      /\ \A u \in Timers : TimerExists(u) => left[u] <= Timestamp[u]
      /\ \A i \in 2 .. Len(timerList) : ~IsPending[timerList[i]]
  BY <1>2 DEF ServerInv, ServerType, ListIsRunning, LeftInv, PendingInv, Distinct
<1>5. /\ IsRunning' = [IsRunning EXCEPT ![t] = TRUE]
      /\ left' = [left EXCEPT ![t] = d]
      /\ \E v \in {d, NotTooSoon(d)} : Timestamp' = [Timestamp EXCEPT ![t] = v]
  BY DEF Insert
<1>6. /\ IsPending' \in [Timers -> BOOLEAN]
      /\ \A u \in Timers : u # t /\ IsPending'[u] => IsPending[u]
  BY <1>4 DEF Insert, HeadNotPending
<1> HIDE DEF d
<1>7. /\ IsRunning' \in [Timers -> BOOLEAN] /\ left' \in [Timers -> Int \cup {None}]
      /\ Timestamp' \in [Timers -> Int]
      /\ IsRunning'[t] /\ left'[t] = d /\ d <= Timestamp'[t]
      /\ \A u \in Timers : u # t => /\ IsRunning'[u] = IsRunning[u] /\ left'[u] = left[u]
                                    /\ Timestamp'[u] = Timestamp[u]
  BY <1>3, <1>4, <1>5
<1>8. Len(timerList) \in Nat
  BY <1>2
<1>9. \A i \in 1 .. Len(timerList) : timerList[i] \in Timers /\ timerList[i] # t
  BY <1>2, ExistsAt
<1>10. ASSUME NEW u \in Timers
       PROVE  TimerExists(u)' <=> TimerExists(u) \/ u = t
  <2>1. TimerExists(u)' <=> \E i \in 1 .. Len(timerList') : timerList'[i] = u
    BY <1>2 DEF TimerExists, ToSet
  <2>2. TimerExists(u) <=> \E i \in 1 .. Len(timerList) : timerList[i] = u
    BY <1>2, ExistsAt
  <2>3. TimerExists(u)' => TimerExists(u) \/ u = t
    BY <1>1, <1>8, <2>1, <2>2
  <2>4. timerList'[q] = t /\ q \in 1 .. Len(timerList')
    BY <1>1, <1>8
  <2>5. ASSUME NEW i \in 1 .. Len(timerList), timerList[i] = u
        PROVE  \E j \in 1 .. Len(timerList') : timerList'[j] = u
    <3>1. CASE i < q
      BY <1>1, <1>8, <2>5, <3>1
    <3>2. CASE ~(i < q)
      <4>1. i + 1 \in 1 .. Len(timerList) + 1 /\ ~(i + 1 < q) /\ i + 1 # q /\ (i + 1) - 1 = i
        BY <1>8, <3>2
      <4>2. timerList'[i + 1] = timerList[i]
        BY <1>1, <4>1
      <4>3. QED
        BY <1>1, <2>5, <4>1, <4>2
    <3>3. QED
      BY <3>1, <3>2
  <2>6. QED
    BY <2>1, <2>2, <2>3, <2>4, <2>5
<1>11. Distinct(timerList')
  <2>1. SUFFICES ASSUME NEW i \in 1 .. Len(timerList'), NEW j \in 1 .. Len(timerList'),
                        timerList'[i] = timerList'[j], i < j
                 PROVE  FALSE
    BY <1>1, <1>8 DEF Distinct
  <2>2. CASE j < q
    <3>1. /\ timerList'[i] = timerList[i] /\ timerList'[j] = timerList[j]
          /\ i \in 1 .. Len(timerList) /\ j \in 1 .. Len(timerList)
      BY <1>1, <1>8, <2>1, <2>2
    <3>2. timerList[i] = timerList[j]
      BY <2>1, <3>1
    <3>3. i # j
      BY <2>1, <3>1
    <3>4. QED
      BY <1>4, <3>1, <3>2, <3>3 DEF Distinct
  <2>3. CASE j = q
    BY <1>1, <1>8, <1>9, <2>1, <2>3
  <2>4. CASE j > q
    <3>1. timerList'[j] = timerList[j - 1] /\ j - 1 \in 1 .. Len(timerList)
      BY <1>1, <1>8, <2>4
    <3>2. CASE i < q
      BY <1>1, <1>4, <1>8, <2>1, <2>4, <3>1, <3>2, SMTT(30) DEF Distinct
    <3>3. CASE i = q
      BY <1>1, <1>8, <1>9, <2>1, <3>1, <3>3
    <3>4. CASE i > q
      <4>1. timerList'[i] = timerList[i - 1] /\ i - 1 \in 1 .. Len(timerList)
        BY <1>1, <1>8, <3>4
      <4>2. QED
        BY <1>4, <2>1, <3>1, <4>1 DEF Distinct
    <3>5. QED
      BY <3>2, <3>3, <3>4
  <2>5. QED
    BY <1>8, <2>2, <2>3, <2>4
<1>12. ListIsRunning'
  <2>1. \A u \in Timers : IsRunning'[u] <=> TimerExists(u)'
    BY <1>4, <1>7, <1>10
  <2>2. DOMAIN timerList' = 1 .. Len(timerList')
    BY <1>2
  <2>3. QED
    BY <1>11, <2>1, <2>2 DEF ListIsRunning, Distinct
<1>13. PendingInv'
  <2>1. SUFFICES ASSUME NEW i \in 2 .. Len(timerList') PROVE ~IsPending'[timerList'[i]]
    BY DEF PendingInv
  <2>2. CASE i < q
    BY <1>1, <1>4, <1>6, <1>8, <1>9, <2>2
  <2>3. CASE i = q
    BY <1>1, <1>8, <2>3
  <2>4. CASE i > q /\ i = 2
    BY <1>1, <1>8, <2>4
  <2>5. CASE i > q /\ i > 2
    <3>1. timerList'[i] = timerList[i - 1] /\ i - 1 \in 2 .. Len(timerList)
      BY <1>1, <1>8, <2>5
    <3>2. QED
      BY <1>4, <1>6, <1>8, <1>9, <3>1
  <2>6. QED
    BY <1>8, <2>2, <2>3, <2>4, <2>5
<1>14. LeftInv'
  BY <1>3, <1>4, <1>7, <1>10 DEF LeftInv
<1>15. ServerInv'
  BY <1>2, <1>6, <1>7, <1>12, <1>13, <1>14 DEF ServerInv, ServerType
<1>16. Head(timerList') = timerList'[1] /\ timerList' # <<>>
  BY <1>1, <1>2, <1>8
<1>17. CASE q = 1
  BY <1>1, <1>8, <1>10, <1>15, <1>16, <1>17 DEF AlarmSet
<1>18. CASE q > 1
  <2>1. timerList # <<>> /\ Head(timerList) = timerList[1] /\ 1 \in 1 .. Len(timerList)
    BY <1>1, <1>2, <1>18
  <2>2. Head(timerList') = timerList[1]
    BY <1>1, <1>8, <1>16, <1>18
  <2>3. HeadKept
    BY <1>1, <1>7, <1>9, <1>18, <2>1, <2>2 DEF HeadKept
  <2>4. QED
    BY <1>10, <1>15, <2>3
<1>19. QED
  BY <1>8, <1>17, <1>18

\* UTIL_TIMER_Stop takes its timer out of the list, wherever it stands.
LEMMA StopEffect ==
  ASSUME ServerInv, NEW t \in Timers, Stop(t)
  PROVE  \/ timerList' = timerList /\ ~TimerExists(t)
         \/ \E q \in 1 .. Len(timerList) :
              /\ timerList[q] = t
              /\ timerList' \in Seq(Timers)
              /\ Len(timerList') = Len(timerList) - 1
              /\ \A i \in 1 .. Len(timerList) - 1 : timerList'[i] =
                   IF i < q THEN timerList[i] ELSE timerList[i + 1]
<1>1. timerList \in Seq(Timers) /\ timerList' = RemoveFirst(timerList, t) /\ Distinct(timerList)
  BY DEF Stop, ServerInv, ServerType, ListIsRunning, Distinct
<1>2. CASE ~TimerExists(t)
  BY <1>1, <1>2, ExistsAt DEF RemoveFirst
<1>3. CASE TimerExists(t)
  <2>1. PICK q \in 1 .. Len(timerList) : timerList[q] = t
    BY <1>1, <1>3, ExistsAt
  <2>2. timerList' = RemoveAt(timerList, q)
    BY <1>1, <2>1, RemoveFirstIs
  <2> DEFINE c == RemoveAt(timerList, q)
  <2>3. /\ c \in Seq(Timers)
        /\ Len(c) = Len(timerList) - 1
        /\ \A i \in 1 .. Len(timerList) - 1 : c[i] =
             IF i < q THEN timerList[i] ELSE timerList[i + 1]
    BY ONLY <1>1, q \in 1 .. Len(timerList), RemoveAtEffect
  <2>4. timerList' = c
    BY <2>2
  <2> HIDE DEF c
  <2>5. QED
    BY <2>1, <2>3, <2>4
<1>4. QED
  BY <1>2, <1>3

\* The data that UTIL_TIMER_Stop changes: the stopped timer's, and a new head's,
\* which gets an alarm.
LEMMA StopData ==
  ASSUME ServerInv, NEW t \in Timers, Stop(t)
  PROVE  /\ ServerType'
         /\ \A u \in Timers : IsRunning'[u] <=> IsRunning[u] /\ u # t
         /\ \A u \in Timers : left'[u] = IF u = t THEN None ELSE left[u]
         /\ \A u \in Timers : u # t => Timestamp'[u] >= Timestamp[u]
         /\ \A u \in Timers :
              u # t /\ (Len(timerList) < 2 \/ timerList[1] # t \/ timerList[2] # u)
                => IsPending'[u] = IsPending[u] /\ Timestamp'[u] = Timestamp[u]
         /\ Len(timerList) >= 2 /\ timerList[1] = t =>
              /\ Timestamp'[timerList[2]] \in Int
              /\ Timestamp'[timerList[2]] >= MIN_ALARM_DELAY
              /\ arming' = Timestamp'[timerList[2]]
         /\ Len(timerList) < 2 \/ timerList[1] # t => arming' = arming
         /\ timerList # <<>> /\ timerList[1] # t => UNCHANGED <<alarm, alarmFlag>>
<1>1. /\ timerList \in Seq(Timers) /\ Timestamp \in [Timers -> Int]
      /\ IsPending \in [Timers -> BOOLEAN] /\ IsRunning \in [Timers -> BOOLEAN]
      /\ left \in [Timers -> Int \cup {None}] /\ Distinct(timerList)
      /\ \A u \in Timers : IsRunning[u] <=> TimerExists(u)
  BY DEF ServerInv, ServerType, ListIsRunning, Distinct
<1>2. timerList' \in Seq(Timers)
  BY <1>1, StopEffect
<1>3. left' = [left EXCEPT ![t] = None]
  BY DEF Stop
<1>4. /\ left' \in [Timers -> Int \cup {None}]
      /\ \A u \in Timers : left'[u] = IF u = t THEN None ELSE left[u]
  BY <1>1, <1>3
<1>5. /\ IsRunning' \in [Timers -> BOOLEAN]
      /\ \A u \in Timers : IsRunning'[u] <=> IsRunning[u] /\ u # t
  <2>1. CASE timerList = <<>>
    BY <1>1, <2>1, ExistsAt DEF Stop
  <2>2. CASE timerList # <<>>
    BY <1>1, <2>2 DEF Stop
  <2>3. QED
    BY <2>1, <2>2
<1>6. Len(timerList) \in Nat /\ (timerList # <<>> => Head(timerList) = timerList[1])
  BY <1>1
<1> DEFINE Data ==
      /\ Timestamp' \in [Timers -> Int] /\ IsPending' \in [Timers -> BOOLEAN]
      /\ \A u \in Timers : u # t => Timestamp'[u] >= Timestamp[u]
      /\ \A u \in Timers :
           u # t /\ (Len(timerList) < 2 \/ timerList[1] # t \/ timerList[2] # u)
             => IsPending'[u] = IsPending[u] /\ Timestamp'[u] = Timestamp[u]
      /\ Len(timerList) >= 2 /\ timerList[1] = t =>
           /\ Timestamp'[timerList[2]] \in Int
           /\ Timestamp'[timerList[2]] >= MIN_ALARM_DELAY
           /\ arming' = Timestamp'[timerList[2]]
      /\ Len(timerList) < 2 \/ timerList[1] # t => arming' = arming
      /\ timerList # <<>> /\ timerList[1] # t => UNCHANGED <<alarm, alarmFlag>>
<1>7. CASE timerList = <<>> \/ t # Head(timerList)
  <2>1. Cleared(t) /\ UNCHANGED <<arming, alarm, alarmFlag>>
    BY <1>7 DEF Stop
  <2>2. Len(timerList) < 2 \/ timerList[1] # t
    BY <1>6, <1>7
  <2>3. Data
    BY <1>1, <2>1, <2>2 DEF Cleared
  <2>4. QED
    BY <1>2, <1>4, <1>5, <2>3 DEF ServerType
<1>8. CASE timerList = <<t>>
  <2>1. Len(timerList) = 1 /\ timerList[1] = t /\ timerList # <<>> /\ t = Head(timerList)
    BY <1>8
  <2>2. Cleared(t) /\ UNCHANGED arming
    BY <1>8, <2>1 DEF Stop
  <2>3. Data
    BY <1>1, <2>1, <2>2 DEF Cleared
  <2>4. QED
    BY <1>2, <1>4, <1>5, <2>3 DEF ServerType
<1>9. CASE timerList # <<>> /\ t = Head(timerList) /\ timerList # <<t>>
  <2> DEFINE next == timerList[2]
             at == NotTooSoon(Timestamp[next])
  <2>1. Len(timerList) >= 2 /\ timerList[1] = t
    <3>1. Len(timerList) = 1 => timerList = <<t>>
      BY <1>1, <1>6, <1>9
    <3>2. Len(timerList) # 0
      BY <1>1, <1>9
    <3>3. Len(timerList) # 1
      BY <1>9, <3>1
    <3>4. QED
      BY <1>6, <1>9, <3>2, <3>3
  <2>2. next \in Timers /\ next # t
    BY <1>1, <1>6, <2>1 DEF Distinct
  <2>3. /\ Timestamp' = [Timestamp EXCEPT ![t] = 0, ![next] = at]
        /\ IsPending' = [IsPending EXCEPT ![t] = FALSE, ![next] = TRUE]
        /\ arming' = at
        /\ UNCHANGED <<alarm, alarmFlag>>
    BY <1>9 DEF Stop
  <2>4. at \in Int /\ at >= MIN_ALARM_DELAY /\ at >= Timestamp[next]
    BY <1>1, <2>2, TimerServerAssumption DEF NotTooSoon
  <2> HIDE DEF next, at
  <2>5. /\ Timestamp' \in [Timers -> Int] /\ IsPending' \in [Timers -> BOOLEAN]
        /\ Timestamp'[next] = at
        /\ \A u \in Timers : u # t /\ u # next => /\ Timestamp'[u] = Timestamp[u]
                                                  /\ IsPending'[u] = IsPending[u]
    <3>1. /\ Timestamp' \in [Timers -> Int]
          /\ Timestamp'[next] = at
          /\ \A u \in Timers : u # t /\ u # next => Timestamp'[u] = Timestamp[u]
      BY <1>1, <2>2, <2>3, <2>4
    <3>2. /\ IsPending' \in [Timers -> BOOLEAN]
          /\ \A u \in Timers : u # t /\ u # next => IsPending'[u] = IsPending[u]
      BY <1>1, <2>2, <2>3
    <3>3. QED
      BY <3>1, <3>2
  <2>6. Data
    <3>1. ASSUME NEW u \in Timers, u # t PROVE Timestamp'[u] >= Timestamp[u]
      <4>1. CASE u = next
        BY <2>4, <2>5, <4>1
      <4>2. CASE u # next
        <5>1. Timestamp'[u] = Timestamp[u] /\ Timestamp[u] \in Int
          BY <1>1, <2>5, <3>1, <4>2
        <5>2. QED
          BY <5>1
      <4>3. QED
        BY <4>1, <4>2
    <3>2. next = timerList[2]
      BY DEF next
    <3>3. \A u \in Timers : u # t /\ (Len(timerList) < 2 \/ timerList[1] # t \/ timerList[2] # u)
            => IsPending'[u] = IsPending[u] /\ Timestamp'[u] = Timestamp[u]
      BY <1>6, <2>1, <2>5, <3>2
    <3>4. /\ Timestamp'[timerList[2]] \in Int
          /\ Timestamp'[timerList[2]] >= MIN_ALARM_DELAY
          /\ arming' = Timestamp'[timerList[2]]
      BY <2>3, <2>4, <2>5, <3>2
    <3>5. ~(Len(timerList) < 2 \/ timerList[1] # t)
      BY <1>6, <2>1
    <3>6. QED
      BY <2>5, <3>1, <3>3, <3>4, <3>5
  <2>7. QED
    BY <1>2, <1>4, <1>5, <2>6 DEF ServerType
<1>10. QED
  BY <1>7, <1>8, <1>9

\* UTIL_TIMER_Stop keeps the list in order.
LEMMA StopServer ==
  ASSUME ServerInv, NEW t \in Timers, Stop(t)
  PROVE  /\ ServerInv'
         /\ AlarmSet \/ HeadKept
         /\ \A u \in Timers : TimerExists(u)' <=> TimerExists(u) /\ u # t
<1>1. /\ timerList \in Seq(Timers) /\ Timestamp \in [Timers -> Int]
      /\ left \in [Timers -> Int \cup {None}] /\ Distinct(timerList)
      /\ \A u \in Timers : IsRunning[u] <=> TimerExists(u)
      /\ \A u \in Timers : left[u] # None <=> IsRunning[u]
      /\ \A u \in Timers : TimerExists(u) => left[u] <= Timestamp[u]
      /\ \A i \in 2 .. Len(timerList) : ~IsPending[timerList[i]]
  BY DEF ServerInv, ServerType, ListIsRunning, LeftInv, PendingInv, Distinct
<1>2. ServerType'
  BY StopData
<1>3. timerList' \in Seq(Timers) /\ Timestamp' \in [Timers -> Int]
  BY <1>2 DEF ServerType
<1>4. Len(timerList) \in Nat
  BY <1>1
<1>5. \A i \in 1 .. Len(timerList) : timerList[i] \in Timers
  BY <1>1
<1>6. /\ \A u \in Timers : TimerExists(u) <=> \E i \in 1 .. Len(timerList) : timerList[i] = u
      /\ \A u \in Timers : TimerExists(u)' <=> \E i \in 1 .. Len(timerList') : timerList'[i] = u
  <2>1. \A u \in Timers : TimerExists(u) <=> \E i \in 1 .. Len(timerList) : timerList[i] = u
    BY <1>1, ExistsAt
  <2>2. ASSUME NEW u \in Timers
        PROVE  TimerExists(u)' <=> \E i \in 1 .. Len(timerList') : timerList'[i] = u
    BY <1>3 DEF TimerExists, ToSet
  <2>3. QED
    BY <2>1, <2>2
<1>7. ASSUME timerList' = timerList, ~TimerExists(t)
      PROVE  /\ \A u \in Timers : TimerExists(u)' <=> TimerExists(u) /\ u # t
             /\ Distinct(timerList') /\ PendingInv'
             /\ AlarmSet \/ HeadKept
  <2>1. \A u \in Timers : TimerExists(u)' <=> TimerExists(u) /\ u # t
    BY <1>7 DEF TimerExists
  <2>2. \A i \in 1 .. Len(timerList) : timerList[i] # t
    BY <1>1, <1>7, ExistsAt
  <2>3. \A i \in 1 .. Len(timerList) :
          IsPending'[timerList[i]] = IsPending[timerList[i]]
            /\ Timestamp'[timerList[i]] = Timestamp[timerList[i]]
    BY <1>4, <1>5, <2>2, StopData
  <2>4. Distinct(timerList') /\ PendingInv'
    BY <1>1, <1>4, <1>7, <2>3 DEF PendingInv
  <2>5. timerList # <<>> => Head(timerList) = timerList[1] /\ 1 \in 1 .. Len(timerList)
    BY <1>1
  <2>6. HeadKept
    <3>1. CASE timerList = <<>>
      BY <1>4, <1>7, <3>1, StopData DEF HeadKept
    <3>2. CASE timerList # <<>>
      BY <1>7, <2>2, <2>3, <2>5, <3>2, StopData DEF HeadKept
    <3>3. QED
      BY <3>1, <3>2
  <2>7. QED
    BY <2>1, <2>4, <2>6
<1>8. ASSUME NEW q \in 1 .. Len(timerList), timerList[q] = t,
             Len(timerList') = Len(timerList) - 1,
             \A i \in 1 .. Len(timerList) - 1 : timerList'[i] =
               IF i < q THEN timerList[i] ELSE timerList[i + 1]
      PROVE  /\ \A u \in Timers : TimerExists(u)' <=> TimerExists(u) /\ u # t
             /\ Distinct(timerList') /\ PendingInv'
             /\ AlarmSet \/ HeadKept
  <2> DEFINE From(i) == IF i < q THEN i ELSE i + 1
  <2>1. \A i \in 1 .. Len(timerList') : /\ From(i) \in 1 .. Len(timerList) /\ From(i) # q
                                        /\ timerList'[i] = timerList[From(i)]
    BY <1>4, <1>8
  <2>2. \A i \in 1 .. Len(timerList) : timerList[i] = t => i = q
    BY <1>1, <1>8 DEF Distinct
  <2>3. ASSUME NEW u \in Timers
        PROVE  TimerExists(u)' <=> TimerExists(u) /\ u # t
    <3>1. TimerExists(u)' => TimerExists(u) /\ u # t
      BY <1>6, <2>1, <2>2
    <3>2. ASSUME NEW i \in 1 .. Len(timerList), timerList[i] = u, u # t
          PROVE  \E j \in 1 .. Len(timerList') : timerList'[j] = u
      <4>1. CASE i < q
        BY <1>4, <1>8, <3>2, <4>1
      <4>2. CASE i > q
        <5>1. i - 1 \in 1 .. Len(timerList') /\ From(i - 1) = i
          BY <1>4, <1>8, <4>2
        <5>2. QED
          BY <2>1, <3>2, <5>1
      <4>3. i # q
        BY <1>8, <3>2
      <4>4. QED
        BY <1>4, <4>1, <4>2, <4>3
    <3>3. QED
      BY <1>6, <3>1, <3>2
  <2>4. Distinct(timerList')
    <3>1. SUFFICES ASSUME NEW i \in 1 .. Len(timerList'), NEW j \in 1 .. Len(timerList'),
                          timerList'[i] = timerList'[j]
                   PROVE  i = j
      BY DEF Distinct
    <3>2. timerList[From(i)] = timerList[From(j)]
      BY <2>1, <3>1
    <3>3. From(i) = From(j)
      BY <1>1, <2>1, <3>2 DEF Distinct
    <3>4. i \in Int /\ j \in Int /\ q \in Int
      BY <1>4, <1>8
    <3>5. QED
      BY <3>3, <3>4
  <2>5. \A i \in 1 .. Len(timerList') : /\ timerList'[i] \in Timers /\ timerList'[i] # t
    BY <1>5, <2>1, <2>2
  <2>6. PendingInv'
    <3>1. SUFFICES ASSUME NEW i \in 2 .. Len(timerList') PROVE ~IsPending'[timerList'[i]]
      BY DEF PendingInv
    <3>2. i \in 1 .. Len(timerList') /\ From(i) \in 2 .. Len(timerList) /\ (q = 1 => From(i) # 2)
      BY <1>4, <1>8, <2>1
    <3>3. ~IsPending[timerList'[i]]
      BY <1>1, <2>1, <3>2
    <3>4. timerList[1] # t \/ timerList[2] # timerList'[i]
      <4>1. CASE q = 1
        <5>1. 2 \in 1 .. Len(timerList) /\ From(i) \in 1 .. Len(timerList) /\ From(i) # 2
          BY <1>4, <2>1, <3>2, <4>1
        <5>2. timerList'[i] = timerList[From(i)]
          BY <2>1, <3>2
        <5>3. QED
          BY <1>1, <5>1, <5>2 DEF Distinct
      <4>2. CASE q # 1
        BY <1>4, <2>2, <4>2
      <4>3. QED
        BY <4>1, <4>2
    <3>5. IsPending'[timerList'[i]] = IsPending[timerList'[i]]
      BY <2>5, <3>2, <3>4, StopData
    <3>6. QED
      BY <3>3, <3>5
  <2>7. CASE q = 1 /\ Len(timerList) >= 2
    <3>1. Head(timerList') = timerList[2]
      BY <1>3, <1>4, <1>8, <2>7
    <3>2. AlarmSet
      BY <1>8, <2>7, <3>1, StopData DEF AlarmSet
    <3>3. QED
      BY <2>3, <2>4, <2>6, <3>2
  <2>8. CASE Len(timerList) < 2
    <3>1. timerList' = <<>> /\ arming' = arming
      BY <1>3, <1>4, <1>8, <2>8, StopData
    <3>2. HeadKept
      BY <3>1 DEF HeadKept
    <3>3. QED
      BY <2>3, <2>4, <2>6, <3>2
  <2>9. CASE q > 1
    <3>1. timerList # <<>> /\ Head(timerList) = timerList[1] /\ 1 \in 1 .. Len(timerList)
      BY <1>1, <1>4, <1>8
    <3>2. timerList[1] # t /\ timerList[1] \in Timers
      BY <1>5, <2>2, <2>9, <3>1
    <3>3. /\ UNCHANGED <<arming, alarm, alarmFlag>>
          /\ IsPending'[timerList[1]] = IsPending[timerList[1]]
          /\ Timestamp'[timerList[1]] = Timestamp[timerList[1]]
      BY <3>1, <3>2, StopData
    <3>4. 1 \in 1 .. Len(timerList') /\ From(1) = 1
      BY <1>4, <1>8, <2>9
    <3>5. Head(timerList') = timerList[1]
      BY <1>3, <2>1, <3>4
    <3>6. HeadKept
      BY <3>1, <3>3, <3>5 DEF HeadKept
    <3>7. QED
      BY <2>3, <2>4, <2>6, <3>6
  <2>10. QED
    BY <1>4, <1>8, <2>7, <2>8, <2>9
<1>9. /\ \A u \in Timers : TimerExists(u)' <=> TimerExists(u) /\ u # t
      /\ Distinct(timerList') /\ PendingInv'
      /\ AlarmSet \/ HeadKept
  <2>1. CASE timerList' = timerList /\ ~TimerExists(t)
    BY <1>7, <2>1
  <2>2. CASE ~(timerList' = timerList /\ ~TimerExists(t))
    <3>1. PICK q \in 1 .. Len(timerList) :
            /\ timerList[q] = t
            /\ Len(timerList') = Len(timerList) - 1
            /\ \A i \in 1 .. Len(timerList) - 1 : timerList'[i] =
                 IF i < q THEN timerList[i] ELSE timerList[i + 1]
      BY <2>2, StopEffect
    <3>2. QED
      BY <1>8, <3>1
  <2>3. QED
    BY <2>1, <2>2
<1>10. ListIsRunning'
  <2>1. \A u \in Timers : IsRunning'[u] <=> TimerExists(u)'
    BY <1>1, <1>9, StopData
  <2>2. DOMAIN timerList' = 1 .. Len(timerList')
    BY <1>3
  <2>3. QED
    BY <1>9, <2>1, <2>2 DEF ListIsRunning, Distinct
<1>11. LeftInv'
  <2>1. \A u \in Timers : left'[u] # None <=> IsRunning'[u]
    BY <1>1, StopData
  <2>2. ASSUME NEW u \in Timers, TimerExists(u)'
        PROVE  left'[u] <= Timestamp'[u]
    <3>1. TimerExists(u) /\ u # t
      BY <1>9, <2>2
    <3>2. left'[u] = left[u] /\ left[u] <= Timestamp[u] /\ Timestamp'[u] >= Timestamp[u]
      BY <1>1, <3>1, StopData
    <3>3. left[u] \in Int /\ Timestamp[u] \in Int /\ Timestamp'[u] \in Int
      BY <1>1, <1>3, <3>1
    <3>4. QED
      BY <3>2, <3>3
  <2>3. QED
    BY <2>1, <2>2 DEF LeftInv
<1>12. QED
  BY <1>2, <1>9, <1>10, <1>11 DEF ServerInv

--------------------------------------------------------------------------
(* The invariant is inductive. *)

\* The critical sections leave an alarm for the head.
LEMMA HeadAfter ==
  ASSUME HeadInv, AlarmSet \/ HeadKept, timerList # <<>> => elapsed' = elapsed,
         (handler' = "off") <=> (handler = "off")
  PROVE  HeadInv'
<1>1. SUFFICES ASSUME timerList' # <<>> PROVE HeadInv'
  BY DEF HeadInv
<1>2. CASE AlarmSet
  <2>1. arming' # None /\ arming' = Timestamp'[Head(timerList')]
    BY <1>1, <1>2, TimerServerAssumption DEF AlarmSet
  <2>2. Armed'
    BY <2>1 DEF Armed
  <2>3. QED
    BY <2>2 DEF HeadInv
<1>3. CASE HeadKept
  <2>1. /\ timerList # <<>> /\ Head(timerList') = Head(timerList)
        /\ Timestamp'[Head(timerList')] = Timestamp[Head(timerList)]
        /\ IsPending'[Head(timerList')] = IsPending[Head(timerList)]
        /\ UNCHANGED <<arming, alarm, alarmFlag>>
    BY <1>1, <1>3 DEF HeadKept
  <2>2. Armed' = Armed
    BY <2>1 DEF Armed
  <2>3. Expired(Timestamp[Head(timerList)])' = Expired(Timestamp[Head(timerList)])
    BY <2>1 DEF Expired
  <2>4. QED
    BY <2>1, <2>2, <2>3 DEF HeadInv
<1>4. QED
  BY <1>2, <1>3

\* What the main loop has found stays true when no callback may start its timer and
\* its timer does not get into the list.
LEMMA TodoAfter ==
  ASSUME TodoInv, UNCHANGED todo,
         todo # <<>> => /\ NoneStarts(Head(todo).timer)'
                        /\ TimerExists(Head(todo).timer)' => TimerExists(Head(todo).timer)
                        /\ handler' = "callback" => Head(todo).timer \notin Starts[current']
  PROVE  TodoInv'
<1>1. (Head(todo).timer)' = Head(todo).timer /\ Tail(todo)' = Tail(todo)
  OBVIOUS
<1>2. QED
  BY <1>1 DEF TodoInv, Calls, Insertions, NoneStarts, TimerExists

\* So it does when timers only leave the list.
LEMMA TodoKept ==
  ASSUME TodoInv, UNCHANGED todo,
         \A u \in Timers : /\ IsRunning'[u] => IsRunning[u]
                           /\ TimerExists(u)' => TimerExists(u),
         handler' = "callback" => handler = "callback" /\ current' = current
  PROVE  TodoInv'
<1>1. SUFFICES ASSUME todo # <<>> PROVE TodoInv'
  BY DEF TodoInv
<1>2. /\ Head(todo).timer \in Timers /\ NoneStarts(Head(todo).timer)
      /\ handler = "callback" => Head(todo).timer \notin Starts[current]
  BY <1>1 DEF TodoInv
<1>3. NoneStarts(Head(todo).timer)'
  BY <1>2 DEF NoneStarts
<1>4. QED
  BY <1>2, <1>3, TodoAfter

\* What the main loop has done is taken from what it has to do.
LEMMA TodoTail ==
  ASSUME TodoInv, todo # <<>>, todo' = Tail(todo), handler' # "callback",
         Tail(todo) # <<>> => \A u \in Timers : IsRunning'[u] => Head(todo).timer \notin Starts[u]
  PROVE  TodoInv'
<1> DEFINE t == Head(todo).timer
           s == Tail(todo)
<1>1. t \in Timers /\ s \in Seq(Calls(t)) /\ (s # <<>> => t \notin Starts[t])
  BY DEF TodoInv
<1>2. s # <<>> => \A u \in Timers : IsRunning'[u] => t \notin Starts[u]
  OBVIOUS
<1>3. todo' = s
  OBVIOUS
<1> HIDE DEF t, s
<1>4. SUFFICES ASSUME s # <<>> PROVE TodoInv'
  BY <1>3 DEF TodoInv
<1>5. Head(s) \in Calls(t) /\ Tail(s) \in Seq(Calls(t))
  BY <1>1, <1>4
<1>6. Head(s).timer = t /\ Head(s) \notin Insertions
  BY <1>5 DEF Calls, Insertions
<1>7. QED
  BY <1>1, <1>2, <1>3, <1>4, <1>5, <1>6 DEF TodoInv, NoneStarts

\* Nothing is armed and nothing waits when the device starts.
LEMMA InitIInv == Init => IInv
<1> SUFFICES ASSUME Init PROVE IInv
  OBVIOUS
<1>1. TypeOK
  <2>1. slip \in 0 .. MaxSlip /\ elapsed \in Nat
    BY TimerServerAssumption DEF Init
  <2>2. timerList \in Seq(Timers)
    BY DEF Init
  <2>3. Timestamp \in [Timers -> Int] /\ left \in [Timers -> Int \cup {None}]
    BY DEF Init
  <2>4. IsPending \in [Timers -> BOOLEAN] /\ IsRunning \in [Timers -> BOOLEAN]
    BY DEF Init
  <2>5. QED
    BY <2>1, <2>2, <2>3, <2>4 DEF Init, TypeOK
<1>2. timerList = <<>> /\ Len(timerList) = 0 /\ DOMAIN timerList = {}
  BY DEF Init
<1>3. \A t \in Timers : ~TimerExists(t)
  BY <1>2 DEF TimerExists, ToSet
<1>4. ListIsRunning
  BY <1>2, <1>3 DEF ListIsRunning, Init
<1>5. ServerInv
  BY <1>1, <1>2, <1>3, <1>4 DEF ServerInv, ServerType, PendingInv, LeftInv, TypeOK, Init
<1>6. TodoInv
  BY DEF TodoInv, Init
<1>7. QED
  BY <1>1, <1>2, <1>5, <1>6 DEF IInv, HeadInv, SlipInv, HandlerInv, Init

\* The RTC counts on: times, the alarm and the timeout to be set move together.
LEMMA TickIInv == IInv /\ Tick => IInv'
<1> SUFFICES ASSUME IInv, Tick PROVE IInv'
  OBVIOUS
<1>1. TypeOK /\ ServerInv /\ HeadInv /\ SlipInv /\ HandlerInv /\ TodoInv
  BY DEF IInv
<1>2. /\ \A t \in Timers : TimerExists(t)' <=> TimerExists(t)
      /\ \A t \in Timers : Timestamp'[t] = IF TimerExists(t) THEN Timestamp[t] - 1 ELSE 0
      /\ \A t \in Timers : left'[t] = IF left[t] = None THEN None ELSE left[t] - 1
  BY DEF Tick, TimerExists
<1>3. /\ \A t \in Timers : Timestamp[t] \in Int /\ left[t] \in Int \cup {None}
      /\ elapsed \in Nat /\ slip \in Nat /\ MaxSlip \in Nat /\ MIN_ALARM_DELAY \in Nat
      /\ arming # None => arming \in Nat \ {0}
      /\ alarm # None => alarm \in Nat \ {0}
  BY <1>1, TimerServerAssumption DEF TypeOK
<1>4. arming # None => /\ arming' = arming - 1 /\ slip' = slip + 1 /\ slip' <= MaxSlip
                       /\ arming' >= 1 /\ arming' + slip' >= MIN_ALARM_DELAY
  <2>1. SUFFICES ASSUME arming # None
                 PROVE  /\ arming' = arming - 1 /\ slip' = slip + 1 /\ slip' <= MaxSlip
                        /\ arming' >= 1 /\ arming' + slip' >= MIN_ALARM_DELAY
    OBVIOUS
  <2>2. Busy
    BY <2>1 DEF Busy
  <2>3. arming' = arming - 1 /\ slip' = slip + 1 /\ slip < MaxSlip
    BY <2>1, <2>2 DEF Tick
  <2>4. arming + slip >= MIN_ALARM_DELAY /\ 2 * MaxSlip < MIN_ALARM_DELAY
    BY <1>1, <2>1, TimerServerAssumption DEF SlipInv
  <2>5. QED
    BY <1>3, <2>1, <2>3, <2>4
<1>5. SlipInv'
  BY <1>4 DEF SlipInv, Tick
<1>6. TypeOK'
  <2>1. elapsed' \in Nat /\ slip' \in 0 .. MaxSlip
    BY <1>3 DEF Tick
  <2>2. arming' \in (Nat \ {0}) \cup {None}
    BY <1>3, <1>4 DEF Tick
  <2>3. alarm' \in (Nat \ {0}) \cup {None} /\ alarmFlag' \in BOOLEAN
    <3>1. CASE alarm = 1
      BY <3>1 DEF Tick
    <3>2. CASE alarm # 1
      BY <1>1, <1>3, <3>2 DEF Tick, TypeOK
    <3>3. QED
      BY <3>1, <3>2
  <2>4. Timestamp' \in [Timers -> Int] /\ left' \in [Timers -> Int \cup {None}]
    BY <1>3 DEF Tick
  <2>5. QED
    BY <1>1, <2>1, <2>2, <2>3, <2>4 DEF Tick, TypeOK
<1>7. ServerInv'
  <2>1. ServerType'
    BY <1>6 DEF ServerType, TypeOK
  <2>2. ListIsRunning'
    BY <1>1, <1>2 DEF ServerInv, ListIsRunning, Tick
  <2>3. PendingInv'
    BY <1>1 DEF ServerInv, PendingInv, Tick
  <2>4. LeftInv'
    <3>1. \A t \in Timers : left'[t] # None <=> left[t] # None
      BY <1>2, <1>3, TimerServerAssumption
    <3>2. \A t \in Timers : left'[t] # None <=> IsRunning'[t]
      BY <1>1, <3>1 DEF ServerInv, LeftInv, Tick
    <3>3. ASSUME NEW t \in Timers, TimerExists(t)' PROVE left'[t] <= Timestamp'[t]
      <4>1. TimerExists(t) /\ IsRunning[t] /\ left[t] # None /\ left[t] <= Timestamp[t]
        BY <1>1, <1>2, <3>3 DEF ServerInv, LeftInv, ListIsRunning
      <4>2. QED
        BY <1>2, <1>3, <4>1
    <3>4. QED
      BY <3>2, <3>3 DEF LeftInv
  <2>5. QED
    BY <2>1, <2>2, <2>3, <2>4 DEF ServerInv
<1>8. HeadInv'
  <2>1. SUFFICES ASSUME timerList' # <<>> PROVE HeadInv'
    BY DEF HeadInv
  <2> DEFINE h == Head(timerList)
  <2>2. timerList # <<>> /\ timerList' = timerList /\ timerList \in Seq(Timers)
    BY <1>1, <2>1 DEF Tick, TypeOK
  <2>3. h \in Timers /\ TimerExists(h)
    BY <2>2, ExistsAt
  <2>4. Head(timerList') = h
    BY <2>2
  <2> HIDE DEF h
  <2>5. Timestamp'[h] = Timestamp[h] - 1 /\ Timestamp[h] \in Int
    BY <1>2, <1>3, <2>3
  <2>6. ASSUME Armed PROVE Armed'
    <3>1. CASE arming # None
      BY <1>3, <1>4, <2>4, <2>5, <2>6, <3>1, TimerServerAssumption DEF Armed, h
    <3>2. CASE arming = None /\ alarmFlag
      <4>1. arming' = None /\ alarmFlag' /\ Timestamp[h] <= 0
        BY <2>6, <3>2 DEF Armed, Tick, h
      <4>2. QED
        BY <2>4, <2>5, <4>1 DEF Armed
    <3>3. CASE arming = None /\ ~alarmFlag
      <4>1. arming' = None /\ alarm # None /\ alarm = Timestamp[h]
        BY <2>6, <3>3 DEF Armed, Tick, h
      <4>2. CASE alarm = 1
        BY <2>4, <2>5, <4>1, <4>2 DEF Armed, Tick
      <4>3. CASE alarm # 1
        <5>1. alarm' = alarm - 1 /\ ~alarmFlag'
          BY <3>3, <4>1, <4>3 DEF Tick
        <5>2. alarm' # None
          BY <1>3, <4>1, <5>1, TimerServerAssumption
        <5>3. QED
          BY <2>4, <2>5, <4>1, <5>1, <5>2 DEF Armed
      <4>4. QED
        BY <4>2, <4>3
    <3>4. QED
      BY <1>1, <3>1, <3>2, <3>3 DEF TypeOK
  <2>7. ASSUME handler # "off", Expired(Timestamp[h])
        PROVE  Expired(Timestamp[h])'
    <3>1. elapsed' = elapsed + 1
      BY <2>7 DEF Tick
    <3>2. Timestamp[h] + elapsed = 0 \/ Timestamp[h] < 0
      BY <2>7 DEF Expired
    <3>3. Timestamp'[h] + elapsed' = 0 \/ Timestamp'[h] < 0
      BY <1>3, <2>5, <3>1, <3>2
    <3>4. h' = h
      BY <2>4 DEF h
    <3>5. QED
      BY <3>3, <3>4 DEF Expired
  <2>8. IsPending' = IsPending /\ handler' = handler /\ (arming = None => arming' = None)
    BY DEF Tick
  <2>9. QED
    BY <1>1, <2>2, <2>4, <2>6, <2>7, <2>8 DEF HeadInv, h
<1>9. HandlerInv'
  BY <1>1 DEF HandlerInv, Tick
<1>11. TodoInv'
  BY <1>1, <1>2, TodoKept DEF Tick
<1>12. QED
  BY <1>5, <1>6, <1>7, <1>8, <1>9, <1>11 DEF IInv

\* The alarm is set for what was asked: the time asked for has not passed.
LEMMA ProgramAlarmIInv == IInv /\ ProgramAlarm => IInv'
<1> SUFFICES ASSUME IInv, ProgramAlarm PROVE IInv'
  OBVIOUS
<1>1. TypeOK /\ ServerInv /\ HeadInv /\ SlipInv /\ HandlerInv /\ TodoInv
  BY DEF IInv
<1>2. /\ arming \in Nat \ {0} /\ alarm' = arming /\ alarm' # None /\ ~alarmFlag'
      /\ arming' = None /\ (slip' = slip \/ slip' = 0)
      /\ UNCHANGED <<timerList, Timestamp, IsPending, IsRunning, elapsed, handler, current, todo, left>>
  BY <1>1, TimerServerAssumption DEF ProgramAlarm, TypeOK, server
<1>3. TypeOK'
  <2>1. slip' \in 0 .. MaxSlip
    BY <1>1, <1>2, TimerServerAssumption DEF TypeOK
  <2>2. alarm' \in (Nat \ {0}) \cup {None} /\ alarmFlag' \in BOOLEAN
    BY <1>2 DEF ProgramAlarm
  <2>3. QED
    BY <1>1, <1>2, <2>1, <2>2 DEF TypeOK
<1>4. ServerInv'
  BY <1>1, <1>2 DEF ServerInv, ServerType, ListIsRunning, PendingInv, LeftInv, TimerExists
<1>5. HeadInv'
  BY <1>1, <1>2 DEF HeadInv, Armed
<1>6. SlipInv' /\ HandlerInv'
  BY <1>1, <1>2 DEF SlipInv, HandlerInv
<1>7. TodoInv'
  BY <1>1, <1>2, TodoKept DEF TimerExists
<1>8. QED
  BY <1>3, <1>4, <1>5, <1>6, <1>7 DEF IInv

\* What a critical section of the server leaves behind when the code around it
\* goes on.
LEMMA SectionIInv ==
  ASSUME IInv, ServerInv', AlarmSet \/ HeadKept, UNCHANGED <<handler, current, slip>>,
         elapsed' = elapsed \/ (timerList = <<>> /\ elapsed' = 0),
         alarm' \in (Nat \ {0}) \cup {None}, alarmFlag' \in BOOLEAN, TodoInv'
  PROVE  IInv'
<1>1. TypeOK /\ HeadInv /\ SlipInv /\ HandlerInv
  BY DEF IInv
<1>2. MIN_ALARM_DELAY \in Nat \ {0}
  BY TimerServerAssumption
<1>3. AlarmSet => arming' \in Nat \ {0}
  BY <1>2 DEF AlarmSet
<1>4. arming' \in (Nat \ {0}) \cup {None}
  BY <1>1, <1>3 DEF HeadKept, TypeOK
<1>5. TypeOK'
  BY <1>1, <1>4 DEF TypeOK, ServerInv, ServerType
<1>6. HeadInv'
  BY <1>1, HeadAfter
<1>7. SlipInv'
  <2>1. CASE AlarmSet
    <3>1. slip' \in Nat /\ arming' \in Nat /\ arming' >= MIN_ALARM_DELAY
      BY <1>1, <1>3, <2>1, TimerServerAssumption DEF AlarmSet, TypeOK
    <3>2. \A a, b, c \in Nat : a >= c => a + b >= c
      OBVIOUS
    <3>3. arming' + slip' >= MIN_ALARM_DELAY
      BY ONLY <1>2, <3>1, <3>2
    <3>4. QED
      BY <3>3 DEF SlipInv
  <2>2. CASE HeadKept
    BY <1>1, <2>2 DEF HeadKept, SlipInv
  <2>3. QED
    BY <2>1, <2>2
<1>8. HandlerInv'
  BY <1>1 DEF HandlerInv
<1>9. QED
  BY <1>5, <1>6, <1>7, <1>8 DEF IInv

\* UTIL_TIMER_Stop leaves the alarm as it is, or takes it away.
LEMMA StopAlarm ==
  ASSUME TypeOK, NEW t \in Timers, Stop(t)
  PROVE  alarm' \in (Nat \ {0}) \cup {None} /\ alarmFlag' \in BOOLEAN
<1>1. alarm' = alarm \/ alarm' = None
  BY DEF Stop
<1>2. alarmFlag' = alarmFlag \/ alarmFlag' = FALSE
  BY DEF Stop
<1>3. QED
  BY <1>1, <1>2 DEF Stop, TypeOK

\* The main loop's calls: what it looked up is still so when it inserts.
LEMMA MainIInv ==
  ASSUME IInv, MainStop \/ MainLook \/ MainInsert \/ (\E t \in Timers : StopTimer(t))
                 \/ (\E t \in Timers, p \in Periods : SetPeriodAndStart(t, p))
  PROVE  IInv'
<1>1. TypeOK /\ ServerInv /\ HeadInv /\ SlipInv /\ HandlerInv /\ TodoInv
  BY DEF IInv
<1> DEFINE c == Head(todo)
<1>2. todo # <<>> =>
        /\ c.timer \in Timers /\ c \in Calls(c.timer) \cup Insertions
        /\ Tail(todo) \in Seq(Calls(c.timer))
        /\ Tail(todo) # <<>> => c.timer \notin Starts[c.timer]
        /\ NoneStarts(c.timer)
        /\ c \in Insertions => ~TimerExists(c.timer)
  BY <1>1 DEF TodoInv
<1> HIDE DEF c
<1>3. /\ \A t \in Timers : IsRunning[t] <=> TimerExists(t)
      /\ IsRunning \in [Timers -> BOOLEAN]
  BY <1>1 DEF ServerInv, ServerType, ListIsRunning
<1>4. ASSUME UNCHANGED <<server, rtc, arming, handler, current, slip, left>>, TodoInv'
      PROVE  IInv'
  <2>1. ServerInv'
    BY <1>1, <1>4 DEF ServerInv, ServerType, ListIsRunning, PendingInv, LeftInv, TimerExists, server
  <2>2. HeadInv'
    BY <1>1, <1>4 DEF HeadInv, Armed, Expired, server, rtc
  <2>3. QED
    BY <1>1, <1>4, <2>1, <2>2 DEF IInv, TypeOK, SlipInv, HandlerInv, server, rtc
<1>5. ASSUME NEW t \in Timers, StopTimer(t) PROVE IInv'
  <2>1. Stop(t) /\ UNCHANGED <<handler, current, todo, slip>> /\ handler = "off"
    BY <1>5 DEF StopTimer, MainRuns
  <2>2. /\ ServerInv' /\ (AlarmSet \/ HeadKept)
        /\ \A u \in Timers : TimerExists(u)' <=> TimerExists(u) /\ u # t
    BY <1>1, <2>1, StopServer
  <2>3. \A u \in Timers : IsRunning'[u] => IsRunning[u]
    BY <1>3, <2>2 DEF ServerInv, ListIsRunning
  <2>4. TodoInv'
    BY <1>1, <2>1, <2>2, <2>3, TodoKept
  <2>5. alarm' \in (Nat \ {0}) \cup {None} /\ alarmFlag' \in BOOLEAN
    BY <1>1, <2>1, StopAlarm
  <2>6. elapsed' = elapsed
    BY <2>1 DEF Stop
  <2>7. QED
    BY <2>1, <2>2, <2>4, <2>5, <2>6, SectionIInv
<1>6. ASSUME NEW t \in Timers, NEW p \in Periods, SetPeriodAndStart(t, p) PROVE IInv'
  <2> DEFINE stop == Call("stop", t, p)
             look == Call("look", t, p)
  <2>1. stop \in Calls(t) /\ look \in Calls(t)
    BY DEF Call, Calls
  <2>2. /\ NoneStarts(t) /\ handler' = "off"
        /\ \/ TimerExists(t) /\ todo' = <<stop, look, look>>
           \/ todo' = <<look>>
    BY <1>6 DEF SetPeriodAndStart, MainRuns
  <2>3. stop.timer = t /\ look.timer = t /\ stop \notin Insertions /\ look \notin Insertions
    BY DEF Call, Insertions
  <2> HIDE DEF stop, look
  <2>4. /\ Head(<<stop, look, look>>) = stop /\ Tail(<<stop, look, look>>) = <<look, look>>
        /\ Head(<<look>>) = look /\ Tail(<<look>>) = <<>>
        /\ <<look, look>> \in Seq(Calls(t)) /\ <<>> \in Seq(Calls(t))
    BY <2>1
  <2>5. Tail(todo') \in Seq(Calls(t)) /\ Head(todo') \in {stop, look}
    BY <2>2, <2>4
  <2>6. Tail(todo') # <<>> => t \notin Starts[t]
    BY <1>3, <2>2, <2>4 DEF NoneStarts
  <2>7. NoneStarts(t)'
    BY <1>6, <2>2 DEF NoneStarts, SetPeriodAndStart, server
  <2>8. TodoInv'
    BY <2>1, <2>2, <2>3, <2>4, <2>5, <2>6, <2>7 DEF TodoInv
  <2>9. QED
    BY <1>4, <1>6, <2>8 DEF SetPeriodAndStart
<1>7. CASE MainLook
  <2> DEFINE i == [c EXCEPT !.op = "insert"]
  <2>1. todo # <<>> /\ c.op = "look" /\ c \in Calls(c.timer) \cup Insertions /\ handler' = "off"
    BY <1>2, <1>7 DEF MainLook, MainRuns, c
  <2>2. c \in [op : {"look"}, timer : Timers, period : Periods]
    BY <1>2, <2>1 DEF Calls, Insertions
  <2>3. i \in Insertions /\ i.timer = c.timer
    BY <2>2 DEF Insertions
  <2>4. UNCHANGED <<timerList, IsRunning>>
    BY <1>7 DEF MainLook, server
  <2> DEFINE t == c.timer
  <2>5. \A u \in Timers : IsRunning'[u] => t \notin Starts[u]
    BY <1>2, <2>1, <2>4 DEF NoneStarts
  <2>6. CASE MayStart(c.timer)
    <3>1. todo' = <<i>> \o Tail(todo) /\ ~TimerExists(c.timer)
      BY <1>7, <2>6 DEF MainLook, MayStart, c
    <3> HIDE DEF i
    <3>2. Tail(todo') = Tail(todo) /\ Head(todo') = i
      BY <1>2, <2>1, <3>1
    <3>3. t \notin ToSet(timerList')
      BY <2>4, <3>1 DEF TimerExists
    <3>4. /\ c.timer \in Timers /\ Tail(todo) \in Seq(Calls(c.timer))
          /\ Tail(todo) # <<>> => c.timer \notin Starts[c.timer]
      BY <1>2, <2>1
    <3>5. TodoInv'
      BY <2>1, <2>3, <2>5, <3>2, <3>3, <3>4 DEF TodoInv, NoneStarts, TimerExists
    <3>6. QED
      BY <1>4, <1>7, <3>5 DEF MainLook
  <2>7. CASE ~MayStart(c.timer)
    <3>1. TodoInv'
      BY <1>1, <1>7, <2>1, <2>5, <2>7, TodoTail DEF MainLook, c
    <3>2. QED
      BY <1>4, <1>7, <3>1 DEF MainLook
  <2>8. QED
    BY <2>6, <2>7
<1>8. CASE MainStop
  <2> DEFINE t == c.timer
  <2>1. Stop(t) /\ todo # <<>> /\ todo' = Tail(todo) /\ UNCHANGED <<handler, current, slip>>
        /\ handler' = "off"
    BY <1>8 DEF MainStop, MainRuns, c
  <2>2. t \in Timers /\ NoneStarts(t)
    BY <1>2, <2>1
  <2> HIDE DEF t
  <2>3. /\ ServerInv' /\ (AlarmSet \/ HeadKept)
        /\ \A u \in Timers : TimerExists(u)' <=> TimerExists(u) /\ u # t
    BY <1>1, <2>1, <2>2, StopServer
  <2>4. \A u \in Timers : IsRunning'[u] => IsRunning[u]
    BY <1>3, <2>3 DEF ServerInv, ListIsRunning
  <2>5. \A u \in Timers : IsRunning'[u] => t \notin Starts[u]
    BY <2>2, <2>4 DEF NoneStarts
  <2>6. TodoInv'
    BY <1>1, <2>1, <2>5, TodoTail DEF t, c
  <2>7. alarm' \in (Nat \ {0}) \cup {None} /\ alarmFlag' \in BOOLEAN
    BY <1>1, <2>1, <2>2, StopAlarm
  <2>8. elapsed' = elapsed
    BY <2>1 DEF Stop
  <2>9. QED
    BY <2>1, <2>3, <2>6, <2>7, <2>8, SectionIInv
<1>9. CASE MainInsert
  <2> DEFINE t == c.timer
             p == c.period
  <2>1. c \in Insertions /\ todo # <<>>
    BY <1>2, <1>9 DEF MainInsert, Calls, Insertions, c
  <2>2. t \in Timers /\ p \in Periods /\ ~TimerExists(t) /\ NoneStarts(t)
        /\ (Tail(todo) # <<>> => t \notin Starts[t])
    BY <1>2, <2>1 DEF Insertions
  <2>3. Insert(t, p) /\ todo' = Tail(todo) /\ handler' = "off"
        /\ UNCHANGED <<alarm, alarmFlag, handler, current, slip>>
    BY <1>9 DEF MainInsert, MainRuns, c
  <2> HIDE DEF t, p
  <2>4. ServerInv' /\ (AlarmSet \/ HeadKept)
    BY <1>1, <2>2, <2>3, InsertServer
  <2>5. Tail(todo) # <<>> => \A u \in Timers : IsRunning'[u] => t \notin Starts[u]
    <3>1. \A u \in Timers : IsRunning'[u] => IsRunning[u] \/ u = t
      BY <1>3, <2>2, <2>3 DEF Insert
    <3>2. QED
      BY <2>2, <3>1 DEF NoneStarts
  <2>6. TodoInv'
    BY <1>1, <2>1, <2>3, <2>5, TodoTail DEF t, c
  <2>7. elapsed' = elapsed \/ (timerList = <<>> /\ elapsed' = 0)
    BY <2>3 DEF Insert
  <2>8. alarm' \in (Nat \ {0}) \cup {None} /\ alarmFlag' \in BOOLEAN
    BY <1>1, <2>3 DEF TypeOK
  <2>9. QED
    BY <2>3, <2>4, <2>6, <2>7, <2>8, SectionIInv
<1>10. QED
  BY <1>5, <1>6, <1>7, <1>8, <1>9

\* The interrupt moves the time reference: a head whose alarm has matched is
\* expired then.
LEMMA IrqBeginIInv == IInv /\ IrqBegin => IInv'
<1> SUFFICES ASSUME IInv, IrqBegin PROVE IInv'
  OBVIOUS
<1>1. TypeOK /\ ServerInv /\ HeadInv /\ SlipInv /\ HandlerInv /\ TodoInv
  BY DEF IInv
<1>2. /\ alarmFlag /\ handler = "off" /\ arming = None /\ ~alarmFlag' /\ alarmFlag' \in BOOLEAN
      /\ handler' = "loop" /\ slip' = 0 /\ elapsed' = 0 /\ elapsed = 0
      /\ Timestamp' = [t \in Timers |-> Rebased(Timestamp[t])]
      /\ UNCHANGED <<timerList, IsPending, IsRunning, alarm, arming, current, todo, left>>
  BY <1>1 DEF IrqBegin, MainRuns, HandlerInv
<1>3. \A t \in Timers : /\ Timestamp[t] \in Int /\ Timestamp'[t] = Rebased(Timestamp[t])
                        /\ Timestamp'[t] \in Int /\ Timestamp'[t] >= Timestamp[t]
                        /\ Timestamp[t] <= 0 => Timestamp'[t] = 0
  BY <1>1, <1>2 DEF TypeOK, Rebased
<1>4. slip' \in 0 .. MaxSlip
  BY <1>2, TimerServerAssumption
<1>5. Timestamp' \in [Timers -> Int]
  BY <1>2, <1>3
<1>6. TypeOK'
  BY <1>1, <1>2, <1>4, <1>5 DEF TypeOK
<1>7. LeftInv'
  <2>1. \A t \in Timers : TimerExists(t)' <=> TimerExists(t)
    BY <1>2 DEF TimerExists
  <2>2. ASSUME NEW t \in Timers, TimerExists(t)' PROVE left'[t] <= Timestamp'[t]
    <3>1. left[t] \in Int /\ left[t] <= Timestamp[t]
      BY <1>1, <2>1, <2>2 DEF ServerInv, LeftInv, ListIsRunning, TypeOK
    <3>2. QED
      BY <1>2, <1>3, <3>1
  <2>3. QED
    BY <1>1, <1>2, <2>2 DEF ServerInv, LeftInv
<1>8. ServerInv'
  BY <1>1, <1>2, <1>6, <1>7 DEF ServerInv, ServerType, ListIsRunning, PendingInv, TimerExists, TypeOK
<1>9. HeadInv'
  <2>1. SUFFICES ASSUME timerList # <<>> PROVE HeadInv'
    BY <1>2 DEF HeadInv
  <2>2. Head(timerList) \in Timers /\ Head(timerList') = Head(timerList)
    BY <1>1, <1>2, <2>1 DEF TypeOK
  <2>3. Timestamp[Head(timerList)] <= 0
    BY <1>1, <1>2, <2>1 DEF HeadInv, Armed
  <2>4. Timestamp'[Head(timerList')] = 0
    BY <1>3, <2>2, <2>3
  <2>5. Expired(Timestamp[Head(timerList)])'
    BY <1>2, <2>4 DEF Expired
  <2>6. QED
    BY <1>2, <2>5 DEF HeadInv
<1>10. SlipInv' /\ HandlerInv'
  BY <1>1, <1>2 DEF SlipInv, HandlerInv
<1>11. TodoInv'
  BY <1>1, <1>2, TodoKept DEF TimerExists
<1>12. QED
  BY <1>6, <1>8, <1>9, <1>10, <1>11 DEF IInv

\* The handler takes the expired head out of the list; the one behind it is not
\* pending, so it is not taken for one that has an alarm.
LEMMA IrqExpireIInv == IInv /\ IrqExpire => IInv'
<1> SUFFICES ASSUME IInv, IrqExpire PROVE IInv'
  OBVIOUS
<1>1. TypeOK /\ ServerInv /\ HeadInv /\ SlipInv /\ HandlerInv /\ TodoInv
  BY DEF IInv
<1> DEFINE t == Head(timerList)
<1>2. timerList # <<>> /\ timerList \in Seq(Timers) /\ t = timerList[1] /\ t \in Timers
  BY <1>1 DEF IrqExpire, TypeOK
<1>3. /\ timerList' = Tail(timerList)
      /\ Timestamp' = [Timestamp EXCEPT ![t] = 0]
      /\ IsPending' = [IsPending EXCEPT ![t] = FALSE]
      /\ IsRunning' = [IsRunning EXCEPT ![t] = FALSE]
      /\ left' = [left EXCEPT ![t] = None]
      /\ current' = t /\ handler = "loop" /\ handler' = "callback" /\ slip' = 0 /\ arming = None
      /\ UNCHANGED <<elapsed, alarm, alarmFlag, arming, todo>>
  BY DEF IrqExpire, Cleared, rtc
<1> HIDE DEF t
<1>4. /\ timerList' \in Seq(Timers) /\ Len(timerList') = Len(timerList) - 1
      /\ Len(timerList) \in Nat
      /\ \A i \in 1 .. Len(timerList') : timerList'[i] = timerList[i + 1]
  BY <1>2, <1>3
<1>5. /\ Distinct(timerList)
      /\ \A u \in Timers : IsRunning[u] <=> TimerExists(u)
      /\ \A u \in Timers : left[u] # None <=> IsRunning[u]
      /\ \A u \in Timers : TimerExists(u) => left[u] <= Timestamp[u]
      /\ \A i \in 2 .. Len(timerList) : ~IsPending[timerList[i]]
  BY <1>1, <1>2 DEF ServerInv, ListIsRunning, LeftInv, PendingInv, Distinct
<1>6. \A i \in 1 .. Len(timerList') :
        /\ i + 1 \in 2 .. Len(timerList) /\ timerList'[i] \in Timers /\ timerList'[i] # t
  <2>1. \A i \in 2 .. Len(timerList) : timerList[i] # t
    BY <1>2, <1>4, <1>5 DEF Distinct
  <2>2. QED
    BY <1>2, <1>4, <2>1
<1>7. ASSUME NEW u \in Timers
      PROVE  TimerExists(u)' <=> TimerExists(u) /\ u # t
  <2>1. TimerExists(u)' <=> \E i \in 1 .. Len(timerList') : timerList'[i] = u
    BY <1>4 DEF TimerExists, ToSet
  <2>2. TimerExists(u) <=> \E i \in 1 .. Len(timerList) : timerList[i] = u
    BY <1>2, ExistsAt
  <2>3. TimerExists(u)' => TimerExists(u) /\ u # t
    BY <1>4, <1>6, <2>1, <2>2
  <2>4. ASSUME NEW i \in 1 .. Len(timerList), timerList[i] = u, u # t
        PROVE  \E j \in 1 .. Len(timerList') : timerList'[j] = u
    <3>1. i - 1 \in 1 .. Len(timerList') /\ (i - 1) + 1 = i
      BY <1>2, <1>4, <2>4
    <3>2. QED
      BY <1>4, <2>4, <3>1
  <2>5. QED
    BY <2>1, <2>2, <2>3, <2>4
<1>8. Distinct(timerList')
  <2>1. SUFFICES ASSUME NEW i \in 1 .. Len(timerList'), NEW j \in 1 .. Len(timerList'),
                        timerList'[i] = timerList'[j]
                 PROVE  i = j
    BY DEF Distinct
  <2>2. timerList[i + 1] = timerList[j + 1] /\ i + 1 \in 1 .. Len(timerList)
        /\ j + 1 \in 1 .. Len(timerList)
    BY <1>4, <1>6, <2>1
  <2>3. i + 1 = j + 1
    BY <1>5, <2>2 DEF Distinct
  <2>4. QED
    BY <1>4, <2>3
<1>9. slip' \in 0 .. MaxSlip
  BY <1>3, TimerServerAssumption
<1>10. TypeOK'
  BY <1>1, <1>2, <1>3, <1>4, <1>9 DEF TypeOK
<1>11. /\ \A u \in Timers : IsRunning'[u] <=> IsRunning[u] /\ u # t
       /\ \A u \in Timers : left'[u] = IF u = t THEN None ELSE left[u]
       /\ \A u \in Timers : u # t => Timestamp'[u] = Timestamp[u] /\ IsPending'[u] = IsPending[u]
  BY <1>1, <1>3 DEF TypeOK
<1>12. ListIsRunning'
  <2>1. \A u \in Timers : IsRunning'[u] <=> TimerExists(u)'
    BY <1>5, <1>7, <1>11
  <2>2. DOMAIN timerList' = 1 .. Len(timerList')
    BY <1>4
  <2>3. QED
    BY <1>8, <2>1, <2>2 DEF ListIsRunning, Distinct
<1>13. \A i \in 1 .. Len(timerList') : ~IsPending'[timerList'[i]]
  BY <1>4, <1>5, <1>6, <1>11
<1>14. ServerInv'
  <2>1. PendingInv'
    BY <1>4, <1>13 DEF PendingInv
  <2>2. LeftInv'
    BY <1>5, <1>7, <1>11 DEF LeftInv
  <2>3. QED
    BY <1>10, <1>12, <2>1, <2>2 DEF ServerInv, ServerType, TypeOK
<1>15. HeadInv'
  <2>1. timerList' # <<>> => ~IsPending'[Head(timerList')]
    BY <1>4, <1>13
  <2>2. QED
    BY <1>3, <2>1 DEF HeadInv
<1>16. SlipInv' /\ HandlerInv'
  BY <1>1, <1>2, <1>3, TimerServerAssumption DEF SlipInv, HandlerInv
<1>17. TodoInv'
  <2>1. SUFFICES ASSUME todo # <<>> PROVE TodoInv'
    BY <1>3 DEF TodoInv
  <2> DEFINE m == Head(todo).timer
  <2>2. m \in Timers /\ \A u \in Timers : IsRunning[u] => m \notin Starts[u]
    BY <1>1, <2>1 DEF TodoInv, NoneStarts
  <2>3. \A u \in Timers : IsRunning'[u] => m \notin Starts[u]
    BY <1>11, <2>2
  <2>4. IsRunning[t]
    BY <1>2, <1>4, <1>5, ExistsAt
  <2>5. NoneStarts(m)'
    BY <1>3, <2>3 DEF NoneStarts
  <2>6. m \notin Starts[current']
    BY <1>2, <1>3, <2>2, <2>4
  <2>7. QED
    BY <1>1, <1>3, <1>7, <2>2, <2>5, <2>6, TodoAfter
<1>18. QED
  BY <1>10, <1>14, <1>15, <1>16, <1>17 DEF IInv

\* A callback stops a timer, or starts one that the main loop is not about to start.
LEMMA CallbackIInv == IInv /\ (CallbackStop \/ CallbackStart \/ CallbackReturn) => IInv'
<1> SUFFICES ASSUME IInv, CallbackStop \/ CallbackStart \/ CallbackReturn PROVE IInv'
  OBVIOUS
<1>1. TypeOK /\ ServerInv /\ HeadInv /\ SlipInv /\ HandlerInv /\ TodoInv
  BY DEF IInv
<1>2. handler = "callback" /\ arming = None /\ current \in Timers
  BY <1>1, TimerServerAssumption DEF CallbackStop, CallbackStart, CallbackReturn, HandlerInv, TypeOK
<1>3. CASE CallbackReturn
  <2>1. /\ UNCHANGED <<timerList, Timestamp, IsPending, IsRunning, elapsed, alarm, alarmFlag, arming,
                       todo, slip, left>>
        /\ handler' = "loop" /\ current' = None
    BY <1>3 DEF CallbackReturn, server, rtc
  <2>2. ServerInv'
    BY <1>1, <2>1 DEF ServerInv, ServerType, ListIsRunning, PendingInv, LeftInv, TimerExists
  <2>3. HeadInv'
    BY <1>1, <1>2, <2>1 DEF HeadInv, Armed, Expired
  <2>4. TodoInv'
    BY <1>1, <2>1, TodoKept DEF TimerExists
  <2>5. QED
    BY <1>1, <2>1, <2>2, <2>3, <2>4 DEF IInv, TypeOK, SlipInv, HandlerInv
<1>4. CASE CallbackStop
  <2>1. PICK t \in Timers : Stop(t)
    BY <1>4 DEF CallbackStop
  <2>2. UNCHANGED <<handler, current, todo, slip>>
    BY <1>4 DEF CallbackStop
  <2>3. /\ ServerInv' /\ (AlarmSet \/ HeadKept)
        /\ \A u \in Timers : TimerExists(u)' <=> TimerExists(u) /\ u # t
    BY <1>1, <2>1, StopServer
  <2>4. \A u \in Timers : IsRunning'[u] => IsRunning[u]
    BY <1>1, <2>3 DEF ServerInv, ListIsRunning
  <2>5. TodoInv'
    BY <1>1, <2>2, <2>3, <2>4, TodoKept
  <2>6. alarm' \in (Nat \ {0}) \cup {None} /\ alarmFlag' \in BOOLEAN
    BY <1>1, <2>1, StopAlarm
  <2>7. elapsed' = elapsed
    BY <2>1 DEF Stop
  <2>8. QED
    BY <2>2, <2>3, <2>5, <2>6, <2>7, SectionIInv
<1>5. CASE CallbackStart
  <2>1. PICK t \in Starts[current], p \in Periods : MayStart(t) /\ Insert(t, p)
    BY <1>5 DEF CallbackStart
  <2>2. UNCHANGED <<alarm, alarmFlag, handler, current, todo, slip>>
    BY <1>5 DEF CallbackStart
  <2>3. t \in Timers /\ ~TimerExists(t)
    BY <1>2, <2>1, TimerServerAssumption DEF MayStart
  <2>4. ServerInv' /\ (AlarmSet \/ HeadKept)
        /\ \A u \in Timers : TimerExists(u)' <=> TimerExists(u) \/ u = t
    BY <1>1, <2>1, <2>2, <2>3, InsertServer
  <2>5. TodoInv'
    <3>1. SUFFICES ASSUME todo # <<>> PROVE TodoInv'
      BY <2>2 DEF TodoInv
    <3> DEFINE m == Head(todo).timer
    <3>2. /\ m \in Timers /\ m \notin Starts[current]
          /\ \A u \in Timers : IsRunning[u] => m \notin Starts[u]
      BY <1>1, <1>2, <3>1 DEF TodoInv, NoneStarts
    <3>3. m # t /\ m \notin Starts[t]
      BY <1>2, <2>1, <2>3, <3>2, TimerServerAssumption
    <3>4. \A u \in Timers : IsRunning'[u] => IsRunning[u] \/ u = t
      BY <1>1, <2>4 DEF ServerInv, ListIsRunning
    <3>5. \A u \in Timers : IsRunning'[u] => m \notin Starts[u]
      BY <3>2, <3>3, <3>4
    <3>6. NoneStarts(m)'
      BY <2>2, <3>5 DEF NoneStarts
    <3>7. m' = m
      BY <2>2
    <3> HIDE DEF m
    <3>8. TimerExists(m)' => TimerExists(m)
      BY <2>4, <3>2, <3>3, <3>7 DEF TimerExists
    <3>9. m \notin Starts[current']
      BY <2>2, <3>2
    <3>10. QED
      BY <1>1, <2>2, <3>6, <3>8, <3>9, TodoAfter DEF m
  <2>6. elapsed' = elapsed \/ (timerList = <<>> /\ elapsed' = 0)
    BY <2>1 DEF Insert
  <2>7. alarm' \in (Nat \ {0}) \cup {None} /\ alarmFlag' \in BOOLEAN
    BY <1>1, <2>2 DEF TypeOK
  <2>8. QED
    BY <2>2, <2>4, <2>5, <2>6, <2>7, SectionIInv
<1>6. QED
  BY <1>3, <1>4, <1>5

\* The handler ends with an alarm for a head that has none.
LEMMA IrqEndIInv == IInv /\ IrqEnd => IInv'
<1> SUFFICES ASSUME IInv, IrqEnd PROVE IInv'
  OBVIOUS
<1>1. TypeOK /\ ServerInv /\ HeadInv /\ SlipInv /\ HandlerInv /\ TodoInv
  BY DEF IInv
<1>2. /\ handler = "loop" /\ arming = None /\ handler' = "off" /\ elapsed' = 0 /\ slip' = 0
      /\ timerList # <<>> => ~Expired(Timestamp[Head(timerList)])
      /\ UNCHANGED <<timerList, IsRunning, alarm, alarmFlag, current, todo, left>>
  BY DEF IrqEnd
<1>3. slip' \in 0 .. MaxSlip /\ HandlerInv' /\ TodoInv'
  <2>1. TodoInv'
    BY <1>1, <1>2, TodoKept DEF TimerExists
  <2>2. QED
    BY <1>1, <1>2, <2>1, TimerServerAssumption DEF HandlerInv
<1>4. \A u \in Timers : TimerExists(u)' <=> TimerExists(u)
  BY <1>2 DEF TimerExists
<1>5. CASE ~(timerList # <<>> /\ ~IsPending[Head(timerList)])
  <2>1. UNCHANGED <<IsPending, Timestamp, arming>>
    BY <1>5 DEF IrqEnd
  <2>2. TypeOK'
    BY <1>1, <1>2, <1>3, <2>1 DEF TypeOK
  <2>3. ServerInv'
    BY <1>1, <1>2, <2>1 DEF ServerInv, ServerType, ListIsRunning, PendingInv, LeftInv, TimerExists
  <2>4. HeadInv'
    BY <1>1, <1>2, <1>5, <2>1 DEF HeadInv, Armed
  <2>5. QED
    BY <1>2, <1>3, <2>1, <2>2, <2>3, <2>4 DEF IInv, SlipInv
<1>6. CASE timerList # <<>> /\ ~IsPending[Head(timerList)]
  <2> DEFINE h == Head(timerList)
             at == NotTooSoon(Timestamp[h])
  <2>1. h \in Timers /\ h = timerList[1] /\ 1 \in 1 .. Len(timerList) /\ Len(timerList) \in Nat
    BY <1>1, <1>6 DEF TypeOK
  <2>2. /\ Timestamp' = [Timestamp EXCEPT ![h] = at]
        /\ IsPending' = [IsPending EXCEPT ![h] = TRUE]
        /\ arming' = at
    BY <1>6 DEF IrqEnd, SetTimeout
  <2>3. Head(timerList') = h
    BY <1>2
  <2>4. at \in Nat \ {0} /\ at >= MIN_ALARM_DELAY /\ at >= Timestamp[h] /\ at # None
    BY <1>1, <2>1, TimerServerAssumption DEF TypeOK, NotTooSoon
  <2> HIDE DEF h, at
  <2>5. /\ Timestamp' \in [Timers -> Int] /\ Timestamp'[h] = at
        /\ \A u \in Timers : u # h => Timestamp'[u] = Timestamp[u]
    BY <1>1, <2>1, <2>2, <2>4 DEF TypeOK
  <2>6. /\ IsPending' \in [Timers -> BOOLEAN]
        /\ \A u \in Timers : u # h => IsPending'[u] = IsPending[u]
    BY <1>1, <2>1, <2>2 DEF TypeOK
  <2>7. TypeOK'
    BY <1>1, <1>2, <1>3, <2>2, <2>4, <2>5, <2>6 DEF TypeOK
  <2>8. PendingInv'
    <3>1. \A i \in 2 .. Len(timerList) : timerList[i] \in Timers /\ timerList[i] # h
                                         /\ ~IsPending[timerList[i]]
      BY <1>1, <2>1 DEF ServerInv, ListIsRunning, PendingInv, TypeOK
    <3>2. QED
      BY <1>2, <2>6, <3>1 DEF PendingInv
  <2>9. LeftInv'
    <3>1. ASSUME NEW u \in Timers, TimerExists(u)' PROVE left'[u] <= Timestamp'[u]
      <4>1. left[u] \in Int /\ left[u] <= Timestamp[u] /\ Timestamp[u] \in Int
        BY <1>1, <1>4, <3>1 DEF ServerInv, LeftInv, ListIsRunning, TypeOK
      <4>2. CASE u = h
        BY <1>2, <2>4, <2>5, <4>1, <4>2
      <4>3. CASE u # h
        BY <1>2, <2>5, <4>1, <4>3
      <4>4. QED
        BY <4>2, <4>3
    <3>2. QED
      BY <1>1, <1>2, <3>1 DEF ServerInv, LeftInv
  <2>10. ServerInv'
    BY <1>1, <1>2, <2>7, <2>8, <2>9 DEF ServerInv, ServerType, ListIsRunning, TimerExists, TypeOK
  <2>11. HeadInv'
    BY <1>2, <2>2, <2>3, <2>4, <2>5 DEF HeadInv, Armed
  <2>12. SlipInv'
    BY <1>2, <2>2, <2>4, TimerServerAssumption DEF SlipInv
  <2>13. QED
    BY <1>3, <2>7, <2>10, <2>11, <2>12 DEF IInv
<1>7. QED
  BY <1>5, <1>6

\* Every step of the server keeps the invariant.
LEMMA NextIInv == IInv /\ [Next]_vars => IInv'
<1> SUFFICES ASSUME IInv, [Next]_vars PROVE IInv'
  OBVIOUS
<1>1. CASE Tick
  BY <1>1, TickIInv
<1>2. CASE ProgramAlarm
  BY <1>2, ProgramAlarmIInv
<1>3. CASE MainStop \/ MainLook \/ MainInsert \/ (\E t \in Timers : StopTimer(t))
             \/ (\E t \in Timers, p \in Periods : SetPeriodAndStart(t, p))
  BY <1>3, MainIInv
<1>4. CASE IrqBegin
  BY <1>4, IrqBeginIInv
<1>5. CASE IrqExpire
  BY <1>5, IrqExpireIInv
<1>6. CASE CallbackStop \/ CallbackStart \/ CallbackReturn
  BY <1>6, CallbackIInv
<1>7. CASE IrqEnd
  BY <1>7, IrqEndIInv
<1>8. CASE UNCHANGED vars
  <2>1. UNCHANGED <<elapsed, timerList, Timestamp, IsPending, IsRunning, alarm, alarmFlag, arming,
                    handler, current, todo, slip, left>>
    BY <1>8 DEF vars, server, rtc
  <2>2. ServerInv'
    BY <2>1 DEF IInv, ServerInv, ServerType, ListIsRunning, PendingInv, LeftInv, TimerExists
  <2>3. HeadInv'
    BY <2>1 DEF IInv, HeadInv, Armed, Expired
  <2>4. TypeOK' /\ SlipInv' /\ HandlerInv'
    BY <2>1 DEF IInv, TypeOK, SlipInv, HandlerInv
  <2>5. TodoInv'
    BY <2>1, TodoKept DEF IInv, TimerExists
  <2>6. QED
    BY <2>2, <2>3, <2>4, <2>5 DEF IInv
<1>9. QED
  BY <1>1, <1>2, <1>3, <1>4, <1>5, <1>6, <1>7, <1>8 DEF Next

--------------------------------------------------------------------------
(* What the server guarantees. *)

\* The data of the timer server stays consistent: list, flags, alarm, the
\* handler's place and the main loop's calls agree in every state.
THEOREM InvariantHolds == Spec => []IInv
  BY InitIInv, NextIInv, PTL DEF Spec

\* Every variable of the timer server stays in its type.
THEOREM TypeCorrect == Spec => []TypeOK
<1>1. IInv => TypeOK
  BY DEF IInv
<1>2. QED
  BY <1>1, InvariantHolds, PTL

\* Between its steps the timer server has an alarm for the head of the list.
THEOREM AlarmHolds == Spec => []AlarmForHead
<1>1. IInv => AlarmForHead
  BY DEF IInv, HeadInv, Armed, AlarmForHead, MainRuns
<1>2. QED
  BY <1>1, InvariantHolds, PTL

\* The list of UTIL_TIMER_Start and UTIL_TIMER_Stop holds each running timer once.
\* Main loop and callbacks may start the same timers: if the main loop begins to
\* start one only while no timer runs whose callback starts it, as the MAC's busy
\* state has it, no callback starts it between the look at the list and the insertion.
THEOREM ListHolds == Spec => []ListIsRunning
<1>1. IInv => ListIsRunning
  BY DEF IInv, ServerInv
<1>2. QED
  BY <1>1, InvariantHolds, PTL

\* Each step of the server starts, stops or fires at most one timer, the way
\* TimerService lets it.
LEMMA ServiceStep == IInv /\ [Next]_vars => [Service!Next]_<<left, current>>
<1> SUFFICES ASSUME IInv, Next PROVE [Service!Next]_<<left, current>>
  BY DEF vars
<1>1. TypeOK /\ ServerInv /\ HandlerInv /\ TodoInv
  BY DEF IInv
<1>2. todo # <<>> => /\ Head(todo).timer \in Timers
                      /\ Head(todo) \in Calls(Head(todo).timer) \cup Insertions
  BY <1>1 DEF TodoInv
<1>3. ASSUME NEW t \in Timers, ~TimerExists(t) PROVE left[t] = None
  BY <1>1, <1>3 DEF ServerInv, LeftInv, ListIsRunning
<1>4. CASE Tick
  <2>1. Service!Tick
    BY <1>4 DEF Tick, Service!Tick, Service!Running
  <2>2. QED
    BY <2>1 DEF Service!Next
<1>5. CASE ProgramAlarm \/ MainLook \/ IrqBegin \/ IrqEnd
  BY <1>5 DEF ProgramAlarm, MainLook, IrqBegin, IrqEnd
<1>6. CASE \E t \in Timers, p \in Periods : SetPeriodAndStart(t, p)
  BY <1>6 DEF SetPeriodAndStart
<1>7. ASSUME NEW t \in Timers, StopTimer(t) PROVE Service!Next
  <2>1. Service!Stop(t)
    BY <1>7 DEF StopTimer, Stop, Service!Stop
  <2>2. QED
    BY <2>1 DEF Service!Next
<1>8. CASE MainStop
  <2>1. Head(todo).timer \in Timers
    BY <1>2, <1>8 DEF MainStop
  <2>2. Service!Stop(Head(todo).timer)
    BY <1>8 DEF MainStop, Stop, Service!Stop
  <2>3. QED
    BY <2>1, <2>2 DEF Service!Next
<1>9. CASE MainInsert
  <2> DEFINE t == Head(todo).timer
             p == Head(todo).period
  <2>1. Head(todo) \in Insertions
    BY <1>2, <1>9 DEF MainInsert, Calls, Insertions
  <2>2. t \in Timers /\ p \in Periods /\ ~TimerExists(t)
    BY <1>1, <1>9, <2>1 DEF MainInsert, Insertions, TodoInv
  <2>3. left' = [left EXCEPT ![t] = MinimumTicks(p)] /\ current' = current
    BY <1>9 DEF MainInsert, Insert
  <2> HIDE DEF t, p
  <2>4. Service!Start(t, MinimumTicks(p))
    BY <1>3, <2>2, <2>3 DEF Service!Start, Service!Running
  <2>5. QED
    BY <2>2, <2>4 DEF Service!Next
<1>10. CASE IrqExpire
  <2> DEFINE t == Head(timerList)
  <2>1. timerList # <<>> /\ t \in Timers /\ TimerExists(t) /\ Expired(Timestamp[t])
        /\ handler = "loop" /\ left' = [left EXCEPT ![t] = None] /\ current' = t
    <3>1. timerList # <<>> /\ timerList \in Seq(Timers)
      BY <1>1, <1>10 DEF IrqExpire, TypeOK
    <3>2. t \in Timers /\ t = timerList[1] /\ 1 \in 1 .. Len(timerList)
      BY <3>1
    <3>3. TimerExists(t)
      BY <3>1, <3>2, ExistsAt
    <3>4. QED
      BY <1>10, <3>1, <3>2, <3>3 DEF IrqExpire
  <2> HIDE DEF t
  <2>2. left[t] # None /\ left[t] \in Int /\ left[t] <= Timestamp[t] /\ Timestamp[t] \in Int
    BY <1>1, <2>1 DEF ServerInv, LeftInv, ListIsRunning, TypeOK
  <2>3. Timestamp[t] <= 0
    BY <1>1, <2>1, <2>2 DEF Expired, TypeOK
  <2>4. left[t] <= 0
    BY <2>2, <2>3
  <2>5. current = None
    BY <1>1, <2>1 DEF HandlerInv
  <2>6. Service!Fire(t)
    BY <2>1, <2>2, <2>4, <2>5 DEF Service!Fire, Service!Running
  <2>7. QED
    BY <2>1, <2>6 DEF Service!Next
<1>11. CASE CallbackStop \/ CallbackStart \/ CallbackReturn
  <2>1. CASE CallbackReturn
    <3>1. current # None /\ current' = None /\ left' = left
      BY <1>1, <2>1 DEF CallbackReturn, HandlerInv
    <3>2. QED
      BY <3>1 DEF Service!Next, Service!Return
  <2>2. CASE CallbackStop
    <3>1. PICK t \in Timers : Stop(t)
      BY <2>2 DEF CallbackStop
    <3>2. Service!Stop(t)
      BY <2>2, <3>1 DEF CallbackStop, Stop, Service!Stop
    <3>3. QED
      BY <3>2 DEF Service!Next
  <2>3. CASE CallbackStart
    <3>1. PICK t \in Starts[current], p \in Periods : MayStart(t) /\ Insert(t, p)
      BY <2>3 DEF CallbackStart
    <3>2. t \in Timers
      <4>1. current \in Timers
        BY <1>1, <2>3 DEF CallbackStart, HandlerInv, TypeOK
      <4>2. QED
        BY <3>1, <4>1, TimerServerAssumption
    <3>3. /\ left[t] = None /\ left' = [left EXCEPT ![t] = MinimumTicks(p)]
          /\ current' = current
      BY <1>3, <2>3, <3>1, <3>2 DEF CallbackStart, MayStart, Insert
    <3>4. Service!Start(t, MinimumTicks(p))
      BY <3>3 DEF Service!Start, Service!Running
    <3>5. QED
      BY <3>1, <3>2, <3>4 DEF Service!Next
  <2>4. QED
    BY <1>11, <2>1, <2>2, <2>3
<1>12. QED
  BY <1>4, <1>5, <1>6, <1>8, <1>9, <1>10, <1>11, <1>7 DEF Next

\* UTIL_TIMER_IRQ_Handler, UTIL_TIMER_Start and UTIL_TIMER_Stop keep the promise of
\* the timer service: a timer fires once, not before its time, and not after it was
\* stopped.
THEOREM RefinementHolds == Spec => ImplementsService
<1>1. Init => Service!Init
  BY DEF Init, Service!Init
<1>2. QED
  BY <1>1, InvariantHolds, ServiceStep, PTL DEF Spec, ImplementsService, Service!Spec

--------------------------------------------------------------------------
(* How late a timer can be. *)

\* The timestamp at a place of the list, and the time its timer has to run.
Stamp(i) == Timestamp[timerList[i]]
Due(i) == left[timerList[i]]

\* What the timers before a place may cost the timer there.
Stage(i) == (i - 1) * (MIN_ALARM_DELAY + MaxSlip)

\* The alarm is the head's. While the handler runs it is too far away to match.
AlarmInv ==
  /\ alarmFlag => alarm = None /\ handler = "off"
  /\ handler = "loop" => arming = None
  /\ handler # "off" /\ alarm # None => alarm + slip > MaxSlip
  /\ handler # "off" /\ alarm # None /\ arming = None =>
       timerList # <<>> /\ IsPending[timerList[1]] /\ alarm = Stamp(1)
  /\ handler = "off" /\ alarmFlag /\ arming = None /\ timerList # <<>> =>
       Stamp(1) + slip >= 0
  /\ arming # None => timerList # <<>> /\ IsPending[timerList[1]] /\ arming = Stamp(1)

\* The timers behind the head are in order, and only a head that was put off to
\* MIN_ALARM_DELAY may be behind the next.
OrderInv ==
  /\ \A i, j \in 2 .. Len(timerList) : i <= j => Stamp(i) <= Stamp(j)
  /\ Len(timerList) > 1 => Stamp(1) <= MIN_ALARM_DELAY \/ Stamp(1) <= Stamp(2)

\* A timestamp is the time its timer has to run, but for a timer whose time has
\* come and a head that was put off to MIN_ALARM_DELAY.
ExactInv ==
  \A i \in 1 .. Len(timerList) :
    \/ Due(i) = Stamp(i)
    \/ Stamp(i) + elapsed <= 0
    \/ i = 1 /\ Stamp(1) <= MIN_ALARM_DELAY

\* The ticks in which the head is out of the list: its alarm matches, is served
\* and the handler takes it out, or the handler first sets that alarm.
Rest ==
  IF handler = "off" \/ arming # None \/ alarm # None THEN Stamp(1) + 2 * MaxSlip
  ELSE IF Expired(Stamp(1))
       THEN IF handler = "callback" THEN 2 * MaxSlip - slip ELSE MaxSlip - slip
  ELSE NotTooSoon(Stamp(1)) + 3 * MaxSlip - slip

\* By the time the head is out, no timer is later than what the timers that were
\* before it may have cost it.
DelayInv == \A i \in 1 .. Len(timerList) : Due(i) + MaxLate >= Rest + Stage(i)

LateInv == IInv /\ AlarmInv /\ OrderInv /\ ExactInv /\ DelayInv

\* The slips and the shortest alarm are numbers, and an alarm outlasts two slips.
LEMMA SlipFacts ==
  /\ MIN_ALARM_DELAY \in Int /\ MaxSlip \in Int /\ MaxSlip >= 0
  /\ 2 * MaxSlip < MIN_ALARM_DELAY
  /\ None \notin Int
BY TimerServerAssumption

\* Each place costs the shortest alarm and a slip more than the one before it.
LEMMA StageFacts ==
  ASSUME NEW i \in Nat, i >= 1
  PROVE  /\ Stage(i) \in Int /\ Stage(1) = 0 /\ Stage(i) >= 0
         /\ Stage(i + 1) = Stage(i) + MIN_ALARM_DELAY + MaxSlip
         /\ \A j \in Nat : i <= j => Stage(i) <= Stage(j)
<1> DEFINE K == MIN_ALARM_DELAY + MaxSlip
<1>1. K \in Nat
  BY TimerServerAssumption
<1>2. \A n \in Nat : Stage(n) = (n - 1) * K
  BY DEF Stage
<1>3. MIN_ALARM_DELAY \in Int /\ MaxSlip \in Int /\ K = MIN_ALARM_DELAY + MaxSlip
  BY TimerServerAssumption
<1> HIDE DEF K
<1>4. \A n \in Nat : n * K \in Nat
  BY <1>1
<1>5. Stage(1) = 0
  BY <1>1, <1>2
<1>6. i - 1 \in Nat /\ Stage(i) \in Nat
  BY <1>2, <1>4
<1>7. Stage(i + 1) = Stage(i) + K
  BY <1>1, <1>2
<1>8. ASSUME NEW j \in Nat, i <= j PROVE Stage(i) <= Stage(j)
  <2>1. j - i \in Nat /\ (j - i) * K \in Nat
    BY <1>4, <1>8
  <2>2. (j - 1) * K = (i - 1) * K + (j - i) * K
    BY <1>1
  <2>3. QED
    BY <1>2, <1>4, <1>6, <2>1, <2>2
<1>9. QED
  BY <1>3, <1>5, <1>6, <1>7, <1>8

\* A list without repetition is no longer than there are timers.
LEMMA DistinctLength ==
  ASSUME NEW s \in Seq(Timers), Distinct(s)
  PROVE  Len(s) \in Nat /\ Cardinality(Timers) \in Nat /\ Len(s) <= Cardinality(Timers)
<1>1. IsFiniteSet(Timers)
  BY TimerServerAssumption
<1>2. Len(s) \in Nat /\ s \in [1 .. Len(s) -> Timers]
  OBVIOUS
<1>3. s \in Injection(1 .. Len(s), Timers)
  BY <1>2 DEF Injection, IsInjective, Distinct
<1>4. Cardinality(1 .. Len(s)) <= Cardinality(Timers)
  BY <1>1, <1>3, FS_Injection
<1>5. Cardinality(1 .. Len(s)) = Len(s)
  BY <1>2, FS_Interval
<1>6. Cardinality(Timers) \in Nat
  BY <1>1, FS_CardinalityType
<1>7. QED
  BY <1>2, <1>4, <1>5, <1>6

\* The list is one.
LEMMA LengthBound ==
  ASSUME ServerInv
  PROVE  Len(timerList) \in Nat /\ Cardinality(Timers) \in Nat
         /\ Len(timerList) <= Cardinality(Timers)
BY DistinctLength DEF ServerInv, ServerType, ListIsRunning, Distinct

\* At each place the list can have, the delay that is left covers three slips.
LEMMA PlaceRoom ==
  ASSUME Cardinality(Timers) \in Nat, NEW i \in Nat, i >= 1, i <= Cardinality(Timers)
  PROVE  MaxLate \in Int /\ Stage(i) \in Int /\ Stage(i) >= 0
         /\ Stage(i) + 3 * MaxSlip <= MaxLate
<1> DEFINE n == Cardinality(Timers)
<1>1. n \in Nat /\ n >= 1 /\ i <= n
  OBVIOUS
<1>2. MaxLate = Stage(n) + 3 * MaxSlip
  BY DEF MaxLate, Stage
<1> HIDE DEF n
<1>3. Stage(i) \in Int /\ Stage(i) >= 0 /\ Stage(i) <= Stage(n)
  BY <1>1, StageFacts
<1>4. Stage(n) \in Int
  BY <1>1, StageFacts
<1>5. QED
  BY <1>2, <1>3, <1>4, SlipFacts

\* Each place of the list is one of those.
LEMMA StageRoom ==
  ASSUME ServerInv, NEW i \in 1 .. Len(timerList)
  PROVE  MaxLate \in Int /\ Stage(i) \in Int /\ Stage(i) >= 0
         /\ Stage(i) + 3 * MaxSlip <= MaxLate
BY LengthBound, PlaceRoom

\* Each place of the list has a timestamp and a time to run, which is no longer.
LEMMA PlaceFacts ==
  ASSUME ServerInv
  PROVE  /\ Len(timerList) \in Nat /\ timerList \in Seq(Timers)
         /\ timerList # <<>> <=> Len(timerList) >= 1
         /\ timerList # <<>> => Head(timerList) = timerList[1]
         /\ \A i \in 1 .. Len(timerList) :
              /\ timerList[i] \in Timers /\ TimerExists(timerList[i])
              /\ Stamp(i) \in Int /\ Due(i) \in Int /\ Due(i) <= Stamp(i)
<1>1. /\ timerList \in Seq(Timers) /\ Timestamp \in [Timers -> Int]
      /\ left \in [Timers -> Int \cup {None}]
      /\ \A t \in Timers : IsRunning[t] <=> TimerExists(t)
      /\ \A t \in Timers : left[t] # None <=> IsRunning[t]
      /\ \A t \in Timers : TimerExists(t) => left[t] <= Timestamp[t]
  BY DEF ServerInv, ServerType, ListIsRunning, LeftInv
<1>2. Len(timerList) \in Nat
      /\ (timerList # <<>> <=> Len(timerList) >= 1)
      /\ (timerList # <<>> => Head(timerList) = timerList[1])
  BY <1>1
<1>3. ASSUME NEW i \in 1 .. Len(timerList)
      PROVE  /\ timerList[i] \in Timers /\ TimerExists(timerList[i])
             /\ Stamp(i) \in Int /\ Due(i) \in Int /\ Due(i) <= Stamp(i)
  <2>1. timerList[i] \in Timers /\ TimerExists(timerList[i])
    BY <1>1, ExistsAt
  <2>2. QED
    BY <1>1, <2>1 DEF Stamp, Due
<1>4. QED
  BY <1>1, <1>2, <1>3

\* What UTIL_TIMER_Start makes of the times in the list: the new timer stands
\* behind the timers whose time comes before its own, and in front of the others.
InsertedAt(q, d) ==
  /\ d \in Int /\ d >= MIN_ALARM_DELAY
  /\ Len(timerList') = Len(timerList) + 1
  /\ \A i \in 1 .. Len(timerList) + 1 :
       /\ Stamp(i)' = IF i < q THEN Stamp(i) ELSE IF i = q THEN d ELSE Stamp(i - 1)
       /\ Due(i)' = IF i < q THEN Due(i) ELSE IF i = q THEN d ELSE Due(i - 1)
  /\ q = 1 => /\ arming' = d /\ IsPending'[timerList'[1]]
              /\ timerList # <<>> => d < Stamp(1)
  /\ q > 1 => /\ arming' = arming /\ timerList # <<>> /\ Stamp(1) <= d
              /\ IsPending'[timerList'[1]] = IsPending[timerList[1]]
  /\ \A i \in 2 .. q - 1 : Stamp(i) <= d
  /\ q > 1 /\ q <= Len(timerList) => d <= Stamp(q)

\* UTIL_TIMER_Start does that at one place.
LEMMA InsertTimes ==
  ASSUME ServerInv, NEW t \in Timers, NEW p \in Periods, ~TimerExists(t), Insert(t, p)
  PROVE  \E q \in 1 .. Len(timerList) + 1, d \in Int : InsertedAt(q, d)
<1> DEFINE d == MinimumTicks(p)
           newHead == timerList = <<>> \/ d < Timestamp[Head(timerList)]
<1>1. d \in Int /\ d >= MIN_ALARM_DELAY /\ NotTooSoon(d) = d
  BY TimerServerAssumption DEF MinimumTicks, NotTooSoon
<1>2. /\ timerList \in Seq(Timers) /\ Len(timerList) \in Nat /\ Timestamp \in [Timers -> Int]
      /\ left \in [Timers -> Int \cup {None}]
      /\ \A i \in 1 .. Len(timerList) : timerList[i] \in Timers /\ TimerExists(timerList[i])
      /\ timerList # <<>> => Head(timerList) = timerList[1]
  BY PlaceFacts DEF ServerInv, ServerType
<1>3. /\ Timestamp' = [Timestamp EXCEPT ![t] = d]
      /\ left' = [left EXCEPT ![t] = d]
      /\ newHead => timerList' = <<t>> \o timerList /\ arming' = d
      /\ ~newHead => timerList' = InsertAt(timerList, InsertPos(d), t) /\ arming' = arming
  BY <1>1 DEF Insert
<1> HIDE DEF d
<1>4. \A u \in Timers : Timestamp'[u] = (IF u = t THEN d ELSE Timestamp[u])
                        /\ left'[u] = (IF u = t THEN d ELSE left[u])
  BY <1>1, <1>2, <1>3
<1>5. ASSUME NEW q \in 1 .. Len(timerList) + 1,
             \A i \in 1 .. Len(timerList) + 1 : timerList'[i] =
               IF i < q THEN timerList[i] ELSE IF i = q THEN t ELSE timerList[i - 1]
      PROVE  \A i \in 1 .. Len(timerList) + 1 :
               /\ Stamp(i)' = IF i < q THEN Stamp(i) ELSE IF i = q THEN d ELSE Stamp(i - 1)
               /\ Due(i)' = IF i < q THEN Due(i) ELSE IF i = q THEN d ELSE Due(i - 1)
  <2>1. \A i \in 1 .. Len(timerList) : timerList[i] \in Timers /\ timerList[i] # t
    BY <1>2
  <2>2. SUFFICES ASSUME NEW i \in 1 .. Len(timerList) + 1
                 PROVE  /\ Stamp(i)' = IF i < q THEN Stamp(i) ELSE IF i = q THEN d ELSE Stamp(i - 1)
                        /\ Due(i)' = IF i < q THEN Due(i) ELSE IF i = q THEN d ELSE Due(i - 1)
    OBVIOUS
  <2>3. Stamp(i)' = Timestamp'[timerList'[i]] /\ Due(i)' = left'[timerList'[i]]
    BY DEF Stamp, Due
  <2>4. CASE i < q
    <3>1. i \in 1 .. Len(timerList) /\ timerList'[i] = timerList[i]
      BY <1>2, <1>5, <2>4
    <3>2. QED
      BY <1>4, <2>1, <2>3, <2>4, <3>1 DEF Stamp, Due
  <2>5. CASE i = q
    BY <1>4, <1>5, <2>3, <2>5
  <2>6. CASE i > q
    <3>1. i - 1 \in 1 .. Len(timerList) /\ timerList'[i] = timerList[i - 1]
      BY <1>2, <1>5, <2>6
    <3>2. QED
      BY <1>4, <2>1, <2>3, <2>6, <3>1 DEF Stamp, Due
  <2>7. QED
    BY <2>4, <2>5, <2>6
<1>6. CASE newHead
  <2>1. timerList' = <<t>> \o timerList /\ arming' = d
    BY <1>3, <1>6
  <2>2. /\ Len(timerList') = Len(timerList) + 1
        /\ \A i \in 1 .. Len(timerList) + 1 : timerList'[i] =
             IF i < 1 THEN timerList[i] ELSE IF i = 1 THEN t ELSE timerList[i - 1]
    BY ONLY <1>2, <2>1, t \in Timers, ConsEffect
  <2>3. 1 \in 1 .. Len(timerList) + 1
    BY <1>2
  <2>4. timerList # <<>> => d < Stamp(1)
    BY <1>2, <1>6 DEF Stamp
  <2>5. InsertedAt(1, d)
    <3>1. \A i \in 1 .. Len(timerList) + 1 :
            /\ Stamp(i)' = IF i < 1 THEN Stamp(i) ELSE IF i = 1 THEN d ELSE Stamp(i - 1)
            /\ Due(i)' = IF i < 1 THEN Due(i) ELSE IF i = 1 THEN d ELSE Due(i - 1)
      BY <1>5, <2>2, <2>3
    <3>2. 2 .. 1 - 1 = {} /\ ~(1 > 1)
      OBVIOUS
    <3>3. IsPending'[timerList'[1]]
      <4>1. IsPending' = [HeadNotPending EXCEPT ![t] = TRUE]
        BY <1>6 DEF Insert, d
      <4>2. IsPending'[t]
        BY <4>1 DEF HeadNotPending
      <4>3. timerList'[1] = t
        BY <2>2, <2>3
      <4>4. QED
        BY <4>2, <4>3
    <3>4. QED
      BY <1>1, <2>1, <2>2, <2>4, <3>1, <3>2, <3>3 DEF InsertedAt
  <2>6. QED
    BY <1>1, <2>3, <2>5
<1>7. CASE ~newHead
  <2> DEFINE stop == {i \in 2 .. Len(timerList) : d <= Timestamp[timerList[i]]}
             q == InsertPos(d)
  <2>1. timerList # <<>> /\ Stamp(1) <= d
    <3>1. timerList # <<>> /\ Stamp(1) \in Int /\ ~(d < Stamp(1))
      BY <1>2, <1>7, PlaceFacts DEF Stamp
    <3>2. QED
      BY <1>1, <3>1
  <2>2. q = IF stop = {} THEN Len(timerList) + 1 ELSE Min(stop)
    BY DEF InsertPos
  <2>3. q \in 2 .. Len(timerList) + 1
    BY <1>1, <1>2, <2>1, InsertPosBehind
  <2>4. timerList' = InsertAt(timerList, q, t) /\ arming' = arming
    BY <1>3, <1>7
  <2>5. /\ stop # {} => q \in stop /\ \A i \in stop : q <= i
        /\ stop = {} => q = Len(timerList) + 1
    <3>1. stop \in SUBSET Nat
      BY <1>2
    <3>2. stop # {} => Min(stop) \in stop /\ \A i \in stop : Min(stop) <= i
      BY <3>1, MinExists
    <3>3. QED
      BY <2>2, <3>2
  <2>6. \A i \in 2 .. q - 1 : Stamp(i) <= d
    <3>1. SUFFICES ASSUME NEW i \in 2 .. q - 1 PROVE Stamp(i) <= d
      OBVIOUS
    <3>2. i \in 2 .. Len(timerList) /\ i < q
      BY <1>2, <2>3
    <3>3. i \notin stop
      <4>1. i \in Int /\ q \in Int /\ ~(q <= i)
        BY <2>3, <3>2
      <4>2. QED
        BY <2>5, <4>1, Zenon
    <3>4. ~(d <= Stamp(i))
      BY <3>2, <3>3 DEF Stamp
    <3>5. i \in 1 .. Len(timerList)
      BY <3>2
    <3>6. Stamp(i) \in Int
      BY <3>5, PlaceFacts
    <3>7. QED
      BY ONLY <1>1, <3>4, <3>6
  <2>7. q <= Len(timerList) => d <= Stamp(q)
    BY <1>2, <2>3, <2>5 DEF Stamp
  <2> HIDE DEF q, stop
  <2>8. q \in 1 .. Len(timerList) + 1 /\ q > 1 /\ q # 1
    BY <1>2, <2>3
  <2>9. /\ Len(timerList') = Len(timerList) + 1
        /\ \A i \in 1 .. Len(timerList) + 1 : timerList'[i] =
             IF i < q THEN timerList[i] ELSE IF i = q THEN t ELSE timerList[i - 1]
    <3>1. timerList \in Seq(Timers)
      BY <1>2
    <3>2. /\ Len(InsertAt(timerList, q, t)) = Len(timerList) + 1
          /\ \A i \in 1 .. Len(timerList) + 1 : InsertAt(timerList, q, t)[i] =
               IF i < q THEN timerList[i] ELSE IF i = q THEN t ELSE timerList[i - 1]
      BY ONLY <2>8, <3>1, t \in Timers, InsertAtEffect, SMTT(30)
    <3>3. QED
      BY ONLY <2>4, <3>2
  <2>10. IsPending'[timerList'[1]] = IsPending[timerList[1]]
    <3>1. 1 \in 1 .. Len(timerList) /\ 1 \in 1 .. Len(timerList) + 1 /\ 1 < q
      BY <1>2, <2>1, <2>8
    <3>2. timerList'[1] = timerList[1] /\ timerList[1] \in Timers /\ timerList[1] # t
      BY <1>2, <2>9, <3>1
    <3>3. IsPending' = [IsPending EXCEPT ![t] = FALSE] /\ IsPending \in [Timers -> BOOLEAN]
      BY <1>7 DEF Insert, d, ServerInv, ServerType
    <3>4. QED
      BY <3>2, <3>3
  <2>11. InsertedAt(q, d)
    BY <1>1, <1>5, <2>1, <2>4, <2>6, <2>7, <2>8, <2>9, <2>10 DEF InsertedAt
  <2>12. QED
    BY <1>1, <2>8, <2>11
<1>8. QED
  BY <1>6, <1>7

\* What UTIL_TIMER_Stop makes of the times in the list: the next timer gets the
\* alarm of a head that leaves.
RemovedAt(q) ==
  /\ Len(timerList') = Len(timerList) - 1
  /\ \A i \in 1 .. Len(timerList) - 1 :
       /\ Stamp(i)' = IF i < q THEN Stamp(i)
                      ELSE IF i = 1 THEN NotTooSoon(Stamp(2)) ELSE Stamp(i + 1)
       /\ Due(i)' = IF i < q THEN Due(i) ELSE Due(i + 1)
  /\ q = 1 /\ Len(timerList) > 1 =>
       arming' = Stamp(1)' /\ IsPending'[timerList'[1]] /\ UNCHANGED <<alarm, alarmFlag>>
  /\ q = 1 /\ Len(timerList) = 1 => arming' = arming /\ alarm' = None /\ alarmFlag' = FALSE
  /\ q > 1 => /\ UNCHANGED <<arming, alarm, alarmFlag>>
              /\ IsPending'[timerList'[1]] = IsPending[timerList[1]]

\* UTIL_TIMER_Stop does that at the place of its timer, or changes no time in the list.
LEMMA StopTimes ==
  ASSUME ServerInv, NEW t \in Timers, Stop(t)
  PROVE  \/ /\ UNCHANGED <<timerList, arming, alarm, alarmFlag>>
            /\ \A i \in 1 .. Len(timerList) : Stamp(i)' = Stamp(i) /\ Due(i)' = Due(i)
         \/ \E q \in 1 .. Len(timerList) : RemovedAt(q)
<1>1. /\ timerList \in Seq(Timers) /\ Len(timerList) \in Nat /\ Timestamp \in [Timers -> Int]
      /\ left \in [Timers -> Int \cup {None}] /\ Distinct(timerList)
      /\ \A i \in 1 .. Len(timerList) : timerList[i] \in Timers /\ TimerExists(timerList[i])
      /\ timerList # <<>> => Head(timerList) = timerList[1]
      /\ timerList # <<>> <=> Len(timerList) >= 1
  BY PlaceFacts, SMTT(30) DEF ServerInv, ServerType, ListIsRunning, Distinct
<1>2. \A u \in Timers : left'[u] = IF u = t THEN None ELSE left[u]
  BY <1>1 DEF Stop
<1>3. /\ Len(timerList) < 2 \/ timerList[1] # t => \A u \in Timers : u # t => Timestamp'[u] = Timestamp[u]
      /\ \A u \in Timers : u # t /\ u # timerList[2] => Timestamp'[u] = Timestamp[u]
  <2>1. ASSUME NEW u \in Timers, u # t,
               Len(timerList) < 2 \/ timerList[1] # t \/ timerList[2] # u
        PROVE  Timestamp'[u] = Timestamp[u]
    BY <2>1, StopData
  <2>2. QED
    BY <2>1
<1>4. CASE timerList' = timerList /\ ~TimerExists(t)
  <2>1. timerList = <<>> \/ t # Head(timerList)
    BY <1>1, <1>4
  <2>2. UNCHANGED <<arming, alarm, alarmFlag>>
    BY <2>1 DEF Stop
  <2>3. ASSUME NEW i \in 1 .. Len(timerList)
        PROVE  Stamp(i)' = Stamp(i) /\ Due(i)' = Due(i)
    <3>1. timerList[i] \in Timers /\ timerList[i] # t /\ timerList'[i] = timerList[i]
      BY <1>1, <1>4
    <3>2. Len(timerList) < 2 \/ timerList[1] # t
      BY <1>1, <2>1
    <3>3. QED
      BY <1>2, <1>3, <3>1, <3>2 DEF Stamp, Due
  <2>4. QED
    BY <1>4, <2>2, <2>3
<1>5. ASSUME NEW q \in 1 .. Len(timerList), timerList[q] = t,
             Len(timerList') = Len(timerList) - 1,
             \A i \in 1 .. Len(timerList) - 1 : timerList'[i] =
               IF i < q THEN timerList[i] ELSE timerList[i + 1]
      PROVE  RemovedAt(q)
  <2>1. \A i \in 1 .. Len(timerList) : i # q => timerList[i] # t
    BY <1>1, <1>5 DEF Distinct
  <2>2. timerList # <<>>
    BY <1>1, <1>5
  <2>3. CASE q > 1
    <3>1. timerList[1] # t /\ t # Head(timerList)
      BY <1>1, <2>1, <2>2, <2>3
    <3>2. UNCHANGED <<arming, alarm, alarmFlag>>
      BY <3>1 DEF Stop
    <3>3. ASSUME NEW i \in 1 .. Len(timerList) - 1
          PROVE  /\ Stamp(i)' = IF i < q THEN Stamp(i) ELSE Stamp(i + 1)
                 /\ Due(i)' = IF i < q THEN Due(i) ELSE Due(i + 1)
      <4>1. CASE i < q
        <5>1. i \in 1 .. Len(timerList) /\ i # q /\ timerList'[i] = timerList[i]
          BY <1>1, <1>5, <4>1
        <5>2. timerList[i] \in Timers /\ timerList[i] # t
          BY <1>1, <2>1, <5>1
        <5>3. QED
          BY <1>2, <1>3, <3>1, <4>1, <5>1, <5>2 DEF Stamp, Due
      <4>2. CASE ~(i < q)
        <5>1. i + 1 \in 1 .. Len(timerList) /\ i + 1 # q /\ timerList'[i] = timerList[i + 1]
          BY <1>1, <1>5, <4>2
        <5>2. timerList[i + 1] \in Timers /\ timerList[i + 1] # t
          BY <1>1, <2>1, <5>1
        <5>3. QED
          BY <1>2, <1>3, <3>1, <4>2, <5>1, <5>2 DEF Stamp, Due
      <4>3. QED
        BY <4>1, <4>2
    <3>4. \A i \in 1 .. Len(timerList) - 1 : ~(i < q) => i # 1
      BY <1>1, <2>3
    <3>5. q # 1
      BY <2>3
    <3>6. IsPending'[timerList'[1]] = IsPending[timerList[1]]
      <4>1. 1 \in 1 .. Len(timerList) - 1 /\ 1 \in 1 .. Len(timerList) /\ 1 < q
        BY <1>1, <2>3
      <4>2. timerList'[1] = timerList[1]
        BY <1>5, <4>1
      <4>3. timerList[1] \in Timers /\ timerList[1] # t
        BY <1>1, <3>1, <4>1
      <4>4. QED
        BY <3>1, <4>2, <4>3, StopData
    <3>7. QED
      BY <1>5, <3>2, <3>3, <3>4, <3>5, <3>6 DEF RemovedAt
  <2>4. CASE q = 1 /\ ~(Len(timerList) > 1)
    <3>1. timerList = <<t>> /\ t = Head(timerList) /\ Len(timerList) = 1
      BY <1>1, <1>5, <2>2, <2>4
    <3>2. arming' = arming /\ alarm' = None /\ alarmFlag' = FALSE
      BY <2>2, <3>1 DEF Stop
    <3>3. 1 .. Len(timerList) - 1 = {} /\ ~(q > 1)
      BY <2>4, <3>1
    <3>4. QED
      BY <1>5, <2>4, <3>2, <3>3 DEF RemovedAt
  <2>5. CASE q = 1 /\ Len(timerList) > 1
    <3>1. t = Head(timerList) /\ timerList # <<t>> /\ timerList[1] = t
      <4>1. timerList[1] = t /\ t = Head(timerList)
        BY <1>1, <1>5, <2>2, <2>5, Zenon
      <4>2. Len(<<t>>) = 1
        OBVIOUS
      <4>3. Len(timerList) # 1
        BY <1>1, <2>5
      <4>4. QED
        BY <4>1, <4>2, <4>3, Zenon
    <3> DEFINE next == timerList[2]
               at == NotTooSoon(Timestamp[next])
    <3>2. next \in Timers /\ next # t
      BY <1>1, <2>1, <2>5
    <3>3. /\ Timestamp' = [Timestamp EXCEPT ![t] = 0, ![next] = at]
          /\ IsPending' = [IsPending EXCEPT ![t] = FALSE, ![next] = TRUE]
          /\ arming' = at
          /\ UNCHANGED <<alarm, alarmFlag>>
      BY <2>2, <3>1 DEF Stop
    <3> HIDE DEF next, at
    <3>4. Timestamp'[next] = at /\ next = timerList[2] /\ at = NotTooSoon(Stamp(2))
      BY <1>1, <3>2, <3>3 DEF Stamp, next, at
    <3>5. ASSUME NEW i \in 1 .. Len(timerList) - 1
          PROVE  /\ Stamp(i)' = IF i = 1 THEN NotTooSoon(Stamp(2)) ELSE Stamp(i + 1)
                 /\ Due(i)' = Due(i + 1)
      <4>1. i + 1 \in 1 .. Len(timerList) /\ timerList'[i] = timerList[i + 1] /\ ~(i < q)
        BY <1>1, <1>5, <2>5
      <4>2. timerList[i + 1] \in Timers /\ timerList[i + 1] # t
        BY <1>1, <2>1, <2>5, <4>1
      <4>3. i # 1 => timerList[i + 1] # timerList[2]
        BY <1>1, <2>5, <4>1 DEF Distinct
      <4>4. Due(i)' = Due(i + 1)
        BY <1>2, <4>1, <4>2 DEF Due
      <4>5. i = 1 => Stamp(i)' = NotTooSoon(Stamp(2))
        BY <3>4, <4>1 DEF Stamp
      <4>6. i # 1 => Stamp(i)' = Stamp(i + 1)
        BY <1>3, <4>1, <4>2, <4>3 DEF Stamp
      <4>7. QED
        BY <4>4, <4>5, <4>6
    <3>6. \A i \in 1 .. Len(timerList) - 1 : ~(i < q)
      BY <2>5
    <3>7. arming' = Stamp(1)'
      <4>1. 1 \in 1 .. Len(timerList) - 1
        BY <1>1, <2>5
      <4>2. QED
        BY <3>3, <3>4, <3>5, <4>1
    <3>8. IsPending'[timerList'[1]]
      <4>1. 1 \in 1 .. Len(timerList) - 1 /\ 1 + 1 = 2
        BY <1>1, <2>5
      <4>2. timerList'[1] = timerList[2]
        <5>1. timerList'[1] = IF 1 < q THEN timerList[1] ELSE timerList[1 + 1]
          BY <1>5, <4>1, Zenon
        <5>2. ~(1 < q)
          BY <2>5
        <5>3. QED
          BY <4>1, <5>1, <5>2
      <4>3. IsPending'[next]
        <5>1. IsPending \in [Timers -> BOOLEAN]
          BY DEF ServerInv, ServerType
        <5>2. QED
          BY <3>2, <3>3, <5>1
      <4>4. QED
        BY <3>4, <4>2, <4>3
    <3>9. q = 1 /\ ~(q > 1) /\ UNCHANGED <<alarm, alarmFlag>>
      BY <2>5, <3>3
    <3>10. /\ Len(timerList') = Len(timerList) - 1
           /\ \A i \in 1 .. Len(timerList) - 1 :
                /\ Stamp(i)' = IF i < q THEN Stamp(i)
                               ELSE IF i = 1 THEN NotTooSoon(Stamp(2)) ELSE Stamp(i + 1)
                /\ Due(i)' = IF i < q THEN Due(i) ELSE Due(i + 1)
      BY <1>5, <3>5, <3>6
    <3>11. ~(q = 1 /\ Len(timerList) = 1)
      BY <1>1, <2>5
    <3>12. QED
      BY <3>7, <3>8, <3>9, <3>10, <3>11 DEF RemovedAt
  <2>6. q > 1 \/ q = 1
    BY <1>1
  <2>7. QED
    BY <2>3, <2>4, <2>5, <2>6
<1>6. QED
  BY <1>4, <1>5, StopEffect

\* The slip and the time that has elapsed are numbers, and so are the alarms.
LEMMA CounterFacts ==
  ASSUME IInv
  PROVE  /\ elapsed \in Int /\ elapsed >= 0 /\ (handler = "off" => elapsed = 0)
         /\ slip \in Int /\ slip >= 0 /\ slip <= MaxSlip
         /\ alarm # None => alarm \in Int /\ alarm >= 1
         /\ arming # None => arming \in Int /\ arming >= 1 /\ arming + slip >= MIN_ALARM_DELAY
         /\ handler \in {"off", "loop", "callback"}
BY TimerServerAssumption DEF IInv, TypeOK, SlipInv, HandlerInv

\* Where the head's alarm is, by the handler's place.
LEMMA HeadFacts ==
  ASSUME IInv, AlarmInv, timerList # <<>>
  PROVE  /\ Stamp(1) \in Int /\ Due(1) \in Int /\ Len(timerList) >= 1
         /\ handler = "off" /\ arming = None /\ ~alarmFlag => alarm # None /\ alarm = Stamp(1)
         /\ handler = "off" /\ arming = None /\ alarmFlag => Stamp(1) <= 0 /\ Stamp(1) + slip >= 0
         /\ handler # "off" /\ arming = None /\ IsPending[timerList[1]] /\ ~Expired(Stamp(1)) =>
              alarm # None /\ alarm = Stamp(1)
<1>1. ServerInv /\ HeadInv
  BY DEF IInv
<1>2. Head(timerList) = timerList[1] /\ Len(timerList) >= 1 /\ Stamp(1) \in Int /\ Due(1) \in Int
  BY <1>1, PlaceFacts
<1>3. Stamp(1) = Timestamp[Head(timerList)]
  BY <1>2 DEF Stamp
<1>4. handler # "off" => ~alarmFlag
  BY DEF AlarmInv
<1>5. handler = "off" /\ arming = None /\ alarmFlag => Stamp(1) + slip >= 0
  BY DEF AlarmInv
<1>6. QED
  BY <1>1, <1>2, <1>3, <1>4, <1>5 DEF HeadInv, Armed

\* Rest, by the place of the handler and the alarm.
LEMMA RestFacts ==
  ASSUME IInv, AlarmInv, timerList # <<>>
  PROVE  /\ Rest \in Int /\ Rest >= 0
         /\ handler = "callback" \/ (handler = "off" /\ arming = None) => Rest >= MaxSlip
<1>1. /\ Stamp(1) \in Int
      /\ slip \in Int /\ slip >= 0 /\ slip <= MaxSlip
      /\ MIN_ALARM_DELAY \in Int /\ MaxSlip \in Int /\ MaxSlip >= 0 /\ MIN_ALARM_DELAY >= 0
  BY HeadFacts, CounterFacts, SlipFacts
<1>2. CASE handler = "off" \/ arming # None \/ alarm # None
  <2>1. Rest = Stamp(1) + 2 * MaxSlip
    BY <1>2 DEF Rest
  <2>2. arming # None => Stamp(1) >= 1
    BY CounterFacts DEF AlarmInv
  <2>3. handler = "off" /\ arming = None => Stamp(1) + MaxSlip >= 0
    BY <1>1, CounterFacts, HeadFacts
  <2>4. handler # "off" /\ arming = None => Stamp(1) >= 1
    BY <1>2, CounterFacts DEF AlarmInv
  <2>5. Stamp(1) + MaxSlip >= 0
    BY <1>1, <2>2, <2>3, <2>4
  <2>6. QED
    BY <1>1, <2>1, <2>5
<1>3. CASE ~(handler = "off" \/ arming # None \/ alarm # None)
  <2>1. CASE Expired(Stamp(1))
    BY <1>1, <1>3, <2>1 DEF Rest
  <2>2. CASE ~Expired(Stamp(1))
    <3>1. NotTooSoon(Stamp(1)) \in Int /\ NotTooSoon(Stamp(1)) >= 0
      BY <1>1 DEF NotTooSoon
    <3>2. Rest = NotTooSoon(Stamp(1)) + 3 * MaxSlip - slip
      BY <1>3, <2>2 DEF Rest
    <3>3. QED
      BY <1>1, <3>1, <3>2
  <2>3. QED
    BY <2>1, <2>2
<1>4. QED
  BY <1>2, <1>3

--------------------------------------------------------------------------
(* Each step keeps the timers in order and in time. *)

\* In the first state there is no timer and no alarm.
LEMMA InitLate == Init => LateInv
<1> SUFFICES ASSUME Init PROVE LateInv
  OBVIOUS
<1>1. IInv
  BY InitIInv
<1>2. timerList = <<>> /\ alarm = None /\ ~alarmFlag /\ arming = None /\ handler = "off"
  BY DEF Init
<1>3. Len(timerList) = 0
  BY <1>2
<1>4. AlarmInv
  BY <1>2 DEF AlarmInv
<1>5. OrderInv /\ ExactInv /\ DelayInv
  BY <1>3 DEF OrderInv, ExactInv, DelayInv
<1>6. QED
  BY <1>1, <1>4, <1>5 DEF LateInv

\* A step that leaves the list, its times, the alarm and the handler alone.
LEMMA UnchangedLate ==
  ASSUME LateInv, IInv', UNCHANGED <<server, rtc, arming, handler, slip, left>>
  PROVE  LateInv'
<1>1. UNCHANGED <<elapsed, timerList, Timestamp, IsPending, alarm, alarmFlag, arming, handler,
                  slip, left>>
  BY DEF server, rtc
<1>2. \A i : Stamp(i)' = Stamp(i) /\ Due(i)' = Due(i)
  BY <1>1 DEF Stamp, Due
<1>3. AlarmInv'
  BY <1>1 DEF LateInv, AlarmInv, Stamp
<1>4. OrderInv'
  BY <1>1 DEF LateInv, OrderInv, Stamp
<1>5. ExactInv'
  BY <1>1 DEF LateInv, ExactInv, Stamp, Due
<1>6. Rest' = Rest
  BY <1>1 DEF Rest, Expired, Stamp
<1>7. DelayInv'
  BY <1>1, <1>6 DEF LateInv, DelayInv, Due
<1>8. QED
  BY <1>3, <1>4, <1>5, <1>7 DEF LateInv

\* The clock takes a tick from every time in the list.
LEMMA TickLate == LateInv /\ Tick => LateInv'
<1> SUFFICES ASSUME LateInv, Tick PROVE LateInv'
  OBVIOUS
<1>1. IInv /\ AlarmInv /\ OrderInv /\ ExactInv /\ DelayInv /\ ServerInv /\ IInv'
  BY TickIInv DEF LateInv, IInv
<1>2. /\ timerList' = timerList /\ IsPending' = IsPending /\ handler' = handler
      /\ Busy => slip < MaxSlip
      /\ slip' = IF Busy THEN slip + 1 ELSE 0
      /\ elapsed' = IF handler = "off" THEN 0 ELSE elapsed + 1
      /\ arming' = IF arming = None THEN None ELSE arming - 1
      /\ alarm = 1 => alarmFlag' = TRUE /\ alarm' = None
      /\ alarm # 1 => alarm' = (IF alarm = None THEN None ELSE alarm - 1) /\ alarmFlag' = alarmFlag
  BY DEF Tick
<1>3. \A i \in 1 .. Len(timerList) : Stamp(i)' = Stamp(i) - 1 /\ Due(i)' = Due(i) - 1
  <2>1. ASSUME NEW i \in 1 .. Len(timerList)
        PROVE  Stamp(i)' = Stamp(i) - 1 /\ Due(i)' = Due(i) - 1
    <3>1. timerList[i] \in Timers /\ TimerExists(timerList[i]) /\ Due(i) # None
      BY <1>1, PlaceFacts, SlipFacts
    <3>2. QED
      BY <1>2, <3>1 DEF Tick, Stamp, Due
  <2>2. QED
    BY <2>1
<1>4. \A i \in 1 .. Len(timerList) : Stamp(i) \in Int /\ Due(i) \in Int
  BY <1>1, PlaceFacts
<1>5. timerList # <<>> => 1 \in 1 .. Len(timerList)
  BY <1>1, PlaceFacts
<1>6. Len(timerList) \in Nat
  BY <1>1, PlaceFacts
<1>7. AlarmInv'
  <2>1. alarm # None /\ handler # "off" => alarm > 1
    BY <1>1, <1>2, CounterFacts, SlipFacts DEF AlarmInv, Busy
  <2>2. alarmFlag' => alarm' = None /\ handler' = "off"
    <3>1. CASE alarm = 1
      <4>1. ~(alarm > 1) /\ alarm # None
        BY <3>1, SlipFacts
      <4>2. QED
        BY <1>2, <2>1, <3>1, <4>1
    <3>2. CASE alarm # 1
      BY <1>1, <1>2, <3>2 DEF AlarmInv
    <3>3. QED
      BY <3>1, <3>2
  <2>3. handler' = "loop" => arming' = None
    BY <1>1, <1>2 DEF AlarmInv
  <2>4. ASSUME handler' # "off", alarm' # None
        PROVE  /\ alarm' + slip' > MaxSlip
               /\ arming' = None =>
                    timerList' # <<>> /\ IsPending'[timerList'[1]] /\ alarm' = Stamp(1)'
    <3>1. handler # "off" /\ alarm # None /\ alarm # 1
      BY <1>2, <2>4
    <3>2. alarm + slip > MaxSlip /\ alarm' = alarm - 1 /\ slip' = slip + 1
      BY <1>1, <1>2, <3>1 DEF AlarmInv, Busy
    <3>3. alarm' + slip' > MaxSlip
      BY <1>1, <3>1, <3>2, CounterFacts, SlipFacts
    <3>4. ASSUME arming' = None
          PROVE  timerList' # <<>> /\ IsPending'[timerList'[1]] /\ alarm' = Stamp(1)'
      <4>1. arming = None
        BY <1>1, <1>2, <3>4, CounterFacts, SlipFacts
      <4>2. timerList # <<>> /\ IsPending[timerList[1]] /\ alarm = Stamp(1)
        BY <1>1, <3>1, <4>1 DEF AlarmInv
      <4>3. Stamp(1)' = Stamp(1) - 1
        BY <1>3, <1>5, <4>2
      <4>4. QED
        BY <1>2, <3>2, <4>2, <4>3
    <3>5. QED
      BY <3>3, <3>4
  <2>5. ASSUME handler' = "off", alarmFlag', arming' = None, timerList' # <<>>
        PROVE  Stamp(1)' + slip' >= 0
    <3>1. handler = "off" /\ timerList # <<>> /\ arming = None /\ Stamp(1)' = Stamp(1) - 1
          /\ Stamp(1) \in Int
      <4>1. arming # None => arming' # None
        BY <1>1, <1>2, CounterFacts, SlipFacts
      <4>2. QED
        BY <1>2, <1>3, <1>4, <1>5, <2>5, <4>1
    <3>2. CASE alarmFlag
      <4>1. Stamp(1) + slip >= 0 /\ slip' = slip + 1
        BY <1>1, <1>2, <3>1, <3>2 DEF AlarmInv, Busy
      <4>2. QED
        BY <1>1, <3>1, <4>1, CounterFacts
    <3>3. CASE ~alarmFlag
      <4>1. alarm = Stamp(1) /\ alarm = 1 /\ slip' = 0
        BY <1>1, <1>2, <2>5, <3>1, <3>3, HeadFacts DEF Busy
      <4>2. QED
        BY <3>1, <4>1
    <3>4. QED
      BY <3>2, <3>3
  <2>6. arming' # None => timerList' # <<>> /\ IsPending'[timerList'[1]] /\ arming' = Stamp(1)'
    BY <1>1, <1>2, <1>3, <1>5 DEF AlarmInv
  <2>7. QED
    BY <2>2, <2>3, <2>4, <2>5, <2>6 DEF AlarmInv
<1>8. OrderInv'
  <2>1. ASSUME NEW i \in 2 .. Len(timerList), NEW j \in 2 .. Len(timerList), i <= j
        PROVE  Stamp(i)' <= Stamp(j)'
    <3>1. Stamp(i) <= Stamp(j) /\ i \in 1 .. Len(timerList) /\ j \in 1 .. Len(timerList)
      BY <1>1, <1>6, <2>1 DEF OrderInv
    <3>2. QED
      BY <1>3, <1>4, <3>1
  <2>2. ASSUME Len(timerList) > 1
        PROVE  Stamp(1)' <= MIN_ALARM_DELAY \/ Stamp(1)' <= Stamp(2)'
    <3>1. 1 \in 1 .. Len(timerList) /\ 2 \in 1 .. Len(timerList)
      BY <1>6, <2>2
    <3>2. Stamp(1) <= MIN_ALARM_DELAY \/ Stamp(1) <= Stamp(2)
      BY <1>1, <2>2 DEF OrderInv
    <3>3. QED
      BY <1>3, <1>4, <3>1, <3>2, SlipFacts
  <2>3. QED
    BY <1>2, <2>1, <2>2 DEF OrderInv
<1>9. ExactInv'
  <2>1. ASSUME NEW i \in 1 .. Len(timerList)
        PROVE  Due(i)' = Stamp(i)' \/ Stamp(i)' + elapsed' <= 0 \/ (i = 1 /\ Stamp(1)' <= MIN_ALARM_DELAY)
    <3>1. Due(i) = Stamp(i) \/ Stamp(i) + elapsed <= 0 \/ (i = 1 /\ Stamp(1) <= MIN_ALARM_DELAY)
      BY <1>1 DEF ExactInv
    <3>2. elapsed' \in Int /\ elapsed' <= elapsed + 1
      BY <1>1, <1>2, CounterFacts
    <3>3. QED
      BY <1>1, <1>3, <1>4, <3>1, <3>2, CounterFacts, SlipFacts
  <2>2. QED
    BY <1>2, <2>1 DEF ExactInv
<1>10. timerList # <<>> => Rest \in Int /\ Rest' \in Int /\ Rest' <= Rest - 1
  <2>1. SUFFICES ASSUME timerList # <<>> PROVE Rest \in Int /\ Rest' \in Int /\ Rest' <= Rest - 1
    OBVIOUS
  <2>2. Stamp(1) \in Int /\ Stamp(1)' = Stamp(1) - 1
    BY <1>3, <1>4, <1>5, <2>1
  <2>3. slip \in Int /\ slip >= 0 /\ MaxSlip \in Int /\ MaxSlip >= 0 /\ MIN_ALARM_DELAY \in Int
        /\ MIN_ALARM_DELAY >= 0
    BY <1>1, CounterFacts, SlipFacts
  <2>4. CASE handler = "off" \/ arming # None \/ alarm # None
    <3>1. handler' = "off" \/ arming' # None \/ alarm' # None
      <4>1. arming # None => arming' # None
        BY <1>1, <1>2, CounterFacts, SlipFacts
      <4>2. handler # "off" /\ alarm # None => alarm' # None
        <5>1. ASSUME handler # "off", alarm # None PROVE alarm > 1
          BY <1>1, <1>2, <5>1, CounterFacts, SlipFacts DEF AlarmInv, Busy
        <5>2. QED
          BY <1>1, <1>2, <5>1, CounterFacts, SlipFacts
      <4>3. QED
        BY <1>2, <2>4, <4>1, <4>2
    <3>2. Rest = Stamp(1) + 2 * MaxSlip /\ Rest' = Stamp(1)' + 2 * MaxSlip
      BY <2>4, <3>1 DEF Rest
    <3>3. QED
      BY <2>2, <2>3, <3>2
  <2>5. CASE ~(handler = "off" \/ arming # None \/ alarm # None)
    <3>1. ~(handler' = "off" \/ arming' # None \/ alarm' # None)
          /\ slip' = slip + 1 /\ elapsed' = elapsed + 1
      BY <1>2, <2>5, SlipFacts DEF Busy
    <3>2. Expired(Stamp(1))' <=> Stamp(1) + elapsed = 0 \/ Stamp(1) < 1
      BY <1>1, <2>2, <3>1, CounterFacts DEF Expired
    <3>3. Expired(Stamp(1)) <=> Stamp(1) + elapsed = 0 \/ Stamp(1) < 0
      BY DEF Expired
    <3>4. CASE Expired(Stamp(1))
      <4>1. Expired(Stamp(1))'
        BY <2>2, <3>2, <3>3, <3>4
      <4>2. Rest = (IF handler = "callback" THEN 2 * MaxSlip - slip ELSE MaxSlip - slip)
            /\ Rest' = (IF handler = "callback" THEN 2 * MaxSlip - slip' ELSE MaxSlip - slip')
        BY <1>2, <2>5, <3>1, <3>4, <4>1 DEF Rest
      <4>3. QED
        BY <2>3, <3>1, <4>2
    <3>5. CASE ~Expired(Stamp(1))
      <4> DEFINE n == NotTooSoon(Stamp(1))
                 m == NotTooSoon(Stamp(1)')
      <4>1. n \in Int /\ m \in Int /\ m <= n /\ n >= 0
        BY <2>2, <2>3 DEF NotTooSoon
      <4>2. Rest = n + 3 * MaxSlip - slip
        BY <2>5, <3>5 DEF Rest
      <4>3. Rest' = (IF handler = "callback" THEN 2 * MaxSlip - slip' ELSE MaxSlip - slip')
            \/ Rest' = m + 3 * MaxSlip - slip'
        <5>1. NotTooSoon(Stamp(1))' = m
          BY DEF NotTooSoon
        <5>2. QED
          BY <1>2, <3>1, <5>1 DEF Rest
      <4> HIDE DEF n, m
      <4>4. QED
        BY <2>3, <3>1, <4>1, <4>2, <4>3
    <3>6. QED
      BY <3>4, <3>5
  <2>6. QED
    BY <2>4, <2>5
<1>11. DelayInv'
  <2>1. ASSUME NEW i \in 1 .. Len(timerList) PROVE Due(i)' + MaxLate >= Rest' + Stage(i)
    <3>1. timerList # <<>> /\ MaxLate \in Int /\ Stage(i) \in Int
      BY <1>1, <2>1, StageRoom, PlaceFacts
    <3>2. Due(i) + MaxLate >= Rest + Stage(i)
      BY <1>1 DEF DelayInv
    <3>3. QED
      BY <1>3, <1>4, <1>10, <3>1, <3>2
  <2>2. QED
    BY <1>2, <2>1 DEF DelayInv, Stage, MaxLate
<1>12. QED
  BY <1>1, <1>7, <1>8, <1>9, <1>11 DEF LateInv


\* The alarm is set while it is in the future, so it matches when the head's time comes.
LEMMA ProgramAlarmLate == LateInv /\ ProgramAlarm => LateInv'
<1> SUFFICES ASSUME LateInv, ProgramAlarm PROVE LateInv'
  OBVIOUS
<1>1. IInv /\ AlarmInv /\ OrderInv /\ ExactInv /\ DelayInv /\ IInv'
  BY ProgramAlarmIInv DEF LateInv
<1>2. /\ arming # None /\ alarmFlag' = FALSE /\ arming' = None
      /\ handler = "callback" => slip' = slip
      /\ UNCHANGED <<timerList, Timestamp, IsPending, elapsed, handler, left>>
      /\ alarm' = arming
  BY <1>1, CounterFacts, SlipFacts DEF ProgramAlarm, server
<1>3. timerList # <<>> /\ IsPending[timerList[1]] /\ arming = Stamp(1) /\ handler # "loop"
  BY <1>1, <1>2 DEF AlarmInv
<1>4. AlarmInv'
  <2>1. handler = "callback" => alarm' + slip' > MaxSlip
    BY <1>1, <1>2, CounterFacts, SlipFacts
  <2>2. Stamp(1)' = Stamp(1)
    BY <1>2 DEF Stamp
  <2>3. handler' = "callback" \/ handler' = "off"
    BY <1>1, <1>2, <1>3, CounterFacts
  <2>4. QED
    BY <1>2, <1>3, <2>1, <2>2, <2>3 DEF AlarmInv
<1>5. OrderInv'
  BY <1>1, <1>2 DEF OrderInv, Stamp
<1>6. ExactInv'
  BY <1>1, <1>2 DEF ExactInv, Stamp, Due
<1>7. Rest' = Rest
  <2>1. Rest = Stamp(1) + 2 * MaxSlip
    BY <1>2 DEF Rest
  <2>2. alarm' # None
    BY <1>2
  <2>3. Rest' = Stamp(1)' + 2 * MaxSlip
    BY <2>2 DEF Rest
  <2>4. QED
    BY <1>2, <2>1, <2>3 DEF Stamp
<1>8. DelayInv'
  BY <1>1, <1>2, <1>7 DEF DelayInv, Due, Stage, MaxLate
<1>9. QED
  BY <1>1, <1>4, <1>5, <1>6, <1>8 DEF LateInv

\* Where the server's functions are called: by the main loop, or by a callback. The
\* time reference moves only when the list is empty.
Section ==
  /\ handler # "loop" /\ arming = None
  /\ UNCHANGED <<handler, slip>>
  /\ elapsed' \in Int /\ elapsed' >= 0
  /\ timerList # <<>> => elapsed' = elapsed

\* A function that keeps the head and the alarm gives the head no more time.
LEMMA SectionRest ==
  ASSUME IInv, AlarmInv, timerList # <<>>, Section, UNCHANGED <<arming, alarm>>, Stamp(1)' = Stamp(1)
  PROVE  Rest' \in Int /\ Rest' <= Rest
<1>1. Rest \in Int
  BY RestFacts
<1>2. UNCHANGED <<handler, slip, arming, alarm, elapsed>>
  BY DEF Section
<1>3. Expired(Stamp(1))' <=> Expired(Stamp(1))
  BY <1>2 DEF Expired
<1>4. NotTooSoon(Stamp(1))' = NotTooSoon(Stamp(1))
  BY DEF NotTooSoon
<1>5. Rest' = Rest
  BY <1>2, <1>3, <1>4 DEF Rest
<1>6. QED
  BY <1>1, <1>5

\* A timer that is inserted comes behind those before its time and in front of the
\* others, which are exact, so it is late for none of them.
LEMMA InsertLate ==
  ASSUME LateInv, IInv', Section, NEW q \in 1 .. Len(timerList) + 1, NEW d \in Int,
         InsertedAt(q, d), UNCHANGED <<alarm, alarmFlag>>
  PROVE  LateInv'
<1>1. IInv /\ AlarmInv /\ OrderInv /\ ExactInv /\ DelayInv /\ ServerInv /\ ServerInv'
  BY DEF LateInv, IInv
<1>2. /\ MIN_ALARM_DELAY \in Int /\ MIN_ALARM_DELAY > 0 /\ MaxSlip \in Int /\ MaxSlip >= 0
      /\ elapsed \in Int /\ elapsed >= 0 /\ elapsed' \in Int
      /\ timerList # <<>> => elapsed' = elapsed
      /\ slip \in Int /\ slip >= 0 /\ slip <= MaxSlip
      /\ d >= MIN_ALARM_DELAY /\ d # None
  BY <1>1, SlipFacts, CounterFacts DEF InsertedAt, Section
<1>3. /\ Len(timerList) \in Nat /\ Len(timerList') = Len(timerList) + 1
      /\ timerList' # <<>>
      /\ timerList # <<>> <=> Len(timerList) >= 1
      /\ \A i \in 1 .. Len(timerList) : Stamp(i) \in Int /\ Due(i) \in Int
  <2>1. Len(timerList) \in Nat /\ Len(timerList') = Len(timerList) + 1
    BY <1>1, PlaceFacts DEF InsertedAt
  <2>2. Len(timerList') # 0
    BY <2>1
  <2>3. timerList' # <<>>
    BY <2>2
  <2>4. QED
    BY <1>1, <2>1, <2>3, PlaceFacts
<1>4. ASSUME NEW i \in 1 .. Len(timerList')
      PROVE  /\ Stamp(i)' = IF i < q THEN Stamp(i) ELSE IF i = q THEN d ELSE Stamp(i - 1)
             /\ Due(i)' = IF i < q THEN Due(i) ELSE IF i = q THEN d ELSE Due(i - 1)
  BY <1>3 DEF InsertedAt
<1>5. \A i \in 1 .. Len(timerList') :
        /\ MaxLate \in Int /\ Stage(i) \in Int /\ Stage(i) >= 0 /\ Stage(i) + 3 * MaxSlip <= MaxLate
  <2>1. SUFFICES ASSUME NEW i \in 1 .. Len(timerList')
                 PROVE  /\ MaxLate \in Int /\ Stage(i) \in Int /\ Stage(i) >= 0
                        /\ Stage(i) + 3 * MaxSlip <= MaxLate
    OBVIOUS
  <2>2. i \in Nat /\ i >= 1 /\ i <= Cardinality(Timers) /\ Cardinality(Timers) \in Nat
    <3>1. Len(timerList') <= Cardinality(Timers) /\ Cardinality(Timers) \in Nat
      <4>1. timerList' \in Seq(Timers) /\ Distinct(timerList')
        BY <1>1 DEF ServerInv, ServerType, ListIsRunning, Distinct
      <4>2. QED
        BY <4>1, DistinctLength
    <3>2. QED
      BY <1>3, <3>1
  <2>3. QED
    BY <2>2, PlaceRoom
<1>6. /\ \A i, j \in 2 .. Len(timerList) : i <= j => Stamp(i) <= Stamp(j)
      /\ Len(timerList) > 1 => Stamp(1) <= MIN_ALARM_DELAY \/ Stamp(1) <= Stamp(2)
  BY <1>1 DEF OrderInv
<1>7. \A i \in 1 .. Len(timerList) :
        Due(i) = Stamp(i) \/ Stamp(i) + elapsed <= 0 \/ (i = 1 /\ Stamp(1) <= MIN_ALARM_DELAY)
  BY <1>1 DEF ExactInv
<1>8. /\ q = 1 => /\ arming' = d /\ IsPending'[timerList'[1]]
                  /\ timerList # <<>> => d < Stamp(1)
      /\ q > 1 => /\ arming' = arming /\ timerList # <<>> /\ Stamp(1) <= d
                  /\ IsPending'[timerList'[1]] = IsPending[timerList[1]]
      /\ \A i \in 2 .. q - 1 : Stamp(i) <= d
      /\ q > 1 /\ q <= Len(timerList) => d <= Stamp(q)
  BY DEF InsertedAt
<1>9. /\ handler' = handler /\ handler # "loop"
      /\ arming = None /\ alarm' = alarm /\ alarmFlag' = alarmFlag /\ slip' = slip
  BY <1>1 DEF Section, AlarmInv
<1>10. 1 \in 1 .. Len(timerList') /\ (q > 1 => Stamp(1)' = Stamp(1)) /\ (q = 1 => Stamp(1)' = d)
  <2>1. 1 \in 1 .. Len(timerList')
    BY <1>3
  <2>2. QED
    BY <1>4, <2>1
<1>11. q \in Int /\ (q = 1 \/ q > 1)
  BY <1>3
<1>12. AlarmInv'
  <2>1. alarmFlag' => alarm' = None /\ handler' = "off"
    BY <1>1, <1>9 DEF AlarmInv
  <2>2. ASSUME handler' # "off", alarm' # None
        PROVE  /\ alarm' + slip' > MaxSlip
               /\ arming' = None =>
                    timerList' # <<>> /\ IsPending'[timerList'[1]] /\ alarm' = Stamp(1)'
    <3>1. alarm + slip > MaxSlip /\ timerList # <<>> /\ IsPending[timerList[1]] /\ alarm = Stamp(1)
      BY <1>1, <1>9, <2>2 DEF AlarmInv
    <3>2. ASSUME arming' = None PROVE IsPending'[timerList'[1]] /\ alarm' = Stamp(1)'
      <4>1. q > 1
        BY <1>2, <1>8, <1>11, <3>2
      <4>2. IsPending'[timerList'[1]] = IsPending[timerList[1]]
        BY <1>8, <4>1
      <4>3. QED
        BY <1>9, <1>10, <3>1, <4>1, <4>2
    <3>3. QED
      BY <1>3, <1>9, <3>1, <3>2
  <2>3. ASSUME handler' = "off", alarmFlag', arming' = None, timerList' # <<>>
        PROVE  Stamp(1)' + slip' >= 0
    <3>1. q > 1 /\ handler = "off"
      BY <1>2, <1>8, <1>9, <1>11, <2>3
    <3>2. QED
      BY <1>1, <1>8, <1>9, <1>10, <2>3, <3>1 DEF AlarmInv
  <2>4. arming' # None => timerList' # <<>> /\ IsPending'[timerList'[1]] /\ arming' = Stamp(1)'
    BY <1>3, <1>8, <1>9, <1>10, <1>11
  <2>5. handler' # "loop"
    BY <1>9
  <2>6. QED
    BY <2>1, <2>2, <2>3, <2>4, <2>5 DEF AlarmInv
<1>13. q = 1 => \A i \in 1 .. Len(timerList) : d < Stamp(i)
  <2>1. SUFFICES ASSUME q = 1, NEW i \in 1 .. Len(timerList) PROVE d < Stamp(i)
    OBVIOUS
  <2>2. d < Stamp(1) /\ Stamp(1) \in Int
    BY <1>3, <1>8, <2>1
  <2>3. CASE i = 1
    BY <2>2, <2>3
  <2>4. CASE i # 1
    <3>1. Len(timerList) > 1 /\ 2 \in 2 .. Len(timerList) /\ i \in 2 .. Len(timerList) /\ 2 <= i
          /\ 2 \in 1 .. Len(timerList)
      BY <1>3, <2>4
    <3>2. Stamp(1) <= Stamp(2) /\ Stamp(2) <= Stamp(i)
      BY <1>2, <1>3, <1>6, <2>2, <3>1
    <3>3. QED
      BY <1>3, <2>2, <3>1, <3>2
  <2>5. QED
    BY <2>3, <2>4
<1>14. q > 1 => \A i \in q .. Len(timerList) : d <= Stamp(i)
  <2>1. SUFFICES ASSUME q > 1, NEW i \in q .. Len(timerList) PROVE d <= Stamp(i)
    OBVIOUS
  <2>2. q \in 2 .. Len(timerList) /\ i \in 2 .. Len(timerList) /\ q <= i
        /\ q \in 1 .. Len(timerList) /\ i \in 1 .. Len(timerList)
    BY <1>3, <1>11, <2>1
  <2>3. d <= Stamp(q) /\ Stamp(q) <= Stamp(i) /\ Stamp(q) \in Int /\ Stamp(i) \in Int
    BY <1>3, <1>6, <1>8, <2>1, <2>2
  <2>4. QED
    BY <2>3
<1>15. \A i \in 1 .. Len(timerList) : i >= q => d <= Stamp(i) /\ Due(i) = Stamp(i)
  <2>1. SUFFICES ASSUME NEW i \in 1 .. Len(timerList), i >= q PROVE d <= Stamp(i) /\ Due(i) = Stamp(i)
    OBVIOUS
  <2>2. Stamp(i) \in Int /\ Due(i) \in Int /\ d <= Stamp(i) /\ (i = 1 => d < Stamp(1))
    BY <1>3, <1>11, <1>13, <1>14, <2>1
  <2>3. Due(i) = Stamp(i) \/ Stamp(i) + elapsed <= 0 \/ (i = 1 /\ Stamp(1) <= MIN_ALARM_DELAY)
    BY <1>7
  <2>4. QED
    BY <1>2, <2>2, <2>3
<1>16. OrderInv'
  <2>1. ASSUME NEW i \in 2 .. Len(timerList'), NEW j \in 2 .. Len(timerList'), i <= j
        PROVE  Stamp(i)' <= Stamp(j)'
    <3>1. i \in 1 .. Len(timerList') /\ j \in 1 .. Len(timerList')
      BY <1>3, <2>1
    <3>2. CASE i < q /\ j < q
      <4>1. i \in 2 .. Len(timerList) /\ j \in 2 .. Len(timerList)
        BY <1>3, <3>2
      <4>2. QED
        BY <1>4, <1>6, <2>1, <3>1, <3>2, <4>1
    <3>3. CASE i < q /\ j = q
      <4>1. i \in 2 .. q - 1
        BY <1>3, <3>3
      <4>2. QED
        BY <1>4, <1>8, <3>1, <3>3, <4>1
    <3>4. CASE i < q /\ j > q
      <4>1. i \in 2 .. Len(timerList) /\ j - 1 \in 2 .. Len(timerList) /\ i <= j - 1
        BY <1>3, <3>4
      <4>2. Stamp(i) <= Stamp(j - 1)
        BY <1>6, <4>1
      <4>3. Stamp(i)' = Stamp(i) /\ Stamp(j)' = Stamp(j - 1)
        BY <1>4, <3>1, <3>4
      <4>4. QED
        BY <4>2, <4>3
    <3>5. CASE i = q /\ j = q
      BY <1>4, <3>1, <3>5
    <3>6. CASE i = q /\ j > q
      <4>1. j - 1 \in 1 .. Len(timerList) /\ j - 1 >= q
        BY <1>3, <3>6
      <4>2. d <= Stamp(j - 1)
        BY <1>15, <4>1
      <4>3. Stamp(i)' = d /\ Stamp(j)' = Stamp(j - 1)
        BY <1>4, <3>1, <3>6
      <4>4. QED
        BY <4>2, <4>3
    <3>7. CASE i > q
      <4>1. j > q /\ i - 1 \in 1 .. Len(timerList) /\ j - 1 \in 1 .. Len(timerList) /\ i - 1 <= j - 1
        BY <1>3, <2>1, <3>7
      <4>2. Stamp(i)' = Stamp(i - 1) /\ Stamp(j)' = Stamp(j - 1)
        BY <1>4, <3>1, <3>7, <4>1
      <4>3. CASE i - 1 > 1
        <5>1. i - 1 \in 2 .. Len(timerList) /\ j - 1 \in 2 .. Len(timerList)
          BY <1>3, <4>1, <4>3
        <5>2. Stamp(i - 1) <= Stamp(j - 1)
          BY <1>6, <4>1, <5>1
        <5>3. QED
          BY <4>2, <5>2
      <4>4. CASE ~(i - 1 > 1)
        <5>1. i - 1 = 1 /\ q = 1
          BY <1>11, <3>7, <4>1, <4>4
        <5>2. CASE j - 1 = 1
          BY <1>3, <4>1, <4>2, <5>1, <5>2
        <5>3. CASE j - 1 # 1
          <6>1. Len(timerList) > 1 /\ j - 1 \in 2 .. Len(timerList) /\ 2 \in 2 .. Len(timerList)
                /\ 2 <= j - 1 /\ 1 \in 1 .. Len(timerList) /\ 2 \in 1 .. Len(timerList)
            BY <1>3, <4>1, <5>3
          <6>2. Stamp(1) <= Stamp(2) /\ Stamp(2) <= Stamp(j - 1)
            BY <1>2, <1>3, <1>6, <1>13, <5>1, <6>1
          <6>3. Stamp(1) <= Stamp(j - 1)
            BY <1>3, <4>1, <6>1, <6>2, SMTT(30)
          <6>4. QED
            BY <4>2, <5>1, <6>3
        <5>4. QED
          BY <5>2, <5>3
      <4>5. QED
        BY <4>3, <4>4
    <3>8. QED
      BY <1>3, <1>11, <2>1, <3>2, <3>3, <3>4, <3>5, <3>6, <3>7
  <2>2. ASSUME Len(timerList') > 1
        PROVE  Stamp(1)' <= MIN_ALARM_DELAY \/ Stamp(1)' <= Stamp(2)'
    <3>1. 2 \in 1 .. Len(timerList') /\ 1 \in 1 .. Len(timerList)
      BY <1>3, <2>2
    <3>2. CASE q = 1
      <4>1. Stamp(1)' = d /\ Stamp(2)' = Stamp(1) /\ d < Stamp(1) /\ Stamp(1) \in Int
        <5>1. Stamp(2)' = Stamp(2 - 1)
          BY <1>4, <3>1, <3>2
        <5>2. QED
          BY <1>3, <1>10, <1>13, <3>1, <3>2, <5>1
      <4>2. QED
        BY <4>1
    <3>3. CASE q = 2
      BY <1>4, <1>8, <1>10, <3>1, <3>3
    <3>4. CASE q > 2
      <4>1. Len(timerList) > 1 /\ Stamp(2)' = Stamp(2) /\ Stamp(1)' = Stamp(1)
        BY <1>3, <1>4, <1>10, <3>1, <3>4
      <4>2. QED
        BY <1>6, <4>1
    <3>5. QED
      BY <1>11, <3>2, <3>3, <3>4
  <2>3. QED
    BY <2>1, <2>2 DEF OrderInv
<1>17. ExactInv'
  <2>1. ASSUME NEW i \in 1 .. Len(timerList')
        PROVE  Due(i)' = Stamp(i)' \/ Stamp(i)' + elapsed' <= 0 \/ (i = 1 /\ Stamp(1)' <= MIN_ALARM_DELAY)
    <3>1. CASE i < q
      <4>1. i \in 1 .. Len(timerList) /\ q > 1
        BY <1>3, <1>11, <3>1
      <4>2. Due(i) = Stamp(i) \/ Stamp(i) + elapsed <= 0 \/ (i = 1 /\ Stamp(1) <= MIN_ALARM_DELAY)
        BY <1>7, <4>1
      <4>3. elapsed' = elapsed
        BY <1>2, <1>8, <4>1
      <4>4. QED
        BY <1>4, <1>10, <3>1, <4>1, <4>2, <4>3
    <3>2. CASE i = q
      BY <1>4, <3>2
    <3>3. CASE i > q
      <4>1. i - 1 \in 1 .. Len(timerList) /\ i - 1 >= q
        BY <1>3, <3>3
      <4>2. Due(i - 1) = Stamp(i - 1)
        BY <1>15, <4>1
      <4>3. Due(i)' = Due(i - 1) /\ Stamp(i)' = Stamp(i - 1)
        BY <1>4, <3>3
      <4>4. QED
        BY <4>2, <4>3
    <3>4. QED
      BY <1>3, <1>11, <3>1, <3>2, <3>3
  <2>2. QED
    BY <2>1 DEF ExactInv
<1>18. Rest' \in Int /\ Rest' <= d + 3 * MaxSlip
       /\ (q > 1 => Rest \in Int /\ Rest' <= Rest)
  <2>1. CASE q = 1
    <3>1. arming' # None /\ Stamp(1)' = d
      BY <1>2, <1>8, <1>10, <2>1
    <3>2. Rest' = d + 2 * MaxSlip
      BY <3>1 DEF Rest
    <3>3. ~(q > 1)
      BY <2>1
    <3>4. QED
      BY <1>2, <3>2, <3>3
  <2>2. CASE q > 1
    <3>1. timerList # <<>> /\ Stamp(1)' = Stamp(1) /\ Stamp(1) <= d /\ Stamp(1) \in Int
          /\ arming' = arming
      BY <1>3, <1>8, <1>10, <2>2
    <3>2. Rest \in Int /\ Rest' \in Int /\ Rest' <= Rest
      BY <1>1, <1>9, <3>1, RestFacts, SectionRest
    <3>3. Rest <= d + 3 * MaxSlip
      <4>1. CASE handler = "off" \/ arming # None \/ alarm # None
        <5>1. Rest = Stamp(1) + 2 * MaxSlip
          BY <4>1 DEF Rest
        <5>2. QED
          BY <1>2, <3>1, <5>1
      <4>2. CASE ~(handler = "off" \/ arming # None \/ alarm # None)
        <5>1. NotTooSoon(Stamp(1)) \in Int /\ NotTooSoon(Stamp(1)) <= d
          BY <1>2, <3>1 DEF NotTooSoon
        <5>2. Rest = 2 * MaxSlip - slip \/ Rest = MaxSlip - slip
              \/ Rest = NotTooSoon(Stamp(1)) + 3 * MaxSlip - slip
          BY <4>2 DEF Rest
        <5>3. QED
          BY <1>2, <5>1, <5>2
      <4>3. QED
        BY <4>1, <4>2
    <3>4. Rest' <= d + 3 * MaxSlip
      <4>1. MaxSlip \in Int
        BY <1>2
      <4>2. QED
        BY ONLY <3>2, <3>3, <4>1, d \in Int
    <3>5. QED
      BY <3>2, <3>4
  <2>3. QED
    BY <1>11, <2>1, <2>2
<1>19. DelayInv'
  <2>1. ASSUME NEW i \in 1 .. Len(timerList') PROVE Due(i)' + MaxLate >= Rest' + Stage(i)
    <3>1. MaxLate \in Int /\ Stage(i) \in Int /\ Stage(i) + 3 * MaxSlip <= MaxLate
      BY <1>5
    <3>2. CASE i < q
      <4>1. i \in 1 .. Len(timerList) /\ q > 1
        BY <1>3, <1>11, <3>2
      <4>2. Due(i) + MaxLate >= Rest + Stage(i) /\ Due(i) \in Int /\ Due(i)' = Due(i)
        BY <1>1, <1>3, <1>4, <3>2, <4>1 DEF DelayInv
      <4>3. QED
        BY <1>18, <3>1, <4>1, <4>2
    <3>3. CASE i >= q
      <4>1. Due(i)' \in Int /\ Due(i)' >= d
        <5>1. CASE i = q
          <6>1. Due(i)' = d
            BY <1>4, <5>1
          <6>2. QED
            BY <6>1
        <5>2. CASE i > q
          <6>1. i - 1 \in 1 .. Len(timerList) /\ i - 1 >= q
            BY <1>3, <5>2
          <6>2. Due(i - 1) \in Int /\ Due(i - 1) >= d
            BY <1>3, <1>15, <6>1
          <6>3. Due(i)' = Due(i - 1)
            BY <1>4, <5>2
          <6>4. QED
            BY <6>2, <6>3
        <5>3. QED
          BY <1>3, <1>11, <3>3, <5>1, <5>2
      <4>2. Rest' \in Int /\ Rest' <= d + 3 * MaxSlip /\ MaxSlip \in Int
        BY <1>2, <1>18
      <4>3. QED
        BY ONLY <3>1, <4>1, <4>2, d \in Int
    <3>4. QED
      BY <1>3, <1>11, <3>2, <3>3
  <2>2. QED
    BY <2>1 DEF DelayInv, Stage, MaxLate
<1>20. QED
  BY <1>12, <1>16, <1>17, <1>19 DEF LateInv


\* When the head is stopped, the next timer may be put off to MIN_ALARM_DELAY; that
\* is what its stage allows, and the others come after it.
LEMMA StopLate ==
  ASSUME LateInv, IInv', Section, NEW q \in 1 .. Len(timerList), RemovedAt(q)
  PROVE  LateInv'
<1>1. IInv /\ AlarmInv /\ OrderInv /\ ExactInv /\ DelayInv /\ ServerInv /\ ServerInv'
  BY DEF LateInv, IInv
<1>2. /\ MIN_ALARM_DELAY \in Int /\ MIN_ALARM_DELAY > 0 /\ MaxSlip \in Int /\ MaxSlip >= 0
      /\ elapsed \in Int /\ elapsed >= 0 /\ elapsed' = elapsed
      /\ slip \in Int /\ slip >= 0 /\ slip <= MaxSlip
  <2>1. timerList # <<>>
    <3>1. Len(timerList) >= 1
      BY <1>1, PlaceFacts
    <3>2. QED
      BY <1>1, <3>1, PlaceFacts
  <2>2. QED
    BY <1>1, <2>1, SlipFacts, CounterFacts DEF Section
<1>3. /\ Len(timerList) \in Nat /\ Len(timerList) >= 1 /\ timerList # <<>>
      /\ Len(timerList') = Len(timerList) - 1
      /\ timerList' # <<>> <=> Len(timerList) > 1
      /\ q \in Int /\ (q = 1 \/ q > 1)
  <2>1. Len(timerList) \in Nat /\ (timerList # <<>> <=> Len(timerList) >= 1)
    BY <1>1, PlaceFacts
  <2>2. Len(timerList') = Len(timerList) - 1 /\ timerList' \in Seq(Timers)
    BY <1>1 DEF RemovedAt, ServerInv, ServerType
  <2>3. timerList' # <<>> <=> Len(timerList') # 0
    BY <2>2
  <2>4. QED
    BY <2>1, <2>2, <2>3
<1>4. \A i \in 1 .. Len(timerList) : Stamp(i) \in Int /\ Due(i) \in Int
  BY <1>1, PlaceFacts
<1>5. ASSUME NEW i \in 1 .. Len(timerList')
      PROVE  /\ i \in 1 .. Len(timerList) /\ i + 1 \in 1 .. Len(timerList)
             /\ i < q => Stamp(i)' = Stamp(i) /\ Due(i)' = Due(i)
             /\ ~(i < q) => Due(i)' = Due(i + 1)
             /\ ~(i < q) /\ i # 1 => Stamp(i)' = Stamp(i + 1)
             /\ ~(i < q) /\ i = 1 => Stamp(i)' = NotTooSoon(Stamp(2))
  BY <1>3 DEF RemovedAt
<1>6. /\ q = 1 /\ Len(timerList) > 1 =>
           arming' = Stamp(1)' /\ IsPending'[timerList'[1]] /\ UNCHANGED <<alarm, alarmFlag>>
      /\ q = 1 /\ Len(timerList) = 1 => arming' = arming /\ alarm' = None /\ alarmFlag' = FALSE
      /\ q > 1 => /\ UNCHANGED <<arming, alarm, alarmFlag>>
                  /\ IsPending'[timerList'[1]] = IsPending[timerList[1]]
  BY DEF RemovedAt
<1>7. /\ handler' = handler /\ handler # "loop"
      /\ arming = None /\ slip' = slip
      /\ alarm' = alarm \/ alarm' = None
      /\ alarmFlag' => alarmFlag /\ alarm' = None /\ handler = "off"
  BY <1>1, <1>3, <1>6 DEF Section, AlarmInv
<1>8. \A i, j \in 2 .. Len(timerList) : i <= j => Stamp(i) <= Stamp(j)
  BY <1>1 DEF OrderInv
<1>9. q > 1 /\ Len(timerList) > 1 => Stamp(1)' = Stamp(1)
  <2>1. Len(timerList) > 1 => 1 \in 1 .. Len(timerList')
    BY <1>3
  <2>2. QED
    BY <1>5, <2>1
<1>10. q = 1 /\ Len(timerList) > 1 =>
         /\ Stamp(1)' = NotTooSoon(Stamp(2)) /\ Stamp(2) \in Int
         /\ Stamp(1)' \in Int /\ Stamp(1)' >= MIN_ALARM_DELAY /\ Stamp(1)' # None
         /\ Stamp(1)' = MIN_ALARM_DELAY \/ Stamp(1)' = Stamp(2)
         /\ Stamp(2) < MIN_ALARM_DELAY => Stamp(1)' = MIN_ALARM_DELAY
         /\ Stamp(2) >= MIN_ALARM_DELAY => Stamp(1)' = Stamp(2)
  <2>1. SUFFICES ASSUME q = 1, Len(timerList) > 1
                 PROVE  /\ Stamp(1)' = NotTooSoon(Stamp(2)) /\ Stamp(2) \in Int
                        /\ Stamp(1)' \in Int /\ Stamp(1)' >= MIN_ALARM_DELAY /\ Stamp(1)' # None
                        /\ Stamp(1)' = MIN_ALARM_DELAY \/ Stamp(1)' = Stamp(2)
                        /\ Stamp(2) < MIN_ALARM_DELAY => Stamp(1)' = MIN_ALARM_DELAY
                        /\ Stamp(2) >= MIN_ALARM_DELAY => Stamp(1)' = Stamp(2)
    OBVIOUS
  <2>2. 1 \in 1 .. Len(timerList') /\ 2 \in 1 .. Len(timerList) /\ ~(1 < q)
    BY <1>3, <2>1
  <2>3. Stamp(1)' = NotTooSoon(Stamp(2)) /\ Stamp(2) \in Int
    BY <1>4, <1>5, <2>2
  <2>4. QED
    BY <1>2, <2>3, SlipFacts DEF NotTooSoon
<1>11. AlarmInv'
  <2>1. alarmFlag' => alarm' = None /\ handler' = "off"
    BY <1>7
  <2>2. ASSUME handler' # "off", alarm' # None
        PROVE  /\ alarm' + slip' > MaxSlip
               /\ arming' = None =>
                    timerList' # <<>> /\ IsPending'[timerList'[1]] /\ alarm' = Stamp(1)'
    <3>1. alarm + slip > MaxSlip /\ IsPending[timerList[1]] /\ alarm = Stamp(1)
      BY <1>1, <1>7, <2>2 DEF AlarmInv
    <3>2. Len(timerList) > 1
      BY <1>3, <1>6, <2>2
    <3>3. ASSUME arming' = None PROVE IsPending'[timerList'[1]] /\ alarm' = Stamp(1)'
      <4>1. q > 1
        BY <1>3, <1>6, <1>10, <3>2, <3>3
      <4>2. IsPending'[timerList'[1]] = IsPending[timerList[1]] /\ alarm' = alarm
        BY <1>6, <4>1
      <4>3. QED
        BY <1>9, <3>1, <3>2, <4>1, <4>2
    <3>4. QED
      BY <1>3, <1>7, <2>2, <3>1, <3>2, <3>3
  <2>3. ASSUME handler' = "off", alarmFlag', arming' = None, timerList' # <<>>
        PROVE  Stamp(1)' + slip' >= 0
    <3>1. q > 1 /\ handler = "off" /\ Len(timerList) > 1
      BY <1>3, <1>6, <1>7, <1>10, <2>3
    <3>2. QED
      BY <1>1, <1>3, <1>7, <1>9, <2>3, <3>1 DEF AlarmInv
  <2>4. ASSUME arming' # None
        PROVE  timerList' # <<>> /\ IsPending'[timerList'[1]] /\ arming' = Stamp(1)'
    <3>1. q = 1 /\ Len(timerList) > 1
      BY <1>3, <1>6, <1>7, <2>4
    <3>2. QED
      BY <1>3, <1>6, <3>1
  <2>5. handler' # "loop"
    BY <1>7
  <2>6. QED
    BY <2>1, <2>2, <2>3, <2>4, <2>5 DEF AlarmInv
<1>12. OrderInv'
  <2>1. ASSUME NEW i \in 2 .. Len(timerList'), NEW j \in 2 .. Len(timerList'), i <= j
        PROVE  Stamp(i)' <= Stamp(j)'
    <3>1. /\ i \in 1 .. Len(timerList') /\ j \in 1 .. Len(timerList') /\ i # 1 /\ j # 1
          /\ i \in 2 .. Len(timerList) /\ i + 1 \in 2 .. Len(timerList)
          /\ j \in 2 .. Len(timerList) /\ j + 1 \in 2 .. Len(timerList)
      BY <1>3, <2>1
    <3>2. IF i < q THEN Stamp(i)' = Stamp(i) ELSE Stamp(i)' = Stamp(i + 1)
      BY <1>5, <3>1
    <3>3. IF j < q THEN Stamp(j)' = Stamp(j) ELSE Stamp(j)' = Stamp(j + 1)
      BY <1>5, <3>1
    <3>4. /\ Stamp(i) <= Stamp(j)
          /\ Stamp(i) <= Stamp(j + 1)
          /\ Stamp(i + 1) <= Stamp(j + 1)
      BY <1>8, <2>1, <3>1
    <3>5. ~(j < q) \/ i < q
      BY <1>3, <2>1, <3>1
    <3>6. QED
      BY <3>2, <3>3, <3>4, <3>5
  <2>2. ASSUME Len(timerList') > 1
        PROVE  Stamp(1)' <= MIN_ALARM_DELAY \/ Stamp(1)' <= Stamp(2)'
    <3>1. /\ 2 \in 1 .. Len(timerList') /\ 2 \in 1 .. Len(timerList) /\ 3 \in 1 .. Len(timerList)
          /\ 2 \in 2 .. Len(timerList) /\ 3 \in 2 .. Len(timerList) /\ 2 + 1 = 3
          /\ Len(timerList) > 1
      BY <1>3, <2>2
    <3>2. Stamp(2) <= Stamp(3) /\ Stamp(2) \in Int /\ Stamp(3) \in Int /\ Stamp(1) \in Int
      BY <1>3, <1>4, <1>8, <3>1
    <3>3. Stamp(2)' = Stamp(2) \/ Stamp(2)' = Stamp(3)
      BY <1>5, <3>1
    <3>4. CASE q = 1
      <4>1. Stamp(2)' = Stamp(3)
        BY <1>5, <3>1, <3>4
      <4>2. QED
        BY <1>2, <1>10, <3>1, <3>2, <3>4, <4>1
    <3>5. CASE q > 1
      <4>1. Stamp(1) <= MIN_ALARM_DELAY \/ Stamp(1) <= Stamp(2)
        BY <1>1, <3>1 DEF OrderInv
      <4>2. QED
        BY <1>2, <1>9, <3>1, <3>2, <3>3, <3>5, <4>1
    <3>6. QED
      BY <1>3, <3>4, <3>5
  <2>3. QED
    BY <2>1, <2>2 DEF OrderInv
<1>13. \A i \in 1 .. Len(timerList) :
         Due(i) = Stamp(i) \/ Stamp(i) + elapsed <= 0 \/ (i = 1 /\ Stamp(1) <= MIN_ALARM_DELAY)
  BY <1>1 DEF ExactInv
<1>14. ExactInv'
  <2>1. ASSUME NEW i \in 1 .. Len(timerList')
        PROVE  Due(i)' = Stamp(i)' \/ Stamp(i)' + elapsed' <= 0 \/ (i = 1 /\ Stamp(1)' <= MIN_ALARM_DELAY)
    <3>1. CASE i < q
      <4>1. q > 1 /\ Len(timerList) > 1
        BY <1>3, <3>1
      <4>2. QED
        BY <1>2, <1>5, <1>9, <1>13, <3>1, <4>1
    <3>2. CASE ~(i < q) /\ i # 1
      <4>1. i + 1 # 1 /\ i + 1 \in 1 .. Len(timerList)
        BY <1>5
      <4>2. Due(i + 1) = Stamp(i + 1) \/ Stamp(i + 1) + elapsed <= 0
        BY <1>13, <4>1
      <4>3. QED
        BY <1>2, <1>5, <3>2, <4>2
    <3>3. CASE ~(i < q) /\ i = 1
      <4>1. q = 1 /\ Len(timerList) > 1 /\ 2 \in 1 .. Len(timerList) /\ 1 + 1 = 2
        BY <1>3, <3>3
      <4>2. Due(2) = Stamp(2) \/ Stamp(2) + elapsed <= 0
        BY <1>13, <4>1
      <4>3. Due(1)' = Due(2)
        BY <1>5, <3>3, <4>1
      <4>4. QED
        BY <1>2, <1>10, <3>3, <4>1, <4>2, <4>3
    <3>4. QED
      BY <3>1, <3>2, <3>3
  <2>2. QED
    BY <2>1 DEF ExactInv
<1>15. \A i \in 1 .. Len(timerList) : Due(i) + MaxLate >= Rest + Stage(i)
  BY <1>1 DEF DelayInv
<1>16. Rest \in Int /\ Rest >= MaxSlip
  <2>1. handler = "callback" \/ (handler = "off" /\ arming = None)
    BY <1>1, <1>7, CounterFacts
  <2>2. QED
    BY <1>1, <1>3, <2>1, RestFacts
<1>17. DelayInv'
  <2>1. ASSUME NEW i \in 1 .. Len(timerList') PROVE Due(i)' + MaxLate >= Rest' + Stage(i)
    <3>1. /\ i \in 1 .. Len(timerList) /\ i + 1 \in 1 .. Len(timerList)
          /\ Due(i) \in Int /\ Due(i + 1) \in Int /\ Len(timerList) > 1
      BY <1>3, <1>4, <1>5
    <3>2. /\ MIN_ALARM_DELAY \in Int /\ MIN_ALARM_DELAY > 0 /\ MaxSlip \in Int /\ MaxSlip >= 0
          /\ MaxLate \in Int /\ Stage(i) \in Int
          /\ Due(i) \in Int /\ Due(i + 1) \in Int /\ Rest \in Int /\ Rest >= MaxSlip
      BY <1>1, <1>2, <1>16, <3>1, StageRoom
    <3>3. Due(i) + MaxLate >= Rest + Stage(i)
      BY <1>15, <3>1
    <3>4. Due(i + 1) + MaxLate >= Rest + Stage(i) + MIN_ALARM_DELAY + MaxSlip
      <4>1. Due(i + 1) + MaxLate >= Rest + Stage(i + 1)
        BY <1>15, <3>1
      <4>2. Stage(i + 1) = Stage(i) + MIN_ALARM_DELAY + MaxSlip
        BY <3>1, StageFacts
      <4>3. QED
        BY ONLY <3>2, <4>1, <4>2
    <3>5. CASE q > 1
      <4>1. Rest' \in Int /\ Rest' <= Rest
        BY <1>1, <1>3, <1>6, <1>9, <3>1, <3>5, SectionRest
      <4>2. Due(i)' = Due(i) \/ Due(i)' = Due(i + 1)
        BY <1>5
      <4>3. Due(i) + MaxLate >= Rest' + Stage(i)
        BY ONLY <3>2, <3>3, <4>1
      <4>4. Due(i + 1) + MaxLate >= Rest' + Stage(i)
        BY ONLY <3>2, <3>4, <4>1, SMTT(30)
      <4>5. QED
        BY ONLY <4>2, <4>3, <4>4
    <3>6. CASE q = 1
      <4>1. Due(i)' = Due(i + 1)
        BY <1>5, <3>6
      <4>2. arming' # None
        BY <1>6, <1>10, <3>1, <3>6
      <4>3. Rest' = Stamp(1)' + 2 * MaxSlip
        BY <4>2 DEF Rest
      <4>4. CASE Stamp(2) < MIN_ALARM_DELAY
        <5>1. Rest' = MIN_ALARM_DELAY + 2 * MaxSlip
          BY <1>10, <3>1, <3>6, <4>3, <4>4
        <5>2. Due(i + 1) + MaxLate >= MIN_ALARM_DELAY + 2 * MaxSlip + Stage(i)
          <6>1. PICK a \in Int, s \in Int, m \in Int :
                  a = Due(i + 1) + MaxLate /\ s = Stage(i) /\ m = MIN_ALARM_DELAY
            BY ONLY <3>2
          <6>2. a >= Rest + s + m + MaxSlip
            BY ONLY <3>4, <6>1
          <6>3. Rest \in Int /\ MaxSlip \in Int /\ Rest >= MaxSlip
            BY ONLY <3>2
          <6>4. a >= m + 2 * MaxSlip + s
            BY ONLY <6>2, <6>3
          <6>5. QED
            BY ONLY <6>1, <6>4
        <5>3. Due(i)' + MaxLate >= MIN_ALARM_DELAY + 2 * MaxSlip + Stage(i)
          BY ONLY <4>1, <5>2, Zenon
        <5>4. QED
          BY ONLY <5>1, <5>3, Zenon
      <4>5. CASE Stamp(2) >= MIN_ALARM_DELAY
        <5>1. Rest' = Stamp(2) + 2 * MaxSlip /\ Stamp(2) \in Int
          BY <1>10, <3>1, <3>6, <4>3, <4>5
        <5>2. Stamp(2) <= Stamp(i + 1) /\ Stamp(i + 1) \in Int
          <6>1. 2 \in 2 .. Len(timerList) /\ i + 1 \in 2 .. Len(timerList) /\ 2 <= i + 1
            BY <1>3, <3>1
          <6>2. QED
            BY <1>4, <1>8, <3>1, <6>1
        <5>3. Due(i + 1) >= Stamp(2)
          <6>1. Due(i + 1) = Stamp(i + 1) \/ Stamp(i + 1) + elapsed <= 0
            BY <1>13, <3>1
          <6>2. QED
            BY <1>2, <4>5, <5>1, <5>2, <6>1
        <5>4. Stage(i) + 3 * MaxSlip <= MaxLate
          BY <1>1, <3>1, StageRoom
        <5>5. Due(i + 1) + MaxLate >= Stamp(2) + 2 * MaxSlip + Stage(i)
          BY ONLY <3>2, <5>1, <5>3, <5>4, SMTT(30)
        <5>6. QED
          BY ONLY <4>1, <5>1, <5>5
      <4>6. QED
        BY <1>2, <1>10, <3>1, <3>6, <4>4, <4>5
    <3>7. QED
      BY <1>3, <3>5, <3>6
  <2>2. QED
    BY <2>1 DEF DelayInv, Stage, MaxLate
<1>18. QED
  BY <1>11, <1>12, <1>14, <1>17 DEF LateInv

\* A function that leaves the list and its times alone.
LEMMA SectionLate ==
  ASSUME LateInv, IInv', Section, UNCHANGED <<timerList, arming, alarm, alarmFlag>>,
         timerList # <<>> => UNCHANGED IsPending[timerList[1]],
         \A i \in 1 .. Len(timerList) : Stamp(i)' = Stamp(i) /\ Due(i)' = Due(i)
  PROVE  LateInv'
<1>1. IInv /\ AlarmInv /\ OrderInv /\ ExactInv /\ DelayInv /\ ServerInv
  BY DEF LateInv, IInv
<1>2. /\ Len(timerList) \in Nat /\ (timerList # <<>> => 1 \in 1 .. Len(timerList))
      /\ \A i \in 1 .. Len(timerList) : Stamp(i) \in Int /\ Due(i) \in Int
  BY <1>1, PlaceFacts
<1>3. AlarmInv'
  <2>1. timerList # <<>> => Stamp(1)' = Stamp(1) /\ IsPending'[timerList'[1]] = IsPending[timerList[1]]
    BY <1>2
  <2>2. UNCHANGED <<handler, slip, timerList, arming, alarm, alarmFlag>>
    BY DEF Section
  <2>3. QED
    BY <1>1, <2>1, <2>2 DEF AlarmInv
<1>4. OrderInv'
  <2>1. ASSUME NEW i \in 2 .. Len(timerList), NEW j \in 2 .. Len(timerList), i <= j
        PROVE  Stamp(i)' <= Stamp(j)'
    <3>1. i \in 1 .. Len(timerList) /\ j \in 1 .. Len(timerList) /\ Stamp(i) <= Stamp(j)
      BY <1>1, <1>2, <2>1 DEF OrderInv
    <3>2. QED
      BY <3>1
  <2>2. Len(timerList) > 1 => Stamp(1)' = Stamp(1) /\ Stamp(2)' = Stamp(2)
    BY <1>2
  <2>3. QED
    BY <1>1, <2>1, <2>2 DEF OrderInv
<1>5. ExactInv'
  <2>1. ASSUME NEW i \in 1 .. Len(timerList)
        PROVE  Due(i)' = Stamp(i)' \/ Stamp(i)' + elapsed' <= 0 \/ (i = 1 /\ Stamp(1)' <= MIN_ALARM_DELAY)
    <3>1. elapsed' = elapsed /\ Stamp(i)' = Stamp(i) /\ Due(i)' = Due(i) /\ (i = 1 => Stamp(1)' = Stamp(1))
      BY <1>2, PlaceFacts DEF Section
    <3>2. Due(i) = Stamp(i) \/ Stamp(i) + elapsed <= 0 \/ (i = 1 /\ Stamp(1) <= MIN_ALARM_DELAY)
      BY <1>1 DEF ExactInv
    <3>3. QED
      BY <3>1, <3>2
  <2>2. QED
    BY <2>1 DEF ExactInv
<1>6. DelayInv'
  <2>1. ASSUME NEW i \in 1 .. Len(timerList) PROVE Due(i)' + MaxLate >= Rest' + Stage(i)
    <3>1. timerList # <<>> /\ MaxLate \in Int /\ Stage(i) \in Int /\ Due(i) \in Int /\ Due(i)' = Due(i)
      BY <1>1, <1>2, StageRoom, PlaceFacts
    <3>2. Due(i) + MaxLate >= Rest + Stage(i)
      BY <1>1 DEF DelayInv
    <3>3. Rest \in Int /\ Rest' \in Int /\ Rest' <= Rest
      BY <1>1, <1>2, <3>1, RestFacts, SectionRest
    <3>4. QED
      BY <3>1, <3>2, <3>3
  <2>2. QED
    BY <2>1 DEF DelayInv, Stage, MaxLate
<1>7. QED
  BY <1>3, <1>4, <1>5, <1>6 DEF LateInv


\* UTIL_TIMER_Start, wherever it is called.
LEMMA StartCallLate ==
  ASSUME LateInv, IInv', Section, NEW t \in Timers, NEW p \in Periods, ~TimerExists(t), Insert(t, p),
         UNCHANGED <<alarm, alarmFlag>>
  PROVE  LateInv'
<1>1. ServerInv
  BY DEF LateInv, IInv
<1>2. PICK q \in 1 .. Len(timerList) + 1, d \in Int : InsertedAt(q, d)
  BY <1>1, InsertTimes
<1>3. QED
  BY <1>2, InsertLate

\* UTIL_TIMER_Stop, of a timer that is in the list and of one that is not.
LEMMA StopCallLate ==
  ASSUME LateInv, IInv', Section, NEW t \in Timers, Stop(t)
  PROVE  LateInv'
<1>1. ServerInv
  BY DEF LateInv, IInv
<1>2. CASE \E q \in 1 .. Len(timerList) : RemovedAt(q)
  BY <1>2, StopLate
<1>3. CASE /\ UNCHANGED <<timerList, arming, alarm, alarmFlag>>
           /\ \A i \in 1 .. Len(timerList) : Stamp(i)' = Stamp(i) /\ Due(i)' = Due(i)
  <2>1. ASSUME timerList # <<>> PROVE IsPending'[timerList'[1]] = IsPending[timerList[1]]
    <3>1. timerList[1] \in Timers /\ TimerExists(timerList[1]) /\ timerList \in Seq(Timers)
      <4>1. 1 \in 1 .. Len(timerList) /\ timerList \in Seq(Timers)
        BY <1>1, <2>1, PlaceFacts
      <4>2. QED
        BY <1>1, <4>1, PlaceFacts
    <3>2. timerList[1] # t
      <4>1. \A u \in Timers : TimerExists(u)' <=> TimerExists(u) /\ u # t
        BY <1>1, StopServer
      <4>2. \A u \in Timers : TimerExists(u)' <=> TimerExists(u)
        BY <1>3 DEF TimerExists
      <4>3. QED
        BY <3>1, <4>1, <4>2
    <3>3. IsPending'[timerList[1]] = IsPending[timerList[1]]
      BY <1>1, <3>1, <3>2, StopData
    <3>4. QED
      BY <1>3, <3>3
  <2>2. QED
    BY <1>3, <2>1, SectionLate
<1>4. QED
  BY <1>1, <1>2, <1>3, StopTimes

\* The main loop's calls.
LEMMA MainLate ==
  ASSUME LateInv, MainStop \/ MainLook \/ MainInsert \/ (\E t \in Timers : StopTimer(t))
                    \/ (\E t \in Timers, p \in Periods : SetPeriodAndStart(t, p))
  PROVE  LateInv'
<1>1. IInv /\ IInv' /\ TodoInv /\ elapsed \in Int /\ elapsed >= 0
  BY MainIInv, CounterFacts DEF LateInv, IInv
<1>2. todo # <<>> => /\ Head(todo).timer \in Timers
                     /\ Head(todo) \in Calls(Head(todo).timer) \cup Insertions
                     /\ Head(todo) \in Insertions => ~TimerExists(Head(todo).timer)
  BY <1>1 DEF TodoInv
<1>3. CASE MainLook \/ (\E t \in Timers, p \in Periods : SetPeriodAndStart(t, p))
  <2>1. UNCHANGED <<server, rtc, arming, handler, slip, left>>
    BY <1>3 DEF MainLook, SetPeriodAndStart
  <2>2. QED
    BY <1>1, <2>1, UnchangedLate
<1>4. ASSUME NEW t \in Timers, Stop(t), MainRuns, UNCHANGED <<handler, slip>> PROVE LateInv'
  <2>1. Section
    BY <1>1, <1>4 DEF MainRuns, Stop, Section
  <2>2. QED
    BY <1>1, <1>4, <2>1, StopCallLate
<1>5. CASE MainStop \/ (\E t \in Timers : StopTimer(t))
  BY <1>2, <1>4, <1>5 DEF MainStop, StopTimer
<1>6. CASE MainInsert
  <2> DEFINE t == Head(todo).timer
             p == Head(todo).period
  <2>1. Head(todo) \in Insertions
    BY <1>2, <1>6 DEF MainInsert, Calls, Insertions
  <2>2. t \in Timers /\ p \in Periods /\ ~TimerExists(t)
    BY <1>2, <1>6, <2>1 DEF MainInsert, Insertions
  <2>3. Insert(t, p) /\ Section /\ UNCHANGED <<alarm, alarmFlag>>
    BY <1>1, <1>6 DEF MainInsert, MainRuns, Insert, Section
  <2> HIDE DEF t, p
  <2>4. QED
    BY <1>1, <2>2, <2>3, StartCallLate
<1>7. QED
  BY <1>3, <1>5, <1>6

\* What a callback calls.
LEMMA CallbackLate == LateInv /\ (CallbackStop \/ CallbackStart \/ CallbackReturn) => LateInv'
<1> SUFFICES ASSUME LateInv, CallbackStop \/ CallbackStart \/ CallbackReturn PROVE LateInv'
  OBVIOUS
<1>1. IInv /\ AlarmInv /\ OrderInv /\ ExactInv /\ DelayInv /\ ServerInv /\ IInv'
      /\ elapsed \in Int /\ elapsed >= 0
  BY CallbackIInv, CounterFacts DEF LateInv, IInv
<1>2. CASE CallbackStop
  <2>1. PICK t \in Timers : Stop(t)
    BY <1>2 DEF CallbackStop
  <2>2. Section
    BY <1>1, <1>2, <2>1 DEF CallbackStop, Stop, Section
  <2>3. QED
    BY <1>1, <2>1, <2>2, StopCallLate
<1>3. CASE CallbackStart
  <2>1. PICK t \in Starts[current], p \in Periods : MayStart(t) /\ Insert(t, p)
    BY <1>3 DEF CallbackStart
  <2>2. t \in Timers /\ ~TimerExists(t)
    <3>1. current \in Timers
      BY <1>1, <1>3 DEF CallbackStart, IInv, TypeOK, HandlerInv
    <3>2. QED
      BY <2>1, <3>1, TimerServerAssumption DEF MayStart
  <2>3. Section /\ UNCHANGED <<alarm, alarmFlag>>
    BY <1>1, <1>3, <2>1 DEF CallbackStart, Insert, Section
  <2>4. QED
    BY <1>1, <2>1, <2>2, <2>3, StartCallLate
<1>4. CASE CallbackReturn
  <2>1. /\ handler = "callback" /\ arming = None /\ handler' = "loop"
        /\ UNCHANGED <<elapsed, timerList, Timestamp, IsPending, alarm, alarmFlag, arming, slip, left>>
    BY <1>4 DEF CallbackReturn, server, rtc
  <2>2. \A i : Stamp(i)' = Stamp(i) /\ Due(i)' = Due(i)
    BY <2>1 DEF Stamp, Due
  <2>3. AlarmInv'
    BY <1>1, <2>1, <2>2 DEF AlarmInv
  <2>4. OrderInv'
    BY <1>1, <2>1 DEF OrderInv, Stamp
  <2>5. ExactInv'
    BY <1>1, <2>1 DEF ExactInv, Stamp, Due
  <2>6. timerList # <<>> => Rest \in Int /\ Rest' \in Int /\ Rest' <= Rest
    <3>1. SUFFICES ASSUME timerList # <<>> PROVE Rest \in Int /\ Rest' \in Int /\ Rest' <= Rest
      OBVIOUS
    <3>2. Rest \in Int /\ MaxSlip \in Int /\ MaxSlip >= 0 /\ slip \in Int
      BY <1>1, <3>1, RestFacts, SlipFacts, CounterFacts
    <3>3. CASE alarm # None
      <4>1. Rest' = Rest
        BY <2>1, <2>2, <3>3 DEF Rest
      <4>2. QED
        BY <3>2, <4>1
    <3>4. CASE alarm = None /\ Expired(Stamp(1))
      <4>1. Expired(Stamp(1))'
        BY <2>1, <2>2, <3>4 DEF Expired
      <4>2. Rest = 2 * MaxSlip - slip /\ Rest' = MaxSlip - slip
        BY <2>1, <3>4, <4>1 DEF Rest
      <4>3. QED
        BY <3>2, <4>2
    <3>5. CASE alarm = None /\ ~Expired(Stamp(1))
      <4>1. ~Expired(Stamp(1))' /\ NotTooSoon(Stamp(1))' = NotTooSoon(Stamp(1))
        BY <2>1, <2>2, <3>5 DEF Expired, NotTooSoon
      <4>2. Rest' = Rest
        BY <2>1, <3>5, <4>1 DEF Rest
      <4>3. QED
        BY <3>2, <4>2
    <3>6. QED
      BY <3>3, <3>4, <3>5
  <2>7. DelayInv'
    <3>1. ASSUME NEW i \in 1 .. Len(timerList) PROVE Due(i)' + MaxLate >= Rest' + Stage(i)
      <4>1. timerList # <<>> /\ MaxLate \in Int /\ Stage(i) \in Int /\ Due(i) \in Int /\ Due(i)' = Due(i)
        BY <1>1, <2>2, StageRoom, PlaceFacts
      <4>2. Due(i) + MaxLate >= Rest + Stage(i)
        BY <1>1 DEF DelayInv
      <4>3. QED
        BY <2>6, <4>1, <4>2
    <3>2. QED
      BY <2>1, <3>1 DEF DelayInv, Stage, MaxLate
  <2>8. QED
    BY <1>1, <2>3, <2>4, <2>5, <2>7 DEF LateInv
<1>5. QED
  BY <1>2, <1>3, <1>4

\* The interrupt comes no later than MaxSlip after the head's time.
LEMMA IrqBeginLate == LateInv /\ IrqBegin => LateInv'
<1> SUFFICES ASSUME LateInv, IrqBegin PROVE LateInv'
  OBVIOUS
<1>1. IInv /\ AlarmInv /\ OrderInv /\ ExactInv /\ DelayInv /\ ServerInv /\ IInv'
  BY IrqBeginIInv DEF LateInv, IInv
<1>2. /\ alarmFlag /\ handler = "off" /\ arming = None
      /\ alarmFlag' = FALSE /\ handler' = "loop" /\ slip' = 0
      /\ UNCHANGED <<timerList, elapsed, alarm, arming, left>>
      /\ Timestamp' = [t \in Timers |-> Rebased(Timestamp[t])]
  BY DEF IrqBegin, MainRuns
<1>3. alarm = None /\ elapsed = 0
  BY <1>1, <1>2, CounterFacts DEF AlarmInv
<1>4. Len(timerList) \in Nat /\ (timerList # <<>> <=> Len(timerList) >= 1)
  BY <1>1, PlaceFacts
<1>5. ASSUME NEW i \in 1 .. Len(timerList)
      PROVE  /\ Stamp(i) \in Int /\ Due(i) \in Int /\ Due(i)' = Due(i)
             /\ Stamp(i)' = IF Stamp(i) > 0 THEN Stamp(i) ELSE 0
  <2>1. timerList[i] \in Timers /\ Stamp(i) \in Int /\ Due(i) \in Int
    BY <1>1, PlaceFacts
  <2>2. QED
    BY <1>2, <2>1 DEF Stamp, Due, Rebased
<1>6. AlarmInv'
  BY <1>2, <1>3 DEF AlarmInv
<1>7. timerList # <<>> => Stamp(1)' = 0 /\ Stamp(1) \in Int /\ Stamp(1) + slip >= 0
  <2>1. SUFFICES ASSUME timerList # <<>>
                 PROVE  Stamp(1)' = 0 /\ Stamp(1) \in Int /\ Stamp(1) + slip >= 0
    OBVIOUS
  <2>2. 1 \in 1 .. Len(timerList) /\ Stamp(1) <= 0 /\ Stamp(1) + slip >= 0 /\ Stamp(1) \in Int
    BY <1>1, <1>2, <1>4, <2>1, HeadFacts
  <2>3. QED
    BY <1>5, <2>2
<1>8. OrderInv'
  <2>1. ASSUME NEW i \in 2 .. Len(timerList), NEW j \in 2 .. Len(timerList), i <= j
        PROVE  Stamp(i)' <= Stamp(j)'
    <3>1. i \in 1 .. Len(timerList) /\ j \in 1 .. Len(timerList) /\ Stamp(i) <= Stamp(j)
      BY <1>1, <1>4, <2>1 DEF OrderInv
    <3>2. QED
      BY <1>5, <3>1
  <2>2. Len(timerList) > 1 => Stamp(1)' <= MIN_ALARM_DELAY
    BY <1>4, <1>7, SlipFacts
  <2>3. QED
    BY <1>2, <2>1, <2>2 DEF OrderInv
<1>9. ExactInv'
  <2>1. ASSUME NEW i \in 1 .. Len(timerList)
        PROVE  Due(i)' = Stamp(i)' \/ Stamp(i)' + elapsed' <= 0 \/ (i = 1 /\ Stamp(1)' <= MIN_ALARM_DELAY)
    <3>1. Due(i) = Stamp(i) \/ Stamp(i) + elapsed <= 0 \/ i = 1
      BY <1>1 DEF ExactInv
    <3>2. i = 1 => Stamp(1)' <= MIN_ALARM_DELAY
      BY <1>4, <1>7, SlipFacts
    <3>3. QED
      BY <1>2, <1>3, <1>5, <3>1, <3>2
  <2>2. QED
    BY <1>2, <2>1 DEF ExactInv
<1>10. DelayInv'
  <2>1. ASSUME NEW i \in 1 .. Len(timerList) PROVE Due(i)' + MaxLate >= Rest' + Stage(i)
    <3>1. /\ timerList # <<>> /\ Due(i) \in Int /\ Due(i)' = Due(i)
          /\ MaxLate \in Int /\ Stage(i) \in Int
          /\ Stamp(1) \in Int /\ Stamp(1) + slip >= 0 /\ Stamp(1)' = 0
          /\ slip \in Int /\ slip <= MaxSlip /\ MaxSlip \in Int
      BY <1>1, <1>4, <1>5, <1>7, StageRoom, CounterFacts, SlipFacts
    <3>2. Rest = Stamp(1) + 2 * MaxSlip
      BY <1>2 DEF Rest
    <3>3. Rest' = MaxSlip
      <4>1. Expired(Stamp(1))'
        BY <1>2, <1>3, <3>1 DEF Expired
      <4>2. Rest' = MaxSlip - slip'
        BY <1>2, <1>3, <4>1 DEF Rest
      <4>3. QED
        BY <1>2, <3>1, <4>2
    <3>4. Due(i) + MaxLate >= Rest + Stage(i)
      BY <1>1 DEF DelayInv
    <3>5. Due(i) + MaxLate >= MaxSlip + Stage(i)
      <4>1. Rest \in Int /\ Rest >= MaxSlip
        BY ONLY <3>1, <3>2
      <4>2. Due(i) \in Int /\ MaxLate \in Int /\ Stage(i) \in Int /\ MaxSlip \in Int
        BY ONLY <3>1
      <4>3. QED
        BY ONLY <3>4, <4>1, <4>2
    <3>6. QED
      BY ONLY <3>1, <3>3, <3>5
  <2>2. QED
    BY <1>2, <2>1 DEF DelayInv, Stage, MaxLate
<1>11. QED
  BY <1>1, <1>6, <1>8, <1>9, <1>10 DEF LateInv

\* The handler takes out an expired head: the next one has expired too, or it and
\* those behind it are not late.
LEMMA IrqExpireLate == LateInv /\ IrqExpire => LateInv'
<1> SUFFICES ASSUME LateInv, IrqExpire PROVE LateInv'
  OBVIOUS
<1>1. IInv /\ AlarmInv /\ OrderInv /\ ExactInv /\ DelayInv /\ ServerInv /\ IInv'
  BY IrqExpireIInv DEF LateInv, IInv
<1>2. /\ Len(timerList) \in Nat /\ timerList \in Seq(Timers) /\ timerList # <<>>
      /\ Len(timerList) >= 1 /\ Head(timerList) = timerList[1]
      /\ \A i \in 1 .. Len(timerList) :
           timerList[i] \in Timers /\ Stamp(i) \in Int /\ Due(i) \in Int
  <2>1. timerList # <<>>
    BY DEF IrqExpire
  <2>2. QED
    BY <1>1, <2>1, PlaceFacts
<1>3. /\ handler = "loop" /\ arming = None /\ handler' = "callback" /\ slip' = 0
      /\ Expired(Stamp(1))
      /\ timerList' = Tail(timerList)
      /\ Timestamp' = [Timestamp EXCEPT ![timerList[1]] = 0]
      /\ left' = [left EXCEPT ![timerList[1]] = None]
      /\ UNCHANGED <<elapsed, alarm, alarmFlag, arming>>
  BY <1>2 DEF IrqExpire, Cleared, Stamp, rtc
<1>4. alarm = None /\ ~alarmFlag
  <2>1. Stamp(1) <= 0
    BY <1>1, <1>2, <1>3, CounterFacts DEF Expired
  <2>2. alarm # None => Stamp(1) >= 1
    BY <1>1, <1>3, CounterFacts DEF AlarmInv
  <2>3. QED
    BY <1>1, <1>2, <1>3, <2>1, <2>2 DEF AlarmInv
<1>5. /\ Len(timerList') = Len(timerList) - 1
      /\ \A i \in 1 .. Len(timerList') : timerList'[i] = timerList[i + 1]
  BY <1>2, <1>3
<1>6. ASSUME NEW i \in 1 .. Len(timerList')
      PROVE  /\ i \in 1 .. Len(timerList) /\ i + 1 \in 1 .. Len(timerList) /\ Len(timerList) > 1
             /\ i + 1 \in 2 .. Len(timerList)
             /\ Stamp(i)' = Stamp(i + 1) /\ Due(i)' = Due(i + 1)
  <2>1. /\ i \in 1 .. Len(timerList) /\ i + 1 \in 1 .. Len(timerList) /\ Len(timerList) > 1
        /\ i + 1 \in 2 .. Len(timerList) /\ i + 1 # 1
    BY <1>2, <1>5
  <2>2. timerList[i + 1] # timerList[1] /\ timerList[i + 1] \in Timers
    <3>1. Distinct(timerList) /\ 1 \in 1 .. Len(timerList)
      BY <1>1, <1>2 DEF ServerInv, ListIsRunning, Distinct
    <3>2. QED
      BY <1>2, <2>1, <3>1 DEF Distinct
  <2>3. Timestamp'[timerList[i + 1]] = Timestamp[timerList[i + 1]]
        /\ left'[timerList[i + 1]] = left[timerList[i + 1]]
    BY <1>1, <1>3, <2>2 DEF ServerInv, ServerType
  <2>4. QED
    BY <1>5, <2>1, <2>3 DEF Stamp, Due
<1>7. \A i, j \in 2 .. Len(timerList) : i <= j => Stamp(i) <= Stamp(j)
  BY <1>1 DEF OrderInv
<1>8. AlarmInv'
  BY <1>3, <1>4 DEF AlarmInv
<1>9. OrderInv'
  <2>1. ASSUME NEW i \in 1 .. Len(timerList'), NEW j \in 1 .. Len(timerList'), i <= j
        PROVE  Stamp(i)' <= Stamp(j)'
    <3>1. i + 1 \in 2 .. Len(timerList) /\ j + 1 \in 2 .. Len(timerList) /\ i + 1 <= j + 1
      BY <1>2, <1>6, <2>1
    <3>2. Stamp(i + 1) <= Stamp(j + 1)
      BY <1>7, <3>1
    <3>3. QED
      BY <1>6, <3>2
  <2>2. Len(timerList') \in Nat
    BY <1>2, <1>5
  <2>3. \A i, j \in 2 .. Len(timerList') : i <= j => Stamp(i)' <= Stamp(j)'
    BY <2>1, <2>2
  <2>4. Len(timerList') > 1 => Stamp(1)' <= Stamp(2)'
    <3>1. Len(timerList') > 1 => 1 \in 1 .. Len(timerList') /\ 2 \in 1 .. Len(timerList')
      BY <2>2
    <3>2. QED
      BY <2>1, <3>1
  <2>5. QED
    BY <2>3, <2>4 DEF OrderInv
<1>10. \A i \in 2 .. Len(timerList) : Due(i) = Stamp(i) \/ Stamp(i) + elapsed <= 0
  <2>1. ASSUME NEW i \in 2 .. Len(timerList)
        PROVE  Due(i) = Stamp(i) \/ Stamp(i) + elapsed <= 0
    <3>1. i \in 1 .. Len(timerList) /\ i # 1
      BY <1>2
    <3>2. QED
      BY <1>1, <3>1 DEF ExactInv
  <2>2. QED
    BY <2>1
<1>11. ExactInv'
  <2>1. ASSUME NEW i \in 1 .. Len(timerList')
        PROVE  Due(i)' = Stamp(i)' \/ Stamp(i)' + elapsed' <= 0
    BY <1>3, <1>6, <1>10
  <2>2. QED
    BY <2>1 DEF ExactInv
<1>12. DelayInv'
  <2>1. ASSUME NEW i \in 1 .. Len(timerList') PROVE Due(i)' + MaxLate >= Rest' + Stage(i)
    <3>1. /\ i \in 1 .. Len(timerList) /\ i + 1 \in 1 .. Len(timerList)
          /\ 1 \in 1 .. Len(timerList') /\ 1 + 1 = 2
          /\ 2 \in 2 .. Len(timerList) /\ i + 1 \in 2 .. Len(timerList) /\ 2 <= i + 1
          /\ 2 \in 1 .. Len(timerList)
      BY <1>2, <1>5, <1>6
    <3>2. Due(i)' = Due(i + 1) /\ Stamp(1)' = Stamp(2)
      BY <1>6, <3>1
    <3>3. /\ MIN_ALARM_DELAY \in Int /\ MIN_ALARM_DELAY > 0 /\ MaxSlip \in Int /\ MaxSlip >= 0
          /\ 2 * MaxSlip < MIN_ALARM_DELAY
          /\ slip \in Int /\ slip <= MaxSlip
          /\ MaxLate \in Int /\ Stage(i) \in Int /\ Stage(i + 1) \in Int
          /\ Due(i + 1) \in Int /\ Stamp(2) \in Int /\ Stamp(i + 1) \in Int
      BY <1>1, <1>2, <3>1, SlipFacts, CounterFacts, StageRoom
    <3>4. Stage(i + 1) = Stage(i) + MIN_ALARM_DELAY + MaxSlip
      BY <3>1, StageFacts
    <3>5. Stage(i + 1) + 3 * MaxSlip <= MaxLate
      BY <1>1, <3>1, StageRoom
    <3>6. CASE Expired(Stamp(1))'
      <4>1. Rest = MaxSlip - slip
        BY <1>3, <1>4 DEF Rest
      <4>2. Rest' = 2 * MaxSlip
        <5>1. Rest' = 2 * MaxSlip - slip'
          BY <1>3, <1>4, <3>6 DEF Rest
        <5>2. QED
          BY <1>3, <3>3, <5>1
      <4>3. Due(i + 1) + MaxLate >= Rest + Stage(i + 1)
        BY <1>1, <3>1 DEF DelayInv
      <4>4. Due(i + 1) + MaxLate >= 2 * MaxSlip + Stage(i)
        BY ONLY <3>3, <3>4, <4>1, <4>3, SMTT(30)
      <4>5. QED
        BY ONLY <3>2, <4>2, <4>4
    <3>7. CASE ~Expired(Stamp(1))'
      <4>1. Stamp(2) >= 0 /\ Stamp(2) + elapsed > 0 /\ elapsed \in Int
        <5>1. ~(Stamp(2) + elapsed = 0 \/ Stamp(2) < 0)
          BY <1>3, <3>2, <3>7 DEF Expired
        <5>2. QED
          BY <1>1, <3>3, <5>1, CounterFacts
      <4>2. Stamp(2) <= Stamp(i + 1)
        BY <1>7, <3>1
      <4>3. Due(i + 1) = Stamp(i + 1) \/ Stamp(i + 1) + elapsed <= 0
        BY <1>10, <3>1
      <4>4. Due(i + 1) >= Stamp(2)
        BY ONLY <3>3, <4>1, <4>2, <4>3
      <4> DEFINE n == NotTooSoon(Stamp(2))
      <4>5. n \in Int /\ n <= Stamp(2) + MIN_ALARM_DELAY
        BY <3>3, <4>1 DEF NotTooSoon
      <4>6. Rest' = n + 3 * MaxSlip
        <5>1. NotTooSoon(Stamp(1))' = n
          BY <3>2 DEF NotTooSoon
        <5>2. Rest' = NotTooSoon(Stamp(1))' + 3 * MaxSlip - slip'
          BY <1>3, <1>4, <3>7 DEF Rest
        <5>3. QED
          BY <1>3, <3>3, <4>5, <5>1, <5>2
      <4> HIDE DEF n
      <4>7. Due(i + 1) + MaxLate >= n + 3 * MaxSlip + Stage(i)
        <5>1. Stage(i) + MIN_ALARM_DELAY + MaxSlip + 3 * MaxSlip <= MaxLate
          BY ONLY <3>3, <3>4, <3>5
        <5>2. Stamp(2) + MaxLate >= n + 3 * MaxSlip + Stage(i)
          BY ONLY <3>3, <4>5, <5>1, SMTT(30)
        <5>3. QED
          BY ONLY <3>3, <4>4, <4>5, <5>2, SMTT(30)
      <4>8. QED
        BY ONLY <3>2, <4>6, <4>7
    <3>8. QED
      BY <3>6, <3>7
  <2>2. QED
    BY <2>1 DEF DelayInv, Stage, MaxLate
<1>13. QED
  BY <1>1, <1>8, <1>9, <1>11, <1>12 DEF LateInv


\* The handler gives a head that has no alarm one, which may put it off.
LEMMA IrqEndLate == LateInv /\ IrqEnd => LateInv'
<1> SUFFICES ASSUME LateInv, IrqEnd PROVE LateInv'
  OBVIOUS
<1>1. IInv /\ AlarmInv /\ OrderInv /\ ExactInv /\ DelayInv /\ ServerInv /\ IInv'
  BY IrqEndIInv DEF LateInv, IInv
<1>2. /\ handler = "loop" /\ arming = None /\ handler' = "off" /\ elapsed' = 0 /\ slip' = 0
      /\ timerList # <<>> => ~Expired(Timestamp[Head(timerList)])
      /\ UNCHANGED <<timerList, alarm, alarmFlag, left>>
  BY DEF IrqEnd
<1>3. ~alarmFlag
  BY <1>1, <1>2 DEF AlarmInv
<1>4. /\ Len(timerList) \in Nat /\ timerList \in Seq(Timers)
      /\ timerList # <<>> <=> Len(timerList) >= 1
      /\ timerList # <<>> => Head(timerList) = timerList[1] /\ 1 \in 1 .. Len(timerList)
      /\ \A i \in 1 .. Len(timerList) :
           timerList[i] \in Timers /\ Stamp(i) \in Int /\ Due(i) \in Int
  BY <1>1, PlaceFacts
<1>5. \A i \in 1 .. Len(timerList) : Due(i)' = Due(i)
  BY <1>2 DEF Due
<1>6. ~(timerList # <<>> /\ ~IsPending[Head(timerList)]) => UNCHANGED <<IsPending, Timestamp, arming>>
  BY DEF IrqEnd
<1>7. ASSUME timerList # <<>>, ~IsPending[Head(timerList)]
      PROVE  /\ arming' = NotTooSoon(Stamp(1)) /\ Stamp(1)' = NotTooSoon(Stamp(1))
             /\ IsPending'[timerList[1]]
             /\ \A i \in 2 .. Len(timerList) : Stamp(i)' = Stamp(i)
  <2> DEFINE h == timerList[1]
             at == NotTooSoon(Timestamp[h])
  <2>1. h \in Timers /\ h = Head(timerList)
    BY <1>4, <1>7
  <2>2. /\ Timestamp' = [Timestamp EXCEPT ![h] = at]
        /\ IsPending' = [IsPending EXCEPT ![h] = TRUE]
        /\ arming' = at
    BY <1>7, <2>1 DEF IrqEnd, SetTimeout
  <2>3. at = NotTooSoon(Stamp(1))
    BY DEF Stamp
  <2> HIDE DEF at
  <2>4. Timestamp'[h] = at /\ \A u \in Timers : u # h => Timestamp'[u] = Timestamp[u]
    BY <1>1, <2>1, <2>2 DEF ServerInv, ServerType
  <2>5. IsPending'[h]
    <3>1. IsPending \in [Timers -> BOOLEAN]
      BY <1>1 DEF ServerInv, ServerType
    <3>2. QED
      BY <2>1, <2>2, <3>1
  <2>6. \A i \in 2 .. Len(timerList) : timerList[i] # h /\ timerList[i] \in Timers
    <3>1. Distinct(timerList)
      BY <1>1 DEF ServerInv, ListIsRunning, Distinct
    <3>2. QED
      BY <1>4, <1>7, <3>1 DEF Distinct
  <2>7. Stamp(1)' = at
    BY <1>2, <2>4 DEF Stamp
  <2>8. \A i \in 2 .. Len(timerList) : Stamp(i)' = Stamp(i)
    BY <1>2, <2>4, <2>6 DEF Stamp
  <2>9. QED
    BY <2>2, <2>3, <2>5, <2>7, <2>8
<1>8. /\ MIN_ALARM_DELAY \in Int /\ MIN_ALARM_DELAY > 0 /\ MaxSlip \in Int /\ MaxSlip >= 0
      /\ slip \in Int /\ slip <= MaxSlip
      /\ None \notin Int
  BY <1>1, SlipFacts, CounterFacts
<1>9. timerList # <<>> =>
        /\ NotTooSoon(Stamp(1)) \in Int
        /\ NotTooSoon(Stamp(1)) = Stamp(1) \/ NotTooSoon(Stamp(1)) = MIN_ALARM_DELAY
        /\ NotTooSoon(Stamp(1)) # None
  BY <1>4, <1>8 DEF NotTooSoon
<1>10. timerList # <<>> =>
         Stamp(1)' \in Int /\ (Stamp(1)' = Stamp(1) \/ Stamp(1)' = MIN_ALARM_DELAY)
  <2>1. timerList # <<>> /\ IsPending[Head(timerList)] => Stamp(1)' = Stamp(1) /\ Stamp(1) \in Int
    BY <1>2, <1>4, <1>6 DEF Stamp
  <2>2. QED
    BY <1>7, <1>9, <2>1
<1>11. \A i \in 2 .. Len(timerList) : Stamp(i)' = Stamp(i)
  <2>1. CASE timerList # <<>> /\ ~IsPending[Head(timerList)]
    BY <1>7, <2>1
  <2>2. CASE ~(timerList # <<>> /\ ~IsPending[Head(timerList)])
    BY <1>2, <1>6, <2>2 DEF Stamp
  <2>3. QED
    BY <2>1, <2>2
<1>12. AlarmInv'
  <2>1. arming' # None => timerList # <<>> /\ ~IsPending[Head(timerList)]
    BY <1>2, <1>6
  <2>2. arming' # None => timerList' # <<>> /\ IsPending'[timerList'[1]] /\ arming' = Stamp(1)'
    BY <1>2, <1>7, <2>1
  <2>3. QED
    BY <1>2, <1>3, <2>2 DEF AlarmInv
<1>13. OrderInv'
  <2>1. ASSUME NEW i \in 2 .. Len(timerList), NEW j \in 2 .. Len(timerList), i <= j
        PROVE  Stamp(i)' <= Stamp(j)'
    BY <1>1, <1>11, <2>1 DEF OrderInv
  <2>2. ASSUME Len(timerList) > 1
        PROVE  Stamp(1)' <= MIN_ALARM_DELAY \/ Stamp(1)' <= Stamp(2)'
    <3>1. Stamp(1) <= MIN_ALARM_DELAY \/ Stamp(1) <= Stamp(2)
      BY <1>1, <2>2 DEF OrderInv
    <3>2. 2 \in 2 .. Len(timerList) /\ timerList # <<>>
      BY <1>4, <2>2
    <3>3. QED
      BY <1>8, <1>10, <1>11, <3>1, <3>2
  <2>3. QED
    BY <1>2, <2>1, <2>2 DEF OrderInv
<1>14. ExactInv'
  <2>1. ASSUME NEW i \in 1 .. Len(timerList)
        PROVE  Due(i)' = Stamp(i)' \/ Stamp(i)' + elapsed' <= 0 \/ (i = 1 /\ Stamp(1)' <= MIN_ALARM_DELAY)
    <3>1. Due(i) = Stamp(i) \/ Stamp(i) <= 0 \/ (i = 1 /\ Stamp(1) <= MIN_ALARM_DELAY)
      <4>1. Due(i) = Stamp(i) \/ Stamp(i) + elapsed <= 0 \/ (i = 1 /\ Stamp(1) <= MIN_ALARM_DELAY)
        BY <1>1 DEF ExactInv
      <4>2. Stamp(i) \in Int /\ elapsed \in Int /\ elapsed >= 0
        BY <1>1, <1>4, CounterFacts
      <4>3. QED
        BY <4>1, <4>2
    <3>2. CASE i = 1
      <4>1. timerList # <<>> /\ Due(1)' = Due(1) /\ Stamp(1) \in Int
        BY <1>4, <1>5, <3>2
      <4>2. Stamp(1)' = MIN_ALARM_DELAY => Stamp(1)' <= MIN_ALARM_DELAY
        BY <1>8
      <4>3. Stamp(1)' = Stamp(1) \/ Stamp(1)' = MIN_ALARM_DELAY
        BY <1>10, <4>1
      <4>4. Stamp(1) <= 0 => Stamp(1) + elapsed' <= 0
        BY <1>2, <4>1
      <4>5. QED
        BY <3>1, <3>2, <4>1, <4>2, <4>3, <4>4
    <3>3. CASE i # 1
      <4>1. i \in 2 .. Len(timerList) /\ Stamp(i) \in Int
        BY <1>4, <3>3
      <4>2. Stamp(i)' = Stamp(i) /\ Due(i)' = Due(i)
        BY <1>5, <1>11, <4>1
      <4>3. QED
        BY <1>2, <3>1, <3>3, <4>1, <4>2
    <3>4. QED
      BY <3>2, <3>3
  <2>2. QED
    BY <1>2, <2>1 DEF ExactInv
<1>15. timerList # <<>> => Rest \in Int /\ Rest' \in Int /\ Rest' <= Rest
  <2>1. SUFFICES ASSUME timerList # <<>> PROVE Rest \in Int /\ Rest' \in Int /\ Rest' <= Rest
    OBVIOUS
  <2>2. Rest' = Stamp(1)' + 2 * MaxSlip
    BY <1>2 DEF Rest
  <2>3. ~Expired(Stamp(1)) /\ Stamp(1) \in Int
    BY <1>2, <1>4, <2>1 DEF Stamp
  <2>4. CASE IsPending[timerList[1]]
    <3>1. alarm # None
      BY <1>1, <1>2, <2>1, <2>3, <2>4, HeadFacts
    <3>2. Rest = Stamp(1) + 2 * MaxSlip
      BY <3>1 DEF Rest
    <3>3. Stamp(1)' = Stamp(1)
      BY <1>2, <1>4, <1>6, <2>1, <2>4 DEF Stamp
    <3>4. QED
      BY <1>8, <2>2, <2>3, <3>2, <3>3
  <2>5. CASE ~IsPending[timerList[1]]
    <3>1. alarm = None
      BY <1>1, <1>2, <2>5 DEF AlarmInv
    <3>2. Rest = NotTooSoon(Stamp(1)) + 3 * MaxSlip - slip
      BY <1>2, <2>3, <3>1 DEF Rest
    <3>3. Stamp(1)' = NotTooSoon(Stamp(1)) /\ NotTooSoon(Stamp(1)) \in Int
      BY <1>4, <1>7, <1>9, <2>1, <2>5
    <3>4. QED
      BY <1>8, <2>2, <3>2, <3>3
  <2>6. QED
    BY <2>4, <2>5
<1>16. DelayInv'
  <2>1. ASSUME NEW i \in 1 .. Len(timerList) PROVE Due(i)' + MaxLate >= Rest' + Stage(i)
    <3>1. timerList # <<>> /\ MaxLate \in Int /\ Stage(i) \in Int /\ Due(i) \in Int /\ Due(i)' = Due(i)
      BY <1>1, <1>4, <1>5, StageRoom
    <3>2. Due(i) + MaxLate >= Rest + Stage(i)
      BY <1>1 DEF DelayInv
    <3>3. QED
      BY <1>15, <3>1, <3>2
  <2>2. QED
    BY <1>2, <2>1 DEF DelayInv, Stage, MaxLate
<1>17. QED
  BY <1>1, <1>12, <1>13, <1>14, <1>16 DEF LateInv

\* Every step keeps the timers in order and in time.
LEMMA NextLate == LateInv /\ [Next]_vars => LateInv'
<1> SUFFICES ASSUME LateInv, [Next]_vars PROVE LateInv'
  OBVIOUS
<1>1. CASE UNCHANGED vars
  <2>1. UNCHANGED <<server, rtc, arming, handler, slip, left>>
    BY <1>1 DEF vars
  <2>2. IInv'
    BY <1>1, NextIInv DEF LateInv
  <2>3. QED
    BY <2>1, <2>2, UnchangedLate
<1>2. CASE MainStop \/ MainLook \/ MainInsert \/ (\E t \in Timers : StopTimer(t))
             \/ (\E t \in Timers, p \in Periods : SetPeriodAndStart(t, p))
  BY <1>2, MainLate
<1>3. CASE \/ Tick \/ ProgramAlarm \/ IrqBegin \/ IrqExpire
           \/ CallbackStop \/ CallbackStart \/ CallbackReturn \/ IrqEnd
  BY <1>3, TickLate, ProgramAlarmLate, IrqBeginLate, IrqExpireLate, CallbackLate, IrqEndLate
<1>4. QED
  BY <1>1, <1>2, <1>3 DEF Next

\* The timers of the server stay in order, their timestamps are exact but for one
\* that was put off, and what the timers before a timer may cost it is bounded.
THEOREM LateHolds == Spec => []LateInv
  BY InitLate, NextLate, PTL DEF Spec

\* TimerSetTimeout, UTIL_TIMER_Start and UTIL_TIMER_Stop put no timer off by more
\* than MaxLate, however many timers there are and whatever the main loop and the
\* callbacks start and stop.
THEOREM DelayHolds == Spec => []BoundedDelay
<1>1. ASSUME LateInv PROVE BoundedDelay
  <2>1. IInv /\ AlarmInv /\ DelayInv /\ ServerInv
    BY <1>1 DEF LateInv, IInv
  <2>2. SUFFICES ASSUME NEW t \in Timers, left[t] # None PROVE left[t] >= -MaxLate
    BY DEF BoundedDelay
  <2>3. timerList \in Seq(Timers) /\ TimerExists(t)
    BY <2>1, <2>2 DEF ServerInv, ServerType, LeftInv, ListIsRunning
  <2>4. PICK i \in 1 .. Len(timerList) : timerList[i] = t
    BY <2>3, ExistsAt
  <2>5. timerList # <<>> /\ Due(i) \in Int /\ Due(i) = left[t]
    BY <2>1, <2>4, PlaceFacts DEF Due
  <2>6. MaxLate \in Int /\ Stage(i) \in Int /\ Stage(i) >= 0
    BY <2>1, StageRoom
  <2>7. Rest \in Int /\ Rest >= 0
    BY <2>1, <2>5, RestFacts
  <2>8. Due(i) + MaxLate >= Rest + Stage(i)
    BY <2>1 DEF DelayInv
  <2>9. Due(i) >= -MaxLate
    BY ONLY <2>5, <2>6, <2>7, <2>8
  <2>10. QED
    BY <2>5, <2>9
<1>2. QED
  BY <1>1, LateHolds, PTL
=============================================================================
