---------------------------- MODULE RxQueueProofs -----------------------------
(***************************************************************************)
(* What holds of a receive queue for every size and whatever the UART      *)
(* receives, proved with TLAPS.                                            *)
(*                                                                         *)
(* The argument: count never tells more than there is, since "q->count--"  *)
(* stores less than what was there when it was loaded, and while it tells  *)
(* exactly what there is the cells from first on hold the bytes that wait, *)
(* up to last.  Masking the interrupt keeps it exact: then the queue       *)
(* implements a bounded first-in first-out buffer.                         *)
(***************************************************************************)
EXTENDS RxQueue, Integers, TLAPS

(* The k-th cell behind cell i, around the end of the array. *)
Place(i, k) == IF i + k < Size THEN i + k ELSE i + k - Size

(* Whether first has moved past the byte that is being dequeued. *)
Gone == IF pc \in {"load", "store"} THEN 1 ELSE 0
Held == count - Gone

(* In queue_init nothing was dequeued yet; with locks nothing was enqueued.*)
InitInv ==
  /\ pc \in InitSteps =>
       /\ delivered = <<>> /\ first = 0 /\ count = Len(accepted)
       /\ accepted = <<>> => last = 0
       /\ locked => accepted = <<>>
  /\ total_count = IF pc = "init_total" THEN 0 ELSE Size
  /\ pc = "init_total" => count = 0

(* What count tells, and what "q->count--" will make of it. *)
CountInv ==
  /\ CountNeverExceeds
  /\ pc \in DequeueSteps => count > 0
  /\ pc = "store" => 1 <= reg /\ reg <= count
  /\ locked => count = Waiting /\ (pc = "store" => reg = count)

(* While count is exact, the cells from first to last hold what waits. *)
RingInv ==
  pc \notin InitSteps /\ count = Waiting =>
    /\ last = Place(first, Held)
    /\ \A k \in 0 .. Held - 1 :
         cell[Place(first, k)] = accepted[Len(delivered) + Gone + k + 1]
    /\ \A i \in 1 .. Len(delivered) : delivered[i] = accepted[i]
    /\ pc \in {"advance", "load", "store"} => item = accepted[Len(delivered) + 1]

(* With locks the byte that is being dequeued is still the first in the    *)
(* queue.                                                                  *)
LockedInv ==
  locked /\ pc \in {"advance", "load", "store"} => item = Contents[1]

(* The invariant of a queue with or without locks. *)
QueueInv == TypeOK /\ InitInv /\ CountInv /\ RingInv

IInv == QueueInv /\ LockedInv

-----------------------------------------------------------------------------
(* The remainder as the queue uses it. *)
LEMMA Wraps ==
  ASSUME NEW a \in Nat, a < 2 * Size
  PROVE  a % Size = IF a < Size THEN a ELSE a - Size
<1>1. Size \in Nat \ {0}
  BY RxQueueAssumption
<1>2. CASE a < Size
  BY <1>1, <1>2
<1>3. CASE a >= Size
  BY <1>1, <1>3
<1>4. QED
  BY <1>1, <1>2, <1>3

(* Moving on by one cell, and from there by k.  Up to Size cells from a    *)
(* cell on no cell comes twice.                                            *)
LEMMA Places ==
  ASSUME NEW i \in Cells
  PROVE  /\ \A k \in Nat : k <= Size => Place(i, k) \in Cells
         /\ total_count = Size => Following(i) = Place(i, 1)
         /\ \A k \in Nat : k < Size => Place(Place(i, 1), k) = Place(i, k + 1)
         /\ \A k \in Nat : k < Size => Place(Place(i, k), 1) = Place(i, k + 1)
         /\ \A j, k \in Nat : j < k /\ k < Size => Place(i, j) # Place(i, k)
<1> USE RxQueueAssumption DEF Cells, Place
<1>1. \A k \in Nat : k <= Size => Place(i, k) \in Cells
  OBVIOUS
<1>2. total_count = Size => Following(i) = Place(i, 1)
  BY Wraps DEF Following
<1>3. \A k \in Nat : k < Size => Place(Place(i, 1), k) = Place(i, k + 1)
  OBVIOUS
<1>4. \A k \in Nat : k < Size => Place(Place(i, k), 1) = Place(i, k + 1)
  OBVIOUS
<1>5. \A j, k \in Nat : j < k /\ k < Size => Place(i, j) # Place(i, k)
  OBVIOUS
<1>6. QED
  BY <1>1, <1>2, <1>3, <1>4, <1>5

-----------------------------------------------------------------------------
(* An empty queue with no call under way satisfies the invariant. *)
LEMMA InitQueueInv == Init => QueueInv
<1> SUFFICES ASSUME Init PROVE QueueInv
  OBVIOUS
<1>1. TypeOK
  BY RxQueueAssumption DEF Init, TypeOK, Cells, InitSteps
<1>2. InitInv /\ RingInv
  BY DEF Init, InitInv, RingInv, InitSteps
<1>3. CountInv
  BY DEF Init, CountInv, CountNeverExceeds, Waiting, DequeueSteps
<1>4. QED
  BY <1>1, <1>2, <1>3 DEF QueueInv

(* An enqueue puts the byte behind those that wait, or drops it.           *)
LEMMA EnqueueQueueInv == QueueInv /\ Enqueue => QueueInv'
<1> SUFFICES ASSUME QueueInv, Enqueue PROVE QueueInv'
  OBVIOUS
<1> USE DEF QueueInv
<1> DEFINE b == received + 1
<1>1. /\ b \in Bytes /\ received' = b /\ received' \in 0 .. MaxBytes
      /\ locked' = locked /\ pc' = pc /\ item' = item /\ reg' = reg
      /\ delivered' = delivered
      /\ locked => pc = "idle"
  BY RxQueueAssumption DEF Enqueue, TypeOK, Bytes, MayInterrupt
<1>2. CASE IsFull
  <2>1. UNCHANGED <<total_count, cell, last, first, count, accepted>>
    BY <1>2 DEF Enqueue, queue
  <2>2. QED
    BY <1>1, <2>1 DEF TypeOK, InitInv, CountInv, RingInv, CountNeverExceeds,
       Waiting, Held, Gone
<1>3. CASE ~IsFull
  <2>1. /\ cell' = [cell EXCEPT ![last] = b]
        /\ last' = Following(last)
        /\ count' = count + 1
        /\ accepted' = Append(accepted, b)
        /\ total_count' = total_count /\ first' = first
    BY <1>3 DEF Enqueue
  <2>2. /\ total_count = Size /\ count < Size /\ pc # "init_total"
        /\ Size \in Nat \ {0}
    BY <1>3, RxQueueAssumption DEF IsFull, TypeOK, InitInv
  <2>3. last' = Place(last, 1) /\ last' \in Cells
    BY <2>1, <2>2, Places DEF TypeOK
  <2>4. /\ Len(accepted) \in Nat /\ Len(delivered) \in Nat
        /\ Len(accepted') = Len(accepted) + 1
        /\ \A i \in 1 .. Len(accepted) : accepted'[i] = accepted[i]
        /\ accepted'[Len(accepted) + 1] = b
        /\ accepted' \in Seq(Bytes) /\ accepted' # <<>>
    BY <1>1, <2>1 DEF TypeOK
  <2> HIDE DEF b
  <2>5. TypeOK'
    BY <1>1, <2>1, <2>2, <2>3, <2>4 DEF TypeOK
  <2>6. InitInv'
    BY <1>1, <2>1, <2>2, <2>4 DEF InitInv, TypeOK, InitSteps
  <2>7. CountInv'
    BY <1>1, <2>1, <2>2, <2>4, SMTT(30)
       DEF CountInv, CountNeverExceeds, Waiting, TypeOK, DequeueSteps
  <2>8. RingInv'
    <3> SUFFICES ASSUME pc \notin InitSteps, count' = Waiting'
                 PROVE  /\ last' = Place(first', Held')
                        /\ \A k \in 0 .. Held' - 1 :
                             cell'[Place(first', k)] =
                               accepted'[Len(delivered') + Gone' + k + 1]
                        /\ \A i \in 1 .. Len(delivered') : delivered'[i] = accepted'[i]
                        /\ pc' \in {"advance", "load", "store"} =>
                             item' = accepted'[Len(delivered') + 1]
      BY <1>1 DEF RingInv
    <3>1. count = Waiting /\ count \in Nat
      BY <1>1, <2>1, <2>4 DEF Waiting, TypeOK
    <3>2. /\ Gone \in {0, 1} /\ Gone' = Gone /\ Held' = Held + 1
          /\ Held \in Nat /\ Held < Size
      BY <1>1, <2>1, <2>2, <3>1 DEF Gone, Held, CountInv, DequeueSteps
    <3>3. Len(accepted) = Len(delivered) + Gone + Held
      BY <2>4, <3>1, <3>2 DEF Waiting, Held
    <3>4. /\ last = Place(first, Held)
          /\ \A k \in 0 .. Held - 1 :
               cell[Place(first, k)] = accepted[Len(delivered) + Gone + k + 1]
          /\ \A i \in 1 .. Len(delivered) : delivered[i] = accepted[i]
          /\ pc \in {"advance", "load", "store"} => item = accepted[Len(delivered) + 1]
      BY <3>1 DEF RingInv
    <3>5. first \in Cells /\ last \in Cells
      BY DEF TypeOK
    <3>6. last' = Place(first', Held')
      BY <2>1, <2>3, <3>2, <3>4, <3>5, Places
    <3>7. ASSUME NEW k \in 0 .. Held' - 1
          PROVE  cell'[Place(first', k)] =
                   accepted'[Len(delivered') + Gone' + k + 1]
      <4>1. CASE k = Held
        <5>1. cell'[last] = b
          BY <2>1, <3>5 DEF TypeOK
        <5>2. Len(delivered') + Gone' + k + 1 = Len(accepted) + 1
          BY <1>1, <2>4, <3>2, <3>3, <4>1
        <5>3. Place(first', k) = last
          BY <2>1, <3>4, <4>1
        <5>4. QED
          BY <2>4, <5>1, <5>2, <5>3
      <4>2. CASE k < Held
        <5>1. Place(first, k) # last /\ Place(first, k) \in Cells
          <6>1. k \in Nat /\ k <= Size
            BY <2>2, <3>2, <4>2
          <6>2. Place(first, k) # Place(first, Held)
            BY <3>2, <3>5, <4>2, <6>1, Places
          <6>3. Place(first, k) \in Cells
            BY <3>5, <6>1, Places
          <6>4. QED
            BY <3>4, <6>2, <6>3
        <5>2. cell'[Place(first, k)] = cell[Place(first, k)]
          BY <2>1, <5>1 DEF TypeOK
        <5>3. Len(delivered) + Gone + k + 1 \in 1 .. Len(accepted)
          BY <2>4, <3>2, <3>3, <4>2
        <5>4. QED
          BY <1>1, <2>1, <2>4, <3>2, <3>4, <4>2, <5>2, <5>3
      <4>3. QED
        BY <3>2, <3>7, <4>1, <4>2
    <3>8. \A i \in 1 .. Len(delivered') : delivered'[i] = accepted'[i]
      BY <1>1, <2>4, <3>2, <3>3, <3>4
    <3>9. pc' \in {"advance", "load", "store"} =>
            item' = accepted'[Len(delivered') + 1]
      <4> SUFFICES ASSUME pc \in {"advance", "load", "store"}
                   PROVE  item = accepted'[Len(delivered) + 1]
        BY <1>1
      <4>1. Waiting >= 1
        BY <3>1 DEF CountInv, DequeueSteps
      <4>2. Len(delivered) + 1 \in 1 .. Len(accepted)
        BY <2>4, <4>1 DEF Waiting
      <4>3. QED
        BY <2>4, <3>4, <4>2
    <3>10. QED
      BY <3>6, <3>7, <3>8, <3>9
  <2>9. QED
    BY <2>5, <2>6, <2>7, <2>8
<1>4. QED
  BY <1>2, <1>3

(* queue_init, when it ends without a byte, leaves an exact empty queue.   *)
LEMMA QueueInitQueueInv == QueueInv /\ QueueInit => QueueInv'
<1> SUFFICES ASSUME QueueInv, QueueInit PROVE QueueInv'
  OBVIOUS
<1> USE RxQueueAssumption DEF QueueInv, TypeOK, InitInv, CountInv, RingInv,
        CountNeverExceeds, Waiting, InitSteps, DequeueSteps, history
<1>1. CASE InitTotal
  BY <1>1 DEF InitTotal, Cells
<1>2. CASE InitLast
  BY <1>2 DEF InitLast, Cells
<1>3. CASE InitFirst
  BY <1>3 DEF InitFirst, Cells
<1>4. CASE InitCount
  <2>1. TypeOK' /\ InitInv' /\ CountInv'
    BY <1>4 DEF InitCount
  <2>2. RingInv'
    <3> SUFFICES ASSUME count' = Waiting'
                 PROVE  /\ last' = Place(first', Held')
                        /\ Held' = 0 /\ Len(delivered') = 0 /\ pc' = "idle"
      OBVIOUS
    <3>1. /\ count' = 0 /\ pc' = "idle" /\ first' = 0 /\ last' = last
          /\ accepted' = accepted /\ delivered' = <<>>
      BY <1>4 DEF InitCount
    <3>2. Len(accepted) = 0
      BY <3>1
    <3>3. last' = 0
      BY <1>4, <3>1, <3>2 DEF InitCount
    <3>4. Held' = 0
      BY <3>1 DEF Held, Gone
    <3>5. QED
      BY <3>1, <3>3, <3>4 DEF Place
  <2>3. QED
    BY <2>1, <2>2
<1>5. QED
  BY <1>1, <1>2, <1>3, <1>4 DEF QueueInit

(* queue_dequeue takes the byte at first, and count is exact after it only *)
(* if it was exact before.                                                 *)
LEMMA DequeueQueueInv == QueueInv /\ Dequeue => QueueInv'
<1> SUFFICES ASSUME QueueInv, Dequeue PROVE QueueInv'
  OBVIOUS
<1> USE DEF QueueInv
<1>1. /\ pc \notin InitSteps /\ total_count = Size /\ locked' = locked
      /\ total_count' = total_count /\ cell' = cell /\ last' = last
      /\ received' = received /\ accepted' = accepted
      /\ pc' \notin InitSteps
  BY DEF Dequeue, DequeueCheck, DequeueRead, DequeueAdvance, DequeueLoad,
     DequeueStore, InitInv, InitSteps, queue, history
<1>2. InitInv'
  BY <1>1 DEF InitInv, InitSteps
<1>3. Len(accepted) \in Nat /\ Len(delivered) \in Nat /\ first \in Cells
      /\ count \in 0 .. Size /\ Size \in Nat \ {0}
  BY RxQueueAssumption DEF TypeOK
<1>4. CASE DequeueCheck
  BY <1>1, <1>2, <1>3, <1>4
     DEF DequeueCheck, IsEmpty, TypeOK, CountInv, RingInv, CountNeverExceeds,
         Waiting, DequeueSteps, Held, Gone, queue, history
<1>5. CASE DequeueRead
  <2>1. item' = cell[first] /\ item' \in Bytes \cup {NoByte}
    BY <1>3, <1>5 DEF DequeueRead, TypeOK
  <2>2. TypeOK' /\ CountInv'
    BY <1>1, <1>5, <2>1
       DEF DequeueRead, TypeOK, CountInv, CountNeverExceeds, Waiting,
           DequeueSteps, queue, history
  <2>3. RingInv'
    <3> SUFFICES ASSUME count = Waiting
                 PROVE  /\ last' = Place(first', Held')
                        /\ \A k \in 0 .. Held' - 1 :
                             cell'[Place(first', k)] =
                               accepted'[Len(delivered') + Gone' + k + 1]
                        /\ \A i \in 1 .. Len(delivered') : delivered'[i] = accepted'[i]
                        /\ item' = accepted'[Len(delivered') + 1]
      BY <1>5 DEF DequeueRead, RingInv, Waiting, queue, history
    <3>1. /\ Gone = 0 /\ Gone' = 0 /\ Held = count /\ Held' = count
          /\ first' = first /\ delivered' = delivered /\ count > 0
      BY <1>3, <1>5 DEF DequeueRead, Gone, Held, CountInv, DequeueSteps, queue, history
    <3>2. Place(first, 0) = first
      BY <1>3 DEF Place, Cells
    <3>3. cell[Place(first, 0)] = accepted[Len(delivered) + Gone + 0 + 1]
      <4>1. 0 \in 0 .. Held - 1
        BY <1>3, <3>1
      <4>2. QED
        BY <1>1, <4>1 DEF RingInv
    <3>4. item' = accepted'[Len(delivered') + 1]
      BY <1>1, <1>3, <2>1, <3>1, <3>2, <3>3
    <3>5. QED
      BY <1>1, <3>1, <3>4 DEF RingInv
  <2>4. QED
    BY <1>2, <2>2, <2>3
<1>6. CASE DequeueAdvance
  <2>1. /\ first' = Place(first, 1) /\ first' \in Cells
        /\ \A k \in Nat : k < Size => Place(first', k) = Place(first, k + 1)
    BY <1>1, <1>3, <1>6, Places DEF DequeueAdvance
  <2>2. TypeOK' /\ CountInv'
    BY <1>1, <1>6, <2>1
       DEF DequeueAdvance, TypeOK, CountInv, CountNeverExceeds, Waiting,
           DequeueSteps, history
  <2>3. RingInv'
    <3> SUFFICES ASSUME count = Waiting
                 PROVE  /\ last = Place(first', Held')
                        /\ \A k \in 0 .. Held' - 1 :
                             cell[Place(first', k)] =
                               accepted[Len(delivered) + Gone' + k + 1]
                        /\ \A i \in 1 .. Len(delivered) : delivered[i] = accepted[i]
                        /\ item = accepted[Len(delivered) + 1]
      BY <1>1, <1>6 DEF DequeueAdvance, RingInv, Waiting, history
    <3>1. /\ Gone = 0 /\ Gone' = 1 /\ Held = count /\ Held' = count - 1
          /\ count > 0
      BY <1>3, <1>6 DEF DequeueAdvance, Gone, Held, CountInv, DequeueSteps
    <3>2. last = Place(first', Held')
      <4>1. Held' \in Nat /\ Held' < Size /\ Held' + 1 = Held
        BY <1>3, <3>1
      <4>2. QED
        BY <1>1, <2>1, <4>1 DEF RingInv
    <3>3. ASSUME NEW k \in 0 .. Held' - 1
          PROVE  cell[Place(first', k)] = accepted[Len(delivered) + Gone' + k + 1]
      <4>1. k \in Nat /\ k < Size /\ k + 1 \in 0 .. Held - 1
        BY <1>3, <3>1
      <4>2. Len(delivered) + Gone + (k + 1) + 1 = Len(delivered) + Gone' + k + 1
        BY <1>3, <3>1, <4>1
      <4>3. cell[Place(first, k + 1)] = accepted[Len(delivered) + Gone + (k + 1) + 1]
        BY <1>1, <4>1 DEF RingInv
      <4>4. QED
        BY <2>1, <4>1, <4>2, <4>3
    <3>4. QED
      BY <1>1, <1>6, <3>2, <3>3 DEF RingInv, DequeueAdvance
  <2>4. QED
    BY <1>2, <2>2, <2>3
<1>7. CASE DequeueLoad
  BY <1>1, <1>2, <1>3, <1>7
     DEF DequeueLoad, TypeOK, CountInv, RingInv, CountNeverExceeds, Waiting,
         DequeueSteps, Held, Gone, queue, history
<1>8. CASE DequeueStore
  <2>1. /\ count' = reg - 1 /\ first' = first /\ reg' = reg /\ item' = item
        /\ pc = "store" /\ pc' = "idle"
        /\ delivered' = Append(delivered, item)
    BY <1>8 DEF DequeueStore, Decremented
  <2>2. /\ delivered' \in Seq(Bytes \cup {NoByte})
        /\ Len(delivered') = Len(delivered) + 1
        /\ \A i \in 1 .. Len(delivered) : delivered'[i] = delivered[i]
        /\ delivered'[Len(delivered) + 1] = item
    BY <2>1 DEF TypeOK
  <2>3. reg \in 1 .. count /\ count <= Waiting /\ Waiting' = Waiting - 1
    BY <1>1, <1>3, <2>1, <2>2
       DEF CountInv, CountNeverExceeds, TypeOK, Waiting
  <2>4. TypeOK'
    BY <1>1, <1>3, <2>1, <2>2, <2>3 DEF TypeOK
  <2>5. CountInv'
    BY <1>1, <1>3, <2>1, <2>3
       DEF CountInv, CountNeverExceeds, DequeueSteps, Waiting
  <2>6. RingInv'
    <3> SUFFICES ASSUME count' = Waiting'
                 PROVE  /\ last = Place(first, Held')
                        /\ \A k \in 0 .. Held' - 1 :
                             cell[Place(first, k)] =
                               accepted[Len(delivered') + Gone' + k + 1]
                        /\ \A i \in 1 .. Len(delivered') : delivered'[i] = accepted[i]
      BY <1>1, <2>1 DEF RingInv
    <3>1. count = Waiting /\ reg = count
      BY <1>3, <2>1, <2>3 DEF Waiting
    <3>2. Gone = 1 /\ Gone' = 0 /\ Held = count - 1 /\ Held' = Held
      BY <1>3, <2>1, <3>1 DEF Gone, Held
    <3>3. /\ last = Place(first, Held)
          /\ \A k \in 0 .. Held - 1 :
               cell[Place(first, k)] = accepted[Len(delivered) + Gone + k + 1]
          /\ \A i \in 1 .. Len(delivered) : delivered[i] = accepted[i]
          /\ item = accepted[Len(delivered) + 1]
      BY <1>1, <2>1, <3>1 DEF RingInv
    <3>4. \A i \in 1 .. Len(delivered') : delivered'[i] = accepted[i]
      BY <1>3, <2>2, <3>3
    <3>5. ASSUME NEW k \in 0 .. Held' - 1
          PROVE  cell[Place(first, k)] = accepted[Len(delivered') + Gone' + k + 1]
      <4>1. Len(delivered') + Gone' + k + 1 = Len(delivered) + Gone + k + 1
        BY <1>3, <2>2, <3>2
      <4>2. QED
        BY <3>2, <3>3, <4>1
    <3>6. QED
      BY <3>2, <3>3, <3>4, <3>5
  <2>7. QED
    BY <1>2, <2>4, <2>5, <2>6
<1>9. QED
  BY <1>4, <1>5, <1>6, <1>7, <1>8 DEF Dequeue

-----------------------------------------------------------------------------
(* The cell of the i-th of the n bytes before cell l, as Contents has it:  *)
(* a byte put into cell l becomes the last, and the byte n cells before l  *)
(* is the first.                                                           *)
Back(l, n, i) == (l + Size - n + i - 1) % Size

(* The cells behind the tail, one more with each byte enqueued. *)
LEMMA Backs ==
  ASSUME NEW l \in Cells, NEW n \in 0 .. Size
  PROVE  /\ \A i \in 1 .. n : Back(l, n, i) \in Cells
         /\ n < Size =>
              /\ \A i \in 1 .. n : /\ Back(Place(l, 1), n + 1, i) = Back(l, n, i)
                                   /\ Back(l, n, i) # l
              /\ Back(Place(l, 1), n + 1, n + 1) = l
         /\ n > 0 => /\ Back(Place(l, n), n, 1) = l
                     /\ \A i \in 1 .. n - 1 : Back(l, n - 1, i) = Back(l, n, i + 1)
<1> USE RxQueueAssumption DEF Cells
<1>1. ASSUME NEW i \in 1 .. n
      PROVE  Back(l, n, i) = IF l + i - 1 < n THEN l + Size - n + i - 1
                                              ELSE l - n + i - 1
  <2>1. l + Size - n + i - 1 \in Nat /\ l + Size - n + i - 1 < 2 * Size
    OBVIOUS
  <2>2. QED
    BY <2>1, Wraps DEF Back
<1>2. \A i \in 1 .. n : Back(l, n, i) \in Cells
  BY <1>1
<1>3. ASSUME n < Size
      PROVE  /\ \A i \in 1 .. n : /\ Back(Place(l, 1), n + 1, i) = Back(l, n, i)
                                  /\ Back(l, n, i) # l
             /\ Back(Place(l, 1), n + 1, n + 1) = l
  <2>1. ASSUME NEW i \in 1 .. n + 1
        PROVE  Back(Place(l, 1), n + 1, i) = IF l + i - 1 < n THEN l + Size - n + i - 1
                                                             ELSE l - n + i - 1
    <3>1. CASE l + 1 < Size
      <4>1. /\ l + 1 + Size - (n + 1) + i - 1 \in Nat
            /\ l + 1 + Size - (n + 1) + i - 1 < 2 * Size
        BY <1>3
      <4>2. QED
        BY <1>3, <3>1, <4>1, Wraps DEF Back, Place
    <3>2. CASE l + 1 = Size
      <4>1. /\ 0 + Size - (n + 1) + i - 1 \in Nat
            /\ 0 + Size - (n + 1) + i - 1 < Size
        BY <1>3
      <4>2. QED
        BY <1>3, <3>2, <4>1, Wraps DEF Back, Place
    <3>3. QED
      BY <3>1, <3>2
  <2>2. QED
    BY <1>1, <1>3, <2>1
<1>4. ASSUME n > 0
      PROVE  /\ Back(Place(l, n), n, 1) = l
             /\ \A i \in 1 .. n - 1 : Back(l, n - 1, i) = Back(l, n, i + 1)
  <2>1. Back(Place(l, n), n, 1) = l
    <3>1. CASE l + n < Size
      <4>1. (l + Size) % Size = l
        BY Wraps
      <4>2. QED
        BY <3>1, <4>1 DEF Back, Place
    <3>2. CASE l + n >= Size
      <4>1. l % Size = l
        BY Wraps
      <4>2. QED
        BY <3>2, <4>1 DEF Back, Place
    <3>3. QED
      BY <3>1, <3>2
  <2>2. ASSUME NEW i \in 1 .. n - 1
        PROVE  Back(l, n - 1, i) = Back(l, n, i + 1)
    <3>1. l + Size - (n - 1) + i - 1 = l + Size - n + (i + 1) - 1
      OBVIOUS
    <3>2. QED
      BY <3>1, Zenon DEF Back
  <2>3. QED
    BY <2>1, <2>2
<1>5. QED
  BY <1>2, <1>3, <1>4

(* With locks the byte dequeued is the first, until it is handed out.      *)
LEMMA LockedStep == IInv /\ Next => LockedInv'
<1> SUFFICES ASSUME IInv, Next, locked', pc' \in {"advance", "load", "store"}
             PROVE  item' = Contents'[1]
  BY DEF LockedInv
<1> USE DEF IInv, QueueInv
<1>1. CASE DequeueRead
  <2>1. /\ count = Waiting /\ pc = "read" /\ count > 0 /\ locked
        /\ item' = cell[first] /\ UNCHANGED <<cell, last, count>>
    BY <1>1 DEF DequeueRead, CountInv, DequeueSteps, queue
  <2>2. last = Place(first, count) /\ first \in Cells /\ count \in 1 .. Size
    BY <2>1 DEF RingInv, InitSteps, Held, Gone, TypeOK
  <2>3. Back(last, count, 1) = first
    BY <2>1, <2>2, Backs
  <2>4. Contents' = Contents
    BY <2>1 DEF Contents
  <2>5. Contents[1] = cell[Back(last, count, 1)]
    BY <2>2 DEF Contents, Back
  <2>6. QED
    BY <2>1, <2>3, <2>4, <2>5
<1>2. CASE DequeueAdvance \/ DequeueLoad
  <2>1. /\ item' = item /\ UNCHANGED <<cell, last, count>>
        /\ locked /\ pc \in {"advance", "load"}
    BY <1>2 DEF DequeueAdvance, DequeueLoad, queue
  <2>2. Contents' = Contents
    BY <2>1 DEF Contents
  <2>3. QED
    BY <2>1, <2>2 DEF LockedInv
<1>3. CASE Enqueue \/ QueueInit \/ DequeueCheck \/ DequeueStore
  BY <1>3 DEF Enqueue, MayInterrupt, QueueInit, InitTotal, InitLast, InitFirst,
     InitCount, DequeueCheck, DequeueStore
<1>4. QED
  BY <1>1, <1>2, <1>3 DEF Next, Dequeue

(* The invariant holds at the start. *)
LEMMA InitIInv == Init => IInv
BY InitQueueInv DEF Init, IInv, LockedInv

(* Every step preserves the inductive invariant. *)
LEMMA NextIInv == IInv /\ [Next]_vars => IInv'
<1> SUFFICES ASSUME IInv, [Next]_vars PROVE IInv'
  OBVIOUS
<1>1. CASE Next
  <2>1. QueueInv'
    BY <1>1, EnqueueQueueInv, QueueInitQueueInv, DequeueQueueInv DEF Next, IInv
  <2>2. QED
    BY <1>1, <2>1, LockedStep DEF IInv
<1>2. CASE UNCHANGED vars
  BY <1>2 DEF vars, queue, history, IInv, QueueInv, LockedInv, TypeOK, InitInv,
     CountInv, RingInv, CountNeverExceeds, Waiting, Held, Gone, Contents
<1>3. QED
  BY <1>1, <1>2

-----------------------------------------------------------------------------
(* The inductive invariant of the queue, with or without locks.            *)
THEOREM InvariantHolds == Spec => []IInv
BY InitIInv, NextIInv, PTL DEF Spec

(* Type correctness: count never leaves 0 .. Size, and first and last stay *)
(* in the array.                                                           *)
THEOREM TypeCorrect == Spec => []TypeOK
<1>1. IInv => TypeOK
  BY DEF IInv, QueueInv
<1>2. QED
  BY <1>1, InvariantHolds, PTL

(* queue_dequeue never reads past the last byte received.                  *)
THEOREM CountHolds == Spec => []CountNeverExceeds
<1>1. IInv => CountNeverExceeds
  BY DEF IInv, QueueInv, CountInv
<1>2. QED
  BY <1>1, InvariantHolds, PTL

(* Until the first collision the bytes come out as they came in.           *)
THEOREM ExactHolds == Spec => []ExactUntilCollision
<1>1. IInv => ExactUntilCollision
  <2> SUFFICES ASSUME IInv, count = Waiting
               PROVE  \A i \in 1 .. Len(delivered) : delivered[i] = accepted[i]
    BY DEF ExactUntilCollision
  <2>1. CASE pc \in InitSteps
    <3>1. Len(delivered) = 0
      BY <2>1 DEF IInv, QueueInv, InitInv
    <3>2. QED
      BY <3>1
  <2>2. CASE pc \notin InitSteps
    BY <2>2 DEF IInv, QueueInv, RingInv
  <2>3. QED
    BY <2>1, <2>2
<1>2. QED
  BY <1>1, InvariantHolds, PTL

(* A byte that count has forgotten is never caught up with.                *)
THEOREM LagHolds == Spec => LagNeverHeals
<1>1. ASSUME IInv, [Next]_vars
      PROVE  [Waiting' - count' >= Waiting - count]_vars
  <2> SUFFICES ASSUME Next PROVE Waiting' - count' >= Waiting - count
    BY <1>1
  <2>1. /\ Len(accepted) \in Nat /\ Len(delivered) \in Nat /\ count \in Nat
        /\ accepted \in Seq(Bytes) /\ delivered \in Seq(Bytes \cup {NoByte})
        /\ reg \in Nat
    BY <1>1, RxQueueAssumption DEF IInv, QueueInv, TypeOK
  <2>2. CASE Enqueue
    BY <2>1, <2>2 DEF Enqueue, Waiting, queue
  <2>3. CASE QueueInit
    BY <2>1, <2>3 DEF QueueInit, InitTotal, InitLast, InitFirst, InitCount,
       Waiting, history
  <2>4. CASE DequeueStore
    <3>1. reg <= count
      BY <1>1, <2>4 DEF DequeueStore, IInv, QueueInv, CountInv
    <3>2. Len(delivered') = Len(delivered) + 1 /\ accepted' = accepted
      BY <2>1, <2>4 DEF DequeueStore
    <3>3. count' = reg - 1
      BY <2>4 DEF DequeueStore, Decremented
    <3>4. QED
      BY <2>1, <3>1, <3>2, <3>3 DEF Waiting
  <2>5. CASE DequeueCheck \/ DequeueRead \/ DequeueAdvance \/ DequeueLoad
    BY <2>1, <2>5 DEF DequeueCheck, DequeueRead, DequeueAdvance, DequeueLoad,
       Waiting, queue, history
  <2>6. QED
    BY <2>2, <2>3, <2>4, <2>5 DEF Next, Dequeue
<1>2. QED
  BY <1>1, InvariantHolds, PTL DEF Spec, LagNeverHeals

-----------------------------------------------------------------------------
(* Contents is a sequence of count bytes. *)
LEMMA ContentsSeq ==
  ASSUME TypeOK
  PROVE  /\ Contents \in Seq(Bytes \cup {NoByte})
         /\ Len(Contents) = count /\ count \in Nat
         /\ \A i \in 1 .. count : Contents[i] = cell[Back(last, count, i)]
         /\ count = 0 => Contents = <<>>
<1>1. last \in Cells /\ count \in 0 .. Size /\ count \in Nat
  BY RxQueueAssumption DEF TypeOK
<1>2. Contents = [i \in 1 .. count |-> cell[Back(last, count, i)]]
  BY DEF Contents, Back
<1>3. \A i \in 1 .. count : cell[Back(last, count, i)] \in Bytes \cup {NoByte}
  BY <1>1, Backs DEF TypeOK
<1>4. Contents \in Seq(Bytes \cup {NoByte}) /\ Len(Contents) = count
  BY <1>1, <1>2, <1>3
<1>5. QED
  BY <1>1, <1>2, <1>4

(* With locks an enqueue puts its byte at the end of the contents. *)
LEMMA EnqueuePuts ==
  ASSUME IInv, IInv', Enqueue, ~IsFull
  PROVE  Contents' = Append(Contents, received + 1)
<1> USE DEF IInv, QueueInv
<1>1. /\ cell' = [cell EXCEPT ![last] = received + 1]
      /\ last' = Following(last) /\ count' = count + 1
  BY DEF Enqueue
<1>2. /\ last \in Cells /\ count \in 0 .. Size /\ count < Size
      /\ total_count = Size
  BY RxQueueAssumption DEF TypeOK, IsFull, InitInv
<1>3. last' = Place(last, 1)
  BY <1>1, <1>2, Places
<1>4. /\ Contents' \in Seq(Bytes \cup {NoByte}) /\ Len(Contents') = count + 1
      /\ \A i \in 1 .. count + 1 :
           Contents'[i] = cell'[Back(Place(last, 1), count + 1, i)]
  <2>1. Contents' = [i \in 1 .. count' |-> cell'[Back(last', count', i)]]
    BY DEF Contents, Back
  <2>2. last' \in Cells /\ count' \in 0 .. Size
    BY DEF TypeOK
  <2>3. \A i \in 1 .. count' : cell'[Back(last', count', i)] \in Bytes \cup {NoByte}
    BY <2>2, Backs DEF TypeOK
  <2>4. QED
    BY <1>1, <1>2, <1>3, <2>1, <2>2, <2>3
<1>5. /\ Contents \in Seq(Bytes \cup {NoByte}) /\ Len(Contents) = count
      /\ \A i \in 1 .. count : Contents[i] = cell[Back(last, count, i)]
  BY ContentsSeq
<1>6. /\ \A i \in 1 .. count : /\ Back(Place(last, 1), count + 1, i) = Back(last, count, i)
                                /\ Back(last, count, i) # last
                                /\ Back(last, count, i) \in Cells
      /\ Back(Place(last, 1), count + 1, count + 1) = last
  BY <1>2, Backs
<1>7. \A i \in 1 .. count : Contents'[i] = Contents[i]
  BY <1>1, <1>2, <1>4, <1>5, <1>6 DEF TypeOK
<1>8. Contents'[count + 1] = received + 1
  BY <1>1, <1>2, <1>4, <1>6 DEF TypeOK
<1>9. QED
  BY <1>2, <1>4, <1>5, <1>7, <1>8

(* With locks the end of a dequeue hands out the first byte of the         *)
(* contents.                                                               *)
LEMMA DequeueTakes ==
  ASSUME IInv, IInv', DequeueStore, locked
  PROVE  /\ Contents # <<>> /\ Contents' = Tail(Contents)
         /\ delivered' = Append(delivered, Head(Contents))
<1> USE DEF IInv, QueueInv
<1>1. /\ reg = count /\ count > 0 /\ count' = count - 1
      /\ cell' = cell /\ last' = last
      /\ delivered' = Append(delivered, item) /\ item = Contents[1]
  BY DEF DequeueStore, Decremented, CountInv, DequeueSteps, LockedInv
<1>2. last \in Cells /\ count \in 0 .. Size /\ count' \in Nat
  BY <1>1, RxQueueAssumption DEF TypeOK
<1>3. /\ Contents \in Seq(Bytes \cup {NoByte}) /\ Len(Contents) = count
      /\ \A i \in 1 .. count : Contents[i] = cell[Back(last, count, i)]
  BY ContentsSeq
<1>4. Contents' = [i \in 1 .. count - 1 |-> cell[Back(last, count - 1, i)]]
  BY <1>1 DEF Contents, Back
<1>5. \A i \in 1 .. count - 1 : Back(last, count - 1, i) = Back(last, count, i + 1)
  BY <1>1, <1>2, Backs
<1>6. \A i \in 1 .. count - 1 : Contents'[i] = Contents[i + 1]
  BY <1>2, <1>3, <1>4, <1>5
<1>7. Contents' = Tail(Contents)
  <2>1. Tail(Contents) \in Seq(Bytes \cup {NoByte}) /\ Len(Tail(Contents)) = count - 1
    BY <1>1, <1>2, <1>3
  <2>2. \A i \in 1 .. count - 1 : Tail(Contents)[i] = Contents[i + 1]
    BY <1>2, <1>3
  <2>3. Contents' \in Seq(Bytes \cup {NoByte}) /\ Len(Contents') = count - 1
    <3>1. \A i \in 1 .. count - 1 :
            cell[Back(last, count - 1, i)] \in Bytes \cup {NoByte}
      <4>1. \A i \in 1 .. count - 1 :
              /\ i + 1 \in 1 .. count
              /\ cell[Back(last, count - 1, i)] = Contents[i + 1]
        BY <1>2, <1>3, <1>5
      <4>2. \A i \in 1 .. count : Contents[i] \in Bytes \cup {NoByte}
        BY <1>3
      <4>3. QED
        BY <4>1, <4>2
    <3>2. QED
      BY <1>1, <1>2, <1>4, <3>1
  <2>4. QED
    BY <1>2, <1>6, <2>1, <2>2, <2>3
<1>8. QED
  BY <1>1, <1>2, <1>3, <1>7

(* With locks the queue implements a bounded first-in first-out buffer: an *)
(* enqueue that finds room is the Put of ByteFifo, and the step that       *)
(* stores count is its Take.                                               *)
THEOREM FifoHolds == Spec => ImplementsFifo
<1> DEFINE contents == IF locked THEN Contents ELSE <<>>
           handed == IF locked THEN delivered ELSE <<>>
<1>1. Init => Fifo!Init
  <2> SUFFICES ASSUME Init PROVE contents = <<>> /\ handed = <<>>
    BY DEF Fifo!Init
  <2>1. TypeOK /\ count = 0
    BY InitIInv DEF Init, IInv, QueueInv
  <2>2. QED
    BY <2>1, ContentsSeq DEF Init
<1>2. ASSUME IInv, IInv', [Next]_vars
      PROVE  [Fifo!Next]_<<contents, handed>>
  <2>1. locked' = locked
    BY <1>2 DEF Next, vars, Enqueue, QueueInit, InitTotal, InitLast, InitFirst,
       InitCount, Dequeue, DequeueCheck, DequeueRead, DequeueAdvance,
       DequeueLoad, DequeueStore
  <2>2. CASE ~locked
    BY <2>1, <2>2
  <2> SUFFICES ASSUME locked PROVE [Fifo!Next]_<<contents, handed>>
    BY <2>2
  <2>3. CASE Enqueue /\ ~IsFull
    <3>1. Contents' = Append(Contents, received + 1) /\ delivered' = delivered
      BY <1>2, <2>3, EnqueuePuts DEF Enqueue
    <3>2. received + 1 \in Bytes
      BY <1>2, <2>3, RxQueueAssumption DEF Enqueue, IInv, QueueInv, TypeOK, Bytes
    <3>3. Len(Contents) < Size
      BY <1>2, <2>3, ContentsSeq, RxQueueAssumption
         DEF IInv, QueueInv, TypeOK, InitInv, IsFull
    <3>4. Fifo!Put(received + 1)
      BY <2>1, <3>1, <3>3 DEF Fifo!Put
    <3>5. QED
      BY <3>2, <3>4 DEF Fifo!Next
  <2>4. CASE DequeueStore
    <3>1. /\ Contents # <<>> /\ Contents' = Tail(Contents)
          /\ delivered' = Append(delivered, Head(Contents))
      BY <1>2, <2>4, DequeueTakes
    <3>2. Fifo!Take
      BY <2>1, <3>1 DEF Fifo!Take
    <3>3. QED
      BY <3>2 DEF Fifo!Next
  <2>5. CASE QueueInit
    <3>1. count = 0 /\ count' = 0
      BY <1>2, <2>5 DEF IInv, QueueInv, InitInv, InitSteps, QueueInit, InitTotal,
         InitLast, InitFirst, InitCount
    <3>2. Contents = <<>>
      BY <1>2, <3>1, ContentsSeq DEF IInv, QueueInv
    <3>3. Contents' = <<>>
      <4>1. Contents' = [i \in 1 .. 0 |-> cell'[(last' + Size - 0 + i - 1) % Size]]
        BY <3>1 DEF Contents
      <4>2. QED
        BY <4>1
    <3>4. delivered' = delivered
      BY <2>5 DEF QueueInit, InitTotal, InitLast, InitFirst, InitCount, history
    <3>5. QED
      BY <2>1, <3>2, <3>3, <3>4
  <2>6. CASE \/ (Enqueue /\ IsFull) \/ UNCHANGED vars
             \/ DequeueCheck \/ DequeueRead \/ DequeueAdvance \/ DequeueLoad
    <3>1. UNCHANGED <<cell, last, count, delivered>>
      BY <2>6 DEF Enqueue, vars, DequeueCheck, DequeueRead, DequeueAdvance,
         DequeueLoad, queue, history
    <3>2. Contents' = Contents
      BY <3>1 DEF Contents
    <3>3. QED
      BY <2>1, <3>1, <3>2
  <2>7. QED
    BY <1>2, <2>3, <2>4, <2>5, <2>6 DEF Next, Dequeue
<1>3. QED
  BY <1>1, <1>2, InvariantHolds, PTL DEF Spec, ImplementsFifo, Fifo!Spec
=============================================================================
