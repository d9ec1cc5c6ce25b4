------------------------------- MODULE RxQueue ------------------------------
(***************************************************************************)
(* A receive queue (Core/queue/queue.c) between the interrupt of a UART,   *)
(* which enqueues each byte (bsp_uart_*_byte_received), and the main loop, *)
(* which drains it (_uart_data_proccess, _wait_for_gnss_response; the loop *)
(* of the bootloader).                                                     *)
(*                                                                         *)
(* The interrupt runs to its end without the main loop, so an enqueue is   *)
(* one step; queue_init and queue_dequeue are interruptible between any    *)
(* two accesses to the queue.  "q->count--" is a load and a store.         *)
(*                                                                         *)
(* queue_register_locks lets a program mask the interrupt between _lock    *)
(* and _unlock.  locked says whether it was called: the tests of the queue *)
(* do, the application and the bootloader never do.                        *)
(***************************************************************************)
EXTENDS Naturals, Sequences

CONSTANTS
  Size,       \* cells of the queue (1024, 4096 and 512 in the firmware)
  MaxBytes,   \* bound: bytes the UART receives in a behaviour
  NoByte      \* the value of a cell nothing was written to

ASSUME RxQueueAssumption ==
  /\ Size \in Nat \ {0}
  /\ MaxBytes \in Nat
  /\ NoByte \notin Nat

VARIABLES
  locked,     \* _lock and _unlock are registered
  total_count, cell, last, first, count,   \* queue_t
  pc,         \* the next step of the main loop in queue_init or queue_dequeue
  item,       \* the byte queue_dequeue has read
  reg,        \* the register "q->count--" is computed in
  received,   \* history: bytes the UART received; a byte is its number
  accepted,   \* history: bytes queue_enqueue accepted
  delivered   \* history: bytes queue_dequeue returned

queue == <<total_count, cell, last, first, count>>
history == <<received, accepted, delivered>>
vars == <<locked, queue, pc, item, reg, history>>

-----------------------------------------------------------------------------
Cells == 0 .. Size - 1
Bytes == 1 .. MaxBytes

InitSteps == {"init_total", "init_last", "init_first", "init_count"}
DequeueSteps == {"read", "advance", "load", "store"}

TypeOK ==
  /\ locked \in BOOLEAN
  /\ total_count \in {0, Size}
  /\ cell \in [Cells -> Bytes \cup {NoByte}]
  /\ last \in Cells
  /\ first \in Cells
  /\ count \in 0 .. Size
  /\ pc \in {"idle"} \cup InitSteps \cup DequeueSteps
  /\ item \in Bytes \cup {NoByte}
  /\ reg \in 0 .. Size
  /\ received \in 0 .. MaxBytes
  /\ accepted \in Seq(Bytes)
  /\ delivered \in Seq(Bytes \cup {NoByte})

(* The start-up code has zeroed RAM, and the interrupt is enabled before    *)
(* queue_init is called (application.c:801, 824).                            *)
Init ==
  /\ locked \in BOOLEAN
  /\ total_count = 0 /\ last = 0 /\ first = 0 /\ count = 0
  /\ cell = [i \in Cells |-> NoByte]
  /\ pc = "init_total"
  /\ item = NoByte
  /\ reg = 0
  /\ received = 0
  /\ accepted = <<>>
  /\ delivered = <<>>

-----------------------------------------------------------------------------
(* Operators of the queue, each with the mistake the checks must reject. *)
Following_NoWrap(i) == i + 1
Following_Early(i) == (i + 1) % (total_count - 1)
Following(i) == (i + 1) % total_count

IsFull == count >= total_count

IsEmpty_OffByOne == count <= 1
IsEmpty == count = 0

Decremented_Not(n) == n
Decremented(n) == n - 1

(* Between _lock and _unlock the interrupt waits, if there are locks. *)
MayInterrupt_Always == TRUE
MayInterrupt == locked => pc = "idle"

-----------------------------------------------------------------------------
(* The interrupt: a byte is received, and dropped when the queue is full. *)
Enqueue ==
  /\ MayInterrupt
  /\ received < MaxBytes
  /\ received' = received + 1
  /\ IF IsFull
     THEN UNCHANGED <<queue, accepted>>
     ELSE /\ cell' = [cell EXCEPT ![last] = received + 1]
          /\ last' = Following(last)
          /\ count' = count + 1
          /\ accepted' = Append(accepted, received + 1)
          /\ UNCHANGED <<total_count, first>>
  /\ UNCHANGED <<locked, pc, item, reg, delivered>>

-----------------------------------------------------------------------------
(* queue_init, one assignment a step. *)
InitTotal ==
  /\ pc = "init_total"
  /\ total_count' = Size
  /\ pc' = "init_last"
  /\ UNCHANGED <<locked, cell, last, first, count, item, reg, history>>

InitLast ==
  /\ pc = "init_last"
  /\ last' = 0
  /\ pc' = "init_first"
  /\ UNCHANGED <<locked, total_count, cell, first, count, item, reg, history>>

InitFirst ==
  /\ pc = "init_first"
  /\ first' = 0
  /\ pc' = "init_count"
  /\ UNCHANGED <<locked, total_count, cell, last, count, item, reg, history>>

InitCount ==
  /\ pc = "init_count"
  /\ count' = 0
  /\ pc' = "idle"
  /\ UNCHANGED <<locked, total_count, cell, last, first, item, reg, history>>

-----------------------------------------------------------------------------
(* queue_dequeue.  An empty queue returns at once and changes nothing. *)
DequeueCheck ==
  /\ pc = "idle"
  /\ ~IsEmpty
  /\ pc' = "read"
  /\ UNCHANGED <<locked, queue, item, reg, history>>

DequeueRead ==
  /\ pc = "read"
  /\ item' = cell[first]
  /\ pc' = "advance"
  /\ UNCHANGED <<locked, queue, reg, history>>

DequeueAdvance ==
  /\ pc = "advance"
  /\ first' = Following(first)
  /\ pc' = "load"
  /\ UNCHANGED <<locked, total_count, cell, last, count, item, reg, history>>

DequeueLoad ==
  /\ pc = "load"
  /\ reg' = count
  /\ pc' = "store"
  /\ UNCHANGED <<locked, queue, item, history>>

DequeueStore ==
  /\ pc = "store"
  /\ count' = Decremented(reg)
  /\ delivered' = Append(delivered, item)
  /\ pc' = "idle"
  /\ UNCHANGED <<locked, total_count, cell, last, first, item, reg,
                 received, accepted>>

-----------------------------------------------------------------------------
QueueInit == InitTotal \/ InitLast \/ InitFirst \/ InitCount

Dequeue ==
  \/ DequeueCheck \/ DequeueRead \/ DequeueAdvance
  \/ DequeueLoad \/ DequeueStore

Next == Enqueue \/ QueueInit \/ Dequeue

(* The main loop keeps draining; nothing obliges the UART to receive. *)
Spec == Init /\ [][Next]_vars /\ WF_vars(QueueInit \/ Dequeue)

-----------------------------------------------------------------------------
(***************************************************************************)
(* Properties                                                              *)
(***************************************************************************)

(* With locks the queue is a bounded first-in first-out buffer; the byte    *)
(* being dequeued leaves it when count is stored.                           *)
Contents ==
  [i \in 1 .. count |-> cell[(last + Size - count + i - 1) % Size]]
Fifo == INSTANCE ByteFifo WITH
  Capacity <- Size,
  contents <- IF locked THEN Contents ELSE <<>>,
  handed <- IF locked THEN delivered ELSE <<>>
ImplementsFifo == Fifo!Spec

(* With locks every byte the interrupt got into the queue reaches the       *)
(* parser, whatever arrives or does not arrive after it.                    *)
AllDelivered ==
  \A b \in Bytes :
    locked /\ (\E i \in 1 .. Len(accepted) : accepted[i] = b)
      ~> (\E i \in 1 .. Len(delivered) : delivered[i] = b)

(* Bytes accepted and not handed out, which count should tell. *)
Waiting == Len(accepted) - Len(delivered)

(* Without locks, an enqueue that hits "q->count--" or queue_init is        *)
(* forgotten by count; count never tells more than there is, so that        *)
(* queue_dequeue never reads past the last byte received.                   *)
CountNeverExceeds == count <= Waiting

(* A forgotten byte is never caught up with: from then on the main loop     *)
(* lags behind the UART for as long as the program runs.                    *)
LagNeverHeals == [][Waiting' - count' >= Waiting - count]_vars

(* Until the first such collision the bytes handed out are those accepted,  *)
(* in their order.                                                          *)
ExactUntilCollision ==
  count = Waiting => \A i \in 1 .. Len(delivered) : delivered[i] = accepted[i]
=============================================================================
