------------------------------ MODULE ByteFifo ------------------------------
(***************************************************************************)
(* What a receive queue promises to the interrupt that fills it and to the *)
(* main loop that empties it: a bounded first-in first-out buffer.  A byte *)
(* is accepted only while there is room, and every accepted byte is handed *)
(* out once, in the order of arrival.                                      *)
(***************************************************************************)
EXTENDS Naturals, Sequences

CONSTANTS Capacity, Bytes

VARIABLES
  contents,   \* bytes accepted and not yet handed out
  handed      \* bytes handed out, oldest first

Init == contents = <<>> /\ handed = <<>>

Put(b) ==
  /\ Len(contents) < Capacity
  /\ contents' = Append(contents, b)
  /\ UNCHANGED handed

Take ==
  /\ contents # <<>>
  /\ contents' = Tail(contents)
  /\ handed' = Append(handed, Head(contents))

Next == Take \/ \E b \in Bytes : Put(b)

Spec == Init /\ [][Next]_<<contents, handed>>
=============================================================================
