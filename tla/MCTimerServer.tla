---- MODULE MCTimerServer ----
EXTENDS TimerServerProofs

CONSTANTS delayed, timeout, window

\* OnTxDelayedTimerEvent sends: it starts the send's timeout, or the delay anew.
StackStarts == (delayed :> {delayed, timeout}) @@ (timeout :> {}) @@ (window :> {})
====
