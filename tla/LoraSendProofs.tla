---------------------------- MODULE LoraSendProofs ----------------------------
(***************************************************************************)
(* What holds of a send for every duty cycle, whatever the network, the    *)
(* radio, the console and the button do, proved with TLAPS.                *)
(*                                                                         *)
(* The argument: between lorawan_init and lorawan_send the stack has at    *)
(* most a join in progress and no uplink of its own pending, because only  *)
(* a confirmed uplink announces another and the initialisation forgets it; *)
(* so the first uplink confirmed after lorawan_send is that of the send.   *)
(***************************************************************************)
EXTENDS LoraSend, TLAPS

(* Every event is one the request in progress can end with. *)
EventFits(s) ==
  /\ s.event \in {"accept", "fail"} => s.MacState = "join"
  /\ s.event \in {"sent", "more"} => s.MacState \in {"data", "empty"}

WellFormed(s) == s \in Stack /\ EventFits(s)

(* The stack between lorawan_init and lorawan_send.                        *)
Joining(s) ==
  /\ ~s.IsUplinkTxPending
  /\ s.MacState \in {"idle", "join"}
  /\ s.is_joined => s.activated /\ s.MacState = "idle"

(* The stack between lorawan_send and the end of its wait.                 *)
Sending(s) ==
  /\ s.activated
  /\ s.MacState # "join"
  /\ s.is_tx_complete => s.own_confirmed
  /\ ~s.own_confirmed => s.MacState \in {"idle", "data"} /\ ~s.IsUplinkTxPending

(* A send by LoRaWAN goes on with the session that was initialised for it. *)
SessionInv ==
  /\ pc \in {"wait_fix", "send"} /\ lorawan_mode => Joining(lora)
  /\ pc = "wait_join" => Joining(lora)
  /\ pc = "wait_tx" => Sending(lora)

IInv == TypeOK /\ EventFits(lora) /\ SessionInv /\ ResultIsOwn

-----------------------------------------------------------------------------
(* A request is refused, or it is the one in progress afterwards. *)
LEMMA RequestEffect ==
  ASSUME NEW s, WellFormed(s), s.MacState = "idle",
         NEW kind \in {"join", "data", "empty"},
         NEW t \in Request(s, kind)
  PROVE  /\ WellFormed(t)
         /\ t.MacState \in {s.MacState, kind}
         /\ t.event = s.event
         /\ t.activated = s.activated
         /\ t.IsUplinkTxPending = s.IsUplinkTxPending
         /\ t.is_joined = s.is_joined
         /\ t.is_tx_complete = s.is_tx_complete
         /\ t.own_confirmed = s.own_confirmed
<1>1. CASE t = s
  BY <1>1 DEF WellFormed
<1>2. CASE s.budget # 0 /\ t = [s EXCEPT !.MacState = kind, !.budget = @ - 1]
  <2>1. s.budget - 1 \in 0 .. MaxBudget
    BY <1>2, LoraSendAssumption DEF WellFormed, Stack
  <2>2. s.event = None
    BY DEF WellFormed, EventFits, Stack
  <2>3. QED
    BY <1>2, <2>1, <2>2, LoraSendAssumption DEF WellFormed, EventFits, Stack
<1>3. QED
  BY <1>1, <1>2 DEF Request

(* A request to join deactivates the session, also when it is refused. *)
LEMMA JoinEffect ==
  ASSUME NEW s, WellFormed(s), s.MacState = "idle", NEW t \in LmHandlerJoin(s)
  PROVE  /\ WellFormed(t)
         /\ t.MacState \in {"idle", "join"}
         /\ t.IsUplinkTxPending = s.IsUplinkTxPending
         /\ t.is_joined = s.is_joined
<1> DEFINE r == [s EXCEPT !.activated = FALSE]
<1>1. /\ WellFormed(r) /\ r.MacState = "idle"
      /\ r.IsUplinkTxPending = s.IsUplinkTxPending /\ r.is_joined = s.is_joined
  BY DEF WellFormed, EventFits, Stack
<1> HIDE DEF r
<1>2. t \in Request(r, "join")
  BY DEF LmHandlerJoin, r
<1>3. QED
  BY <1>1, <1>2, RequestEffect

(* LmHandlerSend of an activated session: refused or in progress.          *)
LEMMA SendEffect ==
  ASSUME NEW s, WellFormed(s), s.activated,
         NEW kind \in {"data", "empty"}, NEW t \in LmHandlerSend(s, kind)
  PROVE  /\ WellFormed(t)
         /\ t.activated
         /\ t.MacState \in {s.MacState, kind}
         /\ t.IsUplinkTxPending => s.IsUplinkTxPending
         /\ t.is_joined = s.is_joined
         /\ t.is_tx_complete = s.is_tx_complete
         /\ t.own_confirmed = s.own_confirmed
<1>1. CASE s.MacState # "idle"
  BY <1>1 DEF LmHandlerSend
<1>2. CASE s.MacState = "idle"
  <2>1. PICK r \in Request(s, kind) :
          t = IF r.MacState = kind THEN [r EXCEPT !.IsUplinkTxPending = FALSE] ELSE r
    BY <1>2 DEF LmHandlerSend
  <2>2. /\ WellFormed(r) /\ r.MacState \in {s.MacState, kind}
        /\ r.activated = s.activated /\ r.IsUplinkTxPending = s.IsUplinkTxPending
        /\ r.is_joined = s.is_joined /\ r.is_tx_complete = s.is_tx_complete
        /\ r.own_confirmed = s.own_confirmed
    <3>1. kind \in {"join", "data", "empty"}
      OBVIOUS
    <3>2. QED
      BY <1>2, <3>1, RequestEffect, ZenonT(40)
  <2> DEFINE q == [r EXCEPT !.IsUplinkTxPending = FALSE]
  <2>3. /\ WellFormed(q) /\ q.MacState = r.MacState /\ q.activated = r.activated
        /\ ~q.IsUplinkTxPending /\ q.is_joined = r.is_joined
        /\ q.is_tx_complete = r.is_tx_complete
        /\ q.own_confirmed = r.own_confirmed
    BY <2>2 DEF WellFormed, EventFits, Stack
  <2>4. t = q \/ t = r
    BY <2>1
  <2> HIDE DEF q
  <2>5. QED
    BY <2>2, <2>3, <2>4
<1>3. QED
  BY <1>1, <1>2

(* LoRaMacProcess serves an event, once. *)
LEMMA MacProcessEffect ==
  ASSUME NEW s, WellFormed(s), NEW t \in LoRaMacProcess(s)
  PROVE  /\ WellFormed(t)
         /\ Joining(s) => Joining(t)
         /\ Sending(s) => Sending(t)
<1>1. CASE s.event = None
  BY <1>1, LoraSendAssumption DEF LoRaMacProcess
<1>2. CASE s.event = "accept"
  <2>1. t = [s EXCEPT !.MacState = "idle", !.event = None,
                      !.activated = TRUE, !.is_joined = TRUE]
    BY <1>2, LoraSendAssumption DEF LoRaMacProcess
  <2>2. s.MacState = "join"
    BY <1>2 DEF WellFormed, EventFits
  <2>3. QED
    BY <2>1, <2>2, LoraSendAssumption
       DEF WellFormed, EventFits, Stack, Joining, Sending
<1>3. CASE s.event = "fail"
  <2> DEFINE r == [s EXCEPT !.MacState = "idle", !.event = None]
  <2>1. s.MacState = "join"
    BY <1>3 DEF WellFormed, EventFits
  <2>2. /\ WellFormed(r) /\ r.MacState = "idle"
        /\ r.IsUplinkTxPending = s.IsUplinkTxPending /\ r.is_joined = s.is_joined
    BY LoraSendAssumption DEF WellFormed, EventFits, Stack
  <2>3. t \in LmHandlerJoin(r)
    BY <1>3, LoraSendAssumption DEF LoRaMacProcess
  <2> HIDE DEF r
  <2>4. /\ WellFormed(t) /\ t.MacState \in {"idle", "join"}
        /\ t.IsUplinkTxPending = s.IsUplinkTxPending /\ t.is_joined = s.is_joined
    BY <2>2, <2>3, JoinEffect
  <2>5. QED
    BY <2>1, <2>4 DEF Joining, Sending
<1>4. CASE s.event \in {"sent", "more"}
  <2>1. t = Confirmed(s)
    BY <1>4, LoraSendAssumption DEF LoRaMacProcess
  <2>2. s.MacState \in {"data", "empty"}
    BY <1>4 DEF WellFormed, EventFits
  <2>3. WellFormed(t)
    BY <1>4, <2>1, <2>2, LoraSendAssumption
       DEF Confirmed, WellFormed, EventFits, Stack
  <2>4. Sending(s) => Sending(t)
    BY <1>4, <2>1, <2>2 DEF Confirmed, Sending, WellFormed, Stack
  <2>5. QED
    BY <2>2, <2>3, <2>4 DEF Joining
<1>5. QED
  BY <1>1, <1>2, <1>3, <1>4 DEF WellFormed, Stack

(* Serving the stack keeps what a send relies on. *)
LEMMA ProcessEffect ==
  ASSUME NEW s, WellFormed(s), NEW t \in LmHandlerProcess(s)
  PROVE  /\ WellFormed(t)
         /\ Joining(s) => Joining(t)
         /\ Sending(s) => Sending(t)
<1>1. PICK r \in LoRaMacProcess(s) :
        t \in IF r.IsUplinkTxPending THEN LmHandlerSend(r, "empty") ELSE {r}
  BY DEF LmHandlerProcess
<1>2. /\ WellFormed(r)
      /\ Joining(s) => Joining(r)
      /\ Sending(s) => Sending(r)
  BY <1>1, MacProcessEffect
<1>3. CASE ~r.IsUplinkTxPending
  BY <1>1, <1>2, <1>3
<1>4. CASE r.IsUplinkTxPending /\ r.activated
  <2>1. t \in LmHandlerSend(r, "empty")
    BY <1>1, <1>4
  <2>2. QED
    BY <1>2, <1>4, <2>1, SendEffect DEF Joining, Sending, WellFormed, Stack
<1>5. CASE r.IsUplinkTxPending /\ ~r.activated
  <2>1. ~Joining(s) /\ ~Sending(s)
    BY <1>2, <1>5 DEF Joining, Sending
  <2>2. t = r \/ (r.MacState = "idle" /\ t \in LmHandlerJoin(r))
    BY <1>1, <1>5 DEF LmHandlerSend
  <2>3. QED
    BY <1>2, <2>1, <2>2, JoinEffect
<1>6. QED
  BY <1>3, <1>4, <1>5 DEF WellFormed, Stack

(* lorawan_init begins a session: no uplink of an earlier one is left, and *)
(* its join is forgotten.                                                  *)
LEMMA InitEffect ==
  ASSUME NEW s, WellFormed(s), NEW t \in lorawan_init(s)
  PROVE  WellFormed(t) /\ Joining(t)
<1> DEFINE q == [s EXCEPT !.is_joined = FALSE]
           r == LmHandlerConfigure(q)
<1>1. q \in Stack /\ ~q.is_joined
  BY DEF WellFormed, Stack
<1>2. t \in LmHandlerJoin(r)
  BY DEF lorawan_init
<1> HIDE DEF q
<1>3. /\ r \in Stack /\ r.MacState = "idle" /\ r.event = None
      /\ ~r.IsUplinkTxPending /\ ~r.is_joined
  <2>1. MaxBudget \in 0 .. MaxBudget
    BY LoraSendAssumption
  <2>2. r = [q EXCEPT !.IsUplinkTxPending = FALSE, !.MacState = "idle",
                      !.event = None, !.budget = MaxBudget]
    BY DEF LmHandlerConfigure
  <2>3. QED
    BY <1>1, <2>1, <2>2, Zenon DEF Stack
<1> HIDE DEF r
<1>4. WellFormed(r)
  BY <1>3, LoraSendAssumption DEF WellFormed, EventFits
<1>5. QED
  BY <1>2, <1>3, <1>4, JoinEffect DEF Joining

(* lorawan_send, in a session that has joined, begins the wait for its own *)
(* confirmation.                                                           *)
LEMMA SendStarts ==
  ASSUME NEW s, WellFormed(s), Joining(s), s.is_joined, NEW t \in lorawan_send(s)
  PROVE  WellFormed(t) /\ Sending(t)
<1> DEFINE r == [s EXCEPT !.is_tx_complete = FALSE, !.own_confirmed = FALSE]
<1>1. /\ WellFormed(r) /\ r.MacState = "idle" /\ r.activated
      /\ ~r.IsUplinkTxPending /\ r.is_tx_complete = FALSE
  BY DEF WellFormed, EventFits, Stack, Joining
<1>2. t \in LmHandlerSend(r, "data")
  BY DEF lorawan_send
<1> HIDE DEF r
<1>3. QED
  BY <1>1, <1>2, SendEffect DEF Sending

-----------------------------------------------------------------------------
(* TypeOK without the stack, and the stack by itself. *)
OthersOK ==
  /\ pc \in Points
  /\ lorawan_mode \in BOOLEAN /\ power_off_request \in BOOLEAN
  /\ timeout \in BOOLEAN
  /\ radio_on \in BOOLEAN /\ on_air \in BOOLEAN
  /\ is_sent \in BOOLEAN /\ is_timeout \in BOOLEAN /\ transmitted \in BOOLEAN

(* The types of the variables, one by one. *)
LEMMA TypeParts ==
  /\ (TypeOK /\ EventFits(lora)) <=> (OthersOK /\ WellFormed(lora))
  /\ (TypeOK /\ EventFits(lora))' <=> (OthersOK /\ WellFormed(lora))'
BY DEF TypeOK, OthersOK, WellFormed, EventFits, Stack

(* _background_loop: LoRaWAN is only ever switched off, the stack is       *)
(* served at most, and the button leads to the shutdown or to a new start  *)
(* of the state machine, in the states of the main loop only.              *)
LEMMA BackgroundEffect ==
  ASSUME OthersOK, NEW next \in Points, NEW stacks,
         \A s \in stacks : WellFormed(s), Background(next, stacks)
  PROVE  /\ lorawan_mode' \in BOOLEAN /\ power_off_request' \in BOOLEAN
         /\ lorawan_mode' => lorawan_mode
         /\ pc' \in {next, "shutdown", "init"}
         /\ next \notin MainLoop => pc' = next
         /\ WellFormed(lora')
         /\ \E s \in stacks : /\ Joining(s) => Joining(lora')
                              /\ Sending(s) => Sending(lora')
<1>1. /\ lorawan_mode' \in BOOLEAN
      /\ lorawan_mode' => lorawan_mode
  <2>1. CASE lorawan_mode' = lorawan_mode
    BY <2>1 DEF OthersOK
  <2>2. CASE lorawan_mode' = FALSE
    BY <2>2
  <2>3. QED
    BY <2>1, <2>2, Zenon DEF Background
<1>2. /\ power_off_request' \in BOOLEAN
      /\ pc' \in {next, "shutdown", "init"}
      /\ next \notin MainLoop => pc' = next
  BY DEF Background, Button, OthersOK
<1>3. PICK s \in stacks : lora' = s \/ lora' \in LmHandlerProcess(s)
  BY DEF Background
<1>4. /\ WellFormed(lora')
      /\ Joining(s) => Joining(lora')
      /\ Sending(s) => Sending(lora')
  BY <1>3, ProcessEffect
<1>5. QED
  BY <1>1, <1>2, <1>4

(* Booting begins with a stack that has done nothing. *)
LEMMA BootedWellFormed == WellFormed(Booted)
<1>1. 0 \in 0 .. MaxBudget
  BY LoraSendAssumption
<1>2. QED
  BY <1>1, LoraSendAssumption DEF WellFormed, Booted, Stack, EventFits

(* The invariant holds at the start. *)
LEMMA InitIInv == Init => IInv
<1> SUFFICES ASSUME Init PROVE IInv
  OBVIOUS
<1>1. OthersOK /\ WellFormed(lora)
  BY BootedWellFormed DEF Init, OthersOK, Points, MainLoop
<1>2. SessionInv /\ ResultIsOwn
  BY DEF Init, SessionInv, ResultIsOwn
<1>3. QED
  BY <1>1, <1>2, TypeParts DEF IInv

(* A reset, whatever it leaves LoRaWAN set to. *)
LEMMA RestartIInv == ASSUME NEW mode \in BOOLEAN, Restart(mode) PROVE IInv'
<1>1. OthersOK' /\ WellFormed(lora')
  BY BootedWellFormed DEF Restart, OthersOK, Points, MainLoop
<1>2. SessionInv' /\ ResultIsOwn'
  BY DEF Restart, SessionInv, ResultIsOwn
<1>3. QED
  BY <1>1, <1>2, TypeParts DEF IInv

-----------------------------------------------------------------------------
(* An iteration of the main loop, or of a loop of a send, keeps what the   *)
(* send relies on.                                                         *)
LEMMA ProgramIInv == IInv /\ Program => IInv'
<1> SUFFICES ASSUME IInv, Program PROVE IInv'
  OBVIOUS
<1> USE DEF SessionInv, ResultIsOwn
<1>1. OthersOK /\ WellFormed(lora) /\ SessionInv /\ ResultIsOwn
  BY TypeParts DEF IInv
<1>2. MainLoop \subseteq Points /\ LorawanLoops \subseteq Points
  BY DEF Points
<1> SUFFICES OthersOK' /\ WellFormed(lora') /\ SessionInv' /\ ResultIsOwn'
  BY TypeParts DEF IInv
<1>3. ASSUME NEW next \in MainLoop, Background(next, {lora}),
             UNCHANGED <<timeout, p2p>>, radio_on' \in BOOLEAN,
             next \in {"wait_fix", "send"} /\ lorawan_mode => Joining(lora)
      PROVE  OthersOK' /\ WellFormed(lora') /\ SessionInv' /\ ResultIsOwn'
  <2>1. /\ lorawan_mode' \in BOOLEAN /\ power_off_request' \in BOOLEAN
        /\ lorawan_mode' => lorawan_mode
        /\ pc' \in {next, "shutdown", "init"}
        /\ WellFormed(lora')
        /\ Joining(lora) => Joining(lora')
    BY <1>1, <1>2, <1>3, BackgroundEffect
  <2>2. OthersOK'
    BY <1>1, <1>2, <1>3, <2>1 DEF OthersOK, MainLoop, p2p
  <2>3. pc' \in MainLoop
    BY <2>1 DEF MainLoop
  <2>4. QED
    BY <1>3, <2>1, <2>2, <2>3 DEF MainLoop
<1>4. CASE InitState
  <2>1. CASE /\ \E next \in {"wait_fix", "send"} :
                  Background(next, IF lorawan_mode THEN lorawan_init(lora) ELSE {lora})
             /\ radio_on' = (radio_on \/ lorawan_mode)
    <3>1. UNCHANGED <<timeout, p2p>> /\ radio_on' \in BOOLEAN
      BY <1>1, <1>4, <2>1 DEF InitState, OthersOK
    <3>2. PICK next \in {"wait_fix", "send"} :
            Background(next, IF lorawan_mode THEN lorawan_init(lora) ELSE {lora})
      BY <2>1
    <3>3. CASE ~lorawan_mode
      BY <1>3, <3>1, <3>2, <3>3 DEF MainLoop
    <3>4. CASE lorawan_mode
      <4>1. \A s \in lorawan_init(lora) : WellFormed(s) /\ Joining(s)
        BY <1>1, InitEffect
      <4>2. Background(next, lorawan_init(lora)) /\ next \in Points
        BY <1>2, <3>2, <3>4 DEF MainLoop
      <4>3. /\ lorawan_mode' \in BOOLEAN /\ power_off_request' \in BOOLEAN
            /\ pc' \in {next, "shutdown", "init"}
            /\ WellFormed(lora')
            /\ Joining(lora')
        BY <1>1, <4>1, <4>2, BackgroundEffect
      <4>4. pc' \in MainLoop
        BY <3>2, <4>3 DEF MainLoop
      <4>5. OthersOK'
        BY <1>1, <1>2, <3>1, <4>3, <4>4 DEF OthersOK, p2p
      <4>6. QED
        BY <4>3, <4>4, <4>5 DEF MainLoop
    <3>5. QED
      BY <1>1, <3>3, <3>4 DEF OthersOK
  <2>2. CASE /\ \E next \in {"shutdown", "init"} : Background(next, {lora})
             /\ UNCHANGED radio_on
    BY <1>1, <1>3, <1>4, <2>2 DEF InitState, OthersOK, MainLoop
  <2>3. QED
    BY <1>4, <2>1, <2>2 DEF InitState
<1>5. CASE WaitForGpsFix
  BY <1>1, <1>3, <1>5 DEF WaitForGpsFix, OthersOK, MainLoop
<1>6. CASE SendByLorawan
  BY <1>1, <1>2, <1>6 DEF SendByLorawan, OthersOK, LorawanLoops, p2p
<1>7. CASE WaitJoin
  <2> USE <1>1, <1>2, <1>7 DEF LorawanLoops, p2p
  <2>1. CASE /\ lora.is_joined /\ lora' \in lorawan_send(lora) /\ pc' = "wait_tx"
             /\ UNCHANGED <<lorawan_mode, power_off_request>>
    <3>1. WellFormed(lora') /\ Sending(lora')
      BY <2>1, SendStarts DEF WaitJoin
    <3>2. QED
      BY <2>1, <3>1 DEF WaitJoin, OthersOK
  <2>2. CASE /\ pc' = "deinit" /\ UNCHANGED <<lorawan_mode, power_off_request, lora>>
    BY <2>2 DEF WaitJoin, OthersOK
  <2>3. CASE Background("wait_join", {lora})
    <3>1. /\ lorawan_mode' \in BOOLEAN /\ power_off_request' \in BOOLEAN
          /\ pc' = "wait_join"
          /\ WellFormed(lora')
          /\ Joining(lora) => Joining(lora')
      BY <2>3, BackgroundEffect DEF MainLoop
    <3>2. QED
      BY <3>1 DEF WaitJoin, OthersOK
  <2>4. QED
    BY <2>1, <2>2, <2>3 DEF WaitJoin
<1>8. CASE WaitTx
  <2> USE <1>1, <1>2, <1>8 DEF LorawanLoops, p2p
  <2>1. CASE /\ pc' = "deinit" /\ UNCHANGED <<lorawan_mode, power_off_request, lora>>
    BY <2>1 DEF WaitTx, OthersOK
  <2>2. CASE Background("wait_tx", {lora})
    <3>1. /\ lorawan_mode' \in BOOLEAN /\ power_off_request' \in BOOLEAN
          /\ pc' = "wait_tx"
          /\ WellFormed(lora')
          /\ Sending(lora) => Sending(lora')
      BY <2>2, BackgroundEffect DEF MainLoop
    <3>2. QED
      BY <3>1 DEF WaitTx, OthersOK
  <2>3. QED
    BY <2>1, <2>2 DEF WaitTx
<1>9. CASE Deinit
  <2> USE <1>1, <1>2, <1>9 DEF LorawanLoops, p2p
  <2>1. CASE CanStop(lora)
    <3>1. \A s \in {Stopped(lora)} : WellFormed(s)
      BY DEF Stopped, WellFormed, Stack, EventFits
    <3>2. Background("shutdown", {Stopped(lora)}) /\ "shutdown" \in Points
      BY <2>1 DEF Deinit, MainLoop
    <3>3. /\ lorawan_mode' \in BOOLEAN /\ power_off_request' \in BOOLEAN
          /\ pc' \in {"shutdown", "init"}
          /\ WellFormed(lora')
      BY <3>1, <3>2, BackgroundEffect
    <3>4. QED
      BY <3>3 DEF Deinit, OthersOK, MainLoop
  <2>2. CASE ~CanStop(lora)
    <3>1. /\ lorawan_mode' \in BOOLEAN /\ power_off_request' \in BOOLEAN
          /\ pc' = "deinit"
          /\ WellFormed(lora')
      BY <2>2, BackgroundEffect DEF Deinit, MainLoop
    <3>2. QED
      BY <3>1 DEF Deinit, OthersOK
  <2>3. QED
    BY <2>1, <2>2
<1>10. CASE SendByP2p
  BY <1>1, <1>10 DEF SendByP2p, ClearFlags, OthersOK, Points
<1>11. CASE P2pDone
  BY <1>1, <1>3, <1>11 DEF P2pDone, OthersOK, MainLoop
<1>12. CASE Shutdown
  <2>1. CASE Restart(lorawan_mode)
    BY <1>1, <2>1, RestartIInv, TypeParts DEF OthersOK, IInv
  <2>2. CASE /\ Background("charging", {lora})
             /\ radio_on' = FALSE /\ on_air' = FALSE
             /\ UNCHANGED <<timeout, is_sent, is_timeout, transmitted>>
    <3>1. /\ lorawan_mode' \in BOOLEAN /\ power_off_request' \in BOOLEAN
          /\ pc' \in {"charging", "shutdown", "init"}
          /\ WellFormed(lora')
      BY <1>1, <1>2, <2>2, BackgroundEffect DEF MainLoop
    <3>2. QED
      BY <1>1, <1>2, <2>2, <3>1 DEF OthersOK, MainLoop
  <2>3. QED
    BY <1>12, <2>1, <2>2 DEF Shutdown
<1>13. CASE Charging
  BY <1>1, <1>3, <1>13 DEF Charging, OthersOK, MainLoop
<1>14. QED
  BY <1>4, <1>5, <1>6, <1>7, <1>8, <1>9, <1>10, <1>11, <1>12, <1>13 DEF Program

(* Every step keeps the invariant. *)
LEMMA NextIInv == IInv /\ [Next]_vars => IInv'
<1> SUFFICES ASSUME IInv, [Next]_vars PROVE IInv'
  OBVIOUS
<1>1. OthersOK /\ WellFormed(lora) /\ SessionInv /\ ResultIsOwn
  BY TypeParts DEF IInv
<1>2. CASE Program
  BY <1>2, ProgramIInv
<1>3. CASE ConsoleEnable
  BY <1>3, RestartIInv DEF ConsoleEnable
<1>4. CASE RequestEnds
  <2>1. PICK e \in Answers : lora' = [lora EXCEPT !.event = e]
    BY <1>4 DEF RequestEnds
  <2>2. /\ e \in {"accept", "fail", "sent", "more"}
        /\ e \in {"accept", "fail"} => lora.MacState = "join"
        /\ e \in {"sent", "more"} => lora.MacState \in {"data", "empty"}
    BY <1>1, <1>4 DEF Answers, RequestEnds, WellFormed, Stack
  <2>3. /\ WellFormed(lora')
        /\ Joining(lora) => Joining(lora')
        /\ Sending(lora) => Sending(lora')
    BY <1>1, <2>1, <2>2 DEF WellFormed, EventFits, Stack, Joining, Sending
  <2>4. QED
    BY <1>1, <1>4, <2>3, TypeParts
       DEF RequestEnds, IInv, OthersOK, SessionInv, ResultIsOwn, p2p
<1>5. CASE _on_tx_done
  BY <1>1, <1>5, TypeParts
     DEF _on_tx_done, IInv, OthersOK, SessionInv, ResultIsOwn, p2p
<1>6. CASE _on_tx_timeout \/ ReceiveWindow \/ TimePasses
  BY <1>1, <1>6, TypeParts
     DEF _on_tx_timeout, ReceiveWindow, TimePasses, IInv, OthersOK, SessionInv,
         ResultIsOwn, p2p
<1>7. CASE UNCHANGED vars
  BY <1>1, <1>7, TypeParts
     DEF vars, IInv, OthersOK, SessionInv, ResultIsOwn, p2p
<1>8. QED
  BY <1>2, <1>3, <1>4, <1>5, <1>6, <1>7 DEF Next

-----------------------------------------------------------------------------
(* The inductive invariant: types, events that fit the request, and what a *)
(* send relies on at each of its points.                                   *)
THEOREM InvariantHolds == Spec => []IInv
BY InitIInv, NextIInv, PTL DEF Spec

(* Type correctness; an event is only ever there for a request.            *)
THEOREM TypeCorrect == Spec => []TypeOK
<1>1. IInv => TypeOK
  BY DEF IInv
<1>2. QED
  BY <1>1, InvariantHolds, PTL

(* While a send relies on _is_joined, the stack is activated: it is never  *)
(* the join of an earlier session.                                         *)
THEOREM JoinedHolds == Spec => []JoinedAgrees
<1>1. IInv => JoinedAgrees
  BY DEF IInv, SessionInv, Joining, Sending, JoinedAgrees
<1>2. QED
  BY <1>1, InvariantHolds, PTL

(* The wait of a send ends with the confirmation of its own uplink, never  *)
(* with that of an empty one the stack sent for itself.                    *)
THEOREM CompleteHolds == Spec => []CompleteIsOwn
<1>1. IInv => CompleteIsOwn
  BY DEF IInv, SessionInv, Sending, CompleteIsOwn
<1>2. QED
  BY <1>1, InvariantHolds, PTL

(* A point to point send that reports success has been on the air.         *)
THEOREM ResultHolds == Spec => []ResultIsOwn
<1>1. IInv => ResultIsOwn
  BY DEF IInv
<1>2. QED
  BY <1>1, InvariantHolds, PTL
=============================================================================
