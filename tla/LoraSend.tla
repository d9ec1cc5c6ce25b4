------------------------------ MODULE LoraSend ------------------------------
(***************************************************************************)
(* How a position leaves the tracker: the main loop (Core/Src/application.c)*)
(* with the LoRaWAN application (lorawan_app/lora_app.c), the handler of   *)
(* the LoRaWAN stack under it (LmHandler.c, and of LoRaMac.c what decides  *)
(* whether a request is taken), and the point to point sender              *)
(* (subghz_phy_app.c).                                                     *)
(*                                                                         *)
(* The stack is one record.  A request is taken or refused (the duty cycle,*)
(* or no free channel); one that is taken ends with an event, put by the   *)
(* interrupts of the radio and seen by the program only when               *)
(* _background_loop calls lorawan_process.  A position is not told apart   *)
(* from another one except by the send it belongs to.                      *)
(***************************************************************************)
EXTENDS Integers

CONSTANTS
  MaxBudget,  \* bound: requests the duty cycle lets through per lorawan_init
  None        \* no event

ASSUME LoraSendAssumption ==
  /\ MaxBudget \in Nat
  /\ None \notin {"accept", "fail", "sent", "more"}

VARIABLES
  pc,                 \* where the main loop is, see Points
  lorawan_mode,       \* settings_get_is_lorawan_mode
  power_off_request,  \* _is_power_off_request
  timeout,            \* the 30 s of the join, or the 7 s of the block, passed
  lora,               \* the stack and the variables of lora_app.c
  radio_on,           \* between an initialisation and subghz_deinit
  on_air,             \* the radio transmits the block of this p2p send
  is_sent,            \* _is_sent
  is_timeout,         \* _is_timeout
  transmitted         \* history: the block of this p2p send was on the air

p2p == <<on_air, is_sent, is_timeout, transmitted>>
vars == <<pc, lorawan_mode, power_off_request, timeout, lora, radio_on, p2p>>

(* wait_join, wait_tx and deinit are the three loops of                    *)
(* _send_gnss_data_by_lorawan, p2p is the one of subghz_radio_send_block.  *)
MainLoop == {"init", "wait_fix", "send", "shutdown", "charging"}
LorawanLoops == {"wait_join", "wait_tx", "deinit"}
Points == MainLoop \cup LorawanLoops \cup {"p2p"}

Stack ==
  [MacState: {"idle", "join", "data", "empty"},
   event: {None, "accept", "fail", "sent", "more"},
   activated: BOOLEAN,          \* Nvm.MacGroup2.NetworkActivation
   IsUplinkTxPending: BOOLEAN,
   is_joined: BOOLEAN,          \* _is_joined
   is_tx_complete: BOOLEAN,     \* _is_tx_complete
   own_confirmed: BOOLEAN,      \* history: of this lorawan_send
   budget: 0 .. MaxBudget]

TypeOK ==
  /\ pc \in Points
  /\ lorawan_mode \in BOOLEAN /\ power_off_request \in BOOLEAN
  /\ timeout \in BOOLEAN
  /\ lora \in Stack
  /\ lora.event # None => lora.MacState # "idle"
  /\ radio_on \in BOOLEAN /\ on_air \in BOOLEAN
  /\ is_sent \in BOOLEAN /\ is_timeout \in BOOLEAN /\ transmitted \in BOOLEAN

Booted ==
  [MacState |-> "idle", event |-> None, activated |-> FALSE,
   IsUplinkTxPending |-> FALSE, is_joined |-> FALSE,
   is_tx_complete |-> FALSE, own_confirmed |-> FALSE, budget |-> 0]

Init ==
  /\ pc = "init"
  /\ lorawan_mode \in BOOLEAN
  /\ power_off_request = FALSE /\ timeout = FALSE
  /\ lora = Booted
  /\ radio_on = FALSE /\ on_air = FALSE
  /\ is_sent = FALSE /\ is_timeout = FALSE /\ transmitted = FALSE

(* A reset, or the start after a shutdown. *)
Restart(mode) ==
  /\ pc' = "init"
  /\ lorawan_mode' = mode
  /\ power_off_request' = FALSE /\ timeout' = FALSE
  /\ lora' = Booted
  /\ radio_on' = FALSE /\ on_air' = FALSE
  /\ is_sent' = FALSE /\ is_timeout' = FALSE /\ transmitted' = FALSE

-----------------------------------------------------------------------------
(***************************************************************************)
(* The handler of the stack: what each of its functions can leave.         *)
(***************************************************************************)
Request(s, kind) ==
  {s} \cup IF s.budget = 0 THEN {}
           ELSE {[s EXCEPT !.MacState = kind, !.budget = @ - 1]}

(* The request to join resets the network parameters before it can be      *)
(* refused; a refused one is not confirmed.                                *)
LmHandlerJoin(s) == Request([s EXCEPT !.activated = FALSE], "join")

LmHandlerSend(s, kind) ==
  IF s.MacState # "idle" THEN {s}
  ELSE IF ~s.activated THEN LmHandlerJoin(s)
  ELSE {IF t.MacState = kind THEN [t EXCEPT !.IsUplinkTxPending = FALSE]
        ELSE t : t \in Request(s, kind)}

(* _on_tx_data does not ask whose uplink it was; a version that leaves the *)
(* event to be seen again (a mistake, Confirmed_Again).                    *)
Confirmed_Again(s) ==
  [s EXCEPT !.MacState = "idle", !.is_tx_complete = TRUE]
Confirmed(s) ==
  [s EXCEPT !.MacState = "idle", !.event = None,
            !.is_tx_complete = TRUE,
            !.own_confirmed = @ \/ s.MacState = "data",
            !.IsUplinkTxPending = @ \/ s.event = "more"]

(* LoRaMacProcess with the callbacks it makes: _on_join_request,           *)
(* _on_tx_data and McpsIndication (a downlink that announces more).        *)
LoRaMacProcess(s) ==
  CASE s.event = None -> {s}
    [] s.event = "accept" ->
         {[s EXCEPT !.MacState = "idle", !.event = None,
                    !.activated = TRUE, !.is_joined = TRUE]}
    [] s.event = "fail" ->
         LmHandlerJoin([s EXCEPT !.MacState = "idle", !.event = None])
    [] s.event \in {"sent", "more"} -> {Confirmed(s)}

LmHandlerProcess(s) ==
  UNION {IF t.IsUplinkTxPending THEN LmHandlerSend(t, "empty") ELSE {t} :
           t \in LoRaMacProcess(s)}

(* Without the reset of the pending uplink: LmHandlerConfigure_Pending.    *)
LmHandlerConfigure_Pending(s) ==
  [s EXCEPT !.MacState = "idle", !.event = None, !.budget = MaxBudget]
LmHandlerConfigure(s) ==
  [s EXCEPT !.IsUplinkTxPending = FALSE,
            !.MacState = "idle", !.event = None, !.budget = MaxBudget]

(* Without the reset of _is_joined: lorawan_init_Joined.                   *)
lorawan_init_Joined(s) == LmHandlerJoin(LmHandlerConfigure(s))
lorawan_init(s) ==
  LmHandlerJoin(LmHandlerConfigure([s EXCEPT !.is_joined = FALSE]))

lorawan_send(s) ==
  LmHandlerSend([s EXCEPT !.is_tx_complete = FALSE, !.own_confirmed = FALSE],
                "data")

(* What lorawan_deinit leaves: LmHandlerStop resets the activation, though  *)
(* not _is_joined, and LmHandlerNvmDataStore ends with the stack started.  *)
Stopped(s) == [s EXCEPT !.activated = FALSE]
(* A stop that wants a joined network (a mistake, CanStop_Joined).         *)
CanStop_Joined(s) == s.MacState = "idle" /\ s.activated
CanStop(s) == s.MacState = "idle"

-----------------------------------------------------------------------------
(***************************************************************************)
(* _background_loop: the console may switch LoRaWAN off, then the stack is *)
(* served when LoRaWAN is on, then the button is looked at.  The state it  *)
(* selects counts in the main loop only: the loops of a send end with      *)
(* SYSTEM_STATE_SHUTDOWN whatever it was.                                  *)
(***************************************************************************)
Button(next) ==
  \/ /\ pc' = next
     /\ UNCHANGED power_off_request
  \/ /\ power_off_request' = ~power_off_request
     /\ pc' = IF next \notin MainLoop THEN next
              ELSE IF power_off_request' THEN "shutdown" ELSE "init"

Background(next, stacks) ==
  /\ lorawan_mode' \in {lorawan_mode, FALSE}
  /\ lora' \in IF lorawan_mode' THEN UNION {LmHandlerProcess(s) : s \in stacks}
               ELSE stacks
  /\ Button(next)

(* The console switches LoRaWAN on: _cmd_enable_lorawan resets. *)
ConsoleEnable == pc # "p2p" /\ Restart(TRUE)

InitState ==
  /\ pc = "init"
  /\ \/ /\ \E next \in {"wait_fix", "send"} :  \* with a low battery to "send"
             Background(next, IF lorawan_mode THEN lorawan_init(lora) ELSE {lora})
        /\ radio_on' = (radio_on \/ lorawan_mode)
     \/ /\ \E next \in {"shutdown", "init"} :  \* critically low, or a tickle charge
             Background(next, {lora})
        /\ UNCHANGED radio_on
  /\ UNCHANGED <<timeout, p2p>>

WaitForGpsFix ==
  /\ pc = "wait_fix"
  /\ \E next \in {"wait_fix", "send"} : Background(next, {lora})
  /\ UNCHANGED <<timeout, radio_on, p2p>>

SendByLorawan ==
  /\ pc = "send"
  /\ lorawan_mode
  /\ pc' = "wait_join"
  /\ timeout' = FALSE
  /\ UNCHANGED <<lorawan_mode, power_off_request, lora, radio_on, p2p>>

WaitJoin ==
  /\ pc = "wait_join"
  /\ \/ /\ lora.is_joined
        /\ lora' \in lorawan_send(lora)
        /\ pc' = "wait_tx"
        /\ UNCHANGED <<lorawan_mode, power_off_request>>
     \/ /\ ~lora.is_joined /\ timeout
        /\ pc' = "deinit"
        /\ UNCHANGED <<lorawan_mode, power_off_request, lora>>
     \/ /\ ~lora.is_joined /\ ~timeout
        /\ Background("wait_join", {lora})
  /\ UNCHANGED <<timeout, radio_on, p2p>>

WaitTx ==
  /\ pc = "wait_tx"
  /\ IF lora.is_tx_complete
     THEN /\ pc' = "deinit"
          /\ UNCHANGED <<lorawan_mode, power_off_request, lora>>
     ELSE Background("wait_tx", {lora})
  /\ UNCHANGED <<timeout, radio_on, p2p>>

(* With the stack stopped the send is over and the iteration of the main   *)
(* loop ends, with _background_loop, in the shutdown state.                *)
Deinit ==
  /\ pc = "deinit"
  /\ IF CanStop(lora) THEN Background("shutdown", {Stopped(lora)})
     ELSE Background("deinit", {lora})
  /\ UNCHANGED <<timeout, radio_on, p2p>>

(* The flags are cleared after the radio is initialised, which ends what   *)
(* it did, and before the block goes out.                                  *)
(* A version that forgets one (a mistake, ClearFlags_Timeout).             *)
ClearFlags_Timeout == is_timeout' = FALSE /\ UNCHANGED is_sent
ClearFlags == is_sent' = FALSE /\ is_timeout' = FALSE

SendByP2p ==
  /\ pc = "send"
  /\ ~lorawan_mode
  /\ pc' = "p2p"
  /\ timeout' = FALSE
  /\ radio_on' = TRUE
  /\ on_air' = TRUE /\ transmitted' = FALSE
  /\ ClearFlags
  /\ UNCHANGED <<lorawan_mode, power_off_request, lora>>

P2pDone ==
  /\ pc = "p2p"
  /\ is_sent \/ is_timeout \/ timeout
  /\ Background("shutdown", {lora})
  /\ UNCHANGED <<timeout, radio_on, p2p>>

(* On the charger: _prepare_to_sleep takes the radio down and the loop     *)
(* goes on.  Off it: the power is off until the next start.                *)
Shutdown ==
  /\ pc = "shutdown"
  /\ \/ /\ Background("charging", {lora})
        /\ radio_on' = FALSE /\ on_air' = FALSE
        /\ UNCHANGED <<timeout, is_sent, is_timeout, transmitted>>
     \/ Restart(lorawan_mode)

Charging ==
  /\ pc = "charging"
  /\ \E next \in {"charging", "shutdown"} : Background(next, {lora})
  /\ UNCHANGED <<timeout, radio_on, p2p>>

Program ==
  \/ InitState \/ WaitForGpsFix
  \/ SendByLorawan \/ WaitJoin \/ WaitTx \/ Deinit
  \/ SendByP2p \/ P2pDone
  \/ Shutdown \/ Charging

-----------------------------------------------------------------------------
(***************************************************************************)
(* The radio, the network and time.                                        *)
(***************************************************************************)
Answers ==
  IF lora.MacState = "join"
  THEN {"fail"} \cup IF radio_on THEN {"accept"} ELSE {}
  ELSE {"sent"} \cup IF radio_on THEN {"more"} ELSE {}

(* The request in progress ends: answered, or without an answer when the   *)
(* receive windows or the transmission time out.                           *)
RequestEnds ==
  /\ lora.MacState # "idle" /\ lora.event = None
  /\ \E e \in Answers : lora' = [lora EXCEPT !.event = e]
  /\ UNCHANGED <<pc, lorawan_mode, power_off_request, timeout, radio_on, p2p>>

_on_tx_done ==
  /\ on_air
  /\ on_air' = FALSE /\ is_sent' = TRUE /\ transmitted' = TRUE
  /\ UNCHANGED <<pc, lorawan_mode, power_off_request, timeout, lora, radio_on,
                 is_timeout>>

(* The 5 s of the radio driver: the interrupt that ends the transmission   *)
(* may be late, or the radio may have been taken by a receive window.      *)
_on_tx_timeout ==
  /\ pc = "p2p" /\ ~is_sent
  /\ is_timeout' = TRUE
  /\ UNCHANGED <<pc, lorawan_mode, power_off_request, timeout, lora, radio_on,
                 on_air, is_sent, transmitted>>

(* A receive window of a stack that is no longer served opens in its timer *)
(* interrupt and takes the radio from the block.                           *)
ReceiveWindow ==
  /\ pc = "p2p" /\ lora.MacState # "idle"
  /\ on_air' = FALSE
  /\ UNCHANGED <<pc, lorawan_mode, power_off_request, timeout, lora, radio_on,
                 is_sent, is_timeout, transmitted>>

TimePasses ==
  /\ pc \in {"wait_join", "p2p"}
  /\ timeout' = TRUE
  /\ UNCHANGED <<pc, lorawan_mode, power_off_request, lora, radio_on, p2p>>

Next ==
  \/ Program \/ ConsoleEnable
  \/ RequestEnds \/ _on_tx_done \/ _on_tx_timeout \/ ReceiveWindow
  \/ TimePasses

Spec == Init /\ [][Next]_vars

(* The program runs, a request ends and time passes. *)
FairSpec ==
  /\ Spec
  /\ WF_vars(Program) /\ WF_vars(RequestEnds) /\ WF_vars(TimePasses)

-----------------------------------------------------------------------------
(* What lora_app.c says of the join is what the stack holds while a send   *)
(* relies on it: a send never starts on the join of an earlier session     *)
(* (lorawan_deinit leaves _is_joined set, lorawan_init clears it).         *)
JoinedAgrees ==
  pc \in {"wait_join", "wait_tx"} /\ lora.is_joined => lora.activated

(* _send_gnss_data_by_lorawan leaves its wait when the uplink it asked for *)
(* was confirmed, never on the confirmation of an empty uplink that the    *)
(* stack sent for itself (_on_tx_data cannot tell them apart).             *)
CompleteIsOwn ==
  pc = "wait_tx" /\ lora.is_tx_complete => lora.own_confirmed

(* subghz_radio_send_block reports success only when the block of this     *)
(* call went out: the interrupt of an earlier send, or of a radio that was *)
(* taken away, is not mistaken for it.                                     *)
ResultIsOwn == pc = "p2p" /\ is_sent => transmitted

(* The wait of application.c:606 after lorawan_send was refused: no event  *)
(* will come that could end it.                                            *)
Refused ==
  /\ pc = "wait_tx" /\ ~lora.is_tx_complete
  /\ lora.MacState = "idle" /\ ~lora.IsUplinkTxPending

(* A send ends, whatever the network does, and the tracker can sleep again;*)
(* only a refused request and LoRaWAN switched off in its middle hold it.  *)
SendEnds ==
  /\ (pc \in LorawanLoops /\ lorawan_mode)
        ~> (pc \notin LorawanLoops \/ ~lorawan_mode \/ Refused)
  /\ pc = "p2p" ~> pc # "p2p"
=============================================================================
