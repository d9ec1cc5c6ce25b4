---- MODULE ClockSwitch ----
(*************************************************************************)
(* The clock of the processor and the wait states of its flash           *)
(* (bsp_stm32wle5/bsp_clocks.c), as the bootloader and the application   *)
(* switch them.  One register is written a step: the flash is read all   *)
(* the time, so each order of the writes counts.                         *)
(*************************************************************************)
EXTENDS Integers, Sequences

VARIABLES
  program,          \* "bootloader", "host" (its loop), or "app"
  todo,             \* the register writes left of the call in progress
  SystemCoreClock,  \* in Hz
  msi,              \* the frequency of the oscillator, in Hz
  latency,          \* wait states of the flash
  scale             \* VCORE range

vars == <<program, todo, SystemCoreClock, msi, latency, scale>>

\* CLOCK_LIST, by bsp_clock_list_t.
Entry(hz, wait_states) == [core_hz |-> hz, flash_latency |-> wait_states]
kHz == 1000
MHz == 1000 * kHz
CLOCK_LIST ==
  [id \in 0..8 |->
     <<Entry(100 * kHz, 0), Entry(200 * kHz, 0), Entry(400 * kHz, 0),
       Entry(800 * kHz, 0), Entry(1 * MHz, 0), Entry(2 * MHz, 0),
       Entry(4 * MHz, 0), Entry(8 * MHz, 1), Entry(16 * MHz, 2)>>[id + 1]]
BSP_CLOCK_CORE_100_KHZ == 0
DEFAULT_FREQ == 6
BSP_CLOCK_CORE_16_MHZ == 8

SetLatency(freq) == <<"latency", CLOCK_LIST[freq].flash_latency>>
SetRange(freq) == <<"msi", CLOCK_LIST[freq].core_hz>>
SetCore(freq) == <<"core", CLOCK_LIST[freq].core_hz>>
SetScale(range) == <<"scale", range>>

clock_up_to_switch(freq) == <<SetLatency(freq), SetRange(freq), SetCore(freq)>>
clock_down_to_switch(freq) == <<SetRange(freq), SetLatency(freq), SetCore(freq)>>
bsp_clock_init ==
  <<SetLatency(DEFAULT_FREQ), SetScale(1), SetRange(DEFAULT_FREQ),
    SetCore(DEFAULT_FREQ), SetScale(2)>>

\* The frequency in Hz is compared with the place in the list.
bsp_clock_switch(freq) ==
  IF SystemCoreClock > freq THEN clock_down_to_switch(freq)
  ELSE IF SystemCoreClock < freq THEN clock_up_to_switch(freq)
  ELSE <<>>

\* After a reset the oscillator runs at 4 MHz.
Init ==
  /\ program = "bootloader" /\ todo = bsp_clock_init
  /\ SystemCoreClock = 4 * MHz /\ msi = 4 * MHz /\ latency = 0 /\ scale = 1

Write ==
  /\ todo # <<>>
  /\ LET register == Head(todo)[1]
         value == Head(todo)[2]
     IN  /\ latency' = IF register = "latency" THEN value ELSE latency
         /\ msi' = IF register = "msi" THEN value ELSE msi
         /\ SystemCoreClock' = IF register = "core" THEN value ELSE SystemCoreClock
         /\ scale' = IF register = "scale" THEN value ELSE scale
  /\ todo' = Tail(todo)
  /\ UNCHANGED program

Goes(to, writes) ==
  /\ todo = <<>>
  /\ program' = to /\ todo' = writes
  /\ UNCHANGED <<SystemCoreClock, msi, latency, scale>>

\* bsp_launch_app, and the start of the application.
LaunchApp == program = "bootloader" /\ Goes("app", bsp_clock_init)

StayInBootloader ==
  program = "bootloader" /\ Goes("host", bsp_clock_switch(BSP_CLOCK_CORE_16_MHZ))

\* _gnss_init, the charge loops: down for a while, and back.
AppSwitches ==
  /\ program = "app"
  /\ \E freq \in {BSP_CLOCK_CORE_100_KHZ, DEFAULT_FREQ} :
       Goes("app", bsp_clock_switch(freq))

Reset ==
  /\ program' = "bootloader" /\ todo' = bsp_clock_init
  /\ SystemCoreClock' = 4 * MHz /\ msi' = 4 * MHz /\ latency' = 0 /\ scale' = 1

Next == Write \/ LaunchApp \/ StayInBootloader \/ AppSwitches \/ Reset

Spec == Init /\ [][Next]_vars

\* The highest frequency at which the flash can be read, from the table at the
\* top of bsp_clocks.c.
MaxHz ==
  LET limits == IF scale = 1 THEN <<18, 36, 48>> ELSE <<6, 12, 16>>
  IN  limits[latency + 1] * MHz

\* The wait states suffice for the clock after each write to a register: "0 WS
\* (1 HCLK cycle)" up to 18 and 6 MHz, "1 WS" up to 36 and 12, "2 WS" up to 48 and 16.
LatencySuffices == msi <= MaxHz
====
