--------------------------- MODULE DurableSettings ---------------------------
(***************************************************************************)
(* What the settings journal promises its callers: the settings in use and *)
(* the settings the next start will load.  A saved change becomes durable  *)
(* as a whole or not at all; the only other thing that may happen to what  *)
(* is stored is that it falls back to the defaults.                        *)
(***************************************************************************)
CONSTANTS
  Settings,  \* the values the settings may take
  Default,   \* the defaults
  Off        \* the settings in use while the tracker is not running

VARIABLES
  ram,       \* the settings in use, or Off
  stored     \* the settings the next start will load

Init == ram = Off /\ stored = Default

Start == ram = Off /\ ram' = stored /\ UNCHANGED stored

(* A setter changes the settings in use; the journal may have to be erased *)
(* to make room for them.                                                  *)
Change ==
  /\ ram # Off
  /\ ram' \in Settings
  /\ stored' \in {stored, Default}

Commit == ram # Off /\ stored' = ram /\ UNCHANGED ram

PowerOff == ram # Off /\ ram' = Off /\ UNCHANGED stored

Next == Start \/ Change \/ Commit \/ PowerOff

Spec == Init /\ [][Next]_<<ram, stored>>
=============================================================================
