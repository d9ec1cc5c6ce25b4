------------------------------ MODULE Settings ------------------------------
(***************************************************************************)
(* The settings of the tracker (Core/settings/settings.c): a RAM copy and  *)
(* a journal of records in one flash page.  Each save that changes         *)
(* something appends a record; the last record with a good checksum is the *)
(* one a start loads; a full page is erased.                               *)
(*                                                                         *)
(* A record is a body of NumFields double words followed by a last one     *)
(* with the signature, the index and the checksum.  Flash is programmed a  *)
(* double word at a time (bsp_flash.c), the supply may fail before each,   *)
(* and programming a double word that is not erased fails silently unless  *)
(* the new value is all zeros.  The 8-bit checksum is taken to detect      *)
(* every mixture of two records.                                           *)
(***************************************************************************)
EXTENDS Naturals

CONSTANTS
  NumRecords,  \* records in the settings page (21 in the firmware)
  NumFields,   \* double words of a record before the last one
  Values,      \* contents of such a double word
  Zero,        \* the all-zero double word
  Default,     \* _default, with the device EUI of default_init_cb
  Erased       \* an erased double word

Fields == 1 .. NumFields
SettingsType == [Fields -> Values]

ASSUME SettingsAssumption ==
  /\ NumRecords \in Nat \ {0}
  /\ NumFields \in Nat \ {0}
  /\ Default \in SettingsType
  /\ Erased \notin Values
  /\ Erased \notin [index : Nat, checked : SettingsType]

VARIABLES
  flash,     \* the settings page
  mode,      \* "off", "idle" or "program" (inside _io->write)
  settings,  \* _storage.settings
  index,     \* _storage.index
  word       \* the next double word of the record _flash_write programs

vars == <<flash, mode, settings, index, word>>

-----------------------------------------------------------------------------
Slots == 0 .. NumRecords - 1
Trailers == [index : Slots, checked : SettingsType]
Record == [body : [Fields -> Values \cup {Erased}],
           last : Trailers \cup {Erased}]

ErasedRecord == [body |-> [f \in Fields |-> Erased], last |-> Erased]
ErasedFlash == [i \in Slots |-> ErasedRecord]

(* The signature is there and the checksum is that of the record.          *)
(* Mistake the checks must reject: the signature alone is looked at.       *)
IsValid_Signature(rec) == rec.last # Erased
IsValid(rec) == rec.last # Erased /\ rec.last.checked = rec.body

HasValid == \E i \in Slots : IsValid(flash[i])

(* last_valid_record of settings_reload.  Mistake: the scan stops at the *)
(* first valid record.                                                   *)
LastValid_First ==
  CHOOSE i \in Slots : IsValid(flash[i]) /\ \A j \in Slots : j < i => ~IsValid(flash[j])
LastValid ==
  CHOOSE i \in Slots : IsValid(flash[i]) /\ \A j \in Slots : j > i => ~IsValid(flash[j])

(* What a start would load from the page as it is. *)
BootSettings == IF HasValid THEN flash[LastValid].body ELSE Default

-----------------------------------------------------------------------------
TypeOK ==
  /\ flash \in [Slots -> Record]
  /\ mode \in {"off", "idle", "program"}
  /\ settings \in SettingsType
  /\ index \in Slots
  /\ word \in 1 .. NumFields + 1

Init ==
  /\ flash = ErasedFlash
  /\ mode = "off"
  /\ settings = Default
  /\ index = 0
  /\ word = 1

(* The write that follows an erase or a change of the index. *)
BeginProgram == mode' = "program" /\ word' = 1

-----------------------------------------------------------------------------
(* settings_reload, called by settings_init at every start. *)
ReloadFound ==
  /\ mode = "off"
  /\ HasValid
  /\ settings' = flash[LastValid].body
  /\ index' = flash[LastValid].last.index
  /\ mode' = "idle"
  /\ UNCHANGED <<flash, word>>

WriteDefaults ==
  /\ settings' = Default
  /\ index' = 0
  /\ flash' = ErasedFlash
  /\ BeginProgram

ReloadDefault ==
  /\ mode = "off"
  /\ ~HasValid
  /\ WriteDefaults

(* settings_reset, the console command "erase". *)
SettingsReset ==
  /\ mode = "idle"
  /\ WriteDefaults

-----------------------------------------------------------------------------
(* Where settings_save puts the record, and whether it erases the page     *)
(* first.  Mistakes: the index does not move on, skips a record or never   *)
(* wraps.                                                                  *)
NextIndex_Same == index
NextIndex_Twice == IF index + 2 >= NumRecords THEN 0 ELSE index + 2
NextIndex_NoWrap == index + 1
NextIndex == IF index + 1 >= NumRecords THEN 0 ELSE index + 1

MakeRoom ==
  IF index + 1 >= NumRecords THEN flash' = ErasedFlash ELSE UNCHANGED flash

(* A setter: the field in RAM, then settings_save, which does nothing when *)
(* the record at the index already holds these settings.                   *)
NoNeedSave(new) == flash[index].body = new

Set(f, v) ==
  LET new == [settings EXCEPT ![f] = v] IN
  /\ mode = "idle"
  /\ settings' = new
  /\ IF NoNeedSave(new)
     THEN UNCHANGED <<flash, mode, index, word>>
     ELSE /\ index' = NextIndex
          /\ MakeRoom
          /\ BeginProgram

-----------------------------------------------------------------------------
(* What a double word holds after an attempt to program it. *)
Programmed(old, new) == IF old = Erased \/ new = Zero THEN new ELSE old

(* One double word of the record; the read-back after the last one only    *)
(* reports a mismatch.                                                     *)
ProgramBody ==
  /\ mode = "program"
  /\ word <= NumFields
  /\ flash' = [flash EXCEPT ![index].body[word] = Programmed(@, settings[word])]
  /\ word' = word + 1
  /\ UNCHANGED <<mode, settings, index>>

Trailer == [index |-> index, checked |-> settings]

ProgramLast ==
  /\ mode = "program"
  /\ word = NumFields + 1
  /\ flash' = [flash EXCEPT ![index].last = IF @ = Erased THEN Trailer ELSE @]
  /\ mode' = "idle"
  /\ UNCHANGED <<settings, index, word>>

-----------------------------------------------------------------------------
(* A reset or a failing supply, between any two flash operations. *)
PowerLoss ==
  /\ mode # "off"
  /\ mode' = "off"
  /\ settings' = Default
  /\ index' = 0
  /\ word' = 1
  /\ UNCHANGED flash

Next ==
  \/ ReloadFound
  \/ ReloadDefault
  \/ SettingsReset
  \/ \E f \in Fields, v \in Values : Set(f, v)
  \/ ProgramBody
  \/ ProgramLast
  \/ PowerLoss

Spec == Init /\ [][Next]_vars

-----------------------------------------------------------------------------
(***************************************************************************)
(* Properties                                                              *)
(***************************************************************************)

(* The page is filled from its start without a gap, whatever was           *)
(* interrupted: no record is ever put behind an erased one.                *)
NoGap ==
  \A i, j \in Slots : i < j /\ flash[i] = ErasedRecord => flash[j] = ErasedRecord

(* Between saves the settings in use are the ones a start would load, as   *)
(* long as no save was cut short since the page was erased.                *)
NothingTorn ==
  \A i \in Slots : flash[i] # ErasedRecord => IsValid(flash[i])
CleanSaveDurable ==
  mode = "idle" /\ NothingTorn => BootSettings = settings

(* A record that was complete when the supply failed is not damaged by     *)
(* later saves: only erasing the page, when it is full or on the command   *)
(* "erase", removes it.                                                    *)
ValidStable ==
  [][\A i \in Slots : IsValid(flash[i]) =>
       flash'[i] = flash[i] \/ flash' = ErasedFlash]_vars

(* Crash atomicity: seen through BootSettings, the journal implements a    *)
(* store in which a change is durable as a whole or not at all.            *)
CONSTANT Off
ASSUME OffAssumption == Off \notin SettingsType
Durable == INSTANCE DurableSettings WITH
  Settings <- SettingsType,
  ram <- IF mode = "off" THEN Off ELSE settings,
  stored <- BootSettings
ImplementsDurable == Durable!Spec

(* After every save the flash holds what was saved ("Settings Compare       *)
(* failed after write", settings.c:217, reports the contrary).              *)
SaveDurable == mode = "idle" => BootSettings = settings
=============================================================================
