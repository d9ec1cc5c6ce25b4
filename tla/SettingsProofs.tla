---------------------------- MODULE SettingsProofs ----------------------------
(***************************************************************************)
(* What holds of the settings journal for every size of the page and of a  *)
(* record, proved with TLAPS.                                              *)
(*                                                                         *)
(* The argument: the record that is being written is not valid before its  *)
(* last double word is, and no valid record lies behind it, so that what a *)
(* start would load changes only with that double word.  A save over the   *)
(* remains of one that was cut short leaves a record which the checksum    *)
(* rejects, and which nothing that is programmed over it can make valid:   *)
(* only zeros get through, and where the checksum wants them they are.     *)
(***************************************************************************)
EXTENDS Settings, TLAPS

(* The record i of the page fl is the one a start would load, ...          *)
Last(fl, i) == IsValid(fl[i]) /\ \A j \in Slots : j > i => ~IsValid(fl[j])

(* ... with these settings. *)
Loads(fl) ==
  IF \E i \in Slots : IsValid(fl[i])
  THEN fl[CHOOSE i \in Slots : Last(fl, i)].body ELSE Default

(* Each last double word is at the place it names, its record has no       *)
(* erased double word, and is zero where the checksum was computed of zero.*)
TrailersInv ==
  \A i \in Slots : flash[i].last # Erased =>
    /\ flash[i].last.index = i
    /\ \A f \in Fields :
         /\ flash[i].body[f] # Erased
         /\ flash[i].last.checked[f] = Zero => flash[i].body[f] = Zero

(* If any record is valid then one is the last. *)
LastInv ==
  (\E i \in Slots : IsValid(flash[i])) => \E i \in Slots : Last(flash, i)

(* No valid record lies behind the one in use, and no erased one before it.*)
IndexInv ==
  mode # "off" =>
    /\ \A j \in Slots : j > index => ~IsValid(flash[j])
    /\ \A j \in Slots : j < index => flash[j] # ErasedRecord

(* Between saves the record in use is, if valid, that of the settings.     *)
IdleInv ==
  mode = "idle" =>
    /\ flash[index] # ErasedRecord
    /\ IsValid(flash[index]) => flash[index].body = settings

(* Inside a save the record is not valid yet, and what has been programmed *)
(* of it is zero where the settings are.                                   *)
ProgramInv ==
  mode = "program" =>
    /\ ~IsValid(flash[index])
    /\ \A f \in Fields : f < word =>
         /\ flash[index].body[f] # Erased
         /\ settings[f] = Zero => flash[index].body[f] = Zero

IInv ==
  /\ TypeOK /\ NoGap /\ TrailersInv /\ LastInv
  /\ IndexInv /\ IdleInv /\ ProgramInv


-----------------------------------------------------------------------------
(* There is one last record, and its settings are those a start loads. *)
LEMMA LoadsLast ==
  ASSUME NEW fl, NEW i \in Slots, Last(fl, i)
  PROVE  (CHOOSE k \in Slots : Last(fl, k)) = i /\ Loads(fl) = fl[i].body
<1>1. ASSUME NEW k \in Slots, Last(fl, k) PROVE k = i
  <2>1. ~(k > i) /\ ~(i > k)
    BY <1>1 DEF Last
  <2>2. QED
    BY <2>1, SettingsAssumption DEF Slots
<1>2. (CHOOSE k \in Slots : Last(fl, k)) = i
  BY <1>1, Zenon
<1>3. QED
  BY <1>2 DEF Loads, Last

(* What a start loads is Loads of the page, before a step and after it. *)
LEMMA BootLoads == BootSettings = Loads(flash) /\ BootSettings' = Loads(flash')
<1>1. BootSettings = Loads(flash)
  BY DEF BootSettings, HasValid, LastValid, Loads, Last
<1>2. BootSettings' = Loads(flash')
  BY DEF BootSettings, HasValid, LastValid, Loads, Last
<1>3. QED
  BY <1>1, <1>2

(* An erased page holds no valid record: a start loads the defaults. *)
LEMMA ErasedLoads ==
  /\ ErasedFlash \in [Slots -> Record]
  /\ \A i \in Slots : ~IsValid(ErasedFlash[i])
  /\ Loads(ErasedFlash) = Default
<1>1. ErasedRecord \in Record
  BY DEF ErasedRecord, Record
<1>2. \A i \in Slots : ErasedFlash[i] = ErasedRecord
  BY DEF ErasedFlash
<1>3. \A i \in Slots : ~IsValid(ErasedFlash[i])
  BY <1>2 DEF ErasedRecord, IsValid
<1>4. QED
  BY <1>1, <1>3 DEF ErasedFlash, Loads

(* Pages with the same valid records load the same settings. *)
LEMMA SameLoads ==
  ASSUME NEW fl, NEW gl,
         \A i \in Slots : IsValid(gl[i]) <=> IsValid(fl[i]),
         \A i \in Slots : IsValid(fl[i]) => gl[i] = fl[i],
         (\E i \in Slots : IsValid(fl[i])) => \E i \in Slots : Last(fl, i)
  PROVE  /\ (\E i \in Slots : IsValid(gl[i])) => \E i \in Slots : Last(gl, i)
         /\ Loads(gl) = Loads(fl)
<1>1. \A i \in Slots : Last(gl, i) <=> Last(fl, i)
  BY DEF Last
<1>2. CASE \E i \in Slots : Last(fl, i)
  <2>1. PICK i \in Slots : Last(fl, i)
    BY <1>2
  <2>2. Loads(fl) = fl[i].body /\ Loads(gl) = gl[i].body
    BY <1>1, <2>1, LoadsLast
  <2>3. gl[i] = fl[i]
    BY <2>1 DEF Last
  <2>4. QED
    BY <1>1, <2>1, <2>2, <2>3
<1>3. CASE ~\E i \in Slots : Last(fl, i)
  BY <1>3 DEF Loads
<1>4. QED
  BY <1>2, <1>3

-----------------------------------------------------------------------------
(* While the device runs the page and the journal's variables are typed. *)
LEMMA InitIInv == Init => IInv
<1> SUFFICES ASSUME Init PROVE IInv
  OBVIOUS
<1>1. 0 \in Slots /\ 1 \in 1 .. NumFields + 1
  BY SettingsAssumption DEF Slots
<1>2. TypeOK
  BY <1>1, ErasedLoads, SettingsAssumption DEF Init, TypeOK
<1>3. NoGap
  BY DEF Init, NoGap, ErasedFlash
<1>4. TrailersInv
  BY DEF Init, TrailersInv, ErasedFlash, ErasedRecord
<1>5. LastInv
  BY ErasedLoads DEF Init, LastInv
<1>6. QED
  BY <1>2, <1>3, <1>4, <1>5 DEF IInv, Init, IndexInv, IdleInv, ProgramInv

(* A start that finds a record goes on with it, at its place. *)
LEMMA ReloadFoundIInv == IInv /\ ReloadFound => IInv'
<1> SUFFICES ASSUME IInv, ReloadFound PROVE IInv'
  OBVIOUS
<1> USE DEF IInv
<1>1. PICK i \in Slots : Last(flash, i)
  BY DEF ReloadFound, HasValid, LastInv
<1>2. LastValid = i
  BY <1>1, LoadsLast DEF LastValid, Last
<1>3. /\ IsValid(flash[i])
      /\ flash[i].last.index = i
      /\ flash[i] # ErasedRecord
  BY <1>1 DEF Last, IsValid, TrailersInv, ErasedRecord
<1>4. /\ flash' = flash /\ word' = word /\ mode' = "idle"
      /\ index' = i /\ settings' = flash[i].body
  BY <1>2, <1>3 DEF ReloadFound
<1>5. TypeOK'
  <2>1. flash[i].last.checked \in SettingsType
    BY <1>3 DEF TypeOK, Record, Trailers, IsValid
  <2>2. QED
    BY <1>3, <1>4, <2>1 DEF TypeOK, IsValid
<1>6. IndexInv'
  <2>1. \A j \in Slots : j < i => flash[j] # ErasedRecord
    BY <1>3 DEF NoGap
  <2>2. QED
    BY <1>1, <1>4, <2>1 DEF IndexInv, Last
<1>7. QED
  BY <1>3, <1>4, <1>5, <1>6
     DEF NoGap, TrailersInv, LastInv, Last, IdleInv, ProgramInv

(* Erasing the page to write the defaults, at a start that finds no record *)
(* or on the command "erase".                                              *)
LEMMA WriteDefaultsIInv == IInv /\ WriteDefaults => IInv'
<1> SUFFICES ASSUME IInv, WriteDefaults PROVE IInv'
  OBVIOUS
<1>1. /\ flash' = ErasedFlash /\ settings' = Default /\ index' = 0
      /\ mode' = "program" /\ word' = 1
  BY DEF WriteDefaults, BeginProgram
<1>2. 0 \in Slots /\ 1 \in 1 .. NumFields + 1
  BY SettingsAssumption DEF Slots
<1>3. TypeOK'
  BY <1>1, <1>2, ErasedLoads, SettingsAssumption DEF TypeOK
<1>4. NoGap' /\ TrailersInv'
  BY <1>1 DEF NoGap, TrailersInv, ErasedFlash, ErasedRecord
<1>5. LastInv'
  BY <1>1, ErasedLoads DEF LastInv
<1>6. IndexInv' /\ IdleInv' /\ ProgramInv'
  BY <1>1, <1>2, ErasedLoads DEF IndexInv, IdleInv, ProgramInv, Slots, Fields
<1>7. QED
  BY <1>3, <1>4, <1>5, <1>6 DEF IInv

(* A setter that changes something moves on to a record that is not valid, *)
(* with none erased before it.                                             *)
LEMMA SetIInv ==
  ASSUME IInv, NEW f \in Fields, NEW v \in Values, Set(f, v)
  PROVE  IInv'
<1> DEFINE new == [settings EXCEPT ![f] = v]
<1> USE DEF IInv
<1>1. new \in SettingsType /\ settings' = new /\ mode = "idle"
  BY DEF TypeOK, SettingsType, Set
<1> HIDE DEF new
<1>2. CASE NoNeedSave(new)
  <2>1. UNCHANGED <<flash, mode, index, word>> /\ flash[index].body = new
    BY <1>2 DEF Set, NoNeedSave, new
  <2>2. TypeOK' /\ NoGap' /\ TrailersInv' /\ LastInv' /\ IndexInv'
    BY <1>1, <2>1 DEF TypeOK, NoGap, TrailersInv, LastInv, Last, IndexInv
  <2>3. IdleInv' /\ ProgramInv'
    BY <1>1, <2>1 DEF IdleInv, ProgramInv
  <2>4. QED
    BY <2>2, <2>3
<1>3. CASE ~NoNeedSave(new) /\ index + 1 >= NumRecords
  <2>1. /\ flash' = ErasedFlash /\ index' = 0 /\ mode' = "program" /\ word' = 1
    BY <1>3 DEF Set, NextIndex, MakeRoom, BeginProgram, new
  <2>2. 0 \in Slots /\ 1 \in 1 .. NumFields + 1
    BY SettingsAssumption DEF Slots
  <2>3. TypeOK'
    BY <1>1, <2>1, <2>2, ErasedLoads DEF TypeOK
  <2>4. NoGap' /\ TrailersInv'
    BY <2>1 DEF NoGap, TrailersInv, ErasedFlash, ErasedRecord
  <2>5. LastInv'
    BY <2>1, ErasedLoads DEF LastInv
  <2>6. IndexInv' /\ IdleInv' /\ ProgramInv'
    BY <2>1, <2>2, ErasedLoads DEF IndexInv, IdleInv, ProgramInv, Slots, Fields
  <2>7. QED
    BY <2>3, <2>4, <2>5, <2>6
<1>4. CASE ~NoNeedSave(new) /\ ~(index + 1 >= NumRecords)
  <2>1. /\ flash' = flash /\ index' = index + 1
        /\ mode' = "program" /\ word' = 1
    BY <1>4 DEF Set, NextIndex, MakeRoom, BeginProgram, new
  <2>2. index + 1 \in Slots /\ 1 \in 1 .. NumFields + 1
    BY <1>4, SettingsAssumption DEF TypeOK, Slots
  <2>3. TypeOK' /\ NoGap' /\ TrailersInv' /\ LastInv'
    BY <1>1, <2>1, <2>2 DEF TypeOK, NoGap, TrailersInv, LastInv, Last
  <2>4. ~IsValid(flash[index + 1])
    BY <1>1, <2>2 DEF IndexInv, TypeOK, Slots
  <2>5. IndexInv'
    <3>1. \A j \in Slots : j > index + 1 => j > index
      BY DEF TypeOK, Slots
    <3>2. \A j \in Slots : j < index + 1 => j < index \/ j = index
      BY DEF TypeOK, Slots
    <3>3. QED
      BY <1>1, <2>1, <3>1, <3>2 DEF IndexInv, IdleInv
  <2>6. IdleInv' /\ ProgramInv'
    BY <2>1, <2>4 DEF IdleInv, ProgramInv, Fields
  <2>7. QED
    BY <2>3, <2>5, <2>6
<1>5. QED
  BY <1>2, <1>3, <1>4

-----------------------------------------------------------------------------
(* Programming a double word of the body leaves the record that is being   *)
(* written not valid, whatever it held: over the remains of another save   *)
(* only zeros get through, and a zero the checksum wants is there already. *)
LEMMA ProgramBodyEffect ==
  ASSUME IInv, ProgramBody
  PROVE  /\ flash' \in [Slots -> Record]
         /\ \A j \in Slots : j # index => flash'[j] = flash[j]
         /\ flash'[index].last = flash[index].last
         /\ \A f \in Fields : f # word => flash'[index].body[f] = flash[index].body[f]
         /\ flash'[index].body[word] =
              Programmed(flash[index].body[word], settings[word])
         /\ flash'[index].body[word] # Erased
         /\ word \in Fields
         /\ ~IsValid(flash'[index])
<1> DEFINE w == Programmed(flash[index].body[word], settings[word])
           new == [flash[index] EXCEPT !.body = [@ EXCEPT ![word] = w]]
<1> USE DEF IInv
<1>1. /\ word \in Fields /\ index \in Slots
      /\ flash \in [Slots -> Record] /\ flash[index] \in Record
      /\ flash[index].body \in [Fields -> Values \cup {Erased}]
      /\ settings[word] \in Values
  BY SettingsAssumption DEF TypeOK, ProgramBody, Fields, SettingsType, Record
<1>2. w \in Values \cup {Erased} /\ w # Erased
  BY <1>1, SettingsAssumption DEF Programmed
<1>3. flash' = [flash EXCEPT ![index] = new]
  BY DEF ProgramBody
<1> HIDE DEF w
<1>4. /\ new \in Record /\ new.last = flash[index].last
      /\ new.body \in [Fields -> Values \cup {Erased}]
      /\ new.body[word] = w
      /\ \A f \in Fields : f # word => new.body[f] = flash[index].body[f]
  BY <1>1, <1>2 DEF Record
<1> HIDE DEF new
<1>5. /\ flash' \in [Slots -> Record] /\ flash'[index] = new
      /\ \A j \in Slots : j # index => flash'[j] = flash[j]
  BY <1>1, <1>3, <1>4
<1>6. ASSUME new.last # Erased PROVE new.last.checked # new.body
  <2>1. /\ flash[index].last # Erased /\ flash[index].last \in Trailers
        /\ flash[index].last.checked \in [Fields -> Values]
        /\ flash[index].last.checked # flash[index].body
    BY <1>1, <1>4, <1>6
       DEF ProgramInv, ProgramBody, IsValid, Record, Trailers, SettingsType
  <2>2. PICK f \in Fields : flash[index].last.checked[f] # flash[index].body[f]
    BY <1>1, <2>1
  <2>3. /\ flash[index].body[f] # Erased
        /\ flash[index].last.checked[f] = Zero => flash[index].body[f] = Zero
    BY <1>1, <2>1 DEF TrailersInv
  <2>4. flash[index].last.checked[f] # new.body[f]
    BY <1>4, <2>2, <2>3 DEF w, Programmed
  <2>5. QED
    BY <1>4, <2>4
<1>7. QED
  BY <1>1, <1>2, <1>4, <1>5, <1>6 DEF IsValid, w

(* Programming a double word of the body keeps the invariant. *)
LEMMA ProgramBodyIInv == IInv /\ ProgramBody => IInv'
<1> SUFFICES ASSUME IInv, ProgramBody PROVE IInv'
  OBVIOUS
<1> USE DEF IInv
<1>1. /\ mode = "program" /\ mode' = mode /\ settings' = settings
      /\ index' = index /\ word' = word + 1 /\ word <= NumFields
      /\ index \in Slots /\ word \in 1 .. NumFields
      /\ ~IsValid(flash[index])
  BY SettingsAssumption DEF ProgramBody, TypeOK, ProgramInv
<1>2. TypeOK'
  BY <1>1, ProgramBodyEffect, SettingsAssumption DEF TypeOK
<1>3. flash'[index] # ErasedRecord
  BY ProgramBodyEffect DEF ErasedRecord
<1>4. NoGap'
  <2> SUFFICES ASSUME NEW i \in Slots, NEW j \in Slots, i < j,
                      flash'[i] = ErasedRecord
               PROVE  flash'[j] = ErasedRecord
    BY DEF NoGap
  <2>1. i # index /\ flash[i] = ErasedRecord
    BY <1>3, ProgramBodyEffect
  <2>2. flash[j] = ErasedRecord
    BY <2>1 DEF NoGap
  <2>3. j # index
    BY <1>1, <2>1 DEF IndexInv
  <2>4. QED
    BY <2>2, <2>3, ProgramBodyEffect
<1>5. TrailersInv'
  <2> SUFFICES ASSUME NEW i \in Slots, flash'[i].last # Erased
               PROVE  /\ flash'[i].last.index = i
                      /\ \A f \in Fields :
                           /\ flash'[i].body[f] # Erased
                           /\ flash'[i].last.checked[f] = Zero
                                => flash'[i].body[f] = Zero
    BY DEF TrailersInv
  <2>1. CASE i = index
    BY <2>1, ProgramBodyEffect DEF TrailersInv, Programmed
  <2>2. CASE i # index
    BY <2>2, ProgramBodyEffect DEF TrailersInv
  <2>3. QED
    BY <2>1, <2>2
<1>6. LastInv'
  <2>1. \A i \in Slots : IsValid(flash'[i]) <=> IsValid(flash[i])
    BY <1>1, ProgramBodyEffect
  <2>2. \A i \in Slots : IsValid(flash[i]) => flash'[i] = flash[i]
    BY <1>1, ProgramBodyEffect
  <2>3. QED
    BY <2>1, <2>2 DEF LastInv, Last
<1>7. IndexInv'
  BY <1>1, ProgramBodyEffect DEF IndexInv, Slots
<1>8. ProgramInv'
  <2> SUFFICES ASSUME NEW f \in Fields, f < word + 1
               PROVE  /\ flash'[index].body[f] # Erased
                      /\ settings[f] = Zero => flash'[index].body[f] = Zero
    BY <1>1, ProgramBodyEffect DEF ProgramInv
  <2>1. CASE f = word
    BY <2>1, ProgramBodyEffect DEF Programmed
  <2>2. CASE f # word
    BY <1>1, <2>2, ProgramBodyEffect DEF ProgramInv, Fields
  <2>3. QED
    BY <2>1, <2>2
<1>9. QED
  BY <1>1, <1>2, <1>4, <1>5, <1>6, <1>7, <1>8 DEF IdleInv

-----------------------------------------------------------------------------
(* The last double word of a record: over an erased one the record becomes *)
(* valid exactly when its body holds the settings; otherwise it stays as   *)
(* it was, not valid.                                                      *)
LEMMA ProgramLastEffect ==
  ASSUME IInv, ProgramLast
  PROVE  /\ flash' \in [Slots -> Record] /\ Trailer # Erased
         /\ \A j \in Slots : j # index => flash'[j] = flash[j]
         /\ flash'[index].body = flash[index].body
         /\ flash'[index].last =
              IF flash[index].last = Erased THEN Trailer ELSE flash[index].last
         /\ IsValid(flash'[index]) => flash'[index].body = settings
<1> DEFINE l == IF flash[index].last = Erased THEN Trailer ELSE flash[index].last
           new == [flash[index] EXCEPT !.last = l]
<1> USE DEF IInv
<1>1. /\ index \in Slots /\ flash \in [Slots -> Record]
      /\ flash[index] \in Record /\ settings \in SettingsType
      /\ ~IsValid(flash[index])
  BY DEF TypeOK, ProgramLast, ProgramInv
<1>2. Trailer \in Trailers /\ Trailer.checked = settings
  BY <1>1 DEF Trailer, Trailers
<1>3. Trailer # Erased
  <2>1. Trailer \in [index : Nat, checked : SettingsType]
    BY <1>1, SettingsAssumption DEF Trailer, Slots
  <2>2. QED
    BY <2>1, SettingsAssumption
<1>4. flash' = [flash EXCEPT ![index] = new]
  BY DEF ProgramLast
<1>5. l \in Trailers \cup {Erased}
  BY <1>1, <1>2 DEF Record
<1> HIDE DEF l
<1>6. new \in Record /\ new.last = l /\ new.body = flash[index].body
  BY <1>1, <1>5 DEF Record
<1> HIDE DEF new
<1>7. /\ flash' \in [Slots -> Record] /\ flash'[index] = new
      /\ \A j \in Slots : j # index => flash'[j] = flash[j]
  BY <1>1, <1>4, <1>6
<1>8. IsValid(new) => new.body = settings
  BY <1>1, <1>2, <1>6 DEF IsValid, l
<1>9. QED
  BY <1>3, <1>6, <1>7, <1>8 DEF l

(* The end of a save keeps the invariant. *)
LEMMA ProgramLastIInv == IInv /\ ProgramLast => IInv'
<1> SUFFICES ASSUME IInv, ProgramLast PROVE IInv'
  OBVIOUS
<1> USE DEF IInv
<1>1. /\ mode = "program" /\ mode' = "idle" /\ settings' = settings
      /\ index' = index /\ word' = word /\ word = NumFields + 1
      /\ index \in Slots /\ ~IsValid(flash[index])
  BY DEF ProgramLast, TypeOK, ProgramInv
<1>2. TypeOK'
  BY <1>1, ProgramLastEffect DEF TypeOK
<1>3. flash'[index] # ErasedRecord
  BY ProgramLastEffect DEF ErasedRecord
<1>4. NoGap'
  <2> SUFFICES ASSUME NEW i \in Slots, NEW j \in Slots, i < j,
                      flash'[i] = ErasedRecord
               PROVE  flash'[j] = ErasedRecord
    BY DEF NoGap
  <2>1. i # index /\ flash[i] = ErasedRecord
    BY <1>3, ProgramLastEffect
  <2>2. flash[j] = ErasedRecord
    BY <2>1 DEF NoGap
  <2>3. j # index
    BY <1>1, <2>1 DEF IndexInv
  <2>4. QED
    BY <2>2, <2>3, ProgramLastEffect
<1>5. TrailersInv'
  <2> SUFFICES ASSUME NEW i \in Slots, flash'[i].last # Erased
               PROVE  /\ flash'[i].last.index = i
                      /\ \A f \in Fields :
                           /\ flash'[i].body[f] # Erased
                           /\ flash'[i].last.checked[f] = Zero
                                => flash'[i].body[f] = Zero
    BY DEF TrailersInv
  <2>1. CASE i # index \/ flash[index].last # Erased
    BY <2>1, ProgramLastEffect DEF TrailersInv
  <2>2. CASE i = index /\ flash[index].last = Erased
    <3>1. flash'[i].last.index = i /\ flash'[i].last.checked = settings
      BY <2>2, ProgramLastEffect DEF Trailer
    <3>2. \A f \in Fields : f < word
      BY <1>1, SettingsAssumption DEF Fields
    <3>3. QED
      BY <1>1, <2>2, <3>1, <3>2, ProgramLastEffect DEF ProgramInv
  <2>3. QED
    BY <2>1, <2>2
<1>6. IndexInv'
  BY <1>1, ProgramLastEffect DEF IndexInv, Slots
<1>7. LastInv'
  <2>1. CASE IsValid(flash'[index])
    <3>1. Last(flash', index)
      BY <1>1, <1>6, <2>1 DEF IndexInv, Last
    <3>2. QED
      BY <1>1, <3>1 DEF LastInv
  <2>2. CASE ~IsValid(flash'[index])
    <3>1. \A i \in Slots : IsValid(flash'[i]) <=> IsValid(flash[i])
      BY <1>1, <2>2, ProgramLastEffect
    <3>2. QED
      BY <3>1 DEF LastInv, Last
  <2>3. QED
    BY <2>1, <2>2
<1>8. IdleInv' /\ ProgramInv'
  BY <1>1, <1>3, ProgramLastEffect DEF IdleInv, ProgramInv
<1>9. QED
  BY <1>2, <1>4, <1>5, <1>6, <1>7, <1>8

(* Every step keeps the invariant. *)
LEMMA NextIInv == IInv /\ [Next]_vars => IInv'
<1> SUFFICES ASSUME IInv, [Next]_vars PROVE IInv'
  OBVIOUS
<1>1. CASE ReloadFound
  BY <1>1, ReloadFoundIInv
<1>2. CASE ReloadDefault \/ SettingsReset
  BY <1>2, WriteDefaultsIInv DEF ReloadDefault, SettingsReset
<1>3. CASE \E f \in Fields, v \in Values : Set(f, v)
  BY <1>3, SetIInv
<1>4. CASE ProgramBody
  BY <1>4, ProgramBodyIInv
<1>5. CASE ProgramLast
  BY <1>5, ProgramLastIInv
<1>6. CASE PowerLoss
  <2>1. TypeOK'
    BY <1>6, SettingsAssumption DEF PowerLoss, IInv, TypeOK, Slots
  <2>2. QED
    BY <1>6, <2>1 DEF PowerLoss, IInv, NoGap, TrailersInv, LastInv, Last,
       IndexInv, IdleInv, ProgramInv
<1>7. CASE UNCHANGED vars
  BY <1>7 DEF vars, IInv, TypeOK, NoGap, TrailersInv, LastInv, Last,
     IndexInv, IdleInv, ProgramInv
<1>8. QED
  BY <1>1, <1>2, <1>3, <1>4, <1>5, <1>6, <1>7 DEF Next

-----------------------------------------------------------------------------
(* The inductive invariant: types, the shape of the page, and what a save  *)
(* in progress has established.                                            *)
THEOREM InvariantHolds == Spec => []IInv
BY InitIInv, NextIInv, PTL DEF Spec

(* Type correctness of the journal: the index stays on the page, and what  *)
(* settings_reload takes from a valid record are settings.                 *)
THEOREM TypeCorrect == Spec => []TypeOK
<1>1. IInv => TypeOK
  BY DEF IInv
<1>2. QED
  BY <1>1, InvariantHolds, PTL

(* The page is filled from its start without a gap, whatever was           *)
(* interrupted.                                                            *)
THEOREM NoGapHolds == Spec => []NoGap
<1>1. IInv => NoGap
  BY DEF IInv
<1>2. QED
  BY <1>1, InvariantHolds, PTL

(* Between saves, with no save cut short since the page was erased, a      *)
(* start would load the settings in use.                                   *)
THEOREM CleanSaveHolds == Spec => []CleanSaveDurable
<1>1. IInv => CleanSaveDurable
  <2> SUFFICES ASSUME IInv, mode = "idle", NothingTorn
               PROVE  BootSettings = settings
    BY DEF CleanSaveDurable
  <2>1. index \in Slots /\ IsValid(flash[index]) /\ flash[index].body = settings
    BY DEF IInv, TypeOK, IdleInv, NothingTorn
  <2>2. Last(flash, index)
    BY <2>1 DEF IInv, IndexInv, Last
  <2>3. QED
    BY <2>1, <2>2, LoadsLast, BootLoads
<1>2. QED
  BY <1>1, InvariantHolds, PTL

(* A complete record is removed only with the whole page: no later save,   *)
(* and no save over the remains of another, damages it.                    *)
THEOREM ValidStableHolds == Spec => ValidStable
<1>1. ASSUME IInv, [Next]_vars
      PROVE  [\A i \in Slots : IsValid(flash[i]) =>
                flash'[i] = flash[i] \/ flash' = ErasedFlash]_vars
  <2> SUFFICES ASSUME Next, NEW i \in Slots, IsValid(flash[i])
               PROVE  flash'[i] = flash[i] \/ flash' = ErasedFlash
    BY <1>1
  <2>1. CASE ReloadFound \/ PowerLoss
    BY <2>1 DEF ReloadFound, PowerLoss
  <2>2. CASE ReloadDefault \/ SettingsReset
    BY <2>2 DEF ReloadDefault, SettingsReset, WriteDefaults
  <2>3. CASE \E f \in Fields, v \in Values : Set(f, v)
    BY <2>3 DEF Set, MakeRoom
  <2>4. CASE ProgramBody
    <3>1. ~IsValid(flash[index])
      BY <1>1, <2>4 DEF ProgramBody, IInv, ProgramInv
    <3>2. QED
      BY <1>1, <2>4, <3>1, ProgramBodyEffect
  <2>5. CASE ProgramLast
    <3>1. ~IsValid(flash[index])
      BY <1>1, <2>5 DEF ProgramLast, IInv, ProgramInv
    <3>2. QED
      BY <1>1, <2>5, <3>1, ProgramLastEffect
  <2>6. QED
    BY <2>1, <2>2, <2>3, <2>4, <2>5 DEF Next
<1>2. QED
  BY <1>1, InvariantHolds, PTL DEF Spec, ValidStable

-----------------------------------------------------------------------------
(* What a start would load changes in two ways only: the page is erased,   *)
(* or the last double word of a record completes it.                       *)
LEMMA StoredStep ==
  ASSUME IInv, [Next]_vars
  PROVE  \/ BootSettings' = BootSettings
         \/ BootSettings' = Default /\ flash' = ErasedFlash
         \/ ProgramLast /\ BootSettings' = settings
<1>1. CASE ReloadFound \/ PowerLoss \/ UNCHANGED vars
  BY <1>1, BootLoads DEF ReloadFound, PowerLoss, vars
<1>2. CASE ReloadDefault \/ SettingsReset
  BY <1>2, BootLoads, ErasedLoads DEF ReloadDefault, SettingsReset, WriteDefaults
<1>3. CASE \E f \in Fields, v \in Values : Set(f, v)
  BY <1>3, BootLoads, ErasedLoads DEF Set, MakeRoom
<1>4. CASE ProgramBody
  <2>1. ~IsValid(flash[index])
    BY <1>4 DEF ProgramBody, IInv, ProgramInv
  <2>2. \A i \in Slots : IsValid(flash'[i]) <=> IsValid(flash[i])
    BY <1>4, <2>1, ProgramBodyEffect
  <2>3. \A i \in Slots : IsValid(flash[i]) => flash'[i] = flash[i]
    BY <1>4, <2>1, ProgramBodyEffect
  <2>4. Loads(flash') = Loads(flash)
    BY <2>2, <2>3, SameLoads DEF IInv, LastInv
  <2>5. QED
    BY <2>4, BootLoads
<1>5. CASE ProgramLast
  <2>1. ~IsValid(flash[index]) /\ index \in Slots
    BY <1>5 DEF ProgramLast, IInv, ProgramInv, TypeOK
  <2>2. CASE IsValid(flash'[index])
    <3>1. \A j \in Slots : j > index => ~IsValid(flash'[j])
      BY <1>5, <2>1, ProgramLastEffect
         DEF IInv, IndexInv, ProgramLast, Slots
    <3>2. Last(flash', index) /\ flash'[index].body = settings
      BY <1>5, <2>2, <3>1, ProgramLastEffect DEF Last
    <3>3. QED
      BY <1>5, <2>1, <3>2, LoadsLast, BootLoads
  <2>3. CASE ~IsValid(flash'[index])
    <3>1. \A i \in Slots : IsValid(flash'[i]) <=> IsValid(flash[i])
      BY <1>5, <2>1, <2>3, ProgramLastEffect
    <3>2. \A i \in Slots : IsValid(flash[i]) => flash'[i] = flash[i]
      BY <1>5, <2>1, ProgramLastEffect
    <3>3. Loads(flash') = Loads(flash)
      BY <3>1, <3>2, SameLoads DEF IInv, LastInv
    <3>4. QED
      BY <3>3, BootLoads
  <2>4. QED
    BY <2>2, <2>3
<1>6. QED
  BY <1>1, <1>2, <1>3, <1>4, <1>5 DEF Next

(* Crash atomicity: the journal implements DurableSettings.  The step that *)
(* makes a change durable is the last double word of its record.           *)
THEOREM RefinementHolds == Spec => ImplementsDurable
<1> DEFINE ram == IF mode = "off" THEN Off ELSE settings
<1>1. Init => Durable!Init
  BY BootLoads, ErasedLoads DEF Init, Durable!Init
<1>2. ASSUME IInv, [Next]_vars
      PROVE  [Durable!Next]_<<ram, BootSettings>>
  <2>1. settings \in SettingsType /\ (mode # "off" => ram # Off)
    BY <1>2, OffAssumption DEF IInv, TypeOK
  <2>2. TypeOK'
    BY <1>2, NextIInv DEF IInv
  <2>3. CASE UNCHANGED vars
    BY <2>3, BootLoads DEF vars
  <2>4. CASE ReloadFound
    <3>1. BootSettings = flash[LastValid].body
      BY <2>4 DEF ReloadFound, BootSettings
    <3>2. flash' = flash /\ mode = "off" /\ mode' = "idle"
          /\ settings' = BootSettings
      BY <2>4, <3>1 DEF ReloadFound
    <3>3. QED
      BY <3>2, BootLoads DEF Durable!Next, Durable!Start
  <2>5. CASE ReloadDefault
    <3>1. BootSettings = Default /\ BootSettings' = Default
      BY <2>5, BootLoads, ErasedLoads
         DEF ReloadDefault, WriteDefaults, BootSettings
    <3>2. mode = "off" /\ mode' = "program" /\ settings' = Default
      BY <2>5 DEF ReloadDefault, WriteDefaults, BeginProgram
    <3>3. QED
      BY <3>1, <3>2 DEF Durable!Next, Durable!Start
  <2>6. CASE SettingsReset \/ \E f \in Fields, v \in Values : Set(f, v)
    <3>1. mode = "idle" /\ mode' # "off"
      BY <2>6 DEF SettingsReset, WriteDefaults, BeginProgram, Set
    <3>2. settings' \in SettingsType
      BY <2>2 DEF TypeOK
    <3>3. BootSettings' \in {BootSettings, Default}
      BY <1>2, <3>1, StoredStep DEF ProgramLast
    <3>4. QED
      BY <2>1, <3>1, <3>2, <3>3 DEF Durable!Next, Durable!Change
  <2>7. CASE ProgramBody
    <3>1. /\ mode = "program" /\ mode' = mode /\ settings' = settings
      BY <2>7 DEF ProgramBody
    <3>2. flash' # ErasedFlash
      BY <1>2, <2>7, ProgramBodyEffect DEF IInv, TypeOK, ErasedFlash, ErasedRecord
    <3>3. ~ProgramLast
      BY <2>7, SettingsAssumption DEF ProgramBody, ProgramLast
    <3>4. BootSettings' = BootSettings
      BY <1>2, <3>2, <3>3, StoredStep
    <3>5. QED
      BY <3>1, <3>4
  <2>8. CASE ProgramLast
    <3>1. /\ mode = "program" /\ mode' = "idle" /\ settings' = settings
      BY <2>8 DEF ProgramLast
    <3>2. flash' # ErasedFlash
      BY <1>2, <2>8, ProgramLastEffect DEF IInv, TypeOK, ErasedFlash, ErasedRecord
    <3>3. BootSettings' \in {BootSettings, settings}
      BY <1>2, <3>2, StoredStep
    <3>4. QED
      BY <2>1, <3>1, <3>3 DEF Durable!Next, Durable!Commit
  <2>9. CASE PowerLoss
    <3>1. mode # "off" /\ mode' = "off" /\ flash' = flash
      BY <2>9 DEF PowerLoss
    <3>2. QED
      BY <2>1, <3>1, BootLoads DEF Durable!Next, Durable!PowerOff
  <2>10. QED
    BY <1>2, <2>3, <2>4, <2>5, <2>6, <2>7, <2>8, <2>9 DEF Next
<1>3. QED
  BY <1>1, <1>2, InvariantHolds, PTL DEF Spec, ImplementsDurable, Durable!Spec
=============================================================================
