------------------------------ MODULE GnssTrace ------------------------------
(***************************************************************************)
(* The GNSS trace of the tracker: a ring of flash pages holding fixed-size *)
(* records (Core/gnss_trace/gnss_trace.c), as the main program uses it     *)
(* (_gtrace_load and _gnss_trace_save of Core/Src/application.c, and the   *)
(* console command "gtrace erase").                                        *)
(*                                                                         *)
(* A record is the number of the fix it was made from.  Every flash        *)
(* operation is a step of its own, so that the supply may fail between any *)
(* two of them; a failure in the middle of programming a record leaves a   *)
(* Torn one, whose checksum does not match.                                *)
(***************************************************************************)
EXTENDS Naturals, FiniteSets

CONSTANTS
  RecPerPage,   \* records in a flash page (85 in the firmware)
  PageCount,    \* pages of the trace (FLASH_GNSS_TRACE_PAGE_COUNT, 2)
  MaxRecords,   \* bound: fixes saved in a behaviour
  MaxErases,    \* bound: "gtrace erase" commands in a behaviour
  Empty,        \* an erased slot, all 0xFF
  Torn          \* a slot whose checksum does not match

ASSUME GnssTraceAssumption ==
  /\ RecPerPage \in Nat \ {0}
  /\ PageCount \in Nat \ {0, 1}
  /\ MaxRecords \in Nat
  /\ MaxErases \in Nat
  /\ Empty \notin Nat
  /\ Torn \notin Nat
  /\ Empty # Torn

VARIABLES
  flash,            \* the trace pages: the only state a reset keeps
  mode,             \* where the program is in the trace's functions
  current_page,     \* gtrace_t.current_page
  current_index,    \* gtrace_t.current_index
  written_records,  \* gtrace_t.written_records
  page,             \* the loop counter of gtrace_init and gtrace_erase_all
  found,            \* is_full_filled_page_found of gtrace_init
  fallback,         \* the record gnss_data was filled from, 0 when none
  next_record,      \* history: the number of the next fix to be saved
  erases            \* history: erase commands so far

ramVars == <<current_page, current_index, written_records>>
vars == <<flash, mode, ramVars, page, found, fallback, next_record, erases>>

-----------------------------------------------------------------------------
Pages == 0 .. PageCount - 1
Slots == 0 .. RecPerPage - 1
Records == 1 .. MaxRecords
Modes == {"reset", "init", "load", "ready", "switched", "erasing"}

ErasedPage == [s \in Slots |-> Empty]

(* Records whose checksum matches, on a page and in the whole trace. *)
Valid(p) == {s \in Slots : flash[p][s] \in Records}
Stored == {r \in Records : \E p \in Pages, s \in Slots : flash[p][s] = r}

(* _get_next_page.  Mistake the checks must reject: the step is forgotten. *)
NextPage_NoStep(p) == p
NextPage(p) == (p + 1) % PageCount

(* bsp_flash_gnss_trace_erase.  Mistake: the erase is not carried out. *)
FlashErase_Skipped(p) == UNCHANGED flash
FlashErase(p) == flash' = [flash EXCEPT ![p] = ErasedPage]

-----------------------------------------------------------------------------
TypeOK ==
  /\ flash \in [Pages -> [Slots -> Records \cup {Empty, Torn}]]
  /\ mode \in Modes
  /\ current_page \in Pages
  /\ current_index \in 0 .. RecPerPage
  /\ written_records \in Nat
  /\ page \in 0 .. PageCount
  /\ found \in BOOLEAN
  /\ fallback \in Records \cup {0, Empty}
  /\ next_record \in 1 .. MaxRecords + 1
  /\ erases \in 0 .. MaxErases

Init ==
  /\ flash = [p \in Pages |-> ErasedPage]
  /\ mode = "reset"
  /\ current_page = 0
  /\ current_index = 0
  /\ written_records = 0
  /\ page = 0
  /\ found = FALSE
  /\ fallback = 0
  /\ next_record = 1
  /\ erases = 0

-----------------------------------------------------------------------------
(***************************************************************************)
(* gtrace_init, entered after a reset and again each time the main loop    *)
(* comes back to SYSTEM_STATE_INIT.                                        *)
(***************************************************************************)
InitBegin ==
  /\ mode \in {"reset", "ready"}
  /\ mode' = "init"
  /\ written_records' = 0
  /\ current_page' = PageCount - 1
  /\ current_index' = RecPerPage
  /\ page' = 0
  /\ found' = FALSE
  /\ UNCHANGED <<flash, fallback, next_record, erases>>

(* _check_page: a page with an invalid record is erased and counts for none. *)
(* Mistakes: the checksum is not looked at; one record too many is counted.  *)
HasInvalid_Never(p) == FALSE
HasInvalid(p) == \E s \in Slots : flash[p][s] = Torn
RecCount_OffByOne(p) ==
  Cardinality({s \in Slots : flash[p][s] # Empty}) + 1
RecCount(p) ==
  IF HasInvalid(p) THEN 0
                   ELSE Cardinality({s \in Slots : flash[p][s] # Empty})

(* One round of the loop of gtrace_init; the first page with room becomes *)
(* the current one.                                                       *)
InitCheckPage ==
  /\ mode = "init"
  /\ IF HasInvalid(page) THEN FlashErase(page) ELSE UNCHANGED flash
  /\ written_records' = written_records + RecCount(page)
  /\ IF ~found /\ RecCount(page) < RecPerPage
     THEN /\ found' = TRUE
          /\ current_page' = page
          /\ current_index' = RecCount(page)
     ELSE UNCHANGED <<found, current_page, current_index>>
  /\ page' = page + 1
  /\ mode' = IF page + 1 = PageCount THEN "load" ELSE "init"
  /\ UNCHANGED <<fallback, next_record, erases>>

-----------------------------------------------------------------------------
(* What gtrace_get_record reads for an index, and whether it answers OK.     *)
(* Mistakes: the other page is never read, or not while it alone is filled. *)
SlotRead_CurrentPage(index) == flash[current_page][index % RecPerPage]
SlotRead_Strict(index) ==
  LET from == IF written_records > RecPerPage /\ index < RecPerPage
              THEN NextPage(current_page)
              ELSE current_page
  IN  flash[from][index % RecPerPage]
SlotRead(index) ==
  LET from == IF written_records >= RecPerPage /\ index < RecPerPage
              THEN NextPage(current_page)
              ELSE current_page
  IN  flash[from][index % RecPerPage]

GetOK(index) ==
  /\ index <= written_records
  /\ SlotRead(index) \in Records

(* The end of _gtrace_load: the coordinates to send when no fix is caught. *)
(* The result of gtrace_get_record is not looked at.                       *)
LoadLatest ==
  /\ mode = "load"
  /\ mode' = "ready"
  /\ fallback' = IF written_records > 0 THEN SlotRead(written_records - 1)
                                        ELSE fallback
  /\ UNCHANGED <<flash, ramVars, page, found, next_record, erases>>

-----------------------------------------------------------------------------
(***************************************************************************)
(* gtrace_add: _switch_page when the current page is full, then the write. *)
(* Programming a slot that is not erased fails, and nothing reports it.    *)
(* Mistake: the count keeps the records of the page that is dropped.       *)
(***************************************************************************)
Remaining_Unadjusted(written) == written
Remaining(written) ==
  IF written > RecPerPage THEN written - RecPerPage ELSE written

AddSwitchPage ==
  /\ mode = "ready"
  /\ next_record <= MaxRecords
  /\ current_index >= RecPerPage
  /\ mode' = "switched"
  /\ current_page' = NextPage(current_page)
  /\ FlashErase(NextPage(current_page))
  /\ current_index' = 0
  /\ written_records' = Remaining(written_records)
  /\ UNCHANGED <<page, found, fallback, next_record, erases>>

CanWrite ==
  /\ \/ mode = "switched"
     \/ mode = "ready" /\ current_index < RecPerPage
  /\ next_record <= MaxRecords

Program(content) ==
  flash' = IF flash[current_page][current_index] = Empty
           THEN [flash EXCEPT ![current_page][current_index] = content]
           ELSE flash

AddWrite ==
  /\ CanWrite
  /\ Program(next_record)
  /\ mode' = "ready"
  /\ current_index' = current_index + 1
  /\ written_records' = written_records + 1
  /\ next_record' = next_record + 1
  /\ UNCHANGED <<current_page, page, found, fallback, erases>>

-----------------------------------------------------------------------------
(* gtrace_erase_all, one page a step; the context is reset at the end. *)
EraseBegin ==
  /\ mode = "ready"
  /\ erases < MaxErases
  /\ mode' = "erasing"
  /\ page' = 0
  /\ erases' = erases + 1
  /\ UNCHANGED <<flash, ramVars, found, fallback, next_record>>

ErasePage ==
  /\ mode = "erasing"
  /\ FlashErase(page)
  /\ page' = page + 1
  /\ IF page + 1 = PageCount
     THEN /\ mode' = "ready"
          /\ current_index' = 0
          /\ current_page' = 0
          /\ written_records' = 0
     ELSE UNCHANGED <<mode, ramVars>>
  /\ UNCHANGED <<found, fallback, next_record, erases>>

-----------------------------------------------------------------------------
(* A reset, a shutdown or a failing supply: RAM is initialised again by the *)
(* start-up code, and flash keeps what the last step left in it.            *)
Forget ==
  /\ mode' = "reset"
  /\ current_page' = 0
  /\ current_index' = 0
  /\ written_records' = 0
  /\ page' = 0
  /\ found' = FALSE
  /\ fallback' = 0
  /\ UNCHANGED <<next_record, erases>>

Reset ==
  /\ mode # "reset"
  /\ Forget
  /\ UNCHANGED flash

(* The supply fails after one or two of the three double words of a record. *)
ResetInWrite ==
  /\ CanWrite
  /\ Program(Torn)
  /\ Forget

-----------------------------------------------------------------------------
Next ==
  \/ InitBegin
  \/ InitCheckPage
  \/ LoadLatest
  \/ AddSwitchPage
  \/ AddWrite
  \/ EraseBegin
  \/ ErasePage
  \/ Reset
  \/ ResetInWrite

Spec == Init /\ [][Next]_vars

-----------------------------------------------------------------------------
(***************************************************************************)
(* Properties                                                              *)
(***************************************************************************)

(* gtrace_add never aims at a slot that is already programmed: the flash    *)
(* would refuse it and the fix would be lost without a word.  It relates    *)
(* the cursor rebuilt by gtrace_init, after any power loss, to the flash.   *)
CursorErased ==
  CanWrite => flash[current_page][current_index] = Empty

(* On each page the programmed slots are a prefix of the page and its       *)
(* records are in the order in which they were saved: what gtrace_init      *)
(* assumes when it takes the number of programmed slots for the position.   *)
PagesOrdered ==
  \A p \in Pages : \A s, t \in Slots :
    s < t =>
      /\ flash[p][t] # Empty => flash[p][s] # Empty
      /\ s \in Valid(p) /\ t \in Valid(p) => flash[p][s] < flash[p][t]

FullPage(p) == \A s \in Slots : flash[p][s] \in Records
HasFullPage == \E p \in Pages : FullPage(p)

(* Once a page's worth of records is stored, no sequence of saves, resets   *)
(* and torn writes leaves less than one full page of records: only the      *)
(* erase command does.                                                      *)
FullPageStable ==
  [][HasFullPage => HasFullPage' \/ mode = "erasing"]_vars

(* gtrace_get_record_count tells how many valid records flash holds, in     *)
(* spite of page switches, resets and torn pages (an erase command that is  *)
(* interrupted half-way breaks it).                                         *)
CountMatches ==
  mode = "ready" /\ erases = 0 => written_records = Cardinality(Stored)

(* gtrace_init and gtrace_get_record infer the order of the pages from the  *)
(* position to write at.  They are right until the page after the last      *)
(* one, page 0, is full for the second time.                                *)
FirstLap == next_record <= (PageCount + 1) * RecPerPage /\ erases = 0

LoadsNewest ==
  mode = "load" /\ mode' = "ready" /\ Stored # {} =>
    fallback' \in Stored /\ \A r \in Stored : r <= fallback'

(* The coordinates _gtrace_load hands to the transmission are those of the  *)
(* most recent fix the trace holds ("Get latest coords from storage",       *)
(* application.c:781).                                                      *)
FallbackIsNewest == [][LoadsNewest]_vars

(* In the first lap they are, whatever was torn or reset.                   *)
FirstLapFallback == [][FirstLap => LoadsNewest]_vars

(* In the first lap a page switch makes room by dropping the oldest         *)
(* records: every record it loses is older than every record that stays     *)
(* ("One page should be dropped", gnss_trace_test.cpp:57, and the test then *)
(* expects the newer half).                                                 *)
FirstLapEvictsOldest ==
  [][FirstLap /\ mode = "ready" /\ mode' = "switched" =>
       \A lost \in Stored \ Stored', kept \in Stored' : lost < kept]_vars

(* In the first lap "gtrace print" lists the records oldest first, each of  *)
(* them once (_cmd_gtrace_print), unless the page in use has just been      *)
(* filled.                                                                  *)
FirstLapPrintInOrder ==
  FirstLap /\ mode = "ready" /\ current_index < RecPerPage =>
    /\ \A i \in 0 .. written_records - 1 : GetOK(i)
    /\ \A i, j \in 0 .. written_records - 1 : i < j => SlotRead(i) < SlotRead(j)
    /\ Stored = {SlotRead(i) : i \in 0 .. written_records - 1}
=============================================================================
