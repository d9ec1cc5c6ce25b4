--------------------------- MODULE GnssTraceProofs ---------------------------
(***************************************************************************)
(* What holds of the GNSS trace for every page size and every number of    *)
(* pages, records and erase commands, proved with TLAPS.                   *)
(*                                                                         *)
(* The argument: a page is always a prefix of programmed slots, so the     *)
(* number of programmed slots _check_page counts is the position of the    *)
(* first erased one; and while the program runs no page holds a torn       *)
(* record, so that a page the cursor has passed is full of valid records.  *)
(***************************************************************************)
EXTENDS GnssTrace, FiniteSetTheorems, TLAPS

(* The first k slots of page p are programmed and the others are erased. *)
Prefix(p, k) == \A s \in Slots : flash[p][s] # Empty <=> s < k

(* The shape of the flash, which no reset disturbs. *)
FlashInv ==
  \A p \in Pages :
    /\ \E k \in 0 .. RecPerPage : Prefix(p, k)
    /\ \A s \in Slots : flash[p][s] \in Records => flash[p][s] < next_record
    /\ \A s, t \in Slots :
         s < t /\ flash[p][s] \in Records /\ flash[p][t] \in Records
           => flash[p][s] < flash[p][t]

(* What the loop of gtrace_init has established so far. *)
ScanInv ==
  mode = "init" =>
    /\ page < PageCount
    /\ \A p \in Pages : p < page => ~HasInvalid(p)
    /\ found => /\ current_page < page
                /\ current_index < RecPerPage
                /\ Prefix(current_page, current_index)
    /\ ~found => /\ current_page = PageCount - 1
                 /\ current_index = RecPerPage
                 /\ \A p \in Pages : p < page => FullPage(p)

(* While the program runs the cursor is at the end of the current page. *)
CursorInv ==
  /\ mode \in {"load", "ready", "switched", "erasing"} =>
       \A p \in Pages : ~HasInvalid(p)
  /\ mode \in {"load", "ready"} => Prefix(current_page, current_index)
  /\ mode = "switched" => current_index = 0 /\ Prefix(current_page, 0)
  /\ mode = "erasing" =>
       /\ page < PageCount
       /\ \A p \in Pages : p < page => Prefix(p, 0)

IInv == TypeOK /\ FlashInv /\ ScanInv /\ CursorInv

-----------------------------------------------------------------------------
(* On a page whose programmed slots are its first k, _check_page counts k, *)
(* or none when it has to erase the page.                                  *)
LEMMA RecCountOfPrefix ==
  ASSUME NEW p \in Pages, NEW k \in 0 .. RecPerPage, Prefix(p, k)
  PROVE  RecCount(p) = IF HasInvalid(p) THEN 0 ELSE k
<1>1. {s \in Slots : flash[p][s] # Empty} = 0 .. k - 1
  BY GnssTraceAssumption DEF Prefix, Slots
<1>2. Cardinality(0 .. k - 1) = k
  BY FS_Interval, GnssTraceAssumption
<1>3. QED
  BY <1>1, <1>2 DEF RecCount

(* A prefix as long as the page, without a torn record, is a full page. *)
LEMMA FullPrefix ==
  ASSUME TypeOK, NEW p \in Pages, Prefix(p, RecPerPage), ~HasInvalid(p)
  PROVE  FullPage(p)
BY GnssTraceAssumption DEF TypeOK, Prefix, HasInvalid, FullPage, Slots

(* The next page is another page. *)
LEMMA NextPageOther ==
  ASSUME NEW p \in Pages
  PROVE  NextPage(p) \in Pages /\ NextPage(p) # p
<1>1. CASE p = PageCount - 1
  BY <1>1, GnssTraceAssumption DEF NextPage, Pages
<1>2. CASE p < PageCount - 1
  BY <1>2, GnssTraceAssumption DEF NextPage, Pages
<1>3. QED
  BY <1>1, <1>2, GnssTraceAssumption DEF Pages

-----------------------------------------------------------------------------
(* The erased flash of a new tracker satisfies the invariant. *)
LEMMA InitIInv == Init => IInv
<1> SUFFICES ASSUME Init PROVE IInv
  OBVIOUS
<1>1. TypeOK
  <2>1. flash \in [Pages -> [Slots -> Records \cup {Empty, Torn}]]
    BY DEF Init, ErasedPage
  <2>2. mode \in Modes /\ found \in BOOLEAN /\ fallback \in Records \cup {0, Empty}
    BY DEF Init, Modes
  <2>3. /\ current_page \in Pages
        /\ current_index \in 0 .. RecPerPage
        /\ written_records \in Nat
        /\ page \in 0 .. PageCount
        /\ next_record \in 1 .. MaxRecords + 1
        /\ erases \in 0 .. MaxErases
    BY GnssTraceAssumption DEF Init, Pages
  <2>4. QED
    BY <2>1, <2>2, <2>3 DEF TypeOK
<1>2. FlashInv
  <2>1. \A p \in Pages : \A s \in Slots : flash[p][s] = Empty
    BY DEF Init, ErasedPage
  <2>2. ASSUME NEW p \in Pages
        PROVE  Prefix(p, 0) /\ \A s \in Slots : flash[p][s] \notin Records
    BY <2>1, GnssTraceAssumption DEF Prefix, Slots, Records
  <2>3. QED
    BY <2>2, GnssTraceAssumption DEF FlashInv
<1>3. ScanInv /\ CursorInv
  BY DEF ScanInv, CursorInv, Init
<1>4. QED
  BY <1>1, <1>2, <1>3 DEF IInv

(***************************************************************************)
(* What a step does to the flash: nothing, or it erases a page, or it       *)
(* programs the first erased slot of a page.                                *)
(***************************************************************************)
LEMMA ErasePreservesFlash ==
  ASSUME TypeOK, FlashInv, NEW q \in Pages, FlashErase(q),
         next_record' = next_record
  PROVE  /\ flash' \in [Pages -> [Slots -> Records \cup {Empty, Torn}]]
         /\ FlashInv'
         /\ Prefix(q, 0)'
         /\ ~HasInvalid(q)'
         /\ \A p \in Pages : p # q => flash'[p] = flash[p]
<1>1. flash' \in [Pages -> [Slots -> Records \cup {Empty, Torn}]]
  BY DEF TypeOK, FlashErase, ErasedPage
<1>2. \A p \in Pages : p # q => flash'[p] = flash[p]
  BY DEF TypeOK, FlashErase
<1>3. \A s \in Slots : flash'[q][s] = Empty
  BY DEF TypeOK, FlashErase, ErasedPage
<1>4. Prefix(q, 0)' /\ ~HasInvalid(q)'
  BY <1>3, GnssTraceAssumption DEF Prefix, HasInvalid, Slots
<1>5. FlashInv'
  <2> SUFFICES ASSUME NEW p \in Pages
               PROVE  /\ \E k \in 0 .. RecPerPage : Prefix(p, k)'
                      /\ \A s \in Slots : flash'[p][s] \in Records
                           => flash'[p][s] < next_record'
                      /\ \A s, t \in Slots :
                           /\ s < t
                           /\ flash'[p][s] \in Records
                           /\ flash'[p][t] \in Records
                           => flash'[p][s] < flash'[p][t]
    BY DEF FlashInv
  <2>1. CASE p = q
    BY <2>1, <1>3, <1>4, GnssTraceAssumption DEF Records
  <2>2. CASE p # q
    BY <2>2, <1>2 DEF FlashInv, Prefix
  <2>3. QED
    BY <2>1, <2>2
<1>6. QED
  BY <1>1, <1>2, <1>4, <1>5

(* Where gtrace_add programs, the cursor is at the end of the page's prefix. *)
LEMMA WriteAtEnd ==
  ASSUME IInv, CanWrite
  PROVE  /\ Prefix(current_page, current_index)
         /\ current_index \in Slots
         /\ current_page \in Pages
         /\ next_record \in Records
BY GnssTraceAssumption
   DEF IInv, TypeOK, CursorInv, CanWrite, Slots, Records

(* gtrace_add programs the slot at the cursor and no other one. *)
LEMMA ProgramPreservesFlash ==
  ASSUME IInv, CanWrite,
         NEW c \in Records \cup {Torn}, Program(c),
         next_record' \in Nat,
         c \in Records => c = next_record /\ next_record' = next_record + 1,
         c = Torn => next_record' = next_record
  PROVE  /\ flash' \in [Pages -> [Slots -> Records \cup {Empty, Torn}]]
         /\ FlashInv'
         /\ \A s \in Slots :
              flash'[current_page][s] # Empty <=> s < current_index + 1
         /\ flash'[current_page][current_index] = c
         /\ \A p \in Pages, s \in Slots :
              p # current_page \/ s # current_index
                => flash'[p][s] = flash[p][s]
<1>1. /\ Prefix(current_page, current_index)
      /\ current_index \in Slots
      /\ current_page \in Pages
      /\ next_record \in Records
  BY WriteAtEnd
<1>2. flash[current_page][current_index] = Empty
  BY <1>1, GnssTraceAssumption DEF Prefix, Slots
<1>3. flash' = [flash EXCEPT ![current_page][current_index] = c]
  BY <1>2 DEF Program
<1>4. flash \in [Pages -> [Slots -> Records \cup {Empty, Torn}]]
  BY DEF IInv, TypeOK
<1>5. flash' \in [Pages -> [Slots -> Records \cup {Empty, Torn}]]
  BY <1>1, <1>3, <1>4
<1>6. flash'[current_page][current_index] = c
  BY <1>1, <1>3, <1>4
<1>7. \A p \in Pages, s \in Slots :
        p # current_page \/ s # current_index => flash'[p][s] = flash[p][s]
  BY <1>1, <1>3, <1>4
<1>8. c # Empty
  BY GnssTraceAssumption DEF Records
<1>9. \A s \in Slots : flash'[current_page][s] # Empty <=> s < current_index + 1
  <2> SUFFICES ASSUME NEW s \in Slots
               PROVE  flash'[current_page][s] # Empty <=> s < current_index + 1
    OBVIOUS
  <2>1. CASE s = current_index
    BY <2>1, <1>1, <1>6, <1>8, GnssTraceAssumption DEF Slots
  <2>2. CASE s # current_index
    BY <2>2, <1>1, <1>7, GnssTraceAssumption DEF Slots, Prefix
  <2>3. QED
    BY <2>1, <2>2
<1>10. FlashInv'
  <2> SUFFICES ASSUME NEW p \in Pages
               PROVE  /\ \E k \in 0 .. RecPerPage :
                           \A s \in Slots : flash'[p][s] # Empty <=> s < k
                      /\ \A s \in Slots : flash'[p][s] \in Records
                           => flash'[p][s] < next_record'
                      /\ \A s, t \in Slots :
                           /\ s < t
                           /\ flash'[p][s] \in Records
                           /\ flash'[p][t] \in Records
                           => flash'[p][s] < flash'[p][t]
    BY DEF FlashInv, Prefix
  <2>0. /\ \E k \in 0 .. RecPerPage :
             \A s \in Slots : flash[p][s] # Empty <=> s < k
        /\ \A s \in Slots : flash[p][s] \in Records
             => flash[p][s] < next_record
        /\ \A s, t \in Slots :
             /\ s < t
             /\ flash[p][s] \in Records
             /\ flash[p][t] \in Records
             => flash[p][s] < flash[p][t]
    BY DEF IInv, FlashInv, Prefix
  <2>1. CASE p # current_page
    <3>1. \A s \in Slots : flash'[p][s] = flash[p][s]
      BY <2>1, <1>7
    <3>2. next_record <= next_record'
      BY <1>1, GnssTraceAssumption DEF Records
    <3>3. QED
      BY <2>0, <3>1, <3>2, <1>1, GnssTraceAssumption DEF Records
  <2>2. CASE p = current_page
    <3>1. current_index + 1 \in 0 .. RecPerPage
      BY <1>1, GnssTraceAssumption DEF Slots
    <3>2. \A s \in Slots : flash'[p][s] \in Records =>
            flash'[p][s] < next_record'
      <4> SUFFICES ASSUME NEW s \in Slots, flash'[p][s] \in Records
                   PROVE  flash'[p][s] < next_record'
        OBVIOUS
      <4>1. CASE s = current_index
        BY <4>1, <2>2, <1>6, <1>1, GnssTraceAssumption DEF Records
      <4>2. CASE s # current_index
        BY <4>2, <2>2, <1>7, <2>0, <1>1, GnssTraceAssumption DEF Records
      <4>3. QED
        BY <4>1, <4>2
    <3>3. ASSUME NEW s \in Slots, NEW t \in Slots, s < t,
                 flash'[p][s] \in Records, flash'[p][t] \in Records
          PROVE  flash'[p][s] < flash'[p][t]
      <4>1. t < current_index + 1
        BY <3>3, <2>2, <1>9, GnssTraceAssumption DEF Records
      <4>2. s # current_index /\ flash'[p][s] = flash[p][s]
        BY <3>3, <4>1, <2>2, <1>7, <1>1, GnssTraceAssumption DEF Slots
      <4>3. CASE t = current_index
        <5>1. flash'[p][t] = c /\ c = next_record
          BY <4>3, <2>2, <1>6, <3>3
        <5>2. QED
          BY <5>1, <4>2, <2>0, <3>3
      <4>4. CASE t # current_index
        BY <4>4, <4>2, <2>2, <1>7, <2>0, <3>3
      <4>5. QED
        BY <4>3, <4>4
    <3>4. QED
      BY <2>2, <3>1, <3>2, <3>3, <1>9
  <2>3. QED
    BY <2>1, <2>2
<1>11. QED
  BY <1>5, <1>6, <1>7, <1>9, <1>10

-----------------------------------------------------------------------------
(* One lemma per action: each preserves the inductive invariant. *)
LEMMA InitBeginIInv == IInv /\ InitBegin => IInv'
<1> SUFFICES ASSUME IInv, InitBegin PROVE IInv'
  OBVIOUS
<1>1. TypeOK'
  <2>1. /\ current_page' \in Pages
        /\ current_index' \in 0 .. RecPerPage
        /\ page' \in 0 .. PageCount
        /\ written_records' \in Nat
    BY GnssTraceAssumption DEF InitBegin, Pages
  <2>2. mode' \in Modes /\ found' \in BOOLEAN
    BY DEF InitBegin, Modes
  <2>3. UNCHANGED <<flash, fallback, next_record, erases>>
    BY DEF InitBegin
  <2>4. QED
    BY <2>1, <2>2, <2>3 DEF IInv, TypeOK
<1>2. FlashInv'
  BY DEF IInv, FlashInv, Prefix, InitBegin
<1>3. ScanInv' /\ CursorInv'
  BY GnssTraceAssumption DEF InitBegin, ScanInv, CursorInv, Pages
<1>4. QED
  BY <1>1, <1>2, <1>3 DEF IInv

(* The scan of one page erases it or leaves it, and the page has from then *)
(* on as many programmed slots as were counted.                            *)
LEMMA CheckPageCount ==
  ASSUME IInv, InitCheckPage
  PROVE  /\ page \in Pages
         /\ flash' \in [Pages -> [Slots -> Records \cup {Empty, Torn}]]
         /\ FlashInv'
         /\ RecCount(page) \in 0 .. RecPerPage
         /\ \A s \in Slots : flash'[page][s] # Empty <=> s < RecCount(page)
         /\ \A s \in Slots : flash'[page][s] # Torn
         /\ \A p \in Pages : p # page => flash'[p] = flash[p]
<1>1. page \in Pages
  BY GnssTraceAssumption DEF IInv, TypeOK, ScanInv, InitCheckPage, Pages
<1>2. next_record' = next_record
  BY DEF InitCheckPage
<1>3. CASE HasInvalid(page)
  <2>1. FlashErase(page)
    BY <1>3 DEF InitCheckPage
  <2>2. RecCount(page) = 0
    BY <1>3 DEF RecCount
  <2>3. QED
    BY <1>1, <1>2, <2>1, <2>2, ErasePreservesFlash, GnssTraceAssumption
       DEF IInv, Prefix, HasInvalid
<1>4. CASE ~HasInvalid(page)
  <2>1. flash' = flash
    BY <1>4 DEF InitCheckPage
  <2>2. PICK k \in 0 .. RecPerPage : Prefix(page, k)
    BY <1>1 DEF IInv, FlashInv
  <2>3. RecCount(page) = k
    BY <1>1, <1>4, <2>2, RecCountOfPrefix
  <2>4. FlashInv'
    BY <2>1, <1>2 DEF IInv, FlashInv, Prefix
  <2>5. QED
    BY <1>1, <1>4, <2>1, <2>2, <2>3, <2>4 DEF IInv, TypeOK, Prefix, HasInvalid
<1>5. QED
  BY <1>3, <1>4

(* One round of the loop of gtrace_init. *)
LEMMA InitCheckPageIInv == IInv /\ InitCheckPage => IInv'
<1> SUFFICES ASSUME IInv, InitCheckPage PROVE IInv'
  OBVIOUS
<1> DEFINE n == RecCount(page)
<1>0. /\ page \in Pages
      /\ flash' \in [Pages -> [Slots -> Records \cup {Empty, Torn}]]
      /\ FlashInv'
      /\ n \in 0 .. RecPerPage
      /\ \A s \in Slots : flash'[page][s] # Empty <=> s < n
      /\ \A s \in Slots : flash'[page][s] # Torn
      /\ \A p \in Pages : p # page => flash'[p] = flash[p]
  BY CheckPageCount
<1>00. /\ mode = "init" /\ mode' \in {"init", "load"}
       /\ page' = page + 1
       /\ mode' = "load" <=> page + 1 = PageCount
       /\ ~found /\ n < RecPerPage =>
            found' = TRUE /\ current_page' = page /\ current_index' = n
       /\ found \/ ~(n < RecPerPage) =>
            UNCHANGED <<found, current_page, current_index>>
       /\ written_records' = written_records + n
       /\ UNCHANGED <<fallback, next_record, erases>>
  BY DEF InitCheckPage
<1> HIDE DEF n
<1>1. TypeOK'
  <2>1. /\ current_page' \in Pages
        /\ current_index' \in 0 .. RecPerPage
        /\ page' \in 0 .. PageCount
        /\ written_records' \in Nat
    BY <1>0, <1>00, GnssTraceAssumption DEF IInv, TypeOK, Pages
  <2>2. mode' \in Modes /\ found' \in BOOLEAN
    BY <1>0, <1>00 DEF IInv, TypeOK, Modes
  <2>3. QED
    BY <1>0, <1>00, <2>1, <2>2 DEF IInv, TypeOK
<1>2. \A p \in Pages : p < page' => ~HasInvalid(p)'
  <2> SUFFICES ASSUME NEW p \in Pages, p < page + 1
               PROVE  \A s \in Slots : flash'[p][s] # Torn
    BY <1>00 DEF HasInvalid
  <2>1. CASE p = page
    BY <2>1, <1>0
  <2>2. CASE p # page
    BY <2>2, <1>0, <1>00, GnssTraceAssumption
       DEF IInv, ScanInv, HasInvalid, Pages
  <2>3. QED
    BY <2>1, <2>2
<1>3. found' => /\ current_page' < page'
                /\ current_index' < RecPerPage
                /\ Prefix(current_page, current_index)'
  <2>1. CASE found
    <3>1. /\ current_page < page
          /\ current_index < RecPerPage
          /\ Prefix(current_page, current_index)
          /\ UNCHANGED <<current_page, current_index>>
      BY <2>1, <1>00 DEF IInv, ScanInv
    <3>2. current_page \in Pages /\ current_page # page
      BY <3>1, <1>0, GnssTraceAssumption DEF IInv, TypeOK, Pages
    <3>3. QED
      BY <3>1, <3>2, <1>0, <1>00, GnssTraceAssumption DEF Prefix, Pages
  <2>2. CASE ~found /\ n < RecPerPage
    BY <2>2, <1>0, <1>00, GnssTraceAssumption DEF Prefix, Pages
  <2>3. CASE ~found /\ ~(n < RecPerPage)
    BY <2>3, <1>00
  <2>4. QED
    BY <2>1, <2>2, <2>3
<1>4. ~found' => /\ current_page' = PageCount - 1
                 /\ current_index' = RecPerPage
                 /\ \A p \in Pages : p < page' => FullPage(p)'
  <2> SUFFICES ASSUME ~found'
               PROVE  /\ current_page' = PageCount - 1
                      /\ current_index' = RecPerPage
                      /\ \A p \in Pages : p < page' => FullPage(p)'
    OBVIOUS
  <2>1. ~found /\ n = RecPerPage /\ UNCHANGED <<current_page, current_index>>
    BY <1>0, <1>00, GnssTraceAssumption
  <2>2. \A s \in Slots : flash'[page][s] \in Records
    BY <2>1, <1>0, GnssTraceAssumption DEF Slots
  <2>3. \A p \in Pages : p < page' => FullPage(p)'
    BY <2>1, <2>2, <1>0, <1>00, GnssTraceAssumption
       DEF IInv, ScanInv, FullPage, Pages
  <2>4. QED
    BY <2>1, <2>3, <1>00 DEF IInv, ScanInv
<1>5. ScanInv'
  BY <1>0, <1>00, <1>2, <1>3, <1>4, GnssTraceAssumption DEF ScanInv, Pages
<1>6. CursorInv'
  <2>1. CASE mode' = "init"
    BY <2>1 DEF CursorInv
  <2>2. CASE mode' = "load"
    <3>1. \A p \in Pages : ~HasInvalid(p)'
      BY <2>2, <1>00, <1>2, GnssTraceAssumption DEF Pages
    <3>2. CASE found'
      BY <2>2, <3>1, <3>2, <1>3 DEF CursorInv
    <3>3. CASE ~found'
      <4>1. current_page' \in Pages /\ FullPage(current_page)'
        BY <3>3, <2>2, <1>00, <1>4, GnssTraceAssumption DEF Pages
      <4>2. Prefix(current_page, current_index)'
        BY <3>3, <4>1, <1>4, GnssTraceAssumption
           DEF Prefix, FullPage, Slots, Records
      <4>3. QED
        BY <2>2, <3>1, <4>2 DEF CursorInv
    <3>4. QED
      BY <3>2, <3>3
  <2>3. QED
    BY <2>1, <2>2, <1>00
<1>7. QED
  BY <1>0, <1>1, <1>5, <1>6 DEF IInv

(* _gtrace_load reads a slot that is not torn. *)
LEMMA LoadLatestIInv == IInv /\ LoadLatest => IInv'
<1> SUFFICES ASSUME IInv, LoadLatest PROVE IInv'
  OBVIOUS
<1>1. mode = "load" /\ mode' = "ready" /\ UNCHANGED <<flash, ramVars, page, found, next_record, erases>>
  BY DEF LoadLatest
<1>2. fallback' \in Records \cup {0, Empty}
  <2>1. CASE written_records > 0
    <3> DEFINE i == (written_records - 1) % RecPerPage
               q == IF written_records >= RecPerPage /\ written_records - 1 < RecPerPage
                    THEN NextPage(current_page) ELSE current_page
    <3>1. q \in Pages
      BY NextPageOther DEF IInv, TypeOK
    <3>2. i \in Slots
      BY <2>1, GnssTraceAssumption DEF IInv, TypeOK, Slots
    <3>3. fallback' = flash[q][i]
      BY <2>1 DEF LoadLatest, SlotRead
    <3>4. flash[q][i] # Torn
      BY <3>1, <3>2, <1>1 DEF IInv, CursorInv, HasInvalid
    <3> HIDE DEF i, q
    <3>5. QED
      BY <3>1, <3>2, <3>3, <3>4 DEF IInv, TypeOK
  <2>2. CASE ~(written_records > 0)
    BY <2>2 DEF LoadLatest, IInv, TypeOK
  <2>3. QED
    BY <2>1, <2>2
<1>3. TypeOK'
  BY <1>1, <1>2 DEF IInv, TypeOK, Modes, ramVars
<1>4. FlashInv'
  BY <1>1 DEF IInv, FlashInv, Prefix
<1>5. ScanInv' /\ CursorInv'
  BY <1>1 DEF IInv, ScanInv, CursorInv, Prefix, HasInvalid, ramVars
<1>6. QED
  BY <1>3, <1>4, <1>5 DEF IInv

(* _switch_page erases the next page and stands at its start. *)
LEMMA AddSwitchPageIInv == IInv /\ AddSwitchPage => IInv'
<1> SUFFICES ASSUME IInv, AddSwitchPage PROVE IInv'
  OBVIOUS
<1>1. PICK q \in Pages : q = NextPage(current_page)
  BY NextPageOther DEF IInv, TypeOK
<1>2. /\ mode = "ready" /\ mode' = "switched"
      /\ current_page' = q /\ current_index' = 0
      /\ FlashErase(q)
      /\ UNCHANGED <<page, found, fallback, next_record, erases>>
  BY <1>1 DEF AddSwitchPage
<1>3. written_records' \in Nat
  BY GnssTraceAssumption DEF AddSwitchPage, Remaining, IInv, TypeOK
<1>4. /\ flash' \in [Pages -> [Slots -> Records \cup {Empty, Torn}]]
      /\ FlashInv'
      /\ Prefix(q, 0)'
      /\ ~HasInvalid(q)'
      /\ \A p \in Pages : p # q => flash'[p] = flash[p]
  BY <1>1, <1>2, ErasePreservesFlash DEF IInv
<1>5. TypeOK'
  <2>1. current_index' \in 0 .. RecPerPage
    BY <1>2, GnssTraceAssumption
  <2>2. QED
    BY <1>2, <1>3, <1>4, <2>1 DEF IInv, TypeOK, Modes
<1>6. \A p \in Pages : ~HasInvalid(p)'
  BY <1>2, <1>4 DEF IInv, CursorInv, HasInvalid
<1>7. ScanInv' /\ CursorInv'
  BY <1>2, <1>4, <1>6 DEF ScanInv, CursorInv, Prefix
<1>8. QED
  BY <1>4, <1>5, <1>7 DEF IInv

(* The write of gtrace_add moves the cursor on by the slot it fills. *)
LEMMA AddWriteIInv == IInv /\ AddWrite => IInv'
<1> SUFFICES ASSUME IInv, AddWrite PROVE IInv'
  OBVIOUS
<1>1. /\ CanWrite /\ mode' = "ready" /\ Program(next_record)
      /\ current_index' = current_index + 1
      /\ written_records' = written_records + 1
      /\ next_record' = next_record + 1
      /\ UNCHANGED <<current_page, page, found, fallback, erases>>
  BY DEF AddWrite
<1>2. /\ current_index \in Slots /\ current_page \in Pages
      /\ next_record \in Records
  BY <1>1, WriteAtEnd
<1>3. /\ flash' \in [Pages -> [Slots -> Records \cup {Empty, Torn}]]
      /\ FlashInv'
      /\ \A s \in Slots :
           flash'[current_page][s] # Empty <=> s < current_index + 1
      /\ flash'[current_page][current_index] = next_record
      /\ \A p \in Pages, s \in Slots :
           p # current_page \/ s # current_index
             => flash'[p][s] = flash[p][s]
  <2>1. next_record' \in Nat /\ next_record # Torn
    BY <1>1, <1>2, GnssTraceAssumption DEF Records
  <2>2. QED
    BY <1>1, <1>2, <2>1, ProgramPreservesFlash
<1>4. TypeOK'
  <2>1. /\ current_index' \in 0 .. RecPerPage
        /\ written_records' \in Nat
        /\ next_record' \in 1 .. MaxRecords + 1
    BY <1>1, <1>2, GnssTraceAssumption DEF IInv, TypeOK, Slots, Records
  <2>2. QED
    BY <1>1, <1>3, <2>1 DEF IInv, TypeOK, Modes
<1>5. \A p \in Pages : ~HasInvalid(p)'
  <2>1. \A p \in Pages, s \in Slots : flash[p][s] # Torn
    BY <1>1 DEF IInv, CursorInv, CanWrite, HasInvalid
  <2>2. next_record # Torn
    BY <1>2, GnssTraceAssumption DEF Records
  <2>3. QED
    BY <1>2, <1>3, <2>1, <2>2 DEF HasInvalid
<1>6. Prefix(current_page, current_index)'
  BY <1>1, <1>3 DEF Prefix
<1>7. ScanInv' /\ CursorInv'
  BY <1>1, <1>5, <1>6 DEF ScanInv, CursorInv
<1>8. QED
  BY <1>3, <1>4, <1>7 DEF IInv

(* The beginning of gtrace_erase_all. *)
LEMMA EraseBeginIInv == IInv /\ EraseBegin => IInv'
<1> SUFFICES ASSUME IInv, EraseBegin PROVE IInv'
  OBVIOUS
<1>1. /\ mode = "ready" /\ mode' = "erasing" /\ page' = 0
      /\ UNCHANGED <<flash, ramVars, found, fallback, next_record>>
  BY DEF EraseBegin
<1>2. erases' \in 0 .. MaxErases /\ 0 \in 0 .. PageCount /\ 0 < PageCount
  BY GnssTraceAssumption DEF EraseBegin, IInv, TypeOK
<1>3. TypeOK'
  BY <1>1, <1>2 DEF IInv, TypeOK, Modes, ramVars
<1>4. FlashInv'
  BY <1>1 DEF IInv, FlashInv, Prefix
<1>5. ScanInv' /\ CursorInv'
  BY <1>1, <1>2, GnssTraceAssumption
     DEF IInv, ScanInv, CursorInv, HasInvalid, Pages
<1>6. QED
  BY <1>3, <1>4, <1>5 DEF IInv

(* One page of gtrace_erase_all, and the reset of the context after the last. *)
LEMMA ErasePageIInv == IInv /\ ErasePage => IInv'
<1> SUFFICES ASSUME IInv, ErasePage PROVE IInv'
  OBVIOUS
<1>1. PICK q \in Pages : q = page
  BY GnssTraceAssumption DEF IInv, TypeOK, CursorInv, ErasePage, Pages
<1>2. /\ mode = "erasing" /\ FlashErase(q) /\ page' = q + 1
      /\ page' = PageCount =>
           /\ mode' = "ready"
           /\ current_index' = 0 /\ current_page' = 0 /\ written_records' = 0
      /\ page' # PageCount => UNCHANGED <<mode, ramVars>>
      /\ UNCHANGED <<found, fallback, next_record, erases>>
  BY <1>1 DEF ErasePage
<1>3. /\ flash' \in [Pages -> [Slots -> Records \cup {Empty, Torn}]]
      /\ FlashInv'
      /\ Prefix(q, 0)'
      /\ ~HasInvalid(q)'
      /\ \A p \in Pages : p # q => flash'[p] = flash[p]
  BY <1>1, <1>2, ErasePreservesFlash DEF IInv
<1>4. page' \in 0 .. PageCount
  BY <1>2, GnssTraceAssumption DEF Pages
<1>5. TypeOK'
  <2>1. CASE page' = PageCount
    <3>1. 0 \in Pages /\ 0 \in 0 .. RecPerPage /\ 0 \in Nat
      BY GnssTraceAssumption DEF Pages
    <3>2. QED
      BY <2>1, <3>1, <1>2, <1>3, <1>4 DEF IInv, TypeOK, Modes
  <2>2. CASE page' # PageCount
    BY <2>2, <1>2, <1>3, <1>4 DEF IInv, TypeOK, ramVars
  <2>3. QED
    BY <2>1, <2>2
<1>6. \A p \in Pages : ~HasInvalid(p)'
  BY <1>2, <1>3 DEF IInv, CursorInv, HasInvalid
<1>7. \A p \in Pages : p < page' => Prefix(p, 0)'
  <2> SUFFICES ASSUME NEW p \in Pages, p < q + 1
               PROVE  Prefix(p, 0)'
    BY <1>2
  <2>1. CASE p = q
    BY <2>1, <1>3
  <2>2. CASE p # q
    <3>1. p < page
      BY <2>2, <1>1, GnssTraceAssumption DEF Pages
    <3>2. Prefix(p, 0)
      BY <3>1, <1>2 DEF IInv, CursorInv
    <3>3. QED
      BY <2>2, <3>2, <1>3 DEF Prefix
  <2>3. QED
    BY <2>1, <2>2
<1>8. ScanInv' /\ CursorInv'
  <2>1. CASE page' = PageCount
    <3>1. Prefix(0, 0)'
      BY <2>1, <1>7, GnssTraceAssumption DEF Pages
    <3>2. Prefix(current_page, current_index)'
      BY <2>1, <3>1, <1>2 DEF Prefix
    <3>3. QED
      BY <2>1, <3>2, <1>2, <1>6 DEF ScanInv, CursorInv
  <2>2. CASE page' # PageCount
    <3>1. page' < PageCount
      BY <2>2, <1>4, GnssTraceAssumption
    <3>2. QED
      BY <2>2, <3>1, <1>2, <1>6, <1>7 DEF ScanInv, CursorInv
  <2>3. QED
    BY <2>1, <2>2
<1>9. QED
  BY <1>3, <1>5, <1>8 DEF IInv

(* A reset leaves RAM as the start-up code fills it. *)
LEMMA ForgetType ==
  ASSUME TypeOK, Forget,
         flash' \in [Pages -> [Slots -> Records \cup {Empty, Torn}]]
  PROVE  TypeOK' /\ ScanInv' /\ CursorInv'
<1>1. /\ current_page' \in Pages
      /\ current_index' \in 0 .. RecPerPage
      /\ written_records' \in Nat
      /\ page' \in 0 .. PageCount
  BY GnssTraceAssumption DEF Forget, Pages
<1>2. mode' \in Modes /\ found' \in BOOLEAN /\ fallback' \in Records \cup {0, Empty}
  BY DEF Forget, Modes
<1>3. TypeOK'
  BY <1>1, <1>2 DEF Forget, TypeOK
<1>4. ScanInv' /\ CursorInv'
  BY DEF Forget, ScanInv, CursorInv
<1>5. QED
  BY <1>3, <1>4

(* A reset between two flash operations. *)
LEMMA ResetIInv == IInv /\ Reset => IInv'
<1> SUFFICES ASSUME IInv, Reset PROVE IInv'
  OBVIOUS
<1>1. Forget /\ flash' = flash /\ next_record' = next_record
  BY DEF Reset, Forget
<1>2. TypeOK' /\ ScanInv' /\ CursorInv'
  BY <1>1, ForgetType DEF IInv, TypeOK
<1>3. FlashInv'
  BY <1>1 DEF IInv, FlashInv, Prefix
<1>4. QED
  BY <1>2, <1>3 DEF IInv

(* A failure of the supply that leaves a torn record. *)
LEMMA ResetInWriteIInv == IInv /\ ResetInWrite => IInv'
<1> SUFFICES ASSUME IInv, ResetInWrite PROVE IInv'
  OBVIOUS
<1>1. CanWrite /\ Forget /\ Program(Torn) /\ next_record' = next_record
  BY DEF ResetInWrite, Forget
<1>2. next_record' \in Nat /\ Torn \notin Records
  BY <1>1, GnssTraceAssumption DEF IInv, TypeOK, Records
<1>3. /\ flash' \in [Pages -> [Slots -> Records \cup {Empty, Torn}]]
      /\ FlashInv'
  BY <1>1, <1>2, ProgramPreservesFlash
<1>4. QED
  BY <1>1, <1>3, ForgetType DEF IInv

-----------------------------------------------------------------------------
(* Every step preserves the inductive invariant. *)
LEMMA NextIInv == IInv /\ [Next]_vars => IInv'
<1> SUFFICES ASSUME IInv, [Next]_vars PROVE IInv'
  OBVIOUS
<1>1. CASE Next
  BY <1>1, InitBeginIInv, InitCheckPageIInv, LoadLatestIInv, AddSwitchPageIInv,
     AddWriteIInv, EraseBeginIInv, ErasePageIInv, ResetIInv, ResetInWriteIInv
     DEF Next
<1>2. CASE UNCHANGED vars
  BY <1>2 DEF vars, ramVars, IInv, TypeOK, FlashInv, ScanInv, CursorInv,
              Prefix, HasInvalid, FullPage
<1>3. QED
  BY <1>1, <1>2

(* The strengthening holds of every behaviour of the trace. *)
THEOREM InvariantHolds == Spec => []IInv
<1>1. QED
  BY InitIInv, NextIInv, PTL DEF Spec

(* Every variable keeps its range: the page and the index of the cursor     *)
(* never leave the pages bsp_flash_gnss_trace_write can address.            *)
THEOREM TypeCorrect == Spec => []TypeOK
<1>1. IInv => TypeOK
  BY DEF IInv
<1>2. QED
  BY <1>1, InvariantHolds, PTL

(* gtrace_add only ever programs an erased slot, whatever was interrupted   *)
(* before the last gtrace_init.                                             *)
THEOREM CursorSafe == Spec => []CursorErased
<1>1. IInv => CursorErased
  <2> SUFFICES ASSUME IInv, CanWrite
               PROVE  flash[current_page][current_index] = Empty
    BY DEF CursorErased
  <2>1. Prefix(current_page, current_index) /\ current_index \in Slots
    BY WriteAtEnd
  <2>2. QED
    BY <2>1, GnssTraceAssumption DEF Prefix, Slots
<1>2. QED
  BY <1>1, InvariantHolds, PTL

(* A page holds a prefix of programmed slots, its records in the order in   *)
(* which gtrace_add wrote them.                                             *)
THEOREM Ordered == Spec => []PagesOrdered
<1>1. IInv => PagesOrdered
  <2> SUFFICES ASSUME IInv, NEW p \in Pages, NEW s \in Slots, NEW t \in Slots,
                      s < t
               PROVE  /\ flash[p][t] # Empty => flash[p][s] # Empty
                      /\ s \in Valid(p) /\ t \in Valid(p)
                           => flash[p][s] < flash[p][t]
    BY DEF PagesOrdered
  <2>1. PICK k \in 0 .. RecPerPage : Prefix(p, k)
    BY DEF IInv, FlashInv
  <2>2. flash[p][t] # Empty => flash[p][s] # Empty
    BY <2>1, GnssTraceAssumption DEF Prefix, Slots
  <2>3. s \in Valid(p) /\ t \in Valid(p) => flash[p][s] < flash[p][t]
    BY DEF IInv, FlashInv, Valid
  <2>4. QED
    BY <2>2, <2>3
<1>2. QED
  BY <1>1, InvariantHolds, PTL

-----------------------------------------------------------------------------
(* A page switch erases another page than the full one it leaves. *)
LEMMA SwitchKeepsFullPage == IInv /\ AddSwitchPage => HasFullPage'
<1> SUFFICES ASSUME IInv, AddSwitchPage PROVE HasFullPage'
  OBVIOUS
<1>1. current_page \in Pages /\ current_index = RecPerPage /\ mode = "ready"
  BY GnssTraceAssumption DEF IInv, TypeOK, AddSwitchPage
<1>2. FullPage(current_page)
  BY <1>1, FullPrefix DEF IInv, CursorInv
<1>3. PICK p \in Pages : p = current_page
  BY <1>1
<1>4. flash'[p] = flash[p]
  BY <1>3, NextPageOther DEF AddSwitchPage, FlashErase, IInv, TypeOK
<1>5. FullPage(p)'
  BY <1>2, <1>3, <1>4 DEF FullPage
<1>6. QED
  BY <1>5 DEF HasFullPage

(* Programming an erased slot, and erasing a page with a torn record, leave *)
(* the full pages alone.                                                    *)
LEMMA ProgramKeepsFullPage ==
  ASSUME IInv, CanWrite, NEW c, Program(c), NEW p \in Pages, FullPage(p)
  PROVE  FullPage(p)'
<1>1. /\ Prefix(current_page, current_index)
      /\ current_index \in Slots
      /\ current_page \in Pages
  BY WriteAtEnd
<1>2. flash[current_page][current_index] = Empty
  BY <1>1, GnssTraceAssumption DEF Prefix, Slots
<1>3. p # current_page
  BY <1>1, <1>2, GnssTraceAssumption DEF FullPage, Records
<1>4. flash'[p] = flash[p]
  BY <1>1, <1>3 DEF Program, IInv, TypeOK
<1>5. QED
  BY <1>4 DEF FullPage

(* A full page is not torn, so gtrace_init leaves it. *)
LEMMA CheckPageKeepsFullPage ==
  ASSUME IInv, InitCheckPage, NEW p \in Pages, FullPage(p)
  PROVE  FullPage(p)'
<1>1. CASE p = page
  <2>1. ~HasInvalid(page)
    BY <1>1, GnssTraceAssumption DEF FullPage, HasInvalid, Records
  <2>2. QED
    BY <2>1 DEF InitCheckPage, FullPage
<1>2. CASE p # page
  BY <1>2, CheckPageCount DEF FullPage
<1>3. QED
  BY <1>1, <1>2

(* Once a page's worth of fixes is stored, at least one full page of them   *)
(* survives every save, reset and torn write; only "gtrace erase" ends it.  *)
THEOREM FullPageKept == Spec => FullPageStable
<1>1. ASSUME IInv, [Next]_vars, HasFullPage, mode # "erasing"
      PROVE  HasFullPage'
  <2>1. PICK p \in Pages : FullPage(p)
    BY <1>1 DEF HasFullPage
  <2>2. SUFFICES ASSUME ~AddSwitchPage PROVE FullPage(p)'
    BY <1>1, SwitchKeepsFullPage DEF HasFullPage
  <2>3. CASE InitCheckPage
    BY <1>1, <2>1, <2>3, CheckPageKeepsFullPage
  <2>4. CASE AddWrite
    BY <1>1, <2>1, <2>4, ProgramKeepsFullPage DEF AddWrite
  <2>5. CASE ResetInWrite
    BY <1>1, <2>1, <2>5, ProgramKeepsFullPage DEF ResetInWrite
  <2>6. CASE InitBegin \/ LoadLatest \/ EraseBegin \/ Reset \/ UNCHANGED vars
    BY <2>1, <2>6
       DEF InitBegin, LoadLatest, EraseBegin, Reset, vars, FullPage
  <2>7. ~ErasePage
    BY <1>1 DEF ErasePage
  <2>8. QED
    BY <1>1, <2>2, <2>3, <2>4, <2>5, <2>6, <2>7 DEF Next
<1>2. IInv /\ [Next]_vars
        => [HasFullPage => HasFullPage' \/ mode = "erasing"]_vars
  BY <1>1
<1>3. QED
  BY <1>2, InvariantHolds, PTL DEF Spec, FullPageStable
=============================================================================
