------------------------- MODULE GnssTraceLapProofs --------------------------
(***************************************************************************)
(* What holds of the GNSS trace with the two pages the firmware gives it   *)
(* (FLASH_GNSS_TRACE_PAGE_COUNT), for every page size, as long as nobody   *)
(* erases it: how many records there are and in which order, although      *)
(* gtrace_init keeps neither of them and has to infer both from what is    *)
(* programmed.                                                             *)
(*                                                                         *)
(* The argument: at any time at most one page is partly programmed, and it *)
(* holds the newer records.  With both pages full gtrace_init takes the    *)
(* second page for the newer one, which is wrong from the moment page 0    *)
(* is full for the second time, after three pages' worth of fixes.         *)
(***************************************************************************)
EXTENDS GnssTraceProofs

OldestFirst(p, q) ==
  \A s, t \in Slots :
    flash[p][s] \in Records /\ flash[q][t] \in Records => flash[p][s] < flash[q][t]

(* At least n fixes have been saved to program k slots of page p, the last *)
(* of which may be torn.                                                   *)
Saved(p, k, n) == n + k <= next_record /\ (~HasInvalid(p) => n + k < next_record)

(* Where the trace is in its turn around the pages: on page 0 with nothing *)
(* behind it, on page 1 behind a full page 0, on page 0 behind a full      *)
(* page 1; k slots of the page in use are programmed.                      *)
Starting(k) == Prefix(0, k) /\ Prefix(1, 0) /\ Saved(0, k, 0)
Following(k) ==
  /\ Prefix(0, RecPerPage) /\ ~HasInvalid(0)
  /\ Prefix(1, k) /\ Saved(1, k, RecPerPage)
  /\ OldestFirst(0, 1)
Wrapped(k) ==
  /\ Prefix(1, RecPerPage) /\ ~HasInvalid(1)
  /\ Prefix(0, k) /\ Saved(0, k, 2 * RecPerPage)
  /\ OldestFirst(1, 0)

(* What gtrace_init has made of it; the last case is the wrong one. *)
Placed ==
  \/ current_page = 0 /\ Starting(current_index) /\ written_records = current_index
  \/ current_page = 1 /\ Following(current_index)
       /\ written_records = RecPerPage + current_index
  \/ current_page = 0 /\ Wrapped(current_index)
       /\ written_records = RecPerPage + current_index
  \/ current_page = 1 /\ Wrapped(RecPerPage) /\ current_index = RecPerPage
       /\ written_records = 2 * RecPerPage

LapInv ==
  /\ mode = "erasing" => erases > 0
  /\ erases = 0 =>
       /\ \E k \in 0 .. RecPerPage : Starting(k) \/ Following(k) \/ Wrapped(k)
       /\ mode = "init" /\ page = 0 => written_records = 0
       /\ mode = "init" /\ page = 1 =>
            written_records \in 0 .. RecPerPage /\ Prefix(0, written_records)
       /\ mode = "load" => current_page = 1 \/ current_index < RecPerPage
       /\ mode \in {"load", "ready", "switched"} => Placed

-----------------------------------------------------------------------------
(* A page is the prefix of one length only. *)
LEMMA PrefixUnique ==
  ASSUME NEW p, NEW j \in 0 .. RecPerPage, NEW k \in 0 .. RecPerPage,
         Prefix(p, j), Prefix(p, k)
  PROVE  j = k
<1>1. CASE j < k
  <2>1. j \in Slots
    BY <1>1, GnssTraceAssumption DEF Slots
  <2>2. QED
    BY <1>1, <2>1, GnssTraceAssumption DEF Prefix
<1>2. CASE k < j
  <2>1. k \in Slots
    BY <1>2, GnssTraceAssumption DEF Slots
  <2>2. QED
    BY <1>2, <2>1, GnssTraceAssumption DEF Prefix
<1>3. QED
  BY <1>1, <1>2, GnssTraceAssumption

(* With two pages each is the next of the other. *)
LEMMA TwoPages ==
  ASSUME PageCount = 2
  PROVE  Pages = {0, 1} /\ NextPage(0) = 1 /\ NextPage(1) = 0
BY DEF Pages, NextPage

(* The place of an index on its page, on the first and on the second page. *)
LEMMA IndexOnPage ==
  ASSUME NEW i \in Slots
  PROVE  i % RecPerPage = i /\ (RecPerPage + i) % RecPerPage = i
BY GnssTraceAssumption DEF Slots

(* A step that leaves flash and the fixes alone leaves the turn alone. *)
LEMMA SameTurn ==
  ASSUME flash' = flash, next_record' = next_record, NEW k
  PROVE  /\ Starting(k)' <=> Starting(k)
         /\ Following(k)' <=> Following(k)
         /\ Wrapped(k)' <=> Wrapped(k)
BY DEF Starting, Following, Wrapped, Saved, OldestFirst, Prefix, HasInvalid
(* Programming the next slot of the page in use, with a record or, when    *)
(* the supply fails, with a torn one.                                      *)
LEMMA WriteTurn ==
  ASSUME PageCount = 2, IInv, LapInv, erases = 0, CanWrite,
         NEW c \in Records \cup {Torn}, Program(c),
         next_record' \in Nat,
         c \in Records => c = next_record /\ next_record' = next_record + 1,
         c = Torn => next_record' = next_record,
         NEW i, i = current_index
  PROVE  /\ i \in Slots
         /\ \/ /\ current_page = 0 /\ written_records = i
               /\ Starting(i + 1)'
            \/ /\ current_page = 1 /\ written_records = RecPerPage + i
               /\ Following(i + 1)'
            \/ /\ current_page = 0 /\ written_records = RecPerPage + i
               /\ Wrapped(i + 1)'
<1>1. /\ i \in Slots
      /\ next_record \in Records
      /\ Prefix(current_page, i)
  BY WriteAtEnd
<1>2. Pages = {0, 1}
  BY TwoPages
<1>3. /\ FlashInv'
      /\ \A s \in Slots : flash'[current_page][s] # Empty <=> s < i + 1
      /\ flash'[current_page][i] = c
      /\ \A p \in Pages, s \in Slots :
           p # current_page \/ s # i => flash'[p][s] = flash[p][s]
  BY ProgramPreservesFlash
<1>4. /\ Placed
      /\ \A p \in Pages : ~HasInvalid(p)
      /\ \A p \in Pages, s \in Slots :
           flash[p][s] \in Records => flash[p][s] < next_record
  BY DEF CanWrite, LapInv, IInv, CursorInv, FlashInv
<1>5. ASSUME NEW p \in Pages, p = current_page, NEW n \in Nat, Saved(p, i, n)
      PROVE  Saved(p, i + 1, n)' /\ Prefix(p, i + 1)'
  <2>1. Prefix(p, i + 1)'
    BY <1>3, <1>5 DEF Prefix
  <2>2. n + i < next_record
    BY <1>4, <1>5 DEF Saved
  <2>3. CASE c \in Records
    BY <1>1, <2>1, <2>2, <2>3, GnssTraceAssumption DEF Saved, Slots, Records
  <2>4. CASE c = Torn
    <3>1. HasInvalid(p)'
      BY <1>1, <1>3, <1>5, <2>4 DEF HasInvalid
    <3>2. n + (i + 1) <= next_record'
      BY <1>1, <2>2, <2>4, GnssTraceAssumption DEF Slots, Records
    <3>3. QED
      BY <2>1, <3>1, <3>2 DEF Saved
  <2>5. QED
    BY <2>3, <2>4
<1>6. ASSUME NEW p \in Pages, p # current_page
      PROVE  /\ ~HasInvalid(p)'
             /\ \A k : Prefix(p, k) => Prefix(p, k)'
             /\ OldestFirst(p, current_page) =>
                  \A q : q = current_page => OldestFirst(p, q)'
  <2>1. \A s \in Slots : flash'[p][s] = flash[p][s]
    BY <1>3, <1>6
  <2>2. ~HasInvalid(p)' /\ \A k : Prefix(p, k) => Prefix(p, k)'
    BY <1>4, <2>1 DEF HasInvalid, Prefix
  <2>3. ASSUME OldestFirst(p, current_page),
               NEW s \in Slots, NEW t \in Slots,
               flash'[p][s] \in Records,
               flash'[current_page][t] \in Records
        PROVE  flash'[p][s] < flash'[current_page][t]
    <3>1. CASE t = i
      <4>1. flash'[current_page][t] = next_record
        BY <1>3, <2>3, <3>1, GnssTraceAssumption DEF Records
      <4>2. QED
        BY <4>1, <1>4, <2>1, <2>3
    <3>2. CASE t # i
      <4>1. current_page \in Pages
        BY WriteAtEnd
      <4>2. flash'[current_page][t] = flash[current_page][t]
        BY <4>1, <1>3, <3>2
      <4>3. QED
        BY <4>2, <2>1, <2>3 DEF OldestFirst
    <3>3. QED
      BY <3>1, <3>2
  <2>4. QED
    BY <2>2, <2>3 DEF OldestFirst
<1>7. CASE /\ current_page = 0 /\ Starting(current_index)
           /\ written_records = current_index
  BY <1>1, <1>2, <1>5, <1>6, <1>7, GnssTraceAssumption DEF Starting
<1>8. CASE /\ current_page = 1 /\ Following(current_index)
           /\ written_records = RecPerPage + current_index
  BY <1>1, <1>2, <1>5, <1>6, <1>8, GnssTraceAssumption DEF Following
<1>9. CASE /\ current_page = 0 /\ Wrapped(current_index)
           /\ written_records = RecPerPage + current_index
  BY <1>1, <1>2, <1>5, <1>6, <1>9, GnssTraceAssumption DEF Wrapped
<1>10. current_index # RecPerPage
  BY <1>1, GnssTraceAssumption DEF Slots
<1>11. QED
  BY <1>4, <1>7, <1>8, <1>9, <1>10 DEF Placed

(* A page switch always moves on to the page with the older records, except *)
(* from the misplaced state: behind it page 0 is erased although its        *)
(* records are the newer ones.                                              *)
LEMMA SwitchTurn ==
  ASSUME PageCount = 2, IInv, LapInv, erases = 0, AddSwitchPage
  PROVE  /\ current_index' = 0 /\ written_records' = RecPerPage
         /\ \/ current_page' = 1 /\ Following(0)'
            \/ current_page' = 0 /\ Wrapped(0)'
<1>1. /\ mode = "ready" /\ current_index = RecPerPage
      /\ current_index' = 0
      /\ current_page' = NextPage(current_page)
      /\ FlashErase(NextPage(current_page))
      /\ written_records' = Remaining(written_records)
      /\ next_record' = next_record
  BY GnssTraceAssumption DEF AddSwitchPage, IInv, TypeOK
<1>2. Pages = {0, 1} /\ NextPage(0) = 1 /\ NextPage(1) = 0
  BY TwoPages
<1>3. Placed /\ \A p \in Pages : ~HasInvalid(p)
  BY <1>1 DEF LapInv, IInv, CursorInv
<1>4. written_records' = RecPerPage
  BY <1>1, <1>3, GnssTraceAssumption DEF Placed, Remaining
<1>5. ASSUME NEW p \in Pages, NEW q \in Pages, p # q, q = NextPage(current_page)
      PROVE  /\ Prefix(p, RecPerPage) => Prefix(p, RecPerPage)'
             /\ ~HasInvalid(p)'
             /\ Prefix(q, 0)' /\ ~HasInvalid(q)'
             /\ OldestFirst(p, q)'
             /\ \A n, m \in Nat : Saved(p, RecPerPage, n) /\ m <= n + RecPerPage
                                   => Saved(q, 0, m)'
  <2>1. /\ Prefix(q, 0)'
        /\ ~HasInvalid(q)'
        /\ flash'[p] = flash[p]
    BY <1>1, <1>5, ErasePreservesFlash DEF IInv
  <2>2. OldestFirst(p, q)'
    BY <2>1, GnssTraceAssumption DEF OldestFirst, Prefix, Slots, Records
  <2>3. Prefix(p, RecPerPage) => Prefix(p, RecPerPage)'
    BY <2>1 DEF Prefix
  <2>4. ~HasInvalid(p)'
    BY <2>1, <1>3 DEF HasInvalid
  <2>5. ASSUME NEW n \in Nat, NEW m \in Nat,
               Saved(p, RecPerPage, n), m <= n + RecPerPage
        PROVE  Saved(q, 0, m)'
    <3>1. n + RecPerPage < next_record /\ next_record \in Nat
      BY <1>3, <2>5, GnssTraceAssumption DEF Saved, IInv, TypeOK
    <3>2. QED
      BY <1>1, <2>5, <3>1, GnssTraceAssumption DEF Saved
  <2>6. QED
    BY <2>1, <2>2, <2>3, <2>4, <2>5
<1>6. /\ RecPerPage \in Nat /\ 0 \in Nat /\ 2 * RecPerPage \in Nat
      /\ RecPerPage <= 0 + RecPerPage
      /\ 2 * RecPerPage <= RecPerPage + RecPerPage
      /\ RecPerPage <= 2 * RecPerPage + RecPerPage
  BY GnssTraceAssumption
<1>7. CASE current_page = 0 /\ Starting(RecPerPage)
  BY <1>1, <1>2, <1>4, <1>5, <1>6, <1>7 DEF Starting, Following
<1>8. CASE current_page = 1 /\ Following(RecPerPage)
  BY <1>1, <1>2, <1>4, <1>5, <1>6, <1>8 DEF Following, Wrapped
<1>9. CASE current_page = 0 /\ Wrapped(RecPerPage)
  BY <1>1, <1>2, <1>4, <1>5, <1>6, <1>9 DEF Following, Wrapped
<1>10. CASE current_page = 1 /\ Wrapped(RecPerPage)
  <2>1. Saved(0, RecPerPage, 2 * RecPerPage) /\ Prefix(0, RecPerPage)
    BY <1>10 DEF Wrapped
  <2>2. next_record \in Nat /\ next_record >= 2 * RecPerPage + RecPerPage
    BY <2>1, GnssTraceAssumption DEF Saved, IInv, TypeOK
  <2>3. Saved(0, 0, 2 * RecPerPage)'
    BY <2>2, <1>1, GnssTraceAssumption DEF Saved
  <2>4. QED
    BY <2>3, <1>1, <1>2, <1>4, <1>5, <1>10 DEF Wrapped
<1>11. QED
  BY <1>1, <1>3, <1>7, <1>8, <1>9, <1>10 DEF Placed
(* What a round of gtrace_init makes of the page it checks: it has as many *)
(* programmed slots afterwards as were counted.                            *)
LEMMA CheckTurn ==
  ASSUME PageCount = 2, IInv, InitCheckPage, NEW k \in 0 .. RecPerPage,
         NEW q \in Pages, q = page, NEW n, n = RecCount(q)
  PROVE  /\ Starting(k) => /\ q = 0 => Starting(n)'
                           /\ q = 1 => n = 0 /\ Starting(k)'
         /\ Following(k) => /\ q = 0 => n = RecPerPage /\ Following(k)'
                            /\ q = 1 => Following(n)'
         /\ Wrapped(k) => /\ q = 0 => Wrapped(n)'
                          /\ q = 1 => n = RecPerPage /\ Wrapped(k)'
<1>1. Pages = {0, 1}
  BY TwoPages
<1>2. /\ next_record' = next_record /\ next_record \in Nat \ {0}
      /\ n \in 0 .. RecPerPage
      /\ 0 \in 0 .. RecPerPage /\ RecPerPage \in 0 .. RecPerPage
  <2>1. n \in 0 .. RecPerPage
    BY CheckPageCount
  <2>2. QED
    BY <2>1, GnssTraceAssumption DEF InitCheckPage, IInv, TypeOK
<1>3. \A j \in 0 .. RecPerPage :
        Prefix(q, j) => n = IF HasInvalid(q) THEN 0 ELSE j
  BY <1>1, RecCountOfPrefix
<1>4. ~HasInvalid(q) => flash' = flash
  BY DEF InitCheckPage
<1>5. /\ Prefix(q, n)' /\ ~HasInvalid(q)'
      /\ \A p \in Pages : p # q => flash'[p] = flash[p]
  BY CheckPageCount DEF Prefix, HasInvalid
<1>6. \A j \in 0 .. RecPerPage, m \in Nat :
        Prefix(q, j) /\ Saved(q, j, m) => Saved(q, n, m)'
  <2> SUFFICES ASSUME NEW j \in 0 .. RecPerPage, NEW m \in Nat,
                      Prefix(q, j), Saved(q, j, m)
               PROVE  m + n < next_record
    BY <1>2, <1>5, GnssTraceAssumption DEF Saved
  <2>1. CASE HasInvalid(q)
    <3>1. j # 0
      BY <2>1, GnssTraceAssumption DEF HasInvalid, Prefix, Slots
    <3>2. QED
      BY <2>1, <3>1, <1>2, <1>3, GnssTraceAssumption DEF Saved
  <2>2. CASE ~HasInvalid(q)
    BY <2>2, <1>3 DEF Saved
  <2>3. QED
    BY <2>1, <2>2
<1>7. \A p \in Pages : OldestFirst(p, q) => OldestFirst(p, q)'
  <2>1. CASE ~HasInvalid(q)
    BY <2>1, <1>4 DEF OldestFirst
  <2>2. CASE HasInvalid(q)
    <3>1. n = 0
      BY <2>2 DEF RecCount
    <3>2. \A s \in Slots : flash'[q][s] = Empty
      BY <3>1, <1>5, GnssTraceAssumption DEF Prefix, Slots
    <3>3. QED
      BY <3>2, GnssTraceAssumption DEF OldestFirst, Records
  <2>3. QED
    BY <2>1, <2>2
<1>8. Prefix(1, 0) => ~HasInvalid(1)
  BY GnssTraceAssumption DEF Prefix, HasInvalid, Slots
<1>9. Starting(k) => /\ q = 0 => Starting(n)'
                     /\ q = 1 => n = 0 /\ Starting(k)'
  <2> SUFFICES ASSUME Starting(k) PROVE /\ q = 0 => Starting(n)'
                                        /\ q = 1 => n = 0 /\ Starting(k)'
    OBVIOUS
  <2>1. CASE q = 0
    <3>1. flash'[1] = flash[1]
      BY <2>1, <1>1, <1>5
    <3>2. Prefix(1, 0)'
      BY <3>1 DEF Starting, Prefix
    <3>3. QED
      BY <2>1, <3>2, <1>5, <1>6 DEF Starting
  <2>2. CASE q = 1
    BY <2>2, <1>2, <1>3, <1>4, <1>8, SameTurn DEF Starting
  <2>3. QED
    BY <2>1, <2>2
<1>10. Following(k) => /\ q = 0 => n = RecPerPage /\ Following(k)'
                       /\ q = 1 => Following(n)'
  <2> SUFFICES ASSUME Following(k)
               PROVE  /\ q = 0 => n = RecPerPage /\ Following(k)'
                      /\ q = 1 => Following(n)'
    OBVIOUS
  <2>1. CASE q = 1
    <3>1. flash'[0] = flash[0]
      BY <2>1, <1>1, <1>5
    <3>2. Prefix(0, RecPerPage)' /\ ~HasInvalid(0)'
      BY <3>1 DEF Following, Prefix, HasInvalid
    <3>3. QED
      BY <2>1, <3>2, <1>1, <1>5, <1>6, <1>7, GnssTraceAssumption DEF Following
  <2>2. CASE q = 0
    BY <2>2, <1>2, <1>3, <1>4, SameTurn DEF Following
  <2>3. QED
    BY <2>1, <2>2
<1>11. Wrapped(k) => /\ q = 0 => Wrapped(n)'
                     /\ q = 1 => n = RecPerPage /\ Wrapped(k)'
  <2> SUFFICES ASSUME Wrapped(k)
               PROVE  /\ q = 0 => Wrapped(n)'
                      /\ q = 1 => n = RecPerPage /\ Wrapped(k)'
    OBVIOUS
  <2>1. CASE q = 0
    <3>1. flash'[1] = flash[1]
      BY <2>1, <1>1, <1>5
    <3>2. Prefix(1, RecPerPage)' /\ ~HasInvalid(1)'
      BY <3>1 DEF Wrapped, Prefix, HasInvalid
    <3>3. QED
      BY <2>1, <3>2, <1>1, <1>5, <1>6, <1>7, GnssTraceAssumption DEF Wrapped
  <2>2. CASE q = 1
    BY <2>2, <1>2, <1>3, <1>4, SameTurn DEF Wrapped
  <2>3. QED
    BY <2>1, <2>2
<1>12. QED
  BY <1>9, <1>10, <1>11
(* What gtrace_init has made of the pages when it has checked them both. *)
LEMMA ScanPlaces ==
  ASSUME PageCount = 2, IInv, LapInv, erases = 0, InitCheckPage, page = 1
  PROVE  Placed' /\ (current_page' = 1 \/ current_index' < RecPerPage)
<1> PICK n : n = RecCount(1)
  OBVIOUS
<1>0. Pages = {0, 1}
  BY TwoPages
<1>1. n \in 0 .. RecPerPage
  BY CheckPageCount
<1>2. /\ ~HasInvalid(0)
      /\ found => /\ current_page = 0 /\ current_index \in 0 .. RecPerPage
                  /\ current_index < RecPerPage /\ Prefix(0, current_index)
      /\ ~found => /\ current_page = 1 /\ current_index = RecPerPage
                   /\ Prefix(0, RecPerPage)
  <2>1. ~HasInvalid(0)
    BY <1>0 DEF InitCheckPage, IInv, ScanInv
  <2>2. ASSUME found
        PROVE  /\ current_page = 0 /\ current_index \in 0 .. RecPerPage
               /\ current_index < RecPerPage /\ Prefix(0, current_index)
    BY <2>2, <1>0, GnssTraceAssumption DEF InitCheckPage, IInv, ScanInv, TypeOK
  <2>3. ASSUME ~found
        PROVE  /\ current_page = 1 /\ current_index = RecPerPage
               /\ FullPage(0)
    BY <2>3, <1>0, GnssTraceAssumption DEF InitCheckPage, IInv, ScanInv
  <2>4. FullPage(0) => Prefix(0, RecPerPage)
    BY GnssTraceAssumption DEF FullPage, Prefix, Slots, Records
  <2>5. QED
    BY <2>1, <2>2, <2>3, <2>4
<1>3. /\ written_records \in 0 .. RecPerPage /\ Prefix(0, written_records)
      /\ written_records' = written_records + n
      /\ \E k \in 0 .. RecPerPage : Starting(k) \/ Following(k) \/ Wrapped(k)
  BY DEF LapInv, InitCheckPage
<1>4. /\ ~found /\ n < RecPerPage => current_page' = 1 /\ current_index' = n
      /\ found \/ ~(n < RecPerPage) => UNCHANGED <<current_page, current_index>>
  BY DEF InitCheckPage
<1>5. \A j, k \in 0 .. RecPerPage : Prefix(0, j) /\ Prefix(0, k) => j = k
  BY PrefixUnique
<1>6. 0 \in 0 .. RecPerPage /\ RecPerPage \in 0 .. RecPerPage /\ 0 < RecPerPage
  BY GnssTraceAssumption
<1>7. \A k \in 0 .. RecPerPage :
        /\ Starting(k) => n = 0 /\ Starting(k)'
        /\ Following(k) => Following(n)'
        /\ Wrapped(k) => n = RecPerPage /\ Wrapped(k)'
  BY <1>0, CheckTurn
<1>8. PICK k \in 0 .. RecPerPage : Starting(k) \/ Following(k) \/ Wrapped(k)
  BY <1>3
<1>9. CASE Starting(k)
  <2>1. Prefix(0, k) /\ n = 0 /\ Starting(k)' /\ written_records' = k
    BY <1>3, <1>5, <1>7, <1>8, <1>9, GnssTraceAssumption DEF Starting
  <2>2. CASE found
    <3>1. current_page' = 0 /\ current_index' = k
      BY <2>1, <2>2, <1>2, <1>4, <1>5, <1>8
    <3>2. QED
      BY <2>1, <2>2, <3>1, <1>2, <1>4 DEF Placed, Starting, Prefix, Saved
  <2>3. CASE ~found
    <3>1. k = RecPerPage
      BY <2>1, <2>3, <1>2, <1>5, <1>6, <1>8
    <3>2. current_page' = 1 /\ current_index' = 0
      BY <2>1, <2>3, <1>4, <1>6
    <3>3. ~HasInvalid(0)'
      BY <2>1, <1>0, <1>2, CheckPageCount DEF HasInvalid, InitCheckPage
    <3>4. OldestFirst(0, 1)'
      BY <2>1, GnssTraceAssumption
         DEF Starting, Prefix, OldestFirst, Slots, Records
    <3>5. ~HasInvalid(1)'
      BY <2>1, GnssTraceAssumption DEF Starting, Prefix, HasInvalid, Slots
    <3>6. RecPerPage + 0 < next_record'
      BY <2>1, <3>1, <3>3, GnssTraceAssumption
         DEF Starting, Saved, InitCheckPage, IInv, TypeOK
    <3>7. Following(0)'
      BY <2>1, <3>1, <3>3, <3>4, <3>5, <3>6, GnssTraceAssumption
         DEF Starting, Following, Saved, InitCheckPage, IInv, TypeOK
    <3>8. QED
      BY <2>1, <3>1, <3>2, <3>7, GnssTraceAssumption
         DEF Placed, Following, Prefix, Saved
  <2>4. QED
    BY <2>2, <2>3
<1>10. CASE Following(k)
  <2>1. Following(n)' /\ written_records' = RecPerPage + n
    BY <1>3, <1>5, <1>6, <1>7, <1>8, <1>10 DEF Following
  <2>2. ~found
    BY <1>2, <1>5, <1>6, <1>10 DEF Following
  <2>3. current_page' = 1 /\ current_index' = n
    BY <2>2, <1>1, <1>2, <1>4, GnssTraceAssumption
  <2>4. QED
    BY <2>1, <2>3 DEF Placed, Following, Prefix, Saved
<1>11. CASE Wrapped(k)
  <2>1. /\ n = RecPerPage /\ Wrapped(k)'
        /\ written_records' = k + RecPerPage
    BY <1>3, <1>5, <1>7, <1>8, <1>11 DEF Wrapped
  <2>2. UNCHANGED <<current_page, current_index>>
    BY <2>1, <1>4, GnssTraceAssumption
  <2>3. Prefix(0, k)
    BY <1>11 DEF Wrapped
  <2>4. CASE found
    <3>1. current_index' = k /\ current_page' = 0 /\ k < RecPerPage
      BY <2>2, <2>3, <2>4, <1>2, <1>5, <1>8
    <3>2. QED
      BY <2>1, <3>1, GnssTraceAssumption DEF Placed, Wrapped, Prefix, Saved
  <2>5. CASE ~found
    <3>1. current_index' = k /\ current_page' = 1 /\ k = RecPerPage
      BY <2>2, <2>3, <2>5, <1>2, <1>5, <1>6, <1>8
    <3>2. QED
      BY <2>1, <3>1, GnssTraceAssumption DEF Placed, Wrapped, Prefix, Saved
  <2>6. QED
    BY <2>4, <2>5
<1>12. QED
  BY <1>8, <1>9, <1>10, <1>11
-----------------------------------------------------------------------------
(* The erased flash of a new tracker is a start on page 0. *)
LEMMA InitLapInv == PageCount = 2 /\ Init => LapInv
<1> SUFFICES ASSUME PageCount = 2, Init PROVE LapInv
  OBVIOUS
<1>1. Pages = {0, 1} /\ 0 \in 0 .. RecPerPage
  BY TwoPages, GnssTraceAssumption
<1>2. Starting(0)
  BY <1>1, GnssTraceAssumption
     DEF Init, ErasedPage, Starting, Prefix, Saved, Slots
<1>3. QED
  BY <1>1, <1>2 DEF Init, LapInv

(* A step that leaves flash, the number of fixes and the erase commands *)
(* alone leaves the turn what it is.                                    *)
LEMMA TurnKept ==
  ASSUME LapInv, erases = 0, flash' = flash, next_record' = next_record
  PROVE  \E k \in 0 .. RecPerPage :
           Starting(k)' \/ Following(k)' \/ Wrapped(k)'
BY SameTurn DEF LapInv

(* Every step preserves the lap invariant. *)
LEMMA NextLapInv ==
  PageCount = 2 /\ IInv /\ IInv' /\ LapInv /\ [Next]_vars => LapInv'
<1> SUFFICES ASSUME PageCount = 2, IInv, IInv', LapInv, [Next]_vars
             PROVE  LapInv'
  OBVIOUS
<1>1. Pages = {0, 1} /\ erases \in Nat /\ next_record \in Nat
  BY TwoPages DEF IInv, TypeOK
<1>2. CASE InitBegin
  <2>1. /\ mode' = "init" /\ page' = 0 /\ written_records' = 0
        /\ UNCHANGED <<flash, next_record, erases>>
    BY <1>2 DEF InitBegin
  <2>2. QED
    BY <2>1, TurnKept DEF LapInv
<1>3. CASE InitCheckPage
  <2> SUFFICES ASSUME erases = 0 PROVE LapInv'
    BY <1>3 DEF LapInv, InitCheckPage
  <2>1. page \in Pages /\ RecCount(page) \in 0 .. RecPerPage
    BY <1>3, CheckPageCount
  <2>2. PICK q \in Pages, n \in 0 .. RecPerPage : q = page /\ n = RecCount(page)
    BY <2>1
  <2>3. \E k \in 0 .. RecPerPage : Starting(k)' \/ Following(k)' \/ Wrapped(k)'
    BY <1>1, <1>3, <2>2, CheckTurn DEF LapInv
  <2>4. CASE page = 0
    <3>1. mode' = "init" /\ page' = 1 /\ written_records' = n
      BY <1>3, <2>2, <2>4 DEF InitCheckPage, LapInv
    <3>2. Prefix(0, n)'
      BY <1>3, <2>2, <2>4, CheckPageCount DEF Prefix
    <3>3. QED
      BY <2>3, <3>1, <3>2 DEF LapInv, Prefix
  <2>5. CASE page = 1
    <3>1. mode' = "load"
      BY <1>3, <2>5 DEF InitCheckPage
    <3>2. QED
      BY <1>3, <2>3, <2>5, <3>1, ScanPlaces DEF LapInv
  <2>6. QED
    BY <1>1, <2>1, <2>4, <2>5
<1>4. CASE LoadLatest
  <2>1. /\ mode = "load" /\ mode' = "ready"
        /\ UNCHANGED <<flash, ramVars, page, next_record, erases>>
    BY <1>4 DEF LoadLatest
  <2> SUFFICES ASSUME erases = 0 PROVE LapInv'
    BY <2>1 DEF LapInv
  <2>2. Placed'
    BY <2>1, SameTurn DEF LapInv, Placed, ramVars, Starting, Following, Wrapped,
       Saved, OldestFirst, Prefix, HasInvalid
  <2>3. QED
    BY <2>1, <2>2, TurnKept DEF LapInv
<1>5. CASE AddSwitchPage
  <2>1. mode' = "switched" /\ erases' = erases
    BY <1>5 DEF AddSwitchPage
  <2> SUFFICES ASSUME erases = 0 PROVE LapInv'
    BY <2>1 DEF LapInv
  <2>2. /\ current_index' = 0 /\ written_records' = RecPerPage
        /\ \/ current_page' = 1 /\ Following(0)'
           \/ current_page' = 0 /\ Wrapped(0)'
    BY <1>5, SwitchTurn
  <2>3. Placed'
    BY <2>2, GnssTraceAssumption DEF Placed, Following, Wrapped, Prefix, Saved
  <2>4. 0 \in 0 .. RecPerPage
    BY GnssTraceAssumption
  <2>5. QED
    BY <2>1, <2>2, <2>3, <2>4 DEF LapInv
<1>6. CASE AddWrite
  <2>1. /\ CanWrite /\ mode' = "ready" /\ erases' = erases
        /\ Program(next_record)
        /\ current_index' = current_index + 1
        /\ written_records' = written_records + 1
        /\ next_record' = next_record + 1
        /\ current_page' = current_page
    BY <1>6 DEF AddWrite
  <2> SUFFICES ASSUME erases = 0 PROVE LapInv'
    BY <2>1 DEF LapInv
  <2>2. PICK i, c : i = current_index /\ c = next_record
    OBVIOUS
  <2>3. c \in Records /\ c # Torn /\ next_record' \in Nat
    BY <1>1, <2>1, <2>2, WriteAtEnd, GnssTraceAssumption DEF Records
  <2>4. /\ i \in Slots
        /\ \/ /\ current_page = 0 /\ written_records = i
              /\ Starting(i + 1)'
           \/ /\ current_page = 1 /\ written_records = RecPerPage + i
              /\ Following(i + 1)'
           \/ /\ current_page = 0 /\ written_records = RecPerPage + i
              /\ Wrapped(i + 1)'
    BY <2>1, <2>2, <2>3, WriteTurn
  <2>5. /\ current_index' = i + 1 /\ i + 1 \in 0 .. RecPerPage
        /\ RecPerPage + i + 1 = RecPerPage + (i + 1)
    BY <2>1, <2>2, <2>4, GnssTraceAssumption DEF Slots
  <2>6. Placed'
    BY <2>1, <2>4, <2>5 DEF Placed, Starting, Following, Wrapped, Prefix, Saved
  <2>7. QED
    BY <2>1, <2>4, <2>5, <2>6 DEF LapInv
<1>7. CASE EraseBegin
  <2>1. mode' = "erasing" /\ erases' = erases + 1
    BY <1>7 DEF EraseBegin
  <2>2. QED
    BY <1>1, <2>1 DEF LapInv
<1>8. CASE ErasePage
  BY <1>1, <1>8 DEF ErasePage, LapInv
<1>9. CASE Reset
  <2>1. mode' = "reset" /\ UNCHANGED <<flash, next_record, erases>>
    BY <1>9 DEF Reset, Forget
  <2>2. QED
    BY <2>1, TurnKept DEF LapInv
<1>10. CASE ResetInWrite
  <2>1. /\ CanWrite /\ Program(Torn) /\ mode' = "reset"
        /\ next_record' = next_record /\ erases' = erases
    BY <1>10 DEF ResetInWrite, Forget
  <2> SUFFICES ASSUME erases = 0 PROVE LapInv'
    BY <2>1 DEF LapInv
  <2>2. PICK i : i = current_index
    OBVIOUS
  <2>3. Torn \notin Records /\ next_record' \in Nat
    BY <1>1, <2>1, GnssTraceAssumption DEF Records
  <2>4. i \in Slots /\ (Starting(i + 1)' \/ Following(i + 1)' \/ Wrapped(i + 1)')
    BY <2>1, <2>2, <2>3, WriteTurn
  <2>5. i + 1 \in 0 .. RecPerPage
    BY <2>4, GnssTraceAssumption DEF Slots
  <2>6. QED
    BY <2>1, <2>4, <2>5 DEF LapInv
<1>11. CASE UNCHANGED vars
  <2>1. UNCHANGED <<flash, mode, ramVars, page, next_record, erases>>
    BY <1>11 DEF vars
  <2>2. QED
    BY <2>1 DEF LapInv, Placed, Starting, Following, Wrapped, Saved,
       OldestFirst, Prefix, HasInvalid, ramVars
<1>12. QED
  BY <1>2, <1>3, <1>4, <1>5, <1>6, <1>7, <1>8, <1>9, <1>10, <1>11 DEF Next

(* With the two pages of the firmware the pages are filled in turn, and    *)
(* gtrace_init finds the place and the count again after any reset and any *)
(* torn write, until the trace is erased by command.                       *)
THEOREM LapHolds == PageCount = 2 /\ Spec => []LapInv
<1> SUFFICES ASSUME PageCount = 2 PROVE Spec => []LapInv
  OBVIOUS
<1>1. Init => IInv /\ LapInv
  BY InitIInv, InitLapInv
<1>2. IInv /\ LapInv /\ [Next]_vars => IInv' /\ LapInv'
  BY NextIInv, NextLapInv
<1>3. QED
  BY <1>1, <1>2, PTL DEF Spec

-----------------------------------------------------------------------------
(* The function g lists the w stored records, each of them once, in the    *)
(* order in which they were saved.                                         *)
Listing(g, w) ==
  /\ g \in [0 .. w - 1 -> Records]
  /\ \A i, j \in 0 .. w - 1 : i < j => g[i] < g[j]
  /\ Stored = {g[i] : i \in 0 .. w - 1}

(* On a page without torn records the programmed slots hold records. *)
LEMMA PrefixRecords ==
  ASSUME IInv, NEW p \in Pages, NEW k \in 0 .. RecPerPage, Prefix(p, k),
         ~HasInvalid(p)
  PROVE  /\ \A s \in Slots : flash[p][s] \in Records <=> s < k
         /\ \A s, t \in Slots : s < t /\ t < k => flash[p][s] < flash[p][t]
<1>1. \A s \in Slots : flash[p][s] \in Records <=> s < k
  BY GnssTraceAssumption DEF IInv, TypeOK, Prefix, HasInvalid, Records
<1>2. \A s, t \in Slots :
        s < t /\ flash[p][s] \in Records /\ flash[p][t] \in Records
          => flash[p][s] < flash[p][t]
  BY DEF IInv, FlashInv
<1>3. \A s, t \in Slots : s < t /\ t < k => s < k
  BY DEF Slots
<1>4. QED
  BY <1>1, <1>2, <1>3

(* A listing as long as the count makes the count right, and its last *)
(* element is the newest record.                                      *)
LEMMA ListingCounts ==
  ASSUME NEW g, NEW w \in Nat, Listing(g, w)
  PROVE  /\ Cardinality(Stored) = w
         /\ w = 0 => Stored = {}
         /\ w > 0 => g[w - 1] \in Stored /\ \A r \in Stored : r <= g[w - 1]
<1>1. g \in Bijection(0 .. w - 1, Stored)
  <2>1. \A i \in 0 .. w - 1 : g[i] \in Stored
    BY DEF Listing
  <2>2. g \in [0 .. w - 1 -> Stored]
    BY <2>1 DEF Listing
  <2>3. \A i, j \in 0 .. w - 1 : g[i] = g[j] => i = j
    <3> SUFFICES ASSUME NEW i \in 0 .. w - 1, NEW j \in 0 .. w - 1, i < j
                 PROVE  g[i] # g[j]
      OBVIOUS
    <3>1. g[i] < g[j] /\ g[i] \in Nat /\ g[j] \in Nat
      BY GnssTraceAssumption DEF Listing, Records
    <3>2. QED
      BY <3>1
  <2>4. \A r \in Stored : \E i \in 0 .. w - 1 : g[i] = r
    BY DEF Listing
  <2>5. QED
    BY <2>2, <2>3, <2>4 DEF Bijection, Injection, Surjection, IsInjective
<1>2. Cardinality(Stored) = w
  <2>1. IsFiniteSet(0 .. w - 1) /\ Cardinality(0 .. w - 1) = w
    BY FS_Interval
  <2>2. QED
    BY <1>1, <2>1, FS_Bijection DEF ExistsBijection
<1>3. w = 0 => Stored = {}
  BY DEF Listing
<1>4. ASSUME w > 0
      PROVE  g[w - 1] \in Stored /\ \A r \in Stored : r <= g[w - 1]
  <2>1. w - 1 \in 0 .. w - 1
    BY <1>4
  <2>2. ASSUME NEW i \in 0 .. w - 1
        PROVE  g[i] <= g[w - 1]
    <3>1. g[i] \in Nat /\ g[w - 1] \in Nat
      BY <2>1, GnssTraceAssumption DEF Listing, Records
    <3>2. CASE i = w - 1
      BY <3>1, <3>2
    <3>3. CASE i < w - 1
      BY <2>1, <3>1, <3>3 DEF Listing
    <3>4. QED
      BY <3>2, <3>3
  <2>3. QED
    BY <2>1, <2>2 DEF Listing
<1>5. QED
  BY <1>2, <1>3, <1>4

(* One page in use: its records in the order of the slots. *)
LEMMA OnePageListed ==
  ASSUME PageCount = 2, IInv, \A p \in Pages : ~HasInvalid(p),
         NEW k \in 0 .. RecPerPage, Starting(k)
  PROVE  Listing([i \in 0 .. k - 1 |-> flash[0][i]], k)
<1>1. Pages = {0, 1} /\ 0 \in 0 .. RecPerPage
  BY TwoPages, GnssTraceAssumption
<1>2. /\ \A s \in Slots : flash[0][s] \in Records <=> s < k
      /\ \A s, t \in Slots : s < t /\ t < k => flash[0][s] < flash[0][t]
  BY <1>1, PrefixRecords DEF Starting
<1>3. \A s \in Slots : flash[1][s] \notin Records
  BY <1>1, GnssTraceAssumption DEF Starting, Prefix, Slots, Records
<1>4. \A i : i \in 0 .. k - 1 <=> i \in Slots /\ i < k
  BY GnssTraceAssumption DEF Slots
<1>5. Stored = {flash[0][i] : i \in 0 .. k - 1}
  BY <1>1, <1>2, <1>3, <1>4 DEF Stored
<1>6. \A i \in 0 .. k - 1 : flash[0][i] \in Records
  BY <1>2, <1>4
<1>7. \A i, j \in 0 .. k - 1 : i < j => flash[0][i] < flash[0][j]
  BY <1>2, <1>4
<1>8. QED
  BY <1>5, <1>6, <1>7 DEF Listing

(* Two pages in use: the records of the full one come first. *)
LEMMA TwoPagesListed ==
  ASSUME PageCount = 2, IInv, \A p \in Pages : ~HasInvalid(p),
         NEW p \in Pages, NEW q \in Pages, p # q,
         NEW k \in 0 .. RecPerPage, NEW w, w = RecPerPage + k,
         Prefix(p, RecPerPage), Prefix(q, k), OldestFirst(p, q),
         NEW g, g = [i \in 0 .. w - 1 |->
                       IF i < RecPerPage THEN flash[p][i]
                                         ELSE flash[q][i - RecPerPage]]
  PROVE  Listing(g, w)
<1> DEFINE I == 0 .. w - 1
<1>1. Pages = {p, q} /\ RecPerPage \in 0 .. RecPerPage
  BY TwoPages, GnssTraceAssumption
<1>2. /\ \A s \in Slots : flash[p][s] \in Records
      /\ \A s, t \in Slots : s < t => flash[p][s] < flash[p][t]
  BY <1>1, PrefixRecords, GnssTraceAssumption DEF Slots
<1>3. /\ \A s \in Slots : flash[q][s] \in Records <=> s < k
      /\ \A s, t \in Slots : s < t /\ t < k => flash[q][s] < flash[q][t]
  BY PrefixRecords
<1>4. \A i \in I : \/ i \in Slots /\ i < RecPerPage
                   \/ /\ i - RecPerPage \in Slots /\ i - RecPerPage < k
                      /\ ~(i < RecPerPage)
  BY GnssTraceAssumption DEF Slots
<1>5. \A i \in I : g[i] \in Records
  BY <1>2, <1>3, <1>4
<1>6. \A i, j \in I : i < j => g[i] < g[j]
  <2> SUFFICES ASSUME NEW i \in I, NEW j \in I, i < j PROVE g[i] < g[j]
    OBVIOUS
  <2>1. CASE j < RecPerPage
    <3>1. i < RecPerPage /\ i \in Slots /\ j \in Slots
      BY <2>1, GnssTraceAssumption DEF Slots
    <3>2. QED
      BY <2>1, <3>1, <1>2
  <2>2. CASE i < RecPerPage /\ ~(j < RecPerPage)
    BY <2>2, <1>2, <1>3, <1>4 DEF OldestFirst
  <2>3. CASE ~(i < RecPerPage)
    <3>1. ~(j < RecPerPage) /\ i - RecPerPage < j - RecPerPage
      BY <2>3, GnssTraceAssumption
    <3>2. QED
      BY <2>3, <3>1, <1>3, <1>4
  <2>4. QED
    BY <2>1, <2>2, <2>3
<1>7. Stored = {g[i] : i \in I}
  <2>1. ASSUME NEW r \in Stored PROVE \E i \in I : g[i] = r
    <3>1. PICK pp \in Pages, s \in Slots : flash[pp][s] = r
      BY DEF Stored
    <3>2. CASE pp = p
      <4>1. s \in I /\ s < RecPerPage
        BY GnssTraceAssumption DEF Slots
      <4>2. QED
        BY <3>1, <3>2, <4>1
    <3>3. CASE pp = q
      <4>1. s < k
        BY <3>1, <3>3, <1>3, <2>1 DEF Stored
      <4>2. /\ RecPerPage + s \in I /\ ~(RecPerPage + s < RecPerPage)
            /\ (RecPerPage + s) - RecPerPage = s
        BY <4>1, GnssTraceAssumption DEF Slots
      <4>3. QED
        BY <3>1, <3>3, <4>2
    <3>4. QED
      BY <1>1, <3>2, <3>3
  <2>2. ASSUME NEW i \in I PROVE g[i] \in Stored
    BY <1>4, <1>5 DEF Stored
  <2>3. QED
    BY <2>1, <2>2
<1>8. g \in [I -> Records]
  BY <1>5
<1>9. QED
  BY ONLY <1>6, <1>7, <1>8 DEF Listing

(* Where gtrace_init has placed the trace its count is the length of the    *)
(* listing; and gtrace_get_record reads the listing, except from a page 0   *)
(* that has just been filled and from the misplaced state.                  *)
LEMMA PlacedListing ==
  ASSUME PageCount = 2, IInv, Placed, \A p \in Pages : ~HasInvalid(p)
  PROVE  \E g : /\ Listing(g, written_records)
                /\ /\ FirstLap
                   /\ current_page = 1 \/ current_index < RecPerPage
                   => \A i \in 0 .. written_records - 1 : SlotRead(i) = g[i]
<1> DEFINE w == written_records
           Two(p, q) == [i \in 0 .. w - 1 |->
                           IF i < RecPerPage THEN flash[p][i]
                                             ELSE flash[q][i - RecPerPage]]
<1>1. /\ Pages = {0, 1} /\ NextPage(0) = 1 /\ NextPage(1) = 0
      /\ current_index \in 0 .. RecPerPage
      /\ RecPerPage \in 0 .. RecPerPage
  BY TwoPages, GnssTraceAssumption DEF IInv, TypeOK
<1>2. ASSUME NEW i \in Nat, i < RecPerPage + RecPerPage
      PROVE  /\ i < RecPerPage => i % RecPerPage = i
             /\ ~(i < RecPerPage) => i % RecPerPage = i - RecPerPage
  <2>1. CASE i < RecPerPage
    BY <2>1, IndexOnPage, GnssTraceAssumption DEF Slots
  <2>2. CASE ~(i < RecPerPage)
    <3>1. /\ i - RecPerPage \in Slots
          /\ RecPerPage + (i - RecPerPage) = i
      BY <1>2, <2>2, GnssTraceAssumption DEF Slots
    <3>2. QED
      BY <2>2, <3>1, IndexOnPage
  <2>3. QED
    BY <2>1, <2>2
<1>3. ASSUME NEW p \in Pages, NEW q \in Pages, p # q, NEW k \in 0 .. RecPerPage,
             current_page = q, w = RecPerPage + k, NEW i \in 0 .. w - 1
      PROVE  SlotRead(i) = Two(p, q)[i]
  <2>1. NextPage(q) = p
    BY <1>1, <1>3
  <2>2. /\ w >= RecPerPage /\ i \in Nat /\ i < RecPerPage + RecPerPage
        /\ i \in 0 .. RecPerPage + k - 1
    BY <1>3, GnssTraceAssumption
  <2>3. CASE i < RecPerPage
    BY <1>2, <1>3, <2>1, <2>2, <2>3 DEF SlotRead
  <2>4. CASE ~(i < RecPerPage)
    BY <1>2, <1>3, <2>1, <2>2, <2>4 DEF SlotRead
  <2>5. QED
    BY <2>3, <2>4
<1>4. CASE /\ current_page = 0 /\ Starting(current_index) /\ w = current_index
  <2> DEFINE g == [i \in 0 .. current_index - 1 |-> flash[0][i]]
  <2>1. Listing(g, w)
    BY <1>1, <1>4, OnePageListed
  <2>2. ASSUME current_index < RecPerPage, NEW i \in 0 .. w - 1
        PROVE  SlotRead(i) = g[i]
    <3>1. i \in Nat /\ i < RecPerPage /\ ~(w >= RecPerPage)
      BY <1>1, <1>4, <2>2, GnssTraceAssumption
    <3>2. SlotRead(i) = flash[0][i % RecPerPage]
      BY <1>4, <3>1 DEF SlotRead
    <3>3. QED
      BY <1>2, <1>4, <3>1, <3>2, GnssTraceAssumption
  <2> HIDE DEF g
  <2>3. QED
    BY <1>4, <2>1, <2>2
<1>5. CASE /\ current_page = 1 /\ Following(current_index)
           /\ w = RecPerPage + current_index
  <2>1. Listing(Two(0, 1), w)
    BY <1>1, <1>5, TwoPagesListed DEF Following
  <2>2. \A i \in 0 .. w - 1 : SlotRead(i) = Two(0, 1)[i]
    BY <1>1, <1>3, <1>5, 0 # 1
  <2>3. QED
    BY <2>1, <2>2
<1>6. CASE /\ current_page = 0 /\ Wrapped(current_index)
           /\ w = RecPerPage + current_index
  <2>1. Listing(Two(1, 0), w)
    BY <1>1, <1>6, TwoPagesListed DEF Wrapped
  <2>2. \A i \in 0 .. w - 1 : SlotRead(i) = Two(1, 0)[i]
    BY <1>1, <1>3, <1>6
  <2>3. QED
    BY <2>1, <2>2
<1>7. CASE current_page = 1 /\ Wrapped(RecPerPage) /\ w = 2 * RecPerPage
  <2>1. w = RecPerPage + RecPerPage
    BY <1>7, GnssTraceAssumption
  <2>2. Listing(Two(1, 0), w)
    BY <1>1, <1>7, <2>1, TwoPagesListed DEF Wrapped
  <2>3. ~FirstLap
    <3>1. 2 * RecPerPage + RecPerPage < next_record
      BY <1>1, <1>7 DEF Wrapped, Saved
    <3>2. QED
      BY <3>1, GnssTraceAssumption DEF FirstLap, IInv, TypeOK
  <2>4. QED
    BY <2>2, <2>3
<1>8. QED
  BY <1>4, <1>5, <1>6, <1>7 DEF Placed

(* gtrace_get_record_count is the number of records the trace holds, after *)
(* any reset, torn write and page switch.                                  *)
THEOREM CountHolds == PageCount = 2 /\ Spec => []CountMatches
<1> SUFFICES ASSUME PageCount = 2 PROVE Spec => []CountMatches
  OBVIOUS
<1>1. ASSUME IInv, LapInv, mode = "ready", erases = 0
      PROVE  written_records = Cardinality(Stored)
  <2>1. Placed /\ (\A p \in Pages : ~HasInvalid(p)) /\ written_records \in Nat
    BY <1>1 DEF LapInv, IInv, CursorInv, TypeOK
  <2>2. PICK g : Listing(g, written_records)
    BY <1>1, <2>1, PlacedListing
  <2>3. PICK w \in Nat : w = written_records
    BY <2>1
  <2>4. QED
    BY <2>2, <2>3, ListingCounts
<1>2. IInv /\ LapInv => CountMatches
  BY <1>1 DEF CountMatches
<1>3. QED
  BY <1>2, InvariantHolds, LapHolds, PTL

(* In the first lap gtrace_get_record answers every index below the count, *)
(* with each stored record once, oldest first.                             *)
THEOREM PrintHolds == PageCount = 2 /\ Spec => []FirstLapPrintInOrder
<1> SUFFICES ASSUME PageCount = 2 PROVE Spec => []FirstLapPrintInOrder
  OBVIOUS
<1>1. ASSUME IInv, LapInv, FirstLap, mode = "ready", current_index < RecPerPage
      PROVE  /\ \A i \in 0 .. written_records - 1 : GetOK(i)
             /\ \A i, j \in 0 .. written_records - 1 :
                  i < j => SlotRead(i) < SlotRead(j)
             /\ Stored = {SlotRead(i) : i \in 0 .. written_records - 1}
  <2>1. /\ Placed /\ \A p \in Pages : ~HasInvalid(p)
        /\ written_records \in Nat
    BY <1>1 DEF LapInv, FirstLap, IInv, CursorInv, TypeOK
  <2>2. PICK g : /\ Listing(g, written_records)
                 /\ \A i \in 0 .. written_records - 1 : SlotRead(i) = g[i]
    BY <1>1, <2>1, PlacedListing
  <2>3. \A i \in 0 .. written_records - 1 :
          i <= written_records /\ SlotRead(i) \in Records
    BY <2>1, <2>2 DEF Listing
  <2>4. QED
    BY <2>2, <2>3 DEF Listing, GetOK
<1>2. IInv /\ LapInv => FirstLapPrintInOrder
  BY <1>1 DEF FirstLapPrintInOrder
<1>3. QED
  BY <1>2, InvariantHolds, LapHolds, PTL
(* In the first lap the coordinates gtrace_load falls back on are those of *)
(* the newest record, whatever was torn or reset.                          *)
THEOREM FallbackHolds == PageCount = 2 /\ Spec => FirstLapFallback
<1> SUFFICES ASSUME PageCount = 2 PROVE Spec => FirstLapFallback
  OBVIOUS
<1>1. ASSUME IInv, LapInv, [Next]_vars, FirstLap, mode = "load",
             mode' = "ready", Stored # {}
      PROVE  fallback' \in Stored /\ \A r \in Stored : r <= fallback'
  <2>1. LoadLatest
    BY <1>1 DEF Next, vars, InitBegin, InitCheckPage, AddSwitchPage, AddWrite,
       CanWrite, EraseBegin, ErasePage, Reset, ResetInWrite, Forget
  <2>2. /\ Placed /\ \A p \in Pages : ~HasInvalid(p)
        /\ current_page = 1 \/ current_index < RecPerPage
        /\ written_records \in Nat
    BY <1>1 DEF LapInv, FirstLap, IInv, CursorInv, TypeOK
  <2>3. PICK w \in Nat : w = written_records
    BY <2>2
  <2>4. PICK g : /\ Listing(g, w)
                 /\ \A i \in 0 .. w - 1 : SlotRead(i) = g[i]
    BY <1>1, <2>2, <2>3, PlacedListing
  <2>5. w > 0
    BY <1>1, <2>4, ListingCounts
  <2>6. fallback' = g[w - 1]
    BY <2>1, <2>3, <2>4, <2>5 DEF LoadLatest
  <2>7. QED
    BY <2>4, <2>5, <2>6, ListingCounts
<1>2. IInv /\ LapInv /\ [Next]_vars => [FirstLap => LoadsNewest]_vars
  BY <1>1 DEF LoadsNewest
<1>3. QED
  BY <1>2, InvariantHolds, LapHolds, PTL DEF Spec, FirstLapFallback

(* In the first lap a page switch only ever drops records that are older *)
(* than all those it keeps.                                              *)
THEOREM EvictHolds == PageCount = 2 /\ Spec => FirstLapEvictsOldest
<1> SUFFICES ASSUME PageCount = 2 PROVE Spec => FirstLapEvictsOldest
  OBVIOUS
<1>1. ASSUME IInv, LapInv, [Next]_vars, FirstLap, mode = "ready",
             mode' = "switched",
             NEW lost \in Stored \ Stored', NEW kept \in Stored'
      PROVE  lost < kept
  <2>1. AddSwitchPage
    BY <1>1 DEF Next, vars, InitBegin, InitCheckPage, LoadLatest, AddWrite,
       EraseBegin, ErasePage, Reset, ResetInWrite, Forget
  <2>2. /\ current_index = RecPerPage /\ FlashErase(NextPage(current_page))
        /\ next_record' = next_record
    BY <1>1, <2>1, GnssTraceAssumption DEF AddSwitchPage, IInv, TypeOK
  <2>3. Pages = {0, 1} /\ NextPage(0) = 1 /\ NextPage(1) = 0
    BY TwoPages
  <2>4. PICK q \in Pages, p \in Pages :
          p # q /\ q = NextPage(current_page) /\ p = current_page
    BY <1>1, <2>3 DEF IInv, TypeOK
  <2>5. flash'[p] = flash[p] /\ Prefix(q, 0)'
    BY <1>1, <2>2, <2>4, ErasePreservesFlash DEF IInv
  <2>6. \A s \in Slots : flash'[q][s] \notin Records
    BY <2>5, GnssTraceAssumption DEF Prefix, Slots, Records
  <2>7. PICK t \in Slots : flash[p][t] = kept /\ kept \in Records
    BY <2>3, <2>4, <2>5, <2>6 DEF Stored
  <2>8. PICK s \in Slots : flash[q][s] = lost /\ lost \in Records
    BY <2>3, <2>4, <2>5 DEF Stored
  <2>9. Placed /\ \A pp \in Pages : ~HasInvalid(pp)
    BY <1>1 DEF LapInv, FirstLap, IInv, CursorInv
  <2>10. ~(current_page = 0 /\ Starting(RecPerPage))
    BY <2>3, <2>4, <2>8, GnssTraceAssumption
       DEF Starting, Prefix, Slots, Records
  <2>11. ~(current_page = 1 /\ Wrapped(RecPerPage))
    <3> SUFFICES ASSUME Wrapped(RecPerPage) PROVE FALSE
      OBVIOUS
    <3>1. 2 * RecPerPage + RecPerPage < next_record
      BY <2>3, <2>9 DEF Wrapped, Saved
    <3>2. QED
      BY <1>1, <3>1, GnssTraceAssumption DEF FirstLap, IInv, TypeOK
  <2>12. OldestFirst(q, p)
    BY <2>2, <2>3, <2>4, <2>9, <2>10, <2>11 DEF Placed, Following, Wrapped
  <2>13. QED
    BY <2>7, <2>8, <2>12 DEF OldestFirst
<1>2. IInv /\ LapInv /\ [Next]_vars
        => [FirstLap /\ mode = "ready" /\ mode' = "switched" =>
              \A lost \in Stored \ Stored', kept \in Stored' : lost < kept]_vars
  BY <1>1
<1>3. QED
  BY <1>2, InvariantHolds, LapHolds, PTL DEF Spec, FirstLapEvictsOldest
=============================================================================
