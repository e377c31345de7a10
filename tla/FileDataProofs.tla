--------------------------- MODULE FileDataProofs ---------------------------
(***************************************************************************)
(* Proofs about FileData, for files and pages of any size, any sequence of *)
(* operations and any number of failures: nothing written is lost, unless  *)
(* one of the named things has happened to the file.  Between operations   *)
(* ValidDataLength, FileSize and the lower file's size are one (WriteInv), *)
(* so that a write that makes the file grow is the only time at which the  *)
(* lazy writer or a read can meet less than the file; what is in the cache *)
(* is what the file is to hold, and what is not to be written any more is  *)
(* on the disk (ContentsInv).                                              *)
(***************************************************************************)
EXTENDS FileData, WellFoundedInduction, TLAPS

-----------------------------------------------------------------------------
(* The data of a file: pages, units and sizes. *)

\* Division by the size of a page.
LEMMA Divided ==
  ASSUME NEW a \in Nat
  PROVE  a \div Page \in Nat /\ (a \div Page) * Page <= a /\ a < (a \div Page + 1) * Page
BY DataAssumption

LEMMA PagesUpTo ==
  ASSUME NEW a \in Nat, NEW b \in Nat
  PROVE  /\ a <= b => a * Page <= b * Page
         /\ a * Page < b * Page => a < b
         /\ a * Page \in Nat
BY DataAssumption

LEMMA WholePages == N = (N \div Page) * Page /\ N \div Page \in Nat /\ Page <= N
<1>1. (N \div Page) * Page = N /\ N \div Page \in Nat
  BY DataAssumption
<1> QED
  BY <1>1, DataAssumption

\* The page of a unit.
LEMMA UnitPage ==
  ASSUME NEW u \in Units
  PROVE  /\ u \in Nat /\ u < N /\ PageOf(u) \in Pages /\ PageOf(u) \in Nat
         /\ PageOf(u) * Page <= u /\ u < (PageOf(u) + 1) * Page
<1>1. u \in Nat /\ u < N
  BY DataAssumption DEF Units
<1>2. PageOf(u) \in Nat /\ PageOf(u) * Page <= u /\ u < (PageOf(u) + 1) * Page
  BY <1>1, Divided DEF PageOf
<1>3. PageOf(u) * Page < (N \div Page) * Page
  BY <1>1, <1>2, WholePages, PagesUpTo
<1>4. PageOf(u) < N \div Page
  BY <1>2, <1>3, WholePages, PagesUpTo
<1> QED
  BY <1>1, <1>2, <1>4, WholePages DEF Pages

LEMMA PagesOfUnits == ASSUME NEW us \in SUBSET Units PROVE PagesOf(us) \subseteq Pages
BY UnitPage DEF PagesOf

LEMMA SpanUnits == ASSUME NEW a, NEW b PROVE Span(a, b) \in SUBSET Units
BY DEF Span

\* A run of pages holds the units from the first one's first to the last one's last.
LEMMA RunUnits ==
  ASSUME NEW a \in Nat, NEW b \in Nat, NEW u \in Units
  PROVE  PageOf(u) \in a .. b <=> (a * Page <= u /\ u < (b + 1) * Page)
<1>1. /\ u \in Nat /\ PageOf(u) \in Nat
      /\ PageOf(u) * Page <= u /\ u < (PageOf(u) + 1) * Page
  BY UnitPage
<1>2. ASSUME a <= PageOf(u), PageOf(u) <= b PROVE a * Page <= u /\ u < (b + 1) * Page
  <2>1. a * Page <= PageOf(u) * Page /\ (PageOf(u) + 1) * Page <= (b + 1) * Page
    BY <1>1, <1>2, PagesUpTo
  <2>2. a * Page \in Nat /\ PageOf(u) * Page \in Nat /\ (PageOf(u) + 1) * Page \in Nat /\ (b + 1) * Page \in Nat
    BY <1>1, PagesUpTo
  <2> QED
    BY ONLY <1>1, <2>1, <2>2
<1>3. ASSUME a * Page <= u, u < (b + 1) * Page PROVE a <= PageOf(u) /\ PageOf(u) <= b
  <2>0. a * Page \in Nat /\ PageOf(u) * Page \in Nat /\ (PageOf(u) + 1) * Page \in Nat /\ (b + 1) * Page \in Nat
    BY <1>1, PagesUpTo
  <2>1. a * Page < (PageOf(u) + 1) * Page /\ PageOf(u) * Page < (b + 1) * Page
    BY ONLY <1>1, <1>3, <2>0
  <2>2. a < PageOf(u) + 1 /\ PageOf(u) < b + 1
    BY <1>1, <2>1, PagesUpTo
  <2> QED
    BY <1>1, <2>2
<1> QED
  BY <1>1, <1>2, <1>3

LEMMA RunEnds ==
  ASSUME NEW a \in Int, NEW b \in Int, a <= b
  PROVE  Min(a .. b) = a /\ Max(a .. b) = b
BY DEF Min, Max

LEMMA Rounded == ASSUME NEW x \in 0 .. N PROVE RoundUp(x) \in 0 .. N /\ x <= RoundUp(x)
<1>1. x \in Nat /\ x <= N /\ Page \in Nat /\ Page > 0
  BY DataAssumption
<1>2. x + Page - 1 \in Nat
  BY <1>1
<1> DEFINE q == (x + Page - 1) \div Page
<1>3. q \in Nat /\ q * Page <= x + Page - 1 /\ x + Page - 1 < (q + 1) * Page
  BY <1>2, Divided
<1>4. (q + 1) * Page = q * Page + Page /\ q * Page \in Nat
  BY <1>1, <1>3
<1>5. x <= q * Page
  BY <1>1, <1>3, <1>4
<1>6. q * Page <= N
  <2>1. q * Page < (N \div Page + 1) * Page
    BY <1>1, <1>3, <1>4, WholePages
  <2>2. q < N \div Page + 1
    BY <1>3, <2>1, WholePages, PagesUpTo
  <2>3. q * Page <= (N \div Page) * Page
    BY <1>3, <2>2, WholePages, PagesUpTo
  <2> QED
    BY <2>3, WholePages
<1> QED
  BY <1>4, <1>5, <1>6 DEF RoundUp

\* A set of units has a last one.
LEMMA LastUnit ==
  ASSUME NEW us \in SUBSET Units, us # {}
  PROVE  Max(us) \in us
<1> DEFINE T == {N - u : u \in us}
<1>1. T \subseteq Nat /\ T # {}
  BY UnitPage, DataAssumption
<1>2. \E x \in T : \A y \in T : ~(<<y, x>> \in OpToRel(<, Nat))
  BY <1>1, NatLessThanWellFounded, WFMin, Zenon
<1>3. PICK x \in T : \A y \in T : ~(<<y, x>> \in OpToRel(<, Nat))
  BY <1>2
<1>4. \A y \in T : x <= y
  <2> SUFFICES ASSUME NEW y \in T PROVE x <= y
    OBVIOUS
  <2>1. <<y, x>> \notin {xy \in Nat \X Nat : xy[1] < xy[2]}
    BY <1>3, Zenon DEF OpToRel
  <2> QED
    BY <1>1, <2>1
<1>5. PICK u \in us : x = N - u
  OBVIOUS
<1>6. ASSUME NEW w \in us PROVE u >= w
  <2>1. N - u <= N - w
    BY <1>4, <1>5
  <2>2. u \in Nat /\ w \in Nat /\ N \in Nat
    BY UnitPage, DataAssumption
  <2> QED
    BY ONLY <2>1, <2>2
<1>7. \E w \in us : \A y \in us : w >= y
  BY <1>6
<1> QED
  BY <1>7 DEF Max
-----------------------------------------------------------------------------
(* The steps. *)

LEMMA Typed ==
  ASSUME DataTypeOK
  PROVE  /\ fs \in Nat /\ vdl \in Nat /\ alloc \in Nat /\ size \in Nat /\ lowerEof \in Nat
         /\ fs <= N /\ vdl <= N /\ alloc <= N /\ size <= N /\ lowerEof <= N
         /\ N \in Nat /\ MaxOps \in Nat
         /\ io.off \in Nat /\ io.end \in Nat /\ io.end <= N /\ io.value \in 0 .. MaxOps /\ io.grown \in BOOLEAN
         /\ io.step \in {"none", "zero", "copy", "write", "zeroAfter", "finish"}
         /\ io.kind \in {"idle", "cached", "direct"}
         /\ disk \in [Units -> 0 .. Garbage] /\ cache \in [Units -> 0 .. Absent]
         /\ text \in [Units -> 0 .. MaxOps] /\ dirty \subseteq Pages
BY DataAssumption DEF DataTypeOK

\* What a step of an open file has to keep.
LEMMA Kept ==
  ASSUME DataInv, open, open' = open, wrong' = wrong, spoilers \subseteq spoilers',
         DataTypeOK', PagesWhole', SizesInv',
         Spoilt' = {} => WriteInv' /\ ContentsInv'
  PROVE  DataInv'
<1>1. ReadsExplained' /\ CleanupComplete'
  BY DEF DataInv, ReadsExplained, CleanupComplete, Spoilt
<1> QED
  BY <1>1 DEF DataInv

\* Nothing bad has happened before when nothing has by then.
LEMMA Unspoilt ==
  ASSUME DataInv, open, spoilers \subseteq spoilers', Spoilt' = {}
  PROVE  Spoilt = {} /\ WriteInv /\ ContentsInv
BY DEF DataInv, Spoilt

\* The lazy writer.
LEMMA LazyWritesKeep == ASSUME DataInv, LazyWrites PROVE DataInv'
<1>0. PICK a, b \in Pages : /\ a <= b /\ a .. b \subseteq dirty
                            /\ WritePagingIO(a .. b)
                            /\ dirty' = dirty \ (a .. b)
  BY DEF LazyWrites
<1>1. /\ open /\ open' = open /\ wrong' = wrong /\ cache' = cache /\ fs' = fs /\ alloc' = alloc
      /\ text' = text /\ size' = size /\ io' = io /\ used' = used /\ fails' = fails
  BY DEF LazyWrites, owed
<1>2. DataTypeOK /\ PagesWhole /\ SizesInv
  BY DEF DataInv
<1>3. a \in Nat /\ b \in Nat /\ Min(a .. b) = a /\ Max(a .. b) = b
  BY <1>0, WholePages, RunEnds DEF Pages
<1> DEFINE first == a * Page
           end == Smaller((b + 1) * Page, fs)
<1>4. first \in Nat /\ (b + 1) * Page \in Nat /\ end \in Nat /\ end <= fs
  <2>1. first \in Nat /\ (b + 1) * Page \in Nat
    BY <1>3, PagesUpTo
  <2>2. fs \in Nat
    BY <1>2, Typed
  <2> QED
    BY ONLY <2>1, <2>2 DEF Smaller
<1>5. \A u \in Units : u < fs /\ PageOf(u) \in a .. b => first <= u /\ u < end
  BY <1>2, <1>3, RunUnits, Typed, UnitPage DEF Smaller
<1>6. \A u \in Units : first <= u /\ u < end => PageOf(u) \in a .. b
  BY <1>2, <1>3, <1>4, RunUnits, Typed, UnitPage DEF Smaller
<1>7. PagesWhole'
  BY <1>0, <1>1, <1>2 DEF PagesWhole
<1>8. dirty' \subseteq Pages
  BY <1>0, <1>2, Typed
<1>9. CASE first >= fs
  <2>1. /\ disk' = disk /\ lowerEof' = lowerEof /\ vdl' = vdl /\ spoilers' = spoilers
    BY <1>0, <1>3, <1>9 DEF WritePagingIO, lower
  <2>2. DataTypeOK'
    BY <1>1, <1>2, <1>8, <2>1 DEF DataTypeOK
  <2>3. SizesInv'
    BY <1>1, <1>2, <2>1 DEF SizesInv
  <2>4. ASSUME Spoilt' = {} PROVE WriteInv' /\ ContentsInv'
    <3>1. WriteInv /\ ContentsInv
      BY <1>1, <2>1, <2>4, Unspoilt
    <3>2. WriteInv'
      BY <1>1, <2>1, <3>1 DEF WriteInv
    <3>3. \A u \in Units : Target(u)' = Target(u)
      BY <1>1 DEF Target, Span
    <3>4. \A u \in Units : u < fs => PageOf(u) \notin a .. b
      BY <1>2, <1>4, <1>5, <1>9, Typed, UnitPage
    <3> QED
      BY <1>0, <1>1, <2>1, <3>1, <3>2, <3>3, <3>4 DEF ContentsInv
  <2> QED
    BY <1>1, <1>7, <2>1, <2>2, <2>3, <2>4, Kept
<1>10. CASE first < fs
  <2>1. /\ disk' = PagingWritten(first, end) /\ lowerEof' = Larger(lowerEof, end)
        /\ vdl' = IF vdl < fs THEN Larger(vdl, end) ELSE vdl
        /\ spoilers' = spoilers \cup (IF vdl < fs /\ first < vdl /\ vdl < end THEN {"torn"} ELSE {})
    BY <1>0, <1>2, <1>3, <1>4, <1>10, Typed DEF WritePagingIO
  <2>2. lowerEof' \in 0 .. N /\ vdl' \in 0 .. N
    BY <1>2, <1>4, <2>1, Typed DEF Larger
  <2>3. ASSUME NEW u \in Units PROVE disk'[u] \in 0 .. Garbage
    <3>1. u \in Span(first, end) => cache[u] \in 0 .. Garbage
      <4>1. u \in Span(first, end) => PageOf(u) \in dirty
        BY <1>0, <1>6 DEF Span
      <4> QED
        BY <1>2, <4>1, Typed DEF PagesWhole, Absent, Garbage
    <3> QED
      BY <1>2, <2>1, <3>1, Typed DEF PagingWritten, Garbage
  <2>4. disk' \in [Units -> 0 .. Garbage]
    BY <2>1, <2>3 DEF PagingWritten
  <2>5. DataTypeOK'
    BY <1>1, <1>2, <1>8, <2>1, <2>2, <2>4 DEF DataTypeOK, AllCauses
  <2>6. SizesInv'
    BY <1>1, <1>2, <1>4, <2>1, Typed DEF SizesInv, Larger
  <2>7. ASSUME Spoilt' = {} PROVE WriteInv' /\ ContentsInv'
    <3>1. WriteInv /\ ContentsInv
      BY <1>1, <2>1, <2>7, Unspoilt
    <3>2. ~(vdl < fs /\ first < vdl /\ vdl < end) /\ spoilers' = spoilers
      BY <2>1, <2>7 DEF Spoilt
    <3>3. lowerEof' = lowerEof
      BY <1>2, <1>4, <2>1, <3>1, Typed DEF WriteInv, Larger
    <3>4. WriteInv'
      BY <1>1, <1>2, <1>4, <2>1, <3>1, <3>2, <3>3, Typed DEF WriteInv
    <3>5. \A u \in Units : Target(u)' = Target(u)
      BY <1>1 DEF Target, Span
    <3>6. \A u \in Units : disk'[u] = IF u \in Span(first, end) THEN cache[u] ELSE disk[u]
      BY <1>2, <1>4, <2>1, <3>2, Typed, UnitPage DEF PagingWritten, Span
    <3>7. \A u \in Units : u \in Span(first, end) => cache[u] # Absent
      BY <1>0, <1>2, <1>6 DEF PagesWhole, Span
    <3>8. \A u \in Units : u >= vdl' => u >= vdl
      BY <1>2, <1>4, <2>1, Typed, UnitPage DEF Larger
    <3>9. \A u \in Units : u < fs /\ PageOf(u) \notin dirty' => PageOf(u) \notin dirty \/ u \in Span(first, end)
      BY <1>0, <1>5 DEF Span
    <3> QED
      BY <1>1, <3>1, <3>4, <3>5, <3>6, <3>7, <3>8, <3>9 DEF ContentsInv
  <2> QED
    BY <1>1, <1>7, <2>1, <2>5, <2>6, <2>7, Kept
<1> QED
  BY <1>2, <1>4, <1>9, <1>10, Typed
\* A page leaves the cache.
LEMMA EvictKeeps == ASSUME DataInv, Evict PROVE DataInv'
<1>0. PICK p \in Pages \ dirty :
          cache' = [u \in Units |-> IF PageOf(u) = p THEN Absent ELSE cache[u]]
  BY DEF Evict
<1>1. /\ open /\ open' = open /\ wrong' = wrong /\ disk' = disk /\ lowerEof' = lowerEof /\ dirty' = dirty
      /\ fs' = fs /\ vdl' = vdl /\ alloc' = alloc /\ text' = text /\ size' = size /\ io' = io
      /\ used' = used /\ fails' = fails /\ spoilers' = spoilers
  BY DEF Evict, lower, sizes, owed
<1>2. DataTypeOK /\ PagesWhole /\ SizesInv
  BY DEF DataInv
<1>3. cache' \in [Units -> 0 .. Absent]
  BY <1>0, <1>2, Typed DEF Absent
<1>4. DataTypeOK'
  BY <1>1, <1>2, <1>3 DEF DataTypeOK
<1>5. PagesWhole'
  BY <1>0, <1>1, <1>2 DEF PagesWhole
<1>6. SizesInv'
  BY <1>1, <1>2 DEF SizesInv
<1>7. ASSUME Spoilt' = {} PROVE WriteInv' /\ ContentsInv'
  <2>1. WriteInv /\ ContentsInv
    BY <1>1, <1>7, Unspoilt
  <2>2. \A u \in Units : Target(u)' = Target(u)
    BY <1>1 DEF Target, Span
  <2> QED
    BY <1>0, <1>1, <2>1, <2>2 DEF WriteInv, ContentsInv
<1> QED
  BY <1>1, <1>4, <1>5, <1>6, <1>7, Kept

\* What a growing write does to the sizes.
LEMMA Grown ==
  ASSUME DataTypeOK, NEW off \in Units, NEW end \in 1 .. N, off < end, Grow(off, end)
  PROVE  /\ fs' \in 0 .. N /\ alloc' \in 0 .. N /\ lowerEof' \in 0 .. N
         /\ disk' \in [Units -> 0 .. Garbage]
         /\ fs <= fs' /\ end <= fs' /\ (fs <= alloc => fs' <= alloc')
         /\ end <= fs => fs' = fs /\ lowerEof' = lowerEof /\ disk' = disk
         /\ end > fs => fs' = end
         /\ end > fs /\ vdl = fs /\ lowerEof = fs =>
               lowerEof' = fs' /\ disk' = [u \in Units |-> IF u >= fs THEN 0 ELSE disk[u]]
<1>1. CASE end <= fs
  BY <1>1, Typed DEF Grow, lower, DataTypeOK
<1>2. CASE end > fs
  <2>1. RoundUp(end) \in 0 .. N /\ end <= RoundUp(end)
    BY Rounded, DataAssumption
  <2>2. fs' = end /\ alloc' = RoundUp(end)
    BY <1>2, Typed DEF Grow
  <2>3. SetLowerEof(IF vdl < fs /\ off < vdl THEN RoundUp(end) ELSE end)
    BY <1>2, Typed DEF Grow
  <2>4. lowerEof' \in 0 .. N
    BY <2>1, <2>3, Typed DEF SetLowerEof
  <2>5. disk' \in [Units -> 0 .. Garbage]
    BY <2>3, Typed DEF SetLowerEof, Garbage
  <2>6. ASSUME vdl = fs, lowerEof = fs
        PROVE  lowerEof' = fs' /\ disk' = [u \in Units |-> IF u >= fs THEN 0 ELSE disk[u]]
    <3>1. SetLowerEof(end) /\ Smaller(end, lowerEof) = fs
      BY <1>2, <2>3, <2>6, Typed DEF Smaller
    <3> QED
      BY <2>2, <2>6, <3>1 DEF SetLowerEof
  <2> QED
    BY <1>2, <2>1, <2>2, <2>4, <2>5, <2>6, Typed
<1> QED
  BY <1>1, <1>2, Typed

\* What the start of a write does when nothing bad has happened.
LEMMA StartedWrite ==
  ASSUME DataInv, open, NEW off \in Units, NEW end \in 1 .. N, off < end, Grow(off, end), io = Idle,
         spoilers' = spoilers \cup Regrown(end), Spoilt' = {}, size' = size, text' = text, cache' = cache, dirty' = dirty,
         io'.off = off, io'.end = end, io'.grown = (end > fs), io'.step \in {"zero", "copy", "write"},
         vdl' = vdl \/ (vdl' = end /\ end > fs)
  PROVE  WriteInv' /\ ContentsInv'
<1>0. DataTypeOK /\ WriteInv /\ ContentsInv
  BY Unspoilt DEF DataInv
<1>1. vdl = fs /\ size = fs /\ fs <= lowerEof /\ (spoilers = {} => lowerEof = fs)
  BY <1>0 DEF WriteInv
<1>2. spoilers' = spoilers /\ ~(end > fs /\ lowerEof > fs)
  BY DEF Regrown, Spoilt
<1>3. /\ fs' \in Nat /\ end \in Nat /\ off \in Nat
      /\ end <= fs => fs' = fs /\ lowerEof' = lowerEof /\ disk' = disk
      /\ end > fs => fs' = end
      /\ end > fs => lowerEof' = fs' /\ disk' = [u \in Units |-> IF u >= fs THEN 0 ELSE disk[u]]
  BY <1>0, <1>1, <1>2, Grown, Typed, UnitPage
<1>4. io' # Idle
  BY DEF Idle
<1>5. WriteInv'
  <2>1. size' <= fs' /\ fs' <= lowerEof' /\ (spoilers' = {} => lowerEof' = fs')
    BY <1>0, <1>1, <1>2, <1>3, Typed
  <2>2. io'.off < io'.end /\ io'.step # "zeroAfter"
    OBVIOUS
  <2>3. CASE end > fs
    <3>1. io'.grown /\ io'.end = fs'
      BY <1>3, <2>3
    <3> QED
      BY ONLY <1>4, <2>1, <2>2, <3>1 DEF WriteInv
  <2>4. CASE end <= fs
    <3>0. fs \in Nat /\ end \in Nat
      BY <1>0, <1>3, Typed
    <3>1. fs' = fs /\ vdl' = vdl /\ ~io'.grown
      <4>1. ~(end > fs)
        BY ONLY <2>4, <3>0
      <4> QED
        BY <1>3, <2>4, <4>1
    <3>2. vdl' = fs' /\ size' = fs'
      BY <1>1, <3>1
    <3> QED
      BY ONLY <1>4, <2>1, <2>2, <3>1, <3>2 DEF WriteInv
  <2> QED
    BY <1>0, <1>3, <2>3, <2>4, Typed
<1>6. \A u \in Units : Target(u)' = text[u] /\ Target(u) = text[u]
  BY DEF Target, Idle
<1>7. ContentsInv'
  <2> SUFFICES ASSUME NEW u \in Units
               PROVE  /\ (u >= size \/ u >= vdl') => text[u] = 0
                      /\ cache[u] # Absent => cache[u] = text[u]
                      /\ (u < fs' /\ PageOf(u) \notin dirty) => disk'[u] = text[u]
    BY <1>6 DEF ContentsInv
  <2>0. u \in Nat
    BY UnitPage
  <2>1. /\ (u >= size \/ u >= vdl) => text[u] = 0
        /\ cache[u] # Absent => cache[u] = text[u]
        /\ (u < fs /\ PageOf(u) \notin dirty) => disk[u] = text[u]
    BY <1>0, <1>6 DEF ContentsInv
  <2>2. u >= vdl' => u >= vdl
    BY <1>0, <1>1, <1>3, <2>0, Typed
  <2>3. u < fs' /\ PageOf(u) \notin dirty => disk'[u] = text[u]
    BY <1>0, <1>1, <1>3, <2>0, <2>1, Typed
  <2> QED
    BY <2>1, <2>2, <2>3
<1> QED
  BY <1>5, <1>7

LEMMA StartKept ==
  ASSUME DataInv, open, open' = open, wrong' = wrong, NEW off \in Units, NEW end \in 1 .. N, off < end,
         Grow(off, end), io = Idle, Begin("cachedWrite") \/ Begin("directWrite"),
         spoilers' = spoilers \cup Regrown(end), size' = size, text' = text, cache' = cache, dirty' = dirty,
         fails' = fails, NEW kind \in {"cached", "direct"}, NEW step \in {"zero", "copy", "write"},
         io' = [kind |-> kind, step |-> step, off |-> off, end |-> end, value |-> used', grown |-> end > fs],
         vdl' = vdl \/ (vdl' = end /\ end > fs)
  PROVE  DataInv'
<1>0. DataTypeOK /\ PagesWhole /\ SizesInv
  BY DEF DataInv
<1>1. used' \in 0 .. MaxOps
  BY <1>0, DataAssumption DEF Begin, DataTypeOK
<1>2. io' \in [kind : {"idle", "cached", "direct"}, step : {"none", "zero", "copy", "write", "zeroAfter", "finish"},
               off : 0 .. N, end : 0 .. N, value : 0 .. MaxOps, grown : BOOLEAN]
  <2>1. off \in 0 .. N /\ end \in 0 .. N
    BY UnitPage, DataAssumption
  <2>2. (end > fs) \in BOOLEAN
    OBVIOUS
  <2> QED
    BY <1>1, <2>1, <2>2
<1>3. vdl' \in 0 .. N
  BY <1>0 DEF DataTypeOK
<1>4. spoilers' \subseteq AllCauses
  BY <1>0 DEF DataTypeOK, AllCauses, Regrown
<1>5. DataTypeOK'
  BY <1>0, <1>1, <1>2, <1>3, <1>4, Grown DEF DataTypeOK
<1>6. PagesWhole'
  BY <1>0 DEF PagesWhole
<1>7. SizesInv'
  BY <1>0, Grown, Typed DEF SizesInv, Regrown
<1>8. Spoilt' = {} => WriteInv' /\ ContentsInv'
  BY StartedWrite
<1> QED
  BY <1>5, <1>6, <1>7, <1>8, Kept

LEMMA CachedStartKeeps == ASSUME DataInv, WriteCachedIO_Start PROVE DataInv'
<1>1. PICK off \in Units, end \in 1 .. N :
          /\ off < end /\ Grow(off, end) /\ spoilers' = spoilers \cup Regrown(end)
          /\ vdl' = IF vdl = fs /\ off < vdl /\ end > fs THEN end ELSE vdl
          /\ io' = [kind |-> "cached", step |-> IF off > vdl THEN "zero" ELSE "copy",
                    off |-> off, end |-> end, value |-> used', grown |-> end > fs]
  BY DEF WriteCachedIO_Start
<1>2. /\ open /\ open' = open /\ wrong' = wrong /\ io = Idle /\ Begin("cachedWrite") /\ fails' = fails
      /\ size' = size /\ text' = text /\ cache' = cache /\ dirty' = dirty
  BY DEF WriteCachedIO_Start, Begin, owed
<1>3. (IF off > vdl THEN "zero" ELSE "copy") \in {"zero", "copy", "write"}
  OBVIOUS
<1>4. vdl' = vdl \/ (vdl' = end /\ end > fs)
  BY <1>1
<1> QED
  BY <1>1, <1>2, <1>3, <1>4, StartKept

LEMMA DirectStartKeeps == ASSUME DataInv, WriteNonCachedIO_Start PROVE DataInv'
<1>1. PICK off \in Units, end \in 1 .. N :
          /\ off < end /\ Grow(off, end) /\ spoilers' = spoilers \cup Regrown(end)
          /\ io' = [kind |-> "direct", off |-> off, end |-> end, value |-> used', grown |-> end > fs,
                    step |-> IF off < vdl \/ (off < fs /\ end <= fs) THEN "write" ELSE "zero"]
  BY DEF WriteNonCachedIO_Start
<1>2. /\ open /\ open' = open /\ wrong' = wrong /\ io = Idle /\ Begin("directWrite") /\ fails' = fails
      /\ size' = size /\ text' = text /\ cache' = cache /\ dirty' = dirty /\ vdl' = vdl
  BY DEF WriteNonCachedIO_Start, Begin, owed
<1>3. (IF off < vdl \/ (off < fs /\ end <= fs) THEN "write" ELSE "zero") \in {"zero", "copy", "write"}
  OBVIOUS
<1> QED
  BY <1>1, <1>2, <1>3, StartKept
\* What is faulted in, and what is put over it.
LEMMA FaultedIn ==
  ASSUME DataTypeOK, PagesWhole, NEW us \in SUBSET Units
  PROVE  /\ \A u \in Units : WithPages(PagesOf(us))[u] =
                                 IF PageOf(u) \in PagesOf(us) /\ cache[u] = Absent THEN PagedIn(u) ELSE cache[u]
         /\ \A u \in Units : PagedIn(u) \in 0 .. Garbage
         /\ \A u \in Units : WithPages(PagesOf(us))[u] \in 0 .. Absent
         /\ \A u \in Units : PageOf(u) \in dirty \cup PagesOf(us) => WithPages(PagesOf(us))[u] # Absent
<1>1. \A u \in Units : WithPages(PagesOf(us))[u] =
                           IF PageOf(u) \in PagesOf(us) /\ cache[u] = Absent THEN PagedIn(u) ELSE cache[u]
  BY DEF WithPages
<1>2. \A u \in Units : PagedIn(u) \in 0 .. Garbage
  BY Typed DEF PagedIn, Garbage
<1>3. \A x \in 0 .. Garbage : x \in 0 .. Absent /\ x # Absent
  BY DataAssumption DEF Garbage, Absent
<1>4. \A u \in Units : cache[u] \in 0 .. Absent
  BY Typed
<1> QED
  BY <1>1, <1>2, <1>3, <1>4 DEF PagesWhole

\* What is faulted in is what the file is to hold.
LEMMA FaultedRight ==
  ASSUME DataInv, open, Spoilt = {}, io.step # "finish", NEW us \in SUBSET Units, NEW u \in Units,
         WithPages(PagesOf(us))[u] # Absent
  PROVE  WithPages(PagesOf(us))[u] = text[u]
<1>0. DataTypeOK /\ PagesWhole /\ WriteInv /\ ContentsInv
  BY DEF DataInv
<1>1. Target(u) = text[u]
  BY DEF Target
<1>2. CASE cache[u] = Absent
  <2>1. WithPages(PagesOf(us))[u] = PagedIn(u)
    BY <1>0, <1>2, FaultedIn
  <2>2. PageOf(u) \notin dirty
    BY <1>0, <1>2 DEF PagesWhole
  <2>3. u \in Nat
    BY UnitPage
  <2>4. u < vdl => u < fs /\ u < lowerEof
    <3>1. fs <= lowerEof /\ vdl <= fs
      BY <1>0 DEF WriteInv, DataInv, SizesInv, Spoilt
    <3> QED
      BY <1>0, <2>3, <3>1, Typed
  <2>5. (u < fs => disk[u] = text[u]) /\ (u >= vdl => text[u] = 0)
    BY <1>0, <1>1, <2>2 DEF ContentsInv
  <2>6. vdl \in Nat
    BY <1>0, Typed
  <2> QED
    BY <2>1, <2>3, <2>4, <2>5, <2>6 DEF PagedIn
<1>3. CASE cache[u] # Absent
  BY <1>0, <1>1, <1>3, FaultedIn DEF ContentsInv
<1> QED
  BY <1>2, <1>3
\* Values put over faulted-in pages, which are dirty then.
LEMMA PutOver ==
  ASSUME DataTypeOK, PagesWhole, NEW us \in SUBSET Units, NEW v \in 0 .. MaxOps,
         cache' = [u \in Units |-> IF u \in us THEN v ELSE WithPages(PagesOf(us))[u]],
         dirty' = dirty \cup PagesOf(us), open' = open, (~open => io' = Idle)
  PROVE  cache' \in [Units -> 0 .. Absent] /\ dirty' \subseteq Pages /\ PagesWhole'
<1>1. \A x \in 0 .. MaxOps : x \in 0 .. Absent /\ x # Absent
  BY DataAssumption DEF Absent
<1>2. cache' \in [Units -> 0 .. Absent]
  BY <1>1, FaultedIn
<1>3. dirty' \subseteq Pages
  BY PagesOfUnits, Typed
<1>4. \A u \in Units : PageOf(u) \in dirty' => cache'[u] # Absent
  BY <1>1, FaultedIn
<1> QED
  BY <1>2, <1>3, <1>4 DEF PagesWhole

\* Zeros are put in front of a write: that is all that is there.
LEMMA ZeroKeeps == ASSUME DataInv, SafeCcZeroData PROVE DataInv'
<1> DEFINE us == Span(vdl, io.off - 1)
<1>1. /\ io.step = "zero" /\ Zeroed(us)
      /\ io' = [io EXCEPT !.step = IF io.kind = "cached" THEN "copy" ELSE "write"]
      /\ open' = open /\ wrong' = wrong /\ disk' = disk /\ lowerEof' = lowerEof
      /\ fs' = fs /\ vdl' = vdl /\ alloc' = alloc /\ text' = text /\ size' = size
      /\ used' = used /\ fails' = fails /\ spoilers' = spoilers
  BY DEF SafeCcZeroData, lower, sizes, owed
<1>2. DataTypeOK /\ PagesWhole /\ SizesInv
  BY DEF DataInv
<1>3. io # Idle /\ open
  BY <1>1, <1>2 DEF Idle, PagesWhole
<1>4. us \in SUBSET Units
  BY SpanUnits
<1>5. 0 \in 0 .. MaxOps
  BY DataAssumption
<1>6. cache' \in [Units -> 0 .. Absent] /\ dirty' \subseteq Pages /\ PagesWhole'
  BY <1>1, <1>2, <1>3, <1>4, <1>5, PutOver DEF Zeroed
<1>7. /\ io'.step \in {"copy", "write"} /\ io'.off = io.off /\ io'.end = io.end /\ io'.grown = io.grown
      /\ io' \in [kind : {"idle", "cached", "direct"}, step : {"none", "zero", "copy", "write", "zeroAfter", "finish"},
                  off : 0 .. N, end : 0 .. N, value : 0 .. MaxOps, grown : BOOLEAN]
  BY <1>1, <1>2 DEF DataTypeOK
<1>8. DataTypeOK'
  BY <1>1, <1>2, <1>6, <1>7 DEF DataTypeOK
<1>9. io' # Idle
  BY <1>7 DEF Idle
<1>10. SizesInv'
  BY <1>1, <1>2, <1>3, <1>7 DEF SizesInv
<1>11. ASSUME Spoilt' = {} PROVE WriteInv' /\ ContentsInv'
  <2>1. WriteInv /\ ContentsInv /\ Spoilt = {}
    BY <1>1, <1>3, <1>11, Unspoilt
  <2>2. WriteInv'
    BY <1>1, <1>3, <1>7, <1>9, <2>1 DEF WriteInv
  <2>3. \A u \in Units : Target(u)' = text[u] /\ Target(u) = text[u]
    BY <1>1, <1>7 DEF Target
  <2>4. \A u \in Units : cache'[u] # Absent => cache'[u] = text[u]
    <3> SUFFICES ASSUME NEW u \in Units, cache'[u] # Absent PROVE cache'[u] = text[u]
      OBVIOUS
    <3>1. CASE u \in us
      BY <1>1, <2>1, <3>1 DEF Zeroed, Span, ContentsInv
    <3>2. CASE u \notin us
      <4>1. cache'[u] = WithPages(PagesOf(us))[u]
        BY <1>1, <3>2 DEF Zeroed
      <4> QED
        BY <1>1, <1>3, <1>4, <2>1, <4>1, FaultedRight
    <3> QED
      BY <3>1, <3>2
  <2>5. \A u \in Units : PageOf(u) \notin dirty' => PageOf(u) \notin dirty
    BY <1>1 DEF Zeroed
  <2> QED
    BY <1>1, <2>1, <2>2, <2>3, <2>4, <2>5 DEF ContentsInv
<1> QED
  BY <1>1, <1>3, <1>6, <1>8, <1>10, <1>11, Kept

\* The data is copied into the cache.
LEMMA CopyKeeps == ASSUME DataInv, CopyToCache PROVE DataInv'
<1> DEFINE us == Span(io.off, io.end)
<1>1. /\ io.step = "copy" /\ io' = [io EXCEPT !.step = "finish"]
      /\ cache' = [u \in Units |-> IF u \in us THEN io.value ELSE WithPages(PagesOf(us))[u]]
      /\ dirty' = dirty \cup PagesOf(us)
      /\ open' = open /\ wrong' = wrong /\ disk' = disk /\ lowerEof' = lowerEof
      /\ fs' = fs /\ vdl' = vdl /\ alloc' = alloc /\ text' = text /\ size' = size
      /\ used' = used /\ fails' = fails /\ spoilers' = spoilers
  BY DEF CopyToCache, lower, sizes, owed
<1>2. DataTypeOK /\ PagesWhole /\ SizesInv
  BY DEF DataInv
<1>3. io # Idle /\ open
  BY <1>1, <1>2 DEF Idle, PagesWhole
<1>4. us \in SUBSET Units /\ io.value \in 0 .. MaxOps
  BY <1>2, SpanUnits, Typed
<1>5. cache' \in [Units -> 0 .. Absent] /\ dirty' \subseteq Pages /\ PagesWhole'
  BY <1>1, <1>2, <1>3, <1>4, PutOver
<1>6. /\ io'.step = "finish" /\ io'.off = io.off /\ io'.end = io.end /\ io'.grown = io.grown /\ io'.value = io.value
      /\ io' \in [kind : {"idle", "cached", "direct"}, step : {"none", "zero", "copy", "write", "zeroAfter", "finish"},
                  off : 0 .. N, end : 0 .. N, value : 0 .. MaxOps, grown : BOOLEAN]
  BY <1>1, <1>2 DEF DataTypeOK
<1>7. DataTypeOK'
  BY <1>1, <1>2, <1>5, <1>6 DEF DataTypeOK
<1>8. io' # Idle
  BY <1>6 DEF Idle
<1>9. SizesInv'
  BY <1>1, <1>2, <1>3, <1>6 DEF SizesInv
<1>10. ASSUME Spoilt' = {} PROVE WriteInv' /\ ContentsInv'
  <2>1. WriteInv /\ ContentsInv /\ Spoilt = {}
    BY <1>1, <1>3, <1>10, Unspoilt
  <2>2. WriteInv'
    BY <1>1, <1>3, <1>6, <1>8, <2>1 DEF WriteInv
  <2>3. \A u \in Units : Target(u)' = (IF u \in us THEN io.value ELSE text[u]) /\ Target(u) = text[u]
    BY <1>1, <1>6 DEF Target, Span
  <2>4. \A u \in Units : cache'[u] # Absent => cache'[u] = Target(u)'
    <3> SUFFICES ASSUME NEW u \in Units, cache'[u] # Absent PROVE cache'[u] = Target(u)'
      OBVIOUS
    <3>1. CASE u \in us
      BY <1>1, <2>3, <3>1
    <3>2. CASE u \notin us
      <4>1. cache'[u] = WithPages(PagesOf(us))[u]
        BY <1>1, <3>2
      <4> QED
        BY <1>1, <1>3, <1>4, <2>1, <2>3, <3>2, <4>1, FaultedRight
    <3> QED
      BY <3>1, <3>2
  <2>5. \A u \in Units : PageOf(u) \notin dirty' => PageOf(u) \notin dirty /\ u \notin us
    BY <1>1 DEF PagesOf
  <2> QED
    BY <1>1, <2>1, <2>2, <2>3, <2>4, <2>5 DEF ContentsInv
<1> QED
  BY <1>1, <1>3, <1>5, <1>7, <1>9, <1>10, Kept

\* A write fails before it has changed anything but the sizes.
LEMMA FailKeeps == ASSUME DataInv, WriteFails PROVE DataInv'
<1>1. /\ io.step \in {"copy", "write"} /\ io' = Idle /\ fails < MaxFails /\ fails' = fails + 1
      /\ spoilers' = spoilers \cup (IF io.grown THEN {"failed"} ELSE {})
      /\ open' = open /\ wrong' = wrong /\ disk' = disk /\ lowerEof' = lowerEof /\ cache' = cache /\ dirty' = dirty
      /\ fs' = fs /\ vdl' = vdl /\ alloc' = alloc /\ text' = text /\ size' = size
      /\ used' = used
  BY DEF WriteFails, lower, sizes, owed
<1>2. DataTypeOK /\ PagesWhole /\ SizesInv
  BY DEF DataInv
<1>3. io # Idle /\ open
  BY <1>1, <1>2 DEF Idle, PagesWhole
<1>4. fails' \in 0 .. MaxFails
  BY <1>1, <1>2, DataAssumption DEF DataTypeOK
<1>5. Idle \in [kind : {"idle", "cached", "direct"}, step : {"none", "zero", "copy", "write", "zeroAfter", "finish"},
                off : 0 .. N, end : 0 .. N, value : 0 .. MaxOps, grown : BOOLEAN]
  BY DataAssumption DEF Idle
<1>6. DataTypeOK'
  BY <1>1, <1>2, <1>4, <1>5 DEF DataTypeOK, AllCauses
<1>7. PagesWhole' /\ SizesInv'
  BY <1>1, <1>2 DEF PagesWhole, SizesInv
<1>8. ASSUME Spoilt' = {} PROVE WriteInv' /\ ContentsInv'
  <2>1. WriteInv /\ ContentsInv /\ ~io.grown /\ spoilers' = spoilers
    BY <1>1, <1>3, <1>8, Unspoilt DEF Spoilt
  <2>2. WriteInv'
    BY <1>1, <2>1 DEF WriteInv
  <2>3. \A u \in Units : Target(u)' = text[u] /\ Target(u) = text[u]
    BY <1>1 DEF Target, Idle
  <2> QED
    BY <1>1, <2>1, <2>2, <2>3 DEF ContentsInv
<1> QED
  BY <1>1, <1>3, <1>6, <1>7, <1>8, Kept
\* The shape of a write.
Writes == [kind : {"idle", "cached", "direct"}, step : {"none", "zero", "copy", "write", "zeroAfter", "finish"},
           off : 0 .. N, end : 0 .. N, value : 0 .. MaxOps, grown : BOOLEAN]

LEMMA WriteShape ==
  /\ DataTypeOK => io \in Writes
  /\ Idle \in Writes
  /\ \A w \in Writes, s \in {"none", "zero", "copy", "write", "zeroAfter", "finish"} :
         LET x == [w EXCEPT !.step = s]
         IN  /\ x \in Writes /\ x.step = s /\ x.off = w.off /\ x.end = w.end /\ x.grown = w.grown /\ x.value = w.value
             /\ s # "none" => x # Idle
BY DataAssumption DEF DataTypeOK, Writes, Idle

LEMMA StepTaken ==
  ASSUME NEW w \in Writes, NEW s \in {"none", "zero", "copy", "write", "zeroAfter", "finish"}, s # "none", NEW x,
         x = [w EXCEPT !.step = s]
  PROVE  /\ x \in Writes /\ x # Idle
         /\ x.step = s /\ x.off = w.off /\ x.end = w.end /\ x.grown = w.grown /\ x.value = w.value
BY DEF Writes, Idle

\* A write beside the cache reaches the lower file, or is refused by it.
LEMMA LowerKeeps == ASSUME DataInv, WriteLower PROVE DataInv'
<1> DEFINE us == Span(io.off, io.end)
<1>1. /\ io.step = "write"
      /\ open' = open /\ wrong' = wrong /\ cache' = cache /\ dirty' = dirty
      /\ fs' = fs /\ vdl' = vdl /\ alloc' = alloc /\ text' = text /\ size' = size
      /\ used' = used /\ fails' = fails
  BY DEF WriteLower, sizes, owed
<1>2. DataTypeOK /\ PagesWhole /\ SizesInv /\ io \in Writes
  BY WriteShape DEF DataInv
<1>3. io # Idle /\ open
  BY <1>1, <1>2 DEF Idle, PagesWhole
<1>4. CASE Aligned(io.off, io.end)
  <2>1. /\ disk' = [u \in Units |-> IF u \in us THEN io.value ELSE disk[u]]
        /\ lowerEof' = Larger(lowerEof, io.end)
        /\ io' = [io EXCEPT !.step = IF vdl <= io.off /\ ~io.grown THEN "zeroAfter" ELSE "finish"]
        /\ spoilers' = spoilers \cup (IF \E u \in us : cache[u] # Absent THEN {"beside"} ELSE {})
    BY <1>4 DEF WriteLower
  <2> DEFINE next == IF vdl <= io.off /\ ~io.grown THEN "zeroAfter" ELSE "finish"
  <2>2. /\ io'.step = next
        /\ io'.off = io.off /\ io'.end = io.end /\ io'.grown = io.grown /\ io'.value = io.value
        /\ io' \in Writes /\ io' # Idle
    <3>1. next \in {"none", "zero", "copy", "write", "zeroAfter", "finish"} /\ next # "none"
      OBVIOUS
    <3>2. io' = [io EXCEPT !.step = next]
      BY <2>1
    <3> HIDE DEF next
    <3> QED
      BY ONLY <1>2, <3>1, <3>2, StepTaken
  <2>3. disk' \in [Units -> 0 .. Garbage]
    BY <1>2, <2>1, Typed DEF Garbage
  <2>4. lowerEof' \in 0 .. N
    BY <1>2, <2>1, Typed DEF Larger
  <2>5. DataTypeOK'
    BY <1>1, <1>2, <2>1, <2>2, <2>3, <2>4 DEF DataTypeOK, AllCauses, Writes
  <2>6. PagesWhole' /\ SizesInv'
    BY <1>1, <1>2, <1>3, <2>1, <2>2 DEF PagesWhole, SizesInv
  <2>7. ASSUME Spoilt' = {} PROVE WriteInv' /\ ContentsInv'
    <3>1. WriteInv /\ ContentsInv /\ Spoilt = {} /\ spoilers' = spoilers /\ \A u \in us : cache[u] = Absent
      BY <1>3, <2>1, <2>7, Unspoilt DEF Spoilt
    <3>2. "raced" \notin spoilers
      BY <3>1 DEF Spoilt
    <3>3. io.end <= fs /\ vdl <= fs /\ fs <= lowerEof
      BY <1>2, <1>3, <3>1, <3>2 DEF SizesInv, WriteInv
    <3>4. lowerEof' = lowerEof
      BY <1>2, <2>1, <3>3, Typed DEF Larger
    <3>5. io'.step = "finish"
      <4>1. ~io.grown => vdl = fs /\ io.off < io.end
        BY <1>3, <3>1 DEF WriteInv
      <4>2. ~(vdl <= io.off /\ ~io.grown)
        BY <1>2, <3>3, <4>1, Typed
      <4> QED
        BY <2>2, <4>2
    <3>6. WriteInv'
      BY <1>1, <1>3, <2>2, <3>1, <3>4, <3>5 DEF WriteInv
    <3>7. \A u \in Units : Target(u)' = (IF u \in us THEN io.value ELSE text[u]) /\ Target(u) = text[u]
      BY <1>1, <2>2, <3>5 DEF Target, Span
    <3>8. \A u \in Units : disk'[u] = IF u \in us THEN io.value ELSE disk[u]
      BY <2>1
    <3> QED
      BY ONLY <1>1, <3>1, <3>6, <3>7, <3>8 DEF ContentsInv
  <2> QED
    BY <1>1, <1>3, <2>1, <2>5, <2>6, <2>7, Kept
<1>5. CASE ~Aligned(io.off, io.end)
  <2>1. /\ io' = Idle /\ disk' = disk /\ lowerEof' = lowerEof
        /\ spoilers' = spoilers \cup (IF io.grown THEN {"unaligned"} ELSE {})
    BY <1>5 DEF WriteLower, lower
  <2>2. DataTypeOK'
    BY <1>1, <1>2, <2>1, WriteShape DEF DataTypeOK, AllCauses, Writes
  <2>3. PagesWhole' /\ SizesInv'
    BY <1>1, <1>2, <2>1 DEF PagesWhole, SizesInv
  <2>4. ASSUME Spoilt' = {} PROVE WriteInv' /\ ContentsInv'
    <3>1. WriteInv /\ ContentsInv /\ ~io.grown /\ spoilers' = spoilers
      BY <1>3, <2>1, <2>4, Unspoilt DEF Spoilt
    <3>2. WriteInv'
      BY <1>1, <2>1, <3>1 DEF WriteInv
    <3>3. \A u \in Units : Target(u)' = text[u] /\ Target(u) = text[u]
      BY <1>1, <2>1 DEF Target, Idle
    <3> QED
      BY <1>1, <2>1, <3>1, <3>2, <3>3 DEF ContentsInv
  <2> QED
    BY <1>1, <1>3, <2>1, <2>2, <2>3, <2>4, Kept
<1> QED
  BY <1>4, <1>5

\* Zeros after the data are put only where something bad has happened before.
LEMMA ZeroAfterKeeps == ASSUME DataInv, ZeroAfter PROVE DataInv'
<1> DEFINE us == Span(vdl, io.off - 1)
<1>1. /\ io.step = "zeroAfter" /\ Zeroed(us) /\ io' = [io EXCEPT !.step = "finish"]
      /\ open' = open /\ wrong' = wrong /\ disk' = disk /\ lowerEof' = lowerEof
      /\ fs' = fs /\ vdl' = vdl /\ alloc' = alloc /\ text' = text /\ size' = size
      /\ used' = used /\ fails' = fails /\ spoilers \subseteq spoilers' /\ spoilers' \subseteq spoilers \cup {"beside"}
  BY DEF ZeroAfter, lower, sizes, owed
<1>2. DataTypeOK /\ PagesWhole /\ SizesInv /\ io \in Writes
  BY WriteShape DEF DataInv
<1>3. io # Idle /\ open
  BY <1>1, <1>2 DEF Idle, PagesWhole
<1>4. us \in SUBSET Units /\ 0 \in 0 .. MaxOps
  BY SpanUnits, DataAssumption
<1>5. cache' \in [Units -> 0 .. Absent] /\ dirty' \subseteq Pages /\ PagesWhole'
  BY <1>1, <1>2, <1>3, <1>4, PutOver DEF Zeroed
<1>6. io' \in Writes /\ io'.end = io.end
  BY <1>1, <1>2, WriteShape
<1>7. DataTypeOK'
  BY <1>1, <1>2, <1>5, <1>6 DEF DataTypeOK, AllCauses, Writes
<1>8. SizesInv'
  BY <1>1, <1>2, <1>3, <1>6 DEF SizesInv
<1>9. Spoilt' # {}
  BY <1>1, <1>3, Unspoilt DEF WriteInv
<1> QED
  BY <1>1, <1>3, <1>5, <1>7, <1>8, <1>9, Kept

\* A write has ended: ValidDataLength and what the file is for its users follow.
LEMMA FinishKeeps == ASSUME DataInv, WriteFinish PROVE DataInv'
<1> DEFINE us == Span(io.off, io.end)
<1>1. /\ io.step = "finish" /\ io' = Idle /\ vdl' = Larger(vdl, io.end) /\ size' = Larger(size, io.end)
      /\ text' = [u \in Units |-> IF u \in us THEN io.value ELSE text[u]]
      /\ open' = open /\ wrong' = wrong /\ disk' = disk /\ lowerEof' = lowerEof /\ cache' = cache /\ dirty' = dirty
      /\ fs' = fs /\ alloc' = alloc /\ used' = used /\ fails' = fails /\ spoilers' = spoilers
  BY DEF WriteFinish, lower
<1>2. DataTypeOK /\ PagesWhole /\ SizesInv
  BY DEF DataInv
<1>3. io # Idle /\ open
  BY <1>1, <1>2 DEF Idle, PagesWhole
<1>4. vdl' \in 0 .. N /\ size' \in 0 .. N
  BY <1>1, <1>2, Typed DEF Larger
<1>5. text' \in [Units -> 0 .. MaxOps]
  BY <1>1, <1>2, Typed
<1>6. DataTypeOK'
  <2>1. io' \in Writes
    BY <1>1, WriteShape
  <2>2. {fs', vdl', alloc', size'} \subseteq 0 .. N
    BY <1>1, <1>2, <1>4 DEF DataTypeOK
  <2>3. /\ disk' \in [Units -> 0 .. Garbage] /\ lowerEof' \in 0 .. N
        /\ cache' \in [Units -> 0 .. Absent] /\ dirty' \subseteq Pages
        /\ used' \in 0 .. MaxOps /\ fails' \in 0 .. MaxFails /\ open' \in BOOLEAN
        /\ wrong' \in BOOLEAN /\ spoilers' \subseteq AllCauses
    BY <1>1, <1>2 DEF DataTypeOK
  <2> QED
    BY ONLY <1>5, <2>1, <2>2, <2>3 DEF DataTypeOK, Writes
<1>7. PagesWhole'
  BY <1>1, <1>2 DEF PagesWhole
<1>8. SizesInv'
  BY <1>1, <1>2, <1>3, Typed DEF SizesInv, Larger
<1>9. ASSUME Spoilt' = {} PROVE WriteInv' /\ ContentsInv'
  <2>1. WriteInv /\ ContentsInv /\ "raced" \notin spoilers
    BY <1>1, <1>3, <1>9, Unspoilt DEF Spoilt
  <2>2. io.end <= fs /\ vdl <= fs /\ size <= fs /\ (io.grown => io.end = fs) /\ (~io.grown => vdl = fs /\ size = fs)
    BY <1>2, <1>3, <2>1 DEF SizesInv, WriteInv
  <2>3. vdl' = fs /\ size' = fs
    BY <1>1, <1>2, <2>2, Typed DEF Larger
  <2>4. WriteInv'
    BY <1>1, <1>2, <2>1, <2>3, Typed DEF WriteInv
  <2>5. \A u \in Units : Target(u) = text'[u] /\ Target(u)' = text'[u]
    BY <1>1 DEF Target, Idle
  <2>6. \A u \in Units : u >= fs => text'[u] = 0
    <3> SUFFICES ASSUME NEW u \in Units, u >= fs PROVE text'[u] = 0
      OBVIOUS
    <3>1. u \notin us /\ u >= size
      BY <1>2, <2>2, Typed, UnitPage DEF Span
    <3> QED
      BY <1>1, <2>1, <3>1 DEF ContentsInv
  <2> QED
    BY ONLY <1>1, <2>1, <2>3, <2>4, <2>5, <2>6 DEF ContentsInv
<1> QED
  BY <1>1, <1>3, <1>6, <1>7, <1>8, <1>9, Kept

-----------------------------------------------------------------------------
(* Reads and size changes. *)

\* A read may find out that something bad has happened.
LEMMA KeptByRead ==
  ASSUME DataInv, open, open' = open, spoilers \subseteq spoilers',
         DataTypeOK', PagesWhole', SizesInv',
         Spoilt' = {} => wrong' = wrong /\ WriteInv' /\ ContentsInv'
  PROVE  DataInv'
<1>1. ReadsExplained' /\ CleanupComplete'
  BY DEF DataInv, ReadsExplained, CleanupComplete, Spoilt
<1> QED
  BY <1>1 DEF DataInv

\* Between operations the whole range is owed, up to FileSize, and as much is returned.
LEMMA Counted ==
  ASSUME DataTypeOK, vdl = fs, size = fs, NEW off \in Units, NEW end \in 1 .. N, off < end
  PROVE  /\ CachedCount(off, end) = Owed(off, end) /\ DirectCount(off, end) = Owed(off, end)
         /\ \A u \in Span(off, off + Owed(off, end)) : off < fs /\ u < fs /\ u \in Span(off, end)
<1>1. fs \in Nat /\ off \in Nat /\ end \in Nat
  BY Typed, UnitPage
<1>2. CachedCount(off, end) = Owed(off, end)
  BY ONLY <1>1, off < end, vdl = fs, size = fs DEF CachedCount, Owed, Larger, Smaller
<1>3. DirectCount(off, end) = Owed(off, end)
  BY ONLY <1>1, off < end, vdl = fs, size = fs DEF DirectCount, Owed, Larger, Smaller
<1>4. ASSUME NEW u \in Units, off <= u, u < off + Owed(off, end) PROVE off < fs /\ u < fs /\ u < end
  <2>1. u \in Nat
    BY UnitPage
  <2> QED
    BY ONLY <1>1, <1>4, <2>1, size = fs DEF Owed, Larger, Smaller
<1>5. \A u \in Span(off, off + Owed(off, end)) : u \in Units /\ off <= u /\ u < off + Owed(off, end)
  BY DEF Span
<1>6. \A u \in Span(off, off + Owed(off, end)) : off < fs /\ u < fs /\ u \in Span(off, end)
  BY <1>4, <1>5 DEF Span
<1> QED
  BY ONLY <1>2, <1>3, <1>6

LEMMA CachedReadKeeps == ASSUME DataInv, ReadCachedIO PROVE DataInv'
<1>0. PICK off \in Units, end \in 1 .. N :
          LET fromCache == off < vdl \/ (off > vdl /\ end <= fs)
              us == Span(off, off + CachedCount(off, end))
              pages == WithPages(PagesOf(us))
          IN /\ off < end
             /\ cache' = IF fromCache THEN pages ELSE cache
             /\ Judge(off, end, CachedCount(off, end), LAMBDA u : IF fromCache THEN pages[u] ELSE 0)
  BY DEF ReadCachedIO
<1> DEFINE fromCache == off < vdl \/ (off > vdl /\ end <= fs)
           us == Span(off, off + CachedCount(off, end))
           pages == WithPages(PagesOf(us))
<1>1. /\ off < end
      /\ cache' = IF fromCache THEN pages ELSE cache
      /\ wrong' = (wrong \/ CachedCount(off, end) # Owed(off, end)
                         \/ \E u \in us : (IF fromCache THEN pages[u] ELSE 0) # text[u])
  BY <1>0 DEF Judge
<1>2. /\ io = Idle /\ open /\ used < MaxOps /\ used' = used + 1
      /\ open' = open /\ disk' = disk /\ lowerEof' = lowerEof /\ dirty' = dirty
      /\ fs' = fs /\ vdl' = vdl /\ alloc' = alloc /\ text' = text /\ size' = size /\ io' = io
      /\ fails' = fails /\ spoilers' = spoilers
  BY DEF ReadCachedIO, Begin, lower, sizes, owed
<1>3. DataTypeOK /\ PagesWhole /\ SizesInv
  BY DEF DataInv
<1>4. us \in SUBSET Units
  BY SpanUnits
<1>5. /\ \A u \in Units : pages[u] \in 0 .. Absent
      /\ \A u \in Units : PageOf(u) \in dirty \cup PagesOf(us) => pages[u] # Absent
  BY <1>3, <1>4, FaultedIn
<1>6. pages \in [Units -> 0 .. Absent]
  BY <1>5 DEF WithPages
<1>7. cache' \in [Units -> 0 .. Absent]
  BY <1>1, <1>3, <1>6, Typed
<1>8. used' \in 0 .. MaxOps /\ wrong' \in BOOLEAN
  <2>1. used' \in 0 .. MaxOps
    BY <1>2, <1>3, DataAssumption DEF DataTypeOK
  <2>2. wrong' \in BOOLEAN
    BY <1>1
  <2> QED
    BY <2>1, <2>2
<1>9. DataTypeOK'
  BY <1>2, <1>3, <1>7, <1>8 DEF DataTypeOK
<1>10. PagesWhole'
  BY <1>1, <1>2, <1>3, <1>5 DEF PagesWhole
<1>11. SizesInv'
  BY <1>2, <1>3 DEF SizesInv
<1>12. ASSUME Spoilt' = {} PROVE wrong' = wrong /\ WriteInv' /\ ContentsInv'
  <2>1. WriteInv /\ ContentsInv /\ Spoilt = {}
    BY <1>2, <1>12, Unspoilt
  <2>2. vdl = fs /\ size = fs
    BY <1>2, <2>1 DEF WriteInv
  <2>3. \A u \in Units : Target(u)' = text[u] /\ Target(u) = text[u]
    BY <1>2 DEF Target, Idle
  <2>4. io.step # "finish"
    BY <1>2 DEF Idle
  <2>5. \A u \in Units : pages[u] # Absent => pages[u] = text[u]
    BY <1>2, <1>4, <2>1, <2>4, FaultedRight
  <2>6. CachedCount(off, end) = Owed(off, end) /\ \A u \in us : fromCache
    BY <1>1, <1>3, <2>2, Counted
  <2>7. \A u \in us : pages[u] = text[u]
    BY <1>4, <1>5, <2>5 DEF PagesOf
  <2>8. wrong' = wrong
    <3>1. ~\E u \in us : (IF fromCache THEN pages[u] ELSE 0) # text[u]
      BY <2>6, <2>7
    <3>2. wrong \in BOOLEAN
      BY <1>3 DEF DataTypeOK
    <3> QED
      BY <1>1, <2>6, <3>1, <3>2, Zenon
  <2>9. WriteInv'
    BY <1>2, <2>1 DEF WriteInv
  <2> QED
    BY <1>1, <1>2, <2>1, <2>3, <2>5, <2>8, <2>9 DEF ContentsInv
<1> QED
  BY <1>2, <1>9, <1>10, <1>11, <1>12, KeptByRead

LEMMA DirectReadKeeps == ASSUME DataInv, ReadNonCachedIO PROVE DataInv'
<1>0. PICK off \in Units, end \in 1 .. N :
          LET n == DirectCount(off, end) IN
          /\ off < end /\ Aligned(off, end)
          /\ Judge(off, end, n, PagedIn)
          /\ spoilers' = spoilers \cup (IF PagesOf(Span(off, end)) \cap dirty # {} THEN {"beside"} ELSE {})
  BY DEF ReadNonCachedIO
<1> DEFINE us == Span(off, off + DirectCount(off, end))
<1>1. /\ off < end
      /\ wrong' = (wrong \/ DirectCount(off, end) # Owed(off, end) \/ \E u \in us : PagedIn(u) # text[u])
      /\ spoilers' = spoilers \cup (IF PagesOf(Span(off, end)) \cap dirty # {} THEN {"beside"} ELSE {})
  BY <1>0 DEF Judge
<1>2. /\ io = Idle /\ open /\ used < MaxOps /\ used' = used + 1
      /\ open' = open /\ disk' = disk /\ lowerEof' = lowerEof /\ cache' = cache /\ dirty' = dirty
      /\ fs' = fs /\ vdl' = vdl /\ alloc' = alloc /\ text' = text /\ size' = size /\ io' = io
      /\ fails' = fails
  BY DEF ReadNonCachedIO, Begin, lower, sizes, owed
<1>3. DataTypeOK /\ PagesWhole /\ SizesInv
  BY DEF DataInv
<1>4. used' \in 0 .. MaxOps
  BY <1>2, <1>3, DataAssumption DEF DataTypeOK
<1>5. wrong' \in BOOLEAN
  BY <1>1
<1>6. DataTypeOK'
  BY <1>1, <1>2, <1>3, <1>4, <1>5 DEF DataTypeOK, AllCauses
<1>7. PagesWhole' /\ SizesInv'
  BY <1>1, <1>2, <1>3 DEF PagesWhole, SizesInv
<1>8. ASSUME Spoilt' = {} PROVE wrong' = wrong /\ WriteInv' /\ ContentsInv'
  <2>1. WriteInv /\ ContentsInv /\ spoilers' = spoilers /\ PagesOf(Span(off, end)) \cap dirty = {}
    BY <1>1, <1>2, <1>8, Unspoilt DEF Spoilt
  <2>2. vdl = fs /\ size = fs /\ fs <= lowerEof
    BY <1>2, <2>1 DEF WriteInv
  <2>3. \A u \in Units : Target(u)' = text[u] /\ Target(u) = text[u]
    BY <1>2 DEF Target, Idle
  <2>4. DirectCount(off, end) = Owed(off, end) /\ \A u \in us : u < fs /\ u \in Span(off, end)
    BY <1>1, <1>3, <2>2, Counted
  <2>5. \A u \in us : PagedIn(u) = text[u]
    <3> SUFFICES ASSUME NEW u \in us PROVE PagedIn(u) = text[u]
      OBVIOUS
    <3>1. u \in Units /\ u < fs /\ PageOf(u) \notin dirty
      BY <2>1, <2>4 DEF PagesOf, Span
    <3>2. disk[u] = text[u]
      BY <2>1, <2>3, <3>1 DEF ContentsInv
    <3>3. ~(u >= vdl) /\ u < lowerEof
      BY <1>3, <2>2, <3>1, Typed, UnitPage
    <3> QED
      BY <3>2, <3>3 DEF PagedIn
  <2>6. wrong' = wrong
    <3>1. wrong \in BOOLEAN
      BY <1>3 DEF DataTypeOK
    <3> QED
      BY <1>1, <2>4, <2>5, <3>1, Zenon
  <2>7. WriteInv'
    BY <1>2, <2>1 DEF WriteInv
  <2> QED
    BY <1>2, <2>1, <2>3, <2>6, <2>7 DEF ContentsInv
<1> QED
  BY <1>1, <1>2, <1>6, <1>7, <1>8, KeptByRead

\* The pages that a file of this size no longer has leave the cache, the rest of its
\* last page is cleared.
LEMMA CutOff ==
  ASSUME DataTypeOK, PagesWhole, NEW eof \in 0 .. N, cache' = Cut(eof), dirty' = Within(eof),
         open, open' = open
  PROVE  /\ cache' \in [Units -> 0 .. Absent] /\ dirty' \subseteq Pages /\ PagesWhole'
         /\ \A u \in Units : u < eof => cache'[u] = cache[u] /\ (PageOf(u) \notin dirty' => PageOf(u) \notin dirty)
         /\ \A u \in Units : u >= eof => cache'[u] \in {0, Absent}
<1>1. \A u \in Units : cache'[u] = IF u < eof \/ cache[u] = Absent THEN cache[u]
                                    ELSE IF PageOf(u) * Page < eof THEN 0 ELSE Absent
  BY DEF Cut
<1>2. dirty' \subseteq dirty /\ \A p \in dirty : p \in dirty' <=> p * Page < eof
  BY DEF Within
<1>3. 0 \in 0 .. Absent /\ Absent \in 0 .. Absent /\ 0 # Absent
  BY DataAssumption DEF Absent
<1>4. cache' \in [Units -> 0 .. Absent]
  BY <1>3, Typed DEF Cut
<1>5. \A u \in Units : u \in Nat /\ PageOf(u) * Page \in Nat /\ PageOf(u) * Page <= u
  BY UnitPage, PagesUpTo
<1>6. eof \in Nat
  BY DataAssumption
<1>7. \A u \in Units : u < eof => PageOf(u) * Page < eof
  BY ONLY <1>5, <1>6
<1>8. PagesWhole'
  BY <1>1, <1>2, <1>3 DEF PagesWhole
<1>9. \A u \in Units : u < eof => cache'[u] = cache[u] /\ (PageOf(u) \notin dirty' => PageOf(u) \notin dirty)
  BY <1>1, <1>2, <1>7
<1>10. \A u \in Units : u >= eof => cache'[u] \in {0, Absent}
  <2>1. \A u \in Units : u >= eof => ~(u < eof)
    BY ONLY <1>5, <1>6
  <2> QED
    BY <1>1, <2>1
<1>11. dirty' \subseteq Pages
  BY <1>2, Typed
<1> QED
  BY ONLY <1>4, <1>8, <1>9, <1>10, <1>11

\* What a cut leaves is right when the file is cut there for its users and in the
\* lower file, or when the lower file is as it was.
LEMMA CutRight ==
  ASSUME DataTypeOK, ContentsInv, io = Idle, io' = io, NEW eof \in 0 .. N, eof <= fs,
         vdl' = eof, size' = eof, fs' = eof,
         text' = [u \in Units |-> IF u < eof THEN text[u] ELSE 0],
         \A u \in Units : u < eof => disk'[u] = disk[u],
         \A u \in Units : u < eof => cache'[u] = cache[u] /\ (PageOf(u) \notin dirty' => PageOf(u) \notin dirty),
         \A u \in Units : u >= eof => cache'[u] \in {0, Absent}
  PROVE  ContentsInv'
<1>1. \A u \in Units : Target(u)' = text'[u] /\ Target(u) = text[u]
  BY DEF Target, Idle
<1>2. eof \in Nat /\ fs \in Nat /\ \A u \in Units : u \in Nat
  BY Typed, UnitPage, DataAssumption
<1>3. ASSUME NEW u \in Units, u < eof
      PROVE  /\ ~(u >= eof)
             /\ (cache'[u] # Absent => cache'[u] = text'[u])
             /\ (PageOf(u) \notin dirty' => disk'[u] = text'[u])
  <2>1. u < fs /\ ~(u >= eof)
    BY ONLY <1>2, <1>3, eof <= fs
  <2>2. text'[u] = text[u] /\ disk'[u] = disk[u] /\ cache'[u] = cache[u]
        /\ (PageOf(u) \notin dirty' => PageOf(u) \notin dirty)
    BY <1>3
  <2>3. (cache[u] # Absent => cache[u] = text[u]) /\ (PageOf(u) \notin dirty => disk[u] = text[u])
    BY <1>1, <2>1 DEF ContentsInv
  <2> QED
    BY ONLY <2>1, <2>2, <2>3
<1>4. ASSUME NEW u \in Units, ~(u < eof)
      PROVE  text'[u] = 0 /\ (cache'[u] # Absent => cache'[u] = 0)
  <2>1. u >= eof
    BY ONLY <1>2, <1>4
  <2>2. text'[u] = 0
    BY <1>4
  <2> QED
    BY <2>1, <2>2
<1>5. ASSUME NEW u \in Units
      PROVE  /\ (u >= size' \/ u >= vdl') => text'[u] = 0
             /\ cache'[u] # Absent => cache'[u] = Target(u)'
             /\ (u < fs' /\ PageOf(u) \notin dirty') => disk'[u] = Target(u)'
  <2>1. size' = eof /\ vdl' = eof /\ fs' = eof /\ Target(u)' = text'[u]
    BY <1>1
  <2>2. CASE u < eof
    BY ONLY <1>3, <1>5, <2>1, <2>2
  <2>3. CASE ~(u < eof)
    BY ONLY <1>4, <1>5, <2>1, <2>3
  <2> QED
    BY <2>2, <2>3
<1> QED
  BY ONLY <1>5 DEF ContentsInv

LEMMA AdvanceKeeps == ASSUME DataInv, AdvanceOnly PROVE DataInv'
<1>1. /\ lowerEof # fs /\ SetLowerEof(fs)
      /\ open /\ open' = open /\ wrong' = wrong /\ cache' = cache /\ dirty' = dirty
      /\ fs' = fs /\ vdl' = vdl /\ alloc' = alloc /\ text' = text /\ size' = size /\ io' = io
      /\ used' = used /\ fails' = fails /\ spoilers' = spoilers
  BY DEF AdvanceOnly, sizes, owed
<1>2. DataTypeOK /\ PagesWhole /\ SizesInv
  BY DEF DataInv
<1>3. lowerEof' = fs /\ lowerEof' \in 0 .. N /\ disk' \in [Units -> 0 .. Garbage]
  BY <1>1, <1>2, Typed DEF SetLowerEof, Garbage
<1>4. DataTypeOK'
  BY <1>1, <1>2, <1>3 DEF DataTypeOK
<1>5. PagesWhole' /\ SizesInv'
  BY <1>1, <1>2 DEF PagesWhole, SizesInv
<1>6. ASSUME Spoilt' = {} PROVE WriteInv' /\ ContentsInv'
  <2>1. WriteInv /\ ContentsInv
    BY <1>1, <1>6, Unspoilt
  <2>2. WriteInv'
    BY <1>1, <1>2, <1>3, <2>1, Typed DEF WriteInv
  <2>3. \A u \in Units : Target(u)' = Target(u)
    BY <1>1 DEF Target, Span
  <2>4. \A u \in Units : u < fs => disk'[u] = disk[u]
    BY <1>1, <1>2, <2>1, Typed, UnitPage DEF SetLowerEof, Smaller, WriteInv
  <2> QED
    BY <1>1, <2>1, <2>2, <2>3, <2>4 DEF ContentsInv
<1> QED
  BY <1>1, <1>4, <1>5, <1>6, Kept

\* The length of the data is set: that alone explains any read.
LEMMA ValidKeeps == ASSUME DataInv, ProcessSetFileValidDataLengthInformation PROVE DataInv'
<1>1. PICK v \in 0 .. lowerEof : v <= fs /\ vdl' = v
  BY DEF ProcessSetFileValidDataLengthInformation
<1>2. /\ used < MaxOps /\ used' = used + 1 /\ spoilers' = spoilers \cup {"vdl"} \cup Beside
      /\ open /\ open' = open /\ wrong' = wrong /\ cache' = cache /\ dirty' = dirty
      /\ disk' = disk /\ lowerEof' = lowerEof
      /\ fs' = fs /\ alloc' = alloc /\ text' = text /\ size' = size /\ io' = io /\ fails' = fails
  BY DEF ProcessSetFileValidDataLengthInformation, Begin, lower, owed
<1>3. DataTypeOK /\ PagesWhole /\ SizesInv
  BY DEF DataInv
<1>4. used' \in 0 .. MaxOps
  BY <1>2, <1>3, DataAssumption DEF DataTypeOK
<1>5. vdl' \in 0 .. N
  BY <1>1, <1>3, Typed
<1>6. DataTypeOK'
  BY <1>2, <1>3, <1>4, <1>5 DEF DataTypeOK, AllCauses, Beside
<1>7. PagesWhole' /\ SizesInv'
  BY <1>1, <1>2, <1>3 DEF PagesWhole, SizesInv
<1>8. Spoilt' # {}
  BY <1>2 DEF Spoilt
<1> QED
  BY <1>2, <1>6, <1>7, <1>8, Kept

\* A file is made shorter.
LEMMA ShorterKeeps ==
  ASSUME DataInv, open, open' = open, wrong' = wrong, used' \in 0 .. MaxOps, io' = io, fails' = fails,
         NEW eof \in 0 .. N, eof < fs, fs' = eof, alloc' = RoundUp(eof), vdl' = Smaller(vdl, eof),
         SetLowerEof(eof), cache' = Cut(eof), dirty' = Within(eof), spoilers' = spoilers \cup Beside,
         size' = fs', text' = [u \in Units |-> IF u < Smaller(size, fs') THEN text[u] ELSE 0]
  PROVE  DataInv'
<1>1. DataTypeOK /\ PagesWhole /\ SizesInv
  BY DEF DataInv
<1>2. /\ cache' \in [Units -> 0 .. Absent] /\ dirty' \subseteq Pages /\ PagesWhole'
      /\ \A u \in Units : u < eof => cache'[u] = cache[u] /\ (PageOf(u) \notin dirty' => PageOf(u) \notin dirty)
      /\ \A u \in Units : u >= eof => cache'[u] \in {0, Absent}
  BY <1>1, CutOff
<1>3. alloc' \in 0 .. N /\ eof <= alloc' /\ vdl' \in 0 .. N /\ vdl' <= eof /\ size' = eof
  <2>1. alloc' \in 0 .. N /\ eof <= alloc'
    BY Rounded
  <2>2. vdl \in 0 .. N
    BY <1>1 DEF DataTypeOK
  <2>3. vdl' \in 0 .. N /\ vdl' <= eof
    BY <2>2, DataAssumption DEF Smaller
  <2> QED
    BY <2>1, <2>3
<1>4. lowerEof' = eof /\ disk' \in [Units -> 0 .. Garbage]
  BY <1>1, Typed DEF SetLowerEof, Garbage
<1>5. text' \in [Units -> 0 .. MaxOps]
  BY <1>1, Typed
<1>6. spoilers' \subseteq AllCauses
  BY <1>1 DEF DataTypeOK, AllCauses, Beside
<1>7. DataTypeOK'
  <2>1. {fs', vdl', alloc', size'} \subseteq 0 .. N
    BY <1>3
  <2>2. /\ io' \in Writes /\ used' \in 0 .. MaxOps /\ fails' \in 0 .. MaxFails /\ open' \in BOOLEAN
        /\ wrong' \in BOOLEAN /\ lowerEof' \in 0 .. N
    BY <1>1, <1>4 DEF DataTypeOK, Writes
  <2> QED
    BY ONLY <1>2, <1>4, <1>5, <1>6, <2>1, <2>2 DEF DataTypeOK, Writes
<1>8. SizesInv'
  BY <1>3 DEF SizesInv, Beside
<1>9. ASSUME Spoilt' = {} PROVE WriteInv' /\ ContentsInv'
  <2>1. WriteInv /\ ContentsInv /\ io = Idle
    BY <1>9, Unspoilt DEF Spoilt, Beside
  <2>2. vdl = fs /\ size = fs /\ fs <= lowerEof
    BY <2>1 DEF WriteInv
  <2>3. eof \in Nat /\ fs \in Nat /\ lowerEof \in Nat /\ N \in Nat
    BY <1>1, Typed
  <2>4. vdl' = eof /\ Smaller(size, fs') = eof /\ Smaller(eof, lowerEof) = eof
    BY <2>2, <2>3 DEF Smaller
  <2>5. WriteInv'
    BY <1>3, <1>4, <2>1, <2>3, <2>4 DEF WriteInv
  <2>6. \A u \in Units : u < eof => disk'[u] = disk[u]
    BY <2>3, <2>4, UnitPage DEF SetLowerEof
  <2>7. text' = [u \in Units |-> IF u < eof THEN text[u] ELSE 0]
    BY <2>4
  <2>8. eof <= fs
    BY <2>3
  <2> QED
    BY ONLY <1>1, <1>2, <1>3, <2>1, <2>4, <2>5, <2>6, <2>7, <2>8, io' = io, fs' = eof, eof \in 0 .. N, CutRight
<1> QED
  BY <1>2, <1>7, <1>8, <1>9, Kept

\* A file keeps its size: for its users it is as long as FileSize now.
LEMMA SameSizeKeeps ==
  ASSUME DataInv, open, open' = open, wrong' = wrong, used' \in 0 .. MaxOps, io' = io, fails' = fails,
         fs' = fs, vdl' = vdl, alloc' = alloc, disk' = disk, lowerEof' = lowerEof,
         cache' = cache, dirty' = dirty, spoilers' = spoilers, size' = fs',
         \A u \in Units : text'[u] = IF u < size /\ u < fs' THEN text[u] ELSE 0,
         text' \in [Units -> 0 .. MaxOps]
  PROVE  DataInv'
<1>1. DataTypeOK /\ PagesWhole /\ SizesInv
  BY DEF DataInv
<1>2. DataTypeOK'
  <2>1. {fs', vdl', alloc', size'} \subseteq 0 .. N
    BY <1>1 DEF DataTypeOK
  <2> QED
    BY <1>1, <2>1 DEF DataTypeOK
<1>3. PagesWhole' /\ SizesInv'
  BY <1>1 DEF PagesWhole, SizesInv
<1>4. ASSUME Spoilt' = {} PROVE WriteInv' /\ ContentsInv'
  <2>1. WriteInv /\ ContentsInv
    BY <1>4, Unspoilt
  <2>2. \A u \in Units : text'[u] = text[u]
    <3> SUFFICES ASSUME NEW u \in Units PROVE text'[u] = text[u]
      OBVIOUS
    <3>1. u < size \/ u >= size
      BY <1>1, Typed, UnitPage
    <3>2. u < size => u < fs'
      BY <1>1, <2>1, Typed, UnitPage DEF WriteInv
    <3>3. u >= size => text[u] = 0
      BY <2>1 DEF ContentsInv
    <3> QED
      BY <3>1, <3>2, <3>3
  <2>3. \A u \in Units : Target(u)' = Target(u)
    BY <2>2 DEF Target, Span
  <2>4. WriteInv'
    BY <1>1, <2>1, Typed DEF WriteInv
  <2>5. \A u \in Units : u >= fs => u >= size
    BY <1>1, <2>1, Typed, UnitPage DEF WriteInv
  <2> QED
    BY <2>1, <2>2, <2>3, <2>4, <2>5 DEF ContentsInv
<1> QED
  BY <1>2, <1>3, <1>4, Kept

\* A file is made longer without a write.
LEMMA LongerKeeps ==
  ASSUME DataInv, open, open' = open, wrong' = wrong, used' \in 0 .. MaxOps, io' = io, fails' = fails,
         NEW eof \in 0 .. N, eof > fs, fs' = eof, alloc' = RoundUp(eof), vdl' = eof,
         SetLowerEof(Larger(0, eof - Header)), cache' = cache, dirty' = dirty,
         spoilers' = spoilers \cup Beside \cup (IF Header > 0 THEN {"header"} ELSE {}) \cup Regrown(eof),
         size' = fs', text' = [u \in Units |-> IF u < Smaller(size, fs') THEN text[u] ELSE 0]
  PROVE  DataInv'
<1>1. DataTypeOK /\ PagesWhole /\ SizesInv
  BY DEF DataInv
<1>2. alloc' \in 0 .. N /\ eof <= alloc'
  BY Rounded
<1>3. lowerEof' \in 0 .. N
  BY <1>1, Typed, DataAssumption DEF SetLowerEof, Larger
<1>4. disk' \in [Units -> 0 .. Garbage]
  BY <1>1, Typed DEF SetLowerEof, Garbage
<1>5. text' \in [Units -> 0 .. MaxOps]
  BY <1>1, Typed
<1>6. spoilers' \subseteq AllCauses
  BY <1>1 DEF DataTypeOK, AllCauses, Beside, Regrown
<1>7. DataTypeOK'
  <2>1. {fs', vdl', alloc', size'} \subseteq 0 .. N
    BY <1>2
  <2>2. /\ io' \in Writes /\ used' \in 0 .. MaxOps /\ fails' \in 0 .. MaxFails /\ open' \in BOOLEAN
        /\ wrong' \in BOOLEAN /\ cache' \in [Units -> 0 .. Absent] /\ dirty' \subseteq Pages
    BY <1>1 DEF DataTypeOK, Writes
  <2> QED
    BY ONLY <1>3, <1>4, <1>5, <1>6, <2>1, <2>2 DEF DataTypeOK, Writes
<1>8. PagesWhole'
  BY <1>1 DEF PagesWhole
<1>9. SizesInv'
  BY <1>2, DataAssumption DEF SizesInv, Beside
<1>10. ASSUME Spoilt' = {} PROVE WriteInv' /\ ContentsInv'
  <2>1. WriteInv /\ ContentsInv
    BY <1>10, Unspoilt
  <2>2. io = Idle /\ Header = 0 /\ ~(lowerEof > fs) /\ spoilers' = spoilers
    BY <1>10, DataAssumption DEF Spoilt, Beside, Regrown
  <2>3. vdl = fs /\ size = fs /\ lowerEof = fs
    BY <1>1, <2>1, <2>2, Typed DEF WriteInv
  <2>4. eof \in Nat /\ fs \in Nat
    BY <1>1, Typed, DataAssumption
  <2>5. Larger(0, eof - Header) = eof /\ Smaller(eof, lowerEof) = fs /\ Smaller(size, fs') = fs
    BY <2>2, <2>3, <2>4 DEF Larger, Smaller
  <2>6. lowerEof' = eof /\ \A u \in Units : disk'[u] = IF u >= fs THEN 0 ELSE disk[u]
    BY <2>5 DEF SetLowerEof
  <2>7. WriteInv'
    BY <2>1, <2>2, <2>4, <2>6 DEF WriteInv
  <2>8. \A u \in Units : Target(u)' = text'[u] /\ Target(u) = text[u]
    BY <2>2 DEF Target, Idle
  <2>9. \A u \in Units : u \in Nat /\ text'[u] = (IF u < fs THEN text[u] ELSE 0)
    BY <2>5, UnitPage
  <2>10. \A u \in Units : text'[u] = text[u]
    <3> SUFFICES ASSUME NEW u \in Units PROVE text'[u] = text[u]
      OBVIOUS
    <3>1. u >= fs => text[u] = 0
      BY <2>1, <2>3 DEF ContentsInv
    <3> QED
      BY ONLY <2>4, <2>9, <3>1
  <2>11. \A u \in Units : u >= eof => u >= fs
    BY <2>4, <2>9
  <2>12. \A u \in Units : u >= fs => text[u] = 0
    BY <2>1, <2>3 DEF ContentsInv
  <2>13. \A u \in Units : (u < eof /\ PageOf(u) \notin dirty) => disk'[u] = text[u]
    <3> SUFFICES ASSUME NEW u \in Units, PageOf(u) \notin dirty PROVE disk'[u] = text[u]
      OBVIOUS
    <3>1. u < fs => disk[u] = text[u]
      BY <2>1, <2>8 DEF ContentsInv
    <3> QED
      BY ONLY <2>4, <2>6, <2>9, <2>12, <3>1
  <2> QED
    BY <2>1, <2>7, <2>8, <2>10, <2>11, <2>12, <2>13 DEF ContentsInv
<1> QED
  BY <1>7, <1>8, <1>9, <1>10, Kept

LEMMA EofKeeps == ASSUME DataInv, ProcessSetFileEndOfFileInformation PROVE DataInv'
<1>0. PICK eof \in 0 .. N :
          \/ /\ eof < fs
             /\ fs' = eof /\ alloc' = RoundUp(eof) /\ vdl' = Smaller(vdl, eof)
             /\ SetLowerEof(eof)
             /\ cache' = Cut(eof) /\ dirty' = Within(eof)
             /\ spoilers' = spoilers \cup Beside
          \/ eof = fs /\ UNCHANGED << sizes, lower, cache, dirty, spoilers >>
          \/ /\ eof > fs
             /\ fs' = eof /\ alloc' = RoundUp(eof) /\ vdl' = eof
             /\ SetLowerEof(Larger(0, eof - Header))
             /\ UNCHANGED << cache, dirty >>
             /\ spoilers' = spoilers \cup Beside \cup (IF Header > 0 THEN {"header"} ELSE {})
                           \cup Regrown(eof)
  BY DEF ProcessSetFileEndOfFileInformation
<1>1. /\ open /\ used < MaxOps /\ used' = used + 1
      /\ open' = open /\ wrong' = wrong /\ io' = io /\ fails' = fails
      /\ size' = fs' /\ text' = [u \in Units |-> IF u < Smaller(size, fs') THEN text[u] ELSE 0]
  BY DEF ProcessSetFileEndOfFileInformation, Begin
<1>2. DataTypeOK
  BY DEF DataInv
<1>3. used' \in 0 .. MaxOps
  BY <1>1, <1>2, DataAssumption DEF DataTypeOK
<1>4. CASE /\ eof < fs
           /\ fs' = eof /\ alloc' = RoundUp(eof) /\ vdl' = Smaller(vdl, eof)
           /\ SetLowerEof(eof)
           /\ cache' = Cut(eof) /\ dirty' = Within(eof)
           /\ spoilers' = spoilers \cup Beside
  BY <1>1, <1>3, <1>4, ShorterKeeps
<1>5. CASE eof = fs /\ UNCHANGED << sizes, lower, cache, dirty, spoilers >>
  <2>1. /\ fs' = fs /\ vdl' = vdl /\ alloc' = alloc /\ disk' = disk /\ lowerEof' = lowerEof
        /\ cache' = cache /\ dirty' = dirty /\ spoilers' = spoilers
    BY <1>5 DEF sizes, lower
  <2>2. text' \in [Units -> 0 .. MaxOps]
    BY <1>1, <1>2, Typed
  <2>3. \A u \in Units : u < Smaller(size, fs') <=> u < size /\ u < fs'
    BY <1>2, <2>1, Typed, UnitPage DEF Smaller
  <2>4. \A u \in Units : text'[u] = IF u < size /\ u < fs' THEN text[u] ELSE 0
    BY <1>1, <2>3
  <2> QED
    BY ONLY DataInv, <1>1, <1>3, <2>1, <2>2, <2>4, SameSizeKeeps
<1>6. CASE /\ eof > fs
           /\ fs' = eof /\ alloc' = RoundUp(eof) /\ vdl' = eof
           /\ SetLowerEof(Larger(0, eof - Header))
           /\ UNCHANGED << cache, dirty >>
           /\ spoilers' = spoilers \cup Beside \cup (IF Header > 0 THEN {"header"} ELSE {})
                         \cup Regrown(eof)
  BY <1>1, <1>3, <1>6, LongerKeeps
<1> QED
  BY <1>0, <1>4, <1>5, <1>6

LEMMA AllocationKeeps == ASSUME DataInv, ProcessSetFileAllocationInformation PROVE DataInv'
<1>0. PICK a \in 0 .. N :
          IF RoundUp(a) >= alloc
            THEN UNCHANGED << sizes, cache, dirty, spoilers >>
            ELSE /\ alloc' = RoundUp(a)
                 /\ fs' = Smaller(fs, alloc') /\ vdl' = Smaller(vdl, fs')
                 /\ cache' = Cut(fs') /\ dirty' = Within(fs')
                 /\ spoilers' = spoilers \cup (IF fs' < fs THEN {"alloc"} ELSE {})
  BY DEF ProcessSetFileAllocationInformation
<1>1. /\ io = Idle /\ open /\ used < MaxOps /\ used' = used + 1
      /\ open' = open /\ wrong' = wrong /\ io' = io /\ fails' = fails
      /\ disk' = disk /\ lowerEof' = lowerEof
      /\ size' = fs' /\ text' = [u \in Units |-> IF u < fs' THEN text[u] ELSE 0]
  BY DEF ProcessSetFileAllocationInformation, Begin, lower
<1>2. DataTypeOK /\ PagesWhole /\ SizesInv
  BY DEF DataInv
<1>3. used' \in 0 .. MaxOps
  BY <1>1, <1>2, DataAssumption DEF DataTypeOK
<1>4. text' \in [Units -> 0 .. MaxOps]
  BY <1>1, <1>2, Typed
<1>5. CASE RoundUp(a) >= alloc
  <2>1. /\ fs' = fs /\ vdl' = vdl /\ alloc' = alloc
        /\ cache' = cache /\ dirty' = dirty /\ spoilers' = spoilers
    BY <1>0, <1>5 DEF sizes
  <2>2. DataTypeOK'
    <3>1. {fs', vdl', alloc', size'} \subseteq 0 .. N
      BY <1>1, <1>2, <2>1 DEF DataTypeOK
    <3> QED
      BY <1>1, <1>2, <1>3, <1>4, <2>1, <3>1 DEF DataTypeOK
  <2>3. PagesWhole' /\ SizesInv'
    BY <1>1, <1>2, <2>1 DEF PagesWhole, SizesInv
  <2>4. ASSUME Spoilt' = {} PROVE WriteInv' /\ ContentsInv'
    <3>1. WriteInv /\ ContentsInv
      BY <1>1, <2>1, <2>4, Unspoilt
    <3>2. size' = size /\ size = fs
      BY <1>1, <2>1, <3>1 DEF WriteInv
    <3>3. \A u \in Units : text'[u] = text[u]
      <4> SUFFICES ASSUME NEW u \in Units PROVE text'[u] = text[u]
        OBVIOUS
      <4>1. u < fs \/ u >= fs
        BY <1>2, Typed, UnitPage
      <4>2. u >= fs => text[u] = 0
        BY <3>1, <3>2 DEF ContentsInv
      <4> QED
        BY <1>1, <2>1, <4>1, <4>2
    <3>4. \A u \in Units : Target(u)' = Target(u)
      BY <1>1, <3>3 DEF Target, Span
    <3>5. WriteInv'
      BY <1>1, <2>1, <3>1, <3>2 DEF WriteInv
    <3> QED
      BY <1>1, <2>1, <3>1, <3>2, <3>3, <3>4, <3>5 DEF ContentsInv
  <2> QED
    BY <1>1, <2>1, <2>2, <2>3, <2>4, Kept
<1>6. CASE ~(RoundUp(a) >= alloc)
  <2>1. /\ alloc' = RoundUp(a)
        /\ fs' = Smaller(fs, alloc') /\ vdl' = Smaller(vdl, fs')
        /\ cache' = Cut(fs') /\ dirty' = Within(fs')
        /\ spoilers' = spoilers \cup (IF fs' < fs THEN {"alloc"} ELSE {})
    BY <1>0, <1>6
  <2>2. alloc' \in 0 .. N
    BY <2>1, Rounded
  <2>3. fs \in 0 .. N /\ vdl \in 0 .. N /\ N \in Nat
    BY <1>2, DataAssumption DEF DataTypeOK
  <2>4. fs' \in 0 .. N /\ fs' <= fs /\ fs' <= alloc' /\ vdl' \in 0 .. N /\ vdl' <= fs'
    BY ONLY <2>1, <2>2, <2>3 DEF Smaller
  <2>5. /\ cache' \in [Units -> 0 .. Absent] /\ dirty' \subseteq Pages /\ PagesWhole'
        /\ \A u \in Units : u < fs' => cache'[u] = cache[u] /\ (PageOf(u) \notin dirty' => PageOf(u) \notin dirty)
        /\ \A u \in Units : u >= fs' => cache'[u] \in {0, Absent}
    BY <1>1, <1>2, <2>1, <2>4, CutOff
  <2>6. DataTypeOK'
    <3>1. {fs', vdl', alloc', size'} \subseteq 0 .. N
      BY <1>1, <2>2, <2>4
    <3>2. /\ io' \in Writes /\ fails' \in 0 .. MaxFails /\ open' \in BOOLEAN
          /\ wrong' \in BOOLEAN /\ lowerEof' \in 0 .. N /\ disk' \in [Units -> 0 .. Garbage]
      BY <1>1, <1>2 DEF DataTypeOK, Writes
    <3>3. spoilers' \subseteq AllCauses
      BY <1>2, <2>1 DEF DataTypeOK, AllCauses
    <3> QED
      BY ONLY <1>3, <1>4, <2>5, <3>1, <3>2, <3>3 DEF DataTypeOK, Writes
  <2>7. SizesInv'
    BY <1>1, <2>4 DEF SizesInv
  <2>8. ASSUME Spoilt' = {} PROVE WriteInv' /\ ContentsInv'
    <3>1. WriteInv /\ ContentsInv
      BY <1>1, <2>1, <2>8, Unspoilt
    <3>2. vdl = fs /\ size = fs /\ fs <= lowerEof /\ (spoilers = {} => lowerEof = fs)
      BY <1>1, <3>1 DEF WriteInv
    <3>3. vdl' = fs'
      BY <2>1, <2>3, <2>4, <3>2 DEF Smaller
    <3>4. fs' <= lowerEof'
      BY <1>1, <1>2, <2>4, <3>2, Typed
    <3>5. spoilers' = {} => lowerEof' = fs'
      <4>1. spoilers' = {} => spoilers = {} /\ ~(fs' < fs)
        BY <2>1
      <4>2. ~(fs' < fs) => fs' = fs
        BY ONLY <2>3, <2>4
      <4> QED
        BY <1>1, <3>2, <4>1, <4>2
    <3>6. size' <= fs'
      BY <1>1, <2>4, DataAssumption
    <3>7. WriteInv'
      BY <1>1, <3>3, <3>4, <3>5, <3>6 DEF WriteInv
    <3>8. \A u \in Units : u < fs' => disk'[u] = disk[u]
      BY <1>1
    <3>9. ContentsInv'
      BY ONLY <1>1, <1>2, <2>4, <2>5, <3>1, <3>3, <3>8, CutRight
    <3> QED
      BY <3>7, <3>9
  <2> QED
    BY <1>1, <2>1, <2>5, <2>6, <2>7, <2>8, Kept
<1> QED
  BY <1>5, <1>6

-----------------------------------------------------------------------------
(* The last cleanup, and the whole. *)

\* The last cleanup: the file is in the lower file.
LEMMA CleanupKeeps == ASSUME DataInv, Cleanup PROVE DataInv'
<1> DEFINE zero == Span(vdl, fs)
           flushed == {u \in Units : u < fs /\ PageOf(u) \in dirty \cup PagesOf(zero)}
           filled == [u \in Units |-> IF u \in zero THEN 0 ELSE WithPages(PagesOf(zero))[u]]
<1>1. /\ open /\ io = Idle /\ open' = FALSE
      /\ disk' = [u \in Units |-> IF u \in flushed THEN filled[u] ELSE disk[u]]
      /\ lowerEof' = IF flushed = {} THEN lowerEof ELSE Larger(lowerEof, Max(flushed) + 1)
      /\ vdl' = fs
      /\ cache' = [u \in Units |-> Absent] /\ dirty' = {}
      /\ fs' = fs /\ alloc' = alloc /\ text' = text /\ size' = size /\ io' = io
      /\ used' = used /\ fails' = fails /\ wrong' = wrong /\ spoilers' = spoilers
  BY DEF Cleanup, owed
<1>2. DataTypeOK /\ PagesWhole /\ SizesInv /\ ReadsExplained
  BY DEF DataInv
<1>3. zero \in SUBSET Units /\ flushed \in SUBSET Units
  BY SpanUnits
<1>4. /\ \A u \in Units : WithPages(PagesOf(zero))[u] \in 0 .. Absent
      /\ \A u \in Units : PageOf(u) \in dirty \cup PagesOf(zero) => WithPages(PagesOf(zero))[u] # Absent
      /\ \A u \in Units : WithPages(PagesOf(zero))[u] =
                              IF PageOf(u) \in PagesOf(zero) /\ cache[u] = Absent THEN PagedIn(u) ELSE cache[u]
  BY <1>2, <1>3, FaultedIn
<1>5. \A u \in flushed : filled[u] \in 0 .. Garbage
  <2>1. \A x \in 0 .. Absent : x # Absent => x \in 0 .. Garbage
    BY DataAssumption DEF Absent, Garbage
  <2>2. 0 \in 0 .. Garbage
    BY DataAssumption DEF Garbage
  <2> QED
    BY <1>4, <2>1, <2>2
<1>6. disk' \in [Units -> 0 .. Garbage]
  BY <1>1, <1>2, <1>5, Typed
<1>7. ASSUME flushed # {} PROVE Max(flushed) \in Nat /\ Max(flushed) < fs /\ Max(flushed) < N
  <2>1. Max(flushed) \in flushed
    BY <1>3, <1>7, LastUnit
  <2> QED
    BY <2>1, UnitPage
<1>8. lowerEof' \in 0 .. N
  BY <1>1, <1>2, <1>7, Typed DEF Larger
<1>9. cache' \in [Units -> 0 .. Absent]
  BY <1>1, DataAssumption DEF Absent
<1>10. DataTypeOK'
  <2>1. {fs', vdl', alloc', size'} \subseteq 0 .. N
    BY <1>1, <1>2 DEF DataTypeOK
  <2> QED
    BY <1>1, <1>2, <1>6, <1>8, <1>9, <2>1 DEF DataTypeOK
<1>11. PagesWhole' /\ ReadsExplained'
  BY <1>1, <1>2 DEF PagesWhole, ReadsExplained, Spoilt
<1>12. SizesInv'
  BY <1>1, <1>2, Typed DEF SizesInv
<1>13. ASSUME Spoilt' = {}
       PROVE  /\ lowerEof' >= size' /\ (spoilers' = {} => lowerEof' = size')
              /\ \A u \in Span(0, size') : disk'[u] = text'[u]
  <2>1. WriteInv /\ ContentsInv
    BY <1>1, <1>13 DEF DataInv, Spoilt
  <2>2. vdl = fs /\ size = fs /\ fs <= lowerEof /\ (spoilers = {} => lowerEof = fs)
    BY <1>1, <2>1 DEF WriteInv
  <2>3. lowerEof' = lowerEof
    BY <1>1, <1>2, <1>7, <2>2, Typed DEF Larger
  <2>4. zero = {} /\ PagesOf(zero) = {}
    <3>1. zero = {}
      BY <1>2, <2>2, Typed, UnitPage DEF Span
    <3> QED
      BY <3>1 DEF PagesOf
  <2>5. \A u \in Units : Target(u) = text[u]
    BY <1>1 DEF Target, Idle
  <2>6. ASSUME NEW u \in Units, u < fs PROVE disk'[u] = text[u]
    <3>1. CASE PageOf(u) \in dirty
      <4>1. u \in flushed /\ u \notin zero
        BY <2>4, <2>6, <3>1
      <4>2. disk'[u] = cache[u]
        BY <1>1, <1>4, <2>4, <4>1
      <4>3. cache[u] # Absent
        BY <1>2, <3>1 DEF PagesWhole
      <4> QED
        BY <2>1, <2>5, <4>2, <4>3 DEF ContentsInv
    <3>2. CASE PageOf(u) \notin dirty
      <4>1. u \notin flushed
        BY <2>4, <3>2
      <4>2. disk'[u] = disk[u]
        BY <1>1, <4>1
      <4> QED
        BY <2>1, <2>5, <2>6, <3>2, <4>2 DEF ContentsInv
    <3> QED
      BY <3>1, <3>2
  <2>7. lowerEof' >= size'
    BY <1>1, <1>2, <2>2, <2>3, Typed
  <2>8. \A u \in Span(0, size') : disk'[u] = text'[u]
    BY <1>1, <2>2, <2>6 DEF Span
  <2> QED
    BY <1>1, <2>2, <2>3, <2>7, <2>8
<1>14. CleanupComplete'
  BY <1>13 DEF CleanupComplete
<1> QED
  BY <1>1, <1>10, <1>11, <1>12, <1>14 DEF DataInv

LEMMA DataStarts == DataInit => DataInv
<1> SUFFICES ASSUME DataInit PROVE DataInv
  OBVIOUS
<1>1. /\ fs \in {0, Page} /\ vdl = fs /\ alloc = fs /\ size = fs /\ lowerEof = fs
      /\ disk = [u \in Units |-> 0] /\ text = [u \in Units |-> 0]
      /\ cache = [u \in Units |-> Absent] /\ dirty = {}
      /\ io = Idle /\ used = 0 /\ fails = 0 /\ open = TRUE /\ wrong = FALSE /\ spoilers = {}
  BY DEF DataInit
<1>2. fs \in 0 .. N
  BY <1>1, WholePages, DataAssumption
<1>3. DataTypeOK
  <2>1. {fs, vdl, alloc, size} \subseteq 0 .. N /\ lowerEof \in 0 .. N
    BY <1>1, <1>2
  <2>2. /\ disk \in [Units -> 0 .. Garbage] /\ text \in [Units -> 0 .. MaxOps] /\ cache \in [Units -> 0 .. Absent]
        /\ used \in 0 .. MaxOps /\ fails \in 0 .. MaxFails
    BY <1>1, DataAssumption DEF Garbage, Absent
  <2>3. io \in Writes
    BY <1>1, WriteShape
  <2> QED
    BY ONLY <1>1, <2>1, <2>2, <2>3 DEF DataTypeOK, Writes
<1>4. PagesWhole /\ SizesInv /\ ReadsExplained /\ CleanupComplete
  BY <1>1, <1>2, DataAssumption DEF PagesWhole, SizesInv, ReadsExplained, CleanupComplete
<1>5. WriteInv
  BY <1>1, <1>2, DataAssumption DEF WriteInv
<1>6. ContentsInv
  BY <1>1 DEF ContentsInv, Target, Idle
<1> QED
  BY <1>3, <1>4, <1>5, <1>6 DEF DataInv

LEMMA DataGoesOn == DataInv /\ [DataNext]_dataVars => DataInv'
<1> SUFFICES ASSUME DataInv, [DataNext]_dataVars PROVE DataInv'
  OBVIOUS
<1>1. CASE UNCHANGED dataVars
  <2>1. /\ disk' = disk /\ lowerEof' = lowerEof /\ cache' = cache /\ dirty' = dirty
        /\ fs' = fs /\ vdl' = vdl /\ alloc' = alloc /\ text' = text /\ size' = size /\ io' = io
        /\ used' = used /\ fails' = fails /\ open' = open /\ wrong' = wrong /\ spoilers' = spoilers
    BY <1>1 DEF dataVars
  <2> QED
    BY <2>1 DEF DataInv, DataTypeOK, PagesWhole, SizesInv, ReadsExplained, CleanupComplete, WriteInv, ContentsInv, Target, Spoilt, Span
<1>2. CASE Closed
  BY <1>1, <1>2 DEF Closed
<1>3. CASE WriteStep
  BY <1>3, CachedStartKeeps, DirectStartKeeps, ZeroKeeps, CopyKeeps, LowerKeeps, ZeroAfterKeeps, FinishKeeps, FailKeeps
     DEF WriteStep
<1>4. CASE SizeStep
  BY <1>4, EofKeeps, AllocationKeeps, ValidKeeps, AdvanceKeeps DEF SizeStep
<1> QED
  BY <1>1, <1>2, <1>3, <1>4, LazyWritesKeep, EvictKeeps, CachedReadKeeps, DirectReadKeeps, CleanupKeeps DEF DataNext

\* What the inductive invariant says between operations.
LEMMA NothingMissing == DataInv => NothingWrittenIsLost
<1> SUFFICES ASSUME DataInv PROVE NothingWrittenIsLost
  OBVIOUS
<1>1. DataTypeOK /\ SizesInv /\ ReadsExplained /\ CleanupComplete
  BY DEF DataInv
<1>2. SizesOrderedUnlessRaced
  BY <1>1 DEF SizesInv, SizesOrderedUnlessRaced
<1>3. CleanIsSafe
  <2> SUFFICES ASSUME io = Idle, Spoilt = {}, open
               PROVE  /\ fs = size
                      /\ \A u \in Span(0, size) : PageOf(u) \notin dirty => PagedIn(u) = text[u]
    BY DEF CleanIsSafe
  <2>1. WriteInv /\ ContentsInv
    BY DEF DataInv
  <2>2. vdl = fs /\ size = fs /\ fs <= lowerEof
    BY <2>1 DEF WriteInv
  <2>3. ASSUME NEW u \in Units, u < size, PageOf(u) \notin dirty PROVE PagedIn(u) = text[u]
    <3>1. disk[u] = text[u]
      BY <2>1, <2>2, <2>3 DEF ContentsInv, Target, Idle
    <3>2. ~(u >= vdl) /\ u < lowerEof
      BY <1>1, <2>2, <2>3, Typed, UnitPage
    <3> QED
      BY <3>1, <3>2 DEF PagedIn
  <2> QED
    BY <2>2, <2>3 DEF Span
<1> QED
  BY <1>1, <1>2, <1>3 DEF NothingWrittenIsLost

\* What a user has written is read, flushed and kept, whatever the size of the file and
\* of a page: a read returns what is owed and the last cleanup leaves it in the lower
\* file, unless one of the named things has happened to the file before.
THEOREM NothingIsLost == DataSpec => []NothingWrittenIsLost
<1>1. DataSpec => []DataInv
  BY DataStarts, DataGoesOn, PTL DEF DataSpec
<1> QED
  BY <1>1, NothingMissing, PTL
=============================================================================
