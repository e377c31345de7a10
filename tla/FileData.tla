------------------------------ MODULE FileData ------------------------------
(***************************************************************************)
(* What the isolation driver does to the data of one file: reads and       *)
(* writes through the cache, beside it and by the cache manager, size      *)
(* changes and the last cleanup (sys-isolation/callbacks/fltRead.cpp,      *)
(* fltWrite.cpp, fltSetInformation.cpp, fltCleanup.cpp).                   *)
(*                                                                         *)
(* The lower file, the cached pages, FileSize and ValidDataLength of the   *)
(* FCB; beside them the contents the users of the file are owed.  Offsets  *)
(* count units, a page and a cluster are Page of them.  A write is one     *)
(* step for each change another thread can see; the lazy writer, which     *)
(* holds the paging resource only, comes in between (FcbLocks).            *)
(***************************************************************************)
EXTENDS Integers, FiniteSets, FiniteSetsExt

CONSTANTS
    N,          \* bound: the largest file
    Page,       \* units in a page, in a cluster and in a sector
    Header,     \* units of metadata before the data in the lower file
    Ops,        \* operations of this instance
    MaxOps,     \* bound: operations started
    MaxFails    \* bound: allocations that fail

AllOps == {"cachedWrite", "directWrite", "cachedRead", "directRead", "setEof", "setAlloc", "setVdl"}
ASSUME DataAssumption ==
    /\ Page \in Nat \ {0} /\ N \in Nat \ {0} /\ N % Page = 0 /\ Header \in Nat
    /\ Ops \subseteq AllOps /\ MaxOps \in Nat /\ MaxFails \in Nat

Units == 0..(N - 1)
Pages == 0..(N \div Page - 1)
PageOf(u) == u \div Page
Garbage == MaxOps + 1    \* what an uninitialised buffer holds
Absent == MaxOps + 2     \* not in the cache
Span(a, b) == {u \in Units : a <= u /\ u < b}
RoundUp(x) == ((x + Page - 1) \div Page) * Page
Smaller(a, b) == IF a < b THEN a ELSE b
Larger(a, b) == IF a > b THEN a ELSE b

VARIABLES
    disk, lowerEof,    \* the lower file, after its header
    cache, dirty,      \* units in the cache; pages to be written
    fs, vdl, alloc,    \* FileSize, ValidDataLength, AllocationSize
    text, size,        \* what the file holds for its users
    io,                \* the write in progress
    used, fails, open,
    wrong,             \* a read has returned something else
    spoilers           \* what has happened that may explain it

dataVars == << disk, lowerEof, cache, dirty, fs, vdl, alloc, text, size, io, used, fails, open, wrong, spoilers >>
sizes == << fs, vdl, alloc >>
lower == << disk, lowerEof >>
owed == << text, size >>

Idle == [kind |-> "idle", step |-> "none", off |-> 0, end |-> 0, value |-> 0, grown |-> FALSE]
AllCauses == {"torn", "beside", "regrown", "header", "failed", "unaligned", "raced", "vdl", "alloc"}

DataTypeOK ==
    /\ disk \in [Units -> 0..Garbage] /\ lowerEof \in 0..N
    /\ cache \in [Units -> 0..Absent] /\ dirty \subseteq Pages
    /\ {fs, vdl, alloc, size} \subseteq 0..N
    /\ text \in [Units -> 0..MaxOps]
    /\ io \in [kind : {"idle", "cached", "direct"}, step : {"none", "zero", "copy", "write", "zeroAfter", "finish"},
               off : 0..N, end : 0..N, value : 0..MaxOps, grown : BOOLEAN]
    /\ used \in 0..MaxOps /\ fails \in 0..MaxFails /\ open \in BOOLEAN
    /\ wrong \in BOOLEAN /\ spoilers \subseteq AllCauses

\* The file holds a page of zeros, or nothing, when it is opened.
DataInit ==
    /\ fs \in {0, Page} /\ vdl = fs /\ alloc = fs /\ size = fs /\ lowerEof = fs
    /\ disk = [u \in Units |-> 0] /\ text = [u \in Units |-> 0]
    /\ cache = [u \in Units |-> Absent] /\ dirty = {}
    /\ io = Idle /\ used = 0 /\ fails = 0 /\ open = TRUE /\ wrong = FALSE /\ spoilers = {}

-----------------------------------------------------------------------------
(* The lower file and the cache. *)

\* FileEndOfFileInformation: what it cuts is lost, what it adds is zero.
SetLowerEof(x) ==
    /\ lowerEof' = x
    /\ disk' = [u \in Units |-> IF u >= Smaller(x, lowerEof) THEN 0 ELSE disk[u]]

\* ReadPagingIO: zeros from ValidDataLength on.  Past the end of the lower
\* file nothing is read.
PagedIn(u) == IF u >= vdl THEN 0 ELSE IF u < lowerEof THEN disk[u] ELSE Garbage
WithPages(ps) == [u \in Units |-> IF PageOf(u) \in ps /\ cache[u] = Absent THEN PagedIn(u) ELSE cache[u]]
PagesOf(us) == {PageOf(u) : u \in us}

\* CcSetFileSizes clears what a smaller file no longer has.
Cut(eof) == [u \in Units |-> IF u < eof \/ cache[u] = Absent THEN cache[u]
                              ELSE IF PageOf(u) * Page < eof THEN 0 ELSE Absent]
Within(eof) == {p \in dirty : p * Page < eof}

\* WritePagingIO, of the pages first to last: up to FileSize.  A write that
\* crosses ValidDataLength copies what is below it into a buffer of that size,
\* and writes all of Length from it.
PagingWritten(first, end) ==
    [u \in Units |->
        IF u \notin Span(first, end) THEN disk[u]
        ELSE IF vdl < fs /\ first < vdl /\ vdl <= u THEN Garbage ELSE cache[u]]

WritePagingIO(ps) ==
    LET first == Min(ps) * Page
        end == Smaller((Max(ps) + 1) * Page, fs)
    IN IF first >= fs
         THEN UNCHANGED << lower, vdl, spoilers >>
         ELSE /\ disk' = PagingWritten(first, end)
              /\ lowerEof' = Larger(lowerEof, end)
              /\ vdl' = IF vdl < fs THEN Larger(vdl, end) ELSE vdl
              /\ spoilers' = spoilers \cup (IF vdl < fs /\ first < vdl /\ vdl < end THEN {"torn"} ELSE {})

\* The lazy writer and the modified page writer take a run of dirty pages.
LazyWrites ==
    /\ open
    /\ \E a, b \in Pages :
          /\ a <= b /\ a..b \subseteq dirty
          /\ WritePagingIO(a..b)
          /\ dirty' = dirty \ (a..b)
    /\ UNCHANGED << cache, fs, alloc, owed, io, used, fails, open, wrong >>

Evict ==
    /\ open
    /\ \E p \in Pages \ dirty :
          /\ \E u \in Units : PageOf(u) = p /\ cache[u] # Absent
          /\ cache' = [u \in Units |-> IF PageOf(u) = p THEN Absent ELSE cache[u]]
    /\ UNCHANGED << lower, dirty, sizes, owed, io, used, fails, open, wrong, spoilers >>

-----------------------------------------------------------------------------
(* WriteCachedIO and WriteNonCachedIO. *)

Begin(kind) ==
    /\ open /\ kind \in Ops /\ used < MaxOps
    /\ used' = used + 1

\* A file that grows into what the lower file has kept of a longer one.
Regrown(end) == IF end > fs /\ lowerEof > fs THEN {"regrown"} ELSE {}

\* A file that grows is grown in the lower file first, then in the FCB; the
\* result of FileEndOfFileInformation is not looked at.
Grow(off, end) ==
    IF end <= fs
      THEN UNCHANGED << lower, fs, alloc >>
      ELSE /\ SetLowerEof(IF vdl < fs /\ off < vdl THEN RoundUp(end) ELSE end)
           /\ fs' = end /\ alloc' = RoundUp(end)

\* ValidDataLength follows the copy, but for a write from inside the data to
\* beyond the end, where it comes first.
WriteCachedIO_Start ==
    /\ io = Idle /\ Begin("cachedWrite")
    /\ \E off \in Units, end \in 1..N :
          /\ off < end /\ Grow(off, end) /\ spoilers' = spoilers \cup Regrown(end)
          /\ vdl' = IF vdl = fs /\ off < vdl /\ end > fs THEN end ELSE vdl
          /\ io' = [kind |-> "cached", step |-> IF off > vdl THEN "zero" ELSE "copy",
                    off |-> off, end |-> end, value |-> used', grown |-> end > fs]
    /\ UNCHANGED << cache, dirty, owed, fails, open, wrong >>

\* SafeCcZeroData( ValidDataLength, ByteOffset - 1 ): CcZeroData stops before
\* the end it is given.
Zeroed(us) ==
    /\ cache' = [u \in Units |-> IF u \in us THEN 0 ELSE WithPages(PagesOf(us))[u]]
    /\ dirty' = dirty \cup PagesOf(us)

SafeCcZeroData ==
    /\ io.step = "zero"
    /\ Zeroed(Span(vdl, io.off - 1))
    /\ io' = [io EXCEPT !.step = IF io.kind = "cached" THEN "copy" ELSE "write"]
    /\ UNCHANGED << lower, sizes, owed, used, fails, open, wrong, spoilers >>

\* Fault: the pages copied into are not marked as changed.
CopyNotDirty ==
    LET us == Span(io.off, io.end) IN
    /\ io.step = "copy"
    /\ cache' = [u \in Units |-> IF u \in us THEN io.value ELSE WithPages(PagesOf(us))[u]]
    /\ io' = [io EXCEPT !.step = "finish"]
    /\ UNCHANGED << lower, dirty, sizes, owed, used, fails, open, wrong, spoilers >>

CopyToCache ==
    LET us == Span(io.off, io.end) IN
    /\ io.step = "copy"
    /\ cache' = [u \in Units |-> IF u \in us THEN io.value ELSE WithPages(PagesOf(us))[u]]
    /\ dirty' = dirty \cup PagesOf(us)
    /\ io' = [io EXCEPT !.step = "finish"]
    /\ UNCHANGED << lower, sizes, owed, used, fails, open, wrong, spoilers >>

\* A swap buffer cannot be allocated, or CcCopyWrite raises: the sizes stay.
WriteFails ==
    /\ io.step \in {"copy", "write"} /\ fails < MaxFails /\ fails' = fails + 1
    /\ io' = Idle
    /\ spoilers' = spoilers \cup (IF io.grown THEN {"failed"} ELSE {})
    /\ UNCHANGED << lower, cache, dirty, sizes, owed, used, open, wrong >>

WriteNonCachedIO_Start ==
    /\ io = Idle /\ Begin("directWrite")
    /\ \E off \in Units, end \in 1..N :
          /\ off < end /\ Grow(off, end) /\ spoilers' = spoilers \cup Regrown(end)
          /\ io' = [kind |-> "direct", off |-> off, end |-> end, value |-> used', grown |-> end > fs,
                    step |-> IF off < vdl \/ (off < fs /\ end <= fs) THEN "write" ELSE "zero"]
    /\ UNCHANGED << cache, dirty, vdl, owed, fails, open, wrong >>

Aligned(off, end) == off % Page = 0 /\ end % Page = 0

\* FltWriteFile, of the lower file; pages of the range stay in the cache.  The
\* lower file system refuses what is not aligned.
WriteLower ==
    LET us == Span(io.off, io.end) IN
    /\ io.step = "write"
    /\ IF Aligned(io.off, io.end)
         THEN /\ disk' = [u \in Units |-> IF u \in us THEN io.value ELSE disk[u]]
              /\ lowerEof' = Larger(lowerEof, io.end)
              /\ io' = [io EXCEPT !.step = IF vdl <= io.off /\ ~io.grown THEN "zeroAfter" ELSE "finish"]
              /\ spoilers' = spoilers \cup (IF \E u \in us : cache[u] # Absent THEN {"beside"} ELSE {})
         ELSE /\ io' = Idle /\ UNCHANGED lower
              /\ spoilers' = spoilers \cup (IF io.grown THEN {"unaligned"} ELSE {})
    /\ UNCHANGED << cache, dirty, sizes, owed, used, fails, open, wrong >>

\* Below FileSize the zeros come after the data, and may cover it when the
\* page they fault in is read before ValidDataLength is moved.
ZeroAfter ==
    LET us == Span(vdl, io.off - 1) IN
    /\ io.step = "zeroAfter"
    /\ Zeroed(us)
    /\ spoilers' = spoilers \cup (IF PagesOf(us) \cap PagesOf(Span(io.off, io.end)) # {} THEN {"beside"} ELSE {})
    /\ io' = [io EXCEPT !.step = "finish"]
    /\ UNCHANGED << lower, sizes, owed, used, fails, open, wrong >>

WriteFinish ==
    /\ io.step = "finish"
    /\ vdl' = Larger(vdl, io.end)
    /\ text' = [u \in Units |-> IF u \in Span(io.off, io.end) THEN io.value ELSE text[u]]
    /\ size' = Larger(size, io.end)
    /\ io' = Idle
    /\ UNCHANGED << lower, cache, dirty, fs, alloc, used, fails, open, wrong, spoilers >>

-----------------------------------------------------------------------------
(* ReadCachedIO and ReadNonCachedIO: how many units are returned, and what.  *)

Owed(off, end) == Larger(0, Smaller(end, size) - off)
Judge(off, end, n, data(_)) ==
    wrong' = (wrong \/ n # Owed(off, end) \/ \E u \in Span(off, off + n) : data(u) # text[u])

CachedCount(off, end) ==
    IF off >= fs THEN 0
    ELSE IF off < vdl THEN Smaller(end, vdl) - off    \* never past ValidDataLength
    ELSE Smaller(end, fs) - off

ReadCachedIO ==
    /\ io = Idle /\ Begin("cachedRead")
    /\ \E off \in Units, end \in 1..N :
          LET fromCache == off < vdl \/ (off > vdl /\ end <= fs)
              us == Span(off, off + CachedCount(off, end))
              pages == WithPages(PagesOf(us))
          IN /\ off < end
             /\ cache' = IF fromCache THEN pages ELSE cache
             /\ Judge(off, end, CachedCount(off, end), LAMBDA u : IF fromCache THEN pages[u] ELSE 0)
    /\ UNCHANGED << lower, dirty, sizes, owed, io, fails, open, spoilers >>

DirectCount(off, end) ==
    IF off >= fs THEN 0
    ELSE IF end <= fs THEN end - off
    ELSE IF off < vdl THEN vdl - off
    ELSE 0

ReadNonCachedIO ==
    /\ io = Idle /\ Begin("directRead")
    /\ \E off \in Units, end \in 1..N :
          LET n == DirectCount(off, end) IN
          /\ off < end /\ Aligned(off, end)
          /\ Judge(off, end, n, PagedIn)
          /\ spoilers' = spoilers \cup (IF PagesOf(Span(off, end)) \cap dirty # {} THEN {"beside"} ELSE {})
    /\ UNCHANGED << lower, cache, dirty, sizes, owed, io, fails, open >>

-----------------------------------------------------------------------------
(* FileEndOfFileInformation, FileAllocationInformation and                   *)
(* FileValidDataLengthInformation.  The first and the last take neither MAIN *)
(* nor, unless they truncate, PGIO: they run beside a write.                 *)

Beside == IF io = Idle THEN {} ELSE {"raced"}

ProcessSetFileEndOfFileInformation ==
    /\ Begin("setEof")
    /\ \E eof \in 0..N :
          \/ /\ eof < fs
             /\ fs' = eof /\ alloc' = RoundUp(eof) /\ vdl' = Smaller(vdl, eof)
             /\ SetLowerEof(eof)
             /\ cache' = Cut(eof) /\ dirty' = Within(eof)
             /\ spoilers' = spoilers \cup Beside
          \/ eof = fs /\ UNCHANGED << sizes, lower, cache, dirty, spoilers >>
          \/ /\ eof > fs    \* grown without zeroing, and without the header's size
             /\ fs' = eof /\ alloc' = RoundUp(eof) /\ vdl' = eof
             /\ SetLowerEof(Larger(0, eof - Header))
             /\ UNCHANGED << cache, dirty >>
             /\ spoilers' = spoilers \cup Beside \cup (IF Header > 0 THEN {"header"} ELSE {})
                           \cup Regrown(eof)
    /\ size' = fs'
    /\ text' = [u \in Units |-> IF u < Smaller(size, fs') THEN text[u] ELSE 0]
    /\ UNCHANGED << io, fails, open, wrong >>

\* AdvanceOnly: the lazy writer tells the file system how far the data goes.
AdvanceOnly ==
    /\ open
    /\ \E eof \in 0..N : eof > fs
    /\ lowerEof # fs /\ Header = 0 /\ SetLowerEof(fs)
    /\ UNCHANGED << cache, dirty, sizes, owed, io, used, fails, open, wrong, spoilers >>

\* The lower file keeps its length; what is cut off is still there.
ProcessSetFileAllocationInformation ==
    /\ io = Idle /\ Begin("setAlloc")
    /\ \E a \in 0..N :
          IF RoundUp(a) >= alloc
            THEN UNCHANGED << sizes, cache, dirty, spoilers >>
            ELSE /\ alloc' = RoundUp(a)
                 /\ fs' = Smaller(fs, alloc') /\ vdl' = Smaller(vdl, fs')
                 /\ cache' = Cut(fs') /\ dirty' = Within(fs')
                 /\ spoilers' = spoilers \cup (IF fs' < fs THEN {"alloc"} ELSE {})
    /\ size' = fs'
    /\ text' = [u \in Units |-> IF u < fs' THEN text[u] ELSE 0]
    /\ UNCHANGED << lower, io, fails, open, wrong >>

\* Whether the lower file system agrees is not known here.
ProcessSetFileValidDataLengthInformation ==
    /\ Begin("setVdl")
    /\ \E v \in 0..lowerEof : v <= fs /\ vdl' = v
    /\ spoilers' = spoilers \cup {"vdl"} \cup Beside
    /\ UNCHANGED << lower, cache, dirty, fs, alloc, owed, io, fails, open, wrong >>

-----------------------------------------------------------------------------
(* FilterPreCleanup of the last handle: zero to the end, flush, purge.       *)

Cleanup ==
    LET zero == Span(vdl, fs)
        flushed == {u \in Units : u < fs /\ PageOf(u) \in dirty \cup PagesOf(zero)}
        filled == [u \in Units |-> IF u \in zero THEN 0 ELSE WithPages(PagesOf(zero))[u]]
    IN /\ open /\ io = Idle /\ open' = FALSE
       /\ disk' = [u \in Units |-> IF u \in flushed THEN filled[u] ELSE disk[u]]
       /\ lowerEof' = IF flushed = {} THEN lowerEof ELSE Larger(lowerEof, Max(flushed) + 1)
       /\ vdl' = fs
       /\ cache' = [u \in Units |-> Absent] /\ dirty' = {}
       /\ UNCHANGED << fs, alloc, owed, io, used, fails, wrong, spoilers >>

Closed == ~open /\ UNCHANGED dataVars

WriteStep == WriteCachedIO_Start \/ WriteNonCachedIO_Start \/ SafeCcZeroData \/ CopyToCache \/ WriteLower \/ ZeroAfter \/ WriteFinish \/ WriteFails
SizeStep == ProcessSetFileEndOfFileInformation \/ ProcessSetFileAllocationInformation
            \/ ProcessSetFileValidDataLengthInformation \/ AdvanceOnly

DataNext == LazyWrites \/ Evict \/ WriteStep \/ ReadCachedIO \/ ReadNonCachedIO \/ SizeStep \/ Cleanup \/ Closed

DataSpec == DataInit /\ [][DataNext]_dataVars

-----------------------------------------------------------------------------
(* Properties. *)

\* A shorter allocation alone spoils no data.
Spoilt == spoilers \ {"alloc"}

\* A read returns what was written, and all of it, unless one of the named
\* things has happened to the file before.
ReadsExplained == wrong => Spoilt # {}

\* They are ordered, and FileSize is within AllocationSize, unless a size was
\* set beside a write.
SizesOrderedUnlessRaced == "raced" \in spoilers \/ (vdl <= fs /\ fs <= alloc)

\* Between operations a page that may be evicted is on the disk, or is zero
\* and beyond ValidDataLength.
CleanIsSafe ==
    (io = Idle /\ Spoilt = {} /\ open) =>
       /\ fs = size
       /\ \A u \in Span(0, size) : PageOf(u) \notin dirty => PagedIn(u) = text[u]

\* What the last cleanup leaves in the lower file is the file.
CleanupComplete ==
    (~open /\ Spoilt = {}) =>
       /\ lowerEof >= size /\ (spoilers = {} => lowerEof = size)
       /\ \A u \in Span(0, size) : disk[u] = text[u]

\* A read returns what was written, and all of it, unless one of the named things has
\* happened to the file before; a page that may be evicted between operations is on
\* the disk, or is zero and beyond ValidDataLength; what the last cleanup leaves in
\* the lower file is the file; and ValidDataLength, FileSize and AllocationSize are
\* ordered unless a size was set beside a write.
NothingWrittenIsLost ==
    /\ DataTypeOK /\ ReadsExplained /\ CleanIsSafe /\ CleanupComplete
    /\ SizesOrderedUnlessRaced

\* fltCreateFile.cpp:427: to change the file size the paging resource must be
\* held.  So no page is written with half of a size change made.
NoTornSizes == "torn" \notin spoilers

-----------------------------------------------------------------------------
(* Why nothing is lost. *)

\* What the file is to hold when the write in progress has ended.
Target(u) == IF io.step = "finish" /\ u \in Span(io.off, io.end) THEN io.value ELSE text[u]

\* A page to be written is in the cache as a whole; nothing is in progress in a file
\* that is closed.
PagesWhole ==
    /\ \A u \in Units : PageOf(u) \in dirty => cache[u] # Absent
    /\ ~open => io = Idle

\* The sizes are ordered, and a write stays below FileSize.
SizesInv ==
    "raced" \notin spoilers => vdl <= fs /\ fs <= alloc /\ (io # Idle => io.end <= fs)

\* Between operations the three sizes are one: ValidDataLength lags behind
\* FileSize only while a write makes the file grow.
WriteInv ==
    /\ size <= fs /\ fs <= lowerEof
    /\ spoilers = {} => lowerEof = fs
    /\ (io = Idle \/ ~io.grown) => vdl = fs /\ size = fs
    /\ (io # Idle /\ io.grown) => io.end = fs
    /\ io # Idle => io.off < io.end /\ io.step # "zeroAfter"

\* Beyond the data there are zeros; what is cached is what the file is to hold, and
\* what may leave the cache is on the disk.
ContentsInv ==
    \A u \in Units :
        /\ (u >= size \/ u >= vdl) => text[u] = 0
        /\ cache[u] # Absent => cache[u] = Target(u)
        /\ (u < fs /\ PageOf(u) \notin dirty) => disk[u] = Target(u)

DataInv ==
    /\ DataTypeOK /\ PagesWhole /\ SizesInv /\ ReadsExplained /\ CleanupComplete
    /\ (open /\ Spoilt = {}) => WriteInv /\ ContentsInv
=============================================================================
