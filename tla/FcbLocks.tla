------------------------------ MODULE FcbLocks ------------------------------
(***************************************************************************)
(* The two resources of an FCB of the isolation driver and the shared      *)
(* flags that say who holds them (sys-isolation/callbacks/fltRead.cpp,     *)
(* fltWrite.cpp, fltCcFlush.cpp, fltModWrite.cpp, fltFlushBuffers.cpp,     *)
(* fltSectionSynchronization.cpp, cacheManagerCallbacks.cpp and            *)
(* AcquireCmnResource, CloseIrpContext of irpContext.cpp).                 *)
(*                                                                         *)
(* One FCB and the threads that work on it: user reads, writes, flushes    *)
(* and size changes, the lazy writer, read-ahead, the mapped page writer,  *)
(* section creation.  What they do to the data is in FileData.             *)
(***************************************************************************)
EXTENDS Naturals, FiniteSets

CONSTANTS
    Threads,
    Jobs,          \* what threads do in this instance, a subset of AllJobs
    FlagsAtomic,   \* whether |= and &= on Fcb->Flags are one step
    MaxAhead,      \* bound: read-aheads at a time, one for each file object
    MaxJobs        \* bound: jobs started

AllJobs == {"read", "write", "flush", "ccflush", "lazy", "ahead", "mapped", "section", "sizes"}
ASSUME LockAssumption ==
    /\ IsFiniteSet(Threads) /\ Jobs \subseteq AllJobs /\ FlagsAtomic \in BOOLEAN
    /\ MaxAhead \in Nat /\ MaxJobs \in Nat

Resources == {"MainResource", "PagingIoResource"}
StateFlags == {"PGIO_SHARED", "PGIO_EXCLUSIVE", "MAIN_SHARED", "MAIN_EXCLUSIVE"}
PgioFlags == {"PGIO_SHARED", "PGIO_EXCLUSIVE"}
MainFlags == {"MAIN_SHARED", "MAIN_EXCLUSIVE"}
NotFetched == {"not fetched"}

VARIABLES
    owner,         \* how often a thread has acquired a resource
    exclusive,     \* whether it was acquired exclusively
    flags,         \* the FCB_STATE_ flags of Fcb->Flags
    fetched,       \* what a thread has read of them and will write back
    job, pc, started,
    status,        \* COMPLETE_FREE_ flags of the IRP context in progress
    nested,        \* the same of the paging I/O inside it
    toRelease,     \* the resource the mapped page writer was given
    fault,         \* the first step that must not be taken
    crossed        \* history: the ways in which two threads have used the same flags

vars == << owner, exclusive, flags, fetched, job, pc, started, status, nested, toRelease, fault, crossed >>

Labels == {"idle", "main", "work", "pageRead", "readDone", "writeTest", "writeAcquire",
           "writing", "writeDone", "ccMain", "ccMainFlag", "ccPgioTest", "ccPgio", "ccPgioFlag",
           "ccRelease", "ccClear", "ccReleasePgio", "ccClearPgio", "lastPgio", "lazyTest", "lazyAcquire",
           "lazyFlag", "lazyRelease", "lazyClear", "aheadTest", "aheadAcquire", "aheadFlag",
           "aheadRelease", "aheadClear",
           "modTest", "modMain", "modPgio", "modCheck", "modRelease", "section", "pgio", "close"}

TypeOK ==
    /\ owner \in [Resources -> [Threads -> Nat]] /\ exclusive \in [Resources -> BOOLEAN]
    /\ \A r \in Resources :
          exclusive[r] => Cardinality({t \in Threads : owner[r][t] > 0}) = 1
    /\ flags \subseteq StateFlags
    /\ fetched \in [Threads -> (SUBSET StateFlags) \cup {NotFetched}]
    /\ job \in [Threads -> AllJobs \cup {"none"}] /\ pc \in [Threads -> Labels] /\ started \in 0..MaxJobs
    /\ status \in [Threads -> SUBSET Resources] /\ nested \in [Threads -> SUBSET Resources]
    /\ toRelease \in [Threads -> Resources \cup {"none"}]
    /\ fault \in {"none", "not_owner", "assertion"}
    /\ crossed \subseteq {"second", "borrowed", "torn"}

Init ==
    /\ owner = [r \in Resources |-> [t \in Threads |-> 0]]
    /\ exclusive = [r \in Resources |-> FALSE]
    /\ flags = {} /\ fetched = [t \in Threads |-> NotFetched]
    /\ job = [t \in Threads |-> "none"] /\ pc = [t \in Threads |-> "idle"] /\ started = 0
    /\ status = [t \in Threads |-> {}] /\ nested = [t \in Threads |-> {}]
    /\ toRelease = [t \in Threads |-> "none"] /\ fault = "none" /\ crossed = {}

irpVars == << status, nested >>
jobVars == << job, started >>
Goto(t, label) == pc' = [pc EXCEPT ![t] = label]

-----------------------------------------------------------------------------
(* Executive resources. *)

Free(r, t) == \A u \in Threads \ {t} : owner[r][u] = 0
CanShare(r, t) == ~exclusive[r] \/ owner[r][t] > 0
CanOwn(r, t) == Free(r, t) /\ (owner[r][t] > 0 => exclusive[r])

Take(r, t) == owner' = [owner EXCEPT ![r][t] = @ + 1]
Share(r, t) == CanShare(r, t) /\ Take(r, t) /\ UNCHANGED exclusive
Own(r, t) == CanOwn(r, t) /\ Take(r, t) /\ exclusive' = [exclusive EXCEPT ![r] = TRUE]

\* Releasing what the thread does not own stops the system.
Release(r, t) ==
    IF owner[r][t] = 0
      THEN fault' = "not_owner" /\ UNCHANGED << owner, exclusive >>
      ELSE /\ owner' = [owner EXCEPT ![r][t] = @ - 1]
           /\ exclusive' = [exclusive EXCEPT ![r] = @ /\ owner[r][t] > 1]
           /\ UNCHANGED fault

\* SetFlag and ClearFlag: read, modify, write, of a word no lock covers.  A flag may
\* be set beside one of the same resource, and a change that was not read be undone.
UpdateLabels == {"ccMainFlag", "ccPgioFlag", "ccClear", "ccClearPgio", "lazyFlag", "lazyClear",
                 "aheadFlag", "aheadClear", "writing"}
Fetch(t) ==
    /\ ~FlagsAtomic /\ pc[t] \in UpdateLabels /\ fetched[t] = NotFetched
    /\ fetched' = [fetched EXCEPT ![t] = flags]
    /\ UNCHANGED << owner, exclusive, flags, jobVars, pc, irpVars, toRelease, fault, crossed >>

Update(t, add, remove) ==
    /\ FlagsAtomic \/ fetched[t] # NotFetched
    /\ flags' = ((IF FlagsAtomic THEN flags ELSE fetched[t]) \cup add) \ remove
    /\ fetched' = [fetched EXCEPT ![t] = NotFetched]
    /\ crossed' = crossed
         \cup (IF ~FlagsAtomic /\ fetched[t] # flags THEN {"torn"} ELSE {})
         \cup (IF \E group \in {PgioFlags, MainFlags} : add \cap group # {} /\ flags \cap group # {}
              THEN {"second"} ELSE {})

-----------------------------------------------------------------------------
(* Jobs.  One lazy writer and one mapped page writer serve a file. *)

FirstLabel == [j \in AllJobs |->
    CASE j \in {"read", "write", "flush", "sizes"} -> "main"
      [] j = "ccflush" -> "ccMain"
      [] j = "lazy" -> "lazyTest"
      [] j = "ahead" -> "aheadTest"
      [] j = "mapped" -> "modTest"
      [] j = "section" -> "section"]

Start(t, j) ==
    /\ pc[t] = "idle" /\ started < MaxJobs
    /\ j \in {"lazy", "mapped"} => \A u \in Threads : job[u] # j
    /\ j = "ahead" => Cardinality({u \in Threads : job[u] = j}) < MaxAhead
    /\ job' = [job EXCEPT ![t] = j] /\ started' = started + 1
    /\ Goto(t, FirstLabel[j])
    /\ UNCHANGED << owner, exclusive, flags, fetched, irpVars, toRelease, fault, crossed >>

Finish(t) == Goto(t, "idle") /\ job' = [job EXCEPT ![t] = "none"] /\ UNCHANGED started

\* ReadCachedIO and WriteCachedIO, FilterPreFlushBuffers and
\* ProcessSetFileAllocationInformation acquire MAIN; the last one PGIO too.
AcquireMain(t) ==
    /\ pc[t] = "main"
    /\ IF job[t] = "read" THEN Share("MainResource", t) ELSE Own("MainResource", t)
    /\ status' = [status EXCEPT ![t] = @ \cup {"MainResource"}]
    /\ Goto(t, CASE job[t] = "flush" -> "ccMain" [] job[t] = "sizes" -> "pgio" [] OTHER -> "work")
    /\ UNCHANGED << flags, fetched, jobVars, nested, toRelease, fault, crossed >>

AcquirePgio(t) ==
    /\ pc[t] = "pgio" /\ Own("PagingIoResource", t)
    /\ status' = [status EXCEPT ![t] = @ \cup {"PagingIoResource"}]
    /\ Goto(t, "close")
    /\ UNCHANGED << flags, fetched, jobVars, nested, toRelease, fault, crossed >>

\* CcCopyRead and CcCopyWrite find the page in the cache, or fault it in.
Copy(t) ==
    /\ pc[t] = "work"
    /\ Goto(t, "close") \/ Goto(t, "pageRead")
    /\ UNCHANGED << owner, exclusive, flags, fetched, jobVars, irpVars, toRelease, fault, crossed >>

\* CloseIrpContext: PGIO first.
CloseIrpContext(t) ==
    /\ pc[t] = "close"
    /\ \/ /\ "PagingIoResource" \in status[t] /\ Release("PagingIoResource", t)
          /\ status' = [status EXCEPT ![t] = @ \ {"PagingIoResource"}]
          /\ UNCHANGED << pc, jobVars >>
       \/ /\ status[t] = {"MainResource"} /\ Release("MainResource", t)
          /\ status' = [status EXCEPT ![t] = {}]
          /\ Finish(t)
    /\ UNCHANGED << flags, fetched, nested, toRelease, crossed >>

-----------------------------------------------------------------------------
(* Paging I/O, in the thread that needs it. *)

ReadPagingIO(t) ==
    /\ pc[t] = "pageRead" /\ Share("PagingIoResource", t)
    /\ nested' = [nested EXCEPT ![t] = {"PagingIoResource"}]
    /\ Goto(t, "readDone")
    /\ UNCHANGED << flags, fetched, jobVars, status, toRelease, fault, crossed >>

\* Fault: it waits for the flags to be cleared, those of its own thread too.
TestSpins(t) ==
    /\ pc[t] = "writeTest"
    /\ Goto(t, IF flags \cap PgioFlags # {} THEN "writeTest" ELSE "writeAcquire")
    /\ UNCHANGED << owner, exclusive, flags, fetched, jobVars, irpVars, toRelease, fault, crossed >>

\* WritePagingIO looks at the flags to see whether PGIO is held already.
TestPgioHeld(t) ==
    /\ pc[t] = "writeTest"
    /\ Goto(t, IF flags \cap PgioFlags # {} THEN "writing" ELSE "writeAcquire")
    /\ UNCHANGED << owner, exclusive, flags, fetched, jobVars, irpVars, toRelease, fault, crossed >>

\* AcquireCmnResource( FCB_PGIO_EXCLUSIVE ) asserts that the thread does not
\* hold it shared, and gives up if it does.
AcquirePgioExclusive(t) ==
    LET r == "PagingIoResource" IN
    /\ pc[t] = "writeAcquire"
    /\ \/ /\ owner[r][t] > 0 /\ ~exclusive[r]
          /\ fault' = "assertion" /\ UNCHANGED << owner, exclusive, nested >>
       \/ /\ Own(r, t) /\ nested' = [nested EXCEPT ![t] = {r}] /\ UNCHANGED fault
    /\ Goto(t, "writing")
    /\ UNCHANGED << flags, fetched, jobVars, status, toRelease, crossed >>

\* The write itself sets FCB_STATE_FILE_MODIFIED, in the same word.
WritePage(t) ==
    /\ pc[t] = "writing" /\ Update(t, {}, {})
    /\ Goto(t, "writeDone")
    /\ UNCHANGED << owner, exclusive, jobVars, irpVars, toRelease, fault >>

AfterPaging == [j \in AllJobs |->
    CASE j = "lazy" -> "lazyRelease" [] j = "ahead" -> "aheadRelease" [] j = "mapped" -> "modRelease"
      [] j \in {"flush", "ccflush"} -> "ccRelease" [] OTHER -> "close"]

ClosePaging(t) ==
    /\ pc[t] \in {"readDone", "writeDone"}
    /\ IF nested[t] = {} THEN UNCHANGED << owner, exclusive, fault >> ELSE Release("PagingIoResource", t)
    /\ nested' = [nested EXCEPT ![t] = {}]
    /\ Goto(t, AfterPaging[job[t]])
    /\ UNCHANGED << flags, fetched, jobVars, status, toRelease, crossed >>

-----------------------------------------------------------------------------
(* FilterPreAcquireCcFlush and FilterPreReleaseCcFlush, around CcFlushCache. *)

AcquireCcFlush_Main(t) ==
    /\ pc[t] = "ccMain"
    /\ IF owner["MainResource"][t] = 0 THEN Own("MainResource", t) ELSE Share("MainResource", t)
    /\ Goto(t, "ccMainFlag")
    /\ UNCHANGED << flags, fetched, jobVars, irpVars, toRelease, fault, crossed >>

\* Which of the two flags is set makes no difference to any test of them.
AcquireCcFlush_MainFlag(t) ==
    /\ pc[t] = "ccMainFlag"
    /\ \E f \in MainFlags : Update(t, {f}, {})
    /\ Goto(t, "ccPgioTest")
    /\ UNCHANGED << owner, exclusive, jobVars, irpVars, toRelease, fault >>

\* It does not acquire what the flags say is held, whoever holds it.
AcquireCcFlush_Test(t) ==
    /\ pc[t] = "ccPgioTest"
    /\ Goto(t, IF flags \cap PgioFlags # {} THEN "writeTest" ELSE "ccPgio")
    /\ crossed' = IF flags \cap PgioFlags # {} THEN crossed \cup {"borrowed"} ELSE crossed
    /\ UNCHANGED << owner, exclusive, flags, fetched, jobVars, irpVars, toRelease, fault >>

AcquireCcFlush_Pgio(t) ==
    /\ pc[t] = "ccPgio" /\ Own("PagingIoResource", t)
    /\ Goto(t, "ccPgioFlag")
    /\ UNCHANGED << flags, fetched, jobVars, irpVars, toRelease, fault, crossed >>

AcquireCcFlush_PgioFlag(t) ==
    /\ pc[t] = "ccPgioFlag" /\ Update(t, {"PGIO_EXCLUSIVE"}, {})
    /\ Goto(t, "writeTest")
    /\ UNCHANGED << owner, exclusive, jobVars, irpVars, toRelease, fault >>

\* Released is what the flags say, whoever set them; they are cleared after it.
ReleaseIfFlagged(r, group, t, clear, otherwise) ==
    IF flags \cap group # {}
      THEN Release(r, t) /\ Goto(t, clear)
      ELSE UNCHANGED << owner, exclusive, fault >> /\ Goto(t, otherwise)

ReleaseCcFlush_Main(t) ==
    /\ pc[t] = "ccRelease"
    /\ ReleaseIfFlagged("MainResource", MainFlags, t, "ccClear", "ccReleasePgio")
    /\ UNCHANGED << flags, fetched, jobVars, irpVars, toRelease, crossed >>

ReleaseCcFlush_ClearMain(t) ==
    /\ pc[t] = "ccClear" /\ Update(t, {}, MainFlags)
    /\ Goto(t, "ccReleasePgio")
    /\ UNCHANGED << owner, exclusive, jobVars, irpVars, toRelease, fault >>

Flushed == [t \in Threads |-> IF job[t] = "flush" THEN "lastPgio" ELSE "idle"]
EndOf(t) == job' = [job EXCEPT ![t] = IF @ = "flush" THEN @ ELSE "none"]

ReleaseCcFlush_Pgio(t) ==
    /\ pc[t] = "ccReleasePgio"
    /\ ReleaseIfFlagged("PagingIoResource", PgioFlags, t, "ccClearPgio", Flushed[t])
    /\ IF flags \cap PgioFlags # {} THEN UNCHANGED job ELSE EndOf(t)
    /\ UNCHANGED << flags, fetched, started, irpVars, toRelease, crossed >>

ReleaseCcFlush_ClearPgio(t) ==
    /\ pc[t] = "ccClearPgio" /\ Update(t, {}, PgioFlags)
    /\ Goto(t, Flushed[t]) /\ EndOf(t)
    /\ UNCHANGED << owner, exclusive, started, irpVars, toRelease, fault >>

\* FilterPreFlushBuffers waits for the paging I/O in progress: it acquires
\* PGIO and releases it at once.
AwaitPaging(t) ==
    /\ pc[t] = "lastPgio" /\ CanOwn("PagingIoResource", t)
    /\ Goto(t, "close")
    /\ UNCHANGED << owner, exclusive, flags, fetched, jobVars, irpVars, toRelease, fault, crossed >>

-----------------------------------------------------------------------------
(* The callbacks of the cache manager. *)

CcAcquireForLazyWrite_Test(t) ==
    /\ pc[t] = "lazyTest"
    /\ IF flags \cap PgioFlags = {} THEN Goto(t, "lazyAcquire") /\ UNCHANGED jobVars ELSE Finish(t)
    /\ UNCHANGED << owner, exclusive, flags, fetched, irpVars, toRelease, fault, crossed >>

\* The callbacks are called with Wait TRUE or FALSE.
CcAcquireForLazyWrite(t) ==
    /\ pc[t] = "lazyAcquire"
    /\ \/ Share("PagingIoResource", t) /\ Goto(t, "lazyFlag") /\ UNCHANGED jobVars
       \/ ~CanShare("PagingIoResource", t) /\ Finish(t) /\ UNCHANGED << owner, exclusive >>
    /\ UNCHANGED << flags, fetched, irpVars, toRelease, fault, crossed >>

CcAcquireForLazyWrite_Flag(t) ==
    /\ pc[t] = "lazyFlag" /\ Update(t, {"PGIO_SHARED"}, {})
    /\ Goto(t, "writeTest")
    /\ UNCHANGED << owner, exclusive, jobVars, irpVars, toRelease, fault >>

CcReleaseFromLazyWrite(t) ==
    /\ pc[t] = "lazyRelease"
    /\ ReleaseIfFlagged("PagingIoResource", PgioFlags, t, "lazyClear", "idle")
    /\ job' = [job EXCEPT ![t] = IF flags \cap PgioFlags # {} THEN @ ELSE "none"]
    /\ UNCHANGED << flags, fetched, started, irpVars, toRelease, crossed >>

CcReleaseFromLazyWrite_Clear(t) ==
    /\ pc[t] = "lazyClear" /\ Update(t, {}, PgioFlags) /\ Finish(t)
    /\ UNCHANGED << owner, exclusive, irpVars, toRelease, fault >>

CcAcquireForReadAhead_Test(t) ==
    /\ pc[t] = "aheadTest"
    /\ IF flags \cap MainFlags = {} THEN Goto(t, "aheadAcquire") /\ UNCHANGED jobVars ELSE Finish(t)
    /\ UNCHANGED << owner, exclusive, flags, fetched, irpVars, toRelease, fault, crossed >>

CcAcquireForReadAhead(t) ==
    /\ pc[t] = "aheadAcquire"
    /\ \/ Share("MainResource", t) /\ Goto(t, "aheadFlag") /\ UNCHANGED jobVars
       \/ ~CanShare("MainResource", t) /\ Finish(t) /\ UNCHANGED << owner, exclusive >>
    /\ UNCHANGED << flags, fetched, irpVars, toRelease, fault, crossed >>

CcAcquireForReadAhead_Flag(t) ==
    /\ pc[t] = "aheadFlag" /\ Update(t, {"MAIN_SHARED"}, {})
    /\ Goto(t, "pageRead")
    /\ UNCHANGED << owner, exclusive, jobVars, irpVars, toRelease, fault >>

CcReleaseFromReadAhead(t) ==
    /\ pc[t] = "aheadRelease"
    /\ ReleaseIfFlagged("MainResource", MainFlags, t, "aheadClear", "idle")
    /\ job' = [job EXCEPT ![t] = IF flags \cap MainFlags # {} THEN @ ELSE "none"]
    /\ UNCHANGED << flags, fetched, started, irpVars, toRelease, crossed >>

\* Fault: the flags are not cleared.
AheadNotCleared(t) ==
    /\ pc[t] = "aheadClear" /\ Update(t, {}, {}) /\ Finish(t)
    /\ UNCHANGED << owner, exclusive, irpVars, toRelease, fault >>

CcReleaseFromReadAhead_Clear(t) ==
    /\ pc[t] = "aheadClear" /\ Update(t, {}, MainFlags) /\ Finish(t)
    /\ UNCHANGED << owner, exclusive, irpVars, toRelease, fault >>

-----------------------------------------------------------------------------
(* The mapped page writer, which does not wait: STATUS_CANT_WAIT ends it.    *)
(* Whether the end of its range lies beyond ValidDataLength may change.      *)

GiveUp(t) == Finish(t) /\ UNCHANGED << owner, exclusive, toRelease >>

AcquireModWrite_Choose(t) ==
    /\ pc[t] = "modTest"
    /\ Goto(t, "modMain") \/ Goto(t, "modPgio")
    /\ UNCHANGED << owner, exclusive, flags, fetched, jobVars, irpVars, toRelease, fault, crossed >>

AcquireModWrite_Main(t) ==
    /\ pc[t] = "modMain"
    /\ \/ /\ Own("MainResource", t) /\ Goto(t, "modCheck") /\ UNCHANGED jobVars
          /\ toRelease' = [toRelease EXCEPT ![t] = "MainResource"]
       \/ ~CanOwn("MainResource", t) /\ GiveUp(t)
    /\ UNCHANGED << flags, fetched, irpVars, fault, crossed >>

AcquireModWrite_Pgio(t) ==
    /\ pc[t] = "modPgio"
    /\ \/ /\ Share("PagingIoResource", t) /\ Goto(t, "modCheck") /\ UNCHANGED jobVars
          /\ toRelease' = [toRelease EXCEPT ![t] = "PagingIoResource"]
       \/ ~CanShare("PagingIoResource", t) /\ GiveUp(t)
    /\ UNCHANGED << flags, fetched, irpVars, fault, crossed >>

\* With the lock held it looks again, and changes the lock if it must.
AcquireModWrite_Check(t) ==
    LET r == toRelease[t] IN
    /\ pc[t] = "modCheck"
    /\ \/ Goto(t, "writeTest") /\ UNCHANGED << owner, exclusive, jobVars, toRelease, fault >>
       \/ /\ r = "PagingIoResource"
          /\ Release(r, t) /\ Goto(t, "modMain") /\ UNCHANGED jobVars
          /\ toRelease' = [toRelease EXCEPT ![t] = "none"]
       \/ /\ r = "MainResource"
          /\ exclusive' = [exclusive EXCEPT ![r] = @ /\ owner[r][t] > 1] /\ UNCHANGED fault
          /\ IF CanShare("PagingIoResource", t)
               THEN /\ owner' = [owner EXCEPT ![r][t] = @ - 1, !["PagingIoResource"][t] = @ + 1]
                    /\ toRelease' = [toRelease EXCEPT ![t] = "PagingIoResource"]
                    /\ Goto(t, "writeTest") /\ UNCHANGED jobVars
               ELSE /\ owner' = [owner EXCEPT ![r][t] = @ - 1]
                    /\ toRelease' = [toRelease EXCEPT ![t] = "none"] /\ Finish(t)
    /\ UNCHANGED << flags, fetched, irpVars, crossed >>

\* Fault: the main resource is released whichever was given.
ReleasesMain(t) ==
    /\ pc[t] = "modRelease" /\ Release("MainResource", t)
    /\ toRelease' = [toRelease EXCEPT ![t] = "none"]
    /\ Finish(t)
    /\ UNCHANGED << flags, fetched, irpVars, crossed >>

ReleaseModWrite(t) ==
    /\ pc[t] = "modRelease" /\ Release(toRelease[t], t)
    /\ toRelease' = [toRelease EXCEPT ![t] = "none"]
    /\ Finish(t)
    /\ UNCHANGED << flags, fetched, irpVars, crossed >>

\* FilterPreAcquireSectionSynchronization; CloseIrpContext stands for the
\* release, which is not flagged either.
AcquireSection(t) ==
    /\ pc[t] = "section" /\ Own("MainResource", t)
    /\ status' = [status EXCEPT ![t] = {"MainResource"}]
    /\ Goto(t, "close")
    /\ UNCHANGED << flags, fetched, jobVars, nested, toRelease, fault, crossed >>

-----------------------------------------------------------------------------
UserIo(t) == AcquireMain(t) \/ AcquirePgio(t) \/ Copy(t) \/ CloseIrpContext(t) \/ AcquireSection(t)
PagingIo(t) == ReadPagingIO(t) \/ TestPgioHeld(t) \/ AcquirePgioExclusive(t) \/ WritePage(t) \/ ClosePaging(t)
CcFlush(t) ==
    \/ AcquireCcFlush_Main(t) \/ AcquireCcFlush_MainFlag(t) \/ AcquireCcFlush_Test(t)
    \/ AcquireCcFlush_Pgio(t) \/ AcquireCcFlush_PgioFlag(t)
    \/ ReleaseCcFlush_Main(t) \/ ReleaseCcFlush_ClearMain(t)
    \/ ReleaseCcFlush_Pgio(t) \/ ReleaseCcFlush_ClearPgio(t) \/ AwaitPaging(t)
LazyWrite(t) ==
    \/ CcAcquireForLazyWrite_Test(t) \/ CcAcquireForLazyWrite(t)
    \/ CcAcquireForLazyWrite_Flag(t) \/ CcReleaseFromLazyWrite(t)
    \/ CcReleaseFromLazyWrite_Clear(t)
ReadAhead(t) ==
    \/ CcAcquireForReadAhead_Test(t) \/ CcAcquireForReadAhead(t)
    \/ CcAcquireForReadAhead_Flag(t) \/ CcReleaseFromReadAhead(t)
    \/ CcReleaseFromReadAhead_Clear(t)
ModWrite(t) ==
    \/ AcquireModWrite_Choose(t) \/ AcquireModWrite_Main(t) \/ AcquireModWrite_Pgio(t)
    \/ AcquireModWrite_Check(t) \/ ReleaseModWrite(t)

Step(t) ==
    /\ fault # "not_owner"
    /\ Fetch(t) \/ UserIo(t) \/ PagingIo(t) \/ CcFlush(t) \/ LazyWrite(t) \/ ReadAhead(t) \/ ModWrite(t)

\* All jobs done, the system stopped, or flags used by two threads at a time: one
\* of them may then keep a resource for which the others wait.
Stopped ==
    /\ fault = "not_owner" \/ crossed # {} \/ (started = MaxJobs /\ \A t \in Threads : pc[t] = "idle")
    /\ UNCHANGED vars

Next ==
    \/ fault # "not_owner" /\ \E t \in Threads, j \in Jobs : Start(t, j)
    \/ \E t \in Threads : Step(t)
    \/ Stopped

Spec == Init /\ [][Next]_vars

\* Threads run, and a resource that stays free is granted.
FairSpec == Spec /\ \A t \in Threads : WF_vars(Step(t))

-----------------------------------------------------------------------------
(* Properties. *)

Holds(t) == {r \in Resources : owner[r][t] > 0}

\* Nobody releases what another holds.
ReleasedByOwner == fault # "not_owner"

\* A thread that has finished its job has let go of both resources.
IdleHoldsNothing ==
    fault # "not_owner" => \A t \in Threads : pc[t] = "idle" => Holds(t) = {}

\* While ValidDataLength and the data are written from the cache, the thread
\* that writes holds the paging resource, or the main resource exclusively.
PagingWriteLocked ==
    \A t \in Threads :
       pc[t] = "writing" =>
          \/ owner["PagingIoResource"][t] > 0
          \/ owner["MainResource"][t] > 0 /\ exclusive["MainResource"]

\* cacheManagerCallbacks.hpp:13: the callbacks acquire a lock before the stream is
\* read or written, and release it: by who holds it, in every callback that took it,
\* and not before the data has been written.  That is so until two threads use the
\* flags of one resource: one has set a flag beside another's (second), has left it to
\* another to hold the paging resource (borrowed), or has written back flags that
\* changed after it had read them (torn).
LocksKept ==
    /\ TypeOK
    /\ crossed = {} => ReleasedByOwner /\ IdleHoldsNothing /\ PagingWriteLocked

\* The flags tell the truth: while they say that a resource is held a thread holds
\* it, or has just released it and not cleared them yet.  Only flags written back
\* over a change lie; those of two threads are cleared too early, never too late.
Clearing == {"lazyClear", "aheadClear", "ccClear", "ccClearPgio"}
FlagsTruthful ==
    ("torn" \notin crossed /\ \A t \in Threads : pc[t] \notin Clearing) =>
       /\ flags \cap PgioFlags # {} => \E t \in Threads : owner["PagingIoResource"][t] > 0
       /\ flags \cap MainFlags # {} => \E t \in Threads : owner["MainResource"][t] > 0

\* Whatever is started is finished: no thread waits for a resource for ever, unless
\* two threads have used the same flags, and one of them may have kept what it took.
EventuallyIdle ==
    \A t \in Threads : pc[t] # "idle" ~> (pc[t] = "idle" \/ fault = "not_owner" \/ crossed # {})
=============================================================================
