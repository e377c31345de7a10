# Verification of Win-IO-Monitor

TLA+ models of the two file-system minifilters of this repository, the TLC runs
that check them on small instances, and theorems about them checked by TLAPS.
`sys/` stands for the repository's `src/sys/`, `sys-isolation/` for its
`src/sys-isolation/`, `api/` and `cmn/` for `src/api/` and `src/cmn/`.

- [1. The system](#1-the-system)
- [2. Modules](#2-modules)
- [3. The monitor driver](#3-the-monitor-driver)
- [4. The isolation driver](#4-the-isolation-driver)
- [5. Both drivers](#5-both-drivers)
- [6. Runs](#6-runs)
- [7. Where the code differs from what it says](#7-where-the-code-differs-from-what-it-says)
- [8. Proofs](#8-proofs)
- [9. What is not modelled](#9-what-is-not-modelled)
- [10. What is left](#10-what-is-left)

## 1. The system

Two kernel drivers, each with a user-mode DLL, and a Qt control program.

* **WinIOMonitor** watches file I/O. Its callbacks run in the thread that sends
  the IRP, before and after the file system. A process filter says whose I/O
  matters; what matters becomes an event in a queue that the user program
  collects through IOCTLs of a control device. Much of the callbacks' code
  serves one question: has this file just been deleted?
* **WinIOIsolation** sits between applications and the file system: it owns the
  FCB the applications' file objects refer to, caches it, and keeps the
  file system's file object beside it.

### 1.1 WinIOMonitor

| component | state | operations | interacts with |
|---|---|---|---|
| **Delete detection** `sys/callbacks/flt{CreateFile,SetInformation,Cleanup,Close}.cpp` | `CTX_STREAM_CONTEXT`: `NumOps`, `SetDisp`, `DeleteOnClose`, `IsNotified` | pre/post create, set-information, cleanup; pre close | stream contexts, IRP contexts, event queue, transactions; the file system, which deletes |
| **Stream contexts** `sys/utilities/contextMgr.cpp` | one reference-counted block per stream, transaction, instance | allocate, get, get-or-set, release | filter manager |
| **IRP contexts** `sys/irpContext.cpp` | one per IRP: references to contexts, names, the process-filter handle | create, check event, close | all of the above |
| **Process filter** `sys/policies/processFilter.cpp` | `GlobalContext.ProcessFilter` → snapshot (count, list of entries, each with masks) | ref, clone, release, match, count, add, remove, masks, close | callbacks and process-notify routine read, IOCTLs write |
| **Event queue** `sys/notifyMgr.cpp` | a `LIST_ENTRY` list under a spin lock, `CurrentItemCount`, limit 8192 | allocate, queue, collect, free | callbacks produce, an IOCTL consumes |
| **Transactions** `sys/callbacks/callbacks.cpp` | per transaction: list of delete notifications | enlist, commit, rollback | delete detection |
| **Directory, query, network open** callbacks | none of their own | build and close an IRP context | IRP contexts |
| **Instances, registration, client port** `fltInstance.cpp`, `WinIOMonitor_Filter.cpp` | instance context; `ClientPort` | setup, teardown; connect, disconnect | filter manager, user program |
| **Start and unload** `WinIOMonitor.cpp`, `deviceMgmt.cpp` | global context | in order | everything |
| **Control device** `deviceCntl.cpp` | time-out | IOCTLs | process filter, event queue |
| **Process names** `utilities/procNameMgr.cpp` | list of processes under a resource | add, remove (notify routine), search | callbacks |
| **Utilities** | none | buffers, strings, wildcard, OS version | |

### 1.2 WinIOIsolation

| component | state | operations |
|---|---|---|
| **Private FCBs and file objects** `privateFCBMgr.cpp`, create / cleanup / close | shadow FCB: open and cleanup counts, share access, resources, section objects | allocate, look up, open, overwrite, cleanup, close, free |
| **Read, write, paging** | file size, valid data length, cache map | cached and non-cached I/O, lazy writer, section synchronisation |
| **Other callbacks** | sizes, locks, oplocks | set/query information, directory, locks, file-system control, flush |
| **Delete detection** `utilities/detectDelete.cpp` | as in WinIOMonitor, with the race test in force | candidate test, query, notify |
| **IRP contexts** | per IRP | create, close |
| **Policies** `policies/{Global,Process}Filter.cpp` | lists under a resource | add, remove, match |
| **Volumes, process names** | tables | add, remove, search |
| **Communication** | client port, message ids, worker thread, wait for replies | send, reply, time out, disconnect |
| **Metadata, name changer** | a header in each file | read, write, rewrite paths |
| **Driver, filter, device control** | driver status | start, stop, unload |

The user-mode API wraps `DeviceIoControl` and the filter port; the control
application is a Qt user interface; the common libraries are strings, paths and
dynamic binding of kernel functions.

### 1.3 What is hard, and what would make each part correct

| component | hard behaviour | correctness |
|---|---|---|
| Delete detection | callbacks of many handles of one stream read and write four fields without a lock, in the order of *their* completion and not of the file system's; the last cleanup must see what the file system did | no deletion is reported twice, or reported and not real; one is missed only for a nameable reason; reported in the end |
| Stream contexts | two callbacks set a context at once; the loser has to switch; error paths | one context per stream; reference counts exact |
| Process filter | reference counting whose load and increment, decrement, store, compare and free are separate steps; changes clone a list readers walk | the snapshot in force is never freed; a counted one is not freed; no change is lost; nobody sees a list change |
| Event queue | limit, failed allocation, item larger than the buffer, item linked twice | the count is the length; every event is collected, dropped as the oldest, or freed |
| Transactions | notifications wait for an outcome, `IsNotified` is shared with other handles | a rolled back deletion can still be reported later; a committed one is reported once |
| Instances, ports, unload | a context visible before it is filled; two clients; teardown against late callbacks | a callback never sees a half-made or freed object |
| Process names | ids reused; add and remove against searches | the name found is the one the id had |
| Private FCBs | counts of two file objects, close while a create looks the FCB up, the lazy writer's references | an FCB is freed only when nothing refers to it |
| Read, write, paging | the sizes are read and extended under several locks | valid data length never exceeds file size; lock order has no cycle |
| Isolation policies, volumes | lists under a resource | what is matched was configured |
| Communication | reply against time-out and disconnect | a reply reaches the sender that waits for it, and nobody waits for ever |

`PROJECT.json` lists the hazards line by line with the properties that cover
them.

## 2. Modules

| module | what it is | theorems in |
|---|---|---|
| `DeletionReports` | abstract: what delete detection promises | |
| `DeleteDetect` | WinIOMonitor's delete detection, stream and IRP contexts; implements `DeletionReports` | `DeleteDetectProofs` |
| `TransactionalDelete` | deletions inside a transaction: enlist, commit, roll back | `TransactionalDeleteProofs` |
| `PolicySnapshot` | WinIOMonitor's process filter: counted snapshots | `PolicySnapshotProofs` |
| `NotifyQueue` | WinIOMonitor's event queue, with the links of its list | `MonitorDriverProofs` |
| `MonitorControl` | WinIOMonitor's control device and library | `MonitorDriverProofs` |
| `StringLib` | string functions, wildcard match, lists of masks | `MonitorDriverProofs` |
| `DriverLife` | load, failing load, unload of both drivers | `MonitorDriverProofs` |
| `ProcessNames` | the table of process names of both drivers | `IsolationDeleteProofs` |
| `FcbLocks` | the two resources and the flags of an isolation FCB | `FcbLocksProofs` |
| `FileData` | contents, cached pages and sizes of an isolated file | `FileDataProofs` |
| `PrivateFcb` | FCBs of one file: create, cleanup, close | `FcbLocksProofs` |
| `IsolationDelete` | the isolation driver's delete detection | `IsolationDeleteProofs` |
| `IsolationIrp` | instance contexts and the table of volumes | `IsolationDeleteProofs` |
| `IsolationPolicy` | global and process filter: changes and decisions | `IsolationPoliciesProofs` |
| `PolicyPin` | reference counts of the isolation driver's snapshots | `IsolationPoliciesProofs` |
| `IsolationControl` | the isolation driver's control device and library | `IsolationPoliciesProofs` |
| `ClientPorts` | the isolation driver's ports and messages | `IsolationPoliciesProofs` |
| `MCDeleteDetect`, `MCDeleteFailures`, `MCPolicySnapshot` | symmetry and bounds for TLC | |
| `MCMonitorDriver`, `MCIsolationFile`, `MCIsolationPolicies`, `MCIsolationDelete`, `MCProgress` | several components in one run, see section 6 | |

In the code the components of one driver meet in the callbacks: a callback
builds an IRP context, asks the process filter whether the event matters,
brackets the call of the file system with the steps of delete detection, and
puts an event into the queue. They share no variables beyond what each module
models; where one calls into another the callee's effect is an input of the
caller's model (`MonitorControl` and `IsolationControl` have the policies and
the queue as counters and sequences; `PrivateFcb` takes the client's answer from
a set; `FileData` runs under the locks of `FcbLocks`, which says at which of its
steps another thread can come in).

The definitions whose comment starts with *Fault* are not part of a
specification. Each is a plausible mistake in one operation; replacing the
operation by it must break the property it was written for, which shows that
the property depends on the code.

## 3. The monitor driver

### 3.1 DeleteDetect

A thread sends one IRP at a time: pre-operation callback, file system,
post-operation callback. `pc` says where the IRP is, `op`, `hnd`, `flag` what it
asks for, `ctx` is `IrpContext->StreamContext`. Every access to shared memory
and every call of the filter manager that touches shared state is a step, since
nothing in the callbacks holds a lock.

| TLA+ | code |
|---|---|
| `numOps`, `setDisp`, `deleteOnClose`, `isNotified` | fields of `CTX_STREAM_CONTEXT` |
| `attached`, `refs` | the filter manager's context of each stream and the context's reference count |
| `file`, `pending`, `handle`, `target`, `docHandle` | the file system (external): the stream, its delete-pending mark, the file objects |
| `WinIOPreCreate`, `FsCreate`, `FsCreateFails`, `WinIOPostCreate` | `fltCreateFile.cpp`; the context allocated in advance |
| `CtxGetOrSetContext_Get`, `_Set`, `_Fail` | `contextMgr.cpp`: look up, or set and use the winner's if another thread was faster |
| `CreateIrpContext_Retry` | `irpContext.cpp:80`, the second look-up of a set-information IRP |
| `WinIOPreDisposition`, `WinIOPreRename`, `FsSetInformation`, `WinIOPostSetInformation`, `WinIOPostDecrement` | `fltSetInformation.cpp`: count, let the file system act, write `SetDisp` or `DeleteOnClose`, count down |
| `WinIOPreCleanup`, `FsCleanup`, `WinIOPostCleanup_NumOps`, `_Flags`, `_Notified` | `fltCleanup.cpp:83-110`: the candidate test, one read per step |
| `DfProcessDelete`, `DfNotifyDelete` | `fltCleanup.cpp`: ask the file system whether the file is gone; the interlocked increment of `IsNotified` that lets one cleanup report |
| `WinIOPreClose`, `FsClose` | `fltClose.cpp`, and the end of the file object |
| `CloseIrpContext` | `irpContext.cpp`: release |
| `TeardownStream` | the filter manager (external) drops the context when the stream has no file object left |

The history variables carry no behaviour. `reports` counts how often a deletion
got past `DfNotifyDelete`, `leaked` the references no code will release, `failures` the injected
failures, and `why[s]` the events after which the deletion of `s` may be missed:

* `race`: a disposition change started while another was in flight on the stream;
* `reopen`: a create without `FILE_DELETE_ON_CLOSE` reset `DeleteOnClose`;
* `clear`: a change of the on-close state reset it;
* `blind`: an IRP passed without a context, because an allocation or look-up failed;
* `error`: the query of the deleted file failed.

Names, processes and event contents are data no property looks at. File ids and
volume GUIDs are represented by the identity of `Streams`: one element is one
incarnation of the file's data stream, and a name can be used again by the next.

**Properties.**

* `RefsExact`: the reference count of a context is exactly the IRPs and streams
  that hold it, plus what a rename with an unresolved destination lost.
* `NumOpsExact`: `NumOps` is the number of disposition changes in flight.
* `OneContextPerStream`: callbacks of a stream never work on two contexts.
* `ReportedOnce`: a report is of a real deletion, and the only one.
* `MissExplained`: with no IRP in flight, a deleted stream with an empty `why`
  has been reported. This is the detector's purpose: the sequence of the
  candidate test, the query and the flags leaves no other gap.
* `PromiseKept`: `DeleteDetect` implements `DeletionReports` under
  `life <- file, told <- reports, excused <- [s |-> why[s] # {}]`.
* `EventuallyReported`: a deletion leads to a report, or to a reason.

Fairness: `FairSpec` has `WF_vars(Carry(t))`: an IRP that was sent is carried
through. The kernel and file system complete every IRP, and the callbacks do
not wait for anything. Nothing obliges an application to send one, and nothing obliges the
file system to tear a stream down.

### 3.2 PolicySnapshot

A thread is in a callback (`match`), or in an IOCTL (`count`, `add`, `remove`,
`clear`). `ProcessFilter_Ref` is a load and an increment;
`ProcessFilter_Release` a decrement, a plain store of zero, a comparison with
`GlobalContext.ProcessFilter` and a free; each of them is a step, because each
is one access and nothing makes them one.

| TLA+ | code |
|---|---|
| `current` | `GlobalContext.ProcessFilter` |
| `memory`, `refCount`, `list` | `PROCESS_FILTER_KN`: life of the pool block, count, entries |
| `Start` | the caller; for a change, the allocation of the clone (count 1) |
| `ProcessFilter_Ref_Load`, `_Increment` | `processFilter.cpp:25-26` |
| `ProcessFilter_Match`, `CheckEvent`, `ProcessFilter_Count` | the readers; `CloseIrpContext` closes the handle a match returned |
| `ProcessFilter_Clone`, `Publish`, `ProcessFilter_Add_Fails`, `CloseProcessFilter` | the writers |
| `ProcessFilter_Release_Decrement`, `_Zero`, `_Test`, `_Free` | `processFilter.cpp:35-38` and the free after it |
| `TouchFreed` | an access to a freed snapshot |

The address of a freed snapshot is not given out again; the execution is
followed up to the first access to freed memory (`damaged`), since what follows
is undefined. A clone whose first allocation fails changes nothing and is a
stutter. The masks of an entry are left out, so an entry is the policy it was
made from. `policy` is the list the published requests ask for, `lost` counts
references kept with no handle, `excuses` the events
that may disturb the outcome: `revived` (an increment between another thread's
last decrement and its free), `truncated` (a clone ran out of memory),
`overlap` (a snapshot was published that was cloned from one no longer in
force).

**Properties.**

* `CurrentLive`: the snapshot in force is never freed. Its count is zero most of
  the time and may be wrong, so this rests on the comparison in the release,
  which comes after the decrement, and on superseded snapshots never returning.
* `CountedIsSafe`: memory a counted reference names is freed under it only after
  `revived`.
* `UpdatesKept`: the list in force is what was asked for, unless changes
  overlapped or a clone was truncated. The overlap is real: nothing serialises
  two IOCTLs.
* `ReadersUndisturbed` (action property): no thread sees the list it walks
  change.
* `LeaksUnheld`: what a superseded snapshot leaves behind for good is left by a
  reference a match has lost, or by its being superseded while nobody held it.

### 3.3 NotifyQueue

A producer is a callback that reports an event, a collector a thread in
`IOCTL_GET_NOTIFY_EVENTS`. The list is the links of its `LIST_ENTRY`s, because
an item is appended twice: by `AllocateNotifyItem` (`sys/notifyMgr.cpp:78`),
before it is filled in, and by the callback that fills it in. Each interlocked
list operation is one step, each access to `CurrentItemCount` another.

| TLA+ | code |
|---|---|
| `RaiseCount`, `TakeOldest`, `DropOldest` | the increment, the limit, and the oldest item taken off and freed |
| `AllocateItem`, `AllocateFails`, `LinkInAllocate` | the allocation and the first link |
| `FillItem`, `AppendNotifyItem` | the callback |
| `StartCollect`, `TakeFirst`, `ListExhausted`, `CopyItem`, `SkipItem`, `ReplyToClient` | `CollectNotifyItem` and its IOCTL; an item too large for what is left of the buffer is lost |

`linkedBy` says who appends and never changes: the code is `{"allocate", "caller"}`.
With `{"caller"}` the module is the queue the other operations were written for.
`mem`, `fate`, `links`, `early`, `fault` are history: what an item's memory
holds, how it left, and whether memory that is no item's was touched.

**Properties.** `QueueSound` (proved) puts the queue's promises together.
`CountExact` relates the counter, the links and the threads on
their way in: they agree as long as no item is linked twice, and each failed
allocation counts for good. `FaultExplained` says that the double link, an item
collected before it is filled in, and a limit that meets an emptied list are the *only* ways to
touch foreign memory. `InBuffer` covers packets whose size nobody has filled in.
`LeavesOnce` holds for the intended linking, and so does
`EventuallyLeaves` under weak fairness of producers and of a client that keeps
asking.

### 3.4 TransactionalDelete

Where `DeleteDetect` has deletions outside transactions, this module has a
post-cleanup callback that raises `IsNotified` and leaves a `DF_DELETE_NOTIFY` in
the transaction context, and the end of the transaction
(`sys/callbacks/callbacks.cpp`) that takes the entries off, announces them, or
lowers `IsNotified` again. Attaching the context and enlisting are two steps, as
`CtxGetOrSetContext` and `FltEnlistInTransaction` are. `FreeTransactionContext`
is the context's cleanup callback. `raced`, `late` and `notices` are history.

**Properties.** `NoticeOnce`: announced once, and never after a rollback.
`Settled`: a stream context has the references of the callbacks and the entry that
need it (`RefsExact`), and after a rollback the next deletion will be reported, unless
two cleanups met, a call failed, an entry came late or nobody had enlisted
(`RollbackForgets`). `CommitNoticed` (liveness): a committed deletion is announced,
with the same exceptions. An entry is late in two ways: the list has been taken
off already, or the transaction context itself has been freed when the callback asks
for it; the second showed up as a counterexample to `CommitNoticed` with two streams.

### 3.5 MonitorControl and StringLib

`MonitorControl` has a step for each function of `api/WinIOMonitor_API.cpp` and
each handler of `sys/deviceCntl.cpp`, with buffers of every size class; a
program may also send a control code itself. `Modulus` is the width of a DWORD,
since the time-out is stored as a negative number of ticks and comes back
negated: `TimeOutStep` says what is set and what is reported add up to zero in
that width. `RefusedStep`: a handler that answers with an error has changed
nothing. `CountStep`: what a program is told of policies and events is true. The three
are `AnswersHonest`, which is proved (section 8.9).

`StringLib` takes `cmn/fltCmnLibs_string.cpp` one turn of a loop at a time, with
the code's indices, so that a read behind the terminator is a value of an index
and not an impossibility. `ResultIsMatch` and `BacktrackKeepsMatch` compare the
wildcard match, which keeps only the last star, with a definition of matching by
placing characters; `SearchesAgree` and `NumberIsRead` do the same for the
searches and for `stoul`, whose overflow test must survive the digits that
follow. `InBounds`, `Advances`, `ResultIsMatch` and `BacktrackKeepsMatch` are proved. `ProcessFilter_AddMask` and
`_RemoveMask` are here too: the former never stores a mask (section 7), so the
freed link the latter would follow is never reached (`NoFreedLink`).

## 4. The isolation driver

### 4.1 FcbLocks

`MainResource` and `PagingIoResource` of one FCB, the `FCB_STATE_` flags that say
who holds them, and every callback that takes either: user I/O and size changes
(`AcquireCmnResource`, `CloseIrpContext`), the lazy writer and read-ahead
(`cacheManagerCallbacks.cpp`), paging I/O beneath them, the mapped page writer
(`fltModWrite.cpp`), flushes (`fltCcFlush.cpp`, `fltFlushBuffers.cpp`), sections.
A thread does one *job* at a time; its `pc` stops at each acquisition, each test
of the flags and each update. `FlagsAtomic = FALSE` splits `|=` and `&=` into a
read (`Fetch`) and a write, which is what `SetFlag` and `ClearFlag` compile to.

| TLA+ | code |
|---|---|
| `owner`, `exclusive`, `Own`, `Share`, `Release` | `ERESOURCE` (external): recursive, shared or exclusive |
| `flags` | `Fcb->Flags` |
| `status`, `nested` | the `COMPLETE_FREE_` flags of the IRP context and of the paging I/O inside it |
| `toRelease` | the resource handed to the mapped page writer |
| `CcAcquireForLazyWrite…`, `CcAcquireForReadAhead…`, `AcquireCcFlush_…`, `AcquireModWrite_…`, `AcquireSection` | the functions of these names, step by step |
| `TestSpins` | `irpContext.cpp:1287`, where the code asserts and goes on |

**Properties.** `LocksKept` (proved): a resource is released by who holds it, a
thread that is done holds nothing, a page is written under a lock, and what was
acquired exclusively has one owner (`TypeOK`). That depends
on flags read and written by *other* threads' callbacks: the lazy writer
releases what the flags say, not what it remembers. `FlagsTruthful`: a flag
means that somebody holds the resource. Deadlock is checked, and
`EventuallyIdle` says no thread waits for ever.

### 4.2 FileData

The lower file, the cached pages and `FileSize`, `ValidDataLength`,
`AllocationSize`, beside the contents the users are owed (`text`, `size`). A
write is cut where another thread can come in: after the sizes are raised, after
zeroing, after the copy; `io` is the one in progress. `LazyWrites` and `Evict` may happen between any two
steps, as the lazy writer holds the paging resource only. `spoilers` collects
what the code does that may spoil a later read, each named after the place:
short reads, a torn size change, a size set beside a write, failed allocations.

**Properties.** `ReadsExplained`: a read returns what was written, or one of the
spoilers has happened. `CleanIsSafe`: a page that may be evicted is on disk, or
zero beyond `ValidDataLength`. `CleanupComplete`: what the last cleanup leaves
in the lower file is the file. `SizesOrderedUnlessRaced`: the three sizes are ordered
unless one was set beside a write. `NothingWrittenIsLost` is all of them and the types,
and is proved (section 8.8). `NoTornSizes` is violated (section 7).

### 4.3 PrivateFcb

Opens of one file. `FilterPreCreate` searches the list of FCBs and, when there
is none, gives the lock back, asks the client (`CheckEventFileCreateTo`), opens
the lower file (`OpenLowerFile`) and inserts the new FCB (`Publish`); so two
opens may both find none. `FilterPreCleanup` and `FilterPreClose` count down and
free. `Faults` names the calls that fail. No answer of a client ever reaches the driver as the
code stands (section 7), so the answer is taken from a set: what is checked is the
code behind it.

**Properties.** `CountsExact` and `InUseIsListed`: what is counted, what is
listed and what is in use agree. `OneFcbUnlessRaced`, `AllReleased` (nothing is
left when everything is closed), `DeletedAtLastCleanup`, `CrashExplained` (the
two ways to use a null file object). `FcbAccounted` is all of them, and is proved
(section 8.7).

### 4.4 IsolationDelete

The protocol of `DeleteDetect` as `utilities/detectDelete.cpp` has it, with what
the monitor leaves out: alternate streams, the query that tells a deleted stream
from a deleted file (by file id, and differently on ReFS), transactions, and a
stream context that exists only once the stream was opened delete-on-close. The
race test of set-information is in force here: of two overlapping changes only
the first has a post-operation, and `NumOps` stays above zero.

**Properties.** `OncePerStream` (proved): a deletion is decided on once per
stream. `ReportedTwiceExplained`, `FalseReportExplained`: two streams of one
file may both report it, and a file that is still there may be reported, each
for one named reason. `MissExplained`: the reasons for which a deletion is
missed. `CandidateCovers`: after racing changes a marked stream is still a
candidate, which the comment at `fltSetInformation.cpp` claims and which does
hold in this driver.

### 4.5 IsolationIrp

References to instance contexts: from set-up to teardown, IRP contexts, FCBs,
the table of drive letters. `ContextsAccounted` says that every reference has a holder
except one for each IRP on an own file (section 7); with `NoNullReference` and the types it is
`InstancesAccounted` (proved). The table is never filled, so
its replacement behind a counted pointer is never exercised; reads and writes of
it are single steps for that reason.

### 4.6 IsolationPolicy and PolicyPin

`IsolationPolicy` has the control codes that change the global filter and the
process filter, and `CheckEventTo`. A change clones the list in force, edits
the clone and exchanges it, without a lock, so two changes overlap; a clone
loses Ids, kinds of event and excluded masks, and may run out of memory. A mask is
the set of files it matches (`StringLib` has the matching). `granted` is what the
client's successful calls asked for; `losses` names what the clones that came into
force had lost. The actions are named after the functions of
`ProcessFilter.cpp` and `GlobalFilter.cpp` that the control codes call.

**Properties.** `PolicyAsAsked` (proved) is the conjunction of the types and of
`EntriesAsAsked` and `DecisionAsAsked`: the entries in force,
and every decision on a file, are those asked for unless a clone lost something
or two changes overlapped; and `TypesLossContained`: what the loss of the kinds of
event can change.

`PolicyPin` has the reference counts of the process filter's snapshots. A thread
stands before one step (`pc`) of a function that works on one of its local
pointers (`ptr`, a register of `reg`): `Load` and `Increment` are
`ProcessFilter_Ref`; `Decrement`, `Zero`, `Test` and `Free` are
`ProcessFilter_Release`, whose store of zero, comparison and free are steps of
their own; `Walk` and `Use` are a match and the IRP that uses its answer;
`Allocate` and `ExchangeFilter` are changes and resets. `Referenced` and
`Released` say where each function goes on when the two return. An access to
freed memory (`TouchFreed`) ends the behaviour.

**Properties.** `SnapshotsCounted` (proved) is the conjunction of `CurrentLive`,
`CountsReferences`, `CountedIsSafe`, and `EntryExplained`, since the handle a match
returns may be of another snapshot than its entry. `LeaksOnlyUnheld` (action
property, proved): a snapshot becomes unreachable only when it is superseded while its
count is zero.

### 4.7 IsolationControl and ClientPorts

`IsolationControl` joins each library function of `api/WinIOIsolation_API.cpp`
with the handler its code reaches: code, size and contents of the buffer decide
what happens. `OnlyControllerChanges` and `AsAsked` (both proved): only the
controlling process changes anything, and status and included masks are those
asked for unless a status was repeated, or a removal named the wrong list.

`ClientPorts` has the table of ports, the notify routines of connections that
overlap, and the callbacks that look for a port by event number.
`ControlExact`: unless two notify routines overlap, the table and the controlling
process are those of the connections. `SlotInTable`: the remainder of a negative
event number is the only way out of the table. `SpinsOnEmptySlot` (liveness).
`PortsExact` (proved) is `ControlExact` and `SlotInTable` with the types.
`cookieGiven` is fixed in the initial state. FALSE is what the code does: the
connection routine gets a null cookie, no client ever takes a slot (section 7), and
`ControlExact` says that the table stays empty and nobody controls the driver. TRUE
is what its other routines were written for; so that there is something to control,
`IsolationControl` and `IsolationPolicy` let a process hold control.

## 5. Both drivers

`DriverLife` has the steps of `DriverEntry` in the order of each driver, each of
which may fail, and the unload commands, against process notifications, file
callbacks and calls of the cache manager that arrive from the moment a routine
is registered. `driver` says whose steps these are. `OnlyKnownGaps` names the parts a call may miss;
`UnregisteredOnce` that the filter is unregistered once with no callback inside;
`LeftAfterUnload` what remains; `PortsPaired` that ports and clients of the
monitor agree unless a second one connects. Together they are `LoadedAndUnloaded` (proved).

`ProcessNames` is the list under one resource of both `procNameMgr.cpp`s:
process notifications add and remove, callbacks search and insert on a miss, and
`SearchProcessInfo` calls itself after an insertion. `NameSources`,
`PebOfCurrent` and `Failures` cover the Windows versions and the failing calls.
`PidsPinned`: the references entries hold keep ids from being reused, so no process is
judged by an earlier one's name; `ReferencesAccounted`: every reference is that of an
entry, or of an entry that was dropped; `LeftExplained`: what an exited process leaves in
the table has one of two reasons; `DepthExplained`: so has a search that starts over once
more; `AnswersNameProcess`: the name is that of the process asked for. Together they are
`NamesAccounted` (proved).

## 6. Runs

The components that share no state are run together: an MC module extends one
component and instantiates others, and `part` says in its initial states which
one takes the steps of this behaviour, while the variables of the rest keep a
constant. A behaviour of the run is a behaviour of one instance, so what a property says
of an instance in its part, it says just as if the instance were alone. Where the properties of a component are the same in every part the MC module extends it, and
their state outside its parts is the initial one. The values of the instances stand beside each `INSTANCE` and in the .cfg.

| run | parts and bounds | checks |
|---|---|---|
| `delete_detect` | 2 threads, 2 handles, 1 stream, 3 contexts; dispositions, on-close changes, creates with and without delete-on-close; no failure | `RefsExact`, `NumOpsExact`, `OneContextPerStream`, `ReportedOnce`, `MissExplained` |
| `delete_failures` | either a rename and one failure on one stream, or two streams (a file deleted and created again) whose handles delete on close | `Inv`, the inductive invariant of the proofs; `PromiseKept`, the refinement |
| `delete_liveness` | 2 contexts, dispositions, `FairSpec` | `EventuallyReported` |
| `policy_snapshot` | 2 threads, 3 snapshots, 2 policies, all requests, one failed clone, one lost reference | `CurrentLive`, `UpdatesKept`, `CountedIsSafe`, `LeaksUnheld`, `ReadersUndisturbed` |
| `monitor_driver` | `queue`: 2 producers, 2 collectors, 2 items, limit 2, 1 failure, items linked as the code does or once; `control`; `life`: load and unload of either driver, 2 threads, 3 clients; `wild`: every text over 2 letters against every mask over 4 characters, up to length 4; `search`, `number`, `lists`: strings up to length 3 or 4 | `QueueSound`, `LoadedAndUnloaded`, `CallsAnswer`, `InBounds`, `ResultIsMatch`, `AnswersHonest`, `Advances` |
| `isolation_file` | `locks`: 3 threads, 5 jobs, one read-ahead at a time; `flush`: 3 threads, 5 jobs with flushes, flags in two steps; `data`: a file of 2 pages of 2 units, 3 operations, 1 failed allocation; `fcb`: 3 opens, every answer and every failing call | `LocksKept`, `FlagsTruthful`, `NothingWrittenIsLost`, `FcbAccounted`, deadlock |
| `isolation_policies` | `policy`: 2 threads, 3 changes; `short`: 1 thread, clones run out of memory; `control`: 2 processes; `pin`: 3 threads, 3 snapshots (two threads at a time once all are used); `ports`: 3 connections of 2 clients, 2 slots, 1 callback, event numbers that wrap, with and without the cookie | `AsAsked`, `PolicyAsAsked`, `SnapshotsCounted`, `PortsExact`, `OnlyControllerChanges`, `LeaksOnlyUnheld` |
| `isolation_delete` | `delete`: 3 handles on 2 streams, 1 change, 1 failure; `race`: 3 changes on one stream; `byId`: ReFS; `tx`: a transaction; `instances`: 2 volumes, 2 requests; `names`: 3 processes, 2 ids; `nameless`: 2 processes, 1 id, failing calls | `OncePerStream`, `ReportsExplained`, `InstancesAccounted`, `NamesAccounted` |
| `progress` | `trans`: 2 threads, 2 streams, 3 opens, 1 failing call; `queue`: 2 producers, 1 collector, 2 items, linked once; `locks`: 3 threads, 4 jobs; `ports`: 1 client, 2 connections; `names`: 2 processes that share 1 id, 2 searchers; under fairness | `NoticeOnce`, `Settled`, `EventuallyLeaves`, `CommitNoticed`, `EventuallyIdle`, `SpinsOnEmptySlot` |
| `delete_race` | dispositions only | `RacedIsChecked`, violated |
| `policy_handle` | 3 threads; match, add | `HandleCounts`, violated |
| `file_data_torn` | two cached writes | `NoTornSizes`, violated |

**Why the bounds are enough.** Two threads give every race of two callbacks on
one piece of state; a third is there where a third role exists: a reader, a
writer that supersedes its snapshot, and the reader whose release frees it; a
user request between the lazy writer and read-ahead; a process whose id is
reused while two others search. Two streams are a file and its successor, or a
file and its alternate stream. A queue of limit 2 is reached, dropped from
and emptied by two items and the failed allocation that counts for a third.
Four units in two pages give writes inside, across and beyond a page and a size
change on either side of it. The wildcard match sees every position of up to
four stars and question marks. Two slots and three connections fill the table
and refuse one. Counters are bounded where a constant says so (`Max…`,
`SeedLimit`, `Limit`, `Modulus`), and the tables of names by `Bound`: at most
four entries (three in `progress`), three references to a process. `MaxFailures` bounds injected
failures, so that one failing step meets every state. The type invariants are parts of the
properties named.

**Deadlock.** It is checked in `delete_…` and `isolation_file`: some thread can
always go on, or every job has ended (a step of its own). `CHECK_DEADLOCK FALSE`
is set where a bounded instance stops because nothing is left to do: no item or
snapshot that was not used, every connection made, the driver unloaded, a call
answered, or an access to freed memory, at which an execution is no longer followed.

**Fairness.** `DeleteDetect`: weak fairness of `Carry(t)`, an IRP that was sent
is carried through, since file systems complete every IRP and the callbacks do not
wait. `NotifyQueue`: weak fairness of a producer in its callback and of a client
that keeps asking. `TransactionalDelete`: callbacks return, a transaction ends,
its notification is delivered. `FcbLocks`: strong fairness of each thread's
step, because `ERESOURCE` queues its waiters: one that keeps becoming free is granted in
turn. `ClientPorts` and `ProcessNames`: weak fairness of a thread inside a
callback or a search, which waits for nothing (a resource held for one step).
Nothing obliges an application to send a request.

## 7. Where the code differs from what it says

In three of these a run shows the statement violated.

1. **Racing dispositions** (`delete_race`). `sys/callbacks/fltSetInformation.cpp:58-60`
   and `:155` say that after a race `NumOps` stays positive for ever, so that
   every cleanup checks. `race` is computed at line 62 and not used: both
   post-operation callbacks run, `NumOps` returns to zero, and `SetDisp` keeps
   the value of whichever wrote last. If the file system saw them in the other
   order, the file is deleted and not checked.
2. **Release in four steps** (`policy_handle`). A thread that loaded the pointer
   before it was exchanged can increment between another's decrement
   (`sys/policies/processFilter.cpp:35`), store of zero (`:37`), comparison and
   free; its handle then names freed memory, where `sys/irpContext.hpp:37` relies on
   the count.
3. **Torn sizes** (`file_data_torn`). `sys-isolation/callbacks/fltWrite.cpp:438`
   raises `FileSize` before `ValidDataLength` with only the main resource held,
   while the lazy writer holds only the paging resource: in between it copies up
   to the old `ValidDataLength` and writes the rest of an uninitialised buffer.
   `fltCreateFile.cpp:427` says that the paging resource must be held to change
   the file size.

The others are part of the models as the code has them, and a property names
them as one of its reasons, or the model takes the intended condition and says
so:

| place | what the code does |
|---|---|
| `sys/callbacks/fltCreateFile.cpp:68` | assigns `DeleteOnClose` at every create, where `fltCleanup.cpp:83` speaks of a file *ever* opened so: reason `reopen` |
| `sys/policies/processFilter.cpp:409` | a match without result keeps its reference: `lost` |
| `sys/policies/processFilter.cpp:239` | `AddMask` looks for the separator in the buffer it is filling: no mask is stored. It also hides the freed link `RemoveMask` (`:319`) would follow |
| `sys/notifyMgr.cpp:78` | an item is linked before it is filled in and again by the caller, and is its own successor then: `links`, `early` |
| `sys/notifyMgr.cpp:60` | the removal at the limit is not tested for an empty list |
| `sys/notifyMgr.cpp:102` | the status of a collection is never success, so the events are lost and their number is not told |
| `sys/callbacks/callbacks.cpp:58` | `IsNotified` is lowered once per entry, though each cleanup raised it: `raced`, `late` |
| `api/WinIOMonitor_API.cpp:120` | every function stops when the device *is* open, and succeeds without doing anything |
| `cmn/fltCmnLibs_string.cpp:2274`, `:2411` | `ReverseFindW` leaves a string without the character; a case-sensitive match compares no character |
| `sys-isolation/WinIOIsolation_Filter.cpp:341` | the port's cookie is its variable before it is set: no client takes a slot and every control code is refused. Modelled with the intended cookie |
| `sys-isolation/communication/Communication.cpp:227`, `:368`, `:179` | the packet to send is never allocated; no deletion is queued; unloading takes an item from the empty list |
| `sys-isolation/irpContext.cpp:95`, `:73`, `:1287` | an inverted test dereferences null for ordinary files (modelled as meant: `InstanceGiven`); own files reference the instance context twice; a page is written under the shared lock where the code asserts it cannot be |
| `sys-isolation/callbacks/fltCcFlush.cpp:134` | a flush releases what the lazy writer flagged |
| `sys-isolation/callbacks/cacheManagerCallbacks.cpp:131`, `:104` | two read-aheads share one flag, and the second releases nothing; the flags are not interlocked, so that an update may be lost |
| `sys-isolation/callbacks/fltSetInformation.cpp:321` | sets sizes without the lock a write holds: `raced` |
| `sys-isolation/callbacks/fltWrite.cpp:39` | passes unaligned non-cached writes on |
| `sys-isolation/callbacks/fltCleanup.cpp:183`, `fltClose.cpp:41` | a delete-on-close FCB stays listed without its lower file; `OpnCount` is lowered by the close and not by the cleanup |
| `sys-isolation/callbacks/fltCreateFile.cpp:325`, `:152` | a refused open is passed to the file system; a failed allocation still asks for a post-operation |
| `sys-isolation/utilities/detectDelete.cpp:273` | frees a string that was never set, or twice |
| `sys-isolation/policies/ProcessFilter.cpp:57`, `:351`, `:471` | a clone drops Ids and kinds of event; an optional name is compared all the same; a handle is of another snapshot than its entry |
| `sys-isolation/policies/GlobalFilter.cpp:65` | a clone drops the excluded masks |
| `sys-isolation/deviceCntl.cpp:303`, `:119` | a removal ignores which list it is about; the status is a counter |
| `api/WinIOIsolation_API.cpp:321` | four functions send a code, a size or an address their handler refuses |
| `sys-isolation/utilities/volumeMgr.cpp:178`, `:57` | an entry is made and never linked; a copy drops its instance context |
| `sys-isolation/utilities/procNameMgr.cpp:1119`, `:722` | Windows 10 gets the current process's name: `PebOfCurrent`; undocumented statuses |
| `sys-isolation/WinIOIsolation.cpp:291` | notifications are registered before the filter they use exists |

## 8. Proofs

Nothing is assumed beyond the named assumptions on the constants, and, for
`FcbLocks`, the premise `Alone` of its theorems. The assumptions say that sets are finite where something in
them is counted, that "none" is no member, and that bounds are numbers.
TLC evaluates every one of them.

### 8.1 DeleteDetect

| theorem | says |
|---|---|
| `Invariance` | `Spec => []Inv` |
| `TypeCorrect` | `Spec => []TypeOK` |
| `ReferencesExact` | `Spec => []RefsExact` |
| `ChangesCounted` | `Spec => []NumOpsExact` |
| `ContextUnique` | `Spec => []OneContextPerStream` |
| `ReportUnique` | `Spec => []ReportedOnce` |
| `MissesExplained` | `Spec => []MissExplained` |
| `Refinement` | `Spec => PromiseKept` |

The inductive invariant `Inv` is also checked by TLC (run `delete_failures`). None
of the properties is inductive alone:

* `RefsExact` needs to know that a thread releasing a context holds one
  (`IrpShape`), and that an IRP which sets its context on the stream is the only
  one that has it (`PrivateContext`).
* `NumOpsExact` needs `RefsExact`, so that a context that is allocated (count
  zero) is held by nobody, and has no change in flight.
* `OneContextPerStream` needs `PrivateContext`, and `HandleShape`: a stream with
  an IRP in flight has a file object, so it is not torn down, and its context
  stays attached.
* `ReportedOnce` needs `ReportsTracked`: a reported stream's context says so in
  `IsNotified` as long as it is attached, and afterwards there is no file object
  through which another cleanup could come.
* `MissExplained` needs the most, since it is about what has *not* happened. As
  long as no cause is on record (the stream is `Watched`), its context is
  there with its first file object and in every IRP that marks it
  (`CreatorAlone`, `ContextSeen`), disposition changes do not overlap (`OneChange`), and what
  the file system has marked shows in the fields of the context or is about to
  (`DocHandleSeen`, `PendingSeen`). A deleted stream was marked before
  (`MarkedLife`), so from the deletion on some cleanup is on its way to the report or has
  made it (`DeletionChased`), and `IsNotified` is raised for a report only
  (`NotifiedReported`).

The proof that a step preserves `Inv` has one lemma per conjunct, with one step
per action under it. `RefsExact` and `NumOpsExact` are about cardinalities of
sets of threads and streams; lemmas on how these sets change when one thread
takes, swaps or drops a context carry them. `Refinement` maps `FsCreate` to
`Appear`, `FsCleanup` to `Delete`, `DfNotifyDelete` to `Tell`, and every step
that adds a reason to `Excuse`; all other steps stutter.

### 8.2 PolicySnapshot

| theorem | says |
|---|---|
| `Invariance` | `Spec => []Inv` |
| `TypeCorrect` | `Spec => []TypeOK` |
| `CurrentStaysLive` | `Spec => []CurrentLive` |
| `UpdatesStayKept` | `Spec => []UpdatesKept` |
| `ReadersStayUndisturbed` | `Spec => ReadersUndisturbed` |
| `CountedStaysSafe` | `Spec => []CountedIsSafe` |
| `LeaksStayUnheld` | `Spec => []LeaksUnheld` |

`CurrentLive` needs `SnapshotsApart`: a thread about to free a snapshot compared
it with `current` a step ago, and `current` only ever moves to a snapshot that
is still private to its writer (`Mine`) or newly allocated, so it cannot move
back to the one being freed. That in turn needs `ThreadShape`, which says at
which locations a thread has a clone. `UpdatesKept` needs `ClonesExact`: between
copy and publication a complete clone equals what it was cloned from.
`ReadersUndisturbed` follows from `Mine`: only a private list is changed.
`CountedIsSafe` and `LeaksUnheld` need the count itself: until a snapshot is revived
it is the number of threads that have counted a reference and not dropped it,
and of the references a match has lost (`CountsExact`), and a thread that found it zero is
alone with it (`DropsAlone`). Both hold *until* the first revival only, and the proof is
that nothing else disturbs them.

### 8.3 TransactionalDelete

`AnnouncedOnce` says `Spec => []NoticeOnce`. Its invariant is a claim: at any
time a stream has at most one of a thread about to add an entry, an entry in the
list, and a notice given; and while it has one, the stream is still deleted
(`OneClaim`, `StillDeleted`). The interlocked increment of `IsNotified` is what
makes a second claim impossible; the rollback is the only step that drops one
without a notice. `RollbackSettles` says `Spec => []Settled`. `Counts` is the sum over
callbacks and entries that a reference count is; `Claims` says that a raised
`IsNotified` is the claim of a callback, an entry or a notice, and that an entry left over after
the end has one of the causes. The entries are a sequence; that a stream is in it
once at most makes counting them a matter of membership (`EntriesOf`).

### 8.4 IsolationDelete

`DecidedOnce` (`Spec => []OncePerStream`) needs `OneDecision`: a stream was
called for, or is in the transaction's list, never both, and `IsNotified` is
raised in either case. `ReportIsTrue` is about the answer to the query: a file
that is still there is reported only after `STATUS_FILE_DELETED` for a stream whose file id
was not known. Its invariant `Sighted` says that a handle on its way to a notification
outside a transaction saw the file gone, and that what is gone stays gone.

`ReportsAreExplained` (`Spec => []ReportsExplained`) takes three layers. `CoverInv`: a
change whose post-operation is to come is counted and the only one of its stream
(`OnePost`), and a stream the file system has marked is a candidate or about to be
(`MarksCovered`). `BeforeInv` adds that a deleted file has no open handle
(`DeletedIsClosed`). `ReportInv`: whoever is about to notify has seen the deletion
(`SeenDeleted`); a raised `IsNotified` stands for a report, or for the transaction that
deleted the file (`NotifiedIsFor`); a deletion is chased by some cleanup, reported or has
a cause (`DeletionChased`); and only one stream of a file reports it (`OneSource`). `ReportsExplained` starts with the type invariant, of
which the three layers give the variables they are about and `TypesInvariance` the rest.

**Instance contexts** (`IsolationIrp`). `InstancesStayAccounted`:
`InstancesSpec => []InstancesAccounted`, for any set of volumes and any finite set of
requests. The count is a sum of two cardinalities, the IRP contexts of a volume and those of
them under construction, and every step of a request adds to one summand what it takes from
another (`Balanced`); `OneMoves` says what one request does to such a cardinality.
`InstancesInv` adds two things. Of a volume that is not attached nothing is held: otherwise
`InstanceSetup`, which starts the count at one, would lose references. And the table of
volumes stays empty, since nothing is ever linked into it: that, and no care in the
copying, is why no search references a context that is not there.

**Process names** (`ProcessNames`). `NamesStayAccounted`: `NamesSpec => []NamesAccounted`, for any
processes, ids and threads, any sources of a name and any failing calls. `NamesInv` adds:

* `OwnersDiffer`, `EntryOwned`: an id belongs to one process as long as its object is there, and an
  entry is of an object that is there, under its own id. An object goes with its last
  reference and an entry has one, so an id is not given away under an entry (`PidsPinned`).
* `OneEntry`: a process has one entry unless two searches inserted one each. The exit
  notification removes the first entry it meets, so this is what makes it the only one
  (`LeftExplained`).
* `CallSound`: a search that starts over finds the entry it has inserted (`Linked`), unless
  a removal, a failed insertion or a failed copy is already among its reasons. A step of
  another thread that removes an entry must therefore note the reason in every search it
  harms, which the recursion depth alone would not tell.

That an insertion or a removal in the middle of the table changes the references of one
process by one is the cardinality of the entries of a process before and after it.

### 8.5 IsolationControl, IsolationPolicy, PolicyPin and ClientPorts

`IsolationPoliciesProofs` has the theorems of four modules.

| theorem | says |
|---|---|
| `DoesAsAsked` | `Spec => []AsAsked` |
| `ControllerAlone` | `Spec => OnlyControllerChanges` |
| `SnapshotsAreCounted` | `PinSpec => []SnapshotsCounted` |
| `OnlyTheUnheldLeak` | `PinSpec => LeaksOnlyUnheld` |
| `PortsAreExact` | `PortsSpec => []PortsExact` |
| `DecidesAsAsked` | `PolicySpec => []PolicyAsAsked` |

*Control codes.* Each call is one of a few kinds (`CallKinds`):
it sets the status, adds, removes or drops masks, or leaves both alone. The
invariant ties the counter to the status asked for as long as none was repeated.

*Snapshots.* `PinInv` is the invariant. `Shape` says of each thread which of its registers
are in use where it stands, and `Holds` which of them have been counted and will
be released; `Referencing(s)` is the set of all these pointers to `s`, for any
number of threads. Three facts carry the properties. A count is never above the
number of pointers and is negative only while a release is about to store zero
(`CountsAtMost`). Until an increment comes too late it *is* that number, and a release
that brought it to zero is alone with the snapshot (`DropsAlone`): that is why what
is counted is safe. And the entry of a match belongs to the snapshot its handle is
of, or to one superseded in between, and somebody keeps it (`EntryKept`), which is
`EntryExplained`. `CurrentLive` needs `Apart`: what is about to be freed was
compared with `current` a step ago, and only a snapshot of a change or reset that
nobody else points to can come into force. Every step moves at most one pointer in
or out of a `Referencing` set; the lemmas on cardinalities are stated for
one pointer gained, lost or handed on. Of a leak the proof shows that the step which makes a snapshot
unreachable is the exchange: every other step that drops the last pointer to a
snapshot is a release that frees it, or leaves the one in force.

*Ports.* `PortsInv` says, for as long as no two notify routines have run at the same time, where each
connection stands between its routines: while it is being stored its slot is
free and the controlling process is none or its own; while it is up the slot is its own;
while it is closing somebody still controls; and who controls has a connection that is up or
closing (`PortsKept`). Without the cookie nothing is ever stored
(`PortsUncontrolled`). `SeedsInRange` is why the remainder indexes the table.

*Policies.* `PolicyInv` compares lists entry by entry (`SameLists`): the same processes,
the same files in the same order, whatever became of Ids and kinds of event. Not the
lists in force alone have to be known, but what each thread holds between its
clone and its exchange (`ItemOp`, `MaskOp`): as long as no other exchange has come between,
its clone is like the list in force unless `lost` says it is short, and if no kind
of event was lost there was none to lose. The second half is
needed because every clone drops the kinds: a list whose masks all ask
for `Wanted` comes into force after a clone only if there was no mask before
(`LostNone`). An edit at the same places keeps two lists alike (`EditAlike`); that
`Kept` finds each entry it keeps, at the same place of both lists, rests
on the n-th element of a finite set of numbers (`NthOfSet`). That an entry
decides alike in both lists is `SubMatchIs`, and `Decides` adds that the first entry of a process
is at the same place. If a decision is not the one asked for although only kinds were
lost, some mask lacks `Wanted`; a mask in force has either `Wanted` or no kind at all.

### 8.6 StringLib

`StaysInBounds` (`Spec => []InBounds`) and `MatchAdvances` (`Spec => Advances`),
for texts and masks of any length: neither pointer passes its terminator, though
the pointer to retry from is advanced before it is known whether there is
anything left, and every step moves on in an order that has an end. Together
they are why the loop ends; that it does, as a liveness property, would need
fairness. The invariant is the order `mp <= j`, `cp <= i + 1` of the four indices.

`AnswerIsRight` (`Spec => []ResultIsMatch`) says that the match answers as the
definition of matching does, and `BacktrackingIsEnough` (`Spec => []BacktrackKeepsMatch`) that
forgetting all stars but the last loses nothing. The definition is split at two
places: what has been read fits what has been passed (`Passed`), and what is left
may fit what is ahead (`Ahead`). `MatchInv` says that there is a match only if there is one
ahead of the two pointers or, starting over behind the star, from `cp` on; and that
any match that starts over comes through the same characters the current attempt
has come through, as many places further on. So at the next star it has been read up to a later
place of the text, and the new star could have taken what lies between: the one
argument behind keeping a single star. That second part is built up one turn at a
time, so no induction over the strings is needed. `HeadTaken` and `StarTaken` say what
the first place of a mask takes; for a star the least element again finds where it
stops.

### 8.7 FcbLocks and PrivateFcb

`LocksAreKept`: `Alone => (Spec => []LocksKept)`. `Alone` leaves out what breaks
it in the code (section 7): flags whose update takes two steps, flushes, and a
second read-ahead. The invariant says for each thread that what it has acquired
is what its IRP contexts, its callbacks and `toRelease` say (`ThreadInv`), and that while the
lazy writer or read-ahead is under way the flags say that it holds: that is how it
knows what to release. The difficulty is that the flags are everyone's: each
step has a lemma of its effect on its own thread and on the flags others rely on
(`Effect`), and one lemma, `EffectKeeps`, carries the invariant over. `LocksKept` has the
types in it; the one of them that is not a matter of form is that what was acquired exclusively has
an owner at all (`ExclusiveHeld`), which each kind of acquisition and release keeps (`StepHeld`).
`FlagsTellTruth` (`Alone => (Spec => []FlagsTruthful)`) is the other direction: a
flag is there for the lazy writer or the read-ahead that set it (`FlagsOwned`), who
holds the resource or is one step from clearing the flag.

`FcbsAreAccounted`: `FcbSpec => []FcbAccounted`, for any set of opens, finite or not, any
answers and any failing calls. None of its parts is inductive; `FcbInv` adds what they rest on:

* `OpenShape`: what an open has where it stands. Before its first search it has
  nothing, until the insertion no FCB, and a handle on the lower file only between
  `publish` and its cleanup, unless something failed.
* `CountsBound`: even when an overwriting open has been given up halfway, the
  counts of a listed FCB are at least its handles and its file objects, and those are
  finitely many. So a count of one at the close means that nobody else uses the FCB: that is why
  freeing it leaves no file object with a freed FCB (`InUseIsListed`).
* `OwnHandle`: who holds the driver's own handle on the lower file. A listed FCB
  without one was opened to be deleted, which is one of the two explanations of a
  null file object; one that was never listed has a handle only after a failure.
* `OneAtATime`: until two opens have searched at once, one open is on its way to an
  FCB and only while the list is empty, so an insertion makes a list of one.
* A file that is to be deleted still has a handle on it. Without failures that is
  an open one or a listed FCB's own, of the only FCB; at the last cleanup there is neither
  (`DeletedAtLastCleanup`).

A step is first shown to be of one of seven kinds (`FcbKinds`: an open moves on, joins the listed FCB,
publishes one, cleans up, lowers the counts, frees the FCB, or uses a null pointer), and there
is one lemma for each kind. `UnlinkedList` says what `RemoveEntryList` leaves of a
list without repetitions.

### 8.8 FileData

`NothingIsLost`: `DataSpec => []NothingWrittenIsLost`, for a file of any number of pages of
any size, any sequence of operations, any number of failures and whatever the cache
manager writes and evicts in between. What a read returns is decided by
variables that different steps change: the cached units, the dirty pages, the lower file with its
size, and three sizes of the FCB. `DataInv` relates them, as long as nothing on the list of
spoilers has happened:

* `SizesInv` and `WriteInv`: between operations the size the user is owed, `FileSize` and
  `ValidDataLength` are one number, and the lower file is as long, or longer after a shorter
  allocation. `ValidDataLength` lags behind only while a write makes the file grow, and then the
  file ends where the write does. This is what makes the two ways in which the code answers from
  `ValidDataLength` (a page fault that reads zeros, a paging write that is cut off) the right ones.
* `ContentsInv`: what is cached is what the file is to hold when the write in progress has
  ended (`Target`); so is what is on the disk, for each page that need not be written any more;
  and beyond the sizes there are zeros, so that a file that grows again finds no old data.
* `PagesWhole`: a dirty page is in the cache as a whole, so that writing it back writes nothing else.

There is one lemma per action (`...Keeps`). The arithmetic of pages, about which the provers
know nothing by themselves, is in a few lemmas: a unit is in one page (`UnitPage`), a run of
pages holds the units from the first one's first to the last one's last (`RunUnits`), rounding up
stays within the file (`Rounded`), and a set of units has a last one (`LastUnit`), again by the
least element. What a faulted-in page holds (`FaultedRight`) and what shortening a file does to its pages
(`CutRight`) are used by several actions. A read between operations returns as many units as it owes (`Counted`).

### 8.9 NotifyQueue, DriverLife and MonitorControl

`QueueStaysSound`: `QueueSpec => []QueueSound`, whatever `Linkings` holds, so both for
the code and for the linking its other operations were written for. The
invariant is conditional, as the property is:

* While no item has been linked twice (`Clean`), the links run, forwards and backwards, through
  *some* sequence of distinct items (`HasList`); an item's `links` is one in the list
  and after it, zero before (`LinksCounted`); and the counter is right (`CountRight`).
  A second link makes `Clean` false for good, so nothing has to be said of a list
  that is closed on itself.
* While also no item has left before it was filled in (`Whole`), what is in the list
  or was taken out by one thread has not been freed (`MemoryKept`). Together with the
  first part this is why a fault has one of its three causes.
* With `{"caller"}`, `Whole` holds until a fault, and what was copied was complete and is
  freed (`CopiedOnce`).
* `CountBound`: a counter that is lowered without a test goes below zero by no
  more than one for each producer.

`Linked` walks the links by a recursive function. That the walk meets the items of
the sequence and no others (`WalkIs`) is an induction over its steps: the library's
induction theorems cannot be applied, but its theorem that `<` on the naturals is
well-founded gives the least number of a set (`LeastElement`), and the least step
at which two walks differ cannot exist. `InsertLast` and `UnlinkFirst` say what the two interlocked
operations do to the sequence.

`LoadsAndUnloads`: `LifeSpec => []LoadedAndUnloaded`, for both drivers, any set of
threads that call them, finite or not, and wherever a start fails. `LifeInv` rests on the
order of the steps:

* `StageInv` says which parts are there from the stage and the number of the next step:
  the first `next - 1` of `LoadSteps` while loading, all of them less the first ones of
  `DetachSteps` while detaching, and a list by number (`MonitorLeft`) while
  the monitor unloads. For the isolation driver it is enough that what process notifications use
  stays until the step that waits for them (`IsolationLeft`), and that its unload never gets past
  the seventh step.
* `CallInv`: a call is in the driver only while what makes the system call is there. The
  two steps that take that away wait for their calls, so nothing else has to be known of the
  threads.
* From the two follows what a call finds when it leaves (`CallsServed`): in each stage the
  routine that is registered has all it uses (`Served`), but for the filter of the
  isolation driver and its table of cache callbacks.
* `PortInv`: until two clients meet, the open ports are those of the connected
  clients *and* at most the one that is remembered. The second half is what makes the first
  inductive: closing the remembered port closes the right one.

`AnswersAreHonest`: `ControlSpec => AnswersHonest`, an action property, for any set of programs,
any bounds that fit a DWORD and any width of more than the default time-out. `ControlInv`
adds to the types that the time-out is the number that was set last, in ticks and
negated. The types alone allow any negative number of ticks, from which a wrong number would be
told. `Told` is what all handlers have in common: the state keeps its types, one program is told one
thing, and that is `Honest`. There is a lemma for each handler. `MillisecondsNegated` is the
arithmetic of the one that answers with the time-out: the division by `Ticks` is
exact, and the remainder of a negative number is what the width lacks.

### 8.10 Only model-checked

* `CallsAnswer` (the results of `StringLib` other than those of section 8.6): checked on its
  instances only.
* Liveness (`EventuallyReported` and the run `progress`) and `ENABLED` are out of the
  prover's reach.

## 9. What is not modelled

* Delete detection: `FILE_DISPOSITION_ON_CLOSE` of `FileDispositionInformationEx`
  in the monitor.
* `sys/callbacks/fltInstance.cpp:65`: the monitor attaches its instance context before the
  fields are set. No modelled callback of that driver reads them.
* The callbacks for directory control, queries, network open and byte-range
  locks: they fill in a buffer or pass the request on, and keep no state.
* Byte-range lock conflicts, oplocks and the file position in read and write; pretended
  names and directories in create.
* The include and exclude masks of the monitor's process filter as data of a
  decision (no mask is ever stored), the reference counts of the isolation driver's
  global filter (the same code as `PolicyPin`).
* Names, paths, event contents, the layout of a file's header, path rewriting (`NameChanger.cpp`,
  `VolumeMgr_Replace`): data that no modelled decision reads.
* Dynamic binding of kernel and Win32 functions, the OS version, buffers: look-ups
  without state. The Qt control application: views around the library.
* The monitor library's port threads, which wait for messages the driver never sends;
  `FltSendMessage` in the isolation driver, which is never reached.
* Weak memory ordering: a step reads or writes one field atomically and in
  program order, which is what x86 and the interlocked operations give.

`PROJECT.json` gives for each component the sources, the modules and what is left
out.

## 10. What is left

* A composition of `FileData` and `FcbLocks` on one FCB, in which the points
  where the lazy writer comes in follow from the locks and are not chosen by
  hand.
* A queue for answers in `ClientPorts`, once the code allocates packets.
