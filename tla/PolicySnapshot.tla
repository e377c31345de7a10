--------------------------- MODULE PolicySnapshot ---------------------------
(***************************************************************************)
(* The process filter of the WinIOMonitor minifilter                       *)
(* (policies/processFilter.cpp): the list of policies is a snapshot that   *)
(* GlobalContext.ProcessFilter points to.  Callbacks read it without a     *)
(* lock, under a reference count; an IOCTL clones it, changes the clone    *)
(* and exchanges the pointer; whoever brings the count of a superseded     *)
(* snapshot to zero frees it.                                              *)
(*                                                                         *)
(* An execution is followed up to the first access to freed memory; what   *)
(* the kernel does after that is anybody's guess.                          *)
(***************************************************************************)
EXTENDS Integers, SequencesExt

CONSTANTS
  Threads,      \* threads in a callback or in an IOCTL
  Snapshots,    \* addresses of PROCESS_FILTER_KN, each given out once
  First,        \* the snapshot InitializeProcessFilter publishes
  None,         \* no snapshot
  Policies,     \* process policies; an entry is the policy it was made from
  Requests,     \* what threads ask for
  MaxLost,      \* no match starts when a snapshot has lost that many references
  MaxFailures   \* bound on injected allocation failures

ASSUME FirstIsSnapshot == First \in Snapshots /\ None \notin Snapshots
ASSUME ThreadsFinite   == IsFiniteSet(Threads)
ASSUME RequestsKnown   == Requests \subseteq {"match", "count", "add", "remove", "clear"}
ASSUME BoundsKnown     == MaxLost \in Nat /\ MaxFailures \in Nat

VARIABLES
  current,      \* GlobalContext.ProcessFilter
  memory, refCount, list,            \* each snapshot: its life and fields
  pc, req, subject, snap, other, back, \* each thread: where it is, its request
                \* and the policy it is about, the snapshot it is working on,
                \* the other one of a clone, and where a release returns to
  damaged,      \* where freed memory was accessed, "none" if nowhere
  policy,       \* the list the requests published so far ask for
  lost,         \* references no handle stands for
  revived,      \* snapshots counted again while they were being released
  excuses,      \* events that may lose an update
  failures      \* failures injected so far

shared  == <<current, memory, refCount, list>>
threads == <<pc, req, subject, snap, other, back>>
history == <<damaged, policy, lost, revived, excuses, failures>>
vars    == <<shared, threads, history>>

Writes    == {"add", "remove"}
Locations == {"idle", "load", "increment", "match", "use", "count", "copy",
              "publish", "decrement", "zero", "test", "free", "emptying"}
(* Locations at which a thread reads or writes the snapshot it works on. *)
Accessing == Locations \ {"idle", "load", "test"}
(* Locations at which a thread walks the list, or looks at an entry. *)
Reading   == {"match", "use", "count", "copy"}
(* Locations after a release has brought the count to zero. *)
Dropping  == {"zero", "test", "free", "emptying"}
(* Locations at which a superseded snapshot is being freed.                *)
Freeing   == {"free", "emptying"}

Goto(t, l) == pc' = [pc EXCEPT ![t] = l]
Alive(t)   == memory[snap[t]] = "live"
(* Another thread has freed entries of the snapshot t works on. *)
Emptied(t) == \E u \in Threads \ {t} : pc[u] = "emptying" /\ snap[u] = snap[t]
Fail       == failures < MaxFailures /\ failures' = failures + 1
Excuse(e)  == excuses' = excuses \cup {e}

(* The request of t returns to its caller. *)
Finish(t) ==
  /\ Goto(t, "idle")
  /\ req' = [req EXCEPT ![t] = "none"]
  /\ subject' = [subject EXCEPT ![t] = "none"]
  /\ snap' = [snap EXCEPT ![t] = None]
  /\ other' = [other EXCEPT ![t] = None]
  /\ back' = [back EXCEPT ![t] = "idle"]

(* ExAllocatePool of a snapshot, with an empty list and the given count. *)
Allocate(s, count) ==
  /\ memory[s] = "unused"
  /\ memory' = [memory EXCEPT ![s] = "live"]
  /\ refCount' = [refCount EXCEPT ![s] = count]

(* InitializeProcessFilter *)
Init ==
  /\ current = First
  /\ memory = [s \in Snapshots |-> IF s = First THEN "live" ELSE "unused"]
  /\ refCount = [s \in Snapshots |-> 0]
  /\ list = [s \in Snapshots |-> <<>>]
  /\ pc = [t \in Threads |-> "idle"]
  /\ req = [t \in Threads |-> "none"]
  /\ subject = [t \in Threads |-> "none"]
  /\ snap = [t \in Threads |-> None]
  /\ other = [t \in Threads |-> None]
  /\ back = [t \in Threads |-> "idle"]
  /\ damaged = "none"
  /\ policy = <<>>
  /\ lost = [s \in Snapshots |-> 0]
  /\ revived = {}
  /\ excuses = {}
  /\ failures = 0

-----------------------------------------------------------------------------
(* An I/O or a process event is matched (CheckEvent, the process-notify    *)
(* routine), the policies are counted, changed or cleared.  A change       *)
(* starts with ProcessFilter_Clone, and that with the new snapshot, whose  *)
(* count is one.                                                           *)
Start(t) ==
  \E r \in Requests, p \in Policies :
    /\ pc[t] = "idle"
    /\ r = "match" => \A s \in Snapshots : lost[s] < MaxLost
    /\ Goto(t, "load")
    /\ req' = [req EXCEPT ![t] = r]
    /\ subject' = [subject EXCEPT ![t] = p]
    /\ \/ /\ r \in Writes
          /\ \E s \in Snapshots : /\ Allocate(s, 1)
                                  /\ other' = [other EXCEPT ![t] = s]
          /\ back' = [back EXCEPT ![t] = "publish"]
       \/ r \notin Writes /\ UNCHANGED <<memory, refCount, other, back>>
    /\ UNCHANGED <<current, list, snap, history>>

(* ProcessFilter_Ref: the pointer is read, *)
ProcessFilter_Ref_Load(t) ==
  /\ pc[t] = "load"
  /\ snap' = [snap EXCEPT ![t] = current]
  /\ Goto(t, "increment")
  /\ UNCHANGED <<shared, req, subject, other, back, history>>

(* Fault: the reference a clone takes is not counted. *)
IncrementForReaders(t) ==
  /\ pc[t] = "increment" /\ Alive(t)
  /\ IF req[t] \in Writes THEN UNCHANGED refCount
     ELSE refCount' = [refCount EXCEPT ![snap[t]] = @ + 1]
  /\ \/ req[t] \in {"match", "count"} /\ Goto(t, req[t])
     \/ req[t] \in Writes /\ Goto(t, "copy")
     \/ req[t] = "clear" /\ Goto(t, "publish")
  /\ UNCHANGED <<current, memory, list, req, subject, snap, other, back, history>>

(* and then what it points to is incremented.  Another thread may already  *)
(* be past the decrement that brought the count to zero.                   *)
ProcessFilter_Ref_Increment(t) ==
  LET s == snap[t] IN
  /\ pc[t] = "increment" /\ Alive(t)
  /\ refCount' = [refCount EXCEPT ![s] = @ + 1]
  /\ \/ req[t] \in {"match", "count"} /\ Goto(t, req[t])
     \/ req[t] \in Writes /\ Goto(t, "copy")
     \/ req[t] = "clear" /\ Goto(t, "publish")
  /\ IF \E u \in Threads : pc[u] \in Dropping /\ snap[u] = s
     THEN revived' = revived \cup {s} ELSE UNCHANGED revived
  /\ UNCHANGED <<current, memory, list, req, subject, snap, other, back,
                 damaged, policy, lost, excuses, failures>>

(* ProcessFilter_Match with a handle: the caller gets one if a policy      *)
(* matches; if none does, the reference stays and the caller's handle is   *)
(* still null.                                                             *)
ProcessFilter_Match(t) ==
  LET s == snap[t] IN
  /\ pc[t] = "match" /\ Alive(t)
  /\ \/ /\ Contains(list[s], subject[t])
        /\ Goto(t, "use")
        /\ UNCHANGED <<req, subject, snap, other, back, lost>>
     \/ /\ ~Contains(list[s], subject[t])
        /\ lost' = [lost EXCEPT ![s] = @ + 1]
        /\ Finish(t)
  /\ UNCHANGED <<shared, damaged, policy, revived, excuses, failures>>

(* CheckEvent looks at the entry; CloseIrpContext will close the handle. *)
CheckEvent(t) ==
  /\ pc[t] = "use" /\ Alive(t) /\ Contains(list[snap[t]], subject[t])
  /\ Goto(t, "decrement")
  /\ UNCHANGED <<shared, req, subject, snap, other, back, history>>

(* ProcessFilter_Count walks the list. *)
ProcessFilter_Count(t) ==
  /\ pc[t] = "count" /\ Alive(t)
  /\ Goto(t, "decrement")
  /\ UNCHANGED <<shared, req, subject, snap, other, back, history>>

(* ProcessFilter_Clone copies the entries; when it has no memory for one   *)
(* the clone ends there, and is used all the same.                         *)
ProcessFilter_Clone(t) ==
  LET old == list[snap[t]] IN
  /\ pc[t] = "copy" /\ Alive(t)
  /\ \/ /\ list' = [list EXCEPT ![other[t]] = old]
        /\ UNCHANGED <<excuses, failures>>
     \/ /\ \E n \in 0 .. Len(old) - 1 :
             list' = [list EXCEPT ![other[t]] = SubSeq(old, 1, n)]
        /\ Fail /\ Excuse("truncated")
  /\ Goto(t, "decrement")
  /\ UNCHANGED <<current, memory, refCount, req, subject, snap, other, back,
                 damaged, policy, lost, revived>>

-----------------------------------------------------------------------------
(* ProcessFilter_Release *)

(* The release is over: a clone goes on with the new snapshot. *)
Released(t) ==
  \/ /\ back[t] = "publish"
     /\ Goto(t, "publish")
     /\ snap' = [snap EXCEPT ![t] = other[t]]
     /\ other' = [other EXCEPT ![t] = snap[t]]
     /\ back' = [back EXCEPT ![t] = "idle"]
     /\ UNCHANGED <<req, subject>>
  \/ back[t] = "idle" /\ Finish(t)

ProcessFilter_Release_Decrement(t) ==
  LET s == snap[t] IN
  /\ pc[t] = "decrement" /\ Alive(t)
  /\ refCount' = [refCount EXCEPT ![s] = @ - 1]
  /\ IF refCount'[s] <= 0
     THEN Goto(t, "zero") /\ UNCHANGED <<req, subject, snap, other, back>>
     ELSE Released(t)
  /\ UNCHANGED <<current, memory, list, history>>

(* A plain store, whatever has been counted since. *)
ProcessFilter_Release_Zero(t) ==
  /\ pc[t] = "zero" /\ Alive(t)
  /\ refCount' = [refCount EXCEPT ![snap[t]] = 0]
  /\ Goto(t, "test")
  /\ UNCHANGED <<current, memory, list, req, subject, snap, other, back, history>>

(* Fault: the snapshot in force is freed too. *)
ReleaseUntested(t) ==
  /\ pc[t] = "test"
  /\ Goto(t, "free")
  /\ UNCHANGED <<shared, req, subject, snap, other, back, history>>

(* The snapshot in force stays, with a count of zero. *)
ProcessFilter_Release_Test(t) ==
  /\ pc[t] = "test"
  /\ IF current = snap[t]
     THEN Released(t)
     ELSE Goto(t, "free") /\ UNCHANGED <<req, subject, snap, other, back>>
  /\ UNCHANGED <<shared, history>>

(* The entries of a superseded snapshot are unlinked and freed one by one, *)
ProcessFilter_Release_Entry(t) ==
  LET s == snap[t] IN
  /\ pc[t] \in Freeing /\ Alive(t) /\ list[s] # <<>>
  /\ list' = [list EXCEPT ![s] = Tail(@)]
  /\ Goto(t, "emptying")
  /\ UNCHANGED <<current, memory, refCount, req, subject, snap, other, back,
                 history>>

(* and then the snapshot is freed. *)
ProcessFilter_Release_Free(t) ==
  /\ pc[t] \in Freeing /\ Alive(t) /\ list[snap[t]] = <<>>
  /\ memory' = [memory EXCEPT ![snap[t]] = "freed"]
  /\ Released(t)
  /\ UNCHANGED <<current, refCount, list, history>>

-----------------------------------------------------------------------------
(* The list l with the change thread t asks for. *)
Changed(t, l) ==
  IF req[t] = "add" THEN Append(l, subject[t]) ELSE RemoveFirst(l, subject[t])

(* Fault: the change is made to the snapshot in force. *)
PublishInPlace(t) ==
  /\ pc[t] = "publish" /\ req[t] \in Writes /\ Alive(t)
  /\ list' = [list EXCEPT ![current] = Changed(t, @)]
  /\ policy' = Changed(t, policy)
  /\ Goto(t, "decrement")
  /\ UNCHANGED <<current, memory, refCount, req, subject, snap, other, back,
                 damaged, lost, revived, excuses, failures>>

(* Fault: the clone is published before it is changed, and not changed. *)
PublishUnchanged(t) ==
  /\ pc[t] = "publish" /\ req[t] \in Writes /\ Alive(t)
  /\ current' = snap[t]
  /\ policy' = Changed(t, policy)
  /\ IF current # other[t] THEN Excuse("overlap") ELSE UNCHANGED excuses
  /\ Goto(t, "decrement")
  /\ UNCHANGED <<memory, refCount, list, req, subject, snap, other, back,
                 damaged, lost, revived, failures>>

(* ProcessFilter_Add and ProcessFilter_Remove change the clone, which is   *)
(* theirs alone, and exchange the pointer.  The change of a request        *)
(* published since the clone was made is undone.                           *)
Publish(t) ==
  LET s == snap[t] IN
  /\ pc[t] = "publish" /\ req[t] \in Writes /\ Alive(t)
  /\ list' = [list EXCEPT ![s] = Changed(t, @)]
  /\ current' = s
  /\ policy' = Changed(t, policy)
  /\ IF current # other[t] THEN Excuse("overlap") ELSE UNCHANGED excuses
  /\ Goto(t, "decrement")
  /\ UNCHANGED <<memory, refCount, req, subject, snap, other, back,
                 damaged, lost, revived, failures>>

(* Fault: it is not. *)
AddFailsKeeps(t) ==
  /\ pc[t] = "publish" /\ req[t] = "add"
  /\ Fail
  /\ Finish(t)
  /\ UNCHANGED <<shared, damaged, policy, lost, revived, excuses>>

(* ProcessFilter_Add has no memory for the entry: the clone is released. *)
ProcessFilter_Add_Fails(t) ==
  /\ pc[t] = "publish" /\ req[t] = "add"
  /\ Fail
  /\ Goto(t, "decrement")
  /\ UNCHANGED <<shared, req, subject, snap, other, back,
                 damaged, policy, lost, revived, excuses>>

(* CloseProcessFilter publishes an empty snapshot, with a count of zero,   *)
(* and releases the one it has referenced.                                 *)
CloseProcessFilter(t) ==
  /\ pc[t] = "publish" /\ req[t] = "clear"
  /\ \E s \in Snapshots : Allocate(s, 0) /\ current' = s
  /\ policy' = <<>>
  /\ Goto(t, "decrement")
  /\ UNCHANGED <<list, req, subject, snap, other, back,
                 damaged, lost, revived, excuses, failures>>

(* A thread accesses a snapshot that has been freed, or an entry that may  *)
(* be among those freed: it walks the list, looks at an entry or removes   *)
(* one while another thread empties the list.                              *)
TouchFreed(t) ==
  /\ \/ /\ pc[t] \in Accessing /\ memory[snap[t]] = "freed"
        /\ ~(pc[t] = "publish" /\ req[t] = "clear")
     \/ pc[t] \in Reading \cup Freeing /\ Emptied(t)
  /\ damaged' = pc[t]
  /\ UNCHANGED <<shared, threads, policy, lost, revived, excuses, failures>>

-----------------------------------------------------------------------------
Reader(t)  == ProcessFilter_Match(t) \/ CheckEvent(t) \/ ProcessFilter_Count(t)
Writer(t)  == \/ ProcessFilter_Clone(t) \/ Publish(t) \/ ProcessFilter_Add_Fails(t)
              \/ CloseProcessFilter(t)
Counter(t) == \/ ProcessFilter_Ref_Load(t) \/ ProcessFilter_Ref_Increment(t)
              \/ ProcessFilter_Release_Decrement(t) \/ ProcessFilter_Release_Zero(t)
              \/ ProcessFilter_Release_Test(t) \/ ProcessFilter_Release_Entry(t)
              \/ ProcessFilter_Release_Free(t)

Next == /\ damaged = "none"
        /\ \E t \in Threads : \/ Start(t) \/ Reader(t) \/ Writer(t)
                              \/ Counter(t) \/ TouchFreed(t)

Spec == Init /\ [][Next]_vars

-----------------------------------------------------------------------------
(* Type invariant. *)
TypeOK ==
  /\ current \in Snapshots
  /\ memory \in [Snapshots -> {"unused", "live", "freed"}]
  /\ refCount \in [Snapshots -> Int]
  /\ list \in [Snapshots -> Seq(Policies)]
  /\ pc \in [Threads -> Locations]
  /\ req \in [Threads -> Requests \cup {"none"}]
  /\ subject \in [Threads -> Policies \cup {"none"}]
  /\ snap \in [Threads -> Snapshots \cup {None}]
  /\ other \in [Threads -> Snapshots \cup {None}]
  /\ back \in [Threads -> {"idle", "publish"}]
  /\ damaged \in Accessing \cup {"none"}
  /\ policy \in Seq(Policies)
  /\ lost \in [Snapshots -> Nat]
  /\ revived \subseteq Snapshots
  /\ excuses \subseteq {"truncated", "overlap"}
  /\ failures \in 0 .. MaxFailures

(* The snapshot in force is never freed, although its count is zero most   *)
(* of the time and every release sees that: the test of line 38 is made    *)
(* after the count is dropped, and a superseded snapshot never returns.    *)
CurrentLive == memory[current] = "live"

(* A thread that has counted its reference keeps its snapshot: it is not   *)
(* freed, nor is its list emptied by another thread, as long as nobody has *)
(* incremented the count of that very snapshot between a last decrement    *)
(* and the end of the release; what becomes of other snapshots is no       *)
(* danger.  The snapshot that was revived is the one HandleCounts loses.   *)
CountedIsSafe ==
  \A t \in Threads :
    pc[t] \in Accessing \ {"increment"} /\ snap[t] \notin revived
    => Alive(t) /\ ~Emptied(t)

(* The list in force is what the requests published so far ask for, unless *)
(* two changes overlapped or a clone ran out of memory.                    *)
UpdatesKept ==
  excuses = {} => list[current] = policy

(* A snapshot that is left behind for good, superseded and no thread's, is *)
(* so because Match lost references to it, or because its last release     *)
(* came while it was in force and dropped the count to zero without        *)
(* freeing it; no held reference is ever the cause.                        *)
LeftBehind(s) == /\ memory[s] = "live" /\ s # current
                 /\ \A t \in Threads : s \notin {snap[t], other[t]}
LeaksUnheld ==
  \A s \in Snapshots \ revived : LeftBehind(s) => refCount[s] = lost[s]

(* No thread sees the list it walks change, unless its snapshot was        *)
(* revived: changes are made to clones, and a list is emptied, entry by    *)
(* entry, only when nobody has a counted reference to it.  A reader of a   *)
(* revived snapshot sees it emptied before it is freed.                    *)
ReadersUndisturbed ==
  [][\A t \in Threads : pc[t] \in Reading /\ snap[t] \notin revived
       => list'[snap[t]] = list[snap[t]]]_vars

-----------------------------------------------------------------------------
(* The inductive invariant. *)

(* The snapshot a change is prepared in: nobody else's until published. *)
Mine(t) == IF back[t] = "publish" THEN other[t]
           ELSE IF pc[t] = "publish" /\ req[t] \in Writes THEN snap[t]
           ELSE None

(* Where a thread is says what it works on. *)
Shape(t) ==
  /\ pc[t] = "idle" => back[t] = "idle" /\ other[t] = None
  /\ pc[t] # "idle" => subject[t] \in Policies /\ req[t] \in Requests
  /\ pc[t] \in {"idle", "load"} <=> snap[t] = None
  /\ back[t] = "publish" => /\ other[t] # None /\ req[t] \in Writes
                           /\ pc[t] \notin {"match", "use", "count", "publish"}
  /\ pc[t] \in {"load", "increment"} /\ req[t] \in Writes => back[t] = "publish"
  /\ pc[t] = "copy" => back[t] = "publish"
  /\ pc[t] = "publish" /\ req[t] \in Writes => other[t] # None

ThreadShape == \A t \in Threads : Shape(t)

(* What is prepared is apart from what is in force and what others use;    *)
(* only what has been superseded or given up is freed.                     *)
Apart(t) ==
  /\ snap[t] # None => memory[snap[t]] # "unused"
  /\ other[t] # None => memory[other[t]] # "unused"
  /\ pc[t] \in Freeing => snap[t] # current
  /\ Mine(t) # None =>
       /\ memory[Mine(t)] = "live" /\ Mine(t) # current /\ snap[t] # other[t]
       /\ \A u \in Threads \ {t} : snap[u] # Mine(t) /\ other[u] # Mine(t)

SnapshotsApart == CurrentLive /\ \A t \in Threads : Apart(t)

(* A clone has been copied, and not changed yet. *)
Cloned(t) == \/ back[t] = "publish" /\ pc[t] \in Dropping \cup {"decrement"}
             \/ pc[t] = "publish" /\ req[t] \in Writes

(* What the clone of t was copied from. *)
Original(t) == IF back[t] = "publish" THEN snap[t] ELSE other[t]

(* A clone that got all its memory equals what it was cloned from, while   *)
(* that is in force.                                                       *)
ClonesExact ==
  /\ UpdatesKept
  /\ \A s \in Snapshots : memory[s] = "unused" => list[s] = <<>>
  /\ excuses = {} =>
       \A t \in Threads : Cloned(t) /\ Original(t) = current
                           => list[Mine(t)] = list[current]

(* The reference of thread t to snapshot s is counted: from the increment  *)
(* to the decrement, and as long as t prepares s.                          *)
Uses(t, s) == \/ snap[t] = s /\ pc[t] \in Reading \cup {"publish", "decrement"}
              \/ other[t] = s /\ back[t] = "publish"

Users(s) == {t \in Threads : Uses(t, s)}

(* The count of a snapshot is that of its users and of the references that *)
(* Match has lost, until one is counted again after its last release.      *)
CountsExact ==
  \A s \in Snapshots \ revived :
    /\ memory[s] = "live" => refCount[s] = Cardinality(Users(s)) + lost[s]
    /\ memory[s] # "live" => Users(s) = {}
    /\ memory[s] = "unused" => lost[s] = 0

(* And until then one thread at a time has made the last release of it.    *)
DropsAlone ==
  \A t \in Threads :
    pc[t] \in Dropping /\ snap[t] \notin revived
    => /\ Alive(t) /\ refCount[snap[t]] = 0
       /\ \A u \in Threads \ {t} : pc[u] \in Dropping => snap[u] # snap[t]

Inv == /\ TypeOK /\ ThreadShape /\ SnapshotsApart /\ ClonesExact
       /\ CountsExact /\ DropsAlone

-----------------------------------------------------------------------------
(* irpContext.hpp:37 says of ProcessFilterHandle "dont use direcetly this  *)
(* pointer, just refcount": the handle an IRP holds counts as a reference, *)
(* and keeps the entry it came with.                                       *)
HandleCounts == \A t \in Threads : pc[t] = "use" => Alive(t)
=============================================================================
