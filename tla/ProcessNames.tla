----------------------------- MODULE ProcessNames -----------------------------
(***************************************************************************)
(* The table of process names of both drivers                              *)
(* (utilities/procNameMgr.cpp of sys and of sys-isolation): a list of      *)
(* entries under one resource, newest first.  The process notify routine   *)
(* adds an entry at creation and removes one at exit; every other callback *)
(* looks the requestor up and adds an entry when it finds none.  An entry  *)
(* holds a reference to the process object, and the kernel frees an id     *)
(* only with the object, so the table also decides which ids may be        *)
(* reused.                                                                 *)
(***************************************************************************)
EXTENDS Integers, Sequences, FiniteSets, SequencesExt

CONSTANTS
    Procs,          \* process objects; two of them may be given the same id
    Pids,           \* ids above 4
    SystemPid,      \* an id of at most 4
    Threads,        \* threads that run a notification or a callback
    NameSources,    \* where InsertProcessInfo may get a name: "locate", "peb",
                    \* "handle", or "denied" / "nohandle" when nothing gives one
    PebOfCurrent,   \* TRUE: the system is Windows 10 (see PebName)
    Failures,       \* which steps may fail: "memory", "lookup"
    MaxDepth        \* bound on the recursion of SearchProcessInfo

NoProc == "no process"
NoPid == "no pid"

ASSUME NamesAssumption ==
    /\ SystemPid \notin Pids
    /\ NoProc \notin Procs /\ NoPid \notin Pids /\ NoPid # SystemPid
    /\ NameSources \subseteq {"locate", "peb", "handle", "denied", "nohandle"}
    /\ PebOfCurrent \in BOOLEAN
    /\ Failures \subseteq {"memory", "lookup"}
    /\ MaxDepth \in Nat \ {0}

VARIABLES
    life,       \* per process object: unborn, alive, exited or freed
    pid,        \* its id
    refs,       \* references the driver holds to it
    table,      \* ProcInfoListHead: [pid, proc, name], newest first
    open,       \* the list and its lock exist
    thr,        \* per thread, the call it is in
    leaks,      \* references of entries that were dropped unlinked
    raced,      \* objects inserted while an entry of theirs was in the table
    forgotten,  \* objects whose exit notification has removed an entry
    late        \* objects inserted after that

nameVars == <<life, pid, refs, table, open, thr, leaks, raced, forgotten, late>>

\* A call at step pc for id q of process p, from the thread of process c.
CallOf(pc, op, p, q, c) ==
    [pc |-> pc, op |-> op, proc |-> p, pid |-> q, current |-> c,
     depth |-> 0, why |-> {}, answer |-> NoProc, status |-> "none"]

NotInCall == CallOf("idle", "none", NoProc, NoPid, NoProc)

Entries == [pid : Pids, proc : Procs, name : Procs]

Statuses == {"none", "SUCCESS", "UNSUCCESSFUL", "INSUFFICIENT_RESOURCES", "INVALID_PARAMETER"}

Calls == [pc : {"idle", "search", "insert", "delete", "done"}, op : {"none", "create", "exit", "request"},
          proc : Procs \cup {NoProc}, pid : Pids \cup {SystemPid, NoPid},
          current : Procs \cup {NoProc}, depth : 0 .. MaxDepth,
          why : SUBSET {"memory", "lookup", "unlinked", "deleted"}, answer : Procs \cup {NoProc},
          status : Statuses]

-----------------------------------------------------------------------------
(* The helpers. *)

\* SearchProcessInfo walks from the head and stops at the first entry of id q;
\* 0 when there is none.
Find(q) == SelectInSeq(table, LAMBDA e : e.pid = q)

\* GetProcessNameFromEPROCESS: the image path in the parameters block of the
\* process, laid out as the version of Windows has it; for version 10 the code
\* takes the current process in place of the one it was given.
PebName(p, current) == IF PebOfCurrent THEN current ELSE p

\* The name InsertProcessInfo ends with, by source: SeLocateProcessImageName and
\* GetProcessNameByHandle read the process they are given.
NameFrom(source, p, current) == IF source = "peb" THEN PebName(p, current) ELSE p

\* What PsLookupProcessByProcessId finds: the object that owns the id, which is
\* there until the object is freed.
There(p) == life[p] \in {"alive", "exited"}
Owner(q) == {p \in Procs : pid[p] = q /\ There(p)}

Running(p) == \E t \in Threads : thr[t].pc # "idle" /\ (thr[t].proc = p \/ thr[t].current = p)

Go(t, rec) == thr' = [thr EXCEPT ![t] = rec]

-----------------------------------------------------------------------------
(* The kernel. *)

NamesInit ==
    /\ life = [p \in Procs |-> "unborn"]
    /\ pid = [p \in Procs |-> NoPid]
    /\ refs = [p \in Procs |-> 0]
    /\ table = <<>>
    /\ open = TRUE
    /\ thr = [t \in Threads |-> NotInCall]
    /\ leaks = [p \in Procs |-> 0]
    /\ raced = {} /\ forgotten = {} /\ late = {}

\* A process is created with a free id; the notify routine runs in the thread of
\* the creator and starts with InsertProcessInfo.
ProcessCreated(t, p, q, creator) ==
    /\ thr[t].pc = "idle" /\ life[p] = "unborn" /\ Owner(q) = {}
    /\ life[creator] = "alive" \/ creator = p
    /\ life' = [life EXCEPT ![p] = "alive"]
    /\ pid' = [pid EXCEPT ![p] = q]
    /\ thr' = IF open
              THEN [thr EXCEPT ![t] = CallOf("insert", "create", p, q, creator)]
              ELSE thr
    /\ UNCHANGED <<refs, table, open, leaks, raced, forgotten, late>>

\* The last thread of a process ends: the notify routine looks it up first.
\* The creation has been reported before.
ProcessExited(t, p) ==
    /\ thr[t].pc = "idle" /\ life[p] = "alive"
    /\ \A u \in Threads : ~(thr[u].proc = p /\ thr[u].op = "create")
    /\ life' = [life EXCEPT ![p] = "exited"]
    /\ thr' = IF open
              THEN [thr EXCEPT ![t] = CallOf("search", "exit", p, pid[p], p)]
              ELSE thr
    /\ UNCHANGED <<pid, refs, table, open, leaks, raced, forgotten, late>>

\* A request of process p reaches CreateIrpContext; an exited process still
\* closes its handles, which are requests too.
Request(t, p) ==
    /\ open /\ thr[t].pc = "idle" /\ life[p] \in {"alive", "exited"}
    /\ Go(t, CallOf("search", "request", p, pid[p], p))
    /\ UNCHANGED <<life, pid, refs, table, open, leaks, raced, forgotten, late>>

\* A request of the system process.
SystemRequest(t, p) ==
    /\ open /\ thr[t].pc = "idle" /\ life[p] = "alive"
    /\ Go(t, CallOf("search", "request", NoProc, SystemPid, NoProc))
    /\ UNCHANGED <<life, pid, refs, table, open, leaks, raced, forgotten, late>>

\* The object of an exited process goes with its last reference, and its id is
\* free again.
Freed(p) ==
    /\ life[p] = "exited" /\ refs[p] = 0 /\ ~Running(p)
    /\ life' = [life EXCEPT ![p] = "freed"]
    /\ UNCHANGED <<pid, refs, table, open, thr, leaks, raced, forgotten, late>>

-----------------------------------------------------------------------------
(* The steps of a call; each holds ProcInfoLock from beginning to end. *)

\* Where a search goes when it ends: the exit notification removes the entry.
AfterSearch(r, answer, status) ==
    [r EXCEPT !.pc = IF r.op = "exit" THEN "delete" ELSE "done",
              !.answer = answer, !.status = status]

\* SearchProcessInfo, under the lock held shared.
Search(t) ==
    LET r == thr[t]
        i == Find(r.pid) IN
    /\ r.pc = "search"
    /\ \/ /\ r.pid = SystemPid
          /\ Go(t, AfterSearch(r, NoProc, "SUCCESS"))
       \/ /\ r.pid # SystemPid /\ i # 0
          /\ Go(t, AfterSearch(r, table[i].name, "SUCCESS"))
       \/ /\ r.pid # SystemPid /\ i = 0 /\ r.depth < MaxDepth
          /\ Go(t, [r EXCEPT !.pc = "insert"])
       \/ /\ i # 0 /\ "memory" \in Failures /\ r.depth < MaxDepth   \* AllocateBuffer fails
          /\ Go(t, [r EXCEPT !.pc = "insert", !.why = @ \cup {"memory"}])
    /\ UNCHANGED <<life, pid, refs, table, open, leaks, raced, forgotten, late>>

\* What follows InsertProcessInfo: the notification goes on whatever it says, a
\* search gives its failure back or starts again.
AfterInsert(r, status) ==
    IF r.op = "create" /\ r.depth = 0
    THEN [r EXCEPT !.pc = "search", !.depth = 1]
    ELSE IF status = "SUCCESS"
         THEN [r EXCEPT !.pc = "search", !.depth = @ + 1]
         ELSE AfterSearch(r, NoProc, status)

\* InsertProcessInfo finds a name and links the entry at the head, without
\* looking for an entry the process may have.
InsertNamed(t) ==
    LET r == thr[t] IN
    /\ r.pc = "insert"
    /\ \E p \in Owner(r.pid), source \in NameSources \cap {"locate", "peb", "handle"} :
        /\ table' = <<[pid |-> r.pid, proc |-> p, name |-> NameFrom(source, p, r.current)]>> \o table
        /\ refs' = [refs EXCEPT ![p] = @ + 1]
        /\ raced' = IF Find(r.pid) # 0 THEN raced \cup {p} ELSE raced
        /\ late' = IF p \in forgotten THEN late \cup {p} ELSE late
    /\ Go(t, AfterInsert(r, "SUCCESS"))
    /\ UNCHANGED <<life, pid, open, leaks, forgotten>>

\* It finds no name: the entry is dropped unlinked with its reference.  Without a
\* handle the status is still the success of the look-up.
InsertUnnamed(t) ==
    LET r == thr[t] IN
    /\ r.pc = "insert"
    /\ \E p \in Owner(r.pid), source \in NameSources \cap {"denied", "nohandle"} :
        /\ refs' = [refs EXCEPT ![p] = @ + 1]
        /\ leaks' = [leaks EXCEPT ![p] = @ + 1]
        /\ IF source = "denied"
           THEN Go(t, AfterInsert(r, "UNSUCCESSFUL"))
           ELSE Go(t, AfterInsert([r EXCEPT !.why = @ \cup {"unlinked"}], "SUCCESS"))
    /\ UNCHANGED <<life, pid, table, open, raced, forgotten, late>>

\* It has no memory for the entry, or the id is not found: for an exiting process
\* the look-up may go either way.
InsertFails(t) ==
    LET r == thr[t] IN
    /\ r.pc = "insert"
    /\ \/ /\ "memory" \in Failures
          /\ Go(t, AfterInsert([r EXCEPT !.why = @ \cup {"memory"}], "INSUFFICIENT_RESOURCES"))
       \/ /\ "lookup" \in Failures
          /\ \A p \in Owner(r.pid) : life[p] = "exited"
          /\ Go(t, AfterInsert([r EXCEPT !.why = @ \cup {"lookup"}], "INVALID_PARAMETER"))
    /\ UNCHANGED <<life, pid, refs, table, open, leaks, raced, forgotten, late>>

\* Fault: the first entry of the list is never looked at.
FaultDeleteSkipsHead(t) ==
    LET i == SelectInSeq(table, LAMBDA e : e.pid = thr[t].pid) IN
    /\ thr[t].pc = "delete"
    /\ table' = IF i < 2 THEN table ELSE RemoveAt(table, i)
    /\ refs' = IF i < 2 THEN refs ELSE [refs EXCEPT ![table[i].proc] = @ - 1]
    /\ Go(t, [thr[t] EXCEPT !.pc = "done"])
    /\ forgotten' = forgotten \cup {thr[t].proc}
    /\ UNCHANGED <<life, pid, open, leaks, raced, late>>

\* DeleteProcessInfo unlinks the first entry of the id, no more, and gives its
\* reference back.  Other searches for the id will not find what they inserted.
DeleteProcessInfo(t) ==
    LET r == thr[t]
        i == Find(r.pid) IN
    /\ r.pc = "delete"
    /\ IF i = 0
       THEN UNCHANGED <<table, refs>>
       ELSE /\ table' = RemoveAt(table, i)
            /\ refs' = [refs EXCEPT ![table[i].proc] = @ - 1]
    /\ thr' = [u \in Threads |->
                 IF u = t THEN [r EXCEPT !.pc = "done"]
                 ELSE IF thr[u].pid = r.pid /\ thr[u].pc = "search"
                      THEN [thr[u] EXCEPT !.why = @ \cup {"deleted"}]
                      ELSE thr[u]]
    /\ forgotten' = forgotten \cup {r.proc}
    /\ UNCHANGED <<life, pid, open, leaks, raced, late>>

Finish(t) ==
    /\ thr[t].pc = "done"
    /\ Go(t, NotInCall)
    /\ UNCHANGED <<life, pid, refs, table, open, leaks, raced, forgotten, late>>

\* StopProcessNotify, on unload: the filter has been unregistered and the routine
\* removed, so no call is in progress; CloseProcInfoSet empties the list.
StopProcessNotify ==
    /\ open /\ \A t \in Threads : thr[t].pc = "idle"
    /\ open' = FALSE
    /\ table' = <<>>
    /\ refs' = [p \in Procs |->
                  refs[p] - Cardinality({i \in DOMAIN table : table[i].proc = p})]
    /\ UNCHANGED <<life, pid, thr, leaks, raced, forgotten, late>>

-----------------------------------------------------------------------------
ThreadStep(t) == Search(t) \/ InsertNamed(t) \/ InsertUnnamed(t) \/ InsertFails(t)
                 \/ DeleteProcessInfo(t) \/ Finish(t)

Kernel ==
    \/ \E t \in Threads, p, c \in Procs, q \in Pids : ProcessCreated(t, p, q, c)
    \/ \E t \in Threads, p \in Procs : ProcessExited(t, p) \/ Request(t, p) \/ SystemRequest(t, p)
    \/ \E p \in Procs : Freed(p)

NamesNext == Kernel \/ (\E t \in Threads : ThreadStep(t)) \/ StopProcessNotify

NamesSpec == NamesInit /\ [][NamesNext]_nameVars

\* A thread that is in a call goes on: the resource is held for one step only.
FairNames == NamesSpec /\ \A t \in Threads : WF_nameVars(ThreadStep(t))

-----------------------------------------------------------------------------
(* Properties. *)

EntriesOf(p) == {i \in DOMAIN table : table[i].proc = p}

\* The shape of every variable.
NamesTypeOK ==
    /\ life \in [Procs -> {"unborn", "alive", "exited", "freed"}]
    /\ pid \in [Procs -> Pids \cup {NoPid}]
    /\ refs \in [Procs -> Nat] /\ leaks \in [Procs -> Nat]
    /\ table \in Seq(Entries) /\ open \in BOOLEAN /\ thr \in [Threads -> Calls]
    /\ raced \subseteq Procs /\ forgotten \subseteq Procs /\ late \subseteq Procs

\* The process that owns an id is the one its entries were made for: an entry that
\* outlives its process keeps the id from being reused, so no process ever gets
\* the name of an earlier one (InsertProcessInfo, DeleteProcessInfo).
PidsPinned ==
    \A i \in DOMAIN table :
        /\ life[table[i].proc] # "freed"
        /\ \A p \in Owner(table[i].pid) : p = table[i].proc

\* The references the driver holds are those of the entries in the table and of
\* the entries it dropped; closing the table gives back all the others.
ReferencesAccounted ==
    \A p \in Procs : refs[p] = Cardinality(EntriesOf(p)) + leaks[p]

\* Once its exit is dealt with, a process has no entry, unless one was inserted
\* beside another or after the exit notification (DeleteProcessInfo removes one).
LeftExplained ==
    \A p \in forgotten \ (raced \cup late) : EntriesOf(p) = {}

\* How often a search may start over: its first entry, and for the creation of a
\* process the one the notification has inserted, or failed to.
Starts(r) == IF r.op = "create" THEN 2 ELSE 1

\* A search starts over once more only when the entry it inserted was removed
\* meanwhile, was never linked although InsertProcessInfo reported success, or
\* could not be copied (SearchProcessInfo calls itself).
DepthExplained ==
    \A t \in Threads : thr[t].depth > Starts(thr[t]) => thr[t].why # {}

\* A search that has called itself as often as is followed, since InsertProcessInfo
\* keeps reporting success without linking its entry, or since what it found could not
\* be copied: nothing but memory and stack end it.
Endless(t) == thr[t].depth = MaxDepth /\ thr[t].why \cap {"unlinked", "memory"} # {}

\* No name is read from the current process in place of the one that was asked for.
RightNames == PebOfCurrent => "peb" \notin NameSources

\* A call on a version of Windows before 10, or that finds the name with
\* SeLocateProcessImageName, answers with the name of the process it was asked for.
AnswersNameProcess ==
    RightNames =>
        \A t \in Threads : thr[t].pc = "done" => thr[t].answer \in {NoProc, thr[t].proc}

\* The table of names: every reference to a process and every search is accounted
\* for, ids are not reused under an entry, what an exited process leaves has a named
\* reason, and an answer names the process it was asked for.
NamesAccounted ==
    /\ NamesTypeOK /\ PidsPinned /\ ReferencesAccounted /\ LeftExplained
    /\ DepthExplained /\ AnswersNameProcess

-----------------------------------------------------------------------------
(* Why it holds. *)

\* An id belongs to one object as long as the object is there.
OwnersDiffer ==
    \A p \in Procs : There(p) => pid[p] \in Pids /\ Owner(pid[p]) = {p}

\* An entry is of an object that is there, under its own id and name.
EntryOwned(i) ==
    /\ There(table[i].proc) /\ table[i].pid = pid[table[i].proc]
    /\ RightNames => table[i].name = table[i].proc

\* A process has one entry unless one was inserted beside it.
OneEntry(p) == p \notin raced => \A i, j \in EntriesOf(p) : i = j

Linked(q) == \E i \in DOMAIN table : table[i].pid = q

\* A call is for a process that is there, or the system; as long as nothing went wrong
\* a search that has inserted its entry finds it.
CallSound(t) ==
    LET r == thr[t] IN
    /\ r.pc # "idle" => IF r.proc = NoProc
                        THEN r.pid = SystemPid /\ r.op = "request" /\ r.pc \in {"search", "done"}
                        ELSE There(r.proc) /\ r.pid = pid[r.proc] /\ r.current \in Procs
    /\ r.pc = "delete" => r.op = "exit"
    /\ r.pc = "insert" => r.depth < MaxDepth
    /\ r.why = {} => /\ r.depth <= Starts(r)
                     /\ r.pc = "insert" => r.depth < Starts(r)
                     /\ r.pc = "search" /\ r.depth = Starts(r) => Linked(r.pid)
    /\ RightNames /\ r.pc \in {"delete", "done"} => r.answer \in {NoProc, r.proc}

NamesInv ==
    /\ NamesTypeOK /\ ReferencesAccounted /\ LeftExplained /\ OwnersDiffer
    /\ \A i \in DOMAIN table : EntryOwned(i)
    /\ \A p \in Procs : OneEntry(p)
    /\ \A t \in Threads : CallSound(t)
=============================================================================
