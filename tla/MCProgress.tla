----------------------------- MODULE MCProgress -----------------------------
(***************************************************************************)
(* What must come to an end in both drivers, for TLC: events in the queue, *)
(* the end of a transaction, jobs that wait for the locks of a file, the   *)
(* spinning for a client's port, and a search for a process name.  The     *)
(* modules share no state: a behaviour of this run is one of a single      *)
(* instance, named by part, under the fairness its module states.          *)
(***************************************************************************)
EXTENDS TransactionalDelete

CONSTANTS Producers, Collectors, Items, ListHead, Lockers,
          Clients, Conns, Callbacks, Procs, Pids, sys, Searchers

VARIABLES part,
    linkedBy, CurrentItemCount, flink, blink, mem, MessageSize, item, room, out, written, buffer, told,
    fate, links, early, failed,
    owner, exclusive, flags, fetched, job, started, status, nested, toRelease, crossed,
    at, fault,  \* of the threads in the queue and with the locks
    slots, controller, conn, call, evtId, wrapped, overlapped, loaded, cookieGiven,
    life, pid, table, open, thr, leaks, forgotten, procRefs, procRaced, procLate

queueVars == << linkedBy, CurrentItemCount, flink, blink, mem, MessageSize, item, room, out, written, buffer,
                told, fate, links, early, failed >>
lockVars == << owner, exclusive, flags, fetched, job, started, status, nested, toRelease, crossed >>
threadVars == << at, fault >>
portVars == << slots, controller, conn, call, evtId, wrapped, overlapped, loaded, cookieGiven >>
nameVars == << life, pid, table, open, thr, leaks, forgotten, procRefs, procRaced, procLate >>
allVars == << vars, part, queueVars, lockVars, threadVars, portVars, nameVars >>

\* Items linked twice, as the code does it, or once, by the caller; clients that keep
\* asking, with a buffer that no item fits into or with one for a single item.
Queue == INSTANCE NotifyQueue WITH failures <- failed,
    MaxNotifyItemCount <- 2, Linkings <- {{"allocate", "caller"}, {"caller"}},
    MaxFailures <- 1, MaxBelow <- 1,
    PacketSize <- 1, Sizes <- {3}, Buffers <- {2, 5}

Locks == INSTANCE FcbLocks WITH Threads <- Lockers, pc <- at,
    FlagsAtomic <- FALSE, MaxAhead <- 2, MaxJobs <- 4,
    Jobs <- {"read", "write", "flush", "ccflush", "lazy", "ahead", "mapped", "section", "sizes"}

Ports == INSTANCE ClientPorts WITH MaxConn <- 2, SeedLimit <- 2

Names == INSTANCE ProcessNames WITH Threads <- Searchers, SystemPid <- sys,
    refs <- procRefs, raced <- procRaced, late <- procLate,
    NameSources <- {"locate", "denied", "nohandle"}, PebOfCurrent <- TRUE,
    Failures <- {"memory", "lookup"}, MaxDepth <- 2

ASSUME /\ Queue!QueueAssumption /\ Locks!LockAssumption
       /\ Ports!PortsAssumption /\ Names!NamesAssumption

\* Bound of the table of names: but for the exit of a process no call starts while the
\* table or a leak holds a reference.  Those in progress go on.
NoReferences == \A q \in Procs : procRefs[q] = 0

\* What happens after two threads have used the same flags is not followed: nothing is
\* promised then.
Uncrossed == part = "locks" => crossed = {}

-----------------------------------------------------------------------------

NoQueue == /\ linkedBy = 0 /\ CurrentItemCount = 0 /\ flink = 0 /\ blink = 0 /\ mem = 0 /\ MessageSize = 0
           /\ item = 0 /\ room = 0 /\ out = 0 /\ written = 0 /\ buffer = 0 /\ told = 0
           /\ fate = 0 /\ links = 0 /\ early = 0 /\ failed = 0
NoLocks == /\ owner = 0 /\ exclusive = 0 /\ flags = 0 /\ fetched = 0 /\ job = 0 /\ started = 0
           /\ status = 0 /\ nested = 0 /\ toRelease = 0 /\ crossed = 0
NoThreads == at = 0 /\ fault = 0
NoPorts == /\ slots = 0 /\ controller = 0 /\ conn = 0 /\ call = 0 /\ evtId = 0 /\ wrapped = 0
           /\ overlapped = 0 /\ loaded = 0 /\ cookieGiven = 0
NoNames == /\ life = 0 /\ pid = 0 /\ table = 0 /\ open = 0 /\ thr = 0 /\ leaks = 0 /\ forgotten = 0
           /\ procRefs = 0 /\ procRaced = 0 /\ procLate = 0

MCInit ==
    /\ Init
    /\ \/ part = "trans" /\ NoQueue /\ NoLocks /\ NoThreads /\ NoPorts /\ NoNames
       \/ part = "queue" /\ Queue!QueueInit /\ NoLocks /\ NoPorts /\ NoNames
       \/ part = "locks" /\ Locks!Init /\ NoQueue /\ NoPorts /\ NoNames
       \/ part = "ports" /\ Ports!PortsInit /\ cookieGiven /\ NoQueue /\ NoLocks /\ NoThreads /\ NoNames
       \/ part = "names" /\ Names!NamesInit /\ NoQueue /\ NoLocks /\ NoThreads /\ NoPorts

\* What a step of each module leaves alone.
ButTrans == UNCHANGED << part, queueVars, lockVars, threadVars, portVars, nameVars >>
ButQueue == UNCHANGED << vars, part, lockVars, portVars, nameVars >>
ButLocks == UNCHANGED << vars, part, queueVars, portVars, nameVars >>
ButPorts == UNCHANGED << vars, part, queueVars, lockVars, threadVars, nameVars >>
ButNames == UNCHANGED << vars, part, queueVars, lockVars, threadVars, portVars >>

MCNext ==
    \/ part = "trans" /\ Next /\ ButTrans
    \/ part = "queue" /\ Queue!QueueNext /\ ButQueue
    \/ part = "locks" /\ Locks!Next /\ ButLocks
    \/ part = "ports" /\ Ports!PortsNext /\ ButPorts
    \/ /\ part = "names" /\ ButNames
       /\ \/ NoReferences /\ Names!Kernel
          \/ \E t \in Searchers, q \in Procs : Names!ProcessExited(t, q)
          \/ Names!StopProcessNotify
          \/ \E t \in Searchers : Names!ThreadStep(t)

\* A step of thread t, in the module of the behaviour at hand.
ThreadGoesOn(t) ==
    \/ part = "trans" /\ t \in Threads /\ PostCleanup(t) /\ ButTrans
    \/ part = "queue" /\ t \in Producers /\ ~fault /\ at[t] # "idle" /\ Queue!Produce(t) /\ ButQueue
    \/ part = "queue" /\ t \in Collectors /\ ~fault /\ Queue!Collect(t) /\ ButQueue
    \/ part = "locks" /\ t \in Lockers /\ Locks!Step(t) /\ ButLocks
    \/ part = "ports" /\ t \in Callbacks /\ Ports!CallbackStep(t) /\ ButPorts
    \/ part = "names" /\ t \in Searchers /\ Names!ThreadStep(t) /\ ButNames

\* The fairness of the modules, each for its own part.
Fairness ==
    /\ \A t \in Threads \cup Producers \cup Collectors \cup Lockers \cup Callbacks \cup Searchers :
         WF_allVars(ThreadGoesOn(t))
    /\ WF_allVars(part = "trans" /\ EndTransaction /\ ButTrans)
    /\ WF_allVars(part = "trans" /\ TransactionNotification /\ ButTrans)
    /\ WF_allVars(part = "trans" /\ FreeTransactionContext /\ ButTrans)

MCSpec == MCInit /\ [][MCNext]_allVars /\ Fairness

-----------------------------------------------------------------------------

\* While a client keeps asking, every event that was queued leaves the queue, unless
\* the second link of an item has led the list past it or memory was corrupted.
EventuallyLeaves == \A n \in Items :
    (part = "queue" /\ mem[n] = "filled")
        ~> (part = "queue" /\ (fate[n] # "queued" \/ Queue!CutOut(n) \/ fault))

\* Whatever is started is finished: all jobs with the locks of a file end, unless two
\* threads have used the flags of one before, and every search for a name returns,
\* unless it calls itself for one of the two reasons for which that has no end.
EventuallyIdle ==
    \A t \in Searchers :
        \/ part = "locks" /\ \E u \in Lockers : at[u] # "idle"
        \/ part = "names" /\ thr[t].pc # "idle"
        ~>
        \/ part = "locks" /\ ((\A u \in Lockers : at[u] = "idle") \/ fault = "not_owner" \/ crossed # {})
        \/ part = "names" /\ (thr[t].pc = "idle" \/ Names!Endless(t))

\* GetClientPort never spins past a client in the event's own slot.
SpinsOnEmptySlot == \A t \in Callbacks :
    []<>(part = "ports" => \/ call[t].pc = "idle"
                           \/ Ports!OwnSlot(call[t].seed) \notin Ports!Slots
                           \/ slots[Ports!OwnSlot(call[t].seed)] = Ports!NoConn)
=============================================================================
