----------------------------- MODULE PolicyPin -----------------------------
(***************************************************************************)
(* Who keeps a snapshot of the isolation driver's process filter alive.    *)
(* ProcessFilter_Match walks one snapshot under a reference of its own and *)
(* answers with an entry of it, but the handle it hands out, which the IRP *)
(* context keeps until it is closed, references whatever snapshot is in    *)
(* force by then.  Changes clone and exchange, a reset exchanges for an    *)
(* empty list.                                                             *)
(*                                                                         *)
(* Each thread stands before one step of a function (pc), which works on   *)
(* one of its local pointers (ptr); the local pointers are its registers.  *)
(* A run is followed up to the first access to freed memory.               *)
(***************************************************************************)
EXTENDS Integers, FiniteSets

CONSTANTS
    Threads,        \* callbacks and control codes that run at the same time
    Snaps, First,   \* addresses of PROCESS_FILTER, each given out once
    None,
    Calls           \* what the threads call: "match", "change", "reset"

ASSUME PinAssumption ==
    First \in Snaps /\ None \notin Snaps /\ Calls \subseteq {"match", "change", "reset"}

VARIABLES
    current,        \* GlobalContext.ProcessFilter
    memory, count,  \* each snapshot: its life and its RefCount
    reg,            \* registers of each thread: PFilter, NewFilter, the handle and the entry's snapshot
    pc, ptr,        \* the step each thread takes next, and the register it is about
    request,        \* what each thread was called for
    damaged,        \* the step that touched freed memory, or "no"
    causes          \* history: events that may harm a reader: "revived", "switched"

pinVars == <<current, memory, count, reg, pc, ptr, request, damaged, causes>>

Registers == {"PFilter", "NewFilter", "Handle", "Entry"}
Touching == {"increment", "walk", "use", "decrement", "zero", "free"}

PinInit ==
    /\ current = First
    /\ memory = [s \in Snaps |-> IF s = First THEN "live" ELSE "unused"]
    /\ count = [s \in Snaps |-> 0]
    /\ reg = [t \in Threads |-> [r \in Registers |-> None]]
    /\ pc = [t \in Threads |-> "idle"] /\ ptr = [t \in Threads |-> "PFilter"]
    /\ request = [t \in Threads |-> "none"]
    /\ damaged = "no"
    /\ causes = {}

-----------------------------------------------------------------------------
\* The way through the functions.

Goto(t, step, r) == pc' = [pc EXCEPT ![t] = step] /\ ptr' = [ptr EXCEPT ![t] = r]
At(t) == reg[t][ptr[t]]
Live(t) == memory[At(t)] = "live"

Return(t) == Goto(t, "idle", "PFilter") /\ request' = [request EXCEPT ![t] = "none"]

\* A match or a change begins with ProcessFilter_Ref, a reset with the empty list.
Call(t) ==
    /\ pc[t] = "idle"
    /\ \E c \in Calls :
         /\ c # "match" => \E s \in Snaps : memory[s] = "unused"
         /\ request' = [request EXCEPT ![t] = c]
         /\ IF c = "reset" THEN Goto(t, "allocate", "NewFilter") ELSE Goto(t, "load", "PFilter")
    /\ UNCHANGED <<current, memory, count, reg, damaged, causes>>

\* ProcessFilter_Ref returns: to the walk, the copy of a clone, the exchange of a reset; or
\* with the handle, and the match releases its own reference.
Referenced(t) ==
    IF ptr[t] = "Handle" THEN Goto(t, "decrement", "PFilter")
    ELSE \/ request[t] = "match" /\ Goto(t, "walk", "PFilter")
         \/ request[t] = "change" /\ Goto(t, "allocate", "NewFilter")
         \/ request[t] = "reset" /\ Goto(t, "exchange", "NewFilter")

\* ProcessFilter_Release returns.  The IRP goes on with the entry a match has found, and a
\* clone is changed and exchanged, or with nothing to change only released (ProcessFilter_Add,
\* _AddEntry, _Remove, _RemoveEntry).
Released(t) ==
    LET goesOn == ptr[t] = "PFilter" /\ (request[t] = "change" \/ reg[t]["Entry"] # None) IN
    /\ reg' = [reg EXCEPT ![t][ptr[t]] = None]
    /\ IF ~goesOn THEN Return(t)
       ELSE /\ \/ request[t] # "change" /\ Goto(t, "use", "Entry")
               \/ request[t] = "change" /\ Goto(t, "exchange", "NewFilter")
               \/ request[t] = "change" /\ Goto(t, "decrement", "NewFilter")
            /\ UNCHANGED request

-----------------------------------------------------------------------------
\* The steps.

\* A release has brought the count of s to zero and has not decided yet.
Dropping(s) == \E t \in Threads : pc[t] \in {"zero", "test", "free"} /\ At(t) = s

\* Other threads may exchange between the load of the pointer and the increment.
Load(t) ==
    /\ pc[t] = "load"
    /\ reg' = [reg EXCEPT ![t][ptr[t]] = current]
    /\ causes' = causes \cup (IF ptr[t] = "Handle" /\ current # reg[t]["PFilter"] THEN {"switched"} ELSE {})
    /\ Goto(t, "increment", ptr[t])
    /\ UNCHANGED <<current, memory, count, request, damaged>>

Increment(t) ==
    /\ pc[t] = "increment" /\ Live(t)
    /\ count' = [count EXCEPT ![At(t)] = @ + 1]
    /\ causes' = causes \cup (IF Dropping(At(t)) THEN {"revived"} ELSE {})
    /\ Referenced(t)
    /\ UNCHANGED <<current, memory, reg, request, damaged>>

\* Fault: a match that finds nothing keeps its reference.
NotFoundKeeps(t) == Return(t)

NotFound(t) == Goto(t, "decrement", "PFilter") /\ UNCHANGED request

\* ProcessFilter_Match finds an entry, and references the filter once more for the handle.
Walk(t) ==
    /\ pc[t] = "walk" /\ Live(t)
    /\ \/ /\ reg' = [reg EXCEPT ![t]["Entry"] = At(t)]
          /\ Goto(t, "load", "Handle") /\ UNCHANGED request
       \/ NotFound(t) /\ UNCHANGED reg
    /\ UNCHANGED <<current, memory, count, damaged, causes>>

\* ProcessFilter_SubMatch walks the masks of the entry, and CloseIrpContext closes the handle.
Use(t) ==
    /\ pc[t] = "use" /\ Live(t)
    /\ reg' = [reg EXCEPT ![t]["Entry"] = None]
    /\ Goto(t, "decrement", "Handle")
    /\ UNCHANGED <<current, memory, count, request, damaged, causes>>

\* Fault: a reset counts one, as a clone does.
CountsOne(c) == 1

\* The count of a new snapshot: the clone of a change is referenced by its function.
FirstCount(c) == IF c = "change" THEN 1 ELSE 0

Allocate(t) ==
    /\ pc[t] = "allocate"
    /\ \E s \in Snaps :
         /\ memory[s] = "unused"
         /\ memory' = [memory EXCEPT ![s] = "live"]
         /\ count' = [count EXCEPT ![s] = FirstCount(request[t])]
         /\ reg' = [reg EXCEPT ![t]["NewFilter"] = s]
    /\ Goto(t, IF request[t] = "change" THEN "decrement" ELSE "load", "PFilter")
    /\ UNCHANGED <<current, request, damaged, causes>>

\* A change goes on to release its clone, a reset the snapshot it has referenced.
ExchangeFilter(t) ==
    /\ pc[t] = "exchange"
    /\ current' = At(t)
    /\ IF request[t] = "change" THEN Goto(t, "decrement", "NewFilter") /\ UNCHANGED reg
       ELSE Goto(t, "decrement", "PFilter") /\ reg' = [reg EXCEPT ![t]["NewFilter"] = None]
    /\ UNCHANGED <<memory, count, request, damaged, causes>>

Decrement(t) ==
    /\ pc[t] = "decrement" /\ Live(t)
    /\ count' = [count EXCEPT ![At(t)] = @ - 1]
    /\ IF count'[At(t)] > 0 THEN Released(t) ELSE Goto(t, "zero", ptr[t]) /\ UNCHANGED <<reg, request>>
    /\ UNCHANGED <<current, memory, damaged, causes>>

\* A plain store, whatever has been counted since.
Zero(t) ==
    /\ pc[t] = "zero" /\ Live(t)
    /\ count' = [count EXCEPT ![At(t)] = 0]
    /\ Goto(t, "test", ptr[t])
    /\ UNCHANGED <<current, memory, reg, request, damaged, causes>>

\* The snapshot in force stays.
Test(t) ==
    /\ pc[t] = "test"
    /\ IF current = At(t) THEN Released(t) ELSE Goto(t, "free", ptr[t]) /\ UNCHANGED <<reg, request>>
    /\ UNCHANGED <<current, memory, count, damaged, causes>>

Free(t) ==
    /\ pc[t] = "free" /\ Live(t)
    /\ memory' = [memory EXCEPT ![At(t)] = "freed"]
    /\ Released(t)
    /\ UNCHANGED <<current, count, damaged, causes>>

TouchFreed(t) ==
    /\ pc[t] \in Touching /\ ~Live(t)
    /\ damaged' = pc[t]
    /\ UNCHANGED <<current, memory, count, reg, pc, ptr, request, causes>>

PinStep(t) ==
    \/ Call(t) \/ Load(t) \/ Increment(t) \/ Walk(t) \/ Use(t) \/ Allocate(t) \/ ExchangeFilter(t)
    \/ Decrement(t) \/ Zero(t) \/ Test(t) \/ Free(t) \/ TouchFreed(t)

PinNext == damaged = "no" /\ \E t \in Threads : PinStep(t)

PinSpec == PinInit /\ [][PinNext]_pinVars

-----------------------------------------------------------------------------
\* Correctness.

\* Every variable keeps its type.
PinTypeOK ==
    /\ current \in Snaps
    /\ memory \in [Snaps -> {"unused", "live", "freed"}]
    /\ count \in [Snaps -> Int]
    /\ reg \in [Threads -> [Registers -> Snaps \cup {None}]]
    /\ pc \in [Threads -> Touching \cup {"idle", "load", "allocate", "exchange", "test"}]
    /\ ptr \in [Threads -> Registers]
    /\ request \in [Threads -> Calls \cup {"none"}]
    /\ damaged \in {"no"} \cup Touching
    /\ causes \subseteq {"revived", "switched"}

\* The filter in force is never freed, whatever the changes, resets and releases do.
CurrentLive == memory[current] = "live"

\* The registers of t that have been counted and will still be released.
Holds(t, r) ==
    \/ /\ r = "PFilter"
       /\ \/ pc[t] = "walk"
          \/ ptr[t] = "Handle" /\ pc[t] \in {"load", "increment"}
          \/ ptr[t] = "PFilter" /\ pc[t] = "decrement"
          \/ request[t] = "change" /\ pc[t] = "allocate"
          \/ request[t] = "reset" /\ pc[t] = "exchange"
    \/ /\ r = "Handle"
       /\ \/ pc[t] = "use"
          \/ ptr[t] = "Handle" /\ pc[t] = "decrement"
          \/ reg[t]["Entry"] # None /\ ptr[t] = "PFilter" /\ pc[t] \in {"decrement", "zero", "test", "free"}
    \/ /\ r = "NewFilter" /\ request[t] = "change"
       /\ \/ pc[t] \in {"exchange", "decrement"}
          \/ ptr[t] = "PFilter" /\ pc[t] \in {"zero", "test", "free"}

Referencing(s) ==
    {x \in Threads \X {"PFilter", "Handle", "NewFilter"} : reg[x[1]][x[2]] = s /\ Holds(x[1], x[2])}

\* Unless an increment came too late, the count of a snapshot is the number of pointers
\* that will still be released.
CountsReferences ==
    "revived" \notin causes => \A s \in Snaps : memory[s] = "live" =>
        count[s] = Cardinality(Referencing(s))

\* A reader, a change or a release that has counted its reference finds its snapshot freed
\* only if some increment came after another release had let the count drop to zero.
CountedIsSafe == damaged \in {"walk", "decrement", "zero", "free"} => "revived" \in causes

\* The entry the IRP context holds is freed under it only if the handle was taken of another
\* snapshot than the one the entry was found in (or a counted reference was lost).
EntryExplained == damaged = "use" => causes # {}

\* All of it: the filter in force is never freed; who has counted a reference finds the
\* snapshot freed, and an IRP the entry it holds, only after one of the named events; the
\* count of a snapshot is the number of pointers that will still be released.
SnapshotsCounted == PinTypeOK /\ CurrentLive /\ CountsReferences /\ CountedIsSafe /\ EntryExplained

\* A snapshot nobody points to any more and that is not in force has been freed, unless it was
\* superseded while its count was zero: no release will ever look at it again.
Unreachable(s) == memory[s] = "live" /\ s # current /\ \A t \in Threads, r \in Registers : reg[t][r] # s
LeakStep ==
    \A s \in Snaps : Unreachable(s)' /\ ~Unreachable(s) => current = s /\ count[s] = 0 /\ current' # s
LeaksOnlyUnheld == [][LeakStep]_pinVars

-----------------------------------------------------------------------------
\* Why it holds: the invariant behind these properties.

Releasing == {"decrement", "zero", "test", "free"}
Ending == {"zero", "test", "free"}
Counted == {"PFilter", "Handle", "NewFilter"}

\* Where a thread may be, for what it was called, and which of its registers are in use there.
Place(t) ==
    /\ pc[t] = "idle" => request[t] = "none" /\ ptr[t] = "PFilter"
    /\ pc[t] # "idle" => request[t] # "none"
    /\ pc[t] \in {"load", "increment"} => ptr[t] \in {"PFilter", "Handle"}
    /\ pc[t] = "walk" => ptr[t] = "PFilter" /\ request[t] = "match"
    /\ pc[t] = "use" => ptr[t] = "Entry" /\ request[t] = "match"
    /\ pc[t] \in {"allocate", "exchange"} => ptr[t] = "NewFilter" /\ request[t] \in {"change", "reset"}
    /\ pc[t] \in Releasing => ptr[t] \in Counted
    /\ ptr[t] = "Handle" => request[t] = "match"
    /\ ptr[t] = "NewFilter" /\ pc[t] \in Releasing => request[t] = "change"

Shape(t) ==
    /\ Place(t)
    /\ reg[t]["PFilter"] # None <=>
         \/ Holds(t, "PFilter")
         \/ ptr[t] = "PFilter" /\ pc[t] \in {"increment"} \cup Ending
    /\ reg[t]["NewFilter"] # None <=>
         \/ Holds(t, "NewFilter")
         \/ ptr[t] = "NewFilter" /\ pc[t] \in Ending
         \/ request[t] = "reset" /\ pc[t] \in {"load", "increment", "exchange"}
    /\ reg[t]["Handle"] # None <=>
         Holds(t, "Handle") \/ (ptr[t] = "Handle" /\ pc[t] \in {"increment"} \cup Ending)
    /\ reg[t]["Entry"] # None =>
         /\ request[t] = "match"
         /\ pc[t] = "use" \/ (ptr[t] = "Handle" /\ pc[t] \in {"load", "increment"})
                          \/ (ptr[t] = "PFilter" /\ pc[t] \in Releasing)
         /\ reg[t]["PFilter"] # None => reg[t]["Entry"] = reg[t]["PFilter"]
    /\ (pc[t] = "use" \/ (ptr[t] = "Handle" /\ pc[t] \in {"load", "increment"})) => reg[t]["Entry"] # None

\* The new snapshot a change or a reset has not put in force yet.
Mine(t) == IF \/ request[t] = "reset"
              \/ request[t] = "change" /\ (pc[t] = "exchange" \/ ptr[t] = "PFilter")
           THEN reg[t]["NewFilter"] ELSE None

\* It is nobody else's; a snapshot that is about to be freed is not in force any more.
Apart(t) ==
    /\ Mine(t) # None =>
         /\ memory[Mine(t)] = "live" /\ Mine(t) # current
         /\ \A u \in Threads, r \in Registers : reg[u][r] = Mine(t) => u = t /\ r = "NewFilter"
    /\ \A r \in Registers : reg[t][r] # None => memory[reg[t][r]] # "unused"
    /\ pc[t] = "free" => At(t) # current

\* A count is never above the number of pointers that will be released, and below zero only
\* while a release is about to store zero.
CountsAtMost == \A s \in Snaps : memory[s] = "live" =>
    /\ IsFiniteSet(Referencing(s)) /\ count[s] <= Cardinality(Referencing(s))
    /\ count[s] < 0 => \E t \in Threads : pc[t] = "zero" /\ At(t) = s

\* As long as no increment comes too late, a release that has brought the count to zero is
\* alone with its snapshot.
Ends(t, s) == pc[t] \in Ending /\ At(t) = s
DropsAlone == "revived" \notin causes => \A s \in Snaps :
    /\ \A t \in Threads : Ends(t, s) =>
         memory[s] = "live" /\ Referencing(s) = {} /\ \A u \in Threads \ {t} : ~Ends(u, s)
    /\ Referencing(s) # {} => memory[s] = "live"

\* A register that has been counted, or that a release is still working on.
Keeps(t, r, s) == reg[t][r] = s /\ (Holds(t, r) \/ (ptr[t] = r /\ pc[t] \in Ending))

\* The entry a match has found is of the snapshot its handle is of, or of one that was
\* superseded in between; and somebody keeps a snapshot with such an entry.
EntryKept == \A t \in Threads, s \in Snaps : reg[t]["Entry"] = s =>
    /\ reg[t]["Handle"] # None => reg[t]["Handle"] = s \/ (s # current /\ "switched" \in causes)
    /\ memory[s] = "live" /\ s # current => \E u \in Threads, r \in Counted : Keeps(u, r, s)

PinInv ==
    /\ SnapshotsCounted
    /\ \A t \in Threads : Shape(t) /\ Apart(t)
    /\ CountsAtMost /\ DropsAlone /\ EntryKept
=============================================================================
