--------------------------- MODULE IsolationControl ---------------------------
(***************************************************************************)
(* The control device of the isolation driver: the functions of the        *)
(* library (api/WinIOIsolation_API.cpp) together with the handlers of the  *)
(* control codes they send (sys-isolation/deviceCntl.cpp).  What matters   *)
(* is whether the two sides agree: on the code, on the size of the buffer, *)
(* on what is in it.  The policies themselves are IsolationPolicy; here a  *)
(* handler is one step.                                                    *)
(***************************************************************************)
EXTENDS Integers, SequencesExt

CONSTANTS
    Procs,        \* processes that call the library
    Pids, Masks,  \* what policies are for
    MaxRunning,   \* bound on |FeatureContext.IsRunning|
    MaxEntries    \* bound on the entries of the process filter

NoProc == "no process"

ASSUME ControlAssumption ==
    /\ NoProc \notin Procs /\ MaxRunning \in Nat \ {0} /\ MaxEntries \in Nat

VARIABLES
    cntl,       \* FeatureContext.CntlProcessId
    running,    \* FeatureContext.IsRunning, a counter
    inc, exc,   \* the masks of the global filter
    entries,    \* the entries of the process filter: for each a process number
    stub,       \* the stub code has been replaced
    crashed,    \* a handler followed a null pointer
    answer,     \* the last call: whose, of what, how it ended, whether it wrote its output
    lastSet,    \* history: the driver status asked for last
    repeated,   \* history: some call asked for the status the driver already had
    asked,      \* history: the included masks asked for
    confused    \* history: a removal named as excluded a mask that was included

vars == <<cntl, running, inc, exc, entries, stub, crashed, answer, lastSet, repeated, asked, confused>>
filters == <<inc, exc, entries>>
history == <<lastSet, repeated, asked, confused>>
driver == <<running, filters, stub>>

Init ==
    /\ cntl = NoProc /\ running = 0
    /\ inc = {} /\ exc = {} /\ entries = << >> /\ stub = FALSE /\ crashed = FALSE
    /\ answer = [proc |-> NoProc, fn |-> "none", status |-> "none", wrote |-> FALSE]
    /\ lastSet = FALSE /\ repeated = FALSE /\ asked = {} /\ confused = FALSE

-----------------------------------------------------------------------------
(* Ends of a call. *)

End(p, fn, status, wrote) ==
    /\ answer' = [proc |-> p, fn |-> fn, status |-> status, wrote |-> wrote]
    /\ UNCHANGED cntl

Refuse(p, fn, status) == End(p, fn, status, FALSE) /\ UNCHANGED <<driver, crashed, history>>

\* Fault: any process passes.
FaultHolder(p) == TRUE

\* Every handler but those for a file's type and for reading its solution data begins
\* with this test.
Privileged(p) == cntl = p

Handled(p, fn, Handler) == IF Privileged(p) THEN Handler ELSE Refuse(p, fn, "privilege")

\* A handler that does nothing leaves the status block of the caller as it was.
Untouched(p, fn) == \E status \in {"success", "invalid"} : Refuse(p, fn, status)

-----------------------------------------------------------------------------
(* The driver's status, and the stub code. *)

DevIOCntlSetDriverStatus(p, on) ==
    /\ running' = IF on THEN running + 1 ELSE running - 1
    /\ running' \in -MaxRunning .. MaxRunning
    /\ lastSet' = on /\ repeated' = (repeated \/ on = (running > 0))
    /\ End(p, "SetDriverStatus", "success", FALSE)
    /\ UNCHANGED <<filters, stub, crashed, asked, confused>>

SetDriverStatus(p) == \E on \in BOOLEAN : Handled(p, "SetDriverStatus", DevIOCntlSetDriverStatus(p, on))

GetDriverStatus(p) ==
    Handled(p, "GetDriverStatus",
        End(p, "GetDriverStatus", IF running > 0 THEN "on" ELSE "off", TRUE) /\ UNCHANGED <<driver, crashed, history>>)

\* The library has no function for the stub code; a process sends the codes itself, with
\* a buffer of any size.
DevIOCntlSetStubCode(p) ==
    \/ \E status \in {"invalid", "overflow"} : Refuse(p, "SetStubCode", status)
    \/ /\ stub' = TRUE /\ End(p, "SetStubCode", "success", FALSE)
       /\ UNCHANGED <<running, filters, crashed, history>>

DevIOCntlGetStubCode(p) ==
    \/ Refuse(p, "GetStubCode", "invalid")
    \/ End(p, "GetStubCode", "success", TRUE) /\ UNCHANGED <<driver, crashed, history>>

StubCode(p) ==
    \/ Handled(p, "SetStubCode", DevIOCntlSetStubCode(p))
    \/ Handled(p, "GetStubCode", DevIOCntlGetStubCode(p))

-----------------------------------------------------------------------------
(* The global filter.  A change puts in force a clone of the masks, and no  *)
(* excluded mask is cloned.                                                 *)

\* Fault: the mask is included in any case, and the excluded ones are cloned.
FaultAddGlobalPolicy(p, m, include) ==
    /\ inc' = inc \cup {m}
    /\ exc' = IF include THEN exc ELSE exc \cup {m}
    /\ asked' = IF include THEN asked \cup {m} ELSE asked
    /\ End(p, "AddGlobalFilterMask", "success", FALSE)
    /\ UNCHANGED <<running, entries, stub, crashed, lastSet, repeated, confused>>

DevIOCntlAddGlobalPolicy(p, m, include) ==
    /\ inc' = IF include THEN inc \cup {m} ELSE inc
    /\ exc' = IF include THEN {} ELSE {m}
    /\ asked' = IF include THEN asked \cup {m} ELSE asked
    /\ End(p, "AddGlobalFilterMask", "success", FALSE)
    /\ UNCHANGED <<running, entries, stub, crashed, lastSet, repeated, confused>>

\* The flag is read and not used.  Nothing to remove is a success, and the clone without
\* excluded masks is then not put in force.
DevIOCntlDelGlobalPolicy(p, m, include) ==
    /\ inc' = inc \ {m}
    /\ exc' = IF m \in inc THEN {} ELSE exc
    /\ asked' = IF include THEN asked \ {m} ELSE asked
    /\ confused' = (confused \/ (~include /\ m \in inc))
    /\ End(p, "DelGlobalFilterMask", "success", FALSE)
    /\ UNCHANGED <<running, entries, stub, crashed, lastSet, repeated>>

AddGlobalFilterMask(p) == \E m \in Masks, include \in BOOLEAN :
    Handled(p, "AddGlobalFilterMask", DevIOCntlAddGlobalPolicy(p, m, include))
DelGlobalFilterMask(p) == \E m \in Masks, include \in BOOLEAN :
    Handled(p, "DelGlobalFilterMask", DevIOCntlDelGlobalPolicy(p, m, include))

\* The count is asked for with the code of a removal, and its buffer has no separator.
GetGlobalFilterMaskCnt(p) == Handled(p, "GetGlobalFilterMaskCnt", Refuse(p, "GetGlobalFilterMaskCnt", "invalid"))

\* The handler of the code for the count is not written; a process sends it itself.
DevIOCntlGetGlobalPolicyCnt(p) == Handled(p, "GlobalPolicyCount", Untouched(p, "GlobalPolicyCount"))

ResetGlobalFilter(p) == Handled(p, "ResetGlobalFilter",
    /\ inc' = {} /\ exc' = {} /\ asked' = {}
    /\ End(p, "ResetGlobalFilter", "success", FALSE)
    /\ UNCHANGED <<running, entries, stub, crashed, lastSet, repeated, confused>>)

-----------------------------------------------------------------------------
(* The process filter.  Cloned entries lose their Id, so that no entry a    *)
(* client added is found by it.                                             *)

AddProcessFilter(p) == Handled(p, "AddProcessFilter",
    /\ Len(entries) < MaxEntries
    /\ \E pid \in Pids : entries' = Append(entries, pid)
    /\ End(p, "AddProcessFilter", "success", FALSE)
    /\ UNCHANGED <<running, inc, exc, stub, crashed, history>>)

\* The library sends the whole filter where the handler expects its Id.
DelProcessFilterByID(p) == Handled(p, "DelProcessFilterByID", Refuse(p, "DelProcessFilterByID", "invalid"))

\* An entry of another process is compared by a name that is not given.
DevIOCntlDelProcessPolicyPID(p, pid) ==
    /\ crashed' = \E i \in DOMAIN entries : entries[i] # pid
    /\ IF crashed' THEN End(p, "DelProcessFilterByPID", "crashed", FALSE) /\ UNCHANGED <<driver, history>>
       ELSE /\ entries' = << >>
            /\ End(p, "DelProcessFilterByPID", IF entries = << >> THEN "not found" ELSE "success", FALSE)
            /\ UNCHANGED <<running, inc, exc, stub, history>>

DelProcessFilterByPID(p) ==
    \E pid \in Pids : Handled(p, "DelProcessFilterByPID", DevIOCntlDelProcessPolicyPID(p, pid))

\* The library sends the address of the mask where the handler expects the mask.
DelProcessFilterByFilterMask(p) ==
    Handled(p, "DelProcessFilterByFilterMask", Refuse(p, "DelProcessFilterByFilterMask", "not found"))

ItemCalls == {"AddProcessFilterItem", "DelProcessFilterItem"}

\* A mask of an entry, which is named by its Id.
ProcessFilterItem(p, fn) == Handled(p, fn, Refuse(p, fn, "not found"))

\* The library sends no buffer, the handler refuses that.
ResetProcessFilter(p) == Handled(p, "ResetProcessFilter", Refuse(p, "ResetProcessFilter", "invalid"))

\* A process that sends the code with a buffer of its own.
DevIOCntlRstProcessPolicy(p) == Handled(p, "RstProcessPolicy",
    /\ entries' = << >>
    /\ End(p, "RstProcessPolicy", "success", FALSE)
    /\ UNCHANGED <<running, inc, exc, stub, crashed, history>>)

-----------------------------------------------------------------------------
(* Files. *)

\* Any process may ask for the type of a file.
GetFileType(p) == End(p, "GetFileType", "success", TRUE) /\ UNCHANGED <<driver, crashed, history>>

\* A null argument is refused by the library; the driver does nothing.
SetFileSolutionMetaData(p) ==
    \/ Refuse(p, "SetFileSolutionMetaData", "invalid")
    \/ Handled(p, "SetFileSolutionMetaData", Untouched(p, "SetFileSolutionMetaData"))

GetFileSolutionMetaData(p) == Untouched(p, "GetFileSolutionMetaData")

-----------------------------------------------------------------------------
\* The first process that connects becomes the controlling one, until it disconnects.
Control(p) ==
    /\ cntl \in {NoProc, p} /\ cntl' = IF cntl = p THEN NoProc ELSE p
    /\ UNCHANGED <<driver, crashed, answer, history>>

\* Every function ends at once when it cannot open the device.
NoDevice(p) == Refuse(p, "any", "no device")

LibraryCall(p) ==
    \/ SetDriverStatus(p) \/ GetDriverStatus(p)
    \/ AddGlobalFilterMask(p) \/ DelGlobalFilterMask(p) \/ GetGlobalFilterMaskCnt(p) \/ ResetGlobalFilter(p)
    \/ AddProcessFilter(p) \/ DelProcessFilterByID(p) \/ DelProcessFilterByPID(p)
    \/ DelProcessFilterByFilterMask(p) \/ ResetProcessFilter(p)
    \/ \E fn \in ItemCalls : ProcessFilterItem(p, fn)
    \/ GetFileType(p) \/ SetFileSolutionMetaData(p) \/ GetFileSolutionMetaData(p)
    \/ NoDevice(p)

Next == ~crashed /\ \E p \in Procs :
    \/ Control(p) \/ LibraryCall(p)
    \/ StubCode(p) \/ DevIOCntlGetGlobalPolicyCnt(p) \/ DevIOCntlRstProcessPolicy(p)

Spec == Init /\ [][Next]_vars

-----------------------------------------------------------------------------
(* Properties. *)

\* The shape of every variable: the driver's status is a counter and may be negative;
\* as no excluded mask is cloned, at most one is ever in force.
TypeOK ==
    /\ cntl \in Procs \cup {NoProc} /\ running \in -MaxRunning .. MaxRunning
    /\ inc \subseteq Masks /\ exc \in {{}} \cup {{m} : m \in Masks}
    /\ entries \in BoundedSeq(Pids, MaxEntries)
    /\ \A b \in {stub, crashed, lastSet, repeated, confused} : b \in BOOLEAN
    /\ asked \subseteq Masks

\* Only a call of the controlling process changes anything in the driver, whatever a
\* process sends, and the driver crashes on no other's call.
ControllerStep == answer'.proc = cntl \/ UNCHANGED <<driver, crashed>>
OnlyControllerChanges == [][ControllerStep]_vars

\* The driver runs when running was the last status asked for: as long as nobody asked
\* twice for the same one.
StatusIsLatest == ~repeated => (running > 0) = lastSet

\* The included masks in force are those that were asked for and not removed since,
\* unless a removal named one of them as an excluded mask.
IncludedAsAsked == IF confused THEN inc \subseteq asked ELSE inc = asked

\* What the processes asked for is what the driver does: its status, and the masks.
AsAsked == StatusIsLatest /\ IncludedAsAsked
=============================================================================
