---------------------------- MODULE MonitorControl ----------------------------
(***************************************************************************)
(* The control device of the monitor driver: the functions a program calls *)
(* (api/WinIOMonitor_API.cpp) and the handlers of the control codes        *)
(* (sys/deviceCntl.cpp).  A program may also send a control code to the    *)
(* device itself.  Policies and queued events are what the handlers call   *)
(* into (PolicySnapshot, NotifyQueue); here a handler is one step.         *)
(***************************************************************************)
EXTENDS Integers, SequencesExt

CONSTANTS
    Programs,     \* threads of programs
    Pids, Masks,  \* what a policy is for
    Modulus,      \* 2^32 in the code: the width of a DWORD
    Ticks,        \* hundreds of nanoseconds in a millisecond, 10000 in the code
    MaxPolicies, MaxEvents     \* bounds on the policies and on the events queued

Empty == "empty mask"

\* The default time-out, and as many policies and events as there may be, fit a DWORD.
ASSUME ControlAssumption ==
    /\ Empty \notin Masks /\ 0 \notin Pids
    /\ Modulus \in Nat /\ 3 < Modulus /\ Ticks \in Nat \ {0}
    /\ MaxPolicies \in 0 .. Modulus - 1 /\ MaxEvents \in 0 .. Modulus - 1

VARIABLES
    loaded,     \* the device is there
    timeOut,    \* GlobalContext.TimeOutMs, in ticks
    policies,   \* the process filters, in order
    events,     \* how many events are queued
    lastSet,    \* the time-out, in milliseconds, that was accepted last
    answer,     \* per program: its last call or request, how it ended, what it was given
    lastError   \* per program: the last error of its thread

controlVars == <<loaded, timeOut, policies, events, lastSet, answer, lastError>>
driverState == <<timeOut, policies, events>>

DWord == 0 .. Modulus - 1
Policies == [pid : Pids, mask : {Empty}] \cup [pid : {0}, mask : Masks]
NotWritten == -1    \* nothing was written to the caller's variable

\* The sizes of a buffer, against what the handler expects.
Lengths == {"none", "short", "right", "long"}

ControlInit ==
    /\ loaded = TRUE
    /\ lastSet = 3 /\ timeOut = -(3 * Ticks)
    /\ policies = << >> /\ events = 0
    /\ answer = [p \in Programs |-> [of |-> "nothing", status |-> "none", given |-> NotWritten]]
    /\ lastError = [p \in Programs |-> "success"]

-----------------------------------------------------------------------------
(* The handlers, with mistakes in those named Fault....  Each one answers  *)
(* with a status and what it writes to the output buffer.                  *)

Ended(p, of, status, given) ==
    answer' = [answer EXCEPT ![p] = [of |-> of, status |-> status, given |-> given]]

Refuse(p, of, status) ==
    Ended(p, of, status, NotWritten) /\ UNCHANGED <<driverState, lastSet>>

DevIOCntlSetTimeOutMs(p, size, ms) ==
    IF size \in {"none", "short"} THEN Refuse(p, "SET_TIMEOUT", "too small")
    ELSE IF ms = 0 THEN Refuse(p, "SET_TIMEOUT", "invalid")
    ELSE /\ timeOut' = -(ms * Ticks) /\ lastSet' = ms
         /\ Ended(p, "SET_TIMEOUT", "success", NotWritten)
         /\ UNCHANGED <<policies, events>>

\* The quotient of the time-out, negative as it is stored, converted to a DWORD.
\* It is a multiple of Ticks: the division is exact.
FaultAsMilliseconds(t) == (-t) % Modulus
AsMilliseconds(t) == (-((-t) \div Ticks)) % Modulus

DevIOCntlGetTimeOutMs(p, size) ==
    IF size # "right" THEN Refuse(p, "GET_TIMEOUT", "too small")
    ELSE Ended(p, "GET_TIMEOUT", "success", AsMilliseconds(timeOut)) /\ UNCHANGED <<driverState, lastSet>>

DevIOCntlAddProcessPolicy(p, size, policy) ==
    IF size \in {"none", "short"} THEN Refuse(p, "ADD", "too small")
    ELSE /\ Len(policies) < MaxPolicies /\ policies' = Append(policies, policy)
         /\ Ended(p, "ADD", "success", NotWritten)
         /\ UNCHANGED <<timeOut, events, lastSet>>

\* The first policy that matches goes, one of two that are the same.
ProcessFilter_Remove(p, of, matching) ==
    LET found == {k \in DOMAIN policies : policies[k] \in matching}
        first == CHOOSE k \in found : \A l \in found : k <= l
    IN  /\ policies' = IF found = {} THEN policies ELSE RemoveAt(policies, first)
        /\ Ended(p, of, IF found = {} THEN "not found" ELSE "success", NotWritten)
        /\ UNCHANGED <<timeOut, events, lastSet>>

DevIOCntlDelProcessPolicyByPID(p, size, pid) ==
    IF size \in {"none", "short"} THEN Refuse(p, "DEL_BY_PID", "too small")
    ELSE IF pid = 0 THEN Refuse(p, "DEL_BY_PID", "invalid")
    ELSE ProcessFilter_Remove(p, "DEL_BY_PID", {x \in Policies : x.pid = pid})

\* The buffer must be exactly as long as the mask in it, which may be empty: the
\* first policy that was given for a process then goes.
DevIOCntlDelProcessPolicyByMask(p, size, mask) ==
    IF size # "right" THEN Refuse(p, "DEL_BY_MASK", "invalid")
    ELSE ProcessFilter_Remove(p, "DEL_BY_MASK", {x \in Policies : x.mask = mask})

DevIOCntlGetProcessPolicyCount(p, size) ==
    IF size # "right" THEN Refuse(p, "COUNT", "too small")
    ELSE Ended(p, "COUNT", "success", Len(policies)) /\ UNCHANGED <<driverState, lastSet>>

DevIOCntlClearProcessPolicy(p) ==
    /\ policies' = << >> /\ Ended(p, "CLEAR", "success", NotWritten)
    /\ UNCHANGED <<timeOut, events, lastSet>>

\* CollectNotifyItem takes at least one of the events, and goes on while the buffer
\* lasts.  It never sets its status to success: the caller gets an error for what
\* was taken and copied, and neither the number of events nor their size.
DevIOCntlCollectNotifyEventItems(p, size) ==
    \/ size = "none" /\ Refuse(p, "COLLECT", "invalid")
    \/ size = "short" /\ Refuse(p, "COLLECT", "too small")
    \/ /\ size \in {"right", "long"}
       /\ \E taken \in 0..events : (events > 0 => taken > 0) /\ events' = events - taken
       /\ Ended(p, "COLLECT", "invalid", NotWritten)
       /\ UNCHANGED <<timeOut, policies, lastSet>>

\* FastIoDeviceControl says that it has handled every code.  For one it does not
\* know it leaves the caller's status block as it was, with whatever it held.
FastIoDeviceControl(p, size) ==
    \/ \E ms \in DWord : DevIOCntlSetTimeOutMs(p, size, ms)
    \/ DevIOCntlGetTimeOutMs(p, size)
    \/ \E policy \in Policies : DevIOCntlAddProcessPolicy(p, size, policy)
    \/ \E pid \in Pids \cup {0} : DevIOCntlDelProcessPolicyByPID(p, size, pid)
    \/ \E mask \in Masks \cup {Empty} : DevIOCntlDelProcessPolicyByMask(p, size, mask)
    \/ DevIOCntlGetProcessPolicyCount(p, size)
    \/ DevIOCntlClearProcessPolicy(p)
    \/ DevIOCntlCollectNotifyEventItems(p, size)
    \/ \E s \in {"success", "invalid"} : Refuse(p, "other", s)

-----------------------------------------------------------------------------
(* The programs. *)

\* A program that sends a control code to the device itself.
Request(p) ==
    /\ loaded
    /\ \E size \in Lengths : FastIoDeviceControl(p, size)
    /\ UNCHANGED <<loaded, lastError>>

Functions == {"SetTimeOut", "GetTimeOut", "AddProcessFileFilterMask", "GetProcessFileFilterCount",
              "RemoveProcessFileFilterMask", "ResetProcessFileFilterMask", "CollectNotifyEventItems"}

\* Two of them refuse a null argument first.
NullArgument(p, fn) ==
    /\ fn \in {"AddProcessFileFilterMask", "RemoveProcessFileFilterMask"}
    /\ Refuse(p, fn, "invalid")
    /\ UNCHANGED <<loaded, lastError>>

\* All of them open the device, and stop with the last error when the handle is not
\* the invalid one: with the device open.  That error is the one CreateFileW left,
\* success or what the thread had before.
DeviceOpened(p, fn) ==
    /\ loaded
    /\ \E seen \in {"success", lastError[p]} :
           /\ lastError' = [lastError EXCEPT ![p] = seen]
           /\ Refuse(p, fn, seen)
    /\ UNCHANGED loaded

\* Without a handle they send the control code to the invalid handle.
NoDevice(p, fn) ==
    /\ lastError' = [lastError EXCEPT ![p] = "invalid handle"]
    /\ Refuse(p, fn, "invalid handle")
    /\ UNCHANGED loaded

LibraryCall(p, fn) == NullArgument(p, fn) \/ DeviceOpened(p, fn) \/ NoDevice(p, fn)

-----------------------------------------------------------------------------
(* Their surroundings. *)

\* An event is queued.
Event ==
    /\ loaded /\ events < MaxEvents
    /\ events' = events + 1
    /\ UNCHANGED <<loaded, timeOut, policies, lastSet, answer, lastError>>

\* The driver is unloaded, and later loaded anew.
Unload ==
    /\ loaded' = FALSE
    /\ UNCHANGED <<driverState, lastSet, answer, lastError>>

Load ==
    /\ ~loaded /\ loaded' = TRUE
    /\ lastSet' = 3 /\ timeOut' = -(3 * Ticks) /\ policies' = << >> /\ events' = 0
    /\ UNCHANGED <<answer, lastError>>

ControlNext ==
    \/ Event \/ Unload \/ Load
    \/ \E p \in Programs : Request(p) \/ \E fn \in Functions : LibraryCall(p, fn)

ControlSpec == ControlInit /\ [][ControlNext]_controlVars

-----------------------------------------------------------------------------
(* Properties. *)

Operations == {"nothing", "SET_TIMEOUT", "GET_TIMEOUT", "ADD", "DEL_BY_PID", "DEL_BY_MASK", "COUNT", "CLEAR",
               "COLLECT", "other"} \cup Functions
Answers == {"none", "success", "too small", "invalid", "not found", "invalid handle"}

\* The shape of every variable: a time-out is stored as a negative number of ticks.
ControlTypeOK ==
    /\ loaded \in BOOLEAN
    /\ -timeOut \in {ms * Ticks : ms \in DWord \ {0}}
    /\ policies \in Seq(Policies) /\ Len(policies) <= MaxPolicies /\ events \in 0 .. MaxEvents
    /\ lastSet \in DWord \ {0}
    /\ answer \in [Programs -> [of : Operations, status : Answers, given : DWord \cup {NotWritten}]]
    /\ lastError \in [Programs -> {"success", "invalid handle"}]

\* A handler that answers with an error has changed nothing, save that collecting
\* answers with an error whatever it took: no time-out or policy is lost to a
\* request that was refused, and an event to none but that one.
RefusedStep ==
    \A p \in Programs :
        (answer'[p] # answer[p] /\ answer'[p].status \notin {"success", "none"}) =>
            /\ UNCHANGED <<timeOut, policies>>
            /\ answer'[p].of # "COLLECT" \/ answer'[p].status # "invalid" => UNCHANGED events

\* The time-out the driver reports is the one that was set last with its sign
\* changed, in the width of a DWORD: the two add up to zero.
TimeOutStep ==
    \A p \in Programs :
        (answer'[p] # answer[p] /\ answer'[p].of = "GET_TIMEOUT" /\ answer'[p].status = "success")
            => (answer'[p].given + lastSet) % Modulus = 0

\* A program that is told how many policies there are is told the truth.
CountStep ==
    \A p \in Programs :
        (answer'[p] # answer[p] /\ answer'[p].of = "COUNT" /\ answer'[p].status = "success")
            => answer'[p].given = Len(policies)

\* Who takes events is told that the request failed: while the driver stays loaded an
\* event leaves the queue only for a request that is answered like one without a
\* buffer, and nobody is told how many there were.
LossStep ==
    (loaded /\ events' < events) =>
        \E p \in Programs : answer'[p] = [of |-> "COLLECT", status |-> "invalid", given |-> NotWritten]

\* A handler that answers with an error has changed nothing in the driver, save that
\* every request for events fails after it has taken them; the time-out it reports
\* and the one set last add up to zero in the width of a DWORD; a program is told
\* the truth about the number of its policies.
AnswersHonest == [][ControlTypeOK' /\ RefusedStep /\ TimeOutStep /\ CountStep /\ LossStep]_controlVars
=============================================================================
