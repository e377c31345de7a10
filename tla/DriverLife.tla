------------------------------ MODULE DriverLife ------------------------------
(***************************************************************************)
(* From DriverEntry to DriverUnload, for the monitor driver                *)
(* (sys/WinIOMonitor.cpp, WinIOMonitor_Filter.cpp) and for the isolation   *)
(* driver (sys-isolation/WinIOIsolation.cpp, WinIOIsolation_Filter.cpp).   *)
(* Either one builds its parts in an order, and takes them down in         *)
(* another; meanwhile the system calls it, as soon as a routine is         *)
(* registered and until it no longer is: process notifications, file       *)
(* callbacks and the cache manager.  A part is what a step provides to     *)
(* those calls.  A load that fails returns the status of the step that     *)
(* failed, and the system unmaps the image without calling DriverUnload.   *)
(***************************************************************************)
EXTENDS Naturals, Sequences, FiniteSets

CONSTANTS
    Threads,    \* threads in which the system calls the driver
    Clients,    \* processes that connect to the port, once each
    Failures    \* whether the steps that can fail may fail

NoPort == "no port"

ASSUME DriverAssumption == Failures \in BOOLEAN /\ NoPort \notin Clients

VARIABLES
    driver,         \* "monitor" or "isolation": whose life this is
    stage,          \* "loading", "up", "detaching" and "detached" (fltmc unload), "stopping",
                    \* "unloading", "down", "failed", "crashed"
    next,           \* the next step of that stage
    have,           \* the parts that are there
    call,           \* per thread: "out", or the kind of call it is in
    missed,         \* what calls needed and did not find: pairs of a kind and a part
    opened,         \* a file has been opened through the filter
    unregistered,   \* calls of FltUnregisterFilter
    linkKept,       \* the device's link could not be deleted
    port,           \* monitor: GlobalContext.ClientPort
    client,         \* per client: "off", "on", "left"
    open,           \* the clients whose port is open
    overlapped      \* a client has connected while another one's port was remembered

life == <<driver, stage, next, have, unregistered, linkKept>>
calls == <<call, missed, opened>>
ports == <<port, client, open, overlapped>>
lifeVars == <<life, calls, ports>>

OfMonitor == driver = "monitor"

-----------------------------------------------------------------------------
(* The steps of loading, each named for the part it provides.  A definition *)
(* named Fault... is the next one with a mistake in it.                      *)

MonitorContext == <<"device", "link", "lookasides", "nameBuffer">>
MonitorFeatures == <<"notifyMgr", "policy", "procNames", "processNotify">>
MonitorFilter == <<"filter", "port", "filtering">>

IsolationContext == <<"device", "link", "lookasides">>
FeatureMgr == <<"metadata", "workers">>
IsolationFeatures ==
    FeatureMgr \o <<"volumes", "procNames", "processNotify", "globalFilter", "policy">>
IsolationFilter == <<"filter", "port", "procPort", "filtering", "cacheCallbacks">>

LoadSteps ==
    <<"fastIo">> \o IF OfMonitor THEN MonitorContext \o MonitorFeatures \o MonitorFilter \o <<"entries">>
                    ELSE IsolationContext \o IsolationFeatures \o IsolationFilter \o <<"entries", "rules">>

\* The calls whose status the drivers look at.
CanFail == {"fastIo", "device", "link", "metadata", "processNotify", "filter", "port", "procPort", "filtering"}

\* FltUnregisterFilter, in InitializeMiniFilter when one of its steps failed.
WithoutFilter(parts) == parts \ {"filter", "filtering"}

-----------------------------------------------------------------------------
(* The steps of unloading, each named for what it takes away. *)

\* MiniFilterUnload.
DetachSteps ==
    IF OfMonitor THEN <<"port", "filter">> ELSE <<"port", "procPort", "filter">>

\* What DriverUnload does then.  CloseProcessFilter puts an empty filter in the
\* place of the one it releases.
MonitorUnload ==
    <<"notifyMgr", "processNotify", "policy", "link", "device", "lookasides", "fastIo">>
IsolationUnload ==
    <<"policy", "globalFilter", "processNotify", "link", "device", "volumes", "workers",
      "metadata", "lookasides", "fastIo">>

UnloadSteps == IF OfMonitor THEN MonitorUnload ELSE IsolationUnload

-----------------------------------------------------------------------------
LifeInit ==
    /\ driver \in {"monitor", "isolation"}
    /\ stage = "loading" /\ next = 1 /\ have = {"image"}
    /\ call = [t \in Threads |-> "out"] /\ missed = {} /\ opened = FALSE
    /\ unregistered = 0 /\ linkKept = FALSE
    /\ port = NoPort /\ client = [c \in Clients |-> "off"] /\ open = {} /\ overlapped = FALSE

\* A step of DriverEntry.
LoadStep ==
    /\ stage = "loading" /\ next <= Len(LoadSteps)
    /\ have' = have \cup {LoadSteps[next]}
    /\ next' = next + 1
    /\ stage' = IF next = Len(LoadSteps) THEN "up" ELSE stage
    /\ UNCHANGED <<driver, calls, ports, unregistered, linkKept>>

\* One that fails: DriverEntry returns, and of what was done only the filter is
\* undone.  The image is unmapped.
LoadFails ==
    /\ Failures /\ stage = "loading" /\ LoadSteps[next] \in CanFail
    /\ stage' = "failed"
    /\ have' = WithoutFilter(have) \ {"image"}
    /\ unregistered' = unregistered + (IF "filter" \in have THEN 1 ELSE 0)
    /\ UNCHANGED <<driver, next, linkKept, calls, ports>>

\* "fltmc unload": the filter manager calls MiniFilterUnload, and after it
\* DriverUnload is called.
FilterUnloadCallback ==
    /\ stage = "up"
    /\ stage' = "detaching" /\ next' = 1
    /\ UNCHANGED <<driver, have, unregistered, linkKept, calls, ports>>

\* DriverUnload, after that or for "sc stop", which calls nothing else: it calls
\* MiniFilterUnload itself when there still is a filter.
DriverUnload ==
    /\ stage \in {"up", "detached"}
    /\ stage' = IF "filter" \in have THEN "stopping" ELSE "unloading"
    /\ next' = 1
    /\ UNCHANGED <<driver, have, unregistered, linkKept, calls, ports>>

InKind(k) == {t \in Threads : call[t] = k}

\* A step of MiniFilterUnload.  FltUnregisterFilter waits for the file callbacks
\* and the cache manager's calls.
MiniFilterUnload ==
    /\ stage \in {"detaching", "stopping"}
    /\ LET part == DetachSteps[next]
           last == next = Len(DetachSteps)
       IN  /\ part = "filter" => InKind("file") \cup InKind("cache") = {}
           /\ have' = IF part = "filter" THEN WithoutFilter(have) ELSE have \ {part}
           /\ unregistered' = unregistered + (IF part = "filter" THEN 1 ELSE 0)
           /\ next' = IF last THEN 1 ELSE next + 1
           /\ stage' = IF ~last THEN stage
                       ELSE IF stage = "stopping" THEN "unloading" ELSE "detached"
    /\ UNCHANGED <<driver, linkKept, calls, ports>>

\* One part of DriverUnload.  Removing the notification waits for the calls in
\* progress and empties the table of processes.  The monitor's new filter stays.
Take(part) ==
    LET gone == CASE part = "processNotify" -> {"processNotify", "procNames"}
                  [] part = "policy" /\ OfMonitor -> {}
                  [] OTHER -> {part}
    IN  /\ part = "processNotify" => InKind("process") = {}
        /\ have' = (have \ gone) \ (IF next = Len(UnloadSteps) THEN {"image", "entries"} ELSE {})
        /\ UNCHANGED linkKept

\* RemoveControlDevice: when the link cannot be deleted the device stays as well.
KeepLink ==
    /\ Failures /\ stage = "unloading" /\ UnloadSteps[next] = "link"
    /\ linkKept' = TRUE /\ next' = next + 2
    /\ UNCHANGED <<driver, stage, have, unregistered, calls, ports>>

\* UninitializeFeatureMgr stops at the list of events, which is empty: the loop
\* takes an item from it all the same (ClientPorts).
UnloadStep ==
    /\ stage = "unloading"
    /\ LET part == UnloadSteps[next]
       IN  IF part = "workers"
           THEN stage' = "crashed" /\ UNCHANGED <<have, linkKept>>
           ELSE Take(part) /\ stage' = IF next = Len(UnloadSteps) THEN "down" ELSE stage
    /\ next' = next + 1
    /\ UNCHANGED <<driver, unregistered, calls, ports>>

-----------------------------------------------------------------------------
(* Calls into the driver. *)

Kinds == {"process", "file", "cache"}

\* What makes the system call.
CallsOf(k) ==
    CASE k = "process" -> "processNotify" \in have
      [] k = "file" -> "filtering" \in have
      [] k = "cache" -> ~OfMonitor /\ "filtering" \in have /\ opened

\* What the routines use.
Uses(k) ==
    {"image"} \cup
    CASE k = "process" -> {"procNames", "policy", "lookasides"} \cup (IF OfMonitor THEN {} ELSE {"volumes"})
      [] k = "file" -> {"procNames", "policy", "lookasides"} \cup
                       (IF OfMonitor THEN {"notifyMgr"} ELSE {"volumes", "globalFilter", "metadata"})
      [] k = "cache" -> {"cacheCallbacks"}

Enter(t, k) ==
    /\ call[t] = "out" /\ stage # "crashed" /\ CallsOf(k)
    /\ call' = [call EXCEPT ![t] = k]
    /\ UNCHANGED <<missed, opened, life, ports>>

Leave(t) ==
    /\ call[t] # "out"
    /\ missed' = missed \cup {<<call[t], p>> : p \in Uses(call[t]) \ have}
    /\ opened' = (opened \/ call[t] = "file")
    /\ call' = [call EXCEPT ![t] = "out"]
    /\ UNCHANGED <<life, ports>>

-----------------------------------------------------------------------------
(* The monitor's port: the driver remembers one client, and sends nothing. *)

ClientConnectNotify(c) ==
    /\ OfMonitor /\ "port" \in have /\ client[c] = "off"
    /\ client' = [client EXCEPT ![c] = "on"]
    /\ overlapped' = (overlapped \/ port # NoPort)
    /\ port' = c
    /\ open' = open \cup {c}
    /\ UNCHANGED <<life, calls>>

FaultDisconnect(c) ==
    /\ OfMonitor /\ "filter" \in have /\ client[c] = "on"
    /\ client' = [client EXCEPT ![c] = "left"]
    /\ port' = NoPort
    /\ UNCHANGED <<open, overlapped, life, calls>>

\* It closes the port it remembers, whoever disconnects.
ClientDisconnectNotify(c) ==
    /\ OfMonitor /\ "filter" \in have /\ client[c] = "on"
    /\ client' = [client EXCEPT ![c] = "left"]
    /\ open' = open \ {port}
    /\ port' = NoPort
    /\ UNCHANGED <<overlapped, life, calls>>

LifeNext ==
    \/ LoadStep \/ LoadFails \/ FilterUnloadCallback \/ DriverUnload \/ MiniFilterUnload \/ KeepLink \/ UnloadStep
    \/ \E t \in Threads : (\E k \in Kinds : Enter(t, k)) \/ Leave(t)
    \/ \E c \in Clients : ClientConnectNotify(c) \/ ClientDisconnectNotify(c)

LifeSpec == LifeInit /\ [][LifeNext]_lifeVars

-----------------------------------------------------------------------------
(* Properties. *)

Parts == {"image", "rules", "nameBuffer"} \cup {LoadSteps[k] : k \in 1 .. Len(LoadSteps)}

\* The shape of every variable; a part is there once.
LifeTypeOK ==
    /\ driver \in {"monitor", "isolation"}
    /\ stage \in {"loading", "up", "detaching", "detached", "stopping", "unloading", "down", "failed", "crashed"}
    /\ next \in 1 .. Len(LoadSteps) + 1
    /\ have \subseteq Parts
    /\ call \in [Threads -> Kinds \cup {"out"}]
    /\ missed \subseteq Kinds \X Parts
    /\ port \in Clients \cup {NoPort} /\ open \subseteq Clients
    /\ client \in [Clients -> {"off", "on", "left"}]
    /\ opened \in BOOLEAN /\ linkKept \in BOOLEAN /\ overlapped \in BOOLEAN
    /\ unregistered \in 0 .. 1

\* What the system calls finds the parts it uses, with two gaps, both of the
\* isolation driver: a process notification may find no filter, before
\* InitializeFeatures gets to it and after DriverUnload has dropped it, and the
\* cache manager may find its table empty until InitializeMiniFilter fills it in.
\* After a load that failed, process notifications still come and find no image.
OnlyKnownGaps ==
    missed \subseteq
        (IF ~OfMonitor THEN {<<"process", "policy">>, <<"cache", "cacheCallbacks">>} ELSE {})
        \cup (IF stage = "failed" THEN {"process"} \X Uses("process") ELSE {})

\* A filter that was registered is unregistered exactly once, whichever command
\* unloads the driver and wherever its start fails, and no file callback is left
\* in the driver then.
UnregisteredOnce ==
    stage \in {"detached", "unloading", "down", "failed", "crashed"} =>
        /\ "filter" \notin have /\ InKind("file") = {}
        /\ stage # "failed" => unregistered = 1

\* Of the monitor only the name buffer and the empty filter are left after an
\* unload, and the device when its link could not be deleted.
LeftAfterUnload ==
    (stage = "down") =>
        have = {"nameBuffer", "policy"} \cup (IF linkKept THEN {"device", "link"} ELSE {})

\* Unless a client connects while another one's port is remembered, the ports that
\* are open are those of the clients that are connected.
PortsPaired ==
    ~overlapped => open = {c \in Clients : client[c] = "on"}

\* Both drivers, from their load to their unload: no call misses a part but for the
\* known gaps, the filter is unregistered once and in time, what is left is known, and
\* the ports are those of the clients.
LoadedAndUnloaded ==
    LifeTypeOK /\ OnlyKnownGaps /\ UnregisteredOnce /\ LeftAfterUnload /\ PortsPaired

-----------------------------------------------------------------------------
(* Why it holds. *)

\* What is there after the first steps of loading, and after those of detaching.
Loaded(n) == {"image"} \cup {LoadSteps[k] : k \in 1 .. n - 1}
AllLoaded == Loaded(Len(LoadSteps) + 1)
Detaching(n) == AllLoaded \ {DetachSteps[k] : k \in 1 .. n - 1}

\* What the monitor has left before a step of its unload.
MonitorLeft(n) ==
    {"image", "entries", "nameBuffer", "policy", "fastIo"}
    \cup (IF n <= 1 THEN {"notifyMgr"} ELSE {})
    \cup (IF n <= 2 THEN {"processNotify", "procNames"} ELSE {})
    \cup (IF n <= 4 \/ linkKept THEN {"link"} ELSE {})
    \cup (IF n <= 5 \/ linkKept THEN {"device"} ELSE {})
    \cup (IF n <= 6 THEN {"lookasides"} ELSE {})

\* The isolation driver keeps what process notifications use until they are over.
IsolationLeft(n) ==
    /\ n <= 3 => {"image", "procNames", "lookasides", "volumes", "processNotify"} \subseteq have
    /\ n > 3 => "processNotify" \notin have

\* How far each stage has come, and what is there.
StageInv ==
    /\ stage = "loading" => next <= Len(LoadSteps) /\ have = Loaded(next) /\ unregistered = 0
    /\ stage = "up" => have = AllLoaded /\ unregistered = 0
    /\ stage \in {"detaching", "stopping"} =>
           next <= Len(DetachSteps) /\ have = Detaching(next) /\ unregistered = 0
    /\ stage \in {"detached", "unloading"} =>
           /\ unregistered = 1 /\ "filter" \notin have /\ "filtering" \notin have
           /\ stage = "detached" => next = 1
           /\ next <= Len(UnloadSteps) /\ (~OfMonitor => next <= 7)
           /\ IF OfMonitor THEN have = MonitorLeft(next) ELSE IsolationLeft(next)
    /\ linkKept => stage \in {"unloading", "down", "crashed"} /\ (stage = "unloading" => next > 5)
    /\ stage \in {"down", "failed", "crashed"} =>
           /\ "filter" \notin have /\ "filtering" \notin have
           /\ stage # "failed" => unregistered = 1 /\ "processNotify" \notin have
    /\ LeftAfterUnload

\* A call is in the driver only while what makes the system call is there.
CallInv ==
    \A t \in Threads :
        /\ call[t] = "process" => "processNotify" \in have
        /\ call[t] \in {"file", "cache"} => "filtering" \in have
        /\ call[t] = "cache" => ~OfMonitor

\* Until two clients meet, the port is that of the one client that is connected.
PortInv ==
    ~overlapped => /\ open = {c \in Clients : client[c] = "on"}
                   /\ open = IF port = NoPort THEN {} ELSE {port}

LifeInv == LifeTypeOK /\ StageInv /\ CallInv /\ OnlyKnownGaps /\ PortInv
=============================================================================
