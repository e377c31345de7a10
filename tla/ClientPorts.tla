------------------------------ MODULE ClientPorts ------------------------------
(***************************************************************************)
(* The communication ports of the isolation driver                         *)
(* (WinIOIsolation_Filter.cpp) and the messages that go through them       *)
(* (communication/Communication.cpp): clients connect to a table of ports  *)
(* and the first one becomes the controlling process; callbacks look a     *)
(* port up, by the number of their event, and send a packet; worker        *)
(* threads send what was queued.  No lock protects the table: the notify   *)
(* routines of two connections and the callbacks interleave at every       *)
(* access to it.                                                           *)
(***************************************************************************)
EXTENDS Integers, FiniteSets

CONSTANTS
    Clients,        \* client processes
    Conns,        \* connections, each used once
    Callbacks,    \* threads that run a callback
    MaxConn,      \* MAX_CLIENT_CONNECTION
    SeedLimit     \* event numbers are -SeedLimit .. SeedLimit - 1 (a LONG in the code)

NoConn == "no connection"
NoClient == "no client"

ASSUME PortsAssumption ==
    /\ NoConn \notin Conns /\ NoClient \notin Clients
    /\ MaxConn \in Nat \ {0} /\ SeedLimit \in Nat \ {0}

VARIABLES
    slots,      \* GlobalContext.ClientPort
    controller,       \* FeatureContext.CntlProcessId
    conn,       \* per connection: [st, proc, cookie]
    call,       \* per callback: [pc, seed, salt, port]
    evtId,      \* GlobalEvtID
    wrapped,    \* it has passed its largest value
    overlapped, \* two notify routines have run at the same time
    loaded,     \* "yes", or "crashed" when unloading touched a null item
    cookieGiven \* the notify routine gets the server port as cookie; in the code it gets
                \* the port's value before it is created, which is null

portVars == <<slots, controller, conn, call, evtId, wrapped, overlapped, loaded, cookieGiven>>

Slots == 0 .. MaxConn - 1
NoCall == [pc |-> "idle", seed |-> 0, salt |-> 0, port |-> NoConn]
NoCookie == -1

PortsInit ==
    /\ slots = [i \in Slots |-> NoConn]
    /\ controller = NoClient
    /\ conn = [c \in Conns |-> [st |-> "off", proc |-> NoClient, cookie |-> NoCookie]]
    /\ call = [t \in Callbacks |-> NoCall]
    /\ evtId = 0 /\ wrapped = FALSE /\ overlapped = FALSE
    /\ loaded = "yes"
    /\ cookieGiven \in BOOLEAN

-----------------------------------------------------------------------------
(* Connections. *)

InNotify(c) == conn[c].st \in {"storing", "closing"}
Overlaps(c) == overlapped \/ \E d \in Conns \ {c} : InNotify(d)

\* The first free slot, MaxConn when there is none.
FirstFree == IF \E i \in Slots : slots[i] = NoConn
             THEN CHOOSE i \in Slots : slots[i] = NoConn /\ \A j \in 0 .. i - 1 : slots[j] # NoConn
             ELSE MaxConn

\* The test for the controlling process: none yet, or this one.
MayControl(p) == controller \in {NoClient, p}

Full == FirstFree = MaxConn

\* ClientConnectNotify up to the choice of a slot.  A cookie that is not the server
\* port passes both tests by: the connection is accepted and its cookie left zero.
ConnectBegin(c, p) ==
    /\ loaded = "yes" /\ conn[c].st = "off"
    /\ conn' = [conn EXCEPT ![c] =
                  IF ~cookieGiven THEN [st |-> "up", proc |-> p, cookie |-> 0]
                  ELSE IF ~MayControl(p) \/ Full
                       THEN [st |-> "refused", proc |-> p, cookie |-> NoCookie]
                       ELSE [st |-> "storing", proc |-> p, cookie |-> FirstFree]]
    /\ overlapped' = Overlaps(c)
    /\ UNCHANGED <<slots, controller, call, evtId, wrapped, loaded, cookieGiven>>

\* The rest of it: the slot is taken and the process becomes the controlling one.
ConnectStore(c) ==
    /\ conn[c].st = "storing"
    /\ slots' = [slots EXCEPT ![conn[c].cookie] = c]
    /\ controller' = IF controller = NoClient THEN conn[c].proc ELSE controller
    /\ conn' = [conn EXCEPT ![c].st = "up"]
    /\ UNCHANGED <<call, evtId, wrapped, overlapped, loaded, cookieGiven>>

\* ClientDisconnectNotify closes what the slot holds and clears it.
DisconnectBegin(c) ==
    /\ conn[c].st = "up"
    /\ slots' = [slots EXCEPT ![conn[c].cookie] = NoConn]
    /\ conn' = [conn EXCEPT ![c].st = "closing"]
    /\ overlapped' = Overlaps(c)
    /\ UNCHANGED <<controller, call, evtId, wrapped, loaded, cookieGiven>>

\* Fault: the controlling process stays.
FaultEndKeepsControl(c) ==
    /\ conn[c].st = "closing"
    /\ conn' = [conn EXCEPT ![c].st = "gone"]
    /\ UNCHANGED <<controller, slots, call, evtId, wrapped, overlapped, loaded, cookieGiven>>

\* With the last slot emptied, the next process to connect will be the controlling one.
DisconnectEnd(c) ==
    /\ conn[c].st = "closing"
    /\ controller' = IF \A i \in Slots : slots[i] = NoConn THEN NoClient ELSE controller
    /\ conn' = [conn EXCEPT ![c].st = "gone"]
    /\ UNCHANGED <<slots, call, evtId, wrapped, overlapped, loaded, cookieGiven>>

-----------------------------------------------------------------------------
(* Callbacks. *)

\* CreateEvtID: the counter wraps.
NextEvtId == IF evtId = SeedLimit - 1 THEN -SeedLimit ELSE evtId + 1

\* The remainder of C: it has the sign of the dividend.
Remainder(n, m) == IF n < 0 THEN -((-n) % m) ELSE n % m

\* The slot an event number points at.
OwnSlot(seed) == Remainder(seed, MaxConn)

\* CheckEventFileCreateTo, CheckEventProcCreateTo, CheckEventProcTerminateTo and
\* NotifyFSEventToClient begin by looking a port up.
CheckBegin(t) ==
    /\ loaded = "yes" /\ call[t].pc = "idle"
    /\ evtId' = NextEvtId
    /\ wrapped' = (wrapped \/ evtId = SeedLimit - 1)
    /\ call' = [call EXCEPT ![t] = [NoCall EXCEPT !.pc = "own", !.seed = NextEvtId]]
    /\ UNCHANGED <<slots, controller, conn, overlapped, loaded, cookieGiven>>

\* NotifyEventFileRenameTo and NotifyEventFileDeleteTo look for no port; the packet
\* they would queue has not been allocated, and they give up.
NotifyFile(t) ==
    /\ loaded = "yes" /\ call[t].pc = "idle"
    /\ call' = [call EXCEPT ![t] = [NoCall EXCEPT !.pc = "done"]]
    /\ UNCHANGED <<slots, controller, conn, evtId, wrapped, overlapped, loaded, cookieGiven>>

\* Fault: the event's own slot is not read.
FaultOwnNotRead(t) ==
    /\ call[t].pc = "own"
    /\ call' = [call EXCEPT ![t].pc = IF call[t].salt < MaxConn THEN "scan" ELSE "own"]
    /\ UNCHANGED <<slots, controller, conn, evtId, wrapped, overlapped, loaded, cookieGiven>>

\* GetClientPort: first the event's own slot.  Before the table lies what memory
\* holds there; a negative slot may read as a port or as none.
LookOwn(t) ==
    LET i == OwnSlot(call[t].seed)
        next == [call[t] EXCEPT !.pc = IF call[t].salt < MaxConn THEN "scan" ELSE "own"] IN
    /\ call[t].pc = "own"
    /\ \/ i \in Slots /\ slots[i] # NoConn
          /\ call' = [call EXCEPT ![t] = [@ EXCEPT !.pc = "found", !.port = slots[i]]]
       \/ i \in Slots /\ slots[i] = NoConn /\ call' = [call EXCEPT ![t] = next]
       \/ i \notin Slots /\ \/ call' = [call EXCEPT ![t] = next]
                            \/ call' = [call EXCEPT ![t].pc = "found"]
    /\ UNCHANGED <<slots, controller, conn, evtId, wrapped, overlapped, loaded, cookieGiven>>

\* Then the slots in order, each one once for the whole call: when all of them were
\* empty, the loop goes on with the event's own slot alone.
LookNext(t) ==
    LET s == call[t].salt IN
    /\ call[t].pc = "scan"
    /\ call' = [call EXCEPT ![t] =
                  IF s = MaxConn THEN [@ EXCEPT !.pc = "own"]
                  ELSE IF slots[s] = NoConn THEN [@ EXCEPT !.salt = s + 1]
                       ELSE [@ EXCEPT !.salt = s + 1, !.pc = "found", !.port = slots[s]]]
    /\ UNCHANGED <<slots, controller, conn, evtId, wrapped, overlapped, loaded, cookieGiven>>

\* With a port in hand the check finds its packet unallocated and gives up.
GiveUp(t) ==
    /\ call[t].pc = "found"
    /\ call' = [call EXCEPT ![t].pc = "done"]
    /\ UNCHANGED <<slots, controller, conn, evtId, wrapped, overlapped, loaded, cookieGiven>>

CheckEnd(t) ==
    /\ call[t].pc = "done"
    /\ call' = [call EXCEPT ![t] = NoCall]
    /\ UNCHANGED <<slots, controller, conn, evtId, wrapped, overlapped, loaded, cookieGiven>>

-----------------------------------------------------------------------------
\* UninitializeNotifyEventWorker: the loop runs while the list is empty, and takes
\* an item from it; nothing has been queued, and nothing is what it takes.  The
\* worker threads have ended at once, IsExit being FALSE.  The filter manager has
\* waited for the callbacks.
Unload ==
    /\ loaded = "yes"
    /\ \A t \in Callbacks : call[t].pc = "idle"
    /\ \A c \in Conns : conn[c].st \in {"off", "refused", "gone"}
    /\ loaded' = "crashed"
    /\ UNCHANGED <<slots, controller, conn, call, evtId, wrapped, overlapped, cookieGiven>>

Connections == \E c \in Conns :
    (\E p \in Clients : ConnectBegin(c, p)) \/ ConnectStore(c) \/ DisconnectBegin(c) \/ DisconnectEnd(c)

CallbackStep(t) == LookOwn(t) \/ LookNext(t) \/ GiveUp(t) \/ CheckEnd(t)

PortsNext ==
    \/ Connections
    \/ \E t \in Callbacks : CheckBegin(t) \/ NotifyFile(t) \/ CallbackStep(t)
    \/ Unload

PortsSpec == PortsInit /\ [][PortsNext]_portVars

\* A callback runs on: GetClientPort spins without waiting for anything.
PortsFairSpec == PortsSpec /\ \A t \in Callbacks : WF_portVars(CallbackStep(t))

-----------------------------------------------------------------------------
(* Properties. *)

\* The shape of every variable: no slot is named that the table has not.
PortsTypeOK ==
    /\ slots \in [Slots -> Conns \cup {NoConn}]
    /\ controller \in Clients \cup {NoClient}
    /\ conn \in [Conns -> [st : {"off", "storing", "up", "closing", "gone", "refused"},
                           proc : Clients \cup {NoClient}, cookie : {NoCookie} \cup Slots]]
    /\ call \in [Callbacks -> [pc : {"idle", "own", "scan", "found", "done"},
                               seed : -SeedLimit .. SeedLimit - 1, salt : 0 .. MaxConn,
                               port : Conns \cup {NoConn}]]
    /\ evtId \in -SeedLimit .. SeedLimit - 1
    /\ wrapped \in BOOLEAN /\ overlapped \in BOOLEAN /\ cookieGiven \in BOOLEAN
    /\ loaded \in {"yes", "crashed"}

Up == {c \in Conns : conn[c].st = "up"}

\* Unless two notify routines ran at the same time, the table holds the connections
\* there are, each in a slot of its own, all of them belong to the controlling
\* process, and there is one exactly when there is a connection.  Without the cookie
\* the table stays empty and nobody ever controls the driver.
ControlExact ==
    /\ cookieGiven /\ ~overlapped /\ (\A c \in Conns : ~InNotify(c)) =>
        /\ \A c \in Up : slots[conn[c].cookie] = c /\ conn[c].proc = controller
        /\ \A i \in Slots : slots[i] # NoConn => slots[i] \in Up
        /\ (controller # NoClient) <=> (Up # {})
    /\ ~cookieGiven => (\A i \in Slots : slots[i] = NoConn) /\ controller = NoClient

\* A callback reads outside the table only once the event numbers have wrapped.
SlotInTable ==
    \A t \in Callbacks :
        (call[t].pc = "own" /\ OwnSlot(call[t].seed) \notin Slots) => wrapped

\* All of it: unless two notify routines overlap, the table of ports and the controlling
\* process are those of the connections there are; a callback reads outside the table only
\* once the event numbers have wrapped.
PortsExact == PortsTypeOK /\ ControlExact /\ SlotInTable

\* GetClientPort never spins past a client in the event's own slot: over and over
\* the callback is done or the slot is empty (or is no slot).
SpinsOnEmptySlot ==
    \A t \in Callbacks :
        []<>(\/ call[t].pc = "idle"
             \/ OwnSlot(call[t].seed) \notin Slots
             \/ slots[OwnSlot(call[t].seed)] = NoConn)

-----------------------------------------------------------------------------
\* Why it holds: the invariant behind these properties.

\* While no two notify routines have run at the same time, each connection stands where
\* its last notify routine has left the table, the slots and the controlling process.
PortsKept == cookieGiven /\ ~overlapped =>
    /\ \A c, d \in Conns : InNotify(c) /\ InNotify(d) => c = d
    /\ \A c \in Conns :
         /\ conn[c].st \in {"storing", "up", "closing"} => conn[c].proc \in Clients /\ conn[c].cookie \in Slots
         /\ conn[c].st = "storing" => slots[conn[c].cookie] = NoConn /\ controller \in {NoClient, conn[c].proc}
         /\ conn[c].st = "up" => slots[conn[c].cookie] = c /\ conn[c].proc = controller
         /\ conn[c].st = "closing" => controller # NoClient
    /\ \A i \in Slots : slots[i] # NoConn => conn[slots[i]].st = "up" /\ conn[slots[i]].cookie = i
    /\ controller # NoClient => \E c \in Conns : conn[c].st \in {"up", "closing"}

PortsUncontrolled == ~cookieGiven =>
    /\ \A i \in Slots : slots[i] = NoConn
    /\ controller = NoClient
    /\ \A c \in Conns : conn[c].st # "storing"

\* The events numbered before the numbers wrap are not negative.
SeedsInRange == ~wrapped => evtId >= 0 /\ \A t \in Callbacks : call[t].seed >= 0

PortsInv == PortsTypeOK /\ PortsKept /\ PortsUncontrolled /\ SeedsInRange
=============================================================================
