----------------------------- MODULE NotifyQueue -----------------------------
(***************************************************************************)
(* The event queue of WinIOMonitor (sys/notifyMgr.cpp): the callbacks that *)
(* report an event (producers) and the control device that hands events to *)
(* the client (collectors) share one doubly linked list, whose operations  *)
(* are interlocked, and one counter, which is not changed under the same   *)
(* lock.  The list is modelled by its links, since the code links an item  *)
(* twice: AllocateNotifyItem appends it and so does the callback that      *)
(* fills it in.                                                            *)
(*                                                                         *)
(* linkedBy, which never changes, names who appends an item; the code is   *)
(* {"allocate", "caller"}.  With {"caller"} the queue is the one its other *)
(* operations were written for: one link for every item, made when the     *)
(* item is complete.                                                       *)
(***************************************************************************)
EXTENDS Naturals, Integers, FiniteSets, Sequences

CONSTANTS
    Producers,           \* threads in a callback that reports an event
    Collectors,          \* threads in IOCTL_GET_NOTIFY_EVENTS
    Items,               \* the addresses of NOTIFY_ITEMs, none used twice
    ListHead,            \* nsDetail::ListHead
    MaxNotifyItemCount,  \* 8192 in the code
    Linkings,            \* the sets of those who append an item to the list
    MaxFailures,         \* bound: allocations that may fail
    MaxBelow,            \* bound: how far collectors take the counter below zero
    PacketSize,          \* sizeof( MSG_SEND_PACKET )
    Sizes,               \* sizes of whole packets
    Buffers              \* sizes of the clients' buffers

ASSUME QueueAssumption ==
    /\ IsFiniteSet(Producers) /\ IsFiniteSet(Collectors) /\ IsFiniteSet(Items)
    /\ Producers \cap Collectors = {} /\ ListHead \notin Items
    /\ MaxNotifyItemCount \in Nat /\ MaxFailures \in Nat /\ MaxBelow \in Nat /\ PacketSize \in Nat
    /\ Linkings \subseteq SUBSET {"allocate", "caller"} /\ {} \notin Linkings
    /\ Sizes \subseteq Nat /\ Buffers \subseteq Nat
    /\ \A s \in Sizes : s >= PacketSize

Actors == Producers \cup Collectors
Nodes == Items \cup {ListHead}
None == ListHead             \* "no item" in a thread's local variable

VARIABLES
    linkedBy,            \* who appends an item, from the start
    CurrentItemCount,
    flink, blink,        \* the links of the list's nodes
    mem,                 \* what an item's memory holds
    MessageSize,         \* of an item's packet; any value before it is filled in
    failures,            \* allocations that have failed
    at, item,            \* a thread's next step and the item it works on
    room,                \* a collector's BufferSize, what is left of it
    out,                 \* the items a collector has copied, in order
    written,             \* bytes a collector has copied
    buffer,              \* the size of a collector's whole buffer
    told,                \* NotifyItemCount as the client gets it
    fate,                \* history: how an item left the queue
    links,               \* history: how often an item was linked
    early,               \* history: the items that left before they were filled
    fault                \* history: memory that is not an item's was touched

queueVars == << linkedBy, CurrentItemCount, flink, blink, mem, MessageSize, failures, at, item,
                room, out, written, buffer, told, fate, links, early, fault >>

list == << flink, blink >>
collecting == << room, out, written, buffer, told >>

QueueTypeOK ==
    /\ linkedBy \in Linkings
    /\ CurrentItemCount \in Int /\ CurrentItemCount >= -MaxBelow - Cardinality(Producers)
    /\ flink \in [Nodes -> Nodes] /\ blink \in [Nodes -> Nodes]
    /\ mem \in [Items -> {"none", "allocated", "filled", "freed"}]
    /\ MessageSize \in [Items -> Sizes]
    /\ failures \in 0..MaxFailures
    /\ at \in [Actors -> {"idle", "limit", "drop", "alloc", "link", "fill",
                           "append", "remove", "copy", "reply"}]
    /\ item \in [Actors -> Nodes]
    /\ room \in [Collectors -> Int] /\ buffer \in [Collectors -> Nat]
    /\ written \in [Collectors -> Nat] /\ told \in [Collectors -> Nat]
    /\ out \in [Collectors -> Seq(Items)]
    /\ fate \in [Items -> {"queued", "dropped", "copied", "oversized"}]
    /\ links \in [Items -> Nat] /\ early \subseteq Items /\ fault \in BOOLEAN

QueueInit ==
    /\ linkedBy \in Linkings
    /\ CurrentItemCount = 0
    /\ flink = [n \in Nodes |-> n] /\ blink = [n \in Nodes |-> n]
    /\ mem = [i \in Items |-> "none"]
    /\ MessageSize \in [Items -> Sizes]
    /\ failures = 0
    /\ at = [t \in Actors |-> "idle"] /\ item = [t \in Actors |-> None]
    /\ room = [c \in Collectors |-> 0] /\ buffer = [c \in Collectors |-> 0]
    /\ written = [c \in Collectors |-> 0] /\ told = [c \in Collectors |-> 0]
    /\ out = [c \in Collectors |-> << >>]
    /\ fate = [i \in Items |-> "queued"] /\ links = [i \in Items |-> 0]
    /\ early = {} /\ fault = FALSE

\* A thread goes on; what is chosen at the start stays.
Goto(t, label) == at' = [at EXCEPT ![t] = label] /\ UNCHANGED linkedBy

-----------------------------------------------------------------------------
(* ExInterlockedInsertTailList and ExInterlockedRemoveHeadList, link by      *)
(* link: what they do to an item that is in the list already matters here.   *)

InsertTailList(i) ==
    LET last == blink[ListHead] IN
    /\ flink' = [[flink EXCEPT ![i] = ListHead] EXCEPT ![last] = i]
    /\ blink' = [[blink EXCEPT ![i] = last] EXCEPT ![ListHead] = i]
    /\ links' = [links EXCEPT ![i] = @ + 1]

\* Fault: the head is read and stays linked.
HeadStaysLinked == UNCHANGED list

RemoveHeadList ==
    LET first == flink[ListHead] next == flink[first] IN
    /\ flink' = [flink EXCEPT ![ListHead] = next]
    /\ blink' = [blink EXCEPT ![next] = ListHead]

ListEmpty == flink[ListHead] = ListHead

\* An item's memory is touched: a fault when it is not the item's any more.
Touch(i) == fault' = (fault \/ mem[i] \notin {"allocated", "filled"})

\* FreeNotifyItem: the packet's pointer is read from the item, so an item that
\* is freed twice is touched after it was freed.
FreeNotifyItem(i, why) ==
    /\ Touch(i)
    /\ mem' = [mem EXCEPT ![i] = "freed"]
    /\ fate' = [fate EXCEPT ![i] = why]
    /\ early' = IF mem[i] = "allocated" THEN early \cup {i} ELSE early

-----------------------------------------------------------------------------
(* A producer: AllocateNotifyItem, then the callback fills the item in.      *)

\* notifyMgr.cpp:54: the count is raised first.
RaiseCount(p) ==
    /\ at[p] = "idle"
    /\ Cardinality({i \in Items : mem[i] = "none"})
         > Cardinality({q \in Producers : at[q] \in {"limit", "drop", "alloc"}})
    /\ CurrentItemCount' = CurrentItemCount + 1
    /\ Goto(p, IF CurrentItemCount' >= MaxNotifyItemCount THEN "limit" ELSE "alloc")
    /\ UNCHANGED << list, mem, MessageSize, failures, item, collecting, fate, links, early, fault >>

\* notifyMgr.cpp:58-60: the oldest item is taken, whether there is one or not.
TakeOldest(p) ==
    /\ at[p] = "limit"
    /\ IF ListEmpty
         THEN fault' = TRUE /\ UNCHANGED << item, list >>
         ELSE item' = [item EXCEPT ![p] = flink[ListHead]] /\ RemoveHeadList /\ UNCHANGED fault
    /\ CurrentItemCount' = CurrentItemCount - 1
    /\ Goto(p, "drop")
    /\ UNCHANGED << mem, MessageSize, failures, collecting, fate, links, early >>

\* notifyMgr.cpp:62
DropOldest(p) ==
    /\ at[p] = "drop" /\ item[p] # None
    /\ FreeNotifyItem(item[p], "dropped")
    /\ item' = [item EXCEPT ![p] = None]
    /\ Goto(p, "alloc")
    /\ UNCHANGED << CurrentItemCount, list, MessageSize, failures, collecting, links >>

\* notifyMgr.cpp:65-76: a failed allocation leaves the count as it is.
AllocateItem(p) ==
    /\ at[p] = "alloc"
    /\ \E i \in Items :
         /\ mem[i] = "none"
         /\ mem' = [mem EXCEPT ![i] = "allocated"]
         /\ item' = [item EXCEPT ![p] = i]
    /\ Goto(p, IF "allocate" \in linkedBy THEN "link" ELSE "fill")
    /\ UNCHANGED << CurrentItemCount, list, MessageSize, failures, collecting, fate, links, early, fault >>

AllocateFails(p) ==
    /\ at[p] = "alloc" /\ failures < MaxFailures
    /\ failures' = failures + 1
    /\ Goto(p, "idle")
    /\ UNCHANGED << CurrentItemCount, list, mem, MessageSize, item, collecting, fate, links, early, fault >>

\* notifyMgr.cpp:78: the item is linked before anything is written to it.
LinkInAllocate(p) ==
    /\ at[p] = "link"
    /\ InsertTailList(item[p]) /\ Touch(item[p])
    /\ Goto(p, "fill")
    /\ UNCHANGED << CurrentItemCount, mem, MessageSize, failures, item, collecting, fate, early >>

\* The callback writes the packet.
FillItem(p) ==
    /\ at[p] = "fill"
    /\ Touch(item[p])
    /\ \E s \in Sizes : MessageSize' = [MessageSize EXCEPT ![item[p]] = s]
    /\ mem' = [mem EXCEPT ![item[p]] = IF @ = "freed" THEN @ ELSE "filled"]
    /\ IF "caller" \in linkedBy
         THEN Goto(p, "append") /\ item' = item
         ELSE Goto(p, "idle") /\ item' = [item EXCEPT ![p] = None]
    /\ UNCHANGED << CurrentItemCount, list, failures, collecting, fate, links, early >>

\* The callback's own AppendNotifyItem.
AppendNotifyItem(p) ==
    /\ at[p] = "append"
    /\ InsertTailList(item[p]) /\ Touch(item[p])
    /\ item' = [item EXCEPT ![p] = None]
    /\ Goto(p, "idle")
    /\ UNCHANGED << CurrentItemCount, mem, MessageSize, failures, collecting, fate, early >>

-----------------------------------------------------------------------------
(* A collector: CollectNotifyItem for a client's buffer.                     *)

StartCollect(c) ==
    /\ at[c] = "idle"
    /\ \E b \in Buffers :
         /\ b > PacketSize
         /\ room' = [room EXCEPT ![c] = b] /\ buffer' = [buffer EXCEPT ![c] = b]
    /\ out' = [out EXCEPT ![c] = << >>] /\ written' = [written EXCEPT ![c] = 0]
    /\ told' = [told EXCEPT ![c] = 0]
    /\ Goto(c, "remove")
    /\ UNCHANGED << CurrentItemCount, list, mem, MessageSize, failures, item, fate, links, early, fault >>

\* notifyMgr.cpp:124-128.  An item that is its own successor is taken again and again;
\* how far that takes the counter below zero is followed up to MaxBelow only.
TakeFirst(c) ==
    /\ at[c] = "remove" /\ ~ListEmpty
    /\ item' = [item EXCEPT ![c] = flink[ListHead]]
    /\ RemoveHeadList
    /\ CurrentItemCount' = IF CurrentItemCount > -MaxBelow THEN CurrentItemCount - 1 ELSE CurrentItemCount
    /\ Goto(c, "copy")
    /\ UNCHANGED << mem, MessageSize, failures, collecting, fate, links, early, fault >>

ListExhausted(c) ==
    /\ at[c] = "remove" /\ ListEmpty
    /\ Goto(c, "reply")
    /\ UNCHANGED << CurrentItemCount, list, mem, MessageSize, failures, item, collecting, fate, links, early, fault >>

\* notifyMgr.cpp:137-147: the item is copied and freed.
CopyItem(c) ==
    LET i == item[c] size == MessageSize[i] IN
    /\ at[c] = "copy" /\ size <= room[c]
    /\ out' = [out EXCEPT ![c] = Append(@, i)]
    /\ written' = [written EXCEPT ![c] = @ + size]
    /\ room' = [room EXCEPT ![c] = @ - size]
    /\ FreeNotifyItem(i, "copied")
    /\ item' = [item EXCEPT ![c] = None]
    /\ Goto(c, IF room'[c] > PacketSize THEN "remove" ELSE "reply")
    /\ UNCHANGED << CurrentItemCount, list, MessageSize, failures, buffer, told, links >>

\* Fault: an item that does not fit is put back, and blocks those behind it.
SkipKeepsItem(c) ==
    LET i == item[c] IN
    /\ at[c] = "copy" /\ MessageSize[i] > room[c]
    /\ flink' = [[flink EXCEPT ![i] = flink[ListHead]] EXCEPT ![ListHead] = i]
    /\ blink' = [[blink EXCEPT ![flink[ListHead]] = i] EXCEPT ![i] = ListHead]
    /\ CurrentItemCount' = CurrentItemCount + 1
    /\ item' = [item EXCEPT ![c] = None]
    /\ Goto(c, "reply")
    /\ UNCHANGED << mem, MessageSize, failures, collecting, fate, links, early, fault >>

\* notifyMgr.cpp:134: the item has been removed and is neither copied nor freed.
SkipItem(c) ==
    LET i == item[c] IN
    /\ at[c] = "copy" /\ MessageSize[i] > room[c]
    /\ Touch(i)
    /\ fate' = [fate EXCEPT ![i] = "oversized"]
    /\ early' = IF mem[i] = "allocated" THEN early \cup {i} ELSE early
    /\ item' = [item EXCEPT ![c] = None]
    /\ Goto(c, "reply")
    /\ UNCHANGED << CurrentItemCount, list, mem, MessageSize, failures, collecting, links >>

\* The status CollectNotifyItem ends with: the assignment of line 101 is the
\* only one on the way.
CollectStatus(c) == "STATUS_INVALID_PARAMETER"

\* DevIOCntlCollectNotifyEventItems and the API call hand the number of items
\* to the client when the status says that there are some.
ReplyToClient(c) ==
    /\ at[c] = "reply"
    /\ told' = [told EXCEPT ![c] = IF CollectStatus(c) = "STATUS_SUCCESS"
                                     THEN Len(out[c]) ELSE 0]
    /\ Goto(c, "idle")
    /\ UNCHANGED << CurrentItemCount, list, mem, MessageSize, failures, item, room, out, written, buffer, fate, links, early, fault >>

Produce(p) ==
    \/ RaiseCount(p) \/ TakeOldest(p) \/ DropOldest(p) \/ AllocateItem(p)
    \/ AllocateFails(p) \/ LinkInAllocate(p) \/ FillItem(p) \/ AppendNotifyItem(p)

Collect(c) ==
    \/ StartCollect(c) \/ TakeFirst(c) \/ ListExhausted(c) \/ CopyItem(c) \/ SkipItem(c)
    \/ ReplyToClient(c)

\* A fault ends the run: the machine stops or goes on with corrupted memory.
QueueNext ==
    /\ ~fault
    /\ \/ \E p \in Producers : Produce(p)
       \/ \E c \in Collectors : Collect(c)

QueueSpec == QueueInit /\ [][QueueNext]_queueVars

QueueFairSpec ==
    /\ QueueSpec
    /\ \A p \in Producers : WF_queueVars(~fault /\ at[p] # "idle" /\ Produce(p))
    /\ \A c \in Collectors : WF_queueVars(~fault /\ Collect(c))
-----------------------------------------------------------------------------
(* Properties. *)

\* The items in a list with the links f: the nodes met from the head on, until
\* it is the head again.
LinkedBy(f) ==
    LET node[n \in 0..Cardinality(Items)] ==
            IF n = 0 THEN f[ListHead]
            ELSE IF node[n - 1] = ListHead THEN ListHead ELSE f[node[n - 1]]
    IN  {node[n] : n \in 0..Cardinality(Items)} \ {ListHead}

Linked == LinkedBy(flink)

\* Producers that have raised the count for an item that is not linked yet.
Raised == {p \in Producers :
    \/ at[p] \in {"limit", "drop", "alloc", "link"}
    \/ at[p] \in {"fill", "append"} /\ "allocate" \notin linkedBy}

\* As long as no item is linked twice, the counter, which is changed outside
\* the list's lock, is the number of items in the list, of items on their way
\* into it and of allocations that failed: those are never taken off again, and
\* the limit shrinks by each of them.
CountExact ==
    (~fault /\ \A i \in Items : links[i] <= 1) =>
        CurrentItemCount = Cardinality(Linked) + Cardinality(Raised) + failures

\* A collector never writes past the client's buffer, even when it reads the
\* size from a packet nobody has filled in.
InBuffer == \A c \in Collectors : written[c] + room[c] = buffer[c] /\ room[c] >= 0

\* Memory that is not an item's is touched for one of three reasons only: an
\* item was linked twice, it left the queue before it was filled in, or the
\* limit was reached and the list emptied meanwhile.  The interlocked
\* operations themselves never hand one item to two threads.
FaultExplained ==
    fault => \/ \E i \in Items : links[i] > 1
             \/ early # {}
             \/ \E p \in Producers : at[p] = "drop" /\ item[p] = None

\* With complete items linked once, an item that left the queue had been filled
\* in, was one thread's at a time, and is in one collector's buffer if and only
\* if its fate was to be copied.
LeavesOnce ==
    ~fault =>
       /\ early = {}
       /\ \A t, u \in Actors : t # u /\ item[t] # None => item[t] # item[u]
       /\ \A c \in Collectors : \A m, n \in DOMAIN out[c] : m # n => out[c][m] # out[c][n]
       /\ \A c \in Collectors : \A n \in DOMAIN out[c] : fate[out[c][n]] = "copied"
       /\ \A i \in Linked : fate[i] = "queued" /\ mem[i] = "filled"

\* The queue as a whole; the last part is about items linked once, by the caller.
QueueSound ==
    /\ QueueTypeOK /\ CountExact /\ InBuffer /\ FaultExplained
    /\ linkedBy = {"caller"} => LeavesOnce

\* An item that nothing leads to any more: a second link, its own or another
\* item's, has led the list past it.
CutOut(i) ==
    /\ i \notin Linked /\ \A t \in Actors : item[t] # i
    /\ \E k \in Items : links[k] > 1

\* While a client keeps asking, every event that was queued leaves the queue, unless
\* the second link of an item cut it out of the list or memory was corrupted.
EventuallyLeaves ==
    \A i \in Items : (mem[i] = "filled") ~> (fate[i] # "queued" \/ CutOut(i) \/ fault)
=============================================================================
