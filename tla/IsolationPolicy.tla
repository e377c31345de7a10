-------------------------- MODULE IsolationPolicy --------------------------
(***************************************************************************)
(* The policies of the isolation driver: the global filter (masks of files *)
(* to include and to exclude) and the process filter (entries that select  *)
(* processes, each with masks of files and of kinds of event).             *)
(*                                                                         *)
(* A change clones the list in force, edits the clone and exchanges it for *)
(* the list in force, without a lock; CheckEventTo decides from the lists  *)
(* whether the driver is concerned with an operation.  A mask is the set   *)
(* of names it matches.  Reference counts are left to PolicyPin.           *)
(***************************************************************************)
EXTENDS Integers, Sequences, FiniteSets, SequencesExt

CONSTANTS
    Changers,       \* threads of the controlling process
    Ids, NoId,      \* UUIDs the client names; the UUID of zeroes, what a client that
                    \* sets none sends
    System, Users,  \* the system process (ProcessId <= 4) and the others
    Files, Wildcards, \* files; masks, each a set of files
    NoPid,          \* ProcessId 0: the entry names its processes by a mask
    Selectors,      \* records [pid, names] : a process, or a mask of processes
    Events,         \* major functions a mask may ask for
    Wanted,         \* the major functions the client asks for in a mask
    AllocFails,     \* may an allocation fail
    MaxChanges      \* bound: changes asked for

Raisers == {System} \cup Users

ASSUME PolicyAssumption ==
    /\ System \notin Users /\ NoPid \notin Raisers
    /\ \A m \in Wildcards : m \subseteq Files
    /\ \A s \in Selectors : s.pid \in Users \cup {NoPid} /\ s.names \subseteq Users
    /\ Wanted \subseteq Events
    /\ MaxChanges \in Nat

VARIABLES
    items,      \* GlobalContext.ProcessFilter : the entries in force
    masks,      \* GlobalContext.GlobalFilter : [inc, exc] in force
    version,    \* exchanges of each list so far: [items, masks]
    op,         \* what each thread is changing, between its clone and its exchange
    died,       \* how the driver crashed, or "no"
    granted,    \* history: [items, masks] as the client's successful calls made them
    missed,     \* history: an item the client had put in was not found by its Id
    losses,     \* history: what was lost by the clones that came into force
    changes     \* bound: changes begun

policyVars == <<items, masks, version, op, died, granted, missed, losses, changes>>

Idle == [kind |-> "idle"]

PolicyInit ==
    /\ items = <<>>
    /\ masks = [inc |-> <<>>, exc |-> <<>>]
    /\ version = [items |-> 0, masks |-> 0]
    /\ op = [t \in Changers |-> Idle]
    /\ died = "no"
    /\ granted = [items |-> <<>>, masks |-> [inc |-> <<>>, exc |-> <<>>]]
    /\ missed = {}
    /\ losses = {}
    /\ changes = 0

-----------------------------------------------------------------------------
\* Cloning.

\* A mask loses its Id, its category and its type, an entry its Id.
CopyMasks(s) == [i \in DOMAIN s |-> [s[i] EXCEPT !.id = NoId, !.types = {}]]
CopyEntry(e) == [e EXCEPT !.id = NoId, !.inc = CopyMasks(@), !.exc = CopyMasks(@)]

\* A failed allocation ends the loop it is in, and the clone is used as it is.
Copies(s) ==
    LET full == [i \in DOMAIN s |-> CopyEntry(s[i])]
    IN  {full} \cup
        IF AllocFails
        THEN Prefixes(full)
             \cup (UNION {{[full EXCEPT ![i].inc = q] : q \in Prefixes(full[i].inc)} : i \in DOMAIN s})
             \cup (UNION {{[full EXCEPT ![i].exc = q] : q \in Prefixes(full[i].exc)} : i \in DOMAIN s})
        ELSE {}

\* Some mask of the entries asks for a kind of event.
AsksKinds(s) == \E i \in DOMAIN s : \E k \in DOMAIN (s[i].inc \o s[i].exc) : (s[i].inc \o s[i].exc)[k].types # {}

Begin(t) ==
    /\ died = "no" /\ op[t] = Idle /\ changes < MaxChanges
    /\ changes' = changes + 1
    /\ UNCHANGED <<items, masks, version, granted, missed, losses>>

\* With no memory for the clone itself the callers follow a null pointer.
ProcessFilter_Clone(t, req) ==
    /\ Begin(t)
    /\ \/ \E copy \in Copies(items) :
            /\ op' = [op EXCEPT ![t] = [kind |-> "items", req |-> req, list |-> copy, ver |-> version.items,
                        lost |-> (IF AsksKinds(items) THEN {"types"} ELSE {}) \cup
                                 (IF copy # [i \in DOMAIN items |-> CopyEntry(items[i])] THEN {"short"} ELSE {})]]
            /\ UNCHANGED died
       \/ /\ AllocFails
          /\ died' = "no_clone"
          /\ UNCHANGED op

\* The loop over the excluded masks runs over the clone's own, empty, list.
ExcludesCloned(exc) == <<>>

GlobalFilter_Clone(t, req) ==
    /\ Begin(t)
    /\ \E inc \in {masks.inc} \cup IF AllocFails THEN Prefixes(masks.inc) ELSE {} :
         LET exc == ExcludesCloned(masks.exc) IN
         op' = [op EXCEPT ![t] = [kind |-> "masks", req |-> req, list |-> [inc |-> inc, exc |-> exc], ver |-> version.masks,
                  lost |-> (IF exc # masks.exc THEN {"exclude"} ELSE {}) \cup
                           (IF inc # masks.inc THEN {"short"} ELSE {})]]
    /\ UNCHANGED died

-----------------------------------------------------------------------------
\* The control codes, up to the clone.  Only the controlling process gets here.

GlobalFilter_Add(t) == \E m \in Wildcards, include \in BOOLEAN :
    GlobalFilter_Clone(t, [op |-> "Add", mask |-> m, include |-> include])
GlobalFilter_Remove(t) == \E m \in Wildcards : GlobalFilter_Clone(t, [op |-> "Remove", mask |-> m])
ProcessFilter_Add(t) == \E id \in Ids, s \in Selectors :
    ProcessFilter_Clone(t, [op |-> "Add", entry |-> [id |-> id, sel |-> s, inc |-> <<>>, exc |-> <<>>]])
ProcessFilter_RemoveByID(t) == \E id \in Ids : ProcessFilter_Clone(t, [op |-> "RemoveId", id |-> id])
ProcessFilter_RemoveByPID(t) == \E p \in Users : ProcessFilter_Clone(t, [op |-> "RemovePid", pid |-> p])
ProcessFilter_RemoveByMask(t) == \E s \in Selectors :
    ProcessFilter_Clone(t, [op |-> "RemoveMask", names |-> s.names])
ProcessFilter_AddEntry(t) == \E parent \in Ids, id \in Ids, m \in Wildcards, include \in BOOLEAN :
    ProcessFilter_Clone(t, [op |-> "AddEntry", parent |-> parent, include |-> include,
                            mask |-> [id |-> id, types |-> Wanted, files |-> m]])
ProcessFilter_RemoveEntry(t) == \E parent \in Ids, id \in Ids, include \in BOOLEAN :
    ProcessFilter_Clone(t, [op |-> "RemoveEntry", parent |-> parent, id |-> id, include |-> include])

-----------------------------------------------------------------------------
\* Editing the clone and exchanging it.

Side(include) == IF include THEN "inc" ELSE "exc"
With(s, id) == {i \in DOMAIN s : s[i].id = id}
FirstOf(S) == CHOOSE i \in S : \A j \in S : i <= j

\* The entries an operation is about: by Id, by the number of a process, or by the mask.
Spots(s, r) ==
    CASE r.op = "Add"         -> With(s, r.entry.id)
      [] r.op = "RemoveId"    -> With(s, r.id)
      [] r.op = "RemovePid"   -> {i \in DOMAIN s : s[i].sel.pid = r.pid}
      [] r.op = "RemoveMask"  -> {i \in DOMAIN s : s[i].sel.names = r.names}
      [] OTHER                -> IF With(s, r.parent) = {} THEN {} ELSE {FirstOf(With(s, r.parent))}

\* The masks of that entry with the Id asked for, or to be added.
Children(s, r) == UNION {With(s[i][Side(r.include)], IF r.op = "AddEntry" THEN r.mask.id ELSE r.id) : i \in Spots(s, r)}

Succeeds(s, r) ==
    CASE r.op = "Add"         -> Spots(s, r) = {}
      [] r.op = "AddEntry"    -> Spots(s, r) # {} /\ Children(s, r) = {}
      [] r.op = "RemoveEntry" -> Children(s, r) # {}
      [] OTHER                -> Spots(s, r) # {}

\* The list s without what stands at the places out.
Kept(s, out) ==
    LET keep == DOMAIN s \ out
        Place(n) == CHOOSE i \in keep : Cardinality({j \in keep : j <= i}) = n
    IN  [n \in 1 .. Cardinality(keep) |-> s[Place(n)]]

\* The list s after the operation on the entries at the positions spots, on the child'th mask.
Edited(s, spots, child, r) ==
    CASE r.op = "Add"         -> Append(s, r.entry)
      [] r.op = "AddEntry"    -> [i \in DOMAIN s |-> IF i \in spots THEN [s[i] EXCEPT ![Side(r.include)] = Append(@, r.mask)] ELSE s[i]]
      [] r.op = "RemoveEntry" -> [i \in DOMAIN s |-> IF i \in spots THEN [s[i] EXCEPT ![Side(r.include)] = Kept(@, {child})] ELSE s[i]]
      [] OTHER                -> Kept(s, spots)

\* Removing whole entries goes on from the link of the entry just freed.
FollowsFreedLink(s, r) == r.op \in {"RemoveId", "RemovePid", "RemoveMask"} /\ Spots(s, r) # {}
\* _wcsicmp( NULL, ... ) for every entry whose number is another.
ComparesNoName(s, r) == r.op = "RemovePid" /\ Spots(s, r) # DOMAIN s

Overlap(t) == IF op[t].ver # version[op[t].kind] THEN {"overlap"} ELSE {}

\* What the client takes to be in force: the same edit of the entry it put in at that place.
ProcessFilter_Exchange(t, spots, child, r) ==
    /\ items' = Edited(op[t].list, spots, child, r)
    /\ version' = [version EXCEPT !.items = @ + 1]
    /\ losses' = losses \cup op[t].lost \cup Overlap(t)
    /\ granted' = IF losses' \cap {"overlap", "short"} = {}
                THEN [granted EXCEPT !.items = Edited(@, spots, child, r)] ELSE granted

\* ProcessFilter_Add, _AddEntry, _Remove and _RemoveEntry, after the clone.
ProcessFilter_Change(t) ==
    /\ died = "no" /\ op[t].kind = "items"
    /\ LET r == op[t].req
           s == op[t].list
       IN  \/ /\ ~ComparesNoName(s, r)
              /\ IF Succeeds(s, r)
                 THEN /\ \E child \in IF r.op = "RemoveEntry" THEN {FirstOf(Children(s, r))} ELSE {0} :
                           ProcessFilter_Exchange(t, Spots(s, r), child, r)
                      /\ UNCHANGED missed
                 ELSE /\ missed' = IF /\ r.op \in {"RemoveId", "RemoveEntry", "AddEntry"}
                                       /\ losses \cap {"overlap", "short"} = {} /\ Overlap(t) = {}
                                       /\ Succeeds(granted.items, r)
                                    THEN missed \cup {r.op} ELSE missed
                      /\ UNCHANGED <<items, version, losses, granted>>
              /\ UNCHANGED died
           \/ /\ died' \in (IF ComparesNoName(s, r) THEN {"null_name"} ELSE {})
                              \cup (IF FollowsFreedLink(s, r) THEN {"freed_link"} ELSE {})
              /\ UNCHANGED <<items, version, losses, granted, missed>>
    /\ op' = [op EXCEPT ![t] = Idle]
    /\ UNCHANGED <<masks, changes>>

MasksEdited(l, r) ==
    IF r.op = "Add" THEN [l EXCEPT ![Side(r.include)] = Append(@, r.mask)]
    ELSE LET Others(s) == Kept(s, {i \in DOMAIN s : s[i] = r.mask})
         IN  [inc |-> Others(l.inc), exc |-> Others(l.exc)]

\* GlobalFilter_Add and GlobalFilter_Remove, after the clone.  Remove reports success even
\* when nothing matched, and then leaves the filter in force: as no excluded mask is cloned,
\* none is ever taken out.
GlobalFilter_Change(t) ==
    /\ died = "no" /\ op[t].kind = "masks"
    /\ LET r == op[t].req
           list == MasksEdited(op[t].list, r)
       IN  \/ /\ granted' = [granted EXCEPT !.masks = MasksEdited(@, r)]
              /\ IF r.op = "Remove" /\ list = op[t].list
                 THEN /\ losses' = losses \cup (IF granted'.masks # granted.masks THEN op[t].lost \cup Overlap(t) ELSE {})
                      /\ UNCHANGED <<masks, version>>
                 ELSE /\ masks' = list
                      /\ version' = [version EXCEPT !.masks = @ + 1]
                      /\ losses' = losses \cup op[t].lost \cup Overlap(t)
              /\ UNCHANGED died
           \/ /\ r.op = "Remove" /\ list # op[t].list
              /\ died' = "freed_link"
              /\ UNCHANGED <<masks, version, losses, granted>>
    /\ op' = [op EXCEPT ![t] = Idle]
    /\ UNCHANGED <<items, missed, changes>>

\* GlobalFilter_Reset and ProcessFilter_Reset: an empty list comes into force.
GlobalFilter_Reset(t) ==
    /\ died = "no" /\ op[t] = Idle /\ changes < MaxChanges
    /\ changes' = changes + 1
    /\ masks' = [inc |-> <<>>, exc |-> <<>>]
    /\ granted' = [granted EXCEPT !.masks = masks']
    /\ version' = [version EXCEPT !.masks = @ + 1]
    /\ UNCHANGED <<items, op, died, missed, losses>>

ProcessFilter_Reset(t) ==
    /\ died = "no" /\ op[t] = Idle /\ changes < MaxChanges
    /\ changes' = changes + 1
    /\ items' = <<>>
    /\ granted' = [granted EXCEPT !.items = <<>>]
    /\ version' = [version EXCEPT !.items = @ + 1]
    /\ UNCHANGED <<masks, op, died, missed, losses>>

PolicyNext == \E t \in Changers :
    \/ GlobalFilter_Add(t) \/ GlobalFilter_Remove(t) \/ GlobalFilter_Reset(t)
    \/ ProcessFilter_Add(t) \/ ProcessFilter_RemoveByID(t)
    \/ ProcessFilter_RemoveByPID(t) \/ ProcessFilter_RemoveByMask(t)
    \/ ProcessFilter_AddEntry(t) \/ ProcessFilter_RemoveEntry(t)
    \/ ProcessFilter_Reset(t)
    \/ ProcessFilter_Change(t) \/ GlobalFilter_Change(t)

PolicySpec == PolicyInit /\ [][PolicyNext]_policyVars

-----------------------------------------------------------------------------
\* Deciding.

Hits(s, f, ev) == {i \in DOMAIN s : ev \in s[i].types /\ f \in s[i].files}
Matching(s, p) == {i \in DOMAIN s : s[i].sel.pid = p \/ p \in s[i].sel.names}

\* GlobalFilter_Match
GlobalMatch(l, f, include) == \E i \in DOMAIN l[Side(include)] : f \in l[Side(include)][i]

\* ProcessFilter_SubMatch, and what its callers make of its answer.
SubMatch(e, f, ev) ==
    \/ e.inc = <<>> /\ e.exc = <<>>
    \/ Hits(e.exc, f, ev) = {} /\ Hits(e.inc, f, ev) # {}

\* ProcessFilter_Match: the first entry that selects the process.
ProcessMatch(s, p) == Matching(s, p) # {}
\* Fault: the last entry that selects the process decides.
LastEntryFor(s, p) == s[CHOOSE i \in Matching(s, p) : \A j \in Matching(s, p) : j <= i]
EntryFor(s, p) == s[FirstOf(Matching(s, p))]

CheckEventToWithCREATE(s, l, p, f) ==
    /\ ~GlobalMatch(l, f, FALSE)
    /\ IF p = System THEN GlobalMatch(l, f, TRUE)
       ELSE ProcessMatch(s, p) /\ SubMatch(EntryFor(s, p), f, "CREATE")

\* CHECK_EVENT_PROCESS_ONLY
CheckEventToWithDIRECTORY_CONTROL(s, p) == p # System /\ ProcessMatch(s, p)

\* CHECK_EVENT_PROCESS_ONLY for a query, CHECK_EVENT_PROCESS_DIR_FILTER for a change, which
\* is decided by the name the file has before it.
CheckEventToWithQUERY_INFORMATION(s, ev, p, f) ==
    /\ p # System /\ ProcessMatch(s, p)
    /\ ev = "SET_INFORMATION" => SubMatch(EntryFor(s, p), f, ev)

CheckEventTo(s, l, ev, p, f) ==
    CASE ev = "CREATE" -> CheckEventToWithCREATE(s, l, p, f)
      [] ev = "DIRECTORY_CONTROL" -> CheckEventToWithDIRECTORY_CONTROL(s, p)
      [] OTHER -> CheckEventToWithQUERY_INFORMATION(s, ev, p, f)

-----------------------------------------------------------------------------
\* Correctness.

Mask == [id : Ids \cup {NoId}, types : SUBSET Events, files : Wildcards]
Entry == [id : Ids \cup {NoId}, sel : Selectors, inc : Seq(Mask), exc : Seq(Mask)]
MaskLists == [inc : Seq(Wildcards), exc : Seq(Wildcards)]

\* Every variable keeps its type.
PolicyTypeOK ==
    /\ items \in Seq(Entry) /\ granted.items \in Seq(Entry)
    /\ masks \in MaskLists /\ granted.masks \in MaskLists
    /\ version \in [items : Nat, masks : Nat]
    /\ \A t \in Changers : op[t] = Idle \/ op[t].kind \in {"items", "masks"}
    /\ died \in {"no", "no_clone", "null_name", "freed_link"}
    /\ missed \subseteq {"RemoveId", "RemoveEntry", "AddEntry"}
    /\ losses \subseteq {"types", "short", "exclude", "overlap"}
    /\ changes \in 0 .. MaxChanges

\* What an entry selects: processes, and the files of its masks in their order.
FilesOf(ms) == [k \in DOMAIN ms |-> ms[k].files]
Outline(s) == [i \in DOMAIN s |-> [sel |-> s[i].sel, inc |-> FilesOf(s[i].inc), exc |-> FilesOf(s[i].exc)]]

\* The entries in force select the processes and the files the client asked for, in the
\* order it asked for them, unless two changes overlapped or memory ran out in a clone.
EntriesAsAsked == losses \cap {"overlap", "short"} = {} => Outline(items) = Outline(granted.items)

\* An operation is the driver's concern exactly when the policy the client asked for says so:
\* an excluded file is no target; an entry's excluded masks come before its included ones,
\* and an entry without masks takes every file; the first entry that selects the process decides.
\* It fails only after a clone that lost something came into force.
AskedConcern(ev, p, f) ==
    LET s == granted.items
        sel == {i \in DOMAIN s : p \in s[i].sel.names \cup {s[i].sel.pid}}
        of(i, side) == {k \in DOMAIN s[i][side] : f \in s[i][side][k].files}
    IN  /\ ev = "CREATE" => \A k \in DOMAIN granted.masks.exc : f \notin granted.masks.exc[k]
        /\ IF p = System THEN ev = "CREATE" /\ \E k \in DOMAIN granted.masks.inc : f \in granted.masks.inc[k]
           ELSE \E i \in sel :
                  /\ \A j \in sel : i <= j
                  /\ ev \in {"CREATE", "SET_INFORMATION"} =>
                       \/ s[i].inc \o s[i].exc = <<>>
                       \/ ev \in Wanted /\ of(i, "exc") = {} /\ of(i, "inc") # {}
DecisionAsAsked ==
    losses = {} => \A ev \in Events, p \in Raisers, f \in Files : (CheckEventTo(items, masks, ev, p, f) <=> AskedConcern(ev, p, f))

\* Losing the kinds of event of a mask only ever makes the driver leave a file alone that it
\* was asked to take, or take a file whose exclusion it lost; where an entry has no masks, and
\* for the operations that look at the process alone, the decision is still the one asked for.
TypesLossContained ==
    losses \subseteq {"types"} => \A ev \in Events, p \in Raisers, f \in Files :
        ~(CheckEventTo(items, masks, ev, p, f) <=> AskedConcern(ev, p, f)) =>
            /\ ev \in {"CREATE", "SET_INFORMATION"} /\ p # System
            /\ \E i \in DOMAIN items : \E k \in DOMAIN (items[i].inc \o items[i].exc) : (items[i].inc \o items[i].exc)[k].types = {}

\* The entries in force select what the client asked for, and a file is taken or left
\* alone as it asked, unless two changes overlapped or a clone lost something; what
\* losing the kinds of event of a mask can change is contained.  Every variable keeps
\* its type.
PolicyAsAsked == PolicyTypeOK /\ EntriesAsAsked /\ DecisionAsAsked /\ TypesLossContained
=============================================================================
