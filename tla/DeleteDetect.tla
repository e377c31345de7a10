---------------------------- MODULE DeleteDetect ----------------------------
(***************************************************************************)
(* Delete detection of the WinIOMonitor minifilter (src/sys): how the      *)
(* create, set-information, cleanup and close callbacks decide, from a     *)
(* stream context shared by every handle of a stream, that a file has      *)
(* been deleted and must be reported once to the user-mode collector.      *)
(*                                                                         *)
(* An I/O thread sends one IRP at a time.  Each IRP goes through the       *)
(* pre-operation callback, the file system and, when the callback asked    *)
(* for it, the post-operation callback; every access to shared state is a  *)
(* step of its own.  The file system and the filter manager are external:  *)
(* they are modelled from what the callbacks rely on.                      *)
(***************************************************************************)
EXTENDS Integers, FiniteSets

CONSTANTS
  Threads,      \* threads that send I/O
  Handles,      \* file objects
  Streams,      \* incarnations of the monitored file's data stream
  Contexts,     \* memory for stream contexts (CTX_STREAM_CONTEXT)
  NoHandle, NoStream, NoContext,
  Classes,      \* set-information requests the applications send
  DocOptions,   \* values of FILE_DELETE_ON_CLOSE the applications pass
  MaxFailures   \* bound on injected allocation / query failures

ASSUME FiniteParts   == IsFiniteSet(Threads) /\ IsFiniteSet(Streams)
ASSUME NoneApart     == /\ NoHandle \notin Handles
                        /\ NoStream \notin Streams
                        /\ NoContext \notin Contexts
ASSUME ClassesKnown  == Classes \subseteq {"disposition", "onClose", "rename"}
ASSUME OptionsKnown  == DocOptions \subseteq BOOLEAN
ASSUME FailuresBound == MaxFailures \in Nat

VARIABLES
  (* the file system *)
  file,          \* life of each stream
  pending,       \* the stream is marked for deletion
  handle,        \* life of each file object
  target,        \* the stream a file object is open on
  docHandle,     \* the file object was opened delete-on-close
  (* the filter manager *)
  attached,      \* the stream context set on each stream
  refs,          \* reference count of each context; 0 is free memory
  (* CTX_STREAM_CONTEXT *)
  numOps, setDisp, deleteOnClose, isNotified,
  (* the IRP each thread is sending: where it is, what it asks for, on     *)
  (* which file object, its flag, and IrpContext->StreamContext            *)
  pc, op, hnd, flag, ctx,
  (* environment and history *)
  failures,      \* failures injected so far
  leaked,        \* references dropped without a release
  reports,       \* deletions of the stream processed by DfNotifyDelete
  why            \* what happened to the stream that detection may miss

fsVars    == <<file, pending, handle, target, docHandle>>
mgrVars   == <<attached, refs>>
fieldVars == <<numOps, setDisp, deleteOnClose, isNotified>>
irpVars   == <<pc, op, hnd, flag, ctx>>
histVars  == <<failures, leaked, reports, why>>
vars      == <<fsVars, mgrVars, fieldVars, irpVars, histVars>>

Dispositions == {"disposition", "onClose"}
Ops       == Dispositions \cup {"rename", "create", "cleanup", "close", "none"}
Locations == {"idle", "fsCreate", "getContext", "setContext", "retryContext",
              "contextReady",
              "fsSet", "postSet", "decrement", "fsCleanup", "readNumOps",
              "readFlags", "readNotified", "query", "notify", "fsClose",
              "release"}
Reasons   == {"race", "reopen", "clear", "blind", "error"}

(* The stream the IRP of thread t is for. *)
StreamOf(t) == target[hnd[t]]

(* Thread t goes on at location l. *)
Goto(t, l) == pc' = [pc EXCEPT ![t] = l]

(* Thread t starts an IRP on file object h. *)
Send(t, o, h, f) ==
  /\ pc[t] = "idle"
  /\ op' = [op EXCEPT ![t] = o]
  /\ hnd' = [hnd EXCEPT ![t] = h]
  /\ flag' = [flag EXCEPT ![t] = f]

(* The IRP of thread t is complete. *)
Complete(t) ==
  /\ Goto(t, "idle")
  /\ op' = [op EXCEPT ![t] = "none"]
  /\ hnd' = [hnd EXCEPT ![t] = NoHandle]
  /\ flag' = [flag EXCEPT ![t] = FALSE]

(* The file system returns the IRP of t: the post-operation callback runs  *)
(* at location l when the pre-operation callback left an IRP_CONTEXT.      *)
ReturnTo(t, l) ==
  IF ctx[t] = NoContext
  THEN Complete(t)
  ELSE Goto(t, l) /\ UNCHANGED <<op, hnd, flag>>

Continue(t, l) == Goto(t, l) /\ UNCHANGED <<op, hnd, flag, ctx>>

(* An external call fails; the number of such failures is bounded. *)
Fail == failures < MaxFailures /\ failures' = failures + 1

(* Stream s may escape detection because of r. *)
Blame(s, r) == why' = [why EXCEPT ![s] = @ \cup {r}]

(* CreateIrpContext has no memory: the IRP on stream s passes unseen. *)
Unseen(s) == Fail /\ Blame(s, "blind") /\ UNCHANGED <<refs, ctx>>

InUse(h)        == \E u \in Threads : hnd[u] = h
BeingCreated(h) == \E u \in Threads : hnd[u] = h /\ op[u] = "create"
OpenHandles(s)  == {h \in Handles : target[h] = s /\ handle[h] \in {"open", "closing"}}

Init ==
  /\ file = [s \in Streams |-> "absent"]
  /\ pending = [s \in Streams |-> FALSE]
  /\ handle = [h \in Handles |-> "none"]
  /\ target = [h \in Handles |-> NoStream]
  /\ docHandle = [h \in Handles |-> FALSE]
  /\ attached = [s \in Streams |-> NoContext]
  /\ refs = [c \in Contexts |-> 0]
  /\ numOps = [c \in Contexts |-> 0]
  /\ setDisp = [c \in Contexts |-> FALSE]
  /\ deleteOnClose = [c \in Contexts |-> FALSE]
  /\ isNotified = [c \in Contexts |-> 0]
  /\ pc = [t \in Threads |-> "idle"]
  /\ op = [t \in Threads |-> "none"]
  /\ hnd = [t \in Threads |-> NoHandle]
  /\ flag = [t \in Threads |-> FALSE]
  /\ ctx = [t \in Threads |-> NoContext]
  /\ failures = 0
  /\ leaked = [c \in Contexts |-> 0]
  /\ reports = [s \in Streams |-> 0]
  /\ why = [s \in Streams |-> {}]

-----------------------------------------------------------------------------
(* Stream contexts: contextMgr.cpp and the filter manager. *)

(* CtxAllocateContext: zeroed memory, one reference owned by the IRP of t. *)
CtxAllocateContext(t, c) ==
  /\ refs[c] = 0
  /\ refs' = [refs EXCEPT ![c] = 1]
  /\ numOps' = [numOps EXCEPT ![c] = 0]
  /\ setDisp' = [setDisp EXCEPT ![c] = FALSE]
  /\ deleteOnClose' = [deleteOnClose EXCEPT ![c] = FALSE]
  /\ isNotified' = [isNotified EXCEPT ![c] = 0]
  /\ ctx' = [ctx EXCEPT ![t] = c]

(* CtxGetContext: a reference to the stream's context, if it has one. *)
CtxGetContext(t, s) ==
  /\ ctx' = [ctx EXCEPT ![t] = attached[s]]
  /\ refs' = [c \in Contexts |-> IF c = attached[s] THEN refs[c] + 1 ELSE refs[c]]

(* The reference counts when the IRP of t swaps its own context, if it has *)
(* one, for a reference to context c.                                      *)
Swapped(t, c) ==
  [d \in Contexts |-> refs[d] + (IF d = c THEN 1 ELSE 0)
                              - (IF d = ctx[t] THEN 1 ELSE 0)]

(* CtxGetOrSetContext, first part: take the context of the stream, and     *)
(* release the one the caller brought; without one, go and set the         *)
(* caller's, or one allocated now.                                         *)
CtxGetOrSetContext_Get(t) ==
  LET s == StreamOf(t) IN
  /\ pc[t] = "getContext"
  /\ \/ /\ attached[s] # NoContext
        /\ refs' = Swapped(t, attached[s])
        /\ ctx' = [ctx EXCEPT ![t] = attached[s]]
        /\ Goto(t, "contextReady")
        /\ UNCHANGED fieldVars
     \/ /\ attached[s] = NoContext
        /\ Goto(t, "setContext")
        /\ IF ctx[t] = NoContext
           THEN \E c \in Contexts : CtxAllocateContext(t, c)
           ELSE UNCHANGED <<refs, ctx, fieldVars>>
  /\ UNCHANGED <<fsVars, attached, op, hnd, flag, histVars>>

(* Fault: the context that lost the race is not released. *)
SetContextKeepsLoser(t) ==
  LET s == StreamOf(t) IN
  /\ pc[t] = "setContext"
  /\ Goto(t, "contextReady")
  /\ \/ /\ attached[s] = NoContext
        /\ attached' = [attached EXCEPT ![s] = ctx[t]]
        /\ refs' = [refs EXCEPT ![ctx[t]] = @ + 1]
        /\ UNCHANGED ctx
     \/ /\ attached[s] # NoContext
        /\ refs' = [refs EXCEPT ![attached[s]] = @ + 1]
        /\ ctx' = [ctx EXCEPT ![t] = attached[s]]
        /\ UNCHANGED attached
  /\ UNCHANGED <<fsVars, fieldVars, op, hnd, flag, histVars>>

(* Fault: FLT_SET_CONTEXT_REPLACE_IF_EXISTS, the loser's context wins. *)
SetContextReplaces(t) ==
  LET s == StreamOf(t)  old == attached[s] IN
  /\ pc[t] = "setContext"
  /\ Goto(t, "contextReady")
  /\ attached' = [attached EXCEPT ![s] = ctx[t]]
  /\ refs' = [d \in Contexts |-> refs[d] + (IF d = ctx[t] THEN 1 ELSE 0)
                                         - (IF d = old THEN 1 ELSE 0)]
  /\ UNCHANGED <<fsVars, fieldVars, ctx, op, hnd, flag, histVars>>

(* CtxGetOrSetContext, second part: FltSetStreamContext with               *)
(* KEEP_IF_EXISTS, so the thread that loses the race uses the winner's.    *)
CtxGetOrSetContext_Set(t) ==
  LET s == StreamOf(t) IN
  /\ pc[t] = "setContext"
  /\ Goto(t, "contextReady")
  /\ \/ /\ attached[s] = NoContext
        /\ attached' = [attached EXCEPT ![s] = ctx[t]]
        /\ refs' = [refs EXCEPT ![ctx[t]] = @ + 1]
        /\ UNCHANGED ctx
     \/ /\ attached[s] # NoContext
        /\ refs' = Swapped(t, attached[s])
        /\ ctx' = [ctx EXCEPT ![t] = attached[s]]
        /\ UNCHANGED attached
  /\ UNCHANGED <<fsVars, fieldVars, op, hnd, flag, histVars>>

(* The context cannot be allocated or set: the caller's is                 *)
(* released.  Then post-create gives the stream up, and CreateIrpContext   *)
(* looks once more.                                                        *)
CtxGetOrSetContext_Fail(t) ==
  LET s == StreamOf(t) IN
  /\ pc[t] \in {"getContext", "setContext"}
  /\ Fail
  /\ refs' = [d \in Contexts |-> IF d = ctx[t] THEN refs[d] - 1 ELSE refs[d]]
  /\ ctx' = [ctx EXCEPT ![t] = NoContext]
  /\ IF op[t] = "create"
     THEN Blame(s, "blind") /\ Complete(t)
     ELSE Goto(t, "retryContext") /\ UNCHANGED <<why, op, hnd, flag>>
  /\ UNCHANGED <<fsVars, attached, fieldVars, leaked, reports>>

(* CreateIrpContext of a set-information IRP, line 80: a context another   *)
(* thread has set meanwhile will do; without one the IRP passes unseen.    *)
CreateIrpContext_Retry(t) ==
  LET s == StreamOf(t) IN
  /\ pc[t] = "retryContext"
  /\ CtxGetContext(t, s)
  /\ Goto(t, IF attached[s] = NoContext THEN "fsSet" ELSE "contextReady")
  /\ IF attached[s] = NoContext THEN Blame(s, "blind") ELSE UNCHANGED why
  /\ UNCHANGED <<fsVars, attached, fieldVars, op, hnd, flag,
                 failures, leaked, reports>>

(* CloseIrpContext: release the stream context, the IRP is done. *)
CloseIrpContext(t) ==
  /\ pc[t] = "release"
  /\ refs' = [refs EXCEPT ![ctx[t]] = @ - 1]
  /\ ctx' = [ctx EXCEPT ![t] = NoContext]
  /\ Complete(t)
  /\ UNCHANGED <<fsVars, attached, fieldVars, histVars>>

(* The filter manager drops the stream's context when the last file object *)
(* of the stream is gone and the file system tears the stream down.        *)
TeardownStream(s) ==
  /\ attached[s] # NoContext
  /\ \A h \in Handles : target[h] # s
  /\ attached' = [attached EXCEPT ![s] = NoContext]
  /\ refs' = [refs EXCEPT ![attached[s]] = @ - 1]
  /\ UNCHANGED <<fsVars, fieldVars, irpVars, histVars>>

-----------------------------------------------------------------------------
(* IRP_MJ_CREATE: fltCreateFile.cpp *)

(* WinIOPreCreate: CreateIrpContext allocates a stream context in advance; *)
(* when it cannot, there is no post-create callback.                       *)
WinIOPreCreate(t) ==
  \E h \in Handles, doc \in DocOptions :
    /\ handle[h] = "none" /\ ~InUse(h)
    /\ Send(t, "create", h, doc)
    /\ Goto(t, "fsCreate")
    /\ \/ /\ \E c \in Contexts : CtxAllocateContext(t, c)
          /\ UNCHANGED failures
       \/ Fail /\ UNCHANGED <<refs, fieldVars, ctx>>
    /\ UNCHANGED <<fsVars, attached, leaked, reports, why>>

(* The file system opens the live stream, or creates a new one; a stream   *)
(* marked for deletion cannot be opened.                                   *)
FsCreate(t) ==
  /\ pc[t] = "fsCreate"
  /\ \E s \in Streams :
       /\ \/ file[s] = "live" /\ ~pending[s] /\ UNCHANGED file
          \/ /\ \A r \in Streams : file[r] # "live"
             /\ file[s] = "absent"
             /\ file' = [file EXCEPT ![s] = "live"]
       /\ handle' = [handle EXCEPT ![hnd[t]] = "open"]
       /\ target' = [target EXCEPT ![hnd[t]] = s]
       /\ docHandle' = [docHandle EXCEPT ![hnd[t]] = flag[t]]
       /\ IF ctx[t] = NoContext THEN Blame(s, "blind") ELSE UNCHANGED why
  /\ ReturnTo(t, "getContext")
  /\ UNCHANGED <<pending, mgrVars, fieldVars, ctx, failures, leaked, reports>>

(* The create fails, and WinIOPostCreate only releases its context. *)
FsCreateFails(t) ==
  /\ pc[t] = "fsCreate"
  /\ ReturnTo(t, "release")
  /\ UNCHANGED <<fsVars, mgrVars, fieldVars, ctx, histVars>>

(* WinIOPostCreate, with the stream's context: DeleteOnClose becomes what  *)
(* this create asked for, whatever the creates before it had asked for.    *)
WinIOPostCreate(t) ==
  /\ pc[t] = "contextReady" /\ op[t] = "create"
  /\ deleteOnClose' = [deleteOnClose EXCEPT ![ctx[t]] = flag[t]]
  /\ IF deleteOnClose[ctx[t]] /\ ~flag[t]
     THEN Blame(StreamOf(t), "reopen")
     ELSE UNCHANGED why
  /\ Continue(t, "release")
  /\ UNCHANGED <<fsVars, mgrVars, numOps, setDisp, isNotified,
                 failures, leaked, reports>>

-----------------------------------------------------------------------------
(* IRP_MJ_SET_INFORMATION: fltSetInformation.cpp *)

(* WinIOPreSetInformation starts; CreateIrpContext looks for the context.  *)
WinIOPreSetInformation(t) ==
  \E h \in Handles, class \in Classes, f \in BOOLEAN :
    /\ handle[h] = "open" /\ ~BeingCreated(h)
    /\ Send(t, class, h, f)
    /\ \/ Goto(t, "getContext") /\ UNCHANGED <<refs, ctx, failures, why>>
       \/ Goto(t, "fsSet") /\ Unseen(target[h])
    /\ UNCHANGED <<fsVars, attached, fieldVars, leaked, reports>>

(* Fault: the second change in flight is not seen as a race, and not       *)
(* counted; its post-operation callback still runs.                        *)
PreDispositionCountsOne(t) ==
  /\ pc[t] = "contextReady" /\ op[t] \in Dispositions
  /\ numOps' = [numOps EXCEPT ![ctx[t]] = 1]
  /\ IF numOps[ctx[t]] > 0 THEN Blame(StreamOf(t), "race") ELSE UNCHANGED why
  /\ Continue(t, "fsSet")
  /\ UNCHANGED <<fsVars, mgrVars, setDisp, deleteOnClose, isNotified,
                 failures, leaked, reports>>

(* WinIOPreSetInformation of a disposition: NumOps counts the changes in   *)
(* flight; "race" is computed and then not used.                           *)
WinIOPreDisposition(t) ==
  /\ pc[t] = "contextReady" /\ op[t] \in Dispositions
  /\ numOps' = [numOps EXCEPT ![ctx[t]] = @ + 1]
  /\ IF numOps[ctx[t]] > 0 THEN Blame(StreamOf(t), "race") ELSE UNCHANGED why
  /\ Continue(t, "fsSet")
  /\ UNCHANGED <<fsVars, mgrVars, setDisp, deleteOnClose, isNotified,
                 failures, leaked, reports>>

(* WinIOPreSetInformation of a rename: when the destination name cannot be *)
(* queried CreateIrpContext frees the IRP_CONTEXT without releasing the    *)
(* stream context it took.                                                 *)
WinIOPreRename(t) ==
  /\ pc[t] = "contextReady" /\ op[t] = "rename"
  /\ Goto(t, "fsSet")
  /\ \/ UNCHANGED <<ctx, leaked, failures>>
     \/ /\ Fail
        /\ leaked' = [leaked EXCEPT ![ctx[t]] = @ + 1]
        /\ ctx' = [ctx EXCEPT ![t] = NoContext]
  /\ UNCHANGED <<fsVars, mgrVars, fieldVars, op, hnd, flag, reports, why>>

(* The file system carries the request out, unless the file object has     *)
(* been cleaned up meanwhile: a disposition marks the stream, an on-close  *)
(* disposition the file object.                                            *)
FsSetInformation(t) ==
  LET h == hnd[t] IN
  /\ pc[t] = "fsSet"
  /\ handle[h] \in {"open", "closing"}
  /\ pending' = IF op[t] = "disposition"
                THEN [pending EXCEPT ![target[h]] = flag[t]] ELSE pending
  /\ docHandle' = IF op[t] = "onClose"
                  THEN [docHandle EXCEPT ![h] = flag[t]] ELSE docHandle
  /\ ReturnTo(t, IF op[t] \in Dispositions THEN "postSet" ELSE "release")
  /\ UNCHANGED <<file, handle, target, mgrVars, fieldVars, ctx, histVars>>

FsSetInformationFails(t) ==
  /\ pc[t] = "fsSet"
  /\ ReturnTo(t, IF op[t] \in Dispositions THEN "decrement" ELSE "release")
  /\ UNCHANGED <<fsVars, mgrVars, fieldVars, ctx, histVars>>

(* WinIOPostSetInformation after a success records the new disposition. *)
WinIOPostSetInformation(t) ==
  LET c == ctx[t] IN
  /\ pc[t] = "postSet"
  /\ \/ /\ op[t] = "disposition"
        /\ setDisp' = [setDisp EXCEPT ![c] = flag[t]]
        /\ UNCHANGED <<deleteOnClose, why>>
     \/ /\ op[t] = "onClose"
        /\ deleteOnClose' = [deleteOnClose EXCEPT ![c] = flag[t]]
        /\ IF deleteOnClose[c] /\ ~flag[t]
           THEN Blame(StreamOf(t), "clear") ELSE UNCHANGED why
        /\ UNCHANGED setDisp
  /\ Continue(t, "decrement")
  /\ UNCHANGED <<fsVars, mgrVars, numOps, isNotified, failures, leaked, reports>>

(* WinIOPostSetInformation: the change is over, raced or not. *)
WinIOPostDecrement(t) ==
  /\ pc[t] = "decrement"
  /\ numOps' = [numOps EXCEPT ![ctx[t]] = @ - 1]
  /\ Continue(t, "release")
  /\ UNCHANGED <<fsVars, mgrVars, setDisp, deleteOnClose, isNotified, histVars>>

-----------------------------------------------------------------------------
(* IRP_MJ_CLEANUP: fltCleanup.cpp *)

(* The last handle to file object h is closed: WinIOPreCleanup.  Without a *)
(* context there is no callback after the file system's cleanup.           *)
WinIOPreCleanup(t) ==
  \E h \in Handles :
    /\ handle[h] = "open" /\ ~BeingCreated(h)
    /\ Send(t, "cleanup", h, FALSE)
    /\ handle' = [handle EXCEPT ![h] = "closing"]
    /\ \/ CtxGetContext(t, target[h]) /\ UNCHANGED <<failures, why>>
       \/ Unseen(target[h])
    /\ Goto(t, "fsCleanup")
    /\ UNCHANGED <<file, pending, target, docHandle, attached, fieldVars,
                   leaked, reports>>

(* The file system cleans the file object up.  One that is delete-on-close *)
(* marks the stream; the last one of a marked stream deletes it.           *)
FsCleanup(t) ==
  LET h == hnd[t]  s == target[h]  marked == pending[s] \/ docHandle[h] IN
  /\ pc[t] = "fsCleanup"
  /\ handle' = [handle EXCEPT ![h] = "cleaned"]
  /\ pending' = [pending EXCEPT ![s] = marked]
  /\ file' = IF marked /\ OpenHandles(s) = {h}
             THEN [file EXCEPT ![s] = "deleted"] ELSE file
  /\ ReturnTo(t, "readNumOps")
  /\ UNCHANGED <<target, docHandle, mgrVars, fieldVars, ctx, histVars>>

(* Fault: NumOps is not looked at. *)
NumOpsIgnored(t) ==
  /\ pc[t] = "readNumOps"
  /\ Continue(t, "readFlags")
  /\ UNCHANGED <<fsVars, mgrVars, fieldVars, histVars>>

(* Fault: DeleteOnClose is not looked at. *)
DeleteOnCloseIgnored(t) ==
  /\ pc[t] = "readFlags"
  /\ Continue(t, IF setDisp[ctx[t]] THEN "readNotified" ELSE "release")
  /\ UNCHANGED <<fsVars, mgrVars, fieldVars, histVars>>

(* WinIOPostCleanup, the test of line 91, operand by operand. *)
WinIOPostCleanup_NumOps(t) ==
  /\ pc[t] = "readNumOps"
  /\ Continue(t, IF numOps[ctx[t]] > 0 THEN "readNotified" ELSE "readFlags")
  /\ UNCHANGED <<fsVars, mgrVars, fieldVars, histVars>>

WinIOPostCleanup_Flags(t) ==
  /\ pc[t] = "readFlags"
  /\ Continue(t, IF setDisp[ctx[t]] \/ deleteOnClose[ctx[t]]
                 THEN "readNotified" ELSE "release")
  /\ UNCHANGED <<fsVars, mgrVars, fieldVars, histVars>>

WinIOPostCleanup_Notified(t) ==
  /\ pc[t] = "readNotified"
  /\ Continue(t, IF isNotified[ctx[t]] = 0 THEN "query" ELSE "release")
  /\ UNCHANGED <<fsVars, mgrVars, fieldVars, histVars>>

(* Fault: a deletion is notified whatever the query says. *)
QueryIgnored(t) ==
  /\ pc[t] = "query"
  /\ Continue(t, "notify")
  /\ UNCHANGED <<fsVars, mgrVars, fieldVars, histVars>>

(* FltQueryInformationFile says whether the stream is deleted, and         *)
(* DfProcessDelete asks again about the file; an error ends the check.     *)
DfProcessDelete(t) ==
  /\ pc[t] = "query"
  /\ \/ /\ Continue(t, IF file[StreamOf(t)] = "deleted" THEN "notify" ELSE "release")
        /\ UNCHANGED <<failures, why>>
     \/ /\ Fail
        /\ Blame(StreamOf(t), "error")
        /\ Continue(t, "release")
  /\ UNCHANGED <<fsVars, mgrVars, fieldVars, leaked, reports>>

(* Fault: IsNotified is set after the test of line 91 only. *)
NotifyUntested(t) ==
  /\ pc[t] = "notify"
  /\ isNotified' = [isNotified EXCEPT ![ctx[t]] = 1]
  /\ reports' = [reports EXCEPT ![StreamOf(t)] = @ + 1]
  /\ Continue(t, "release")
  /\ UNCHANGED <<fsVars, mgrVars, numOps, setDisp, deleteOnClose,
                 failures, leaked, why>>

(* DfNotifyDelete: the first one to increment IsNotified reports. *)
DfNotifyDelete(t) ==
  LET c == ctx[t] IN
  /\ pc[t] = "notify"
  /\ isNotified' = [isNotified EXCEPT ![c] = @ + 1]
  /\ reports' = IF isNotified'[c] > 1 THEN reports
                ELSE [reports EXCEPT ![StreamOf(t)] = @ + 1]
  /\ Continue(t, "release")
  /\ UNCHANGED <<fsVars, mgrVars, numOps, setDisp, deleteOnClose,
                 failures, leaked, why>>

-----------------------------------------------------------------------------
(* IRP_MJ_CLOSE: fltClose.cpp *)

(* The last reference to a cleaned-up file object goes away. *)
WinIOPreClose(t) ==
  \E h \in Handles :
    /\ handle[h] = "cleaned" /\ ~InUse(h)
    /\ Send(t, "close", h, FALSE)
    /\ CtxGetContext(t, target[h])
    /\ Goto(t, "fsClose")
    /\ UNCHANGED <<fsVars, attached, fieldVars, histVars>>

FsClose(t) ==
  LET h == hnd[t] IN
  /\ pc[t] = "fsClose"
  /\ handle' = [handle EXCEPT ![h] = "none"]
  /\ target' = [target EXCEPT ![h] = NoStream]
  /\ docHandle' = [docHandle EXCEPT ![h] = FALSE]
  /\ ReturnTo(t, "release")
  /\ UNCHANGED <<file, pending, mgrVars, fieldVars, ctx, histVars>>

-----------------------------------------------------------------------------
Create(t)  == \/ WinIOPreCreate(t) \/ FsCreate(t) \/ FsCreateFails(t)
              \/ WinIOPostCreate(t)
SetInfo(t) == \/ WinIOPreSetInformation(t) \/ WinIOPreDisposition(t)
              \/ WinIOPreRename(t) \/ FsSetInformation(t)
              \/ FsSetInformationFails(t) \/ WinIOPostSetInformation(t)
              \/ WinIOPostDecrement(t)
Cleanup(t) == \/ WinIOPreCleanup(t) \/ FsCleanup(t) \/ WinIOPostCleanup_NumOps(t)
              \/ WinIOPostCleanup_Flags(t) \/ WinIOPostCleanup_Notified(t)
              \/ DfProcessDelete(t) \/ DfNotifyDelete(t)
Close(t)   == WinIOPreClose(t) \/ FsClose(t)
Context(t) == \/ CtxGetOrSetContext_Get(t) \/ CtxGetOrSetContext_Set(t)
              \/ CtxGetOrSetContext_Fail(t) \/ CreateIrpContext_Retry(t)
              \/ CloseIrpContext(t)

Step(t) == Create(t) \/ SetInfo(t) \/ Cleanup(t) \/ Close(t) \/ Context(t)

Next == \/ \E t \in Threads : Step(t)
        \/ \E s \in Streams : TeardownStream(s)

Spec == Init /\ [][Next]_vars

(* An IRP that has been sent is carried through; nobody has to send one. *)
Carry(t) == /\ pc[t] # "idle"
            /\ Step(t)
FairSpec == Spec /\ \A t \in Threads : WF_vars(Carry(t))

-----------------------------------------------------------------------------
(* Type invariant: every field of a stream context keeps its type; NumOps  *)
(* and the reference count never go below zero.                            *)
TypeOK ==
  /\ file \in [Streams -> {"absent", "live", "deleted"}]
  /\ pending \in [Streams -> BOOLEAN]
  /\ handle \in [Handles -> {"none", "open", "closing", "cleaned"}]
  /\ target \in [Handles -> Streams \cup {NoStream}]
  /\ docHandle \in [Handles -> BOOLEAN]
  /\ attached \in [Streams -> Contexts \cup {NoContext}]
  /\ refs \in [Contexts -> Nat]
  /\ numOps \in [Contexts -> Nat]
  /\ setDisp \in [Contexts -> BOOLEAN]
  /\ deleteOnClose \in [Contexts -> BOOLEAN]
  /\ isNotified \in [Contexts -> Nat]
  /\ pc \in [Threads -> Locations]
  /\ op \in [Threads -> Ops]
  /\ hnd \in [Threads -> Handles \cup {NoHandle}]
  /\ flag \in [Threads -> BOOLEAN]
  /\ ctx \in [Threads -> Contexts \cup {NoContext}]
  /\ failures \in 0 .. MaxFailures
  /\ leaked \in [Contexts -> Nat]
  /\ reports \in [Streams -> Nat]
  /\ why \in [Streams -> SUBSET Reasons]

Holders(c)     == {t \in Threads : ctx[t] = c}
Attachments(c) == {s \in Streams : attached[s] = c}
ChangesInFlight(c) == {t \in Holders(c) : /\ op[t] \in Dispositions
                                         /\ pc[t] \in {"fsSet", "postSet", "decrement"}}

(* Every reference to a stream context is the stream's, an IRP's or a      *)
(* leaked one: CtxGetOrSetContext, CloseIrpContext and the error paths     *)
(* neither free a context in use nor keep one nobody uses, except for the  *)
(* rename whose destination name cannot be queried.                        *)
RefsExact ==
  \A c \in Contexts : refs[c] = Cardinality(Holders(c))
                                + Cardinality(Attachments(c)) + leaked[c]

(* NumOps is the number of disposition changes between their increment in  *)
(* the pre-operation and their decrement in the post-operation callback.   *)
NumOpsExact ==
  \A c \in Contexts : refs[c] > 0 => numOps[c] = Cardinality(ChangesInFlight(c))

(* All the callbacks of one stream work on one context, whichever of the   *)
(* threads that race in CtxGetOrSetContext has set it, and no two streams  *)
(* share one.                                                              *)
OneContextPerStream ==
  /\ \A t \in Threads :
       /\ ctx[t] # NoContext
       /\ pc[t] \notin {"fsCreate", "getContext", "setContext", "release"}
       => attached[StreamOf(t)] = ctx[t]
  /\ \A s, r \in Streams :
       attached[s] = attached[r] /\ attached[s] # NoContext => s = r

(* A stream is reported deleted only if it is, and only once, however many *)
(* cleanups see the deletion.                                              *)
ReportedOnce ==
  \A s \in Streams : /\ reports[s] <= 1
                     /\ reports[s] = 1 => file[s] = "deleted"

(* No IRP of the stream is in flight. *)
Quiet(s) == \A t \in Threads : hnd[t] # NoHandle => StreamOf(t) # s

(* A deletion goes unreported only after two disposition changes raced, a  *)
(* later create or on-close change reset DeleteOnClose, or a call failed.  *)
MissExplained ==
  \A s \in Streams :
    file[s] = "deleted" /\ Quiet(s) /\ why[s] = {} => reports[s] = 1

(* Every deletion is reported in the end, or one of those is the reason. *)
EventuallyReported ==
  \A s \in Streams :
    file[s] = "deleted" ~> reports[s] = 1 \/ why[s] # {}

(* The detector implements its promise: what it reports is a deletion that *)
(* has happened and has not been reported, whichever callbacks interleave. *)
Promise == INSTANCE DeletionReports
             WITH life <- file, told <- reports,
                  excused <- [s \in Streams |-> why[s] # {}]
PromiseKept == Promise!Spec

-----------------------------------------------------------------------------
(* The inductive invariant: where an IRP is says what it holds. *)

WithContext == {"setContext", "contextReady", "postSet", "decrement", "readNumOps",
                "readFlags", "readNotified", "query", "notify", "release"}
Unsettled   == {"fsCreate", "getContext", "setContext"}

(* An IRP has a file object and, once it has been given one, a context;    *)
(* only disposition changes reach the end of WinIOPostSetInformation.      *)
IrpShape ==
  \A t \in Threads :
    /\ pc[t] \in {"idle", "retryContext"} => ctx[t] = NoContext
    /\ pc[t] = "idle" <=> hnd[t] = NoHandle
    /\ pc[t] \in WithContext => ctx[t] # NoContext
    /\ pc[t] \in {"postSet", "decrement"} => op[t] \in Dispositions
    /\ pc[t] = "fsCreate" => op[t] = "create"

(* A file object is on a stream while it exists; it exists while the file  *)
(* system serves an IRP on it, and is nobody else's in create and close.   *)
HandleShape ==
  /\ \A h \in Handles : handle[h] = "none" <=> target[h] = NoStream
  /\ \A h \in Handles : handle[h] \in {"open", "closing"} => file[target[h]] = "live"
  /\ \A t \in Threads :
       /\ pc[t] \notin {"idle", "fsCreate", "release"} => target[hnd[t]] # NoStream
       /\ pc[t] = "fsCreate" => target[hnd[t]] = NoStream
       /\ pc[t] \in {"fsCreate", "fsClose"}
          => \A u \in Threads \ {t} : hnd[u] # hnd[t]
       /\ pc[t] = "fsClose" => handle[hnd[t]] = "cleaned"
       /\ pc[t] = "fsCleanup"
          => /\ handle[hnd[t]] = "closing"
             /\ \A u \in Threads \ {t} : pc[u] = "fsCleanup" => hnd[u] # hnd[t]

(* Until it is set on the stream, an allocated context is its IRP's alone. *)
PrivateContext ==
  \A t \in Threads :
    pc[t] \in Unsettled /\ ctx[t] # NoContext
    => /\ \A s \in Streams : attached[s] # ctx[t]
       /\ \A u \in Threads \ {t} : ctx[u] # ctx[t]

(* A reported stream is marked so in its context until it is torn down.    *)
ReportsTracked ==
  /\ \A t \in Threads : pc[t] = "notify" => file[StreamOf(t)] = "deleted"
  /\ \A s \in Streams :
       reports[s] > 0 => IF attached[s] # NoContext
                         THEN isNotified[attached[s]] > 0
                         ELSE \A h \in Handles : target[h] # s

-----------------------------------------------------------------------------
(* Why a deletion is not missed: as long as nothing has happened to stream *)
(* s that detection may miss, its context tells what the file system has   *)
(* been asked to do to it.                                                 *)
Watched(s) == why[s] = {}

(* Disposition changes of context c that the file system has carried out   *)
(* and the post-operation callback has not recorded yet.                   *)
Unrecorded(c) == {t \in Holders(c) : pc[t] = "postSet"}

(* WinIOPostCleanup will see that the stream of context c may be deleted:  *)
(* in a flag that no change is about to withdraw, or by a change to come.  *)
Flagged(c) ==
  \/ deleteOnClose[c]
  \/ \E t \in Unrecorded(c) : flag[t]
  \/ /\ setDisp[c]
     /\ \A t \in Unrecorded(c) : op[t] = "disposition" => flag[t]

(* Nobody else uses a file object while its create is in flight. *)
CreatorAlone ==
  \A t \in Threads :
    op[t] = "create"
    => hnd[t] # NoHandle /\ \A u \in Threads \ {t} : hnd[u] # hnd[t]

(* A watched stream gets its context with its first file object; IRPs that *)
(* mark it, and cleanups that delete it, carry that context.               *)
ContextSeen ==
  /\ \A h \in Handles :
       /\ target[h] # NoStream
       /\ Watched(target[h])
       /\ attached[target[h]] = NoContext
       => \E t \in Threads : /\ hnd[t] = h /\ op[t] = "create"
                             /\ pc[t] \in {"getContext", "setContext"}
  /\ \A t \in Threads :
       /\ ctx[t] = NoContext
       /\ pc[t] = "fsCleanup" \/ (pc[t] = "fsSet" /\ op[t] \in Dispositions)
       => ~Watched(StreamOf(t))

(* The disposition changes of a watched stream do not overlap. *)
OneChange ==
  \A s \in Streams :
    Watched(s) /\ attached[s] # NoContext
    => \A t, u \in ChangesInFlight(attached[s]) : t = u

(* A delete-on-close file object shows in the context of a watched stream, *)
(* or its create or its on-close change is about to show it.               *)
DocHandleSeen ==
  \A h \in Handles :
    docHandle[h]
    => /\ target[h] # NoStream
       /\ Watched(target[h])
          => \/ \E t \in Threads :
                  /\ hnd[t] = h /\ op[t] = "create" /\ flag[t]
                  /\ pc[t] \in {"getContext", "setContext", "contextReady"}
             \/ /\ attached[target[h]] # NoContext
                /\ \/ deleteOnClose[attached[target[h]]]
                   \/ \E t \in Unrecorded(attached[target[h]]) :
                        op[t] = "onClose" /\ flag[t]

(* So does the mark of a stream that is still referenced.                  *)
PendingSeen ==
  \A h \in Handles :
    /\ target[h] # NoStream
    /\ Watched(target[h]) /\ pending[target[h]]
    => attached[target[h]] # NoContext /\ Flagged(attached[target[h]])

(* A stream is marked before it is deleted, and not before it exists.      *)
MarkedLife ==
  \A s \in Streams : /\ file[s] = "deleted" => pending[s]
                     /\ file[s] = "absent" => ~pending[s]

(* IsNotified is set by a report only. *)
NotifiedReported ==
  /\ \A s \in Streams : attached[s] # NoContext /\ isNotified[attached[s]] > 0
                         => reports[s] > 0
  /\ \A t \in Threads : pc[t] \in Unsettled /\ ctx[t] # NoContext
                         => isNotified[ctx[t]] = 0

(* Thread t is in WinIOPostCleanup and will report the deletion of stream  *)
(* s: past the test of NumOps, no change is left that could still reset    *)
(* the flag that the test of the flags is going to find.                   *)
Chases(t, s) ==
  /\ hnd[t] # NoHandle /\ StreamOf(t) = s
  /\ \/ pc[t] \in {"readNumOps", "readNotified", "query", "notify"}
     \/ pc[t] = "readFlags" /\ Unrecorded(ctx[t]) = {}

(* A watched stream that is deleted is reported or about to be. *)
DeletionChased ==
  \A s \in Streams :
    file[s] = "deleted" /\ Watched(s) /\ reports[s] = 0
    => \E t \in Threads : Chases(t, s)

Inv == /\ TypeOK /\ IrpShape /\ HandleShape
       /\ RefsExact /\ NumOpsExact
       /\ PrivateContext /\ OneContextPerStream
       /\ ReportedOnce /\ ReportsTracked
       /\ CreatorAlone /\ ContextSeen /\ OneChange
       /\ DocHandleSeen /\ PendingSeen /\ MarkedLife
       /\ NotifiedReported /\ DeletionChased

-----------------------------------------------------------------------------
(* fltSetInformation.cpp:155 says that SetDisp needs no synchronization,   *)
(* "because in case of races, the NumOps field will be perpetually         *)
(* positive": a file whose disposition changes raced is checked anyway.    *)
RacedIsChecked ==
  \A s \in Streams :
    file[s] = "deleted" /\ Quiet(s) /\ why[s] \subseteq {"race"} => reports[s] = 1

=============================================================================
