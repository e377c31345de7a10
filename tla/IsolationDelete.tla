--------------------------- MODULE IsolationDelete ---------------------------
(***************************************************************************)
(* Delete detection in the isolation driver (src/sys-isolation): files the *)
(* driver leaves to the file system, their alternate streams, the query    *)
(* that tells a deleted stream from a deleted file (detectDelete.cpp), and *)
(* the end of a transaction.  Unlike the monitor driver's (DeleteDetect),  *)
(* a stream context exists only once a stream was opened delete-on-close.  *)
(*                                                                         *)
(* One file; every handle is opened once and belongs to one stream.        *)
(***************************************************************************)
EXTENDS Naturals, Sequences, FiniteSets, SequencesExt

CONSTANTS
    Handles, Streams,
    Main,            \* the unnamed data stream
    ReFS,            \* VolumeFileSystemType is FLT_FSTYPE_REFS
    Transacted,      \* a handle may be opened in a transaction
    InstanceGiven,   \* CreateIrpContext has an instance context for ordinary files
    Classes,         \* set-information requests sent
    MaxChanges,      \* bound: set-information requests
    MaxFailures      \* bound: calls that fail

ASSUME IsoDeleteAssumption ==
    /\ IsFiniteSet(Handles) /\ IsFiniteSet(Streams) /\ Main \in Streams
    /\ {ReFS, Transacted, InstanceGiven} \subseteq BOOLEAN
    /\ Classes \subseteq {"disposition", "onClose"} /\ MaxChanges \in Nat /\ MaxFailures \in Nat

VARIABLES
    gone, pending, doc,              \* the file system: streams deleted, marked; handles delete-on-close
    has,                             \* streams with a stream context
    NumOps, SetDisp, DeleteOnClose, IsNotified,
    pc, stream, inTx,                \* each handle: its step, stream, transaction
    change,                          \* the disposition change in flight, and if it has a post-operation
    isFile,                          \* what SolIfFileDeleted answered
    brought,                         \* the context pre-create handed over
    tx, txContext, DeleteNotifyList, \* the transaction and its context
    guidCached,                      \* InstanceContext->VolumeGUIDName is set
    String,                          \* the file id string, as SolFreeUnicodeString last found it
    crashed, changes, failures,
    queued,                          \* deletions in the notify queue
    calls, falseCalls,               \* history: NotifyEventFileDeleteTo by stream; with the file alive
    causes, overlap, misled          \* history: events a deletion may be missed, doubled or imagined for

fsVars == << gone, pending, doc >>
ctxVars == << has, NumOps, SetDisp, DeleteOnClose, IsNotified >>
handleVars == << stream, inTx, change, isFile, brought >>
txVars == << tx, txContext, DeleteNotifyList >>
askVars == << guidCached, String, crashed >>
noteVars == << queued, calls, falseCalls, overlap, misled >>
outVars == << noteVars, causes >>
vars == << fsVars, ctxVars, pc, handleVars, txVars, askVars, changes, failures, outVars >>

Idle == [class |-> "none", delete |-> FALSE, post |-> FALSE]
Causes == {"unseen", "sibling", "clear", "error", "kept"}

TypeOK ==
    /\ gone \in [Streams -> {"no", "tx", "plain"}]
    /\ pending \in [Streams -> BOOLEAN] /\ doc \in [Handles -> BOOLEAN]
    /\ has \in [Streams -> BOOLEAN] /\ NumOps \in [Streams -> Nat]
    /\ SetDisp \in [Streams -> BOOLEAN] /\ DeleteOnClose \in [Streams -> BOOLEAN]
    /\ IsNotified \in [Streams -> Nat]
    /\ pc \in [Handles -> {"unused", "create", "open", "fsSet", "postSet", "decrement", "test",
                           "query", "context", "ask", "byId", "notify", "closed"}]
    /\ stream \in [Handles -> Streams] /\ inTx \in [Handles -> BOOLEAN]
    /\ change \in [Handles -> [class : Classes \cup {"none"}, delete : BOOLEAN, post : BOOLEAN]]
    /\ isFile \in [Handles -> BOOLEAN] /\ brought \in [Handles -> BOOLEAN]
    /\ tx \in {"open", "committing", "rollingBack", "over"}
    /\ txContext \in {"none", "attached", "enlisted", "freed"}
    /\ DeleteNotifyList \in Seq(Streams)
    /\ guidCached \in BOOLEAN /\ String \in {"none", "unset", "empty", "allocated", "freed"}
    /\ crashed \in BOOLEAN /\ changes \in 0..MaxChanges /\ failures \in 0..MaxFailures
    /\ queued \in Nat /\ calls \in [Streams -> Nat] /\ falseCalls \in Nat
    /\ causes \subseteq Causes /\ overlap \in BOOLEAN /\ misled \in BOOLEAN

Init ==
    /\ gone = [s \in Streams |-> "no"] /\ pending = [s \in Streams |-> FALSE]
    /\ doc = [h \in Handles |-> FALSE]
    /\ has = [s \in Streams |-> FALSE] /\ NumOps = [s \in Streams |-> 0]
    /\ SetDisp = [s \in Streams |-> FALSE] /\ DeleteOnClose = [s \in Streams |-> FALSE]
    /\ IsNotified = [s \in Streams |-> 0]
    /\ pc = [h \in Handles |-> "unused"] /\ stream = [h \in Handles |-> Main]
    /\ inTx = [h \in Handles |-> FALSE] /\ change = [h \in Handles |-> Idle]
    /\ isFile = [h \in Handles |-> FALSE] /\ brought = [h \in Handles |-> FALSE]
    /\ tx = "open" /\ txContext = "none" /\ DeleteNotifyList = << >>
    /\ guidCached = FALSE /\ String = "none" /\ crashed = FALSE /\ changes = 0 /\ failures = 0
    /\ queued = 0 /\ calls = [s \in Streams |-> 0] /\ falseCalls = 0
    /\ causes = {} /\ overlap = FALSE /\ misled = FALSE

Goto(h, l) == pc' = [pc EXCEPT ![h] = l]
Fail == failures < MaxFailures /\ failures' = failures + 1
Blame(c) == causes' = causes \cup {c}
NoBlame == UNCHANGED causes

Opened(s) == {h \in Handles : stream[h] = s /\ pc[h] \in {"create", "open", "fsSet", "postSet", "decrement"}}
OpenedFile == UNION {Opened(s) : s \in Streams}

\* What a query on a handle sees: a deletion in the transaction shows in it only.
DeletedFor(h, s) == gone[s] = "plain" \/ (gone[s] = "tx" /\ inTx[h])

-----------------------------------------------------------------------------
(* CreateIrpContext: its test for the instance context is inverted, so     *)
(* that an ordinary file's IRP would reference a null one.                 *)
CreateIrpContext == IF InstanceGiven THEN UNCHANGED crashed ELSE crashed' = TRUE

(* FilterPreCreate and the file system's create.  Only an open with        *)
(* FILE_DELETE_ON_CLOSE gets a stream context, and a post-operation.       *)
FilterPreCreate(h, s, d, t) ==
    /\ pc[h] = "unused" /\ gone[s] = "no" /\ ~pending[s] /\ ~pending[Main]
    /\ t => (Transacted /\ tx = "open")
    /\ CreateIrpContext
    /\ stream' = [stream EXCEPT ![h] = s] /\ inTx' = [inTx EXCEPT ![h] = t]
    /\ doc' = [doc EXCEPT ![h] = d]
    /\ \/ brought' = [brought EXCEPT ![h] = d] /\ UNCHANGED failures
       \/ d /\ Fail /\ UNCHANGED brought
    /\ Goto(h, IF d THEN "create" ELSE "open")
    /\ UNCHANGED << gone, pending, ctxVars, change, isFile, txVars, guidCached, String, outVars, changes >>

(* FilterPostCreate with CtxGetOrSetContext: the attached context, the one *)
(* brought, or one allocated now.                                          *)
FilterPostCreate(h) ==
    LET s == stream[h] IN
    /\ pc[h] = "create" /\ Goto(h, "open")
    /\ \/ /\ has' = [has EXCEPT ![s] = TRUE]
          /\ DeleteOnClose' = [DeleteOnClose EXCEPT ![s] = TRUE]
          /\ NoBlame /\ UNCHANGED failures
       \/ Fail /\ Blame("unseen") /\ UNCHANGED << has, DeleteOnClose >>
    /\ UNCHANGED << fsVars, NumOps, SetDisp, IsNotified, handleVars, txVars, askVars, noteVars, changes >>

-----------------------------------------------------------------------------
(* Set-information. *)

(* FilterPreSetInformation, an ordinary file: a stream without context is  *)
(* let through; of racing changes only the first gets a post-operation.    *)
FilterPreSetInformation(h, class, f) ==
    LET s == stream[h]  race == NumOps[s] > 0 IN
    /\ pc[h] = "open"
    /\ changes < MaxChanges /\ changes' = changes + 1
    /\ CreateIrpContext
    /\ change' = [change EXCEPT ![h] = [class |-> class, delete |-> f, post |-> has[s] /\ ~race]]
    /\ NumOps' = [NumOps EXCEPT ![s] = IF has[s] THEN @ + 1 ELSE @]
    /\ IF f /\ ~has[s] THEN Blame("unseen") ELSE NoBlame
    /\ Goto(h, "fsSet")
    /\ UNCHANGED << fsVars, has, SetDisp, DeleteOnClose, IsNotified, stream, inTx, isFile, brought, txVars, guidCached, String, failures, noteVars >>

FsSetInformation(h) ==
    LET s == stream[h]  f == change[h].delete IN
    /\ pc[h] = "fsSet"
    /\ \/ /\ UNCHANGED failures /\ Goto(h, IF change[h].post THEN "postSet" ELSE "open")
          /\ IF change[h].class = "disposition"
               THEN pending' = [pending EXCEPT ![s] = f] /\ UNCHANGED doc
               ELSE doc' = [doc EXCEPT ![h] = f] /\ UNCHANGED pending
       \/ /\ Fail /\ Goto(h, IF change[h].post THEN "decrement" ELSE "open")
          /\ UNCHANGED << pending, doc >>
    /\ change' = [change EXCEPT ![h] = IF @.post THEN @ ELSE Idle]
    /\ UNCHANGED << gone, ctxVars, stream, inTx, isFile, brought, txVars, askVars, outVars, changes >>

(* FilterPostSetInformation: the flag of the stream follows the last       *)
(* change, of whichever handle, though another handle may still be         *)
(* delete-on-close, or may have marked the stream as it was closed.        *)
FilterPostSetInformation(h) ==
    LET s == stream[h]  f == change[h].delete IN
    /\ pc[h] = "postSet" /\ Goto(h, "decrement")
    /\ IF change[h].class = "onClose"
         THEN /\ DeleteOnClose' = [DeleteOnClose EXCEPT ![s] = f] /\ UNCHANGED SetDisp
              /\ IF ~f /\ ((\E g \in Opened(s) \ {h} : doc[g]) \/ (pending[s] /\ ~SetDisp[s]))
                   THEN Blame("clear") ELSE NoBlame
         ELSE SetDisp' = [SetDisp EXCEPT ![s] = f] /\ UNCHANGED << DeleteOnClose, causes >>
    /\ UNCHANGED << fsVars, has, NumOps, IsNotified, handleVars, txVars, askVars, failures, noteVars, changes >>

DecrementNumOps(h) ==
    /\ pc[h] = "decrement" /\ Goto(h, "open")
    /\ NumOps' = [NumOps EXCEPT ![stream[h]] = @ - 1]
    /\ change' = [change EXCEPT ![h] = Idle]
    /\ UNCHANGED << fsVars, has, SetDisp, DeleteOnClose, IsNotified, stream, inTx, isFile, brought, txVars, askVars, failures, outVars, changes >>

-----------------------------------------------------------------------------
(* Cleanup. *)

(* FilterPreCleanup, and the file system's cleanup: the last handle of a   *)
(* marked alternate stream deletes it, the last handle of the file deletes *)
(* a file whose main stream is marked, with all its streams.               *)
FilterPreCleanup(h) ==
    LET s      == stream[h]
        marked == [pending EXCEPT ![s] = @ \/ doc[h]]
        how    == IF inTx[h] /\ tx = "open" THEN "tx" ELSE "plain"
        file   == marked[Main] /\ OpenedFile = {h} /\ gone[Main] = "no"
        alone  == marked[s] /\ s # Main /\ Opened(s) = {h} /\ gone[s] = "no"
    IN  /\ pc[h] = "open"
        /\ CreateIrpContext
        /\ pending' = marked
        /\ gone' = [r \in Streams |-> IF gone[r] = "no" /\ (file \/ (alone /\ r = s)) THEN how ELSE gone[r]]
        /\ IF file /\ s # Main THEN Blame("sibling") ELSE NoBlame
        /\ overlap' = (overlap \/ (file /\ \E g \in Handles : stream[g] # s /\ pc[g] \in {"test", "query", "context", "ask", "byId"}))
        /\ Goto(h, IF has[s] THEN "test" ELSE "closed")
        /\ UNCHANGED << doc, ctxVars, handleVars, txVars, guidCached, String, failures, queued, calls, falseCalls, misled, changes >>

(* Fault: only the last disposition seen makes a candidate. *)
TestSetDispOnly(h) ==
    LET s == stream[h] IN
    /\ pc[h] = "test"
    /\ Goto(h, IF SetDisp[s] /\ IsNotified[s] = 0 THEN "query" ELSE "closed")
    /\ IF IsNotified[s] > 0 /\ Contains(DeleteNotifyList, s) THEN Blame("kept") ELSE NoBlame
    /\ UNCHANGED << fsVars, ctxVars, handleVars, txVars, askVars, failures, noteVars, changes >>

(* FilterPostCleanup: is the stream a candidate, and not reported yet? *)
FilterPostCleanup(h) ==
    LET s == stream[h] IN
    /\ pc[h] = "test"
    /\ Goto(h, IF (NumOps[s] > 0 \/ SetDisp[s] \/ DeleteOnClose[s]) /\ IsNotified[s] = 0
               THEN "query" ELSE "closed")
    /\ IF IsNotified[s] > 0 /\ Contains(DeleteNotifyList, s) THEN Blame("kept") ELSE NoBlame
    /\ UNCHANGED << fsVars, ctxVars, handleVars, txVars, askVars, failures, noteVars, changes >>

(* Its query of FileStandardInformation. *)
QueryDeleted(h) ==
    /\ pc[h] = "query"
    /\ \/ /\ Goto(h, IF ~DeletedFor(h, stream[h]) THEN "closed" ELSE IF inTx[h] THEN "context" ELSE "ask")
          /\ NoBlame /\ UNCHANGED failures
       \/ Fail /\ Blame("error") /\ Goto(h, "closed")
    /\ UNCHANGED << fsVars, ctxVars, handleVars, txVars, askVars, noteVars, changes >>

(* SolProcessDelete in a transaction: CtxGetOrSetContext attaches the      *)
(* context and enlists; an enlistment refused leaves it attached.          *)
GetTransactionContext(h) ==
    /\ pc[h] = "context"
    /\ \/ /\ txContext \in {"attached", "enlisted"}
          /\ Goto(h, "ask") /\ NoBlame /\ UNCHANGED << txContext, failures >>
       \/ /\ txContext = "none" /\ tx = "open"
          /\ txContext' = "enlisted" /\ Goto(h, "ask") /\ NoBlame /\ UNCHANGED failures
       \/ /\ txContext = "none" /\ txContext' \in {"none", "attached"}
          /\ Fail /\ Goto(h, "closed") /\ Blame("error")
       \/ /\ txContext # "enlisted" /\ tx # "open"
          /\ Goto(h, "closed") /\ Blame("error") /\ UNCHANGED << txContext, failures >>
    /\ UNCHANGED << fsVars, ctxVars, handleVars, tx, DeleteNotifyList, askVars, noteVars, changes >>

-----------------------------------------------------------------------------
(* SolIfFileDeleted: is it the whole file? *)

\* SolIfFileDeleted ends: the file is deleted, it is not, or nobody knows.
Answer(h, deleted) ==
    isFile' = [isFile EXCEPT ![h] = deleted] /\ Goto(h, "notify") /\ NoBlame
GiveUp(h) == Goto(h, "closed") /\ Blame("error") /\ UNCHANGED isFile

(* FSCTL_GET_OBJECT_ID, outside transactions and not on ReFS. *)
SolIfFileDeleted(h) ==
    /\ pc[h] = "ask"
    /\ IF ReFS \/ inTx[h]
         THEN Goto(h, "byId") /\ UNCHANGED << isFile, causes, failures >>
         ELSE \/ Answer(h, gone[Main] = "plain") /\ UNCHANGED failures
              \/ Fail /\ GiveUp(h)
    /\ UNCHANGED << fsVars, ctxVars, stream, inTx, change, brought, txVars, askVars, noteVars, changes >>

(* SolFreeUnicodeString on a string in a given state.  One that was never  *)
(* set up holds whatever was on the stack: a bad pointer is freed, or none. *)
SolFreeUnicodeString(state) ==
    /\ String' = state
    /\ IF state = "unset" THEN crashed' \in BOOLEAN ELSE UNCHANGED crashed

(* SolGetFileId: the id is only asked for now, of a deleted stream; the    *)
(* file system may refuse with STATUS_FILE_DELETED, which is taken to mean *)
(* the file, or fail.  SolDetectDeleteByFileId frees the string it never   *)
(* set up.                                                                 *)
SolGetFileId(h) ==
    /\ pc[h] = "byId" /\ SolFreeUnicodeString("unset") /\ UNCHANGED guidCached
    /\ \/ /\ Answer(h, TRUE) /\ misled' = (misled \/ ~DeletedFor(h, Main)) /\ UNCHANGED failures
       \/ Fail /\ GiveUp(h) /\ UNCHANGED misled
    /\ UNCHANGED << fsVars, ctxVars, stream, inTx, change, brought, txVars, queued, calls, falseCalls, overlap, changes >>

(* SolGetVolumeGuidName: cached in the instance context by whoever first    *)
(* gets it; it can fail only until then.                                   *)
SolGetVolumeGuidName(ok) ==
    /\ ok \/ ~guidCached
    /\ guidCached' = ok

(* SolBuildFileIdString, with the id: no memory for the string, or no      *)
(* volume name while none is cached, and then the string is freed here and *)
(* once more by the caller.                                                *)
SolBuildFileIdString(h) ==
    /\ pc[h] = "byId" /\ Fail /\ GiveUp(h)
    /\ \/ SolFreeUnicodeString("empty") /\ UNCHANGED guidCached
       \/ SolGetVolumeGuidName(FALSE) /\ SolFreeUnicodeString("freed")
    /\ UNCHANGED << fsVars, ctxVars, stream, inTx, change, brought, txVars, noteVars, changes >>

(* SolDetectDeleteByFileId opens the file by its id: it is gone, it is     *)
(* marked for deletion, it is there, or the open fails.                    *)
SolDetectDeleteByFileId(h) ==
    /\ pc[h] = "byId" /\ SolFreeUnicodeString("allocated") /\ SolGetVolumeGuidName(TRUE)
    /\ \/ Answer(h, DeletedFor(h, Main)) /\ UNCHANGED failures
       \/ Fail /\ GiveUp(h)
    /\ UNCHANGED << fsVars, ctxVars, stream, inTx, change, brought, txVars, noteVars, changes >>

-----------------------------------------------------------------------------
(* SolNotifyDelete and the end of the transaction. *)

Packet == "null"   \* NotifyEventFileDeleteTo declares it and never allocates its buffer

(* NotifyEventFileDeleteTo: a packet without a buffer is out of memory. *)
NotifyEventFileDeleteTo(s) ==
    /\ calls' = [calls EXCEPT ![s] = @ + 1]
    /\ falseCalls' = falseCalls + IF gone[Main] = "no" THEN 1 ELSE 0
    /\ queued' = IF Packet = "null" THEN queued ELSE queued + 1

(* Fault: the increment does not decide who notifies. *)
NotifyWithoutIncrement(h) ==
    LET s == stream[h] IN
    /\ pc[h] = "notify" /\ Goto(h, "closed")
    /\ IsNotified' = [IsNotified EXCEPT ![s] = @ + 1]
    /\ IF isFile[h] /\ ~inTx[h]
         THEN NotifyEventFileDeleteTo(s) /\ UNCHANGED << DeleteNotifyList, causes, failures >>
         ELSE UNCHANGED << calls, falseCalls, queued, DeleteNotifyList, causes, failures >>
    /\ UNCHANGED << fsVars, has, NumOps, SetDisp, DeleteOnClose, handleVars, tx, txContext, askVars, overlap, misled, changes >>

(* SolAddTransDeleteNotify: an entry for the end of the transaction; what  *)
(* is gone for good already will not be reported by it.                    *)
SolAddTransDeleteNotify(s) ==
    \/ /\ DeleteNotifyList' = Append(DeleteNotifyList, s) /\ UNCHANGED failures
       /\ IF gone[s] = "plain" THEN Blame("kept") ELSE NoBlame
    \/ Fail /\ Blame("kept") /\ UNCHANGED DeleteNotifyList

SolNotifyDelete(h) ==
    LET s == stream[h] IN
    /\ pc[h] = "notify" /\ Goto(h, "closed")
    /\ IsNotified' = [IsNotified EXCEPT ![s] = @ + 1]
    /\ \/ /\ IsNotified[s] > 0 \* somebody has notified, or will at the end of the transaction
          /\ IF Contains(DeleteNotifyList, s) THEN Blame("kept") ELSE NoBlame
          /\ UNCHANGED << calls, falseCalls, queued, DeleteNotifyList, failures >>
       \/ /\ IsNotified[s] = 0 /\ ~inTx[h]
          /\ IF isFile[h] THEN NotifyEventFileDeleteTo(s) ELSE UNCHANGED << calls, falseCalls, queued >>
          /\ UNCHANGED << DeleteNotifyList, causes, failures >>
       \/ /\ IsNotified[s] = 0 /\ inTx[h] /\ SolAddTransDeleteNotify(s)
          /\ UNCHANGED << calls, falseCalls, queued >>
    /\ UNCHANGED << fsVars, has, NumOps, SetDisp, DeleteOnClose, handleVars, tx, txContext, askVars, overlap, misled, changes >>

(* The application ends the transaction; a rollback brings back what it    *)
(* deleted.                                                                *)
EndTransaction ==
    /\ Transacted /\ tx = "open"
    /\ \/ /\ tx' = "committing" /\ UNCHANGED << gone, pending, doc >>
       \/ /\ tx' = "rollingBack"
          /\ gone' = [s \in Streams |-> IF gone[s] = "tx" THEN "no" ELSE gone[s]]
          /\ pending' = [s \in Streams |-> pending[s] /\ gone[s] # "tx"]
          /\ UNCHANGED doc
    /\ UNCHANGED << ctxVars, pc, handleVars, txContext, DeleteNotifyList, askVars, failures, outVars, changes >>

(* CtxTransactionContextCleanupCallback drops what is left of the list.    *)
CtxTransactionContextCleanupCallback == DeleteNotifyList' = << >> /\ txContext' = "freed"

(* FilterTransactionNotificationCallback empties the list, and a rollback  *)
(* takes IsNotified back; DfNotifyDeleteOnTransactionEnd prints and no     *)
(* more.  A context that was never enlisted is only cleaned up.            *)
FilterTransactionNotificationCallback ==
    /\ tx \in {"committing", "rollingBack"} /\ tx' = "over"
    /\ CtxTransactionContextCleanupCallback
    /\ IF tx = "rollingBack" /\ txContext = "enlisted"
         THEN IsNotified' = [s \in Streams |-> IF Contains(DeleteNotifyList, s) THEN IsNotified[s] - 1 ELSE IsNotified[s]]
         ELSE UNCHANGED IsNotified
    /\ IF \E s \in ToSet(DeleteNotifyList) : IsNotified[s] > 1 \/ txContext # "enlisted" THEN Blame("kept") ELSE NoBlame
    /\ UNCHANGED << fsVars, has, NumOps, SetDisp, DeleteOnClose, pc, handleVars, askVars, failures, noteVars, changes >>

-----------------------------------------------------------------------------
Step(h) ==
    \/ \E s \in Streams, d, t \in BOOLEAN : FilterPreCreate(h, s, d, t)
    \/ FilterPostCreate(h)
    \/ \E class \in Classes, f \in BOOLEAN : FilterPreSetInformation(h, class, f)
    \/ FsSetInformation(h) \/ FilterPostSetInformation(h) \/ DecrementNumOps(h)
    \/ FilterPreCleanup(h) \/ FilterPostCleanup(h) \/ QueryDeleted(h)
    \/ GetTransactionContext(h) \/ SolIfFileDeleted(h)
    \/ SolGetFileId(h) \/ SolBuildFileIdString(h) \/ SolDetectDeleteByFileId(h)
    \/ SolNotifyDelete(h)

\* The machine stops when the driver has crashed.
Next ==
    /\ ~crashed
    /\ (\E h \in Handles : Step(h)) \/ EndTransaction \/ FilterTransactionNotificationCallback

Spec == Init /\ [][Next]_vars

-----------------------------------------------------------------------------
(* Properties. *)

Settled == \A h \in Handles : pc[h] \in {"unused", "closed"}
Changing(s) == \E h \in Handles : stream[h] = s /\ pc[h] \in {"create", "fsSet", "postSet", "decrement"}
Reported == {s \in Streams : calls[s] > 0}

\* A stream's deletion is decided on at most once, however its cleanups and
\* the end of a transaction interleave (IsNotified).
OncePerStream == \A s \in Streams : calls[s] <= 1

\* Two streams of a file report its deletion both only when one was still in
\* its post-cleanup as the other took the file with it, or when a stream was
\* taken for the file: IsNotified is a field of the stream.
ReportedTwiceExplained == (\E r, s \in Reported : r # s) => overlap \/ misled

\* A file that is still there is reported deleted only when the file system
\* answered STATUS_FILE_DELETED for a stream whose file id was not known yet.
FalseReportExplained == falseCalls > 0 => misled

\* When no change is under way, a stream the file system has marked is a
\* candidate in its stream context: counting changes in flight makes up for
\* the flags two changes leave in the wrong order.
CandidateCovers ==
    \A s \in Streams : (pending[s] /\ ~Changing(s) /\ causes \cap {"unseen", "clear"} = {})
        => has[s] /\ (NumOps[s] > 0 \/ SetDisp[s] \/ DeleteOnClose[s])

\* A file deleted without a report: its deletion was asked for on a stream
\* without context, its last handle was an alternate stream's, the flag of
\* its stream was cleared for another handle, a call failed, or IsNotified was kept from a
\* transaction.  There is no other way to miss one.
MissExplained == Settled /\ gone[Main] = "plain" /\ Reported = {} => causes # {}

\* Nothing is missed, imagined or reported by two streams for another reason.
ReportsExplained ==
    /\ TypeOK /\ CandidateCovers /\ MissExplained
    /\ FalseReportExplained /\ ReportedTwiceExplained

-----------------------------------------------------------------------------
(* The inductive invariant of the reports. *)

\* Handles whose change will get a post-operation, and lower NumOps again.
Posts(s) == {h \in Handles : stream[h] = s /\ change[h].post}

\* Changes that never will keep NumOps raised for good.
Raised(s) == NumOps[s] > IF Posts(s) = {} THEN 0 ELSE 1

\* A post-operation under way that will set the flag of its class to f.
Posting(h, class, f) ==
    change[h].post /\ pc[h] = "postSet" /\ change[h].class = class /\ change[h].delete = f

Sure == causes \cap {"unseen", "clear"} = {}

\* One change of a stream at a time gets a post-operation.
HandlePosts(h) ==
    /\ pc[h] \in {"fsSet", "postSet"} => change[h].class \in {"disposition", "onClose"}
    /\ pc[h] \in {"postSet", "decrement"} => change[h].post
    /\ \A f \in BOOLEAN : Posting(h, "onClose", f) => doc[h] = f
    /\ change[h].post =>
         /\ pc[h] \in {"fsSet", "postSet", "decrement"}
         /\ has[stream[h]] /\ NumOps[stream[h]] > 0
         /\ \A g \in Posts(stream[h]) : g = h

OnePost == \A h \in Handles : HandlePosts(h)

\* A marked stream is a candidate, or about to be: its flag has been set and
\* nobody is about to clear it, a post-operation will set it, or it is counted.
MarkCovered(s) ==
    /\ has[s]
    /\ \/ Raised(s) \/ DeleteOnClose[s]
       \/ SetDisp[s] /\ \A h \in Posts(s) : ~Posting(h, "disposition", FALSE)
       \/ \E h \in Posts(s) : Posting(h, "disposition", TRUE)

\* So is the stream of a handle that will mark it on close, and of one whose change
\* the file system has not seen yet and no post-operation will.
HandleCovered(h) ==
    /\ doc[h] /\ pc[h] \in {"open", "fsSet", "postSet", "decrement"} =>
         /\ has[stream[h]]
         /\ DeleteOnClose[stream[h]] \/ Raised(stream[h]) \/ Posting(h, "onClose", TRUE)
    /\ pc[h] = "fsSet" /\ change[h].delete /\ ~change[h].post =>
         has[stream[h]] /\ Raised(stream[h])

MarksCovered ==
    Sure => /\ \A s \in Streams : pending[s] => MarkCovered(s)
            /\ \A h \in Handles : HandleCovered(h)

\* A deleted file stays marked and has no open handle.
DeletedIsClosed == gone[Main] # "no" => pending[Main] /\ OpenedFile = {}

Asking == {"context", "ask", "byId", "notify"}

\* A cleanup that asks about the main stream has seen it deleted, for good unless it
\* belongs to the transaction.
SeenDeleted ==
    \A h \in Handles : pc[h] \in Asking /\ stream[h] = Main =>
       IF inTx[h] THEN tx \in {"open", "committing"} => gone[Main] # "no"
       ELSE gone[Main] = "plain" /\ (pc[h] = "notify" => isFile[h])

\* The main stream is spoken for when it was reported, or the transaction that
\* deleted it has it in its list or was committed.
NotifiedIsFor ==
    causes = {} =>
       /\ Contains(DeleteNotifyList, Main) /\ tx \in {"open", "committing"} => gone[Main] = "tx"
       /\ IsNotified[Main] > 0 => \/ calls[Main] > 0 \/ Contains(DeleteNotifyList, Main)
                                  \/ tx = "over" /\ gone[Main] = "tx"

\* A cleanup that will report the deletion of the file.
Chases(h) ==
    /\ stream[h] = Main /\ pc[h] \in Asking \cup {"test", "query"}
    /\ pc[h] = "test" => NumOps[Main] > 0 \/ SetDisp[Main] \/ DeleteOnClose[Main]
    /\ pc[h] = "notify" => inTx[h] \/ isFile[h]

DeletionChased ==
    causes = {} /\ gone[Main] = "plain" => calls[Main] > 0 \/ \E h \in Handles : Chases(h)

\* Streams that have reported the deletion of the file, or may still.
Sources ==
    Reported \cup {stream[h] : h \in {g \in Handles :
        \/ pc[g] \in {"test", "query", "context", "ask", "byId"}
        \/ pc[g] = "notify" /\ isFile[g] /\ ~inTx[g]}}

OneSource ==
    ~overlap /\ ~misled =>
       IF gone[Main] = "plain" THEN \A r, s \in Sources : r = s ELSE Reported = {}

ReportsInv == /\ OnePost /\ MarksCovered /\ DeletedIsClosed /\ SeenDeleted
              /\ NotifiedIsFor /\ DeletionChased /\ OneSource
=============================================================================
