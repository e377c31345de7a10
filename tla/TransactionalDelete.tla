------------------------- MODULE TransactionalDelete -------------------------
(***************************************************************************)
(* Deletions inside a transaction (sys/callbacks/fltCleanup.cpp and        *)
(* callbacks.cpp).  A post-cleanup callback that finds its stream deleted  *)
(* raises IsNotified and, in a transaction, leaves a DF_DELETE_NOTIFY in   *)
(* the transaction context; the end of the transaction takes the entries   *)
(* off, and a rollback lowers IsNotified again.  DeleteDetect has the same *)
(* callbacks outside transactions; here a cleanup starts where             *)
(* WinIOPostCleanup has found its stream to be a deletion candidate.       *)
(*                                                                         *)
(* One transaction.  The stream contexts stay attached: an unclosed file   *)
(* object or a section keeps the file system from tearing the stream down. *)
(***************************************************************************)
EXTENDS Naturals, Sequences, FiniteSets

CONSTANTS
    Threads,       \* threads in a cleanup
    Streams,       \* the streams, each with its stream context
    MaxOpens,      \* bound: handles opened
    MaxFailures    \* bound: calls that may fail

ASSUME TransAssumption ==
    /\ IsFiniteSet(Threads) /\ IsFiniteSet(Streams)
    /\ MaxOpens \in Nat /\ MaxFailures \in Nat

NoThread == "none"
NoStream == "none"
ASSUME NameAssumption == NoThread \notin Threads /\ NoStream \notin Streams

VARIABLES
    handles,       \* open handles of a stream, each with a delete disposition
    deleted,       \* where the file system has deleted a stream, if it has
    opens,         \* handles opened so far
    tx,            \* the transaction
    txContext,     \* the transaction context: unattached, attached, freed
    enlisted,      \* the filter manager will call back when the transaction ends
    DeleteNotifyList,
    Resource,      \* who holds the lock of DeleteNotifyList
    IsNotified,    \* of a stream context
    refs,          \* references to a stream context beside the stream's own
    pc, stream, inTx,
    failures,
    notices,       \* history: notices given of a deletion of a stream
    raced,         \* history: a cleanup found the stream reported meanwhile
    late           \* history: cleanups that came to the list when the transaction had ended

vars == << handles, deleted, opens, tx, txContext, enlisted, DeleteNotifyList, Resource,
           IsNotified, refs, pc, stream, inTx, failures, notices, raced, late >>

fsVars == << handles, deleted, opens >>
txVars == << tx, txContext, enlisted >>
histVars == << notices, raced, late >>

TypeOK ==
    /\ handles \in [Streams -> Nat] /\ opens \in 0..MaxOpens
    /\ deleted \in [Streams -> {"no", "tx", "plain"}]
    /\ tx \in {"open", "committing", "rollingBack", "committed", "rolledBack"}
    /\ txContext \in {"unattached", "attached", "freed"} /\ enlisted \in BOOLEAN
    /\ DeleteNotifyList \in Seq(Streams)
    /\ Resource \in Threads \cup {NoThread, "TransactionNotification"}
    /\ IsNotified \in [Streams -> Nat] /\ refs \in [Streams -> Nat]
    /\ pc \in [Threads -> {"idle", "test", "query", "context", "enlist", "raise", "add"}]
    /\ stream \in [Threads -> Streams \cup {NoStream}] /\ inTx \in [Threads -> BOOLEAN]
    /\ failures \in 0..MaxFailures
    /\ notices \in [Streams -> Nat] /\ raced \in [Streams -> BOOLEAN]
    /\ late \in [Streams -> BOOLEAN]

Init ==
    /\ handles = [s \in Streams |-> 0] /\ deleted = [s \in Streams |-> "no"] /\ opens = 0
    /\ tx = "open" /\ txContext = "unattached" /\ enlisted = FALSE
    /\ DeleteNotifyList = << >> /\ Resource = NoThread
    /\ IsNotified = [s \in Streams |-> 0] /\ refs = [s \in Streams |-> 0]
    /\ pc = [t \in Threads |-> "idle"] /\ stream = [t \in Threads |-> NoStream]
    /\ inTx = [t \in Threads |-> FALSE] /\ failures = 0
    /\ notices = [s \in Streams |-> 0] /\ raced = [s \in Streams |-> FALSE]
    /\ late = [s \in Streams |-> FALSE]

Goto(t, label) == pc' = [pc EXCEPT ![t] = label]

\* The callback returns: its references are dropped.
Return(t) ==
    /\ pc' = [pc EXCEPT ![t] = "idle"]
    /\ refs' = [refs EXCEPT ![stream[t]] = @ - 1]
    /\ stream' = [stream EXCEPT ![t] = NoStream]

-----------------------------------------------------------------------------
(* The file system and the transaction manager. *)

Open(s) ==
    /\ deleted[s] = "no" /\ opens < MaxOpens
    /\ handles' = [handles EXCEPT ![s] = @ + 1] /\ opens' = opens + 1
    /\ UNCHANGED << deleted, txVars, DeleteNotifyList, Resource, IsNotified, refs, pc, stream, inTx, failures, histVars >>

\* The file system's cleanup: the last handle deletes the stream, in the
\* transaction while it is open.  The post-operation callback follows.
FsCleanup(t, s) ==
    /\ pc[t] = "idle" /\ handles[s] > 0
    /\ handles' = [handles EXCEPT ![s] = @ - 1]
    /\ deleted' = [deleted EXCEPT ![s] = IF handles'[s] > 0 THEN "no"
                                         ELSE IF tx = "open" THEN "tx" ELSE "plain"]
    /\ stream' = [stream EXCEPT ![t] = s] /\ inTx' = [inTx EXCEPT ![t] = (tx = "open")]
    /\ refs' = [refs EXCEPT ![s] = @ + 1]
    /\ Goto(t, "test")
    /\ UNCHANGED << opens, txVars, DeleteNotifyList, Resource, IsNotified, failures, histVars >>

\* A rollback brings back what was deleted in the transaction.
EndTransaction ==
    /\ tx = "open"
    /\ \/ tx' = "committing" /\ UNCHANGED deleted
       \/ /\ tx' = "rollingBack"
          /\ deleted' = [s \in Streams |-> IF deleted[s] = "tx" THEN "no" ELSE deleted[s]]
    /\ UNCHANGED << handles, opens, txContext, enlisted, DeleteNotifyList, Resource, IsNotified, refs, pc, stream, inTx, failures, histVars >>

-----------------------------------------------------------------------------
(* WinIOPostCleanup, DfProcessDelete and DfNotifyDelete. *)

TestNotified(t) ==
    /\ pc[t] = "test"
    /\ IF IsNotified[stream[t]] = 0
         THEN Goto(t, "query") /\ UNCHANGED << refs, stream >>
         ELSE Return(t)
    /\ UNCHANGED << fsVars, txVars, DeleteNotifyList, Resource, IsNotified, inTx, failures, histVars >>

QueryDeleted(t) ==
    /\ pc[t] = "query"
    /\ IF deleted[stream[t]] # "no"
         THEN Goto(t, IF inTx[t] THEN "context" ELSE "raise") /\ UNCHANGED << refs, stream >>
         ELSE Return(t)
    /\ UNCHANGED << fsVars, txVars, DeleteNotifyList, Resource, IsNotified, inTx, failures, histVars >>

\* CtxGetOrSetContext for the transaction: whoever attaches the context also
\* has to enlist, and the others do not wait for that.
GetTransactionContext(t) ==
    /\ pc[t] = "context"
    /\ \/ /\ txContext = "attached"
          /\ Goto(t, "raise") /\ UNCHANGED << txContext, refs, stream, failures >>
       \/ /\ txContext = "unattached"
          /\ txContext' = "attached" /\ Goto(t, "enlist") /\ UNCHANGED << refs, stream, failures >>
       \/ /\ txContext # "attached" /\ failures < MaxFailures
          /\ failures' = failures + 1 /\ Return(t) /\ UNCHANGED txContext
       \/ /\ txContext = "freed" /\ Return(t) /\ UNCHANGED << txContext, failures >>
    /\ late' = [late EXCEPT ![stream[t]] = @ \/ txContext = "freed"]
    /\ UNCHANGED << fsVars, tx, enlisted, DeleteNotifyList, Resource, IsNotified, inTx, notices, raced >>

\* An enlistment that fails is the status of the call: the callback ends, and
\* the context stays attached.
Enlist(t) ==
    /\ pc[t] = "enlist"
    /\ \/ /\ tx = "open" /\ enlisted' = TRUE
          /\ Goto(t, "raise") /\ UNCHANGED << refs, stream, failures >>
       \/ /\ tx # "open" \/ failures < MaxFailures
          /\ failures' = IF tx = "open" THEN failures + 1 ELSE failures
          /\ Return(t) /\ UNCHANGED enlisted
    /\ UNCHANGED << fsVars, tx, txContext, DeleteNotifyList, Resource, IsNotified, inTx, histVars >>

\* DfIsFileDeleted may fail, which ends the callback before IsNotified is raised.
IsFileDeletedFails(t) ==
    /\ pc[t] = "raise" /\ failures < MaxFailures
    /\ failures' = failures + 1
    /\ Return(t)
    /\ UNCHANGED << fsVars, txVars, DeleteNotifyList, Resource, IsNotified, inTx, histVars >>

\* DfNotifyDelete: the first to raise IsNotified goes on.  Outside a
\* transaction it reports the deletion there and then.
RaiseNotified(t) ==
    LET s == stream[t] IN
    /\ pc[t] = "raise"
    /\ IsNotified' = [IsNotified EXCEPT ![s] = @ + 1]
    /\ IF IsNotified[s] > 0
         THEN raced' = [raced EXCEPT ![s] = TRUE] /\ UNCHANGED notices /\ Return(t)
         ELSE /\ UNCHANGED raced
              /\ IF inTx[t]
                   THEN Goto(t, "add") /\ UNCHANGED << refs, stream, notices >>
                   ELSE notices' = [notices EXCEPT ![s] = @ + 1] /\ Return(t)
    /\ UNCHANGED << fsVars, txVars, DeleteNotifyList, Resource, inTx, failures, late >>

\* DfAddTransDeleteNotify, under the lock: the entry takes a reference.
AddNotify(t) ==
    LET s == stream[t] IN
    /\ pc[t] = "add" /\ Resource = NoThread
    /\ DeleteNotifyList' = Append(DeleteNotifyList, s)
    /\ late' = [late EXCEPT ![s] = @ \/ tx # "open"]
    /\ Goto(t, "idle") /\ stream' = [stream EXCEPT ![t] = NoStream]
    /\ UNCHANGED << fsVars, txVars, Resource, IsNotified, refs, inTx, failures, notices, raced >>

\* Out of memory: no entry, and IsNotified stays raised.
AddNotifyFails(t) ==
    /\ pc[t] = "add" /\ failures < MaxFailures
    /\ failures' = failures + 1
    /\ Return(t)
    /\ UNCHANGED << fsVars, txVars, DeleteNotifyList, Resource, IsNotified, inTx, histVars >>

-----------------------------------------------------------------------------
(* FilterTransactionNotificationCallback *)

StartNotification ==
    /\ tx \in {"committing", "rollingBack"} /\ Resource = NoThread
    /\ IF enlisted
         THEN Resource' = "TransactionNotification" /\ UNCHANGED tx
         ELSE tx' = (IF tx = "committing" THEN "committed" ELSE "rolledBack") /\ UNCHANGED Resource
    /\ UNCHANGED << fsVars, txContext, enlisted, DeleteNotifyList, IsNotified, refs, pc, stream, inTx, failures, histVars >>

\* Fault: a rollback leaves IsNotified as it is.
RollbackKeepsNotified ==
    LET s == Head(DeleteNotifyList) IN
    /\ Resource = "TransactionNotification" /\ DeleteNotifyList # << >>
    /\ DeleteNotifyList' = Tail(DeleteNotifyList)
    /\ notices' = IF tx = "committing" THEN [notices EXCEPT ![s] = @ + 1] ELSE notices
    /\ refs' = [refs EXCEPT ![s] = @ - 1]
    /\ UNCHANGED << fsVars, txVars, Resource, IsNotified, pc, stream, inTx, failures, raced, late >>

\* Fault: a rollback is announced as a commit is.
RollbackAnnounced ==
    LET s == Head(DeleteNotifyList) IN
    /\ Resource = "TransactionNotification" /\ DeleteNotifyList # << >>
    /\ DeleteNotifyList' = Tail(DeleteNotifyList)
    /\ IsNotified' = IF tx = "rollingBack" THEN [IsNotified EXCEPT ![s] = @ - 1] ELSE IsNotified
    /\ notices' = [notices EXCEPT ![s] = @ + 1]
    /\ refs' = [refs EXCEPT ![s] = @ - 1]
    /\ UNCHANGED << fsVars, txVars, Resource, pc, stream, inTx, failures, raced, late >>

\* One entry: a rollback lowers IsNotified, a commit announces the deletion.
NotifyEntry ==
    LET s == Head(DeleteNotifyList) IN
    /\ Resource = "TransactionNotification" /\ DeleteNotifyList # << >>
    /\ DeleteNotifyList' = Tail(DeleteNotifyList)
    /\ IsNotified' = IF tx = "rollingBack" THEN [IsNotified EXCEPT ![s] = @ - 1] ELSE IsNotified
    /\ notices' = IF tx = "committing" THEN [notices EXCEPT ![s] = @ + 1] ELSE notices
    /\ refs' = [refs EXCEPT ![s] = @ - 1]
    /\ UNCHANGED << fsVars, txVars, Resource, pc, stream, inTx, failures, raced, late >>

\* Fault: the lock is given up after one entry.
EndEarly ==
    /\ Resource = "TransactionNotification"
    /\ Resource' = NoThread
    /\ tx' = IF tx = "committing" THEN "committed" ELSE "rolledBack"
    /\ UNCHANGED << fsVars, txContext, enlisted, DeleteNotifyList, IsNotified, refs, pc, stream, inTx, failures, histVars >>

EndNotification ==
    /\ Resource = "TransactionNotification" /\ DeleteNotifyList = << >>
    /\ Resource' = NoThread
    /\ tx' = IF tx = "committing" THEN "committed" ELSE "rolledBack"
    /\ UNCHANGED << fsVars, txContext, enlisted, DeleteNotifyList, IsNotified, refs, pc, stream, inTx, failures, histVars >>

\* CtxTransactionContextCleanupCallback: the transaction is over and nobody
\* holds its context.  Entries left over drop their reference, no more.
FreeTransactionContext ==
    /\ txContext = "attached" /\ tx \in {"committed", "rolledBack"}
    /\ \A t \in Threads : ~(inTx[t] /\ pc[t] \in {"enlist", "raise", "add"})
    /\ txContext' = "freed"
    /\ refs' = [s \in Streams |-> refs[s]
                  - Cardinality({n \in DOMAIN DeleteNotifyList : DeleteNotifyList[n] = s})]
    /\ DeleteNotifyList' = << >>
    /\ UNCHANGED << fsVars, tx, enlisted, Resource, IsNotified, pc, stream, inTx, failures, histVars >>

PostCleanup(t) ==
    \/ TestNotified(t) \/ QueryDeleted(t) \/ GetTransactionContext(t) \/ Enlist(t)
    \/ IsFileDeletedFails(t) \/ RaiseNotified(t) \/ AddNotify(t) \/ AddNotifyFails(t)

TransactionNotification == StartNotification \/ NotifyEntry \/ EndNotification

Next ==
    \/ \E s \in Streams : Open(s)
    \/ \E t \in Threads, s \in Streams : FsCleanup(t, s)
    \/ \E t \in Threads : PostCleanup(t)
    \/ EndTransaction \/ TransactionNotification \/ FreeTransactionContext

Spec == Init /\ [][Next]_vars

\* A callback that was entered runs on, the transaction manager ends what was
\* begun and calls back, and a context nobody holds is freed.
FairSpec ==
    /\ Spec
    /\ \A t \in Threads : WF_vars(PostCleanup(t))
    /\ WF_vars(EndTransaction) /\ WF_vars(TransactionNotification)
    /\ WF_vars(FreeTransactionContext)

-----------------------------------------------------------------------------
(* Properties. *)

Entries(s) == Cardinality({n \in DOMAIN DeleteNotifyList : DeleteNotifyList[n] = s})
Busy(s) == {t \in Threads : stream[t] = s}

\* A stream context is kept by the callbacks that work on it and by one entry
\* at a time in the list of the transaction, whoever takes the entry off.
RefsExact == \A s \in Streams : Entries(s) <= 1 /\ refs[s] = Cardinality(Busy(s)) + Entries(s)

\* Once a rollback has been dealt with, IsNotified is back to zero and the next
\* deletion of the stream will be reported, unless two cleanups of it met, a
\* call failed, an entry came when the list had been emptied, or the thread that
\* attached the transaction context had not enlisted when the transaction ended.
RollbackForgets ==
    \A s \in Streams :
       (tx = "rolledBack" /\ Busy(s) = {} /\ notices[s] = 0) =>
          IsNotified[s] = 0 \/ raced[s] \/ late[s] \/ failures > 0 \/ ~enlisted

Settled == RefsExact /\ RollbackForgets

\* A deletion is announced at most once, and never one that was rolled back.
NoticeOnce ==
    \A s \in Streams :
       /\ notices[s] <= 1
       /\ notices[s] = 1 => deleted[s] # "no"

\* A committed deletion is announced in the end, unless a call failed or the
\* cleanup came too late for the transaction.
CommitNoticed ==
    \A s \in Streams :
       (deleted[s] = "tx" /\ tx = "committing")
          ~> (notices[s] = 1 \/ failures > 0 \/ late[s] \/ ~enlisted)
=============================================================================
