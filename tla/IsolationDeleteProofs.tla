------------------------ MODULE IsolationDeleteProofs ------------------------
(***************************************************************************)
(* Proofs about the delete detection of the isolation driver, for any      *)
(* number of handles and streams: the deletion of a stream is decided on   *)
(* at most once; a file that is still there is reported only when the file *)
(* system answered STATUS_FILE_DELETED for one of its streams; a deletion  *)
(* is missed, or reported by two streams, only for a reason that is named. *)
(*                                                                         *)
(* And about what its callbacks hold meanwhile: every reference to an      *)
(* instance context (IsolationIrp) and to a process (ProcessNames) has its *)
(* holder, or one of the named reasons to have none.                       *)
(***************************************************************************)
EXTENDS IsolationDelete, ProcessNames, IsolationIrp,
        FiniteSetTheorems, SequenceTheorems, WellFoundedInduction, TLAPS

USE DEF Goto, Fail, Blame, NoBlame, fsVars, ctxVars, handleVars, txVars, askVars, noteVars, outVars

-----------------------------------------------------------------------------
(* One decision per stream. *)

DecisionTypes ==
    /\ stream \in [Handles -> Streams]
    /\ DeleteNotifyList \in Seq(Streams)
    /\ IsNotified \in [Streams -> Nat] /\ calls \in [Streams -> Nat]

(* A stream that was decided on, or waits in the list for the transaction to *)
(* end, has IsNotified raised; what waits was not decided on, so that the    *)
(* rollback that lowers IsNotified again forgets no decision.                *)
OneDecision ==
    \A s \in Streams :
       /\ calls[s] <= 1
       /\ calls[s] > 0 \/ Contains(DeleteNotifyList, s) => IsNotified[s] > 0
       /\ ~(calls[s] > 0 /\ Contains(DeleteNotifyList, s))

DecisionInv == DecisionTypes /\ OneDecision

LEMMA InitDecision == Init => DecisionInv
<1> SUFFICES ASSUME Init PROVE DecisionInv
  OBVIOUS
<1>1. DecisionTypes
  BY IsoDeleteAssumption DEF Init, DecisionTypes
<1>2. OneDecision
  BY DEF Init, OneDecision, Contains
<1> QED
  BY <1>1, <1>2 DEF DecisionInv

(* Only the notification of a cleanup and the end of the transaction touch it. *)
LEMMA NotifyDecision ==
  ASSUME DecisionInv, NEW h \in Handles, SolNotifyDelete(h)
  PROVE  DecisionInv'
<1>1. PICK x \in Streams : x = stream[h]
  BY DEF DecisionInv, DecisionTypes
<1>2. /\ UNCHANGED stream /\ IsNotified' = [IsNotified EXCEPT ![x] = @ + 1]
      /\ IsNotified'[x] > 0 /\ IsNotified' \in [Streams -> Nat]
      /\ \A s \in Streams : IsNotified[s] > 0 => IsNotified'[s] > 0
  BY <1>1 DEF SolNotifyDelete, DecisionInv, DecisionTypes
<1>3. CASE IsNotified[x] > 0
  <2>1. UNCHANGED << calls, DeleteNotifyList >>
    BY <1>1, <1>3 DEF SolNotifyDelete
  <2> QED
    BY <1>2, <2>1 DEF DecisionInv, DecisionTypes, OneDecision, Contains
<1>4. CASE IsNotified[x] = 0
  <2>1. calls[x] = 0 /\ ~Contains(DeleteNotifyList, x)
    BY <1>4 DEF DecisionInv, DecisionTypes, OneDecision
  <2>2. CASE UNCHANGED DeleteNotifyList /\ (UNCHANGED calls \/ calls' = [calls EXCEPT ![x] = @ + 1])
    <3>1. calls' \in [Streams -> Nat] /\ calls'[x] <= 1 /\ \A s \in Streams : s # x => calls'[s] = calls[s]
      <4>1. calls \in [Streams -> Nat] /\ calls[x] = 0
        BY <2>1 DEF DecisionInv, DecisionTypes
      <4>2. CASE UNCHANGED calls
        BY <4>1, <4>2
      <4>3. CASE calls' = [calls EXCEPT ![x] = @ + 1]
        BY <4>1, <4>3
      <4> QED
        BY <2>2, <4>2, <4>3
    <3>2. \A s \in Streams : Contains(DeleteNotifyList, s)' <=> Contains(DeleteNotifyList, s)
      BY <2>2 DEF Contains
    <3> QED
      BY <1>2, <2>1, <2>2, <3>1, <3>2 DEF DecisionInv, DecisionTypes, OneDecision
  <2>3. CASE UNCHANGED calls /\ DeleteNotifyList' = Append(DeleteNotifyList, x)
    <3>1. /\ DeleteNotifyList' \in Seq(Streams)
          /\ \A s \in Streams : s # x => (Contains(DeleteNotifyList, s)' <=> Contains(DeleteNotifyList, s))
      <4>1. /\ DeleteNotifyList \in Seq(Streams) /\ Len(DeleteNotifyList) \in Nat
            /\ DeleteNotifyList' \in Seq(Streams) /\ Len(DeleteNotifyList') = Len(DeleteNotifyList) + 1
            /\ DeleteNotifyList'[Len(DeleteNotifyList) + 1] = x
            /\ \A n \in 1..Len(DeleteNotifyList) : DeleteNotifyList'[n] = DeleteNotifyList[n]
        BY <2>3 DEF DecisionInv, DecisionTypes
      <4> QED
        BY <4>1 DEF Contains
    <3> QED
      BY <1>2, <2>1, <2>3, <3>1 DEF DecisionInv, DecisionTypes, OneDecision
  <2>4. CASE UNCHANGED << calls, DeleteNotifyList >>
    BY <2>2, <2>4
  <2> QED
    BY <1>1, <1>4, <2>2, <2>3, <2>4 DEF SolNotifyDelete, NotifyEventFileDeleteTo, SolAddTransDeleteNotify
<1> QED
  BY <1>3, <1>4 DEF DecisionInv, DecisionTypes

LEMMA EndOfTransactionDecision ==
  ASSUME DecisionInv, FilterTransactionNotificationCallback
  PROVE  DecisionInv'
<1>1. /\ UNCHANGED << stream, calls >> /\ DeleteNotifyList' = << >>
      /\ \/ UNCHANGED IsNotified
         \/ IsNotified' = [s \in Streams |-> IF Contains(DeleteNotifyList, s) THEN IsNotified[s] - 1 ELSE IsNotified[s]]
  BY DEF FilterTransactionNotificationCallback, CtxTransactionContextCleanupCallback
<1>2. IsNotified' \in [Streams -> Nat]
  BY <1>1 DEF DecisionInv, DecisionTypes, OneDecision
<1>3. \A s \in Streams : ~Contains(DeleteNotifyList, s)'
  BY <1>1 DEF Contains
<1>4. \A s \in Streams : calls[s] > 0 => IsNotified'[s] = IsNotified[s]
  BY <1>1 DEF DecisionInv, OneDecision
<1> QED
  BY <1>1, <1>2, <1>3, <1>4 DEF DecisionInv, DecisionTypes, OneDecision

(* What the steps of Next do to what the proofs are about: to the decisions    *)
(* only a notification and the end of the transaction do something.             *)
Quiet == UNCHANGED << DeleteNotifyList, IsNotified, calls >> /\ stream' \in [Handles -> Streams]

LEMMA QuietSteps ==
  ASSUME stream \in [Handles -> Streams], NEW h \in Handles, Step(h), ~SolNotifyDelete(h)
  PROVE  Quiet
<1>1. ASSUME NEW s \in Streams, NEW d \in BOOLEAN, NEW t \in BOOLEAN, FilterPreCreate(h, s, d, t) PROVE Quiet
  BY <1>1 DEF FilterPreCreate, Quiet
<1>2. ASSUME NEW class \in Classes, NEW f \in BOOLEAN, FilterPreSetInformation(h, class, f) PROVE Quiet
  BY <1>2 DEF FilterPreSetInformation, Quiet
<1>3. CASE FilterPostCreate(h)
  BY <1>3 DEF FilterPostCreate, Quiet
<1>4. CASE FsSetInformation(h)
  BY <1>4 DEF FsSetInformation, Quiet
<1>5. CASE FilterPostSetInformation(h)
  BY <1>5 DEF FilterPostSetInformation, Quiet
<1>6. CASE DecrementNumOps(h)
  BY <1>6 DEF DecrementNumOps, Quiet
<1>7. CASE FilterPreCleanup(h)
  BY <1>7 DEF FilterPreCleanup, Quiet
<1>8. CASE FilterPostCleanup(h)
  BY <1>8 DEF FilterPostCleanup, Quiet
<1>9. CASE QueryDeleted(h)
  BY <1>9 DEF QueryDeleted, Quiet
<1>10. CASE GetTransactionContext(h)
  BY <1>10 DEF GetTransactionContext, Quiet
<1>11. CASE SolIfFileDeleted(h)
  BY <1>11 DEF SolIfFileDeleted, Quiet
<1>12. CASE SolGetFileId(h)
  BY <1>12 DEF SolGetFileId, Quiet
<1>13. CASE SolBuildFileIdString(h)
  BY <1>13 DEF SolBuildFileIdString, Quiet
<1>14. CASE SolDetectDeleteByFileId(h)
  BY <1>14 DEF SolDetectDeleteByFileId, Quiet
<1> QED
  BY <1>1, <1>2, <1>3, <1>4, <1>5, <1>6, <1>7, <1>8, <1>9, <1>10, <1>11, <1>12, <1>13, <1>14 DEF Step

LEMMA OtherDecision ==
  ASSUME DecisionInv, Quiet
  PROVE  DecisionInv'
  BY DEF DecisionInv, DecisionTypes, OneDecision, Contains, Quiet

LEMMA DecisionInvariance == Spec => []DecisionInv
<1>1. DecisionInv /\ [Next]_vars => DecisionInv'
  <2>1. DecisionInv => stream \in [Handles -> Streams]
    BY DEF DecisionInv, DecisionTypes
  <2>2. DecisionInv /\ EndTransaction => Quiet
    BY <2>1 DEF EndTransaction, Quiet
  <2>3. DecisionInv /\ UNCHANGED vars => Quiet
    BY <2>1 DEF vars, Quiet
  <2> QED
    BY <2>1, <2>2, <2>3, NotifyDecision, EndOfTransactionDecision, OtherDecision, QuietSteps DEF Next
<1> QED
  BY <1>1, InitDecision, PTL DEF Spec

(* A stream's deletion is decided on at most once, however its cleanups, the  *)
(* end of a transaction and failures interleave (SolNotifyDelete).            *)
THEOREM DecidedOnce == Spec => []OncePerStream
<1>1. DecisionInv => OncePerStream
  BY DEF DecisionInv, OneDecision, OncePerStream
<1> QED
  BY <1>1, DecisionInvariance, PTL

-----------------------------------------------------------------------------
(* No report of a file that is still there. *)

(* A cleanup outside the transaction that takes the file for deleted has seen  *)
(* it deleted for good, unless the file id was refused; and it stays so.       *)
Labels == {"unused", "create", "open", "fsSet", "postSet", "decrement", "test", "query", "context", "ask",
           "byId", "notify", "closed"}

Sighted ==
    /\ gone \in [Streams -> {"no", "tx", "plain"}] /\ pc \in [Handles -> Labels]
    /\ isFile \in [Handles -> BOOLEAN] /\ inTx \in [Handles -> BOOLEAN] /\ misled \in BOOLEAN
    /\ falseCalls \in Nat
    /\ falseCalls > 0 => misled
    /\ \A h \in Handles : pc[h] = "notify" /\ isFile[h] /\ ~inTx[h] => gone[Main] = "plain" \/ misled

LEMMA InitSighted == Init => Sighted
<1> SUFFICES ASSUME Init PROVE Sighted
  OBVIOUS
<1>1. pc \in [Handles -> Labels] /\ \A h \in Handles : pc[h] # "notify"
  BY DEF Init, Labels
<1>2. /\ gone \in [Streams -> {"no", "tx", "plain"}] /\ isFile \in [Handles -> BOOLEAN]
      /\ inTx \in [Handles -> BOOLEAN] /\ misled \in BOOLEAN /\ falseCalls = 0
  BY DEF Init
<1> QED
  BY <1>1, <1>2 DEF Sighted

(* The step that answers, in each of its three ways, saw what it answers. *)
LEMMA AnswerSighted ==
  ASSUME Sighted, NEW h \in Handles, SolIfFileDeleted(h) \/ SolGetFileId(h) \/ SolDetectDeleteByFileId(h)
  PROVE  Sighted'
<1>1. /\ UNCHANGED << gone, inTx, falseCalls >> /\ misled' \in BOOLEAN /\ (misled => misled')
      /\ \/ /\ pc' = [pc EXCEPT ![h] = "byId"] \/ pc' = [pc EXCEPT ![h] = "closed"]
            /\ UNCHANGED isFile
         \/ \E deleted \in BOOLEAN :
               /\ isFile' = [isFile EXCEPT ![h] = deleted] /\ pc' = [pc EXCEPT ![h] = "notify"]
               /\ deleted /\ ~inTx[h] => gone[Main] = "plain" \/ misled'
  <2>1. CASE SolIfFileDeleted(h)
    BY <2>1 DEF SolIfFileDeleted, Answer, GiveUp, Sighted
  <2>2. CASE SolGetFileId(h)
    <3>1. CASE GiveUp(h) /\ UNCHANGED misled
      BY <2>2, <3>1 DEF SolGetFileId, GiveUp, Sighted
    <3>2. CASE Answer(h, TRUE) /\ misled' = (misled \/ ~DeletedFor(h, Main))
      <4>1. /\ UNCHANGED << gone, inTx, falseCalls >>
            /\ isFile' = [isFile EXCEPT ![h] = TRUE] /\ pc' = [pc EXCEPT ![h] = "notify"]
        BY <2>2, <3>2 DEF SolGetFileId, Answer
      <4>2. misled' \in BOOLEAN /\ (misled => misled') /\ (~DeletedFor(h, Main) => misled')
        BY <3>2
      <4>3. DeletedFor(h, Main) /\ ~inTx[h] => gone[Main] = "plain"
        BY DEF DeletedFor
      <4> QED
        BY <4>1, <4>2, <4>3
    <3> QED
      BY <2>2, <3>1, <3>2 DEF SolGetFileId
  <2>3. CASE SolDetectDeleteByFileId(h)
    BY <2>3 DEF SolDetectDeleteByFileId, Answer, GiveUp, Sighted, DeletedFor
  <2> QED
    BY <2>1, <2>2, <2>3
<1> QED
  BY <1>1 DEF Sighted, Labels

LEMMA ReportSighted == ASSUME Sighted, NEW h \in Handles, SolNotifyDelete(h) PROVE Sighted'
<1>1. /\ UNCHANGED << gone, inTx, isFile, misled >> /\ pc' = [pc EXCEPT ![h] = "closed"]
      /\ pc[h] = "notify"
      /\ \/ UNCHANGED falseCalls
         \/ ~inTx[h] /\ isFile[h] /\ falseCalls' = falseCalls + IF gone[Main] = "no" THEN 1 ELSE 0
  BY DEF SolNotifyDelete, NotifyEventFileDeleteTo
<1> QED
  BY <1>1 DEF Sighted, Labels

(* What was deleted for good stays deleted: a cleanup deletes what is there,  *)
(* a rollback brings back what the transaction deleted.                       *)
LEMMA FsSighted ==
  ASSUME Sighted, (\E h \in Handles : FilterPreCleanup(h)) \/ EndTransaction
  PROVE  Sighted'
<1>1. /\ UNCHANGED << inTx, isFile, misled, falseCalls >> /\ gone' \in [Streams -> {"no", "tx", "plain"}]
      /\ gone[Main] = "plain" => gone'[Main] = "plain"
      /\ \/ UNCHANGED pc
         \/ \E h \in Handles : pc' = [pc EXCEPT ![h] = "test"] \/ pc' = [pc EXCEPT ![h] = "closed"]
  <2>1. CASE EndTransaction
    BY <2>1, IsoDeleteAssumption DEF EndTransaction, Sighted
  <2>2. CASE \E h \in Handles : FilterPreCleanup(h)
    <3>1. PICK h \in Handles : FilterPreCleanup(h)
      BY <2>2
    <3>2. /\ UNCHANGED << inTx, isFile, misled, falseCalls >>
          /\ pc' = [pc EXCEPT ![h] = "test"] \/ pc' = [pc EXCEPT ![h] = "closed"]
      BY <3>1 DEF FilterPreCleanup
    <3>3. /\ gone' = [r \in Streams |-> gone'[r]]
          /\ \A r \in Streams : gone'[r] = gone[r] \/ (gone[r] = "no" /\ gone'[r] \in {"tx", "plain"})
      BY <3>1 DEF FilterPreCleanup
    <3> QED
      BY <3>2, <3>3, IsoDeleteAssumption DEF Sighted
  <2> QED
    BY <2>1, <2>2
<1> QED
  BY <1>1 DEF Sighted, Labels

(* The other steps of a handle do not answer, and bring it to no notification. *)
Passes(h) ==
    /\ UNCHANGED << gone, isFile, misled, falseCalls >>
    /\ \E l \in Labels \ {"notify"} : pc' = [pc EXCEPT ![h] = l]
    /\ inTx' \in [Handles -> BOOLEAN] /\ \A g \in Handles : g # h => inTx'[g] = inTx[g]

LEMMA PassingSteps ==
  ASSUME Sighted, NEW h \in Handles, Step(h), ~SolIfFileDeleted(h), ~SolGetFileId(h),
         ~SolDetectDeleteByFileId(h), ~SolNotifyDelete(h), ~FilterPreCleanup(h)
  PROVE  Passes(h)
<1> USE DEF Labels
<1>0. inTx \in [Handles -> BOOLEAN]
  BY DEF Sighted
<1>1. ASSUME NEW s \in Streams, NEW d \in BOOLEAN, NEW t \in BOOLEAN, FilterPreCreate(h, s, d, t) PROVE Passes(h)
  BY <1>0, <1>1 DEF FilterPreCreate, Passes
<1>2. ASSUME NEW class \in Classes, NEW f \in BOOLEAN, FilterPreSetInformation(h, class, f) PROVE Passes(h)
  BY <1>0, <1>2 DEF FilterPreSetInformation, Passes
<1>3. CASE FilterPostCreate(h)
  BY <1>0, <1>3 DEF FilterPostCreate, Passes
<1>4. CASE FsSetInformation(h)
  BY <1>0, <1>4 DEF FsSetInformation, Passes
<1>5. CASE FilterPostSetInformation(h)
  BY <1>0, <1>5 DEF FilterPostSetInformation, Passes
<1>6. CASE DecrementNumOps(h)
  BY <1>0, <1>6 DEF DecrementNumOps, Passes
<1>7. CASE FilterPostCleanup(h)
  BY <1>0, <1>7 DEF FilterPostCleanup, Passes
<1>8. CASE QueryDeleted(h)
  BY <1>0, <1>8 DEF QueryDeleted, Passes
<1>9. CASE GetTransactionContext(h)
  BY <1>0, <1>9 DEF GetTransactionContext, Passes
<1>10. CASE SolBuildFileIdString(h)
  BY <1>0, <1>10 DEF SolBuildFileIdString, Passes, GiveUp
<1> QED
  BY <1>1, <1>2, <1>3, <1>4, <1>5, <1>6, <1>7, <1>8, <1>9, <1>10 DEF Step

LEMMA PassingSighted == ASSUME Sighted, NEW h \in Handles, Passes(h) PROVE Sighted'
  BY DEF Sighted, Passes, Labels

LEMMA RestSighted == ASSUME Sighted, FilterTransactionNotificationCallback \/ UNCHANGED vars PROVE Sighted'
  BY DEF Sighted, FilterTransactionNotificationCallback, vars

LEMMA SightedInvariance == Spec => []Sighted
<1>1. Sighted /\ [Next]_vars => Sighted'
  BY AnswerSighted, ReportSighted, FsSighted, PassingSteps, PassingSighted, RestSighted DEF Next
<1> QED
  BY <1>1, InitSighted, PTL DEF Spec

(* A file that is still there is reported deleted only when the file system    *)
(* answered STATUS_FILE_DELETED for a stream whose id was not known yet.       *)
THEOREM ReportIsTrue == Spec => []FalseReportExplained
<1>1. Sighted => FalseReportExplained
  BY DEF Sighted, FalseReportExplained
<1> QED
  BY <1>1, SightedInvariance, PTL
-----------------------------------------------------------------------------
(* A marked stream is a candidate. *)

CoverTypes ==
    /\ pc \in [Handles -> Labels] /\ stream \in [Handles -> Streams] /\ doc \in [Handles -> BOOLEAN]
    /\ pending \in [Streams -> BOOLEAN] /\ has \in [Streams -> BOOLEAN] /\ NumOps \in [Streams -> Nat]
    /\ SetDisp \in [Streams -> BOOLEAN] /\ DeleteOnClose \in [Streams -> BOOLEAN]
    /\ change \in [Handles -> [class : Classes \cup {"none"}, delete : BOOLEAN, post : BOOLEAN]]

CoverInv == CoverTypes /\ OnePost /\ MarksCovered

LEMMA InitCover == Init => CoverInv
<1> SUFFICES ASSUME Init PROVE CoverInv
  OBVIOUS
<1>1. CoverTypes
  BY IsoDeleteAssumption DEF Init, CoverTypes, Labels, Idle
<1>2. \A h \in Handles : pc[h] = "unused" /\ ~change[h].post /\ ~doc[h]
  BY DEF Init, Idle
<1>3. OnePost
  BY <1>2 DEF OnePost, HandlePosts, Posting
<1>4. MarksCovered
  BY <1>2 DEF Init, MarksCovered, HandleCovered
<1> QED
  BY <1>1, <1>3, <1>4 DEF CoverInv

(* A change is announced: it gets a post-operation when it is the only one, and *)
(* raises NumOps for good when it is not.                                       *)
LEMMA PreSetCovers ==
  ASSUME CoverInv, NEW h \in Handles, NEW class \in Classes, NEW f \in BOOLEAN,
         FilterPreSetInformation(h, class, f)
  PROVE  CoverInv'
<1>1. PICK x \in Streams : x = stream[h]
  BY DEF CoverInv, CoverTypes
<1>2. PICK p \in BOOLEAN : p = (has[x] /\ ~(NumOps[x] > 0))
  OBVIOUS
<1>3. /\ pc[h] = "open" /\ pc' = [pc EXCEPT ![h] = "fsSet"]
      /\ UNCHANGED << stream, doc, pending, has, SetDisp, DeleteOnClose >>
      /\ change' = [change EXCEPT ![h] = [class |-> class, delete |-> f, post |-> p]]
      /\ NumOps' = [NumOps EXCEPT ![x] = IF has[x] THEN @ + 1 ELSE @]
      /\ causes \subseteq causes' /\ (f /\ ~has[x] => "unseen" \in causes')
  BY <1>1, <1>2 DEF FilterPreSetInformation
<1>4. CoverTypes'
  BY <1>1, <1>2, <1>3 DEF CoverInv, CoverTypes, Labels
<1>5. /\ ~change[h].post /\ change'[h] = [class |-> class, delete |-> f, post |-> p]
      /\ pc'[h] = "fsSet"
      /\ \A g \in Handles \ {h} : change'[g] = change[g] /\ pc'[g] = pc[g]
  BY <1>3 DEF CoverInv, CoverTypes, OnePost, HandlePosts
<1>6. /\ has[x] => NumOps'[x] = NumOps[x] + 1
      /\ ~has[x] => NumOps'[x] = NumOps[x]
      /\ \A s \in Streams \ {x} : NumOps'[s] = NumOps[s]
      /\ \A s \in Streams : NumOps[s] \in Nat /\ NumOps'[s] \in Nat
  BY <1>3 DEF CoverInv, CoverTypes
<1>7. p => Posts(x) = {}
  BY <1>2 DEF CoverInv, OnePost, HandlePosts, Posts, CoverTypes
<1>8. \A s \in Streams : Posts(s)' = IF p /\ s = x THEN {h} ELSE Posts(s)
  BY <1>1, <1>3, <1>5, <1>7 DEF Posts
<1>9. OnePost'
  <2> SUFFICES ASSUME NEW g \in Handles PROVE HandlePosts(g)'
    BY DEF OnePost
  <2>1. HandlePosts(g)
    BY DEF CoverInv, OnePost
  <2>2. CASE g = h
    <3>1. /\ pc'[g] = "fsSet" /\ change'[g].class \in {"disposition", "onClose"}
          /\ change'[g].post = p /\ stream'[g] = x
      BY <1>1, <1>3, <1>5, <2>2, IsoDeleteAssumption
    <3>2. ASSUME p
          PROVE  /\ has'[x] /\ NumOps'[x] > 0
                 /\ \A k \in Handles : stream'[k] = x /\ change'[k].post => k = g
      <4>1. has[x] /\ has'[x] /\ NumOps'[x] > 0
        <5>1. has[x] /\ NumOps[x] \in Nat /\ NumOps'[x] = NumOps[x] + 1
          BY <1>1, <1>2, <1>6, <3>2
        <5> QED
          BY <1>3, <5>1
      <4>2. \A k \in Handles : ~(stream[k] = x /\ change[k].post)
        BY <1>7, <3>2 DEF Posts
      <4> QED
        BY <1>3, <1>5, <2>2, <4>1, <4>2
    <3>3. (\A d \in BOOLEAN : Posting(g, "onClose", d) => doc[g] = d)'
      BY <3>1 DEF Posting
    <3>4. p => (\A k \in Posts(stream[g]) : k = g)'
      BY <3>1, <3>2 DEF Posts
    <3> QED
      BY <3>1, <3>2, <3>3, <3>4 DEF HandlePosts
  <2>3. CASE g # h
    BY <1>1, <1>2, <1>3, <1>5, <1>6, <1>7, <1>8, <2>1, <2>3 DEF CoverInv, HandlePosts, Posting, CoverTypes, Posts
  <2> QED
    BY <2>2, <2>3
<1>10. /\ \A s \in Streams : Raised(s) => Raised(s)'
       /\ has[x] /\ ~p => Raised(x)'
  <2>1. has[x] /\ ~p => NumOps[x] > 0 /\ Posts(x)' = Posts(x)
    BY <1>1, <1>2, <1>6, <1>8
  <2>2. ASSUME NEW s \in Streams, Raised(s) PROVE Raised(s)'
    <3>1. NumOps[s] > (IF Posts(s) = {} THEN 0 ELSE 1) /\ NumOps'[s] >= NumOps[s]
      BY <1>6, <2>2 DEF Raised
    <3>2. CASE p /\ s = x
      BY <1>2, <1>6, <1>7, <3>1, <3>2
    <3>3. CASE ~(p /\ s = x)
      BY <1>6, <1>8, <3>1, <3>3 DEF Raised
    <3> QED
      BY <3>2, <3>3
  <2>3. has[x] /\ ~p => Raised(x)'
    BY <1>6, <2>1 DEF Raised
  <2> QED
    BY <2>2, <2>3
<1>11. ASSUME Sure' PROVE (\A s \in Streams : pending[s] => MarkCovered(s))' /\ (\A g \in Handles : HandleCovered(g))'
  <2>1. Sure /\ ~(f /\ ~has[x])
    BY <1>3, <1>11 DEF Sure
  <2>2. ASSUME NEW s \in Streams, pending'[s] PROVE MarkCovered(s)'
    <3>1. MarkCovered(s)
      BY <1>3, <2>1, <2>2 DEF CoverInv, MarksCovered
    <3>2. \A g \in Handles, c \in {"disposition"}, d \in BOOLEAN : Posting(g, c, d)' <=> Posting(g, c, d)
      BY <1>3, <1>5 DEF Posting
    <3> QED
      BY <1>3, <1>7, <1>8, <1>10, <1>5, <3>1, <3>2 DEF MarkCovered, Posting
  <2>3. ASSUME NEW g \in Handles PROVE HandleCovered(g)'
    <3>1. HandleCovered(g)
      BY <2>1 DEF CoverInv, MarksCovered
    <3>2. CASE g = h
      BY <1>1, <1>2, <1>3, <1>5, <1>10, <2>1, <3>1, <3>2 DEF HandleCovered, Posting
    <3>3. CASE g # h
      <4>1. stream[g] \in Streams
        BY DEF CoverInv, CoverTypes
      <4> QED
        BY <1>3, <1>5, <1>10, <3>1, <3>3, <4>1 DEF HandleCovered, Posting
    <3> QED
      BY <3>2, <3>3
  <2> QED
    BY <2>2, <2>3
<1> QED
  BY <1>4, <1>9, <1>11 DEF CoverInv, MarksCovered

(* The steps that leave the changes under way, and what covers a mark, as they  *)
(* are: a cleanup on its way after the file system's, the end of a transaction. *)
CoverKept ==
    /\ UNCHANGED << stream, doc, has, NumOps, SetDisp, DeleteOnClose, change >>
    /\ causes \subseteq causes'
    /\ pc' \in [Handles -> Labels]
    /\ pending' \in [Streams -> BOOLEAN] /\ \A s \in Streams : pending'[s] => pending[s]
    /\ \A h \in Handles : \/ pc'[h] = pc[h]
                          \/ /\ pc[h] \in {"test", "query", "context", "ask", "byId", "notify"}
                             /\ pc'[h] \in {"query", "context", "ask", "byId", "notify", "closed"}

LEMMA KeptCovers == ASSUME CoverInv, CoverKept PROVE CoverInv'
<1>1. CoverTypes'
  BY DEF CoverInv, CoverTypes, CoverKept
<1>2. /\ \A s \in Streams : Posts(s)' = Posts(s) /\ (Raised(s)' <=> Raised(s))
      /\ \A h \in Handles, c \in {"disposition", "onClose"}, f \in BOOLEAN :
            Posting(h, c, f)' <=> Posting(h, c, f)
  BY DEF CoverKept, Posts, Raised, Posting
<1>3. OnePost'
  <2> SUFFICES ASSUME NEW h \in Handles PROVE HandlePosts(h)'
    BY DEF OnePost
  <2>1. HandlePosts(h) /\ stream[h] \in Streams
    BY DEF CoverInv, OnePost, CoverTypes
  <2>2. Posts(stream[h])' = Posts(stream[h])
    BY DEF CoverKept, Posts
  <2> QED
    BY <1>2, <2>1, <2>2 DEF HandlePosts, CoverKept
<1>4. ASSUME Sure' PROVE (\A s \in Streams : pending[s] => MarkCovered(s))' /\ (\A h \in Handles : HandleCovered(h))'
  <2>1. Sure
    BY <1>4 DEF Sure, CoverKept
  <2>2. ASSUME NEW s \in Streams, pending'[s] PROVE MarkCovered(s)'
    <3>1. MarkCovered(s)
      BY <2>1, <2>2 DEF CoverInv, MarksCovered, CoverKept
    <3>2. \A h \in Posts(s) : h \in Handles
      BY DEF Posts
    <3> QED
      BY <1>2, <3>1, <3>2 DEF MarkCovered, CoverKept
  <2>3. ASSUME NEW h \in Handles PROVE HandleCovered(h)'
    <3>1. HandleCovered(h) /\ stream[h] \in Streams
      BY <2>1 DEF CoverInv, MarksCovered, CoverTypes
    <3>2. Raised(stream[h])' <=> Raised(stream[h])
      BY DEF CoverKept, Raised, Posts
    <3> QED
      BY <1>2, <3>1, <3>2 DEF HandleCovered, CoverKept
  <2> QED
    BY <2>2, <2>3
<1> QED
  BY <1>1, <1>3, <1>4 DEF CoverInv, MarksCovered

(* A file is opened. *)
LEMMA PreCreateCovers ==
  ASSUME CoverInv, NEW h \in Handles, NEW x \in Streams, NEW d \in BOOLEAN, NEW t \in BOOLEAN,
         FilterPreCreate(h, x, d, t)
  PROVE  CoverInv'
<1>1. /\ pc[h] = "unused" /\ pc' = [pc EXCEPT ![h] = IF d THEN "create" ELSE "open"]
      /\ stream' = [stream EXCEPT ![h] = x] /\ doc' = [doc EXCEPT ![h] = d]
      /\ UNCHANGED << pending, has, NumOps, SetDisp, DeleteOnClose, change, causes >>
  BY DEF FilterPreCreate
<1>2. CoverTypes'
  BY <1>1 DEF CoverInv, CoverTypes, Labels
<1>3. /\ ~change[h].post /\ pc'[h] \in {"create", "open"} /\ (d => pc'[h] = "create")
      /\ doc'[h] = d
      /\ \A g \in Handles \ {h} : pc'[g] = pc[g] /\ stream'[g] = stream[g] /\ doc'[g] = doc[g]
  BY <1>1 DEF CoverInv, CoverTypes, OnePost, HandlePosts
<1>4. /\ \A s \in Streams : Posts(s)' = Posts(s) /\ (Raised(s)' <=> Raised(s))
      /\ \A g \in Handles, c \in {"disposition", "onClose"}, f \in BOOLEAN :
            Posting(g, c, f)' <=> Posting(g, c, f)
  <2>1. \A s \in Streams : Posts(s)' = Posts(s)
    BY <1>1, <1>3 DEF Posts
  <2>2. \A s \in Streams : Raised(s)' <=> Raised(s)
    BY <1>1, <2>1 DEF Raised
  <2>3. \A g \in Handles, c \in {"disposition", "onClose"}, f \in BOOLEAN : Posting(g, c, f)' <=> Posting(g, c, f)
    BY <1>1, <1>3 DEF Posting
  <2> QED
    BY <2>1, <2>2, <2>3
<1>5. OnePost'
  <2> SUFFICES ASSUME NEW g \in Handles PROVE HandlePosts(g)'
    BY DEF OnePost
  <2>1. CASE g = h
    BY <1>1, <1>3, <2>1 DEF HandlePosts, Posting
  <2>2. CASE g # h
    <3>1. HandlePosts(g) /\ stream'[g] = stream[g] /\ stream[g] \in Streams
      BY <1>3, <2>2 DEF CoverInv, OnePost, CoverTypes
    <3>2. change[g].post => (\A k \in Posts(stream[g]) : k = g)'
      BY <1>1, <1>3, <3>1 DEF HandlePosts, Posts
    <3> QED
      BY <1>1, <1>3, <1>4, <2>2, <3>1, <3>2 DEF HandlePosts
  <2> QED
    BY <2>1, <2>2
<1>6. ASSUME Sure PROVE (\A s \in Streams : pending[s] => MarkCovered(s))' /\ (\A g \in Handles : HandleCovered(g))'
  <2>1. ASSUME NEW s \in Streams, pending'[s] PROVE MarkCovered(s)'
    <3>1. MarkCovered(s)
      BY <1>1, <1>6, <2>1 DEF CoverInv, MarksCovered
    <3>2. \A g \in Posts(s) : g \in Handles
      BY DEF Posts
    <3> QED
      BY <1>1, <1>4, <3>1, <3>2 DEF MarkCovered
  <2>2. ASSUME NEW g \in Handles PROVE HandleCovered(g)'
    <3>1. CASE g = h
      BY <1>3, <3>1 DEF HandleCovered
    <3>2. CASE g # h
      <4>1. HandleCovered(g) /\ stream'[g] = stream[g] /\ stream[g] \in Streams
        BY <1>3, <1>6, <3>2 DEF CoverInv, MarksCovered, CoverTypes
      <4>2. Raised(stream[g])' <=> Raised(stream[g])
        BY <1>1, <1>3, <1>4, <4>1 DEF Raised, Posts
      <4> QED
        BY <1>1, <1>3, <1>4, <3>2, <4>1, <4>2 DEF HandleCovered
    <3> QED
      BY <3>1, <3>2
  <2> QED
    BY <2>1, <2>2
<1> QED
  BY <1>1, <1>2, <1>5, <1>6 DEF CoverInv, MarksCovered, Sure

(* The open of a handle that deletes on close is seen, or blamed. *)
LEMMA PostCreateCovers == ASSUME CoverInv, NEW h \in Handles, FilterPostCreate(h) PROVE CoverInv'
<1>1. PICK x \in Streams : x = stream[h]
  BY DEF CoverInv, CoverTypes
<1>2. /\ pc[h] = "create" /\ pc' = [pc EXCEPT ![h] = "open"]
      /\ UNCHANGED << stream, doc, pending, NumOps, SetDisp, change >>
      /\ causes \subseteq causes'
      /\ \/ has' = [has EXCEPT ![x] = TRUE] /\ DeleteOnClose' = [DeleteOnClose EXCEPT ![x] = TRUE]
         \/ "unseen" \in causes' /\ UNCHANGED << has, DeleteOnClose >>
  BY <1>1 DEF FilterPostCreate
<1>3. CoverTypes'
  BY <1>1, <1>2 DEF CoverInv, CoverTypes, Labels
<1>4. /\ ~change[h].post /\ pc'[h] = "open" /\ \A g \in Handles \ {h} : pc'[g] = pc[g]
      /\ \A s \in Streams : (has[s] => has'[s]) /\ (DeleteOnClose[s] => DeleteOnClose'[s])
      /\ Sure' => has'[x] /\ DeleteOnClose'[x]
  BY <1>1, <1>2 DEF CoverInv, CoverTypes, OnePost, HandlePosts, Sure
<1>5. /\ \A s \in Streams : Posts(s)' = Posts(s) /\ (Raised(s)' <=> Raised(s))
      /\ \A g \in Handles, c \in {"disposition", "onClose"}, f \in BOOLEAN :
            Posting(g, c, f)' <=> Posting(g, c, f)
  BY <1>2, <1>4 DEF Posts, Raised, Posting
<1>6. OnePost'
  <2> SUFFICES ASSUME NEW g \in Handles PROVE HandlePosts(g)'
    BY DEF OnePost
  <2>1. HandlePosts(g) /\ stream[g] \in Streams
    BY DEF CoverInv, OnePost, CoverTypes
  <2>2. Posts(stream[g])' = Posts(stream[g])
    BY <1>2 DEF Posts
  <2>3. CASE g = h
    BY <1>2, <1>4, <2>3 DEF HandlePosts, Posting
  <2>4. CASE g # h
    BY <1>2, <1>4, <1>5, <2>1, <2>2, <2>4 DEF HandlePosts
  <2> QED
    BY <2>3, <2>4
<1>7. ASSUME Sure' PROVE (\A s \in Streams : pending[s] => MarkCovered(s))' /\ (\A g \in Handles : HandleCovered(g))'
  <2>1. Sure
    BY <1>2, <1>7 DEF Sure
  <2>2. ASSUME NEW s \in Streams, pending'[s] PROVE MarkCovered(s)'
    <3>1. MarkCovered(s)
      BY <1>2, <2>1, <2>2 DEF CoverInv, MarksCovered
    <3>2. \A g \in Posts(s) : g \in Handles
      BY DEF Posts
    <3> QED
      BY <1>2, <1>4, <1>5, <3>1, <3>2 DEF MarkCovered
  <2>3. ASSUME NEW g \in Handles PROVE HandleCovered(g)'
    <3>1. HandleCovered(g) /\ stream[g] \in Streams
      BY <2>1 DEF CoverInv, MarksCovered, CoverTypes
    <3>2. Raised(stream[g])' <=> Raised(stream[g])
      BY <1>2 DEF Raised, Posts
    <3>3. CASE g = h
      BY <1>1, <1>2, <1>4, <1>7, <3>3 DEF HandleCovered
    <3>4. CASE g # h
      BY <1>2, <1>4, <1>5, <3>1, <3>2, <3>4 DEF HandleCovered
    <3> QED
      BY <3>3, <3>4
  <2> QED
    BY <2>2, <2>3
<1> QED
  BY <1>3, <1>6, <1>7 DEF CoverInv, MarksCovered

(* The file system makes a change, or fails: what it marks is counted already, *)
(* or has a post-operation that will set the flag.                             *)
LEMMA FsSetCovers == ASSUME CoverInv, NEW h \in Handles, FsSetInformation(h) PROVE CoverInv'
<1>1. PICK x \in Streams : x = stream[h]
  BY DEF CoverInv, CoverTypes
<1>2. PICK f \in BOOLEAN : f = change[h].delete
  BY DEF CoverInv, CoverTypes
<1>3. /\ pc[h] = "fsSet"
      /\ UNCHANGED << stream, has, NumOps, SetDisp, DeleteOnClose, causes >>
      /\ change' = [change EXCEPT ![h] = IF @.post THEN @ ELSE Idle]
      /\ \/ /\ pc' = [pc EXCEPT ![h] = IF change[h].post THEN "postSet" ELSE "open"]
            /\ \/ /\ change[h].class = "disposition"
                  /\ pending' = [pending EXCEPT ![x] = f] /\ UNCHANGED doc
               \/ /\ change[h].class # "disposition"
                  /\ doc' = [doc EXCEPT ![h] = f] /\ UNCHANGED pending
         \/ /\ pc' = [pc EXCEPT ![h] = IF change[h].post THEN "decrement" ELSE "open"]
            /\ UNCHANGED << pending, doc >>
  BY <1>1, <1>2 DEF FsSetInformation
<1>4. CoverTypes'
  BY <1>1, <1>2, <1>3 DEF CoverInv, CoverTypes, Labels, Idle
<1>5. /\ change[h].post => change'[h] = change[h] /\ pc'[h] \in {"postSet", "decrement"}
      /\ ~change[h].post => ~change'[h].post /\ pc'[h] = "open"
      /\ \A g \in Handles \ {h} : change'[g] = change[g] /\ pc'[g] = pc[g] /\ doc'[g] = doc[g]
      /\ \A g \in Handles : change'[g].post = change[g].post
      /\ \A s \in Streams \ {x} : pending'[s] = pending[s]
  BY <1>1, <1>3 DEF CoverInv, CoverTypes, Idle
<1>6. \A s \in Streams : Posts(s)' = Posts(s) /\ (Raised(s)' <=> Raised(s))
  BY <1>3, <1>5 DEF Posts, Raised
<1>7. \A g \in Handles \ {h}, c \in {"disposition", "onClose"}, d \in BOOLEAN : Posting(g, c, d)' <=> Posting(g, c, d)
  BY <1>5 DEF Posting
<1>8. OnePost'
  <2> SUFFICES ASSUME NEW g \in Handles PROVE HandlePosts(g)'
    BY DEF OnePost
  <2>1. HandlePosts(g) /\ stream[g] \in Streams
    BY DEF CoverInv, OnePost, CoverTypes
  <2>2. Posts(stream[g])' = Posts(stream[g])
    BY <1>3, <1>5 DEF Posts
  <2>3. CASE g = h
    <3>1. \A d \in BOOLEAN : Posting(g, "onClose", d)' => doc'[g] = d
      BY <1>1, <1>2, <1>3, <1>5, <2>3 DEF Posting, CoverInv, CoverTypes, Idle
    <3> QED
      BY <1>3, <1>5, <2>1, <2>2, <2>3, <3>1 DEF HandlePosts
  <2>4. CASE g # h
    BY <1>3, <1>5, <1>7, <2>1, <2>2, <2>4 DEF HandlePosts
  <2> QED
    BY <2>3, <2>4
<1>9. ASSUME Sure PROVE (\A s \in Streams : pending[s] => MarkCovered(s))' /\ (\A g \in Handles : HandleCovered(g))'
  <2>1. /\ HandleCovered(h) /\ HandlePosts(h) /\ change[h].post \in BOOLEAN
        /\ change[h].class \in Classes \cup {"none"}
    BY <1>9 DEF CoverInv, MarksCovered, OnePost, CoverTypes
  <2>2. f /\ ~change[h].post => has[x] /\ Raised(x)
    BY <1>1, <1>2, <1>3, <2>1 DEF HandleCovered
  <2>3. change[h].post => has[x] /\ h \in Posts(x) /\ \A g \in Posts(x) : g = h
    BY <1>1, <2>1 DEF HandlePosts, Posts
  <2>4. ASSUME NEW s \in Streams, pending'[s] PROVE MarkCovered(s)'
    <3>1. \A g \in Posts(s) : g \in Handles /\ stream[g] = s
      BY DEF Posts
    <3>2. ASSUME s # x \/ ~change[h].post, pending[s] PROVE MarkCovered(s)'
      <4>1. MarkCovered(s)
        BY <1>9, <3>2 DEF CoverInv, MarksCovered
      <4>2. h \notin Posts(s)
        BY <1>1, <3>2 DEF Posts
      <4> QED
        BY <1>3, <1>6, <1>7, <3>1, <4>1, <4>2 DEF MarkCovered
    <3>3. CASE s = x /\ change[h].post
      <4>1. CASE pc'[h] = "postSet" /\ change[h].class = "disposition" /\ f
        <5>1. Posting(h, "disposition", TRUE)'
          BY <1>2, <1>5, <3>3, <4>1 DEF Posting
        <5> QED
          BY <1>3, <1>6, <2>3, <3>3, <5>1 DEF MarkCovered
      <4>2. CASE ~(pc'[h] = "postSet" /\ change[h].class = "disposition")
        <5>1. MarkCovered(x)
          BY <1>1, <1>3, <1>5, <1>9, <2>1, <2>4, <3>3, <4>2 DEF CoverInv, CoverTypes, MarksCovered
        <5>2. \A d \in BOOLEAN : ~Posting(h, "disposition", d) /\ ~Posting(h, "disposition", d)'
          BY <1>3, <1>5, <3>3, <4>2 DEF Posting
        <5> QED
          BY <1>3, <1>6, <2>3, <3>3, <5>1, <5>2 DEF MarkCovered
      <4>3. CASE pc'[h] = "postSet" /\ change[h].class = "disposition" /\ ~f
        BY <1>3, <1>1, <2>4, <3>3, <4>3 DEF CoverInv, CoverTypes
      <4> QED
        BY <4>1, <4>2, <4>3
    <3>4. CASE s = x /\ ~change[h].post /\ ~pending[s]
      <4>1. f
        BY <1>1, <1>3, <2>4, <3>4 DEF CoverInv, CoverTypes
      <4> QED
        BY <1>3, <1>6, <2>2, <3>4, <4>1 DEF MarkCovered
    <3>5. s # x => pending[s]
      BY <1>5, <2>4
    <3> QED
      BY <3>2, <3>3, <3>4, <3>5
  <2>5. ASSUME NEW g \in Handles PROVE HandleCovered(g)'
    <3>1. HandleCovered(g) /\ stream[g] \in Streams
      BY <1>9 DEF CoverInv, MarksCovered, CoverTypes
    <3>2. Raised(stream[g])' <=> Raised(stream[g])
      BY <1>3, <1>5 DEF Raised, Posts
    <3>3. CASE g # h
      BY <1>3, <1>5, <1>7, <3>1, <3>2, <3>3 DEF HandleCovered
    <3>4. CASE g = h
      <4>1. SUFFICES ASSUME doc'[h]
                     PROVE  has[x] /\ (DeleteOnClose[x] \/ Raised(x) \/ Posting(h, "onClose", TRUE)')
        BY <1>1, <1>3, <1>5, <3>2, <3>4 DEF HandleCovered
      <4>2. CASE doc[h]
        BY <1>1, <1>3, <2>1, <4>2 DEF HandleCovered, Posting
      <4>3. CASE ~doc[h]
        <5>1. f /\ pc'[h] = (IF change[h].post THEN "postSet" ELSE "open") /\ change[h].class # "disposition"
          BY <1>1, <1>3, <4>1, <4>3 DEF CoverInv, CoverTypes
        <5>2. CASE change[h].post
          <6>1. Posting(h, "onClose", TRUE)'
            BY <1>2, <1>3, <1>5, <2>1, <5>1, <5>2 DEF Posting, HandlePosts
          <6> QED
            BY <2>3, <5>2, <6>1
        <5>3. CASE ~change[h].post
          BY <2>2, <5>1, <5>3
        <5> QED
          BY <5>2, <5>3
      <4> QED
        BY <4>2, <4>3
    <3> QED
      BY <3>3, <3>4
  <2> QED
    BY <2>4, <2>5
<1> QED
  BY <1>3, <1>4, <1>8, <1>9 DEF CoverInv, MarksCovered, Sure

(* A post-operation sets the flag of its class; it clears that of the handles   *)
(* only when no mark rests on it, or is blamed.                                 *)
LEMMA PostSetCovers == ASSUME CoverInv, NEW h \in Handles, FilterPostSetInformation(h) PROVE CoverInv'
<1>1. PICK x \in Streams : x = stream[h]
  BY DEF CoverInv, CoverTypes
<1>2. PICK f \in BOOLEAN : f = change[h].delete
  BY DEF CoverInv, CoverTypes
<1>3. /\ pc[h] = "postSet" /\ pc' = [pc EXCEPT ![h] = "decrement"]
      /\ UNCHANGED << stream, doc, pending, has, NumOps, change >>
      /\ causes \subseteq causes'
      /\ \/ /\ change[h].class = "onClose"
            /\ DeleteOnClose' = [DeleteOnClose EXCEPT ![x] = f] /\ UNCHANGED SetDisp
            /\ ~f /\ ((\E g \in Opened(x) \ {h} : doc[g]) \/ (pending[x] /\ ~SetDisp[x])) => "clear" \in causes'
         \/ /\ change[h].class # "onClose"
            /\ SetDisp' = [SetDisp EXCEPT ![x] = f] /\ UNCHANGED DeleteOnClose
  BY <1>1, <1>2 DEF FilterPostSetInformation
<1>4. CoverTypes'
  BY <1>1, <1>2, <1>3 DEF CoverInv, CoverTypes, Labels
<1>5. /\ change[h].post /\ change[h].class \in {"disposition", "onClose"} /\ has[x]
      /\ h \in Posts(x) /\ \A g \in Posts(x) : g = h
      /\ change[h].class = "onClose" => doc[h] = f
  BY <1>1, <1>2, <1>3 DEF CoverInv, OnePost, HandlePosts, Posts, Posting
<1>6. /\ pc'[h] = "decrement" /\ \A g \in Handles \ {h} : pc'[g] = pc[g]
      /\ \A s \in Streams \ {x} : SetDisp'[s] = SetDisp[s] /\ DeleteOnClose'[s] = DeleteOnClose[s]
  BY <1>3 DEF CoverInv, CoverTypes
<1>7. /\ \A s \in Streams : Posts(s)' = Posts(s) /\ (Raised(s)' <=> Raised(s))
      /\ \A g \in Handles \ {h}, c \in {"disposition", "onClose"}, d \in BOOLEAN : Posting(g, c, d)' <=> Posting(g, c, d)
      /\ \A c \in {"disposition", "onClose"}, d \in BOOLEAN : ~Posting(h, c, d)'
  BY <1>3, <1>6 DEF Posts, Raised, Posting
<1>8. OnePost'
  <2> SUFFICES ASSUME NEW g \in Handles PROVE HandlePosts(g)'
    BY DEF OnePost
  <2>1. HandlePosts(g) /\ stream[g] \in Streams
    BY DEF CoverInv, OnePost, CoverTypes
  <2>2. Posts(stream[g])' = Posts(stream[g])
    BY <1>3 DEF Posts
  <2>3. CASE g = h
    BY <1>3, <1>5, <1>6, <1>7, <2>1, <2>2, <2>3 DEF HandlePosts
  <2>4. CASE g # h
    BY <1>3, <1>6, <1>7, <2>1, <2>2, <2>4 DEF HandlePosts
  <2> QED
    BY <2>3, <2>4
<1>9. ASSUME Sure' PROVE (\A s \in Streams : pending[s] => MarkCovered(s))' /\ (\A g \in Handles : HandleCovered(g))'
  <2>1. Sure
    BY <1>3, <1>9 DEF Sure
  <2>2. change[h].class = "onClose" /\ ~f =>
          /\ \A g \in Opened(x) : g # h => ~doc[g]
          /\ pending[x] => SetDisp'[x]
    BY <1>3, <1>9 DEF Sure
  <2>3. change[h].class = "onClose" /\ f => DeleteOnClose'[x]
    BY <1>1, <1>3 DEF CoverInv, CoverTypes
  <2>4. change[h].class = "disposition" => SetDisp'[x] = f /\ DeleteOnClose'[x] = DeleteOnClose[x]
    BY <1>1, <1>3 DEF CoverInv, CoverTypes
  <2>5. ASSUME NEW s \in Streams, pending'[s] PROVE MarkCovered(s)'
    <3>1. MarkCovered(s)
      BY <1>3, <2>1, <2>5 DEF CoverInv, MarksCovered
    <3>2. \A g \in Posts(s) : g \in Handles /\ stream[g] = s
      BY DEF Posts
    <3>3. CASE s # x
      <4>1. h \notin Posts(s)
        BY <1>1, <3>3 DEF Posts
      <4> QED
        BY <1>3, <1>6, <1>7, <3>1, <3>2, <3>3, <4>1 DEF MarkCovered
    <3>4. CASE s = x
      <4>1. CASE change[h].class = "onClose"
        BY <1>3, <1>5, <1>7, <2>2, <2>3, <2>5, <3>4, <4>1 DEF MarkCovered
      <4>2. CASE change[h].class = "disposition" /\ f
        BY <1>3, <1>5, <1>7, <2>4, <3>4, <4>2 DEF MarkCovered
      <4>3. CASE change[h].class = "disposition" /\ ~f
        <5>1. Posting(h, "disposition", FALSE) /\ ~Posting(h, "disposition", TRUE)
          BY <1>2, <1>3, <1>5, <4>3 DEF Posting
        <5>2. Raised(x) \/ DeleteOnClose[x]
          BY <1>5, <3>1, <3>4, <5>1 DEF MarkCovered
        <5> QED
          BY <1>3, <1>5, <1>7, <2>4, <3>4, <4>3, <5>2 DEF MarkCovered
      <4> QED
        BY <1>5, <4>1, <4>2, <4>3
    <3> QED
      BY <3>3, <3>4
  <2>6. ASSUME NEW g \in Handles PROVE HandleCovered(g)'
    <3>1. HandleCovered(g) /\ stream[g] \in Streams
      BY <2>1 DEF CoverInv, MarksCovered, CoverTypes
    <3>2. Raised(stream[g])' <=> Raised(stream[g])
      BY <1>3 DEF Raised, Posts
    <3>3. pc'[g] = "fsSet" => pc[g] = "fsSet" /\ g # h
      BY <1>3, <1>6
    <3>4. SUFFICES ASSUME doc[g], pc'[g] \in {"open", "fsSet", "postSet", "decrement"}
                   PROVE  has[stream[g]] /\ (DeleteOnClose'[stream[g]] \/ Raised(stream[g]) \/ Posting(g, "onClose", TRUE)')
      BY <1>3, <3>1, <3>2, <3>3 DEF HandleCovered
    <3>5. CASE stream[g] # x
      <4>1. g # h
        BY <1>1, <3>5
      <4> QED
        BY <1>6, <1>7, <3>1, <3>4, <3>5, <4>1 DEF HandleCovered
    <3>6. CASE stream[g] = x
      <4>1. CASE change[h].class = "onClose"
        <5>1. f
          <6>1. SUFFICES ASSUME ~f PROVE FALSE
            OBVIOUS
          <6>2. g # h
            BY <1>5, <3>4, <4>1, <6>1
          <6>3. g \in Opened(x)
            BY <1>6, <3>4, <3>6, <6>2 DEF Opened
          <6> QED
            BY <2>2, <3>4, <4>1, <6>1, <6>2, <6>3
        <5> QED
          BY <1>5, <2>3, <3>6, <4>1, <5>1
      <4>2. CASE change[h].class = "disposition"
        <5>1. pc[g] \in {"open", "fsSet", "postSet", "decrement"}
          BY <1>3, <1>6, <3>4
        <5>2. Posting(g, "onClose", TRUE) => g # h
          BY <4>2 DEF Posting
        <5> QED
          BY <1>5, <1>7, <2>4, <3>1, <3>4, <3>6, <4>2, <5>1, <5>2 DEF HandleCovered
      <4> QED
        BY <1>5, <4>1, <4>2
    <3> QED
      BY <3>5, <3>6
  <2> QED
    BY <2>5, <2>6
<1> QED
  BY <1>4, <1>8, <1>9 DEF CoverInv, MarksCovered

(* A change that had a post-operation is over: what NumOps had more, it has still. *)
LEMMA DecrementCovers == ASSUME CoverInv, NEW h \in Handles, DecrementNumOps(h) PROVE CoverInv'
<1>1. PICK x \in Streams : x = stream[h]
  BY DEF CoverInv, CoverTypes
<1>2. /\ pc[h] = "decrement" /\ pc' = [pc EXCEPT ![h] = "open"]
      /\ UNCHANGED << stream, doc, pending, has, SetDisp, DeleteOnClose, causes >>
      /\ change' = [change EXCEPT ![h] = Idle] /\ NumOps' = [NumOps EXCEPT ![x] = @ - 1]
  BY <1>1 DEF DecrementNumOps
<1>3. /\ change[h].post /\ NumOps[x] > 0 /\ Posts(x) = {h}
  BY <1>1, <1>2 DEF CoverInv, OnePost, HandlePosts, Posts
<1>4. CoverTypes'
  BY <1>1, <1>2, <1>3 DEF CoverInv, CoverTypes, Labels, Idle
<1>5. /\ pc'[h] = "open" /\ ~change'[h].post
      /\ \A g \in Handles \ {h} : pc'[g] = pc[g] /\ change'[g] = change[g]
      /\ NumOps[x] \in Nat /\ NumOps'[x] = NumOps[x] - 1
      /\ \A s \in Streams \ {x} : NumOps'[s] = NumOps[s]
  BY <1>1, <1>2 DEF CoverInv, CoverTypes, Idle
<1>6. Posts(x)' = {} /\ \A s \in Streams \ {x} : Posts(s)' = Posts(s)
  <2>1. \A g \in Handles : stream[g] = x /\ change[g].post => g = h
    BY <1>3 DEF Posts
  <2> QED
    BY <1>1, <1>2, <1>5, <2>1 DEF Posts
<1>7. \A s \in Streams : Raised(s) => Raised(s)'
  <2>1. Raised(x) => Raised(x)'
    BY <1>3, <1>5, <1>6 DEF Raised
  <2>2. ASSUME NEW s \in Streams, s # x, Raised(s) PROVE Raised(s)'
    BY <1>5, <1>6, <2>2 DEF Raised
  <2> QED
    BY <2>1, <2>2
<1>8. \A g \in Handles, c \in {"disposition", "onClose"}, d \in BOOLEAN : Posting(g, c, d)' <=> Posting(g, c, d)
  BY <1>2, <1>5 DEF Posting
<1>9. OnePost'
  <2> SUFFICES ASSUME NEW g \in Handles PROVE HandlePosts(g)'
    BY DEF OnePost
  <2>1. HandlePosts(g) /\ stream[g] \in Streams
    BY DEF CoverInv, OnePost, CoverTypes
  <2>2. CASE g = h
    BY <1>5, <2>2 DEF HandlePosts, Posting
  <2>3. CASE g # h
    <3>1. change[g].post => stream[g] # x
      BY <1>1, <1>3, <2>3 DEF Posts
    <3>2. change[g].post => Posts(stream[g])' = Posts(stream[g])
      BY <1>1, <1>2, <1>5, <2>1, <3>1 DEF Posts
    <3> QED
      BY <1>2, <1>5, <1>8, <2>1, <2>3, <3>1, <3>2 DEF HandlePosts
  <2> QED
    BY <2>2, <2>3
<1>10. ASSUME Sure PROVE (\A s \in Streams : pending[s] => MarkCovered(s))' /\ (\A g \in Handles : HandleCovered(g))'
  <2>1. ASSUME NEW s \in Streams, pending'[s] PROVE MarkCovered(s)'
    <3>1. MarkCovered(s)
      BY <1>2, <1>10, <2>1 DEF CoverInv, MarksCovered
    <3>2. \A g \in Posts(s) : g \in Handles
      BY DEF Posts
    <3>3. CASE s = x
      <4>1. ~Posting(h, "disposition", TRUE)
        BY <1>2 DEF Posting
      <4> QED
        BY <1>2, <1>3, <1>6, <1>7, <3>1, <3>3, <4>1 DEF MarkCovered
    <3>4. CASE s # x
      BY <1>2, <1>6, <1>7, <1>8, <3>1, <3>2, <3>4 DEF MarkCovered
    <3> QED
      BY <3>3, <3>4
  <2>2. ASSUME NEW g \in Handles PROVE HandleCovered(g)'
    <3>1. HandleCovered(g) /\ stream[g] \in Streams
      BY <1>10 DEF CoverInv, MarksCovered, CoverTypes
    <3>2. Raised(stream[g]) => Raised(stream[g])'
      <4>1. PICK s \in Streams : s = stream[g]
        BY <3>1
      <4>2. Raised(stream[g])' <=> Raised(s)'
        BY <1>2, <4>1 DEF Raised, Posts
      <4> QED
        BY <1>7, <4>1, <4>2
    <3>3. CASE g = h
      BY <1>2, <1>5, <1>8, <3>1, <3>2, <3>3 DEF HandleCovered
    <3>4. CASE g # h
      BY <1>2, <1>5, <1>8, <3>1, <3>2, <3>4 DEF HandleCovered
    <3> QED
      BY <3>3, <3>4
  <2> QED
    BY <2>1, <2>2
<1> QED
  BY <1>2, <1>4, <1>9, <1>10 DEF CoverInv, MarksCovered, Sure

(* A handle is closed: the mark it leaves is covered as the handle was. *)
LEMMA PreCleanupCovers == ASSUME CoverInv, NEW h \in Handles, FilterPreCleanup(h) PROVE CoverInv'
<1>1. PICK x \in Streams : x = stream[h]
  BY DEF CoverInv, CoverTypes
<1>2. /\ pc[h] = "open" /\ pc' = [pc EXCEPT ![h] = IF has[x] THEN "test" ELSE "closed"]
      /\ UNCHANGED << stream, doc, has, NumOps, SetDisp, DeleteOnClose, change >>
      /\ pending' = [pending EXCEPT ![x] = @ \/ doc[h]]
      /\ causes \subseteq causes'
  BY <1>1 DEF FilterPreCleanup
<1>3. CoverTypes'
  BY <1>1, <1>2 DEF CoverInv, CoverTypes, Labels
<1>4. /\ ~change[h].post /\ pc'[h] \in {"test", "closed"}
      /\ \A g \in Handles \ {h} : pc'[g] = pc[g]
      /\ \A s \in Streams : pending'[s] => pending[s] \/ (s = x /\ doc[h])
  BY <1>1, <1>2 DEF CoverInv, CoverTypes, OnePost, HandlePosts
<1>5. /\ \A s \in Streams : Posts(s)' = Posts(s) /\ (Raised(s)' <=> Raised(s))
      /\ \A g \in Handles, c \in {"disposition", "onClose"}, f \in BOOLEAN :
            Posting(g, c, f)' <=> Posting(g, c, f)
  BY <1>2, <1>4 DEF Posts, Raised, Posting
<1>6. OnePost'
  <2> SUFFICES ASSUME NEW g \in Handles PROVE HandlePosts(g)'
    BY DEF OnePost
  <2>1. HandlePosts(g) /\ stream[g] \in Streams
    BY DEF CoverInv, OnePost, CoverTypes
  <2>2. Posts(stream[g])' = Posts(stream[g])
    BY <1>2 DEF Posts
  <2>3. CASE g = h
    BY <1>2, <1>4, <2>3 DEF HandlePosts, Posting
  <2>4. CASE g # h
    BY <1>2, <1>4, <1>5, <2>1, <2>2, <2>4 DEF HandlePosts
  <2> QED
    BY <2>3, <2>4
<1>7. ASSUME Sure' PROVE (\A s \in Streams : pending[s] => MarkCovered(s))' /\ (\A g \in Handles : HandleCovered(g))'
  <2>1. Sure
    BY <1>2, <1>7 DEF Sure
  <2>2. ASSUME NEW s \in Streams, pending'[s] PROVE MarkCovered(s)'
    <3>1. \A g \in Posts(s) : g \in Handles
      BY DEF Posts
    <3>2. CASE pending[s]
      <4>1. MarkCovered(s)
        BY <2>1, <3>2 DEF CoverInv, MarksCovered
      <4> QED
        BY <1>2, <1>5, <3>1, <4>1 DEF MarkCovered
    <3>3. CASE s = x /\ doc[h]
      <4>1. HandleCovered(h) /\ ~Posting(h, "onClose", TRUE)
        BY <1>2, <2>1 DEF CoverInv, MarksCovered, Posting
      <4>2. has[x] /\ (DeleteOnClose[x] \/ Raised(x))
        BY <1>1, <1>2, <3>3, <4>1 DEF HandleCovered
      <4> QED
        BY <1>2, <1>5, <3>3, <4>2 DEF MarkCovered
    <3> QED
      BY <1>4, <2>2, <3>2, <3>3
  <2>3. ASSUME NEW g \in Handles PROVE HandleCovered(g)'
    <3>1. HandleCovered(g) /\ stream[g] \in Streams
      BY <2>1 DEF CoverInv, MarksCovered, CoverTypes
    <3>2. Raised(stream[g])' <=> Raised(stream[g])
      BY <1>2 DEF Raised, Posts
    <3>3. CASE g = h
      BY <1>4, <3>3 DEF HandleCovered
    <3>4. CASE g # h
      BY <1>2, <1>4, <1>5, <3>1, <3>2, <3>4 DEF HandleCovered
    <3> QED
      BY <3>3, <3>4
  <2> QED
    BY <2>2, <2>3
<1> QED
  BY <1>3, <1>6, <1>7 DEF CoverInv, MarksCovered

(* The other steps of a handle belong to its cleanup. *)
LEMMA CleanupCovers ==
  ASSUME CoverTypes, NEW h \in Handles,
         \/ FilterPostCleanup(h) \/ QueryDeleted(h) \/ GetTransactionContext(h) \/ SolIfFileDeleted(h)
         \/ SolGetFileId(h) \/ SolBuildFileIdString(h) \/ SolDetectDeleteByFileId(h) \/ SolNotifyDelete(h)
  PROVE  CoverKept
<1>1. /\ UNCHANGED << stream, doc, has, NumOps, SetDisp, DeleteOnClose, change, pending >>
      /\ causes \subseteq causes'
      /\ pc[h] \in {"test", "query", "context", "ask", "byId", "notify"}
      /\ \E l \in {"query", "context", "ask", "byId", "notify", "closed"} : pc' = [pc EXCEPT ![h] = l]
  <2>1. CASE FilterPostCleanup(h)
    BY <2>1 DEF FilterPostCleanup
  <2>2. CASE QueryDeleted(h)
    BY <2>2 DEF QueryDeleted
  <2>3. CASE GetTransactionContext(h)
    BY <2>3 DEF GetTransactionContext
  <2>4. CASE SolIfFileDeleted(h)
    BY <2>4 DEF SolIfFileDeleted, Answer, GiveUp
  <2>5. CASE SolGetFileId(h)
    BY <2>5 DEF SolGetFileId, Answer, GiveUp
  <2>6. CASE SolBuildFileIdString(h)
    BY <2>6 DEF SolBuildFileIdString, GiveUp
  <2>7. CASE SolDetectDeleteByFileId(h)
    BY <2>7 DEF SolDetectDeleteByFileId, Answer, GiveUp
  <2>8. CASE SolNotifyDelete(h)
    BY <2>8 DEF SolNotifyDelete, SolAddTransDeleteNotify
  <2> QED
    BY <2>1, <2>2, <2>3, <2>4, <2>5, <2>6, <2>7, <2>8
<1> QED
  BY <1>1 DEF CoverTypes, CoverKept, Labels

LEMMA RestCovers ==
  ASSUME CoverTypes, EndTransaction \/ FilterTransactionNotificationCallback \/ UNCHANGED vars
  PROVE  CoverKept
<1>1. CASE EndTransaction
  BY <1>1 DEF EndTransaction, CoverTypes, CoverKept
<1>2. CASE FilterTransactionNotificationCallback
  BY <1>2 DEF FilterTransactionNotificationCallback, CoverTypes, CoverKept
<1>3. CASE UNCHANGED vars
  BY <1>3 DEF vars, CoverTypes, CoverKept
<1> QED
  BY <1>1, <1>2, <1>3

LEMMA CoverInvariance == Spec => []CoverInv
<1>1. CoverInv /\ [Next]_vars => CoverInv'
  <2> SUFFICES ASSUME CoverInv, [Next]_vars PROVE CoverInv'
    OBVIOUS
  <2>1. CoverTypes
    BY DEF CoverInv
  <2>2. ASSUME NEW h \in Handles, Step(h) PROVE CoverInv'
    <3>1. CASE \E s \in Streams, d, t \in BOOLEAN : FilterPreCreate(h, s, d, t)
      BY <3>1, PreCreateCovers
    <3>2. CASE \E class \in Classes, f \in BOOLEAN : FilterPreSetInformation(h, class, f)
      BY <3>2, PreSetCovers
    <3>3. CASE \/ FilterPostCreate(h) \/ FsSetInformation(h) \/ FilterPostSetInformation(h)
               \/ DecrementNumOps(h) \/ FilterPreCleanup(h)
      BY <3>3, PostCreateCovers, FsSetCovers, PostSetCovers, DecrementCovers, PreCleanupCovers
    <3> QED
      BY <2>1, <2>2, <3>1, <3>2, <3>3, CleanupCovers, KeptCovers DEF Step
  <2> QED
    BY <2>1, <2>2, RestCovers, KeptCovers DEF Next
<1> QED
  BY <1>1, InitCover, PTL DEF Spec

LEMMA CoverIsEnough == CoverInv => CandidateCovers
<1> SUFFICES ASSUME CoverInv, NEW s \in Streams, pending[s], ~Changing(s), Sure
             PROVE  has[s] /\ (NumOps[s] > 0 \/ SetDisp[s] \/ DeleteOnClose[s])
  BY DEF CandidateCovers, Sure
<1>1. MarkCovered(s)
  BY DEF CoverInv, MarksCovered
<1>2. Posts(s) = {}
  BY DEF CoverInv, OnePost, HandlePosts, Posts, Changing
<1> QED
  BY <1>1, <1>2 DEF MarkCovered, Raised

-----------------------------------------------------------------------------
(* A deleted file is reported, by one stream, or it is said why not. *)

OpenLabels == {"create", "open", "fsSet", "postSet", "decrement"}

LEMMA OpenedIsOpen ==
  ASSUME CoverTypes
  PROVE  OpenedFile = {h \in Handles : pc[h] \in OpenLabels}
  BY DEF OpenedFile, Opened, CoverTypes, OpenLabels

BeforeInv == CoverInv /\ DecisionInv /\ Sighted /\ DeletedIsClosed

(* A step of a handle before its cleanup: the file is there. *)
Early(h) ==
    /\ UNCHANGED << gone, tx, isFile, IsNotified, calls, DeleteNotifyList, overlap, misled >>
    /\ causes \subseteq causes'
    /\ pc[h] \in OpenLabels \cup {"unused"} /\ pc'[h] \in OpenLabels
    /\ pc[h] = "unused" => ~pending[Main]
    /\ \A g \in Handles \ {h} : pc'[g] = pc[g] /\ stream'[g] = stream[g] /\ inTx'[g] = inTx[g]

LEMMA EarlySteps ==
  ASSUME CoverInv, NEW h \in Handles,
         \/ \E s \in Streams, d, t \in BOOLEAN : FilterPreCreate(h, s, d, t)
         \/ \E class \in Classes, f \in BOOLEAN : FilterPreSetInformation(h, class, f)
         \/ FilterPostCreate(h) \/ FsSetInformation(h) \/ FilterPostSetInformation(h) \/ DecrementNumOps(h)
  PROVE  Early(h)
<1> USE DEF OpenLabels
<1>0. pc \in [Handles -> Labels]
  BY DEF CoverInv, CoverTypes
<1>1. ASSUME NEW s \in Streams, NEW d \in BOOLEAN, NEW t \in BOOLEAN, FilterPreCreate(h, s, d, t) PROVE Early(h)
  BY <1>0, <1>1 DEF FilterPreCreate, Early
<1>2. ASSUME NEW class \in Classes, NEW f \in BOOLEAN, FilterPreSetInformation(h, class, f) PROVE Early(h)
  BY <1>0, <1>2 DEF FilterPreSetInformation, Early
<1>3. CASE FilterPostCreate(h)
  BY <1>0, <1>3 DEF FilterPostCreate, Early
<1>4. CASE FsSetInformation(h)
  BY <1>0, <1>4 DEF FsSetInformation, Early
<1>5. CASE FilterPostSetInformation(h)
  BY <1>0, <1>5 DEF FilterPostSetInformation, Early
<1>6. CASE DecrementNumOps(h)
  BY <1>0, <1>6 DEF DecrementNumOps, Early
<1> QED
  BY <1>1, <1>2, <1>3, <1>4, <1>5, <1>6

LEMMA EarlyIsThere == ASSUME CoverTypes, DeletedIsClosed, NEW h \in Handles, Early(h) PROVE gone[Main] = "no"
<1> SUFFICES ASSUME gone[Main] # "no" PROVE FALSE
  OBVIOUS
<1>1. pending[Main] /\ \A g \in Handles : pc[g] \notin OpenLabels
  BY OpenedIsOpen DEF DeletedIsClosed
<1> QED
  BY <1>1 DEF Early

ReportInv == SeenDeleted /\ NotifiedIsFor /\ DeletionChased /\ OneSource

LEMMA EarlyReports ==
  ASSUME BeforeInv, ReportInv, NEW h \in Handles, Early(h)
  PROVE  DeletedIsClosed' /\ ReportInv'
<1>1. gone[Main] = "no" /\ gone'[Main] = "no"
  BY EarlyIsThere DEF BeforeInv, CoverInv, Early
<1>2. SeenDeleted'
  <2> SUFFICES ASSUME NEW g \in Handles, pc'[g] \in Asking, stream'[g] = Main
               PROVE  IF inTx'[g] THEN tx' \in {"open", "committing"} => gone'[Main] # "no"
                      ELSE gone'[Main] = "plain" /\ (pc'[g] = "notify" => isFile'[g])
    BY DEF SeenDeleted
  <2>1. g # h
    BY DEF Early, Asking, OpenLabels
  <2> QED
    BY <1>1, <2>1 DEF Early, SeenDeleted, ReportInv
<1>3. NotifiedIsFor'
  BY <1>1 DEF Early, NotifiedIsFor, ReportInv, Contains
<1>4. DeletionChased'
  BY <1>1 DEF DeletionChased
<1>5. OneSource'
  <2>1. ~overlap /\ ~misled => Reported = {}
    BY <1>1 DEF ReportInv, OneSource
  <2>2. Reported' = Reported /\ overlap' = overlap /\ misled' = misled
    BY DEF Reported, Early
  <2> QED
    BY <1>1, <2>1, <2>2 DEF OneSource
<1>6. DeletedIsClosed'
  BY <1>1 DEF DeletedIsClosed
<1> QED
  BY <1>2, <1>3, <1>4, <1>5, <1>6 DEF ReportInv

(* The file system's cleanup: the last handle of a marked file deletes it. *)
LEMMA PreCleanupReports ==
  ASSUME BeforeInv, ReportInv, CoverTypes', NEW h \in Handles, FilterPreCleanup(h)
  PROVE  DeletedIsClosed' /\ ReportInv'
<1>1. PICK x \in Streams : x = stream[h]
  BY DEF BeforeInv, CoverInv, CoverTypes
<1>2. PICK file \in BOOLEAN :
        file = ((pending[Main] \/ (x = Main /\ doc[h])) /\ OpenedFile = {h} /\ gone[Main] = "no")
  OBVIOUS
<1>3. PICK how \in {"tx", "plain"} : how = IF inTx[h] /\ tx = "open" THEN "tx" ELSE "plain"
  OBVIOUS
<1>4. /\ pc[h] = "open" /\ pc' = [pc EXCEPT ![h] = IF has[x] THEN "test" ELSE "closed"]
      /\ pending' = [pending EXCEPT ![x] = @ \/ doc[h]]
      /\ UNCHANGED << stream, doc, NumOps, SetDisp, DeleteOnClose, inTx, isFile, tx, DeleteNotifyList, IsNotified, calls, misled >>
      /\ gone'[Main] = IF file THEN how ELSE gone[Main]
      /\ file /\ x # Main => "sibling" \in causes'
      /\ causes \subseteq causes'
      /\ overlap' = (overlap \/ (file /\ \E g \in Handles : stream[g] # x /\ pc[g] \in {"test", "query", "context", "ask", "byId"}))
  <2>1. [pending EXCEPT ![x] = @ \/ doc[h]][Main] <=> pending[Main] \/ (x = Main /\ doc[h])
    BY <1>1, IsoDeleteAssumption DEF BeforeInv, CoverInv, CoverTypes
  <2>2. Main \in Streams
    BY IsoDeleteAssumption
  <2>3. /\ pc[h] = "open" /\ pc' = [pc EXCEPT ![h] = IF has[x] THEN "test" ELSE "closed"]
        /\ pending' = [pending EXCEPT ![x] = @ \/ doc[h]]
        /\ UNCHANGED << stream, doc, NumOps, SetDisp, DeleteOnClose, inTx, isFile, tx, DeleteNotifyList, IsNotified, calls, misled >>
    BY <1>1 DEF FilterPreCleanup
  <2>4. file <=> pending'[Main] /\ OpenedFile = {h} /\ gone[Main] = "no"
    BY <1>2, <2>1, <2>3
  <2>5. gone'[Main] = IF file THEN how ELSE gone[Main]
    BY <1>1, <1>3, <2>2, <2>3, <2>4 DEF FilterPreCleanup
  <2>6. (file /\ x # Main => "sibling" \in causes') /\ causes \subseteq causes'
    BY <1>1, <2>3, <2>4 DEF FilterPreCleanup
  <2>7. overlap' = (overlap \/ (file /\ \E g \in Handles : stream[g] # x /\ pc[g] \in {"test", "query", "context", "ask", "byId"}))
    BY <1>1, <2>3, <2>4 DEF FilterPreCleanup
  <2> QED
    BY <2>3, <2>5, <2>6, <2>7
<1>5. /\ pc'[h] \in {"test", "closed"} /\ (has[x] => pc'[h] = "test")
      /\ \A g \in Handles \ {h} : pc'[g] = pc[g]
  BY <1>4 DEF BeforeInv, CoverInv, CoverTypes
<1>6. /\ gone'[Main] # gone[Main] => file /\ gone[Main] = "no"
      /\ file => \A g \in Handles : pc[g] \in OpenLabels <=> g = h
  BY <1>2, <1>4, OpenedIsOpen DEF BeforeInv, CoverInv
<1>7. DeletedIsClosed'
  <2> SUFFICES ASSUME gone'[Main] # "no" PROVE pending'[Main] /\ \A g \in Handles : pc'[g] \notin OpenLabels
    <3>1. OpenedFile' = {g \in Handles : pc'[g] \in OpenLabels}
      BY DEF OpenedFile, Opened, CoverTypes, OpenLabels
    <3> QED
      BY <3>1 DEF DeletedIsClosed
  <2>1. CASE file
    BY <1>1, <1>2, <1>4, <1>5, <1>6, <2>1, IsoDeleteAssumption DEF OpenLabels, BeforeInv, CoverInv, CoverTypes
  <2>2. CASE ~file
    <3>1. pending[Main] /\ \A g \in Handles : pc[g] \notin OpenLabels
      BY <1>4, <2>2, OpenedIsOpen DEF BeforeInv, CoverInv, DeletedIsClosed
    <3> QED
      BY <1>4, <3>1 DEF OpenLabels
  <2> QED
    BY <2>1, <2>2
<1>8. SeenDeleted'
  <2> SUFFICES ASSUME NEW g \in Handles, pc'[g] \in Asking, stream'[g] = Main
               PROVE  IF inTx'[g] THEN tx' \in {"open", "committing"} => gone'[Main] # "no"
                      ELSE gone'[Main] = "plain" /\ (pc'[g] = "notify" => isFile'[g])
    BY DEF SeenDeleted
  <2>1. g # h /\ pc'[g] = pc[g]
    BY <1>5 DEF Asking
  <2> QED
    BY <1>4, <1>6, <2>1 DEF ReportInv, SeenDeleted
<1>9. NotifiedIsFor'
  <2> SUFFICES ASSUME causes' = {}
               PROVE  /\ Contains(DeleteNotifyList, Main) /\ tx \in {"open", "committing"} => gone'[Main] = "tx"
                      /\ IsNotified[Main] > 0 => \/ calls[Main] > 0 \/ Contains(DeleteNotifyList, Main)
                                                 \/ tx = "over" /\ gone'[Main] = "tx"
    BY <1>4 DEF NotifiedIsFor, Contains
  <2>1. causes = {}
    BY <1>4
  <2> QED
    BY <1>6, <2>1 DEF ReportInv, NotifiedIsFor
<1>10. DeletionChased'
  <2> SUFFICES ASSUME causes' = {}, gone'[Main] = "plain"
               PROVE  calls'[Main] > 0 \/ \E g \in Handles : Chases(g)'
    BY DEF DeletionChased
  <2>1. causes = {}
    BY <1>4
  <2>2. CASE gone[Main] = "plain"
    <3>1. calls[Main] > 0 \/ \E g \in Handles : Chases(g)
      BY <2>1, <2>2 DEF ReportInv, DeletionChased
    <3>2. ASSUME NEW g \in Handles, Chases(g) PROVE Chases(g)'
      <4>1. g # h
        BY <1>4, <3>2 DEF Chases, Asking
      <4> QED
        BY <1>4, <1>5, <3>2, <4>1 DEF Chases
    <3> QED
      BY <1>4, <3>1, <3>2
  <2>3. CASE gone[Main] # "plain"
    <3>1. file /\ x = Main
      BY <1>4, <2>3
    <3>2. Sure /\ MarksCovered /\ OnePost
      BY <2>1 DEF Sure, BeforeInv, CoverInv
    <3>3. Posts(Main) = {}
      BY <1>4, <1>6, <3>1, <3>2 DEF OnePost, HandlePosts, Posts, OpenLabels
    <3>4. has[Main] /\ (Raised(Main) \/ DeleteOnClose[Main] \/ SetDisp[Main])
      <4>1. CASE pending[Main]
        BY <3>2, <3>3, <4>1, IsoDeleteAssumption DEF MarksCovered, MarkCovered
      <4>2. CASE doc[h]
        <5>1. HandleCovered(h) /\ ~Posting(h, "onClose", TRUE)
          BY <1>4, <3>2 DEF MarksCovered, Posting
        <5> QED
          BY <1>1, <1>4, <3>1, <4>2, <5>1 DEF HandleCovered
      <4> QED
        BY <1>2, <3>1, <4>1, <4>2
    <3>5. NumOps[Main] > 0 \/ SetDisp[Main] \/ DeleteOnClose[Main]
      BY <3>3, <3>4 DEF Raised
    <3>6. Chases(h)'
      BY <1>1, <1>4, <1>5, <3>1, <3>4, <3>5 DEF Chases
    <3> QED
      BY <3>6
  <2> QED
    BY <2>2, <2>3
<1>11. OneSource'
  <2> SUFFICES ASSUME ~overlap', ~misled'
               PROVE  IF gone'[Main] = "plain" THEN \A r, s \in Sources' : r = s ELSE Reported' = {}
    BY DEF OneSource
  <2>1. ~overlap /\ ~misled /\ Reported' = Reported
    BY <1>4 DEF Reported
  <2>2. CASE gone[Main] = "plain"
    <3>1. Sources' \subseteq Sources
      <4>1. \A g \in Handles : pc[g] \notin OpenLabels
        BY <2>2, OpenedIsOpen DEF BeforeInv, CoverInv, DeletedIsClosed
      <4> QED
        BY <1>4, <4>1 DEF OpenLabels
    <3>2. gone'[Main] = "plain" /\ \A r, s \in Sources : r = s
      BY <1>6, <2>1, <2>2 DEF ReportInv, OneSource
    <3> QED
      BY <3>1, <3>2
  <2>3. CASE gone[Main] # "plain"
    <3>1. Reported = {}
      BY <2>1, <2>3 DEF ReportInv, OneSource
    <3>2. CASE gone'[Main] = "plain"
      <4>1. file
        BY <1>6, <2>3, <3>2
      <4>2. \A g \in Handles : stream[g] # x => pc[g] \notin {"test", "query", "context", "ask", "byId"}
        BY <1>4, <4>1
      <4>3. \A g \in Handles : ~(pc[g] = "notify" /\ isFile[g] /\ ~inTx[g])
        BY <2>1, <2>3 DEF BeforeInv, Sighted
      <4>4. ASSUME NEW r \in Sources' PROVE r = x
        <5>1. r \notin Reported'
          BY <2>1, <3>1
        <5>2. PICK g \in Handles : /\ r = stream'[g]
                                   /\ \/ pc'[g] \in {"test", "query", "context", "ask", "byId"}
                                      \/ pc'[g] = "notify" /\ isFile'[g] /\ ~inTx'[g]
          BY <4>4, <5>1 DEF Sources
        <5>3. g = h \/ pc'[g] = pc[g]
          BY <1>5
        <5> QED
          BY <1>1, <1>4, <4>2, <4>3, <5>2, <5>3
      <4> QED
        BY <3>2, <4>4
    <3> QED
      BY <2>1, <3>1, <3>2
  <2> QED
    BY <2>2, <2>3
<1> QED
  BY <1>7, <1>8, <1>9, <1>10, <1>11 DEF ReportInv

(* A step of a cleanup on its way to the notification: it goes on with what it  *)
(* has seen, or gives up and says why.                                          *)
Follows(h, l) ==
    /\ UNCHANGED << gone, pending, stream, inTx, tx, NumOps, SetDisp, DeleteOnClose, IsNotified, calls, DeleteNotifyList, overlap >>
    /\ causes \subseteq causes' /\ (misled => misled')
    /\ pc[h] \in {"test", "query", "context", "ask", "byId"}
    /\ pc' = [pc EXCEPT ![h] = l]
    /\ \A g \in Handles \ {h} : isFile'[g] = isFile[g]

LEMMA FollowsClosed ==
  ASSUME CoverTypes, CoverTypes', DeletedIsClosed, NEW h \in Handles,
         NEW l \in {"query", "context", "ask", "byId", "notify", "closed"}, Follows(h, l)
  PROVE  DeletedIsClosed'
<1>1. /\ OpenedFile = {g \in Handles : pc[g] \in OpenLabels}
      /\ OpenedFile' = {g \in Handles : pc'[g] \in OpenLabels}
  BY DEF OpenedFile, Opened, CoverTypes, OpenLabels
<1>2. \A g \in Handles : pc'[g] \in OpenLabels => pc[g] \in OpenLabels
  BY DEF Follows, OpenLabels, CoverTypes
<1> QED
  BY <1>1, <1>2 DEF DeletedIsClosed, Follows

(* What such a step owes the reports: what it goes on with it has seen, and it   *)
(* does not leave a deletion it follows without a reason.                        *)
LEMMA FollowsReports ==
  ASSUME CoverTypes, ReportInv, NEW h \in Handles,
         NEW l \in {"query", "context", "ask", "byId", "notify", "closed"}, Follows(h, l),
         l \in Asking /\ stream[h] = Main =>
            IF inTx[h] THEN tx \in {"open", "committing"} => gone[Main] # "no"
            ELSE gone[Main] = "plain" /\ (l = "notify" => isFile'[h]),
         causes' = {} /\ gone[Main] = "plain" /\ Chases(h) =>
            calls[Main] > 0 \/ (l # "closed" /\ (l = "notify" => inTx[h] \/ isFile'[h])),
         misled' \in BOOLEAN
  PROVE  ReportInv'
<1>1. pc'[h] = l /\ \A g \in Handles \ {h} : pc'[g] = pc[g]
  BY DEF CoverTypes, Follows
<1>2. SeenDeleted'
  <2> SUFFICES ASSUME NEW g \in Handles, pc'[g] \in Asking, stream'[g] = Main
               PROVE  IF inTx'[g] THEN tx' \in {"open", "committing"} => gone'[Main] # "no"
                      ELSE gone'[Main] = "plain" /\ (pc'[g] = "notify" => isFile'[g])
    BY DEF SeenDeleted
  <2>1. CASE g = h
    BY <1>1, <2>1 DEF Follows
  <2>2. CASE g # h
    BY <1>1, <2>2 DEF Follows, ReportInv, SeenDeleted
  <2> QED
    BY <2>1, <2>2
<1>3. NotifiedIsFor'
  <2>1. causes' = {} => causes = {}
    BY DEF Follows
  <2> QED
    BY <2>1 DEF Follows, NotifiedIsFor, ReportInv, Contains
<1>4. DeletionChased'
  <2> SUFFICES ASSUME causes' = {}, gone[Main] = "plain"
               PROVE  calls[Main] > 0 \/ \E g \in Handles : Chases(g)'
    BY DEF DeletionChased, Follows
  <2>1. causes = {}
    BY DEF Follows
  <2>2. CASE calls[Main] > 0
    BY <2>2
  <2>3. ASSUME NEW g \in Handles, Chases(g), ~(calls[Main] > 0) PROVE Chases(g)'
    <3>1. CASE g = h
      BY <1>1, <2>3, <3>1 DEF Chases, Follows, Asking
    <3>2. CASE g # h
      BY <1>1, <2>3, <3>2 DEF Chases, Follows
    <3> QED
      BY <3>1, <3>2
  <2> QED
    BY <2>1, <2>2, <2>3 DEF ReportInv, DeletionChased
<1>5. OneSource'
  <2>1. Reported' = Reported /\ (~misled' => ~misled)
    BY DEF Reported, Follows
  <2>2. Sources' \subseteq Sources
    <3> SUFFICES ASSUME NEW r \in Sources', r \notin Reported' PROVE r \in Sources
      BY <2>1 DEF Sources
    <3>1. PICK g \in Handles : /\ r = stream'[g]
                               /\ \/ pc'[g] \in {"test", "query", "context", "ask", "byId"}
                                  \/ pc'[g] = "notify" /\ isFile'[g] /\ ~inTx'[g]
      BY DEF Sources
    <3>2. CASE g = h
      BY <3>1, <3>2 DEF Sources, Follows
    <3>3. CASE g # h
      BY <1>1, <3>1, <3>3 DEF Sources, Follows
    <3> QED
      BY <3>2, <3>3
  <2> QED
    BY <2>1, <2>2 DEF OneSource, ReportInv, Follows
<1> QED
  BY <1>2, <1>3, <1>4, <1>5 DEF ReportInv

(* The test whether the stream is a candidate, and unreported. *)
LEMMA TestReports ==
  ASSUME BeforeInv, ReportInv, CoverTypes', NEW h \in Handles, FilterPostCleanup(h)
  PROVE  DeletedIsClosed' /\ ReportInv'
<1>1. PICK l \in {"query", "closed"} :
        /\ l = IF (NumOps[stream[h]] > 0 \/ SetDisp[stream[h]] \/ DeleteOnClose[stream[h]]) /\ IsNotified[stream[h]] = 0
               THEN "query" ELSE "closed"
        /\ pc' = [pc EXCEPT ![h] = l] /\ pc[h] = "test"
        /\ UNCHANGED << fsVars, ctxVars, handleVars, txVars, noteVars >>
        /\ causes \subseteq causes'
        /\ IsNotified[stream[h]] > 0 /\ Contains(DeleteNotifyList, stream[h]) => "kept" \in causes'
  BY DEF FilterPostCleanup
<1>2. Follows(h, l)
  BY <1>1 DEF Follows
<1>3. causes' = {} /\ gone[Main] = "plain" /\ Chases(h) => calls[Main] > 0 \/ l # "closed"
  <2> SUFFICES ASSUME causes' = {}, gone[Main] = "plain", Chases(h), l = "closed" PROVE calls[Main] > 0
    OBVIOUS
  <2>1. causes = {} /\ stream[h] = Main /\ IsNotified[Main] \in Nat
    BY <1>1, IsoDeleteAssumption DEF Chases, BeforeInv, DecisionInv, DecisionTypes
  <2>2. IsNotified[Main] > 0 /\ ~Contains(DeleteNotifyList, Main)
    BY <1>1, <2>1 DEF Chases
  <2> QED
    BY <2>1, <2>2 DEF ReportInv, NotifiedIsFor
<1>4. misled' \in BOOLEAN /\ CoverTypes
  BY <1>1 DEF BeforeInv, Sighted, CoverInv
<1>5. ReportInv'
  BY <1>1, <1>2, <1>3, <1>4, FollowsReports DEF Asking
<1> QED
  BY <1>1, <1>2, <1>4, <1>5, FollowsClosed DEF BeforeInv

(* The query sees the stream deleted, or fails. *)
LEMMA QueryReports ==
  ASSUME BeforeInv, ReportInv, CoverTypes', NEW h \in Handles, QueryDeleted(h)
  PROVE  DeletedIsClosed' /\ ReportInv'
<1>1. PICK l \in {"context", "ask", "closed"} :
        /\ \/ l = IF ~DeletedFor(h, stream[h]) THEN "closed" ELSE IF inTx[h] THEN "context" ELSE "ask"
           \/ l = "closed" /\ "error" \in causes'
        /\ pc' = [pc EXCEPT ![h] = l] /\ pc[h] = "query"
        /\ UNCHANGED << fsVars, ctxVars, handleVars, txVars, noteVars >>
        /\ causes \subseteq causes'
  BY DEF QueryDeleted
<1>2. Follows(h, l)
  BY <1>1 DEF Follows
<1>3. causes' = {} /\ gone[Main] = "plain" /\ Chases(h) => calls[Main] > 0 \/ l # "closed"
  BY <1>1 DEF Chases, DeletedFor
<1>4. misled' \in BOOLEAN /\ CoverTypes
  BY <1>1 DEF BeforeInv, Sighted, CoverInv
<1>5. l \in Asking /\ stream[h] = Main =>
        IF inTx[h] THEN gone[Main] # "no" ELSE gone[Main] = "plain"
  BY <1>1 DEF DeletedFor, Asking
<1>6. ReportInv'
  BY <1>1, <1>2, <1>3, <1>4, <1>5, FollowsReports
<1> QED
  BY <1>1, <1>2, <1>4, <1>6, FollowsClosed DEF BeforeInv

LEMMA ContextReports ==
  ASSUME BeforeInv, ReportInv, CoverTypes', NEW h \in Handles, GetTransactionContext(h)
  PROVE  DeletedIsClosed' /\ ReportInv'
<1>1. PICK l \in {"ask", "closed"} :
        /\ l = "closed" => "error" \in causes'
        /\ pc' = [pc EXCEPT ![h] = l] /\ pc[h] = "context"
        /\ UNCHANGED << fsVars, ctxVars, handleVars, tx, DeleteNotifyList, noteVars >>
        /\ causes \subseteq causes'
  BY DEF GetTransactionContext
<1>2. Follows(h, l)
  BY <1>1 DEF Follows
<1>3. causes' = {} => l # "closed"
  BY <1>1
<1>4. misled' \in BOOLEAN /\ CoverTypes
  BY <1>1 DEF BeforeInv, Sighted, CoverInv
<1>5. stream[h] = Main => IF inTx[h] THEN tx \in {"open", "committing"} => gone[Main] # "no"
                          ELSE gone[Main] = "plain"
  BY <1>1 DEF ReportInv, SeenDeleted, Asking
<1>6. ReportInv'
  BY <1>1, <1>2, <1>3, <1>4, <1>5, FollowsReports
<1> QED
  BY <1>1, <1>2, <1>4, <1>6, FollowsClosed DEF BeforeInv

(* The answer is not no when the main stream is deleted for good. *)
LEMMA AnswerReports ==
  ASSUME BeforeInv, ReportInv, CoverTypes', NEW h \in Handles,
         SolIfFileDeleted(h) \/ SolGetFileId(h) \/ SolBuildFileIdString(h) \/ SolDetectDeleteByFileId(h)
  PROVE  DeletedIsClosed' /\ ReportInv'
<1>1. PICK l \in {"byId", "notify", "closed"} :
        /\ l = "closed" => "error" \in causes'
        /\ pc' = [pc EXCEPT ![h] = l] /\ pc[h] \in {"ask", "byId"}
        /\ UNCHANGED << fsVars, ctxVars, stream, inTx, txVars, calls, overlap >>
        /\ causes \subseteq causes' /\ (misled => misled') /\ misled' \in BOOLEAN
        /\ \A g \in Handles \ {h} : isFile'[g] = isFile[g]
        /\ l = "notify" /\ gone[Main] = "plain" => isFile'[h]
  <2>1. misled \in BOOLEAN /\ isFile \in [Handles -> BOOLEAN]
    BY DEF BeforeInv, Sighted
  <2>2. CASE SolIfFileDeleted(h)
    BY <2>1, <2>2 DEF SolIfFileDeleted, Answer, GiveUp
  <2>3. CASE SolGetFileId(h)
    <3>1. CASE Answer(h, TRUE) /\ misled' = (misled \/ ~DeletedFor(h, Main))
      <4>1. misled' \in BOOLEAN /\ (misled => misled')
        BY <2>1, <3>1
      <4> QED
        BY <2>1, <2>3, <3>1, <4>1 DEF SolGetFileId, Answer
    <3>2. CASE GiveUp(h) /\ UNCHANGED misled
      BY <2>1, <2>3, <3>2 DEF SolGetFileId, GiveUp
    <3> QED
      BY <2>3, <3>1, <3>2 DEF SolGetFileId
  <2>4. CASE SolBuildFileIdString(h)
    BY <2>1, <2>4 DEF SolBuildFileIdString, GiveUp
  <2>5. CASE SolDetectDeleteByFileId(h)
    BY <2>1, <2>5 DEF SolDetectDeleteByFileId, Answer, GiveUp, DeletedFor
  <2> QED
    BY <2>2, <2>3, <2>4, <2>5
<1>2. Follows(h, l)
  BY <1>1 DEF Follows
<1>3. causes' = {} => l # "closed"
  BY <1>1
<1>4. CoverTypes
  BY DEF BeforeInv, CoverInv
<1>5. stream[h] = Main => IF inTx[h] THEN tx \in {"open", "committing"} => gone[Main] # "no"
                          ELSE gone[Main] = "plain"
  BY <1>1 DEF ReportInv, SeenDeleted, Asking
<1>6. ReportInv'
  BY <1>1, <1>2, <1>3, <1>4, <1>5, FollowsReports
<1> QED
  BY <1>1, <1>2, <1>4, <1>6, FollowsClosed DEF BeforeInv

(* The notification: the first of the stream reports, or leaves it to the end  *)
(* of the transaction.                                                         *)
LEMMA NotifyReports ==
  ASSUME BeforeInv, ReportInv, CoverTypes', NEW h \in Handles, SolNotifyDelete(h)
  PROVE  DeletedIsClosed' /\ ReportInv'
<1>1. PICK x \in Streams : x = stream[h]
  BY DEF BeforeInv, CoverInv, CoverTypes
<1>2. /\ pc[h] = "notify" /\ pc' = [pc EXCEPT ![h] = "closed"]
      /\ UNCHANGED << fsVars, NumOps, SetDisp, DeleteOnClose, handleVars, tx, overlap, misled >>
      /\ causes \subseteq causes'
      /\ IsNotified' = [IsNotified EXCEPT ![x] = @ + 1]
      /\ \/ /\ IsNotified[x] > 0 /\ (Contains(DeleteNotifyList, x) => "kept" \in causes')
            /\ UNCHANGED << calls, DeleteNotifyList >>
         \/ /\ IsNotified[x] = 0 /\ ~inTx[h] /\ isFile[h] /\ UNCHANGED DeleteNotifyList
            /\ calls' = [calls EXCEPT ![x] = @ + 1]
         \/ /\ IsNotified[x] = 0 /\ ~inTx[h] /\ ~isFile[h] /\ UNCHANGED << calls, DeleteNotifyList >>
         \/ /\ IsNotified[x] = 0 /\ inTx[h] /\ UNCHANGED calls
            /\ \/ /\ DeleteNotifyList' = Append(DeleteNotifyList, x)
                  /\ gone[x] = "plain" => "kept" \in causes'
               \/ "kept" \in causes' /\ UNCHANGED DeleteNotifyList
  BY <1>1 DEF SolNotifyDelete, NotifyEventFileDeleteTo, SolAddTransDeleteNotify
<1>3. pc'[h] = "closed" /\ \A g \in Handles \ {h} : pc'[g] = pc[g]
  BY <1>2 DEF BeforeInv, CoverInv, CoverTypes
<1>4. /\ IsNotified \in [Streams -> Nat] /\ calls \in [Streams -> Nat]
      /\ DeleteNotifyList \in Seq(Streams) /\ Main \in Streams
  BY IsoDeleteAssumption DEF BeforeInv, DecisionInv, DecisionTypes
<1>5. DeletedIsClosed'
  <2>1. /\ OpenedFile = {g \in Handles : pc[g] \in OpenLabels}
        /\ OpenedFile' = {g \in Handles : pc'[g] \in OpenLabels}
    BY DEF OpenedFile, Opened, CoverTypes, OpenLabels, BeforeInv, CoverInv
  <2>2. \A g \in Handles : pc'[g] \in OpenLabels => pc[g] \in OpenLabels
    BY <1>3 DEF OpenLabels
  <2> QED
    BY <1>2, <2>1, <2>2 DEF DeletedIsClosed, BeforeInv
<1>6. SeenDeleted'
  <2> SUFFICES ASSUME NEW g \in Handles, pc'[g] \in Asking, stream'[g] = Main
               PROVE  IF inTx'[g] THEN tx' \in {"open", "committing"} => gone'[Main] # "no"
                      ELSE gone'[Main] = "plain" /\ (pc'[g] = "notify" => isFile'[g])
    BY DEF SeenDeleted
  <2>1. g # h
    BY <1>3 DEF Asking
  <2> QED
    BY <1>2, <1>3, <2>1 DEF ReportInv, SeenDeleted
<1>7. x = Main => IF inTx[h] THEN tx \in {"open", "committing"} => gone[Main] # "no"
                  ELSE gone[Main] = "plain" /\ isFile[h]
  BY <1>1, <1>2 DEF ReportInv, SeenDeleted, Asking
<1>8. calls'[Main] >= calls[Main] /\ calls'[Main] \in Nat
  <2>1. UNCHANGED calls \/ calls' = [calls EXCEPT ![x] = @ + 1]
    BY <1>2
  <2>2. CASE UNCHANGED calls
    BY <1>4, <2>2
  <2>3. CASE calls' = [calls EXCEPT ![x] = @ + 1]
    BY <1>4, <2>3
  <2> QED
    BY <2>1, <2>2, <2>3
<1>9. ASSUME DeleteNotifyList' = Append(DeleteNotifyList, x)
      PROVE  Contains(DeleteNotifyList, Main)' <=> x = Main \/ Contains(DeleteNotifyList, Main)
  <2>1. /\ Len(DeleteNotifyList) \in Nat /\ Len(DeleteNotifyList') = Len(DeleteNotifyList) + 1
        /\ DeleteNotifyList'[Len(DeleteNotifyList) + 1] = x
        /\ \A n \in 1..Len(DeleteNotifyList) : DeleteNotifyList'[n] = DeleteNotifyList[n]
    BY <1>4, <1>9
  <2> QED
    BY <2>1 DEF Contains
<1>10. NotifiedIsFor'
  <2> SUFFICES ASSUME causes' = {}
               PROVE  /\ Contains(DeleteNotifyList, Main)' /\ tx \in {"open", "committing"} => gone[Main] = "tx"
                      /\ IsNotified'[Main] > 0 => \/ calls'[Main] > 0 \/ Contains(DeleteNotifyList, Main)'
                                                  \/ tx = "over" /\ gone[Main] = "tx"
    BY <1>2 DEF NotifiedIsFor
  <2>1. /\ Contains(DeleteNotifyList, Main) /\ tx \in {"open", "committing"} => gone[Main] = "tx"
        /\ IsNotified[Main] > 0 => \/ calls[Main] > 0 \/ Contains(DeleteNotifyList, Main)
                                   \/ tx = "over" /\ gone[Main] = "tx"
    BY <1>2 DEF ReportInv, NotifiedIsFor
  <2>2. CASE UNCHANGED DeleteNotifyList /\ ~(x = Main /\ IsNotified[x] = 0)
    <3>1. IsNotified'[Main] > 0 => IsNotified[Main] > 0
      BY <1>2, <1>4, <2>2
    <3>2. Contains(DeleteNotifyList, Main)' <=> Contains(DeleteNotifyList, Main)
      BY <2>2 DEF Contains
    <3> QED
      BY <1>4, <1>8, <2>1, <3>1, <3>2
  <2>3. CASE UNCHANGED DeleteNotifyList /\ x = Main /\ IsNotified[x] = 0
    <3>1. calls'[Main] > 0
      BY <1>2, <1>4, <1>7, <2>3
    <3>2. Contains(DeleteNotifyList, Main)' <=> Contains(DeleteNotifyList, Main)
      BY <2>3 DEF Contains
    <3> QED
      BY <2>1, <3>1, <3>2
  <2>4. CASE inTx[h] /\ DeleteNotifyList' = Append(DeleteNotifyList, x) /\ gone[x] # "plain"
    <3>1. x = Main /\ tx \in {"open", "committing"} => gone[Main] = "tx"
      BY <1>7, <2>4 DEF BeforeInv, Sighted
    <3>2. x # Main => IsNotified'[Main] = IsNotified[Main]
      BY <1>2, <1>4
    <3> QED
      BY <1>4, <1>8, <1>9, <2>1, <2>4, <3>1, <3>2
  <2> QED
    BY <1>2, <2>2, <2>3, <2>4
<1>11. DeletionChased'
  <2> SUFFICES ASSUME causes' = {}, gone[Main] = "plain", ~(calls'[Main] > 0)
               PROVE  \E g \in Handles : Chases(g)'
    BY <1>2 DEF DeletionChased
  <2>1. causes = {} /\ ~(calls[Main] > 0)
    BY <1>2, <1>4, <1>8
  <2>2. PICK g \in Handles : Chases(g)
    BY <1>2, <2>1 DEF ReportInv, DeletionChased
  <2>3. g # h
    <3>1. SUFFICES ASSUME x = Main, inTx[h] \/ isFile[h] PROVE FALSE
      BY <1>1, <1>2, <2>2 DEF Chases
    <3>2. IsNotified[Main] > 0 => Contains(DeleteNotifyList, Main)
      BY <1>2, <2>1 DEF ReportInv, NotifiedIsFor
    <3> QED
      BY <1>2, <1>4, <2>1, <3>1, <3>2
  <2>4. Chases(g)'
    BY <1>2, <1>3, <2>2, <2>3 DEF Chases
  <2> QED
    BY <2>4
<1>12. OneSource'
  <2> SUFFICES ASSUME ~overlap, ~misled
               PROVE  IF gone[Main] = "plain" THEN \A r, s \in Sources' : r = s ELSE Reported' = {}
    BY <1>2 DEF OneSource
  <2>1. \A s \in Streams : calls'[s] = calls[s] \/ (s = x /\ ~inTx[h] /\ isFile[h])
    BY <1>2, <1>4
  <2>2. CASE gone[Main] = "plain"
    <3>1. ASSUME NEW r \in Sources' PROVE r \in Sources
      <4>1. CASE r \in Reported'
        <5>1. r \in Reported \/ (r = x /\ ~inTx[h] /\ isFile[h])
          BY <2>1, <4>1 DEF Reported
        <5> QED
          BY <1>1, <1>2, <5>1 DEF Sources
      <4>2. CASE r \notin Reported'
        <5>1. PICK g \in Handles : /\ r = stream'[g]
                                   /\ \/ pc'[g] \in {"test", "query", "context", "ask", "byId"}
                                      \/ pc'[g] = "notify" /\ isFile'[g] /\ ~inTx'[g]
          BY <3>1, <4>2 DEF Sources
        <5>2. g # h
          BY <1>3, <5>1
        <5> QED
          BY <1>2, <1>3, <5>1, <5>2 DEF Sources
      <4> QED
        BY <4>1, <4>2
    <3> QED
      BY <2>2, <3>1 DEF ReportInv, OneSource
  <2>3. CASE gone[Main] # "plain"
    <3>1. ~(~inTx[h] /\ isFile[h])
      BY <1>2, <2>3 DEF BeforeInv, Sighted
    <3>2. Reported' = Reported
      BY <2>1, <3>1 DEF Reported
    <3> QED
      BY <2>3, <3>2 DEF ReportInv, OneSource
  <2> QED
    BY <2>2, <2>3
<1> QED
  BY <1>5, <1>6, <1>10, <1>11, <1>12 DEF ReportInv

(* The application commits or rolls back: what a rollback brings back had been *)
(* deleted in the transaction only.                                            *)
LEMMA EndReports ==
  ASSUME BeforeInv, ReportInv, EndTransaction
  PROVE  DeletedIsClosed' /\ ReportInv'
<1>1. /\ tx = "open" /\ UNCHANGED << ctxVars, pc, handleVars, DeleteNotifyList, noteVars, causes >>
      /\ \/ tx' = "committing" /\ UNCHANGED << gone, pending >>
         \/ /\ tx' = "rollingBack" /\ gone'[Main] = IF gone[Main] = "tx" THEN "no" ELSE gone[Main]
            /\ gone[Main] # "tx" => pending'[Main] = pending[Main]
  BY IsoDeleteAssumption DEF EndTransaction, BeforeInv, CoverInv, CoverTypes
<1>2. /\ gone'[Main] = "plain" <=> gone[Main] = "plain"
      /\ gone'[Main] # "no" => gone[Main] # "no" /\ pending'[Main] = pending[Main]
  BY <1>1 DEF BeforeInv, Sighted
<1>3. DeletedIsClosed'
  <2>1. OpenedFile' = OpenedFile
    BY <1>1 DEF OpenedFile, Opened
  <2> QED
    BY <1>2, <2>1 DEF DeletedIsClosed, BeforeInv
<1>4. SeenDeleted'
  BY <1>1, <1>2 DEF ReportInv, SeenDeleted
<1>5. NotifiedIsFor'
  BY <1>1 DEF ReportInv, NotifiedIsFor, Contains
<1>6. DeletionChased'
  BY <1>1, <1>2 DEF ReportInv, DeletionChased, Chases
<1>7. OneSource'
  <2>1. Sources' = Sources /\ Reported' = Reported
    BY <1>1 DEF Sources, Reported
  <2> QED
    BY <1>1, <1>2, <2>1 DEF ReportInv, OneSource
<1> QED
  BY <1>3, <1>4, <1>5, <1>6, <1>7 DEF ReportInv

(* The transaction is over: a rollback takes the notifications of its list     *)
(* back; of a commit they remain, of streams that are deleted.                 *)
LEMMA CallbackReports ==
  ASSUME BeforeInv, ReportInv, FilterTransactionNotificationCallback
  PROVE  DeletedIsClosed' /\ ReportInv'
<1>1. /\ tx \in {"committing", "rollingBack"} /\ tx' = "over" /\ DeleteNotifyList' = << >>
      /\ UNCHANGED << fsVars, NumOps, SetDisp, DeleteOnClose, pc, handleVars, noteVars >>
      /\ causes \subseteq causes'
      /\ IF tx = "rollingBack" /\ txContext = "enlisted"
           THEN IsNotified' = [s \in Streams |-> IF Contains(DeleteNotifyList, s) THEN IsNotified[s] - 1 ELSE IsNotified[s]]
           ELSE UNCHANGED IsNotified
      /\ (\E s \in ToSet(DeleteNotifyList) : IsNotified[s] > 1 \/ txContext # "enlisted") => "kept" \in causes'
  BY DEF FilterTransactionNotificationCallback, CtxTransactionContextCleanupCallback
<1>2. Main \in Streams /\ IsNotified \in [Streams -> Nat] /\ DeleteNotifyList \in Seq(Streams)
  BY IsoDeleteAssumption DEF BeforeInv, DecisionInv, DecisionTypes
<1>3. DeletedIsClosed'
  <2>1. OpenedFile' = OpenedFile
    BY <1>1 DEF OpenedFile, Opened
  <2> QED
    BY <1>1, <2>1 DEF DeletedIsClosed, BeforeInv
<1>4. SeenDeleted'
  BY <1>1 DEF ReportInv, SeenDeleted
<1>5. NotifiedIsFor'
  <2> SUFFICES ASSUME causes' = {}, IsNotified'[Main] > 0
               PROVE  calls[Main] > 0 \/ gone[Main] = "tx"
    <3>1. ~Contains(DeleteNotifyList, Main)'
      BY <1>1 DEF Contains
    <3> QED
      BY <1>1, <3>1 DEF NotifiedIsFor
  <2>1. /\ causes = {}
        /\ Contains(DeleteNotifyList, Main) => IsNotified[Main] <= 1 /\ txContext = "enlisted"
    <3>1. Contains(DeleteNotifyList, Main) => Main \in ToSet(DeleteNotifyList)
      BY <1>2 DEF Contains, ToSet
    <3> QED
      BY <1>1, <1>2, <3>1
  <2>2. IsNotified[Main] > 0 => calls[Main] > 0 \/ Contains(DeleteNotifyList, Main)
    BY <1>1, <2>1 DEF ReportInv, NotifiedIsFor
  <2>3. CASE Contains(DeleteNotifyList, Main)
    <3>1. tx = "committing"
      BY <1>1, <1>2, <2>1, <2>3
    <3> QED
      BY <2>1, <2>3, <3>1 DEF ReportInv, NotifiedIsFor
  <2>4. CASE ~Contains(DeleteNotifyList, Main)
    BY <1>1, <1>2, <2>2, <2>4
  <2> QED
    BY <2>3, <2>4
<1>6. DeletionChased'
  BY <1>1 DEF ReportInv, DeletionChased, Chases
<1>7. OneSource'
  <2>1. Sources' = Sources /\ Reported' = Reported
    BY <1>1 DEF Sources, Reported
  <2> QED
    BY <1>1, <2>1 DEF ReportInv, OneSource
<1> QED
  BY <1>3, <1>4, <1>5, <1>6, <1>7 DEF ReportInv

LEMMA StutterReports == ASSUME BeforeInv, ReportInv, UNCHANGED vars PROVE DeletedIsClosed' /\ ReportInv'
<1>1. UNCHANGED << OpenedFile, Sources, Reported >>
  BY DEF vars, OpenedFile, Opened, Sources, Reported
<1>2. DeletedIsClosed' /\ SeenDeleted' /\ NotifiedIsFor' /\ DeletionChased'
  BY <1>1 DEF vars, BeforeInv, ReportInv, DeletedIsClosed, SeenDeleted, NotifiedIsFor, Contains, DeletionChased, Chases
<1> QED
  BY <1>1, <1>2 DEF vars, ReportInv, OneSource

LEMMA InitReports == Init => DeletedIsClosed /\ ReportInv
<1> SUFFICES ASSUME Init PROVE DeletedIsClosed /\ ReportInv
  OBVIOUS
<1>1. /\ gone[Main] = "no" /\ calls[Main] = 0 /\ IsNotified[Main] = 0 /\ DeleteNotifyList = << >>
      /\ \A h \in Handles : pc[h] = "unused"
      /\ \A s \in Streams : calls[s] = 0
  BY IsoDeleteAssumption DEF Init
<1>2. DeletedIsClosed /\ SeenDeleted /\ DeletionChased
  BY <1>1 DEF DeletedIsClosed, SeenDeleted, DeletionChased, Asking
<1>3. NotifiedIsFor
  BY <1>1 DEF NotifiedIsFor, Contains
<1>4. OneSource
  BY <1>1 DEF OneSource, Reported
<1> QED
  BY <1>2, <1>3, <1>4 DEF ReportInv

LEMMA ReportInvariance == Spec => [](BeforeInv /\ ReportInv)
<1>1. BeforeInv /\ ReportInv /\ CoverInv' /\ [Next]_vars => DeletedIsClosed' /\ ReportInv'
  <2> SUFFICES ASSUME BeforeInv, ReportInv, CoverInv', [Next]_vars PROVE DeletedIsClosed' /\ ReportInv'
    OBVIOUS
  <2>1. CoverInv /\ CoverTypes'
    BY DEF BeforeInv, CoverInv
  <2>2. ASSUME NEW h \in Handles, Step(h) PROVE DeletedIsClosed' /\ ReportInv'
    <3>1. CASE FilterPreCleanup(h)
      BY <2>1, <3>1, PreCleanupReports
    <3>2. CASE \/ FilterPostCleanup(h) \/ QueryDeleted(h) \/ GetTransactionContext(h) \/ SolIfFileDeleted(h)
               \/ SolGetFileId(h) \/ SolBuildFileIdString(h) \/ SolDetectDeleteByFileId(h) \/ SolNotifyDelete(h)
      BY <2>1, <3>2, TestReports, QueryReports, ContextReports, AnswerReports, NotifyReports
    <3>3. CASE \/ \E s \in Streams, d, t \in BOOLEAN : FilterPreCreate(h, s, d, t)
               \/ \E class \in Classes, f \in BOOLEAN : FilterPreSetInformation(h, class, f)
               \/ FilterPostCreate(h) \/ FsSetInformation(h) \/ FilterPostSetInformation(h) \/ DecrementNumOps(h)
      BY <2>1, <3>3, EarlySteps, EarlyReports
    <3> QED
      BY <2>2, <3>1, <3>2, <3>3 DEF Step
  <2> QED
    BY <2>2, EndReports, CallbackReports, StutterReports DEF Next
<1>2. Init => DeletedIsClosed /\ ReportInv
  BY InitReports
<1> QED
  BY <1>1, <1>2, CoverInvariance, DecisionInvariance, SightedInvariance, PTL DEF Spec, BeforeInv

-----------------------------------------------------------------------------
(* The types of what no other invariant is about. *)

FlagTypes ==
    /\ brought \in [Handles -> BOOLEAN]
    /\ tx \in {"open", "committing", "rollingBack", "over"}
    /\ txContext \in {"none", "attached", "enlisted", "freed"}
    /\ guidCached \in BOOLEAN /\ String \in {"none", "unset", "empty", "allocated", "freed"}
    /\ crashed \in BOOLEAN /\ overlap \in BOOLEAN

CountTypes ==
    changes \in 0..MaxChanges /\ failures \in 0..MaxFailures /\ queued \in Nat

RestTypes == FlagTypes /\ CountTypes /\ causes \subseteq Causes

LEMMA EarlyTypes ==
  ASSUME RestTypes, NEW h \in Handles,
         \/ \E s \in Streams, d, t \in BOOLEAN : FilterPreCreate(h, s, d, t)
         \/ \E class \in Classes, f \in BOOLEAN : FilterPreSetInformation(h, class, f)
         \/ FilterPostCreate(h) \/ FsSetInformation(h) \/ FilterPostSetInformation(h) \/ DecrementNumOps(h)
  PROVE  RestTypes'
<1> USE IsoDeleteAssumption DEF RestTypes
<1>1. ASSUME NEW s \in Streams, NEW d \in BOOLEAN, NEW t \in BOOLEAN, FilterPreCreate(h, s, d, t)
      PROVE  RestTypes'
  <2>1. FlagTypes'
    BY <1>1 DEF FlagTypes, FilterPreCreate, CreateIrpContext
  <2>2. CountTypes'
    BY <1>1 DEF CountTypes, FilterPreCreate, CreateIrpContext
  <2>3. causes' \subseteq Causes
    BY <1>1 DEF Causes, FilterPreCreate, CreateIrpContext
  <2> QED
    BY <2>1, <2>2, <2>3
<1>2. ASSUME FilterPostCreate(h) PROVE RestTypes'
  <2>1. FlagTypes'
    BY <1>2 DEF FlagTypes, FilterPostCreate
  <2>2. CountTypes'
    BY <1>2 DEF CountTypes, FilterPostCreate
  <2>3. causes' \subseteq Causes
    BY <1>2 DEF Causes, FilterPostCreate
  <2> QED
    BY <2>1, <2>2, <2>3
<1>3. ASSUME NEW class \in Classes, NEW f \in BOOLEAN, FilterPreSetInformation(h, class, f)
      PROVE  RestTypes'
  <2>1. FlagTypes'
    BY <1>3 DEF FlagTypes, FilterPreSetInformation, CreateIrpContext
  <2>2. CountTypes'
    BY <1>3 DEF CountTypes, FilterPreSetInformation, CreateIrpContext
  <2>3. causes' \subseteq Causes
    BY <1>3 DEF Causes, FilterPreSetInformation, CreateIrpContext
  <2> QED
    BY <2>1, <2>2, <2>3
<1>4. ASSUME FsSetInformation(h) PROVE RestTypes'
  <2>1. FlagTypes'
    BY <1>4 DEF FlagTypes, FsSetInformation
  <2>2. CountTypes'
    BY <1>4 DEF CountTypes, FsSetInformation
  <2>3. causes' \subseteq Causes
    BY <1>4 DEF Causes, FsSetInformation
  <2> QED
    BY <2>1, <2>2, <2>3
<1>5. ASSUME FilterPostSetInformation(h) PROVE RestTypes'
  <2>1. FlagTypes'
    BY <1>5 DEF FlagTypes, FilterPostSetInformation
  <2>2. CountTypes'
    BY <1>5 DEF CountTypes, FilterPostSetInformation
  <2>3. causes' \subseteq Causes
    BY <1>5 DEF Causes, FilterPostSetInformation
  <2> QED
    BY <2>1, <2>2, <2>3
<1>6. ASSUME DecrementNumOps(h) PROVE RestTypes'
  <2>1. FlagTypes'
    BY <1>6 DEF FlagTypes, DecrementNumOps
  <2>2. CountTypes'
    BY <1>6 DEF CountTypes, DecrementNumOps
  <2>3. causes' \subseteq Causes
    BY <1>6 DEF Causes, DecrementNumOps
  <2> QED
    BY <2>1, <2>2, <2>3
<1> QED
  BY <1>1, <1>2, <1>3, <1>4, <1>5, <1>6

LEMMA CleanupTypes ==
  ASSUME RestTypes, NEW h \in Handles,
         \/ FilterPreCleanup(h) \/ FilterPostCleanup(h) \/ QueryDeleted(h)
         \/ GetTransactionContext(h) \/ SolIfFileDeleted(h)
         \/ SolGetFileId(h) \/ SolBuildFileIdString(h) \/ SolDetectDeleteByFileId(h)
         \/ SolNotifyDelete(h)
  PROVE  RestTypes'
<1> USE IsoDeleteAssumption DEF RestTypes
<1>1. CASE FilterPreCleanup(h)
  <2>1. FlagTypes'
    BY <1>1 DEF FlagTypes, FilterPreCleanup, CreateIrpContext
  <2>2. CountTypes'
    BY <1>1 DEF CountTypes, FilterPreCleanup, CreateIrpContext
  <2>3. causes' \subseteq Causes
    BY <1>1 DEF Causes, FilterPreCleanup, CreateIrpContext
  <2> QED
    BY <2>1, <2>2, <2>3
<1>2. CASE FilterPostCleanup(h)
  <2>1. FlagTypes'
    BY <1>2 DEF FlagTypes, FilterPostCleanup
  <2>2. CountTypes'
    BY <1>2 DEF CountTypes, FilterPostCleanup
  <2>3. causes' \subseteq Causes
    BY <1>2 DEF Causes, FilterPostCleanup
  <2> QED
    BY <2>1, <2>2, <2>3
<1>3. CASE QueryDeleted(h)
  <2>1. FlagTypes'
    BY <1>3 DEF FlagTypes, QueryDeleted
  <2>2. CountTypes'
    BY <1>3 DEF CountTypes, QueryDeleted
  <2>3. causes' \subseteq Causes
    BY <1>3 DEF Causes, QueryDeleted
  <2> QED
    BY <2>1, <2>2, <2>3
<1>4. CASE GetTransactionContext(h)
  <2>1. FlagTypes'
    BY <1>4 DEF FlagTypes, GetTransactionContext
  <2>2. CountTypes'
    BY <1>4 DEF CountTypes, GetTransactionContext
  <2>3. causes' \subseteq Causes
    BY <1>4 DEF Causes, GetTransactionContext
  <2> QED
    BY <2>1, <2>2, <2>3
<1>5. CASE SolIfFileDeleted(h)
  <2>1. FlagTypes'
    BY <1>5 DEF FlagTypes, SolIfFileDeleted, Answer, GiveUp
  <2>2. CountTypes'
    BY <1>5 DEF CountTypes, SolIfFileDeleted, Answer, GiveUp
  <2>3. causes' \subseteq Causes
    BY <1>5 DEF Causes, SolIfFileDeleted, Answer, GiveUp
  <2> QED
    BY <2>1, <2>2, <2>3
<1>6. CASE SolGetFileId(h)
  <2>1. FlagTypes'
    BY <1>6 DEF FlagTypes, SolGetFileId, Answer, GiveUp, SolFreeUnicodeString
  <2>2. CountTypes'
    BY <1>6 DEF CountTypes, SolGetFileId, Answer, GiveUp, SolFreeUnicodeString
  <2>3. causes' \subseteq Causes
    BY <1>6 DEF Causes, SolGetFileId, Answer, GiveUp, SolFreeUnicodeString
  <2> QED
    BY <2>1, <2>2, <2>3
<1>7. CASE SolBuildFileIdString(h)
  <2>1. FlagTypes'
    BY <1>7 DEF FlagTypes, SolBuildFileIdString, GiveUp, SolFreeUnicodeString, SolGetVolumeGuidName
  <2>2. CountTypes'
    BY <1>7 DEF CountTypes, SolBuildFileIdString, GiveUp, SolFreeUnicodeString, SolGetVolumeGuidName
  <2>3. causes' \subseteq Causes
    BY <1>7 DEF Causes, SolBuildFileIdString, GiveUp, SolFreeUnicodeString, SolGetVolumeGuidName
  <2> QED
    BY <2>1, <2>2, <2>3
<1>8. CASE SolDetectDeleteByFileId(h)
  <2>1. FlagTypes'
    BY <1>8 DEF FlagTypes, SolDetectDeleteByFileId, Answer, GiveUp, SolFreeUnicodeString, SolGetVolumeGuidName
  <2>2. CountTypes'
    BY <1>8 DEF CountTypes, SolDetectDeleteByFileId, Answer, GiveUp, SolFreeUnicodeString, SolGetVolumeGuidName
  <2>3. causes' \subseteq Causes
    BY <1>8 DEF Causes, SolDetectDeleteByFileId, Answer, GiveUp, SolFreeUnicodeString, SolGetVolumeGuidName
  <2> QED
    BY <2>1, <2>2, <2>3
<1>9. CASE SolNotifyDelete(h)
  <2>1. FlagTypes'
    BY <1>9 DEF FlagTypes, SolNotifyDelete, NotifyEventFileDeleteTo, SolAddTransDeleteNotify, Packet
  <2>2. CountTypes'
    BY <1>9 DEF CountTypes, SolNotifyDelete, NotifyEventFileDeleteTo, SolAddTransDeleteNotify, Packet
  <2>3. causes' \subseteq Causes
    BY <1>9 DEF Causes, SolNotifyDelete, NotifyEventFileDeleteTo, SolAddTransDeleteNotify, Packet
  <2> QED
    BY <2>1, <2>2, <2>3
<1> QED
  BY <1>1, <1>2, <1>3, <1>4, <1>5, <1>6, <1>7, <1>8, <1>9

LEMMA TypesInvariance == Spec => []RestTypes
<1>1. RestTypes /\ [Next]_vars => RestTypes'
  <2> SUFFICES ASSUME RestTypes, [Next]_vars PROVE RestTypes'
    OBVIOUS
  <2>1. ASSUME NEW h \in Handles, Step(h) PROVE RestTypes'
    BY <2>1, EarlyTypes, CleanupTypes DEF Step
  <2>2. CASE EndTransaction
    BY <2>2 DEF EndTransaction, RestTypes, FlagTypes, CountTypes
  <2>3. CASE FilterTransactionNotificationCallback
    <3>1. FlagTypes' /\ CountTypes'
      BY <2>3 DEF FilterTransactionNotificationCallback, CtxTransactionContextCleanupCallback, RestTypes,
         FlagTypes, CountTypes
    <3>2. causes' \subseteq Causes
      BY <2>3 DEF FilterTransactionNotificationCallback, RestTypes, Causes
    <3> QED
      BY <3>1, <3>2 DEF RestTypes
  <2>4. CASE UNCHANGED vars
    BY <2>4 DEF vars, RestTypes, FlagTypes, CountTypes
  <2> QED
    BY <2>1, <2>2, <2>3, <2>4 DEF Next
<1>2. Init => RestTypes
  <2> SUFFICES ASSUME Init PROVE RestTypes
    OBVIOUS
  <2>1. FlagTypes
    BY DEF Init, FlagTypes
  <2>2. CountTypes
    BY IsoDeleteAssumption DEF Init, CountTypes
  <2> QED
    BY <2>1, <2>2 DEF Init, RestTypes
<1> QED
  BY <1>1, <1>2, PTL DEF Spec

(* Whatever the handles and the transaction do: a stream the file system has    *)
(* marked is a candidate when no change is under way; a deletion is missed, is   *)
(* reported of a file still there, or by two streams, only for the reasons the   *)
(* properties name (FilterPostCleanup, SolProcessDelete, SolNotifyDelete).       *)
THEOREM ReportsAreExplained == Spec => []ReportsExplained
<1>1. BeforeInv /\ ReportInv /\ RestTypes => ReportsExplained
  <2> SUFFICES ASSUME BeforeInv, ReportInv, RestTypes PROVE ReportsExplained
    OBVIOUS
  <2>0. TypeOK
    BY DEF TypeOK, BeforeInv, RestTypes, FlagTypes, CountTypes, CoverInv, CoverTypes, DecisionInv, DecisionTypes, Sighted, Labels
  <2>1. CandidateCovers /\ FalseReportExplained
    BY CoverIsEnough DEF BeforeInv, Sighted, FalseReportExplained
  <2>2. MissExplained
    <3> SUFFICES ASSUME Settled, gone[Main] = "plain", Reported = {}, causes = {} PROVE FALSE
      BY DEF MissExplained
    <3>1. calls[Main] > 0 \/ \E h \in Handles : Chases(h)
      BY DEF ReportInv, DeletionChased
    <3>2. ~\E h \in Handles : Chases(h)
      BY DEF Settled, Chases, Asking
    <3> QED
      BY <3>1, <3>2, IsoDeleteAssumption DEF Reported
  <2>3. ReportedTwiceExplained
    <3> SUFFICES ASSUME ~overlap, ~misled, NEW r \in Reported, NEW s \in Reported PROVE r = s
      BY DEF ReportedTwiceExplained
    <3>1. gone[Main] = "plain" /\ r \in Sources /\ s \in Sources
      BY DEF ReportInv, OneSource, Sources
    <3> QED
      BY <3>1 DEF ReportInv, OneSource
  <2> QED
    BY <2>0, <2>1, <2>2, <2>3 DEF ReportsExplained
<1> QED
  BY <1>1, ReportInvariance, TypesInvariance, PTL

-----------------------------------------------------------------------------
(* The references to an instance context. *)

(* A set that changes by one element at most. *)
LEMMA OneMoves ==
  ASSUME NEW S, NEW T, NEW r, IsFiniteSet(S), IsFiniteSet(T), S \ {r} = T \ {r}
  PROVE  /\ Cardinality(S) \in Nat /\ Cardinality(T) \in Nat
         /\ Cardinality(T) + (IF r \in S THEN 1 ELSE 0) = Cardinality(S) + (IF r \in T THEN 1 ELSE 0)
<1>1. Cardinality(S) \in Nat /\ Cardinality(T) \in Nat
  BY FS_CardinalityType
<1>2. CASE r \in S /\ r \notin T
  <2>1. T = S \ {r}
    BY <1>2
  <2> QED
    BY <1>1, <1>2, <2>1, FS_RemoveElement
<1>3. CASE r \notin S /\ r \in T
  <2>1. S = T \ {r}
    BY <1>3
  <2> QED
    BY <1>1, <1>3, <2>1, FS_RemoveElement
<1>4. CASE (r \in S) = (r \in T)
  <2>1. S = T
    BY <1>4
  <2> QED
    BY <1>1, <2>1
<1> QED
  BY <1>1, <1>2, <1>3, <1>4

USE DEF instanceHistory

InUseOn(i, v) == IF i.pc # "idle" /\ i.vol = v THEN 1 ELSE 0
BeingMadeOn(i, v) == IF i.pc = "creating" /\ i.vol = v THEN 1 ELSE 0

LEMMA NoIrpType == NoIrp \in Irps /\ NoIrp.pc = "idle"
<1>1. (CHOOSE v \in Volumes : TRUE) \in Volumes
  BY IrpAssumption
<1> QED
  BY <1>1 DEF NoIrp, Irps

(* What one request does to the number of IRP contexts of a volume. *)
LEMMA IrpMoves ==
  ASSUME irp \in [Requests -> Irps], NEW r \in Requests, NEW x \in Irps, NEW v \in Volumes,
         irp' = [irp EXCEPT ![r] = x]
  PROVE  /\ Cardinality(IrpsOn(v)) \in Nat /\ Cardinality(CreatingOn(v)) \in Nat
         /\ Cardinality(IrpsOn(v)') \in Nat /\ Cardinality(CreatingOn(v)') \in Nat
         /\ Cardinality(IrpsOn(v)') + InUseOn(irp[r], v) = Cardinality(IrpsOn(v)) + InUseOn(x, v)
         /\ Cardinality(CreatingOn(v)') + BeingMadeOn(irp[r], v) = Cardinality(CreatingOn(v)) + BeingMadeOn(x, v)
         /\ irp' \in [Requests -> Irps]
<1>1. /\ IsFiniteSet(IrpsOn(v)) /\ IsFiniteSet(IrpsOn(v)')
      /\ IsFiniteSet(CreatingOn(v)) /\ IsFiniteSet(CreatingOn(v)')
  <2>1. /\ IrpsOn(v) \subseteq Requests /\ IrpsOn(v)' \subseteq Requests
        /\ CreatingOn(v) \subseteq Requests /\ CreatingOn(v)' \subseteq Requests
    BY DEF IrpsOn, CreatingOn
  <2> QED
    BY <2>1, FS_Subset, IrpAssumption
<1>2. IrpsOn(v) \ {r} = IrpsOn(v)' \ {r} /\ CreatingOn(v) \ {r} = CreatingOn(v)' \ {r}
  BY DEF IrpsOn, CreatingOn
<1>3. /\ (r \in IrpsOn(v)) = (irp[r].pc # "idle" /\ irp[r].vol = v)
      /\ (r \in IrpsOn(v)') = (x.pc # "idle" /\ x.vol = v)
      /\ (r \in CreatingOn(v)) = (irp[r].pc = "creating" /\ irp[r].vol = v)
      /\ (r \in CreatingOn(v)') = (x.pc = "creating" /\ x.vol = v)
  BY DEF IrpsOn, CreatingOn
<1> QED
  BY <1>1, <1>2, <1>3, OneMoves DEF InUseOn, BeingMadeOn

LEMMA IrpStays ==
  ASSUME NEW v \in Volumes, irp' = irp
  PROVE  /\ Cardinality(IrpsOn(v)) \in Nat /\ Cardinality(CreatingOn(v)) \in Nat
         /\ IrpsOn(v)' = IrpsOn(v) /\ CreatingOn(v)' = CreatingOn(v)
<1>1. IrpsOn(v) \subseteq Requests /\ CreatingOn(v) \subseteq Requests
  BY DEF IrpsOn, CreatingOn
<1>2. IsFiniteSet(IrpsOn(v)) /\ IsFiniteSet(CreatingOn(v))
  BY <1>1, FS_Subset, IrpAssumption
<1> QED
  BY <1>2, FS_CardinalityType DEF IrpsOn, CreatingOn

(* The parts of the invariant one step may change, for a volume nobody touches. *)
LEMMA ContextsStay ==
  ASSUME InstancesInv, NEW v \in Volumes,
         instance'[v] = instance[v], instanceRefs'[v] = instanceRefs[v], fcbs'[v] = fcbs[v], ownMade'[v] = ownMade[v],
         Cardinality(IrpsOn(v)') = Cardinality(IrpsOn(v)), Cardinality(CreatingOn(v)') = Cardinality(CreatingOn(v))
  PROVE  ContextsOf(v)'
  BY DEF InstancesInv, ContextsOf, OfInstance

(* The steps of an instance. *)
LEMMA InstanceSteps ==
  ASSUME InstancesInv, NEW x \in Volumes,
         InstanceSetup(x) \/ InstanceSetup_Fail(x) \/ InstanceTeardownStart(x) \/ DeleteInstance(x)
  PROVE  InstancesInv'
<1>1. /\ UNCHANGED << fcbs, irp, ownMade, missed, nullReferenced >> /\ volumeTable' = {}
  BY DEF InstancesInv, InstanceSetup, InstanceSetup_Fail, InstanceTeardownStart, DeleteInstance,
         VolumeMgr_Add, VolumeMgr_Remove
<1>2. /\ instance' \in [Volumes -> {"detached", "attached", "stopping", "gone"}]
      /\ instanceRefs' \in [Volumes -> Int]
  BY DEF InstancesInv, InstanceSetup, InstanceSetup_Fail, InstanceTeardownStart, DeleteInstance
<1>3. ASSUME NEW v \in Volumes PROVE ContextsOf(v)'
  <2>1. /\ Cardinality(IrpsOn(v)) \in Nat /\ Cardinality(CreatingOn(v)) \in Nat
        /\ IrpsOn(v)' = IrpsOn(v) /\ CreatingOn(v)' = CreatingOn(v)
    BY <1>1, IrpStays
  <2>2. CASE v # x
    <3>1. instance'[v] = instance[v] /\ instanceRefs'[v] = instanceRefs[v]
      BY <2>2 DEF InstancesInv, InstanceSetup, InstanceSetup_Fail, InstanceTeardownStart, DeleteInstance
    <3> QED
      BY <1>1, <2>1, <3>1, ContextsStay
  <2>3. CASE v = x
    <3>0. /\ fcbs[x] \in Int /\ ownMade[x] \in Int /\ instanceRefs[x] \in Int
          /\ ContextsOf(x)
      BY DEF InstancesInv
    <3>1. CASE InstanceSetup(x)
      <4>1. instance[x] = "detached" /\ instance'[x] = "attached" /\ instanceRefs'[x] = 1
        BY <3>1 DEF InstanceSetup, InstancesInv
      <4>2. CreatingOn(x) \subseteq IrpsOn(x)
        BY DEF CreatingOn, IrpsOn
      <4>3. Cardinality(CreatingOn(x)) = 0
        <5>1. IsFiniteSet(IrpsOn(x))
          <6>1. IrpsOn(x) \subseteq Requests
            BY DEF IrpsOn
          <6> QED
            BY <6>1, FS_Subset, IrpAssumption
        <5>2. Cardinality(IrpsOn(x)) = 0
          BY <3>0, <4>1 DEF ContextsOf
        <5>3. Cardinality(CreatingOn(x)) <= Cardinality(IrpsOn(x))
          BY <4>2, <5>1, FS_Subset
        <5> QED
          BY <2>1, <2>3, <5>2, <5>3
      <4> QED
        BY <1>1, <2>1, <2>3, <3>0, <4>1, <4>3 DEF ContextsOf, OfInstance
    <3>2. CASE InstanceSetup_Fail(x)
      <4>1. instance[x] = "detached" /\ instance'[x] = "gone" /\ instanceRefs'[x] = instanceRefs[x]
        BY <3>2 DEF InstanceSetup_Fail, InstancesInv
      <4> QED
        BY <1>1, <2>1, <2>3, <3>0, <4>1 DEF ContextsOf, OfInstance
    <3>3. CASE InstanceTeardownStart(x)
      <4>1. instance[x] = "attached" /\ instance'[x] = "stopping" /\ instanceRefs'[x] = instanceRefs[x]
        BY <3>3 DEF InstanceTeardownStart, InstancesInv
      <4> QED
        BY <1>1, <2>1, <2>3, <3>0, <4>1 DEF ContextsOf, OfInstance
    <3>4. CASE DeleteInstance(x)
      <4>1. instance[x] = "stopping" /\ instance'[x] = "gone" /\ instanceRefs'[x] = instanceRefs[x] - 1
        BY <3>4 DEF DeleteInstance, InstancesInv
      <4> QED
        BY <1>1, <2>1, <2>3, <3>0, <4>1 DEF ContextsOf, OfInstance
    <3> QED
      BY <3>1, <3>2, <3>3, <3>4
  <2> QED
    BY <2>2, <2>3
<1> QED
  BY <1>1, <1>2, <1>3 DEF InstancesInv

(* A count that goes up by what goes down elsewhere. *)
LEMMA SameSum ==
  ASSUME NEW a \in Int, NEW b \in Int, NEW i \in Int, NEW j \in Int, a + i = b + j, j = i
  PROVE  a = b
  OBVIOUS

(* A step of a request, by what it does to the counts of each volume. *)
Balanced(r, x) ==
    \A v \in Volumes :
       /\ instanceRefs'[v] - fcbs'[v] - ownMade'[v] - InUseOn(x, v) - BeingMadeOn(x, v)
            = instanceRefs[v] - fcbs[v] - ownMade[v] - InUseOn(irp[r], v) - BeingMadeOn(irp[r], v)
       /\ instance[v] = "detached" => fcbs'[v] = fcbs[v] /\ ownMade'[v] = ownMade[v] /\ InUseOn(x, v) = InUseOn(irp[r], v)

LEMMA RequestKeeps ==
  ASSUME InstancesInv, NEW r \in Requests, NEW x \in Irps, irp' = [irp EXCEPT ![r] = x],
         UNCHANGED << instance, volumeTable, nullReferenced >>, missed' \subseteq Volumes,
         instanceRefs' \in [Volumes -> Int], ownMade' \in [Volumes -> Nat], fcbs' \in [Volumes -> 0..MaxOpens],
         Balanced(r, x)
  PROVE  InstancesInv'
<1>1. irp' \in [Requests -> Irps]
  BY DEF InstancesInv
<1>2. ASSUME NEW v \in Volumes PROVE ContextsOf(v)'
  <2>1. /\ Cardinality(IrpsOn(v)) \in Nat /\ Cardinality(CreatingOn(v)) \in Nat
        /\ Cardinality(IrpsOn(v)') \in Nat /\ Cardinality(CreatingOn(v)') \in Nat
        /\ Cardinality(IrpsOn(v)') + InUseOn(irp[r], v) = Cardinality(IrpsOn(v)) + InUseOn(x, v)
        /\ Cardinality(CreatingOn(v)') + BeingMadeOn(irp[r], v) = Cardinality(CreatingOn(v)) + BeingMadeOn(x, v)
    BY IrpMoves DEF InstancesInv
  <2>2. /\ InUseOn(irp[r], v) \in Int /\ InUseOn(x, v) \in Int
        /\ BeingMadeOn(irp[r], v) \in Int /\ BeingMadeOn(x, v) \in Int
        /\ OfInstance(v) \in Int /\ OfInstance(v)' = OfInstance(v)
    BY DEF InUseOn, BeingMadeOn, OfInstance
  <2>3. /\ fcbs[v] \in Int /\ ownMade[v] \in Int /\ instanceRefs[v] \in Int
        /\ fcbs'[v] \in Int /\ ownMade'[v] \in Int /\ instanceRefs'[v] \in Int
        /\ ContextsOf(v)
    BY DEF InstancesInv
  <2>4. /\ instanceRefs'[v] - fcbs'[v] - ownMade'[v] - InUseOn(x, v) - BeingMadeOn(x, v)
             = instanceRefs[v] - fcbs[v] - ownMade[v] - InUseOn(irp[r], v) - BeingMadeOn(irp[r], v)
        /\ instance[v] = "detached" => fcbs'[v] = fcbs[v] /\ ownMade'[v] = ownMade[v] /\ InUseOn(x, v) = InUseOn(irp[r], v)
    BY DEF Balanced
  <2>5. instance'[v] = instance[v]
    OBVIOUS
  <2>6. instanceRefs'[v] = OfInstance(v) + fcbs'[v] + Cardinality(IrpsOn(v)') + Cardinality(CreatingOn(v)') + ownMade'[v]
    <3>1. instanceRefs[v] = OfInstance(v) + fcbs[v] + Cardinality(IrpsOn(v)) + Cardinality(CreatingOn(v)) + ownMade[v]
      BY <2>3 DEF ContextsOf
    <3> HIDE DEF InUseOn, BeingMadeOn, OfInstance
    <3> QED
      BY <2>1, <2>2, <2>3, <2>4, <3>1
  <2>7. ASSUME instance[v] = "detached"
        PROVE  Cardinality(IrpsOn(v)') = 0 /\ fcbs'[v] = 0 /\ ownMade'[v] = 0
    <3>1. Cardinality(IrpsOn(v)) = 0 /\ fcbs[v] = 0 /\ ownMade[v] = 0
      BY <2>3, <2>7 DEF ContextsOf
    <3>2. fcbs'[v] = fcbs[v] /\ ownMade'[v] = ownMade[v] /\ InUseOn(x, v) = InUseOn(irp[r], v)
      BY <2>4, <2>7
    <3>3. Cardinality(IrpsOn(v)') = Cardinality(IrpsOn(v))
      BY ONLY <2>1, <2>2, <3>2, SameSum
    <3> QED
      BY <3>1, <3>2, <3>3
  <2> QED
    BY <2>2, <2>5, <2>6, <2>7 DEF ContextsOf
<1> QED
  BY <1>1, <1>2 DEF InstancesInv

(* A request on a volume works on an instance that has been set up. *)
LEMMA InUseIsSetUp ==
  ASSUME InstancesInv, NEW r \in Requests, irp[r].pc # "idle"
  PROVE  irp[r].vol \in Volumes /\ instance[irp[r].vol] # "detached"
<1>1. PICK v \in Volumes : v = irp[r].vol
  BY DEF InstancesInv, Irps
<1>2. r \in IrpsOn(v) /\ IrpsOn(v) \subseteq Requests
  BY <1>1 DEF IrpsOn
<1>3. Cardinality(IrpsOn(v)) # 0
  BY <1>2, FS_Subset, FS_EmptySet, IrpAssumption
<1> QED
  BY <1>1, <1>3 DEF InstancesInv, ContextsOf

LEMMA RequestSteps ==
  ASSUME InstancesInv, NEW r \in Requests, NEW v \in Volumes,
         (\E own \in BOOLEAN : CreateIrpContextOn(r, v, own)) \/ GetFileMetaDataInfo(r, v)
  PROVE  InstancesInv'
<1>1. CASE \E own \in BOOLEAN : CreateIrpContextOn(r, v, own)
  <2>1. PICK own \in BOOLEAN : CreateIrpContextOn(r, v, own)
    BY <1>1
  <2> DEFINE x == [pc |-> "creating", vol |-> v, own |-> own, opened |-> FALSE]
  <2>2. x \in Irps
    BY DEF Irps
  <2>3. /\ irp' = [irp EXCEPT ![r] = x] /\ UNCHANGED << instance, volumeTable, nullReferenced, missed, fcbs >>
        /\ instance[v] = "attached" /\ irp[r].pc = "idle"
    BY <2>1, NoIrpType DEF CreateIrpContextOn
  <2>4. /\ instanceRefs' = [instanceRefs EXCEPT ![v] = @ + (IF own THEN 3 ELSE 2)]
        /\ ownMade' = [ownMade EXCEPT ![v] = @ + (IF own THEN 1 ELSE 0)]
    BY <2>1 DEF CreateIrpContextOn, References
  <2>5. /\ instanceRefs' \in [Volumes -> Int] /\ ownMade' \in [Volumes -> Nat]
        /\ fcbs' \in [Volumes -> 0..MaxOpens] /\ missed' \subseteq Volumes
    BY <2>3, <2>4 DEF InstancesInv
  <2>6. ASSUME NEW w \in Volumes
        PROVE  /\ instanceRefs'[w] - fcbs'[w] - ownMade'[w] - InUseOn(x, w) - BeingMadeOn(x, w)
                    = instanceRefs[w] - fcbs[w] - ownMade[w] - InUseOn(irp[r], w) - BeingMadeOn(irp[r], w)
               /\ instance[w] = "detached" => fcbs'[w] = fcbs[w] /\ ownMade'[w] = ownMade[w] /\ InUseOn(x, w) = InUseOn(irp[r], w)
    <3>1. fcbs[w] \in Int /\ ownMade[w] \in Int /\ instanceRefs[w] \in Int
      BY DEF InstancesInv
    <3>2. CASE w = v
      <4>1. /\ instanceRefs'[w] = instanceRefs[w] + (IF own THEN 3 ELSE 2)
            /\ ownMade'[w] = ownMade[w] + (IF own THEN 1 ELSE 0)
        BY <2>4, <3>2 DEF InstancesInv
      <4> QED
        BY <2>3, <3>1, <3>2, <4>1 DEF InUseOn, BeingMadeOn
    <3>3. CASE w # v
      <4>1. instanceRefs'[w] = instanceRefs[w] /\ ownMade'[w] = ownMade[w]
        BY <2>4, <3>3 DEF InstancesInv
      <4> QED
        BY <2>3, <3>1, <3>3, <4>1 DEF InUseOn, BeingMadeOn
    <3> QED
      BY <3>2, <3>3
  <2> HIDE DEF x
  <2>7. Balanced(r, x)
    BY <2>6 DEF Balanced
  <2> QED
    BY <2>2, <2>3, <2>5, <2>7, RequestKeeps
<1>2. CASE GetFileMetaDataInfo(r, v)
  <2>1. /\ UNCHANGED << instance, fcbs, irp, volumeTable, ownMade, instanceRefs, nullReferenced >>
        /\ missed' \subseteq Volumes
    BY <1>2 DEF GetFileMetaDataInfo, VolumeMgr_SearchContext, InstancesInv
  <2>2. ASSUME NEW w \in Volumes PROVE ContextsOf(w)'
    BY <2>1, IrpStays, ContextsStay
  <2> QED
    BY <2>1, <2>2 DEF InstancesInv
<1> QED
  BY <1>1, <1>2

(* A step of a request that goes on, by the references it takes or gives back. *)
LEMMA IrpStepKeeps ==
  ASSUME InstancesInv, NEW r \in Requests, NEW v \in Volumes, irp[r].vol = v, irp[r].pc # "idle",
         NEW x \in Irps, x.vol = v \/ x.pc = "idle", irp' = [irp EXCEPT ![r] = x],
         UNCHANGED << instance, volumeTable, nullReferenced, ownMade, missed >>,
         NEW f \in Int, NEW n \in 0..MaxOpens, n = fcbs[v] + f, fcbs' = [fcbs EXCEPT ![v] = n],
         NEW d \in Int, NEW m \in Int, m = instanceRefs[v] + d, instanceRefs' = [instanceRefs EXCEPT ![v] = m],
         d = f + InUseOn(x, v) + BeingMadeOn(x, v) - InUseOn(irp[r], v) - BeingMadeOn(irp[r], v)
  PROVE  InstancesInv'
<1>1. /\ InUseOn(irp[r], v) \in Int /\ InUseOn(x, v) \in Int
      /\ BeingMadeOn(irp[r], v) \in Int /\ BeingMadeOn(x, v) \in Int
  BY DEF InUseOn, BeingMadeOn
<1>2. instance[v] # "detached"
  BY InUseIsSetUp
<1>3. /\ instanceRefs' \in [Volumes -> Int] /\ ownMade' \in [Volumes -> Nat] /\ missed' \subseteq Volumes
      /\ fcbs' \in [Volumes -> 0..MaxOpens]
  BY DEF InstancesInv
<1>4. ASSUME NEW w \in Volumes
      PROVE  /\ instanceRefs'[w] - fcbs'[w] - ownMade'[w] - InUseOn(x, w) - BeingMadeOn(x, w)
                  = instanceRefs[w] - fcbs[w] - ownMade[w] - InUseOn(irp[r], w) - BeingMadeOn(irp[r], w)
             /\ instance[w] = "detached" => fcbs'[w] = fcbs[w] /\ ownMade'[w] = ownMade[w] /\ InUseOn(x, w) = InUseOn(irp[r], w)
  <2>1. /\ fcbs[w] \in Int /\ ownMade[w] \in Int /\ instanceRefs[w] \in Int
        /\ fcbs \in [Volumes -> 0..MaxOpens] /\ instanceRefs \in [Volumes -> Int]
    BY DEF InstancesInv
  <2>2. CASE w = v
    <3>1. instanceRefs'[w] = instanceRefs[w] + d /\ fcbs'[w] = fcbs[w] + f /\ ownMade'[w] = ownMade[w]
      BY <2>1, <2>2
    <3>2. instanceRefs'[w] - fcbs'[w] - ownMade'[w] - InUseOn(x, w) - BeingMadeOn(x, w)
            = instanceRefs[w] - fcbs[w] - ownMade[w] - InUseOn(irp[r], w) - BeingMadeOn(irp[r], w)
      BY <1>1, <2>1, <2>2, <3>1
    <3> QED
      BY <1>2, <2>2, <3>2
  <2>3. CASE w # v
    <3>1. instanceRefs'[w] = instanceRefs[w] /\ fcbs'[w] = fcbs[w] /\ ownMade'[w] = ownMade[w]
      BY <2>1, <2>3
    <3>2. /\ InUseOn(x, w) = 0 /\ BeingMadeOn(x, w) = 0 /\ InUseOn(irp[r], w) = 0 /\ BeingMadeOn(irp[r], w) = 0
      BY <2>3 DEF InUseOn, BeingMadeOn
    <3> QED
      BY <2>1, <3>1, <3>2
  <2> QED
    BY <2>2, <2>3
<1>5. UNCHANGED << instance, volumeTable, nullReferenced >>
  OBVIOUS
<1>6. Balanced(r, x)
  BY <1>4 DEF Balanced
<1> QED
  BY <1>3, <1>5, <1>6, RequestKeeps

LEMMA IrpSteps ==
  ASSUME InstancesInv, NEW r \in Requests,
         CreateIrpContext_Finally(r) \/ InitializeFcbAndCcb(r) \/ UninitializeFcb(r) \/ CloseIrpContext(r)
  PROVE  InstancesInv'
<1>1. PICK v \in Volumes : v = irp[r].vol
  BY DEF InstancesInv, Irps
<1>2. irp[r] \in Irps /\ fcbs[v] \in 0..MaxOpens /\ instanceRefs[v] \in Int
  BY DEF InstancesInv
<1>3. fcbs' = fcbs => fcbs' = [fcbs EXCEPT ![v] = fcbs[v]]
  BY <1>2 DEF InstancesInv
<1>4. UNCHANGED << instance, volumeTable, nullReferenced, ownMade, missed >>
  BY DEF CreateIrpContext_Finally, InitializeFcbAndCcb, UninitializeFcb, CloseIrpContext
<1>5. CASE CreateIrpContext_Finally(r)
  <2> DEFINE x == [irp[r] EXCEPT !.pc = "made"]
  <2>1. x \in Irps /\ x.pc = "made" /\ x.vol = v /\ irp[r].pc = "creating"
    BY <1>1, <1>2, <1>5 DEF Irps, CreateIrpContext_Finally
  <2>2. irp' = [irp EXCEPT ![r] = x] /\ fcbs' = fcbs /\ instanceRefs' = [instanceRefs EXCEPT ![v] = @ - 1]
    BY <1>1, <1>5 DEF CreateIrpContext_Finally
  <2>3. InUseOn(x, v) = 1 /\ BeingMadeOn(x, v) = 0 /\ InUseOn(irp[r], v) = 1 /\ BeingMadeOn(irp[r], v) = 1
    BY <1>1, <2>1 DEF InUseOn, BeingMadeOn
  <2> HIDE DEF x
  <2>4. PICK f \in Int, n \in 0..MaxOpens, d \in Int, m \in Int :
           f = 0 /\ n = fcbs[v] /\ d = 0 - 1 /\ m = instanceRefs[v] - 1
    BY <1>2
  <2>5. n = fcbs[v] + f /\ m = instanceRefs[v] + d
    BY <1>2, <2>4
  <2>6. d = f + InUseOn(x, v) + BeingMadeOn(x, v) - InUseOn(irp[r], v) - BeingMadeOn(irp[r], v)
    BY <2>3, <2>4
  <2>7. fcbs' = [fcbs EXCEPT ![v] = n] /\ instanceRefs' = [instanceRefs EXCEPT ![v] = m]
    BY <1>3, <2>2, <2>4
  <2>8. irp' = [irp EXCEPT ![r] = x] /\ irp[r].vol = v /\ irp[r].pc # "idle" /\ (x.vol = v \/ x.pc = "idle")
    BY <1>1, <2>1, <2>2
  <2>9. x \in Irps
    BY <2>1
  <2> QED
    BY <1>4, <2>5, <2>6, <2>7, <2>8, <2>9, IrpStepKeeps
<1>6. CASE InitializeFcbAndCcb(r)
  <2> DEFINE x == [irp[r] EXCEPT !.opened = TRUE]
  <2>1. x \in Irps /\ x.pc = "made" /\ x.vol = v /\ irp[r].pc = "made"
    BY <1>1, <1>2, <1>6 DEF Irps, InitializeFcbAndCcb
  <2>2. /\ irp' = [irp EXCEPT ![r] = x] /\ fcbs' = [fcbs EXCEPT ![v] = @ + 1] /\ fcbs[v] < MaxOpens
        /\ instanceRefs' = [instanceRefs EXCEPT ![v] = @ + 1]
    BY <1>1, <1>6 DEF InitializeFcbAndCcb
  <2>3. InUseOn(x, v) = 1 /\ BeingMadeOn(x, v) = 0 /\ InUseOn(irp[r], v) = 1 /\ BeingMadeOn(irp[r], v) = 0
    BY <1>1, <2>1 DEF InUseOn, BeingMadeOn
  <2>4. fcbs[v] + 1 \in 0..MaxOpens
    BY <1>2, <2>2, IrpAssumption
  <2> HIDE DEF x
  <2>6. (fcbs[v] + 1) = fcbs[v] + 1 /\ (fcbs[v] + 1) \in 0..MaxOpens /\ (instanceRefs[v] + 1) = instanceRefs[v] + 1 /\ (instanceRefs[v] + 1) \in Int /\ 1 \in Int
    BY <1>2, <2>4
  <2>7. 1 = 1 + InUseOn(x, v) + BeingMadeOn(x, v) - InUseOn(irp[r], v) - BeingMadeOn(irp[r], v)
    BY <2>3
  <2> QED
    BY <1>1, <1>4, <2>1, <2>2, <2>6, <2>7, IrpStepKeeps
<1>7. CASE UninitializeFcb(r)
  <2> DEFINE x == [irp[r] EXCEPT !.opened = TRUE]
             others == {q \in Requests \ {r} : irp[q].pc # "idle" /\ irp[q].vol = v /\ irp[q].own}
  <2>1. x \in Irps /\ x.pc = "made" /\ x.vol = v /\ irp[r].pc = "made"
    BY <1>1, <1>2, <1>7 DEF Irps, UninitializeFcb
  <2>2. /\ irp' = [irp EXCEPT ![r] = x] /\ fcbs' = [fcbs EXCEPT ![v] = @ - 1] /\ fcbs[v] > Cardinality(others)
        /\ instanceRefs' = [instanceRefs EXCEPT ![v] = @ - 1]
    BY <1>1, <1>7 DEF UninitializeFcb
  <2>3. fcbs[v] - 1 \in 0..MaxOpens
    <3>1. others \subseteq Requests
      OBVIOUS
    <3>2. Cardinality(others) \in Nat
      BY <3>1, FS_Subset, FS_CardinalityType, IrpAssumption
    <3> HIDE DEF others
    <3> QED
      BY <1>2, <2>2, <3>2, IrpAssumption
  <2> HIDE DEF others
  <2>4. InUseOn(x, v) = 1 /\ BeingMadeOn(x, v) = 0 /\ InUseOn(irp[r], v) = 1 /\ BeingMadeOn(irp[r], v) = 0
    BY <1>1, <2>1 DEF InUseOn, BeingMadeOn
  <2> HIDE DEF x
  <2>6. (fcbs[v] - 1) = fcbs[v] + (0 - 1) /\ (fcbs[v] - 1) \in 0..MaxOpens /\ (instanceRefs[v] - 1) = instanceRefs[v] + (0 - 1) /\ (instanceRefs[v] - 1) \in Int /\ (0 - 1) \in Int
    BY <1>2, <2>3
  <2>7. (0 - 1) = (0 - 1) + InUseOn(x, v) + BeingMadeOn(x, v) - InUseOn(irp[r], v) - BeingMadeOn(irp[r], v)
    BY <2>4
  <2> QED
    BY <1>1, <1>4, <2>1, <2>2, <2>6, <2>7, IrpStepKeeps
<1>8. CASE CloseIrpContext(r)
  <2>1. NoIrp \in Irps /\ NoIrp.pc = "idle" /\ irp[r].pc = "made"
    BY <1>8, NoIrpType DEF CloseIrpContext
  <2>2. irp' = [irp EXCEPT ![r] = NoIrp] /\ fcbs' = fcbs /\ instanceRefs' = [instanceRefs EXCEPT ![v] = @ - 1]
    BY <1>1, <1>8 DEF CloseIrpContext
  <2>3. /\ InUseOn(NoIrp, v) = 0 /\ BeingMadeOn(NoIrp, v) = 0
        /\ InUseOn(irp[r], v) = 1 /\ BeingMadeOn(irp[r], v) = 0
    BY <1>1, <2>1 DEF InUseOn, BeingMadeOn
  <2>4. PICK f \in Int, n \in 0..MaxOpens, d \in Int, m \in Int :
           f = 0 /\ n = fcbs[v] /\ d = 0 - 1 /\ m = instanceRefs[v] - 1
    BY <1>2
  <2>5. n = fcbs[v] + f /\ m = instanceRefs[v] + d
    BY <1>2, <2>4
  <2>6. d = f + InUseOn(NoIrp, v) + BeingMadeOn(NoIrp, v) - InUseOn(irp[r], v) - BeingMadeOn(irp[r], v)
    BY <2>3, <2>4
  <2>7. fcbs' = [fcbs EXCEPT ![v] = n] /\ instanceRefs' = [instanceRefs EXCEPT ![v] = m]
    BY <1>3, <2>2, <2>4
  <2>8. irp' = [irp EXCEPT ![r] = NoIrp] /\ irp[r].vol = v /\ irp[r].pc # "idle" /\ (NoIrp.vol = v \/ NoIrp.pc = "idle")
    BY <1>1, <2>1, <2>2
  <2>9. NoIrp \in Irps
    BY <2>1
  <2> QED
    BY <1>4, <2>5, <2>6, <2>7, <2>8, <2>9, IrpStepKeeps
<1> QED
  BY <1>5, <1>6, <1>7, <1>8

LEMMA InstancesInvIsEnough == InstancesInv => InstancesAccounted
<1> SUFFICES ASSUME InstancesInv PROVE InstancesAccounted
  OBVIOUS
<1>1. ASSUME NEW v \in Volumes PROVE instanceRefs[v] \in Nat
  <2>1. Cardinality(IrpsOn(v)) \in Nat /\ Cardinality(CreatingOn(v)) \in Nat
    <3>1. IrpsOn(v) \subseteq Requests /\ CreatingOn(v) \subseteq Requests
      BY DEF IrpsOn, CreatingOn
    <3> QED
      BY <3>1, FS_Subset, FS_CardinalityType, IrpAssumption
  <2>2. fcbs[v] \in Nat /\ ownMade[v] \in Nat /\ ContextsOf(v)
    BY IrpAssumption DEF InstancesInv
  <2> QED
    BY <2>1, <2>2 DEF ContextsOf, OfInstance
<1>2. InstancesTypeOK
  BY <1>1 DEF InstancesInv, InstancesTypeOK
<1> QED
  BY <1>2 DEF InstancesInv, InstancesAccounted, ContextsAccounted, NoNullReference, ContextsOf

LEMMA InstancesInvInit == InstancesInit => InstancesInv
<1> SUFFICES ASSUME InstancesInit PROVE InstancesInv
  OBVIOUS
<1>1. irp \in [Requests -> Irps] /\ \A v \in Volumes : IrpsOn(v) = {} /\ CreatingOn(v) = {}
  BY NoIrpType DEF InstancesInit, IrpsOn, CreatingOn
<1>2. \A v \in Volumes : ContextsOf(v)
  BY <1>1, FS_EmptySet DEF InstancesInit, ContextsOf, OfInstance
<1> QED
  BY <1>1, <1>2, IrpAssumption DEF InstancesInit, InstancesInv

LEMMA InstancesInvStep == InstancesInv /\ [InstancesNext]_instanceVars => InstancesInv'
<1> SUFFICES ASSUME InstancesInv, [InstancesNext]_instanceVars PROVE InstancesInv'
  OBVIOUS
<1>1. CASE UNCHANGED instanceVars
  <2>1. ASSUME NEW v \in Volumes PROVE ContextsOf(v)'
    BY <1>1, IrpStays, ContextsStay DEF instanceVars
  <2> QED
    BY <1>1, <2>1 DEF instanceVars, InstancesInv
<1>2. CASE InstancesNext
  BY <1>2, InstanceSteps, RequestSteps, IrpSteps DEF InstancesNext
<1> QED
  BY <1>1, <1>2

(* Every reference to an instance context has its holder, but one for each IRP on *)
(* an own file; no null context is referenced (CreateIrpContext, CloseIrpContext, *)
(* InitializeFcbAndCcb, UninitializeFCB, VolumeMgr_SearchContext).                *)
THEOREM InstancesStayAccounted == InstancesSpec => []InstancesAccounted
<1>1. InstancesSpec => []InstancesInv
  BY InstancesInvInit, InstancesInvStep, PTL DEF InstancesSpec
<1> QED
  BY <1>1, InstancesInvIsEnough, PTL

-----------------------------------------------------------------------------
(* The table of process names. *)

LEMMA LeastIndex ==
  ASSUME NEW S, S \subseteq Nat, S # {}
  PROVE  \E i \in S : \A j \in S : i <= j
<1>1. PICK i \in S : \A j \in S : ~(<<j, i>> \in OpToRel(<, Nat))
  BY NatLessThanWellFounded, WFMin, Zenon
<1>2. ASSUME NEW j \in S PROVE i <= j
  <2>1. <<j, i>> \notin {ab \in Nat \X Nat : ab[1] < ab[2]}
    BY <1>1, Zenon DEF OpToRel
  <2>2. ~(j < i)
    BY <2>1
  <2> QED
    BY <2>2
<1> QED
  BY <1>2

(* SearchProcessInfo finds the first entry of an id. *)
LEMMA FindFirst ==
  ASSUME table \in Seq(Entries), NEW q
  PROVE  /\ Find(q) = 0 <=> ~Linked(q)
         /\ Find(q) # 0 => Find(q) \in DOMAIN table /\ table[Find(q)].pid = q
<1> DEFINE I == {i \in 1..Len(table) : table[i].pid = q}
<1>1. Find(q) = IF I # {} THEN Min(I) ELSE 0
  BY DEF Find, SelectInSeq
<1>2. DOMAIN table = 1..Len(table) /\ Len(table) \in Nat
  OBVIOUS
<1>3. I = {} <=> ~Linked(q)
  BY <1>2 DEF Linked
<1>4. ASSUME I # {} PROVE Min(I) \in I
  <2>1. I \subseteq Nat
    BY <1>2
  <2>2. \E i \in I : \A j \in I : i <= j
    BY <1>4, <2>1, LeastIndex
  <2> HIDE DEF I
  <2> QED
    BY <2>2 DEF Min
<1> QED
  BY <1>1, <1>2, <1>3, <1>4

Of(s, p) == {i \in DOMAIN s : s[i].proc = p}

(* Counting the entries of a process: one more in front, one taken out. *)
LEMMA CountFront ==
  ASSUME NEW s \in Seq(Entries), NEW e \in Entries, NEW p
  PROVE  /\ <<e>> \o s \in Seq(Entries)
         /\ Cardinality(Of(s, p)) \in Nat
         /\ Cardinality(Of(<<e>> \o s, p)) = Cardinality(Of(s, p)) + (IF e.proc = p THEN 1 ELSE 0)
<1> DEFINE u == <<e>> \o s
           up == {i + 1 : i \in Of(s, p)}
<1>1. /\ u \in Seq(Entries) /\ Len(u) = Len(s) + 1 /\ u[1] = e
      /\ \A i \in 1..Len(s) : u[i + 1] = s[i]
      /\ DOMAIN u = 1..Len(u) /\ DOMAIN s = 1..Len(s)
  OBVIOUS
<1>2. IsFiniteSet(Of(s, p)) /\ Cardinality(Of(s, p)) \in Nat
  <2>1. Of(s, p) \in SUBSET (1..Len(s)) /\ Len(s) \in Nat
    BY <1>1 DEF Of
  <2>2. IsFiniteSet(1..Len(s))
    BY <2>1, FS_Interval
  <2> QED
    BY <2>1, <2>2, FS_Subset, FS_CardinalityType
<1>3. Cardinality(up) = Cardinality(Of(s, p)) /\ IsFiniteSet(up)
  <2> DEFINE f == [i \in Of(s, p) |-> i + 1]
  <2>1. f \in Bijection(Of(s, p), up)
    <3>1. \A i \in Of(s, p) : i \in Nat
      BY DEF Of
    <3> QED
      BY <3>1 DEF Bijection, Injection, Surjection, IsInjective
  <2>2. ExistsBijection(Of(s, p), up)
    BY <2>1 DEF ExistsBijection
  <2> QED
    BY <1>2, <2>2, FS_Bijection, FS_SameCardinalityBij
<1>4. Of(u, p) = IF e.proc = p THEN up \cup {1} ELSE up
  <2>1. \A i \in 1..Len(u) : i = 1 \/ (i - 1 \in 1..Len(s) /\ i = (i - 1) + 1)
    BY <1>1
  <2> HIDE DEF u
  <2>2. \A i : i \in Of(u, p) <=> i \in 1..Len(u) /\ u[i].proc = p
    BY <1>1 DEF Of
  <2>3. \A i : i \in up <=> \E j \in 1..Len(s) : s[j].proc = p /\ i = j + 1
    BY <1>1 DEF Of
  <2> HIDE DEF up
  <2>4. \A i : i \in up => i \in 1..Len(u) /\ u[i].proc = p /\ i # 1
    BY <1>1, <2>3
  <2>5. ASSUME NEW i \in 1..Len(u), u[i].proc = p, i # 1 PROVE i \in up
    <3>1. PICK j \in 1..Len(s) : i = j + 1
      BY <2>1, <2>5
    <3>2. s[j].proc = p
      BY <1>1, <2>5, <3>1
    <3> QED
      BY <2>3, <3>1, <3>2
  <2>6. u[1] = e /\ 1 \in 1..Len(u)
    BY <1>1
  <2>7. CASE e.proc = p
    <3>1. Of(u, p) = up \cup {1}
      BY <2>2, <2>4, <2>5, <2>6, <2>7
    <3> QED
      BY <2>7, <3>1
  <2>8. CASE e.proc # p
    <3>1. Of(u, p) = up
      BY <2>2, <2>4, <2>5, <2>6, <2>8
    <3> QED
      BY <2>8, <3>1
  <2> QED
    BY <2>7, <2>8
<1>5. 1 \notin up
  BY DEF Of
<1> HIDE DEF up, u
<1>6. Cardinality(up \cup {1}) = Cardinality(up) + 1
  BY <1>3, <1>5, FS_AddElement
<1> QED
  BY <1>1, <1>2, <1>3, <1>4, <1>6 DEF u

LEMMA Removed ==
  ASSUME NEW s \in Seq(Entries), NEW k \in DOMAIN s
  PROVE  /\ RemoveAt(s, k) \in Seq(Entries) /\ Len(RemoveAt(s, k)) = Len(s) - 1
         /\ \A i \in 1..Len(RemoveAt(s, k)) :
               LET j == IF i < k THEN i ELSE i + 1 IN RemoveAt(s, k)[i] = s[j] /\ j \in 1..Len(s) /\ j # k
         /\ DOMAIN RemoveAt(s, k) = 1..Len(RemoveAt(s, k)) /\ DOMAIN s = 1..Len(s)
<1> DEFINE u == RemoveAt(s, k)
           n == Len(s)
           g(i) == IF i < k THEN i ELSE i + 1
<1>1. /\ u \in Seq(Entries) /\ Len(u) = Len(s) - 1
      /\ \A i \in 1..Len(u) : u[i] = s[g(i)] /\ g(i) \in 1..Len(s) /\ g(i) # k
      /\ DOMAIN u = 1..Len(u) /\ DOMAIN s = 1..Len(s)
  <2> DEFINE a == SubSeq(s, 1, k - 1)
             b == SubSeq(s, k + 1, n)
  <2>1. k \in 1..n /\ n \in Nat /\ \A i \in 1..n : s[i] \in Entries
    BY LenProperties, ElementOfSeq
  <2> HIDE DEF n
  <2>2. a \in Seq(Entries) /\ Len(a) = k - 1 /\ \A i \in 1..k - 1 : a[i] = s[i]
    <3>1. 1 \in Int /\ k - 1 \in Int /\ \A i \in 1..k - 1 : s[i] \in Entries
      BY <2>1
    <3>2. /\ a \in Seq(Entries) /\ Len(a) = IF 1 <= k - 1 THEN (k - 1) - 1 + 1 ELSE 0
          /\ \A i \in 1..(k - 1) - 1 + 1 : a[i] = s[1 + i - 1]
      BY <3>1, SubSeqProperties
    <3> QED
      BY <2>1, <3>2
  <2>3. b \in Seq(Entries) /\ Len(b) = n - k /\ \A i \in 1..n - k : b[i] = s[k + i]
    <3>1. k + 1 \in Int /\ n \in Int /\ \A i \in k + 1..n : s[i] \in Entries
      BY <2>1
    <3>2. /\ b \in Seq(Entries) /\ Len(b) = IF k + 1 <= n THEN n - (k + 1) + 1 ELSE 0
          /\ \A i \in 1..n - (k + 1) + 1 : b[i] = s[(k + 1) + i - 1]
      BY <3>1, SubSeqProperties
    <3>3. n - (k + 1) + 1 = n - k /\ (IF k + 1 <= n THEN n - (k + 1) + 1 ELSE 0) = n - k
      BY <2>1
    <3>4. ASSUME NEW i \in 1..n - k PROVE b[i] = s[k + i]
      <4>1. (k + 1) + i - 1 = k + i
        BY <2>1
      <4> QED
        BY ONLY <3>2, <3>3, <3>4, <4>1
    <3> QED
      BY ONLY <3>2, <3>3, <3>4
  <2>4. u = a \o b
    BY DEF RemoveAt, n
  <2> HIDE DEF a, b, u
  <2>5. /\ u \in Seq(Entries) /\ Len(u) = n - 1
        /\ \A i \in 1..Len(u) : u[i] = IF i <= Len(a) THEN a[i] ELSE b[i - Len(a)]
    <3>1. /\ u \in Seq(Entries) /\ Len(u) = Len(a) + Len(b)
          /\ \A i \in 1..Len(a) + Len(b) : u[i] = IF i <= Len(a) THEN a[i] ELSE b[i - Len(a)]
      BY <2>2, <2>3, <2>4, ConcatProperties
    <3>2. Len(a) + Len(b) = n - 1
      BY <2>1, <2>2, <2>3
    <3> QED
      BY <3>1, <3>2
  <2>6. ASSUME NEW i \in 1..Len(u) PROVE u[i] = s[g(i)] /\ g(i) \in 1..n /\ g(i) # k
    <3>1. CASE i < k
      BY <2>1, <2>2, <2>5, <3>1
    <3>2. CASE ~(i < k)
      <4>1. u[i] = b[i - (k - 1)]
        BY <2>1, <2>2, <2>5, <3>2
      <4>2. i - (k - 1) \in 1..n - k /\ k + (i - (k - 1)) = i + 1 /\ i + 1 \in 1..n /\ i + 1 # k
        BY <2>1, <2>5, <3>2
      <4> QED
        BY <2>3, <3>2, <4>1, <4>2
    <3> QED
      BY <3>1, <3>2
  <2>7. DOMAIN u = 1..Len(u) /\ DOMAIN s = 1..n
    BY <2>5, LenProperties DEF n
  <2> QED
    BY <2>5, <2>6, <2>7 DEF n
<1> QED
  BY <1>1 DEF u

(* What is left of a table is its other entries, each once. *)
OthersOf(u, s, k) ==
    /\ \A i, j \in DOMAIN u : \E a, b \in DOMAIN s \ {k} :
          u[i] = s[a] /\ u[j] = s[b] /\ (a = b => i = j)
    /\ \A a \in DOMAIN s \ {k} : \E i \in DOMAIN u : u[i] = s[a]

LEMMA OthersLeft ==
  ASSUME NEW s \in Seq(Entries), NEW k \in DOMAIN s
  PROVE  OthersOf(RemoveAt(s, k), s, k)
<1> DEFINE g(i) == IF i < k THEN i ELSE i + 1
           u == RemoveAt(s, k)
<1>1. /\ u \in Seq(Entries) /\ Len(u) = Len(s) - 1
      /\ \A i \in 1..Len(u) : u[i] = s[g(i)] /\ g(i) \in 1..Len(s) /\ g(i) # k
      /\ DOMAIN u = 1..Len(u) /\ DOMAIN s = 1..Len(s)
  BY Removed
<1> HIDE DEF u
<1>2. ASSUME NEW i \in DOMAIN u, NEW j \in DOMAIN u
      PROVE  \E a, b \in DOMAIN s \ {k} : u[i] = s[a] /\ u[j] = s[b] /\ (a = b => i = j)
  <2>1. g(i) \in DOMAIN s \ {k} /\ g(j) \in DOMAIN s \ {k} /\ u[i] = s[g(i)] /\ u[j] = s[g(j)]
    BY <1>1
  <2>2. g(i) = g(j) => i = j
    BY <1>1
  <2> QED
    BY ONLY <2>1, <2>2
<1>3. ASSUME NEW a \in DOMAIN s \ {k} PROVE \E i \in DOMAIN u : u[i] = s[a]
  <2>1. a \in 1..Len(s) /\ k \in 1..Len(s) /\ a # k /\ Len(s) \in Nat
    BY <1>1
  <2>2. PICK i : i = IF a < k THEN a ELSE a - 1
    OBVIOUS
  <2>3. i \in 1..Len(u) /\ g(i) = a
    BY <1>1, <2>1, <2>2
  <2> QED
    BY <1>1, <2>3
<1>4. OthersOf(u, s, k)
  BY <1>2, <1>3 DEF OthersOf
<1> QED
  BY <1>4 DEF u

LEMMA CountRemoved ==
  ASSUME NEW s \in Seq(Entries), NEW k \in DOMAIN s, NEW p
  PROVE  /\ Cardinality(Of(s, p)) \in Nat /\ Cardinality(Of(RemoveAt(s, k), p)) \in Nat
         /\ Cardinality(Of(s, p)) = Cardinality(Of(RemoveAt(s, k), p)) + (IF s[k].proc = p THEN 1 ELSE 0)
<1> DEFINE u == RemoveAt(s, k)
           g(i) == IF i < k THEN i ELSE i + 1
<1>1. /\ u \in Seq(Entries) /\ Len(u) = Len(s) - 1
      /\ \A i \in 1..Len(u) : u[i] = s[g(i)] /\ g(i) \in 1..Len(s) /\ g(i) # k
      /\ DOMAIN u = 1..Len(u) /\ DOMAIN s = 1..Len(s)
  BY Removed
<1>2. /\ IsFiniteSet(Of(s, p)) /\ Cardinality(Of(s, p)) \in Nat
      /\ IsFiniteSet(Of(u, p)) /\ Cardinality(Of(u, p)) \in Nat
  <2>1. Of(s, p) \in SUBSET (1..Len(s)) /\ Of(u, p) \in SUBSET (1..Len(u)) /\ Len(s) \in Nat /\ Len(u) \in Nat
    BY <1>1 DEF Of
  <2>2. IsFiniteSet(1..Len(s)) /\ IsFiniteSet(1..Len(u))
    BY <2>1, FS_Interval
  <2> QED
    BY <2>1, <2>2, FS_Subset, FS_CardinalityType
<1> HIDE DEF u
<1>3. Cardinality(Of(u, p)) = Cardinality(Of(s, p) \ {k})
  <2> DEFINE f == [i \in Of(u, p) |-> g(i)]
  <2>1. \A i \in Of(u, p) : i \in 1..Len(u) /\ u[i].proc = p
    BY <1>1 DEF Of
  <2>2. \A i \in Of(u, p) : g(i) \in Of(s, p) \ {k}
    BY <1>1, <2>1 DEF Of
  <2>3. \A i, j \in Of(u, p) : g(i) = g(j) => i = j
    BY <1>1, <2>1
  <2>4. \A j \in Of(s, p) \ {k} : \E i \in Of(u, p) : j = g(i)
    <3> TAKE j \in Of(s, p) \ {k}
    <3>1. j \in 1..Len(s) /\ k \in 1..Len(s) /\ j # k /\ s[j].proc = p /\ Len(s) \in Nat
      BY <1>1 DEF Of
    <3>2. PICK i : i = IF j < k THEN j ELSE j - 1
      OBVIOUS
    <3>3. i \in 1..Len(u) /\ g(i) = j
      BY <1>1, <3>1, <3>2
    <3> QED
      BY <1>1, <3>1, <3>3 DEF Of
  <2>5. f \in Bijection(Of(u, p), Of(s, p) \ {k})
    BY <2>2, <2>3, <2>4 DEF Bijection, Injection, Surjection, IsInjective
  <2>6. ExistsBijection(Of(u, p), Of(s, p) \ {k})
    BY <2>5 DEF ExistsBijection
  <2> QED
    BY <1>2, <2>6, FS_Bijection, FS_SameCardinalityBij
<1>4. k \in Of(s, p) <=> s[k].proc = p
  BY <1>1 DEF Of
<1>5. Cardinality(Of(s, p)) = Cardinality(Of(u, p)) + (IF s[k].proc = p THEN 1 ELSE 0)
  <2>1. CASE k \in Of(s, p)
    <3>1. Cardinality(Of(s, p) \ {k}) = Cardinality(Of(s, p)) - 1
      BY <1>2, <2>1, FS_RemoveElement
    <3> QED
      BY ONLY <1>2, <1>3, <1>4, <2>1, <3>1
  <2>2. CASE k \notin Of(s, p)
    <3>1. Of(s, p) \ {k} = Of(s, p) /\ s[k].proc # p
      BY <1>4, <2>2
    <3>2. Cardinality(Of(s, p)) = Cardinality(Of(u, p))
      BY ONLY <1>3, <3>1
    <3> QED
      BY ONLY <1>2, <3>1, <3>2
  <2> QED
    BY <2>1, <2>2
<1> QED
  BY <1>2, <1>5 DEF u

(* No process is created yet. *)
LEMMA NamesInvInit == ASSUME NamesInit PROVE NamesInv
<1> USE NamesAssumption
<1>1. NamesTypeOK
  <2>1. NotInCall \in Calls
    BY DEF NotInCall, CallOf, Calls, Statuses
  <2> QED
    BY <2>1 DEF NamesInit, NamesTypeOK
<1>2. ASSUME NEW p \in Procs PROVE EntriesOf(p) = {} /\ refs[p] = Cardinality(EntriesOf(p)) + leaks[p]
  <2>1. EntriesOf(p) = {}
    BY DEF NamesInit, EntriesOf
  <2> QED
    BY <2>1, FS_EmptySet DEF NamesInit
<1>3. ASSUME NEW t \in Threads PROVE CallSound(t)
  BY DEF NamesInit, CallSound, NotInCall, CallOf, Starts
<1> QED
  BY <1>1, <1>2, <1>3 DEF NamesInv, NamesInit, ReferencesAccounted, LeftExplained, OwnersDiffer, There,
     EntryOwned, OneEntry

(* A call that is not touched stays sound while its process is there and its entry linked. *)
LEMMA OtherCall ==
  ASSUME NEW u \in Threads, CallSound(u), thr'[u] = thr[u],
         \A p \in Procs : thr[u].pc # "idle" /\ thr[u].proc = p /\ There(p) => There(p)' /\ pid'[p] = pid[p],
         \A q : thr[u].pc = "search" /\ thr[u].pid = q /\ Linked(q) => Linked(q)',
         thr[u] \in Calls
  PROVE  CallSound(u)'
<1>1. PICK r \in Calls : r = thr[u] /\ r = thr'[u]
  OBVIOUS
<1>2. /\ r.pc # "idle" => IF r.proc = NoProc
                          THEN r.pid = SystemPid /\ r.op = "request" /\ r.pc \in {"search", "done"}
                          ELSE There(r.proc) /\ r.pid = pid[r.proc] /\ r.current \in Procs
      /\ r.pc = "delete" => r.op = "exit"
      /\ r.pc = "insert" => r.depth < MaxDepth
      /\ r.why = {} => /\ r.depth <= Starts(r)
                       /\ r.pc = "insert" => r.depth < Starts(r)
                       /\ r.pc = "search" /\ r.depth = Starts(r) => Linked(r.pid)
      /\ RightNames /\ r.pc \in {"delete", "done"} => r.answer \in {NoProc, r.proc}
  BY <1>1 DEF CallSound
<1>3. r.proc \in Procs \cup {NoProc}
  BY DEF Calls
<1>4. r.pc # "idle" /\ r.proc # NoProc => There(r.proc)' /\ r.pid = pid'[r.proc]
  BY <1>1, <1>2, <1>3
<1>5. r.pc = "search" /\ Linked(r.pid) => Linked(r.pid)'
  BY <1>1
<1>6. Starts(r)' = Starts(r)
  BY DEF Starts
<1> QED
  BY <1>1, <1>2, <1>4, <1>5, <1>6 DEF CallSound, RightNames

(* Steps that leave the table alone: it is enough to look at the processes and the calls. *)
LEMMA TableStays ==
  ASSUME NamesInv, NamesTypeOK', UNCHANGED <<refs, table, leaks, raced, forgotten, late>>,
         \A p \in Procs : EntriesOf(p) # {} => There(p)' /\ pid'[p] = pid[p],
         OwnersDiffer', \A t \in Threads : CallSound(t)'
  PROVE  NamesInv'
<1>1. \A p \in Procs : EntriesOf(p)' = EntriesOf(p)
  BY DEF EntriesOf
<1>2. ReferencesAccounted' /\ LeftExplained' /\ \A p \in Procs : OneEntry(p)'
  <2>1. ASSUME NEW p \in Procs PROVE refs'[p] = Cardinality(EntriesOf(p)') + leaks'[p]
    BY <1>1 DEF NamesInv, ReferencesAccounted
  <2>2. ASSUME NEW p \in forgotten' \ (raced' \cup late') PROVE EntriesOf(p)' = {}
    <3>1. p \in Procs /\ EntriesOf(p) = {}
      BY <2>2 DEF NamesInv, LeftExplained, NamesTypeOK
    <3> QED
      BY <1>1, <3>1
  <2>3. ASSUME NEW p \in Procs PROVE OneEntry(p)'
    <3>1. OneEntry(p) /\ EntriesOf(p)' = EntriesOf(p)
      BY <1>1 DEF NamesInv
    <3> QED
      BY <3>1 DEF OneEntry
  <2> QED
    BY <2>1, <2>2, <2>3 DEF ReferencesAccounted, LeftExplained
<1>3. ASSUME NEW i \in DOMAIN table' PROVE EntryOwned(i)'
  <2>1. i \in DOMAIN table /\ table'[i] = table[i] /\ table[i] \in Entries
    BY DEF NamesInv, NamesTypeOK
  <2>2. table[i].proc \in Procs /\ EntriesOf(table[i].proc) # {}
    BY <2>1 DEF Entries, EntriesOf
  <2>3. PICK p \in Procs : p = table[i].proc /\ p = table'[i].proc /\ There(p)' /\ pid'[p] = pid[p]
    BY <2>1, <2>2
  <2> QED
    BY <2>1, <2>3 DEF NamesInv, EntryOwned, RightNames
<1> QED
  BY <1>2, <1>3 DEF NamesInv

(* A step of one call that changes nothing else. *)
LEMMA CallMoves ==
  ASSUME NamesInv, NEW t \in Threads, NEW rec \in Calls, Go(t, rec), CallSound(t)',
         UNCHANGED <<life, pid, refs, table, open, leaks, raced, forgotten, late>>
  PROVE  NamesInv'
<1>1. NamesTypeOK'
  BY DEF NamesInv, NamesTypeOK, Go
<1>2. OwnersDiffer' /\ \A p \in Procs : There(p)' <=> There(p)
  BY DEF NamesInv, OwnersDiffer, There, Owner
<1>3. ASSUME NEW u \in Threads PROVE CallSound(u)'
  <2>1. CASE u = t
    BY <2>1
  <2>2. CASE u # t
    <3>1. thr'[u] = thr[u] /\ thr[u] \in Calls /\ CallSound(u)
      BY <2>2 DEF NamesInv, NamesTypeOK, Go
    <3>2. \A q : Linked(q) => Linked(q)'
      BY DEF Linked
    <3> QED
      BY <1>2, <3>1, <3>2, OtherCall
  <2> QED
    BY <2>1, <2>2
<1>4. \A p \in Procs : EntriesOf(p) # {} => There(p)' /\ pid'[p] = pid[p]
  <2> SUFFICES ASSUME NEW p \in Procs, EntriesOf(p) # {} PROVE There(p)
    BY <1>2
  <2> QED
    BY DEF EntriesOf, NamesInv, EntryOwned
<1> QED
  BY <1>1, <1>2, <1>3, <1>4, TableStays

(* The references of a process are those of its entries and of the ones dropped. *)
LEMMA Counted ==
  ASSUME NamesInv, NEW p \in Procs
  PROVE  /\ refs[p] = Cardinality(EntriesOf(p)) + leaks[p]
         /\ refs[p] \in Nat /\ leaks[p] \in Nat /\ Cardinality(EntriesOf(p)) \in Nat
         /\ IsFiniteSet(EntriesOf(p))
<1>1. refs[p] = Cardinality(EntriesOf(p)) + leaks[p] /\ refs[p] \in Nat /\ leaks[p] \in Nat
  BY DEF NamesInv, NamesTypeOK, ReferencesAccounted
<1>2. DOMAIN table = 1..Len(table) /\ Len(table) \in Nat
  BY DEF NamesInv, NamesTypeOK
<1>3. EntriesOf(p) \in SUBSET (1..Len(table))
  BY <1>2 DEF EntriesOf
<1>4. IsFiniteSet(1..Len(table))
  BY <1>2, FS_Interval
<1>5. IsFiniteSet(EntriesOf(p)) /\ Cardinality(EntriesOf(p)) \in Nat
  BY <1>3, <1>4, FS_Subset, FS_CardinalityType
<1> QED
  BY <1>1, <1>5

(* What a call that is under way looks like. *)
LEMMA CallType ==
  ASSUME NamesInv, NEW t \in Threads
  PROVE  thr[t] \in Calls /\ CallSound(t)
BY DEF NamesInv, NamesTypeOK

(* The object of a process that is there has an id, and the id has no other object. *)
LEMMA OwnsAlone ==
  ASSUME NamesInv, NEW p \in Procs, There(p)
  PROVE  /\ pid[p] \in Pids /\ pid[p] # SystemPid
         /\ \A x \in Procs : There(x) /\ pid[x] = pid[p] => x = p
BY NamesAssumption DEF NamesInv, OwnersDiffer, Owner

(* A call that starts. *)
LEMMA NewCall ==
  ASSUME NEW to \in {"search", "insert"}, NEW op \in {"create", "exit", "request"},
         NEW p \in Procs \cup {NoProc}, NEW q \in Pids \cup {SystemPid}, NEW c \in Procs \cup {NoProc}
  PROVE  CallOf(to, op, p, q, c) \in Calls
BY NamesAssumption DEF CallOf, Calls, Statuses

(* The kernel's steps. *)
LEMMA KernelKeeps == ASSUME NamesInv, Kernel PROVE NamesInv'
<1> USE NamesAssumption
<1>e. ASSUME NEW p \in Procs, EntriesOf(p) # {} PROVE There(p) /\ refs[p] # 0
  <2>1. There(p)
    BY <1>e DEF EntriesOf, NamesInv, EntryOwned
  <2>2. refs[p] = Cardinality(EntriesOf(p)) + leaks[p] /\ leaks[p] \in Nat
    BY Counted
  <2>3. Cardinality(EntriesOf(p)) # 0 /\ Cardinality(EntriesOf(p)) \in Nat
    BY <1>e, Counted, FS_EmptySet
  <2> QED
    BY ONLY <2>1, <2>2, <2>3
<1>l. ASSUME UNCHANGED table, NEW q, Linked(q) PROVE Linked(q)'
  BY <1>l DEF Linked
<1>1. ASSUME NEW t \in Threads, NEW p \in Procs, NEW c \in Procs, NEW q \in Pids, ProcessCreated(t, p, q, c)
      PROVE  NamesInv'
  <2>1. PICK rec : rec = CallOf("insert", "create", p, q, c)
    OBVIOUS
  <2>2. rec \in Calls
    BY <2>1, NewCall
  <2>3. NamesTypeOK'
    BY <1>1, <2>1, <2>2 DEF ProcessCreated, NamesInv, NamesTypeOK
  <2>4. /\ \A x \in Procs : There(x)' <=> (x = p \/ There(x))
        /\ \A x \in Procs : x # p => pid'[x] = pid[x]
        /\ There(p)' /\ pid'[p] = q /\ ~There(p)
        /\ \A x \in Procs : There(x) => x # p /\ pid[x] # q
    BY <1>1 DEF ProcessCreated, NamesInv, NamesTypeOK, There, Owner
  <2>5. ASSUME NEW x \in Procs, There(x)' PROVE pid'[x] \in Pids /\ Owner(pid[x])' = {x}
    <3>1. ASSUME NEW y \in Procs, There(y)', pid'[y] = pid'[x] PROVE y = x
      <4>1. CASE x = p \/ y = p
        BY <2>4, <2>5, <3>1, <4>1
      <4>2. CASE x # p /\ y # p
        BY <2>4, <2>5, <3>1, <4>2, OwnsAlone
      <4> QED
        BY <4>1, <4>2
    <3>2. pid'[x] \in Pids
      BY <2>4, <2>5, OwnsAlone
    <3> QED
      BY <2>5, <3>1, <3>2 DEF Owner
  <2>6. ASSUME NEW u \in Threads PROVE CallSound(u)'
    <3>1. CASE thr'[u] = thr[u]
      BY <1>1, <1>l, <2>4, <3>1, CallType, OtherCall DEF ProcessCreated
    <3>2. CASE thr'[u] # thr[u]
      <4>1. thr'[u] = rec
        BY <1>1, <2>1, <3>2 DEF ProcessCreated, NamesInv, NamesTypeOK
      <4>2. rec.pc = "insert" /\ rec.op = "create" /\ rec.proc = p /\ rec.pid = q /\ rec.current = c /\ rec.depth = 0
        BY <2>1 DEF CallOf
      <4> QED
        BY <2>4, <4>1, <4>2 DEF CallSound, Starts
    <3> QED
      BY <3>1, <3>2
  <2>7. \A x \in Procs : EntriesOf(x) # {} => There(x)' /\ pid'[x] = pid[x]
    BY <1>e, <2>4
  <2>8. UNCHANGED <<refs, table, leaks, raced, forgotten, late>>
    BY <1>1 DEF ProcessCreated
  <2> QED
    BY <2>3, <2>5, <2>6, <2>7, <2>8, TableStays DEF OwnersDiffer
<1>2. ASSUME NEW t \in Threads, NEW p \in Procs, ProcessExited(t, p) PROVE NamesInv'
  <2>1. PICK rec : rec = CallOf("search", "exit", p, pid[p], p)
    OBVIOUS
  <2>2. There(p) /\ \A x \in Procs : There(x)' <=> There(x)
    BY <1>2 DEF ProcessExited, NamesInv, NamesTypeOK, There
  <2>3. pid[p] \in Pids /\ rec \in Calls
    <3>1. pid[p] \in Pids
      BY <2>2, OwnsAlone
    <3> QED
      BY <2>1, <3>1, NewCall
  <2>4. NamesTypeOK'
    BY <1>2, <2>1, <2>3 DEF ProcessExited, NamesInv, NamesTypeOK
  <2>5. OwnersDiffer'
    BY <1>2, <2>2 DEF ProcessExited, NamesInv, OwnersDiffer, Owner
  <2>6. ASSUME NEW u \in Threads PROVE CallSound(u)'
    <3>1. CASE thr'[u] = thr[u]
      BY <1>2, <1>l, <2>2, <3>1, CallType, OtherCall DEF ProcessExited
    <3>2. CASE thr'[u] # thr[u]
      <4>1. thr'[u] = rec /\ pid' = pid
        BY <1>2, <2>1, <3>2 DEF ProcessExited, NamesInv, NamesTypeOK
      <4>2. rec.pc = "search" /\ rec.proc = p /\ rec.pid = pid[p] /\ rec.current = p /\ rec.depth = 0 /\ rec.op = "exit"
        BY <2>1 DEF CallOf
      <4> QED
        BY <2>2, <4>1, <4>2 DEF CallSound, Starts
    <3> QED
      BY <3>1, <3>2
  <2>7. UNCHANGED <<pid, refs, table, leaks, raced, forgotten, late>>
    BY <1>2 DEF ProcessExited
  <2> QED
    BY <1>e, <2>2, <2>4, <2>5, <2>6, <2>7, TableStays
<1>3. ASSUME NEW t \in Threads, NEW p \in Procs, Request(t, p) PROVE NamesInv'
  <2>1. PICK rec : rec = CallOf("search", "request", p, pid[p], p)
    OBVIOUS
  <2>2. There(p) /\ There(p)' /\ pid' = pid /\ thr'[t] = rec
    BY <1>3, <2>1 DEF Request, Go, There, NamesInv, NamesTypeOK
  <2>3. pid[p] \in Pids /\ rec \in Calls
    <3>1. pid[p] \in Pids
      BY <2>2, OwnsAlone
    <3> QED
      BY <2>1, <3>1, NewCall
  <2>4. rec.pc = "search" /\ rec.proc = p /\ rec.pid = pid[p] /\ rec.current = p /\ rec.depth = 0 /\ rec.op = "request"
    BY <2>1 DEF CallOf
  <2>5. CallSound(t)'
    BY <2>2, <2>4 DEF CallSound, Starts
  <2> QED
    BY <1>3, <2>1, <2>3, <2>5, CallMoves DEF Request
<1>4. ASSUME NEW t \in Threads, NEW p \in Procs, SystemRequest(t, p) PROVE NamesInv'
  <2>1. PICK rec : rec = CallOf("search", "request", NoProc, SystemPid, NoProc)
    OBVIOUS
  <2>2. rec \in Calls
    BY <2>1, NewCall
  <2>3. rec.pc = "search" /\ rec.proc = NoProc /\ rec.pid = SystemPid /\ rec.depth = 0 /\ rec.op = "request"
    BY <2>1 DEF CallOf
  <2>4. thr'[t] = rec
    BY <1>4, <2>1 DEF SystemRequest, Go, NamesInv, NamesTypeOK
  <2>5. CallSound(t)'
    BY <2>3, <2>4 DEF CallSound, Starts
  <2> QED
    BY <1>4, <2>1, <2>2, <2>5, CallMoves DEF SystemRequest
<1>5. ASSUME NEW p \in Procs, Freed(p) PROVE NamesInv'
  <2>1. /\ \A x \in Procs : There(x)' <=> (x # p /\ There(x))
        /\ UNCHANGED <<pid, refs, table, thr, leaks, raced, forgotten, late>> /\ refs[p] = 0 /\ ~Running(p)
    BY <1>5 DEF Freed, NamesInv, NamesTypeOK, There
  <2>2. NamesTypeOK'
    BY <1>5 DEF Freed, NamesInv, NamesTypeOK
  <2>3. ASSUME NEW x \in Procs, There(x)' PROVE pid'[x] \in Pids /\ Owner(pid[x])' = {x}
    BY <2>1, <2>3, OwnsAlone DEF Owner
  <2>4. ASSUME NEW u \in Threads PROVE CallSound(u)'
    <3>1. thr[u].pc # "idle" => thr[u].proc # p
      BY <2>1 DEF Running
    <3> QED
      BY <1>l, <2>1, <3>1, CallType, OtherCall
  <2>5. \A x \in Procs : EntriesOf(x) # {} => There(x)' /\ pid'[x] = pid[x]
    BY <1>e, <2>1
  <2> QED
    BY <2>1, <2>2, <2>3, <2>4, <2>5, TableStays DEF OwnersDiffer
<1> QED
  BY <1>1, <1>2, <1>3, <1>4, <1>5 DEF Kernel

(* What a call becomes: it stays a call, and its other fields stay. *)
LEMMA AfterSearchIs ==
  ASSUME NEW r \in Calls, NEW a \in Procs \cup {NoProc}, NEW s \in Statuses
  PROVE  /\ AfterSearch(r, a, s) \in Calls
         /\ AfterSearch(r, a, s).pc = IF r.op = "exit" THEN "delete" ELSE "done"
         /\ AfterSearch(r, a, s).op = r.op /\ AfterSearch(r, a, s).proc = r.proc
         /\ AfterSearch(r, a, s).pid = r.pid /\ AfterSearch(r, a, s).current = r.current
         /\ AfterSearch(r, a, s).depth = r.depth /\ AfterSearch(r, a, s).why = r.why
         /\ AfterSearch(r, a, s).answer = a
<1>1. PICK to : to = IF r.op = "exit" THEN "delete" ELSE "done"
  OBVIOUS
<1>2. PICK f : f = [r EXCEPT !.pc = to, !.answer = a, !.status = s]
  OBVIOUS
<1>3. f = AfterSearch(r, a, s)
  BY <1>1, <1>2 DEF AfterSearch
<1>4. to \in {"delete", "done"}
  BY <1>1
<1>5. f \in Calls
  BY <1>2, <1>4 DEF Calls, Statuses
<1>6. /\ f.pc = to /\ f.op = r.op /\ f.proc = r.proc /\ f.pid = r.pid /\ f.current = r.current
      /\ f.depth = r.depth /\ f.why = r.why /\ f.answer = a
  BY <1>2 DEF Calls
<1> QED
  BY <1>1, <1>3, <1>5, <1>6

LEMMA Why ==
  ASSUME NEW r \in Calls, NEW w \in {"memory", "lookup", "unlinked", "deleted"}
  PROVE  /\ [r EXCEPT !.why = @ \cup {w}] \in Calls
         /\ [r EXCEPT !.why = @ \cup {w}].pc = r.pc /\ [r EXCEPT !.why = @ \cup {w}].op = r.op
         /\ [r EXCEPT !.why = @ \cup {w}].proc = r.proc /\ [r EXCEPT !.why = @ \cup {w}].pid = r.pid
         /\ [r EXCEPT !.why = @ \cup {w}].current = r.current /\ [r EXCEPT !.why = @ \cup {w}].depth = r.depth
         /\ [r EXCEPT !.why = @ \cup {w}].why # {}
BY DEF Calls

LEMMA GoesTo ==
  ASSUME NEW r \in Calls, NEW to \in {"insert", "search", "done"}
  PROVE  /\ [r EXCEPT !.pc = to] \in Calls /\ [r EXCEPT !.pc = to].pc = to
         /\ [r EXCEPT !.pc = to].op = r.op /\ [r EXCEPT !.pc = to].proc = r.proc
         /\ [r EXCEPT !.pc = to].pid = r.pid /\ [r EXCEPT !.pc = to].current = r.current
         /\ [r EXCEPT !.pc = to].depth = r.depth /\ [r EXCEPT !.pc = to].why = r.why
         /\ [r EXCEPT !.pc = to].answer = r.answer
BY DEF Calls

\* After InsertProcessInfo a call searches again, one level deeper, or is over.
LEMMA AfterInsertIs ==
  ASSUME NEW r \in Calls, r.depth < MaxDepth, NEW s \in Statuses
  PROVE  /\ AfterInsert(r, s) \in Calls
         /\ AfterInsert(r, s).op = r.op /\ AfterInsert(r, s).proc = r.proc
         /\ AfterInsert(r, s).pid = r.pid /\ AfterInsert(r, s).current = r.current
         /\ AfterInsert(r, s).why = r.why
         /\ IF (r.op = "create" /\ r.depth = 0) \/ s = "SUCCESS"
            THEN AfterInsert(r, s).pc = "search" /\ AfterInsert(r, s).depth = r.depth + 1
            ELSE /\ AfterInsert(r, s).pc = IF r.op = "exit" THEN "delete" ELSE "done"
                 /\ AfterInsert(r, s).depth = r.depth /\ AfterInsert(r, s).answer = NoProc
<1>1. CASE r.op = "create" /\ r.depth = 0
  <2>1. PICK d : d = 1
    OBVIOUS
  <2>2. AfterInsert(r, s) = [r EXCEPT !.pc = "search", !.depth = d]
    BY <1>1, <2>1 DEF AfterInsert
  <2>3. d \in 0..MaxDepth
    BY NamesAssumption, <2>1
  <2>4. d = r.depth + 1
    BY <1>1, <2>1
  <2>5. [r EXCEPT !.pc = "search", !.depth = d] \in Calls
    BY <2>3 DEF Calls
  <2> QED
    BY <1>1, <2>2, <2>4, <2>5 DEF Calls
<1>2. CASE ~(r.op = "create" /\ r.depth = 0) /\ s = "SUCCESS"
  <2>1. PICK d : d = r.depth + 1
    OBVIOUS
  <2>2. AfterInsert(r, s) = [r EXCEPT !.pc = "search", !.depth = d]
    BY <1>2, <2>1 DEF AfterInsert
  <2>3. d \in 0..MaxDepth
    BY NamesAssumption, <2>1 DEF Calls
  <2> QED
    BY <1>2, <2>1, <2>2, <2>3 DEF Calls
<1>3. CASE ~(r.op = "create" /\ r.depth = 0) /\ s # "SUCCESS"
  <2>1. AfterInsert(r, s) = AfterSearch(r, NoProc, s)
    BY <1>3 DEF AfterInsert
  <2> QED
    BY <1>3, <2>1, AfterSearchIs
<1> QED
  BY <1>1, <1>2, <1>3

(* What a call under way says of its process and of the table. *)
LEMMA CallFacts ==
  ASSUME NamesInv, NEW t \in Threads, NEW r \in Calls, r = thr[t], r.pc # "idle"
  PROVE  /\ r.proc = NoProc => r.pid = SystemPid /\ r.op = "request" /\ r.pc \in {"search", "done"}
         /\ r.proc # NoProc => /\ r.proc \in Procs /\ There(r.proc) /\ r.pid = pid[r.proc]
                               /\ r.current \in Procs /\ r.pid \in Pids /\ r.pid # SystemPid
         /\ r.pc = "delete" => r.op = "exit"
         /\ r.pc = "insert" => r.depth < MaxDepth
         /\ r.why = {} => /\ r.depth <= Starts(r)
                          /\ r.pc = "insert" => r.depth < Starts(r)
                          /\ r.pc = "search" /\ r.depth = Starts(r) => Linked(r.pid)
         /\ RightNames /\ r.pc \in {"delete", "done"} => r.answer \in {NoProc, r.proc}
<1>1. CallSound(t)
  BY CallType
<1>2. r.proc \in Procs \cup {NoProc}
  BY DEF Calls
<1>3. r.proc # NoProc => r.proc \in Procs /\ There(r.proc) /\ r.pid = pid[r.proc]
  BY <1>1, <1>2 DEF CallSound
<1>4. r.proc # NoProc => r.pid \in Pids /\ r.pid # SystemPid
  BY <1>3, OwnsAlone
<1> QED
  BY <1>1, <1>3, <1>4 DEF CallSound

LEMMA SearchKeeps == ASSUME NamesInv, NEW t \in Threads, Search(t) PROVE NamesInv'
<1> USE NamesAssumption
<1>1. PICK r \in Calls : r = thr[t]
  BY CallType
<1>2. PICK i : i = Find(r.pid)
  OBVIOUS
<1>3. r.pc = "search" /\ UNCHANGED <<life, pid, refs, table, open, leaks, raced, forgotten, late>>
  BY <1>1 DEF Search
<1>4. \A q : Linked(q) <=> Linked(q)'
  BY <1>3 DEF Linked
<1>5. \A p : There(p) <=> There(p)'
  BY <1>3 DEF There
<1>6. /\ table \in Seq(Entries) /\ \A j \in DOMAIN table : EntryOwned(j)
      /\ thr \in [Threads -> Calls]
  BY DEF NamesInv, NamesTypeOK
<1>7. i = 0 <=> ~Linked(r.pid)
  BY <1>2, <1>6, FindFirst
<1>8. i # 0 => i \in DOMAIN table /\ table[i].pid = r.pid
  BY <1>2, <1>6, FindFirst
<1>9. i # 0 => r.proc # NoProc /\ (RightNames => table[i].name = r.proc) /\ table[i].name \in Procs
  <2> SUFFICES ASSUME i # 0 PROVE r.proc # NoProc /\ (RightNames => table[i].name = r.proc) /\ table[i].name \in Procs
    OBVIOUS
  <2>1. PICK e \in Entries : e = table[i] /\ There(e.proc) /\ e.pid = pid[e.proc] /\ (RightNames => e.name = e.proc)
    BY <1>6, <1>8 DEF EntryOwned
  <2>2. e.proc \in Procs /\ e.name \in Procs /\ e.pid = r.pid
    BY <1>8, <2>1 DEF Entries
  <2>3. e.pid # SystemPid
    BY <2>1, <2>2, OwnsAlone
  <2>4. r.proc # NoProc
    BY <1>1, <1>3, <2>2, <2>3, CallFacts
  <2>5. r.proc \in Procs /\ There(r.proc) /\ pid[e.proc] = pid[r.proc]
    BY <1>1, <1>3, <2>1, <2>2, <2>4, CallFacts
  <2>6. e.proc = r.proc
    BY <2>1, <2>2, <2>5, OwnsAlone
  <2> QED
    BY <2>1, <2>2, <2>4, <2>6
<1>10. ASSUME NEW a \in Procs \cup {NoProc}, Go(t, AfterSearch(r, a, "SUCCESS")),
              RightNames => a \in {NoProc, r.proc}
       PROVE  NamesInv'
  <2>0. "SUCCESS" \in Statuses
    BY DEF Statuses
  <2>1. PICK f \in Calls : f = AfterSearch(r, a, "SUCCESS")
    BY <2>0, AfterSearchIs
  <2>2. /\ f.pc = IF r.op = "exit" THEN "delete" ELSE "done"
        /\ f.op = r.op /\ f.proc = r.proc /\ f.pid = r.pid /\ f.current = r.current
        /\ f.depth = r.depth /\ f.why = r.why /\ f.answer = a
    BY ONLY <1>10, <2>0, <2>1, AfterSearchIs
  <2>3. thr'[t] = f /\ Go(t, f)
    BY <1>6, <1>10, <2>1 DEF Go
  <2>4. CallSound(t)'
    BY <1>1, <1>3, <1>5, <1>10, <2>2, <2>3, CallFacts DEF CallSound, Starts, RightNames
  <2> QED
    BY <1>3, <2>3, <2>4, CallMoves
<1>11. ASSUME NEW f \in Calls, Go(t, f), f.pc = "insert", f.op = r.op, f.proc = r.proc, f.pid = r.pid,
              f.current = r.current, f.depth = r.depth, r.depth < MaxDepth, r.pid # SystemPid,
              f.why = {} => r.why = {} /\ i = 0
       PROVE  NamesInv'
  <2>1. r.proc # NoProc
    BY <1>1, <1>3, <1>11, CallFacts
  <2>2. There(f.proc)' /\ f.pid = pid'[f.proc] /\ f.current \in Procs /\ f.proc # NoProc
    BY <1>1, <1>3, <1>5, <1>11, <2>1, CallFacts
  <2>3. f.why = {} => f.depth < Starts(f)
    <3> SUFFICES ASSUME f.why = {} PROVE f.depth < Starts(f)
      OBVIOUS
    <3>1. r.depth <= Starts(r) /\ r.depth # Starts(r) /\ Starts(f) = Starts(r) /\ Starts(r) \in Nat /\ r.depth \in Nat
      BY <1>1, <1>3, <1>7, <1>11, CallFacts DEF Starts, Calls
    <3> QED
      BY ONLY <1>11, <3>1
  <2>4. thr'[t] = f
    BY <1>6, <1>11 DEF Go
  <2>5. CallSound(t)'
    <3>1. f.depth \in Nat /\ Starts(f) \in Nat /\ Starts(f)' = Starts(f)
      BY DEF Calls, Starts
    <3> QED
      BY <1>11, <2>2, <2>3, <2>4, <3>1 DEF CallSound
  <2> QED
    BY <1>3, <1>11, <2>5, CallMoves
<1>12. CASE r.pid = SystemPid /\ Go(t, AfterSearch(r, NoProc, "SUCCESS"))
  BY <1>10, <1>12
<1>13. CASE i # 0 /\ Go(t, AfterSearch(r, table[i].name, "SUCCESS"))
  BY <1>9, <1>10, <1>13
<1>14. CASE r.pid # SystemPid /\ i = 0 /\ r.depth < MaxDepth /\ Go(t, [r EXCEPT !.pc = "insert"])
  <2>1. PICK f \in Calls : f = [r EXCEPT !.pc = "insert"]
    BY GoesTo
  <2>2. /\ f.pc = "insert" /\ f.op = r.op /\ f.proc = r.proc /\ f.pid = r.pid
        /\ f.current = r.current /\ f.depth = r.depth /\ f.why = r.why
    BY <2>1, GoesTo
  <2> QED
    BY <1>11, <1>14, <2>1, <2>2
<1>15. CASE i # 0 /\ r.depth < MaxDepth /\ Go(t, [r EXCEPT !.pc = "insert", !.why = @ \cup {"memory"}])
  <2>1. PICK f : f = [r EXCEPT !.pc = "insert", !.why = @ \cup {"memory"}]
    OBVIOUS
  <2>2. f \in Calls
    BY <2>1 DEF Calls
  <2>3. /\ f.pc = "insert" /\ f.op = r.op /\ f.proc = r.proc /\ f.pid = r.pid
        /\ f.current = r.current /\ f.depth = r.depth /\ f.why # {}
    BY <2>1 DEF Calls
  <2>4. r.pid # SystemPid
    BY <1>1, <1>3, <1>9, <1>15, CallFacts
  <2> QED
    BY <1>11, <1>15, <2>1, <2>2, <2>3, <2>4
<1> QED
  <2>1. \/ r.pid = SystemPid /\ Go(t, AfterSearch(r, NoProc, "SUCCESS"))
        \/ r.pid # SystemPid /\ i # 0 /\ Go(t, AfterSearch(r, table[i].name, "SUCCESS"))
        \/ r.pid # SystemPid /\ i = 0 /\ r.depth < MaxDepth /\ Go(t, [r EXCEPT !.pc = "insert"])
        \/ i # 0 /\ r.depth < MaxDepth /\ Go(t, [r EXCEPT !.pc = "insert", !.why = @ \cup {"memory"}])
    BY <1>1, <1>2 DEF Search
  <2> QED
    BY <2>1, <1>12, <1>13, <1>14, <1>15

LEMMA FinishKeeps == ASSUME NamesInv, NEW t \in Threads, Finish(t) PROVE NamesInv'
<1>1. NotInCall \in Calls
  BY NamesAssumption DEF NotInCall, CallOf, Calls, Statuses
<1>2. PICK f \in Calls : f = NotInCall
  BY <1>1
<1>3. f.pc = "idle" /\ f.depth = 0
  BY <1>2 DEF NotInCall, CallOf
<1>4. thr'[t] = f
  BY <1>2 DEF Finish, Go, NamesInv, NamesTypeOK
<1>5. CallSound(t)'
  BY <1>3, <1>4 DEF CallSound, Starts
<1> QED
  BY <1>1, <1>5, CallMoves DEF Finish

(* What a call becomes that has inserted an entry, or failed to, is sound. *)
LEMMA InsertedSound ==
  ASSUME NamesInv, NEW t \in Threads, NEW r \in Calls, NEW f \in Calls, NEW s \in Statuses,
         thr[t].pc = "insert", r.op = thr[t].op, r.proc = thr[t].proc, r.pid = thr[t].pid,
         r.current = thr[t].current, r.depth = thr[t].depth, r.why = {} => thr[t].why = {},
         UNCHANGED <<life, pid>>, f = AfterInsert(r, s), thr'[t] = f,
         Linked(r.pid)' \/ r.why # {} \/ s # "SUCCESS"
  PROVE  CallSound(t)'
<1> USE NamesAssumption
<1>1. PICK x \in Calls : x = thr[t]
  BY CallType
<1>2. /\ r.proc # NoProc /\ There(r.proc) /\ r.pid = pid[r.proc] /\ r.current \in Procs
      /\ r.depth < MaxDepth /\ r.depth \in Nat
      /\ r.why = {} => r.depth < Starts(r)
  BY <1>1, CallFacts DEF Starts, Calls
<1>3. There(r.proc)' /\ r.pid = pid'[r.proc]
  BY <1>2 DEF There
<1>4. /\ f.op = r.op /\ f.proc = r.proc /\ f.pid = r.pid /\ f.current = r.current /\ f.why = r.why
      /\ IF (r.op = "create" /\ r.depth = 0) \/ s = "SUCCESS"
         THEN f.pc = "search" /\ f.depth = r.depth + 1
         ELSE /\ f.pc = (IF r.op = "exit" THEN "delete" ELSE "done")
              /\ f.depth = r.depth /\ f.answer = NoProc
  BY ONLY <1>2, AfterInsertIs, f = AfterInsert(r, s), r \in Calls, s \in Statuses
<1>5. Starts(f) = Starts(r) /\ Starts(r) \in {1, 2} /\ (r.op = "create" => Starts(r) = 2)
  BY <1>4 DEF Starts
<1>6. f.pc # "idle" /\ f.pc # "insert" /\ (f.pc = "delete" => f.op = "exit")
  BY <1>4
<1>7. ASSUME f.why = {} PROVE f.depth <= Starts(f) /\ (f.pc = "search" /\ f.depth = Starts(f) => Linked(f.pid)')
  <2>1. CASE r.op = "create" /\ r.depth = 0 /\ s # "SUCCESS"
    BY <1>2, <1>4, <1>5, <2>1
  <2>2. CASE s = "SUCCESS"
    <3>1. Linked(f.pid)'
      BY <1>4, <1>7, <2>2
    <3> QED
      BY <1>2, <1>4, <1>5, <1>7, <2>2, <3>1
  <2>3. CASE ~(r.op = "create" /\ r.depth = 0) /\ s # "SUCCESS"
    BY <1>2, <1>4, <1>5, <1>7, <2>3
  <2> QED
    BY <2>1, <2>2, <2>3
<1>8. f.pc \in {"delete", "done"} => f.answer = NoProc
  BY <1>4
<1>9. thr'[t].pc = f.pc /\ Starts(f)' = Starts(f)
  BY DEF Starts
<1> QED
  BY <1>2, <1>3, <1>4, <1>6, <1>7, <1>8, <1>9 DEF CallSound

LEMMA InsertFailsKeeps == ASSUME NamesInv, NEW t \in Threads, InsertFails(t) PROVE NamesInv'
<1>1. PICK r \in Calls : r = thr[t]
  BY CallType
<1>2. r.pc = "insert" /\ UNCHANGED <<life, pid, refs, table, open, leaks, raced, forgotten, late>>
  BY <1>1 DEF InsertFails
<1>3. r.depth < MaxDepth
  BY <1>1, <1>2, CallFacts
<1>4. ASSUME NEW w \in {"memory", "lookup"}, NEW s \in Statuses, Go(t, AfterInsert([r EXCEPT !.why = @ \cup {w}], s))
      PROVE  NamesInv'
  <2>1. PICK x \in Calls : x = [r EXCEPT !.why = @ \cup {w}]
    BY Why
  <2>2. /\ x.op = r.op /\ x.proc = r.proc /\ x.pid = r.pid /\ x.current = r.current /\ x.depth = r.depth
        /\ x.why # {}
    BY <2>1, Why
  <2>3. PICK f \in Calls : f = AfterInsert(x, s)
    BY <1>3, <2>2, AfterInsertIs
  <2>4. Go(t, f) /\ thr'[t] = f
    BY <1>4, <2>1, <2>3 DEF Go, NamesInv, NamesTypeOK
  <2>5. CallSound(t)'
    BY <1>1, <1>2, <2>2, <2>3, <2>4, InsertedSound
  <2> QED
    BY <1>2, <2>4, <2>5, CallMoves
<1>5. "INSUFFICIENT_RESOURCES" \in Statuses /\ "INVALID_PARAMETER" \in Statuses
  BY DEF Statuses
<1> QED
  BY <1>1, <1>4, <1>5 DEF InsertFails

(* The owner of the id a call inserts for is the process the call is of. *)
LEMMA InsertsOwn ==
  ASSUME NamesInv, NEW t \in Threads, thr[t].pc = "insert", NEW p \in Owner(thr[t].pid)
  PROVE  /\ p \in Procs /\ There(p) /\ pid[p] = thr[t].pid /\ thr[t].pid \in Pids
         /\ thr[t].current \in Procs /\ thr[t].proc = p
<1>1. PICK r \in Calls : r = thr[t]
  BY CallType
<1>2. /\ r.proc # NoProc /\ r.proc \in Procs /\ There(r.proc) /\ r.pid = pid[r.proc] /\ r.current \in Procs
      /\ r.pid \in Pids
  BY <1>1, CallFacts
<1>3. p \in Procs /\ There(p) /\ pid[p] = r.pid
  BY <1>1 DEF Owner
<1>4. p = r.proc
  BY <1>2, <1>3, OwnsAlone
<1> QED
  BY <1>1, <1>2, <1>3, <1>4

LEMMA InsertUnnamedKeeps == ASSUME NamesInv, NEW t \in Threads, InsertUnnamed(t) PROVE NamesInv'
<1>1. PICK r \in Calls : r = thr[t]
  BY CallType
<1>2. /\ r.pc = "insert" /\ UNCHANGED <<life, pid, table, open, raced, forgotten, late>>
      /\ \E p \in Owner(r.pid), source \in NameSources \cap {"denied", "nohandle"} :
           /\ refs' = [refs EXCEPT ![p] = @ + 1]
           /\ leaks' = [leaks EXCEPT ![p] = @ + 1]
           /\ IF source = "denied"
              THEN Go(t, AfterInsert(r, "UNSUCCESSFUL"))
              ELSE Go(t, AfterInsert([r EXCEPT !.why = @ \cup {"unlinked"}], "SUCCESS"))
  BY <1>1 DEF InsertUnnamed
<1>3. PICK p \in Owner(r.pid), source \in {"denied", "nohandle"} :
        /\ refs' = [refs EXCEPT ![p] = @ + 1]
        /\ leaks' = [leaks EXCEPT ![p] = @ + 1]
        /\ IF source = "denied"
           THEN Go(t, AfterInsert(r, "UNSUCCESSFUL"))
           ELSE Go(t, AfterInsert([r EXCEPT !.why = @ \cup {"unlinked"}], "SUCCESS"))
  BY <1>2
<1>4. p \in Procs /\ There(p)
  BY <1>1, <1>2, InsertsOwn
<1>5. r.depth < MaxDepth
  BY <1>1, <1>2, CallFacts
<1>6. "UNSUCCESSFUL" \in Statuses /\ "SUCCESS" \in Statuses /\ "UNSUCCESSFUL" # "SUCCESS"
  BY DEF Statuses
<1>7. PICK f \in Calls : Go(t, f) /\ CallSound(t)'
  <2>1. CASE source = "denied"
    <3>1. PICK f \in Calls : f = AfterInsert(r, "UNSUCCESSFUL")
      BY <1>5, <1>6, AfterInsertIs
    <3>2. Go(t, f) /\ thr'[t] = f
      BY <1>3, <2>1, <3>1 DEF Go, NamesInv, NamesTypeOK
    <3>3. CallSound(t)'
      BY <1>1, <1>2, <1>6, <3>1, <3>2, InsertedSound
    <3> QED
      BY <3>2, <3>3
  <2>2. CASE source # "denied"
    <3>1. PICK x \in Calls : x = [r EXCEPT !.why = @ \cup {"unlinked"}]
      BY Why
    <3>2. /\ x.op = r.op /\ x.proc = r.proc /\ x.pid = r.pid /\ x.current = r.current /\ x.depth = r.depth
          /\ x.why # {}
      BY <3>1, Why
    <3>3. PICK f \in Calls : f = AfterInsert(x, "SUCCESS")
      BY <1>5, <1>6, <3>2, AfterInsertIs
    <3>4. Go(t, f) /\ thr'[t] = f
      BY <1>3, <2>2, <3>1, <3>3 DEF Go, NamesInv, NamesTypeOK
    <3>5. CallSound(t)'
      BY <1>1, <1>2, <1>6, <3>2, <3>3, <3>4, InsertedSound
    <3> QED
      BY <3>4, <3>5
  <2> QED
    BY <2>1, <2>2
<1>8. NamesTypeOK'
  <2>1. thr' \in [Threads -> Calls]
    BY <1>7 DEF NamesInv, NamesTypeOK, Go
  <2>2. refs' \in [Procs -> Nat]
    BY <1>3, <1>4 DEF NamesInv, NamesTypeOK
  <2>3. leaks' \in [Procs -> Nat]
    BY <1>3, <1>4 DEF NamesInv, NamesTypeOK
  <2> QED
    BY <1>2, <2>1, <2>2, <2>3 DEF NamesInv, NamesTypeOK
<1>9. OwnersDiffer' /\ \A x : There(x)' <=> There(x)
  BY <1>2 DEF NamesInv, OwnersDiffer, There, Owner
<1>10. ASSUME NEW i \in DOMAIN table' PROVE EntryOwned(i)'
  <2>1. EntryOwned(i)
    BY <1>2, <1>10 DEF NamesInv
  <2> QED
    BY <1>2, <1>9, <2>1 DEF EntryOwned, RightNames
<1>11. ASSUME NEW x \in Procs
       PROVE  EntriesOf(x)' = EntriesOf(x) /\ refs'[x] = Cardinality(EntriesOf(x)) + leaks'[x]
  <2>1. EntriesOf(x)' = EntriesOf(x)
    BY <1>2 DEF EntriesOf
  <2>2. PICK c : c = Cardinality(EntriesOf(x))
    OBVIOUS
  <2>3. refs[x] = c + leaks[x] /\ refs[x] \in Nat /\ leaks[x] \in Nat
    BY <2>2, Counted
  <2>4. c \in Nat
    BY <2>2, Counted
  <2>5. \/ x = p /\ refs'[x] = refs[x] + 1 /\ leaks'[x] = leaks[x] + 1
        \/ x # p /\ refs'[x] = refs[x] /\ leaks'[x] = leaks[x]
    BY <1>3, <1>4 DEF NamesInv, NamesTypeOK
  <2>6. refs'[x] = c + leaks'[x]
    BY ONLY <2>3, <2>4, <2>5
  <2> QED
    BY <2>1, <2>2, <2>6
<1>12. ASSUME NEW x \in Procs PROVE OneEntry(x)' /\ (x \in forgotten' \ (raced' \cup late') => EntriesOf(x)' = {})
  <2>1. OneEntry(x) /\ (x \in forgotten \ (raced \cup late) => EntriesOf(x) = {})
    BY DEF NamesInv, LeftExplained
  <2> QED
    BY <1>2, <1>11, <2>1 DEF OneEntry
<1>13. ASSUME NEW u \in Threads PROVE CallSound(u)'
  <2>1. CASE u = t
    BY <1>7, <2>1
  <2>2. CASE u # t
    <3>1. thr'[u] = thr[u] /\ thr[u] \in Calls /\ CallSound(u)
      BY <1>7, <2>2 DEF NamesInv, NamesTypeOK, Go
    <3>2. \A q : Linked(q) => Linked(q)'
      BY <1>2 DEF Linked
    <3> QED
      BY <1>2, <1>9, <3>1, <3>2, OtherCall
  <2> QED
    BY <2>1, <2>2
<1>14. forgotten' \subseteq Procs
  BY <1>8 DEF NamesTypeOK
<1>15. ReferencesAccounted'
  BY <1>11 DEF ReferencesAccounted
<1>16. LeftExplained'
  BY <1>12, <1>14 DEF LeftExplained
<1> QED
  BY <1>8, <1>9, <1>10, <1>12, <1>13, <1>15, <1>16 DEF NamesInv

LEMMA InsertNamedKeeps == ASSUME NamesInv, NEW t \in Threads, InsertNamed(t) PROVE NamesInv'
<1>1. PICK r \in Calls : r = thr[t]
  BY CallType
<1>2. /\ r.pc = "insert" /\ Go(t, AfterInsert(r, "SUCCESS"))
      /\ UNCHANGED <<life, pid, open, leaks, forgotten>>
      /\ \E p \in Owner(r.pid), source \in NameSources \cap {"locate", "peb", "handle"} :
           /\ table' = <<[pid |-> r.pid, proc |-> p, name |-> NameFrom(source, p, r.current)]>> \o table
           /\ refs' = [refs EXCEPT ![p] = @ + 1]
           /\ raced' = IF Find(r.pid) # 0 THEN raced \cup {p} ELSE raced
           /\ late' = IF p \in forgotten THEN late \cup {p} ELSE late
  BY <1>1 DEF InsertNamed
<1>3. PICK p \in Owner(r.pid), source \in NameSources \cap {"locate", "peb", "handle"} :
        /\ table' = <<[pid |-> r.pid, proc |-> p, name |-> NameFrom(source, p, r.current)]>> \o table
        /\ refs' = [refs EXCEPT ![p] = @ + 1]
        /\ raced' = IF Find(r.pid) # 0 THEN raced \cup {p} ELSE raced
        /\ late' = IF p \in forgotten THEN late \cup {p} ELSE late
  BY <1>2
<1>4. p \in Procs /\ There(p) /\ pid[p] = r.pid /\ r.pid \in Pids /\ r.current \in Procs
  BY <1>1, <1>2, InsertsOwn
<1>5. PICK e : e = [pid |-> r.pid, proc |-> p, name |-> NameFrom(source, p, r.current)]
  OBVIOUS
<1>6. /\ e \in Entries /\ e.pid = r.pid /\ e.proc = p /\ (RightNames => e.name = p)
      /\ table' = <<e>> \o table /\ table \in Seq(Entries)
  <2>1. NameFrom(source, p, r.current) \in Procs
    BY <1>4 DEF NameFrom, PebName
  <2>2. RightNames => NameFrom(source, p, r.current) = p
    BY DEF RightNames, NameFrom, PebName
  <2>3. e \in Entries
    BY <1>4, <1>5, <2>1 DEF Entries
  <2> QED
    BY <1>3, <1>5, <2>2, <2>3 DEF NamesInv, NamesTypeOK
<1>7. /\ table' \in Seq(Entries) /\ Len(table') = Len(table) + 1 /\ table'[1] = e
      /\ \A i \in 1..Len(table) : table'[i + 1] = table[i]
      /\ DOMAIN table' = 1..Len(table') /\ DOMAIN table = 1..Len(table) /\ Len(table) \in Nat
  BY <1>6
<1>8. ASSUME NEW i \in DOMAIN table' PROVE i = 1 \/ (i - 1 \in DOMAIN table /\ table'[i] = table[i - 1])
  BY <1>7
<1>9. PICK f \in Calls : f = AfterInsert(r, "SUCCESS") /\ Go(t, f) /\ CallSound(t)'
  <2>1. r.depth < MaxDepth /\ "SUCCESS" \in Statuses
    BY <1>1, <1>2, CallFacts DEF Statuses
  <2>2. PICK f \in Calls : f = AfterInsert(r, "SUCCESS")
    BY <2>1, AfterInsertIs
  <2>3. Go(t, f) /\ thr'[t] = f
    BY <1>2, <2>2 DEF Go, NamesInv, NamesTypeOK
  <2>4. Linked(r.pid)'
    BY <1>6, <1>7 DEF Linked
  <2>5. CallSound(t)'
    BY <1>1, <1>2, <2>1, <2>2, <2>3, <2>4, InsertedSound
  <2> QED
    BY <2>2, <2>3, <2>5
<1>10. NamesTypeOK'
  <2>1. thr' \in [Threads -> Calls]
    BY <1>9 DEF NamesInv, NamesTypeOK, Go
  <2>2. refs' \in [Procs -> Nat]
    BY <1>3, <1>4 DEF NamesInv, NamesTypeOK
  <2>3. raced' \subseteq Procs /\ late' \subseteq Procs
    BY <1>3, <1>4 DEF NamesInv, NamesTypeOK
  <2> QED
    BY <1>2, <1>7, <2>1, <2>2, <2>3 DEF NamesInv, NamesTypeOK
<1>11. OwnersDiffer' /\ \A x : There(x)' <=> There(x)
  BY <1>2 DEF NamesInv, OwnersDiffer, There, Owner
<1>12. ASSUME NEW i \in DOMAIN table' PROVE EntryOwned(i)'
  <2>1. CASE i = 1
    BY <1>2, <1>4, <1>6, <1>7, <1>11, <2>1 DEF EntryOwned, RightNames
  <2>2. CASE i # 1
    <3>1. PICK j \in DOMAIN table : table'[i] = table[j]
      BY <1>8, <1>12, <2>2
    <3>2. EntryOwned(j)
      BY DEF NamesInv
    <3> QED
      BY <1>2, <1>11, <3>1, <3>2 DEF EntryOwned, RightNames
  <2> QED
    BY <2>1, <2>2
<1>13. ASSUME NEW x \in Procs PROVE refs'[x] = Cardinality(EntriesOf(x)') + leaks'[x]
  <2>1. EntriesOf(x) = Of(table, x) /\ EntriesOf(x)' = Of(table', x)
    BY DEF EntriesOf, Of
  <2>2. PICK c : c = Cardinality(Of(table, x))
    OBVIOUS
  <2>3. PICK d : d = Cardinality(Of(table', x))
    OBVIOUS
  <2>4. d = c + (IF e.proc = x THEN 1 ELSE 0)
    BY <1>6, <2>2, <2>3, CountFront
  <2>5. refs[x] = c + leaks[x] /\ refs[x] \in Nat /\ leaks[x] \in Nat /\ c \in Nat
    BY <2>1, <2>2, Counted
  <2>6. leaks' = leaks /\ (refs'[x] = IF x = p THEN refs[x] + 1 ELSE refs[x]) /\ e.proc = p
    BY <1>2, <1>3, <1>4, <1>6 DEF NamesInv, NamesTypeOK
  <2>7. refs'[x] = d + leaks'[x]
    BY ONLY <2>4, <2>5, <2>6
  <2> QED
    BY <2>1, <2>3, <2>7
<1>14. ASSUME NEW x \in Procs PROVE OneEntry(x)'
  <2> SUFFICES ASSUME x \notin raced', NEW i \in EntriesOf(x)', NEW j \in EntriesOf(x)' PROVE i = j
    BY DEF OneEntry
  <2>1. i \in DOMAIN table' /\ j \in DOMAIN table' /\ table'[i].proc = x /\ table'[j].proc = x
    BY DEF EntriesOf
  <2>2. x \notin raced /\ OneEntry(x)
    BY <1>3 DEF NamesInv
  <2>3. CASE x = p
    <3>1. ~Linked(r.pid)
      BY <1>3, <1>6, <2>3, FindFirst
    <3>2. \A k \in DOMAIN table : table[k].proc # p
      BY <1>4, <3>1 DEF NamesInv, EntryOwned, Linked
    <3> QED
      BY <1>8, <2>1, <2>3, <3>2
  <2>4. CASE x # p
    <3>1. i # 1 /\ j # 1
      BY <1>6, <1>7, <2>1, <2>4
    <3>2. i - 1 \in EntriesOf(x) /\ j - 1 \in EntriesOf(x)
      BY <1>8, <2>1, <3>1 DEF EntriesOf
    <3>3. i - 1 = j - 1
      BY <2>2, <3>2 DEF OneEntry
    <3>4. i \in Int /\ j \in Int
      BY <1>7, <2>1
    <3> QED
      BY ONLY <3>3, <3>4
  <2> QED
    BY <2>3, <2>4
<1>15. ASSUME NEW x \in forgotten' \ (raced' \cup late') PROVE EntriesOf(x)' = {}
  <2>1. x \in forgotten /\ x \notin raced /\ x \notin late /\ x # p
    BY <1>2, <1>3, <1>15
  <2>2. EntriesOf(x) = {}
    BY <2>1 DEF NamesInv, LeftExplained
  <2>3. ASSUME NEW i \in DOMAIN table' PROVE table'[i].proc # x
    <3>1. CASE i = 1
      BY <1>6, <1>7, <2>1, <3>1
    <3>2. CASE i # 1
      BY <1>8, <2>2, <2>3, <3>2 DEF EntriesOf
    <3> QED
      BY <3>1, <3>2
  <2> QED
    BY <2>3 DEF EntriesOf
<1>16. ASSUME NEW u \in Threads PROVE CallSound(u)'
  <2>1. CASE u = t
    BY <1>9, <2>1
  <2>2. CASE u # t
    <3>1. thr'[u] = thr[u] /\ thr[u] \in Calls /\ CallSound(u)
      BY <1>9, <2>2 DEF NamesInv, NamesTypeOK, Go
    <3>2. ASSUME NEW q, Linked(q) PROVE Linked(q)'
      <4>1. PICK k \in DOMAIN table : table[k].pid = q
        BY <3>2 DEF Linked
      <4>2. k + 1 \in DOMAIN table' /\ table'[k + 1] = table[k]
        BY <1>7
      <4> QED
        BY <4>1, <4>2 DEF Linked
    <3> QED
      BY <1>2, <1>11, <3>1, <3>2, OtherCall
  <2> QED
    BY <2>1, <2>2
<1> QED
  BY <1>10, <1>11, <1>12, <1>13, <1>14, <1>15, <1>16 DEF NamesInv, ReferencesAccounted, LeftExplained

(* DeleteProcessInfo takes one entry out, with its reference. *)
LEMMA DeleteKeeps == ASSUME NamesInv, NEW t \in Threads, DeleteProcessInfo(t) PROVE NamesInv'
<1>1. PICK r \in Calls : r = thr[t]
  BY CallType
<1>2. PICK i : i = Find(r.pid)
  OBVIOUS
<1>3. /\ r.pc = "delete" /\ UNCHANGED <<life, pid, open, leaks, raced, late>>
      /\ forgotten' = forgotten \cup {r.proc}
      /\ thr' = [u \in Threads |->
                   IF u = t THEN [r EXCEPT !.pc = "done"]
                   ELSE IF thr[u].pid = r.pid /\ thr[u].pc = "search"
                        THEN [thr[u] EXCEPT !.why = @ \cup {"deleted"}]
                        ELSE thr[u]]
      /\ IF i = 0 THEN UNCHANGED <<table, refs>>
         ELSE /\ table' = RemoveAt(table, i)
              /\ refs' = [refs EXCEPT ![table[i].proc] = @ - 1]
  BY <1>1, <1>2 DEF DeleteProcessInfo
<1>4. /\ r.proc \in Procs /\ There(r.proc) /\ r.pid = pid[r.proc] /\ r.op = "exit"
      /\ RightNames => r.answer \in {NoProc, r.proc}
      /\ r.why = {} => r.depth <= Starts(r)
      /\ r.proc # NoProc /\ r.current \in Procs
  <2>1. r.proc # NoProc
    BY <1>1, <1>3, CallFacts
  <2> QED
    BY <1>1, <1>3, <2>1, CallFacts
<1>5. /\ table \in Seq(Entries) /\ DOMAIN table = 1..Len(table)
      /\ i = 0 <=> ~Linked(r.pid)
      /\ i # 0 => i \in DOMAIN table /\ table[i].pid = r.pid
  <2>1. table \in Seq(Entries)
    BY DEF NamesInv, NamesTypeOK
  <2> QED
    BY <1>2, <2>1, FindFirst
<1>6. OwnersDiffer' /\ \A x : There(x)' <=> There(x)
  BY <1>3 DEF NamesInv, OwnersDiffer, There, Owner
\* The entry is one of the process that exits.
<1>7. ASSUME NEW k \in DOMAIN table PROVE table[k].pid = r.pid <=> table[k].proc = r.proc
  <2>0. table[k] \in Entries /\ EntryOwned(k)
    BY <1>5 DEF NamesInv
  <2>1. PICK e \in Entries : e = table[k] /\ There(e.proc) /\ e.pid = pid[e.proc] /\ e.proc \in Procs
    BY <2>0 DEF EntryOwned, Entries
  <2> QED
    BY <1>4, <2>1, OwnsAlone
\* What is left of the table.
<1>8. table' \in Seq(Entries) /\ OthersOf(table', table, i)
  <2>1. CASE i = 0
    <3>1. table' = table
      BY <1>3, <2>1
    <3>2. i \notin DOMAIN table
      BY <1>5, <2>1
    <3>3. ASSUME NEW k \in DOMAIN table', NEW l \in DOMAIN table'
          PROVE  \E a, b \in DOMAIN table \ {i} :
                    table'[k] = table[a] /\ table'[l] = table[b] /\ (a = b => k = l)
      <4>1. /\ k \in DOMAIN table \ {i} /\ l \in DOMAIN table \ {i}
            /\ table'[k] = table[k] /\ table'[l] = table[l]
        BY <3>1, <3>2
      <4> QED
        BY ONLY <4>1
    <3>4. ASSUME NEW a \in DOMAIN table \ {i} PROVE \E k \in DOMAIN table' : table'[k] = table[a]
      BY <3>1
    <3> QED
      BY <1>5, <3>1, <3>3, <3>4 DEF OthersOf
  <2>2. CASE i # 0
    BY <1>3, <1>5, <2>2, Removed, OthersLeft
  <2> QED
    BY <2>1, <2>2
<1>9. ASSUME NEW x \in Procs PROVE refs'[x] = Cardinality(EntriesOf(x)') + leaks'[x] /\ refs'[x] \in Nat
  <2>1. EntriesOf(x) = Of(table, x) /\ EntriesOf(x)' = Of(table', x)
    BY DEF EntriesOf, Of
  <2>2. PICK c : c = Cardinality(Of(table, x))
    OBVIOUS
  <2>3. PICK d : d = Cardinality(Of(table', x))
    OBVIOUS
  <2>4. refs[x] = c + leaks[x] /\ refs[x] \in Nat /\ leaks[x] \in Nat /\ c \in Nat /\ leaks' = leaks
    BY <1>3, <2>1, <2>2, Counted
  <2>5. CASE i = 0
    <3>1. d = c /\ refs'[x] = refs[x]
      BY <1>3, <2>2, <2>3, <2>5
    <3>2. refs'[x] = d + leaks'[x] /\ refs'[x] \in Nat
      BY ONLY <2>4, <3>1
    <3> QED
      BY <2>1, <2>3, <3>2
  <2>6. CASE i # 0
    <3>1. table' = RemoveAt(table, i) /\ i \in DOMAIN table
      BY <1>3, <1>5, <2>6
    <3>2. c = d + (IF table[i].proc = x THEN 1 ELSE 0) /\ d \in Nat
      BY <1>5, <2>2, <2>3, <3>1, CountRemoved
    <3>3. refs'[x] = IF table[i].proc = x THEN refs[x] - 1 ELSE refs[x]
      <4>1. refs' = [refs EXCEPT ![table[i].proc] = @ - 1] /\ refs \in [Procs -> Nat]
        BY <1>3, <2>6 DEF NamesInv, NamesTypeOK
      <4> QED
        BY <4>1
    <3>4. refs'[x] = d + leaks'[x] /\ refs'[x] \in Nat
      BY ONLY <2>4, <3>2, <3>3
    <3> QED
      BY <2>1, <2>3, <3>4
  <2> QED
    BY <2>5, <2>6
<1>10. ASSUME NEW u \in Threads
       PROVE  /\ thr'[u] \in Calls
              /\ u = t => thr'[u] = [r EXCEPT !.pc = "done"]
              /\ u # t /\ thr[u].pid = r.pid /\ thr[u].pc = "search" =>
                    thr'[u] = [thr[u] EXCEPT !.why = @ \cup {"deleted"}]
              /\ u # t /\ ~(thr[u].pid = r.pid /\ thr[u].pc = "search") => thr'[u] = thr[u]
  <2>1. PICK y \in Calls : y = thr[u]
    BY CallType
  <2>2. [r EXCEPT !.pc = "done"] \in Calls /\ [y EXCEPT !.why = @ \cup {"deleted"}] \in Calls
    BY GoesTo, Why
  <2> QED
    BY <1>3, <2>1, <2>2
<1>11. NamesTypeOK'
  <2>1. thr' \in [Threads -> Calls]
    <3>1. thr' = [u \in Threads |-> thr'[u]]
      BY <1>3
    <3> QED
      BY <1>10, <3>1
  <2>2. refs' \in [Procs -> Nat]
    <3>1. refs' = [x \in Procs |-> refs'[x]]
      BY <1>3 DEF NamesInv, NamesTypeOK
    <3> QED
      BY <1>9, <3>1
  <2> QED
    BY <1>3, <1>4, <1>8, <2>1, <2>2 DEF NamesInv, NamesTypeOK
<1>12. ASSUME NEW k \in DOMAIN table' PROVE EntryOwned(k)'
  <2>1. PICK a \in DOMAIN table : table'[k] = table[a]
    BY <1>8 DEF OthersOf
  <2>2. EntryOwned(a)
    BY DEF NamesInv
  <2> QED
    BY <1>3, <1>6, <2>1, <2>2 DEF EntryOwned, RightNames
<1>13. ASSUME NEW x \in Procs PROVE OneEntry(x)'
  <2> SUFFICES ASSUME x \notin raced', NEW k \in EntriesOf(x)', NEW l \in EntriesOf(x)' PROVE k = l
    BY DEF OneEntry
  <2>1. PICK a, b \in DOMAIN table : table'[k] = table[a] /\ table'[l] = table[b] /\ (a = b => k = l)
    BY <1>8 DEF OthersOf, EntriesOf
  <2>2. a \in EntriesOf(x) /\ b \in EntriesOf(x)
    BY <2>1 DEF EntriesOf
  <2>3. OneEntry(x) /\ x \notin raced
    BY <1>3 DEF NamesInv
  <2> QED
    BY <2>1, <2>2, <2>3 DEF OneEntry
<1>14. ASSUME NEW x \in forgotten' \ (raced' \cup late') PROVE EntriesOf(x)' = {}
  <2> SUFFICES ASSUME NEW k \in DOMAIN table', table'[k].proc = x PROVE FALSE
    BY DEF EntriesOf
  <2>1. x \notin raced /\ x \notin late /\ (x \in forgotten \/ x = r.proc)
    BY <1>3, <1>14
  <2>2. PICK a \in DOMAIN table \ {i} : table'[k] = table[a]
    BY <1>8 DEF OthersOf
  <2>3. a \in EntriesOf(x)
    BY <2>2 DEF EntriesOf
  <2>4. x \notin forgotten
    BY <2>1, <2>3 DEF NamesInv, LeftExplained
  <2>5. x = r.proc /\ table[a].pid = r.pid
    BY <1>7, <2>1, <2>2, <2>4
  <2>6. i \in EntriesOf(x)
    <3>1. i # 0
      BY <1>5, <2>2, <2>5 DEF Linked
    <3> QED
      BY <1>5, <1>7, <2>5, <3>1 DEF EntriesOf
  <2> QED
    BY <1>4, <2>1, <2>2, <2>3, <2>5, <2>6 DEF NamesInv, OneEntry
<1>15. ASSUME NEW q, q # r.pid, Linked(q) PROVE Linked(q)'
  <2>1. PICK a \in DOMAIN table : table[a].pid = q
    BY <1>15 DEF Linked
  <2>2. a # i
    BY <1>5, <1>15, <2>1
  <2> QED
    BY <1>8, <2>1, <2>2 DEF OthersOf, Linked
<1>16. ASSUME NEW u \in Threads PROVE CallSound(u)'
  <2>1. CASE u = t
    <3>1. PICK f \in Calls : f = [r EXCEPT !.pc = "done"] /\ thr'[t] = f
      BY <1>10, <2>1
    <3>2. /\ f.pc = "done" /\ f.op = r.op /\ f.proc = r.proc /\ f.pid = r.pid
          /\ f.current = r.current /\ f.depth = r.depth /\ f.why = r.why
          /\ f.answer = r.answer
      BY <3>1, GoesTo
    <3>3. Starts(f)' = Starts(r)
      BY <3>2 DEF Starts
    <3> QED
      BY <1>3, <1>4, <1>6, <2>1, <3>1, <3>2, <3>3 DEF CallSound, RightNames
  <2>2. CASE u # t /\ thr[u].pid = r.pid /\ thr[u].pc = "search"
    <3>1. PICK y \in Calls : y = thr[u] /\ y.pc = "search"
      BY <2>2, CallType
    <3>2. PICK f \in Calls : f = [y EXCEPT !.why = @ \cup {"deleted"}] /\ thr'[u] = f
      BY <1>10, <2>2, <3>1
    <3>3. /\ f.pc = "search" /\ f.op = y.op /\ f.proc = y.proc /\ f.pid = y.pid
          /\ f.current = y.current /\ f.why # {}
      BY <3>1, <3>2, Why
    <3>4. /\ y.proc = NoProc => y.pid = SystemPid /\ y.op = "request"
          /\ y.proc # NoProc => There(y.proc) /\ y.pid = pid[y.proc] /\ y.current \in Procs
      BY <3>1, CallFacts
    <3> QED
      BY <1>3, <1>6, <3>2, <3>3, <3>4 DEF CallSound
  <2>3. CASE u # t /\ ~(thr[u].pid = r.pid /\ thr[u].pc = "search")
    <3>1. thr'[u] = thr[u] /\ thr[u] \in Calls /\ CallSound(u)
      BY <1>10, <2>3, CallType
    <3>2. \A q : thr[u].pc = "search" /\ thr[u].pid = q /\ Linked(q) => Linked(q)'
      BY <1>15, <2>3
    <3> QED
      BY <1>3, <1>6, <3>1, <3>2, OtherCall
  <2> QED
    BY <2>1, <2>2, <2>3
<1> QED
  BY <1>6, <1>9, <1>11, <1>12, <1>13, <1>14, <1>16 DEF NamesInv, ReferencesAccounted, LeftExplained

(* Unloading empties the table. *)
LEMMA StopKeeps == ASSUME NamesInv, StopProcessNotify PROVE NamesInv'
<1>1. /\ table' = <<>> /\ open' = FALSE /\ UNCHANGED <<life, pid, thr, leaks, raced, forgotten, late>>
      /\ \A t \in Threads : thr[t].pc = "idle"
      /\ refs' = [p \in Procs |-> refs[p] - Cardinality(EntriesOf(p))]
  BY DEF StopProcessNotify, EntriesOf
<1>2. ASSUME NEW p \in Procs
      PROVE  refs'[p] = leaks[p] /\ refs'[p] \in Nat /\ refs'[p] = Cardinality(EntriesOf(p)') + leaks'[p]
  <2>1. PICK c : c = Cardinality(EntriesOf(p))
    OBVIOUS
  <2>2. refs[p] = c + leaks[p] /\ leaks[p] \in Nat /\ c \in Nat
    BY <2>1, Counted
  <2>3. refs'[p] = refs[p] - c /\ leaks' = leaks
    BY <1>1, <2>1
  <2>4. EntriesOf(p)' = {}
    BY <1>1 DEF EntriesOf
  <2>5. Cardinality(EntriesOf(p)') = 0
    BY <2>4, FS_EmptySet
  <2> QED
    BY ONLY <2>2, <2>3, <2>5
<1>3. NamesTypeOK'
  <2>1. refs' \in [Procs -> Nat]
    BY <1>1, <1>2
  <2>2. table' \in Seq(Entries)
    BY <1>1, EmptySeq
  <2> QED
    BY <1>1, <2>1, <2>2 DEF NamesInv, NamesTypeOK
<1>4. OwnersDiffer' /\ \A p \in Procs : OneEntry(p)' /\ EntriesOf(p)' = {}
  BY <1>1 DEF NamesInv, OwnersDiffer, There, Owner, OneEntry, EntriesOf
<1>5. ASSUME NEW t \in Threads PROVE CallSound(t)'
  <2>1. thr'[t] = thr[t] /\ thr[t] \in Calls /\ CallSound(t) /\ thr[t].pc = "idle"
    BY <1>1, CallType
  <2> QED
    BY <2>1, OtherCall
<1>6. LeftExplained'
  <2>1. forgotten' \subseteq Procs
    BY <1>3 DEF NamesTypeOK
  <2> QED
    BY <1>4, <2>1 DEF LeftExplained
<1>7. \A i \in DOMAIN table' : EntryOwned(i)'
  BY <1>1
<1> QED
  BY <1>2, <1>3, <1>4, <1>5, <1>6, <1>7 DEF NamesInv, ReferencesAccounted

LEMMA NamesInvStep == ASSUME NamesInv, [NamesNext]_nameVars PROVE NamesInv'
<1>1. CASE UNCHANGED nameVars
  <2>1. NamesTypeOK' /\ OwnersDiffer' /\ \A p : There(p)' <=> There(p)
    BY <1>1 DEF nameVars, NamesInv, NamesTypeOK, OwnersDiffer, There, Owner
  <2>2. ASSUME NEW t \in Threads PROVE CallSound(t)'
    <3>1. thr' = thr /\ pid' = pid /\ \A q : Linked(q)' <=> Linked(q)
      BY <1>1 DEF nameVars, Linked
    <3> QED
      BY <2>1, <3>1, CallType, OtherCall
  <2>3. ASSUME NEW p \in Procs, EntriesOf(p) # {} PROVE There(p)' /\ pid'[p] = pid[p]
    BY <1>1, <2>1, <2>3 DEF nameVars, EntriesOf, NamesInv, EntryOwned
  <2> QED
    BY <1>1, <2>1, <2>2, <2>3, TableStays DEF nameVars
<1>2. CASE Kernel
  BY <1>2, KernelKeeps
<1>3. CASE StopProcessNotify
  BY <1>3, StopKeeps
<1>4. ASSUME NEW t \in Threads, ThreadStep(t) PROVE NamesInv'
  BY <1>4, SearchKeeps, InsertNamedKeeps, InsertUnnamedKeeps, InsertFailsKeeps, DeleteKeeps, FinishKeeps
     DEF ThreadStep
<1> QED
  BY <1>1, <1>2, <1>3, <1>4 DEF NamesNext

LEMMA NamesInvIsEnough == ASSUME NamesInv PROVE NamesAccounted
<1>1. PidsPinned
  <2> SUFFICES ASSUME NEW i \in DOMAIN table
               PROVE  /\ life[table[i].proc] # "freed"
                      /\ \A p \in Owner(table[i].pid) : p = table[i].proc
    BY DEF PidsPinned
  <2>1. PICK e \in Entries : e = table[i] /\ There(e.proc) /\ e.pid = pid[e.proc]
    BY DEF NamesInv, NamesTypeOK, EntryOwned
  <2>2. e.proc \in Procs /\ life[e.proc] # "freed"
    BY <2>1 DEF Entries, There
  <2> QED
    BY <2>1, <2>2, OwnsAlone DEF Owner
<1>2. ASSUME NEW t \in Threads
      PROVE  /\ thr[t].depth > Starts(thr[t]) => thr[t].why # {}
             /\ RightNames => (thr[t].pc = "done" => thr[t].answer \in {NoProc, thr[t].proc})
  <2>1. PICK r \in Calls : r = thr[t]
    BY CallType
  <2>2. r.depth \in Nat /\ Starts(r) \in Nat
    BY DEF Calls, Starts
  <2>3. r.why = {} => r.depth <= Starts(r)
    BY <2>1, CallType DEF CallSound
  <2>4. RightNames /\ r.pc = "done" => r.answer \in {NoProc, r.proc}
    BY <2>1, CallType DEF CallSound
  <2> QED
    BY <2>1, <2>2, <2>3, <2>4
<1> QED
  BY <1>1, <1>2 DEF NamesInv, NamesAccounted, DepthExplained, AnswersNameProcess

(* The table of process names (procNameMgr.cpp): for any number of processes, threads and ids
   every reference is accounted for, an id is not reused under an entry, what an exited process
   leaves has one of the named reasons, and an answer names the process it was asked for. *)
THEOREM NamesStayAccounted == NamesSpec => []NamesAccounted
<1>1. NamesInit => NamesInv
  BY NamesInvInit
<1>2. NamesInv /\ [NamesNext]_nameVars => NamesInv'
  BY NamesInvStep
<1>3. NamesInv => NamesAccounted
  BY NamesInvIsEnough
<1> QED
  BY <1>1, <1>2, <1>3, PTL DEF NamesSpec
==============================================================================
