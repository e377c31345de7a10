------------------------- MODULE DeleteDetectProofs -------------------------
(***************************************************************************)
(* Proofs about DeleteDetect, for any number of threads, file objects,     *)
(* streams and contexts.  Inv is inductive: the reference counts bound who *)
(* uses a context, so that memory in use is never allocated again; hence   *)
(* all the callbacks of a stream work on one context, and IsNotified in it *)
(* tells every one of them whether the deletion has been reported.  And as *)
(* long as no stream has been blamed, its context shows every mark that a  *)
(* delete leaves on it, so that the last cleanup finds it.                 *)
(***************************************************************************)
EXTENDS DeleteDetect, FiniteSetTheorems, TLAPS

(* The control and frame abbreviations are expanded everywhere. *)
USE DEF Goto, Complete, Continue, StreamOf, Fail, Blame,
        fsVars, mgrVars, fieldVars, irpVars, histVars

-----------------------------------------------------------------------------
(* Counting: moving one element into or out of a finite set. *)

LEMMA MoveOne ==
  ASSUME NEW A, IsFiniteSet(A), NEW B, NEW x, A \ {x} = B \ {x}
  PROVE  /\ IsFiniteSet(B)
         /\ Cardinality(A) \in Nat
         /\ Cardinality(B) \in Nat
         /\ Cardinality(B) = Cardinality(A) + (IF x \in B THEN 1 ELSE 0)
                                            - (IF x \in A THEN 1 ELSE 0)
<1>1. /\ IsFiniteSet(A \ {x})
      /\ Cardinality(A \ {x}) = IF x \in A THEN Cardinality(A) - 1 ELSE Cardinality(A)
  BY FS_RemoveElement
<1>2. B = A \ {x} \/ B = (A \ {x}) \cup {x}
  OBVIOUS
<1>3. IsFiniteSet(B)
  BY <1>1, <1>2, FS_AddElement
<1>4. Cardinality(B \ {x}) = IF x \in B THEN Cardinality(B) - 1 ELSE Cardinality(B)
  BY <1>3, FS_RemoveElement
<1>5. Cardinality(A) \in Nat /\ Cardinality(B) \in Nat
  BY <1>3, FS_CardinalityType
<1> QED
  BY <1>1, <1>3, <1>4, <1>5

(* A set counts zero elements when it is empty. *)
LEMMA CountZero ==
  ASSUME NEW S, IsFiniteSet(S), NEW A \in SUBSET S
  PROVE  /\ IsFiniteSet(A)
         /\ Cardinality(A) \in Nat
         /\ Cardinality(A) = 0 <=> A = {}
  BY FS_Subset, FS_CardinalityType, FS_EmptySet

(* Holders and attachments are countable; they count zero when no thread,  *)
(* and no stream, has the context.                                         *)
LEMMA FiniteCounts ==
  ASSUME NEW c
  PROVE  /\ IsFiniteSet(Holders(c)) /\ IsFiniteSet(Attachments(c))
         /\ Cardinality(Holders(c)) \in Nat
         /\ Cardinality(Attachments(c)) \in Nat
         /\ Cardinality(Holders(c)) = 0 <=> \A t \in Threads : ctx[t] # c
         /\ Cardinality(Attachments(c)) = 0 <=> \A s \in Streams : attached[s] # c
<1>1. Holders(c) \in SUBSET Threads /\ Attachments(c) \in SUBSET Streams
  BY DEF Holders, Attachments
<1>2. /\ Holders(c) = {} <=> \A t \in Threads : ctx[t] # c
      /\ Attachments(c) = {} <=> \A s \in Streams : attached[s] # c
  BY DEF Holders, Attachments
<1> QED
  BY <1>1, <1>2, CountZero, FiniteParts

-----------------------------------------------------------------------------
(* What the reference count says about a context. *)

(* A context in use is referenced: it is not free memory. *)
LEMMA InUseIsReferenced ==
  ASSUME TypeOK, RefsExact, NEW c \in Contexts
  PROVE  /\ \A t \in Threads : ctx[t] = c => refs[c] > 0
         /\ \A s \in Streams : attached[s] = c => refs[c] > 0
         /\ \A t \in Threads, s \in Streams :
              ctx[t] = c /\ attached[s] = c => refs[c] > 1
<1>1. /\ refs[c] = Cardinality(Holders(c)) + Cardinality(Attachments(c)) + leaked[c]
      /\ leaked[c] \in Nat
  BY DEF RefsExact, TypeOK
<1> QED
  BY <1>1, FiniteCounts

(* When only the context of t changes. *)
LEMMA HoldersStep ==
  ASSUME NEW t \in Threads, \A u \in Threads \ {t} : ctx'[u] = ctx[u],
         NEW c
  PROVE  /\ Cardinality(Holders(c)) \in Nat
         /\ Cardinality(Holders(c))' = Cardinality(Holders(c))
              + (IF ctx'[t] = c THEN 1 ELSE 0) - (IF ctx[t] = c THEN 1 ELSE 0)
<1>1. Holders(c) \ {t} = Holders(c)' \ {t}
  BY DEF Holders
<1>2. /\ t \in Holders(c) <=> ctx[t] = c
      /\ t \in Holders(c)' <=> ctx'[t] = c
  BY DEF Holders
<1> QED
  BY <1>1, <1>2, FiniteCounts, MoveOne

(* When only the context of s changes. *)
LEMMA AttachmentsStep ==
  ASSUME NEW s \in Streams, \A r \in Streams \ {s} : attached'[r] = attached[r],
         NEW c
  PROVE  /\ Cardinality(Attachments(c)) \in Nat
         /\ Cardinality(Attachments(c))' = Cardinality(Attachments(c))
              + (IF attached'[s] = c THEN 1 ELSE 0) - (IF attached[s] = c THEN 1 ELSE 0)
<1>1. Attachments(c) \ {s} = Attachments(c)' \ {s}
  BY DEF Attachments
<1>2. /\ s \in Attachments(c) <=> attached[s] = c
      /\ s \in Attachments(c)' <=> attached'[s] = c
  BY DEF Attachments
<1> QED
  BY <1>1, <1>2, FiniteCounts, MoveOne

(* A disposition change between its increment and its decrement is counted. *)
LEMMA InFlightIsCounted ==
  ASSUME TypeOK, IrpShape, RefsExact, NumOpsExact,
         NEW t \in Threads, pc[t] \in {"postSet", "decrement"}
  PROVE  numOps[ctx[t]] > 0
<1> DEFINE c == ctx[t]
<1>1. c \in Contexts /\ op[t] \in Dispositions
  BY DEF TypeOK, IrpShape, WithContext
<1>2. t \in ChangesInFlight(c) /\ ChangesInFlight(c) \in SUBSET Threads
  BY <1>1 DEF ChangesInFlight, Holders
<1>3. Cardinality(ChangesInFlight(c)) > 0
  BY <1>2, CountZero, FiniteParts
<1> QED
  BY <1>1, <1>3, InUseIsReferenced DEF NumOpsExact

-----------------------------------------------------------------------------
(* Type correctness. *)

LEMMA TypeOKInit == Init => TypeOK
  BY FailuresBound DEF Init, TypeOK, Locations, Ops

(* The types of what names an IRP, after it is sent and when it returns.   *)
IrpType == /\ pc \in [Threads -> Locations] /\ op \in [Threads -> Ops]
           /\ hnd \in [Threads -> Handles \cup {NoHandle}]
           /\ flag \in [Threads -> BOOLEAN]

(* Sending an IRP, and what it returns to, keep the types. *)
LEMMA SendType ==
  ASSUME IrpType, NEW t \in Threads, NEW o \in Ops, NEW h \in Handles,
         NEW f \in BOOLEAN, Send(t, o, h, f), NEW l \in Locations, Goto(t, l)
  PROVE  IrpType'
  BY DEF IrpType, Send

(* So does the return of an IRP to its post-operation callback. *)
LEMMA ReturnToType ==
  ASSUME IrpType, NEW t \in Threads, NEW l \in Locations, ReturnTo(t, l)
  PROVE  IrpType'
<1>1. CASE ctx[t] = NoContext
  BY <1>1 DEF IrpType, ReturnTo, Locations, Ops
<1>2. CASE ctx[t] # NoContext
  BY <1>2 DEF IrpType, ReturnTo
<1> QED
  BY <1>1, <1>2

(* The types of what CreateIrpContext and the context manager change. *)
ContextType == /\ refs \in [Contexts -> Nat]
               /\ ctx \in [Threads -> Contexts \cup {NoContext}]
               /\ numOps \in [Contexts -> Nat]
               /\ setDisp \in [Contexts -> BOOLEAN]
               /\ deleteOnClose \in [Contexts -> BOOLEAN]
               /\ isNotified \in [Contexts -> Nat]

(* A freshly allocated context has its fields typed. *)
LEMMA AllocateType ==
  ASSUME ContextType, NEW t \in Threads, NEW c \in Contexts, CtxAllocateContext(t, c)
  PROVE  ContextType'
  BY DEF ContextType, CtxAllocateContext

BlameType == failures \in 0 .. MaxFailures /\ why \in [Streams -> SUBSET Reasons]

(* The count of injected failures stays within its bound. *)
LEMMA FailType ==
  ASSUME BlameType, Fail
  PROVE  failures' \in 0 .. MaxFailures
  BY FailuresBound DEF BlameType

(* Reasons are only ever added to the reasons of a stream. *)
LEMMA WhyType ==
  ASSUME BlameType, NEW s \in Streams, NEW r \in Reasons, Blame(s, r)
  PROVE  why' \in [Streams -> SUBSET Reasons]
  BY DEF BlameType

(* Every step preserves the types. *)
LEMMA TypeOKStep ==
  ASSUME Inv, Next
  PROVE  TypeOK'
<1> USE OptionsKnown, ClassesKnown, FailuresBound
       DEF TypeOK, Locations, Ops, Dispositions, Reasons
<1>0. TypeOK /\ IrpShape /\ HandleShape /\ RefsExact /\ NumOpsExact
  BY DEF Inv
<1>i. IrpType /\ ContextType /\ BlameType
  BY <1>0 DEF IrpType, ContextType, BlameType
<1>a. \A t \in Threads : pc[t] \in WithContext => ctx[t] \in Contexts
  BY <1>0 DEF IrpShape
<1>b. \A t \in Threads : /\ pc[t] # "idle" => hnd[t] \in Handles
                         /\ pc[t] \notin {"idle", "fsCreate", "release"} => StreamOf(t) \in Streams
  BY <1>0 DEF IrpShape, HandleShape
<1>c. \A t \in Threads : ctx[t] \in Contexts => refs[ctx[t]] - 1 \in Nat
  BY <1>0, InUseIsReferenced
<1>d. \A s \in Streams : attached[s] \in Contexts => refs[attached[s]] - 1 \in Nat
  BY <1>0, InUseIsReferenced
<1>e. \A t \in Threads : pc[t] = "decrement" => numOps[ctx[t]] - 1 \in Nat
  BY <1>0, <1>a, InFlightIsCounted DEF WithContext
<1>1. ASSUME NEW t \in Threads, WinIOPreCreate(t) PROVE TypeOK'
  <2>1. IrpType'
    <3>1. PICK h \in Handles, doc \in DocOptions : Send(t, "create", h, doc)
      BY <1>1 DEF WinIOPreCreate
    <3>2. Goto(t, "fsCreate") /\ "create" \in Ops /\ doc \in BOOLEAN /\ "fsCreate" \in Locations
      BY <1>1 DEF WinIOPreCreate
    <3> HIDE DEF Goto, Ops, Locations
    <3> QED
      BY <1>i, <3>1, <3>2, SendType
  <2>2. ContextType' /\ BlameType'
    BY <1>i, <1>1, AllocateType, FailType DEF WinIOPreCreate, ContextType, BlameType
  <2> QED
    BY <1>0, <1>1, <2>1, <2>2 DEF WinIOPreCreate, IrpType, ContextType, BlameType
<1>2. ASSUME NEW t \in Threads, FsCreate(t) PROVE TypeOK'
  <2>1. IrpType'
    BY <1>i, <1>2, ReturnToType DEF FsCreate
  <2>2. PICK s \in Streams :
          /\ file' = file \/ file' = [file EXCEPT ![s] = "live"]
          /\ handle' = [handle EXCEPT ![hnd[t]] = "open"]
          /\ target' = [target EXCEPT ![hnd[t]] = s]
          /\ docHandle' = [docHandle EXCEPT ![hnd[t]] = flag[t]]
          /\ Blame(s, "blind") \/ UNCHANGED why
    BY <1>2 DEF FsCreate
  <2>3. UNCHANGED <<pending, mgrVars, fieldVars, ctx, failures, leaked, reports>>
    BY <1>2 DEF FsCreate
  <2>4. hnd[t] \in Handles /\ flag[t] \in BOOLEAN
    BY <1>0, <1>b, <1>2 DEF FsCreate
  <2>5. /\ file' \in [Streams -> {"absent", "live", "deleted"}]
        /\ handle' \in [Handles -> {"none", "open", "closing", "cleaned"}]
    BY <1>0, <2>2, <2>4
  <2>6. /\ target' \in [Handles -> Streams \cup {NoStream}]
        /\ docHandle' \in [Handles -> BOOLEAN]
    BY <1>0, <2>2, <2>4
  <2>7. why' \in [Streams -> SUBSET Reasons]
    BY <1>0, <2>2
  <2> QED
    BY <1>0, <2>1, <2>3, <2>5, <2>6, <2>7 DEF IrpType
<1>3. ASSUME NEW t \in Threads, FsCreateFails(t) PROVE TypeOK'
  <2>1. IrpType'
    BY <1>i, <1>3, ReturnToType DEF FsCreateFails
  <2> QED
    BY <1>0, <1>3, <2>1 DEF FsCreateFails, IrpType
<1>4. ASSUME NEW t \in Threads, WinIOPostCreate(t) PROVE TypeOK'
  BY <1>0, <1>a, <1>b, <1>4 DEF WinIOPostCreate, WithContext
<1>5. ASSUME NEW t \in Threads, WinIOPreSetInformation(t) PROVE TypeOK'
  <2>1. PICK h \in Handles, class \in Classes, f \in BOOLEAN :
          /\ handle[h] = "open"
          /\ Send(t, class, h, f)
          /\ \/ Goto(t, "getContext") /\ UNCHANGED <<refs, ctx, failures, why>>
             \/ Goto(t, "fsSet") /\ Unseen(target[h])
    BY <1>5 DEF WinIOPreSetInformation
  <2>2. IrpType'
    BY <1>i, <2>1, SendType
  <2>3. target[h] \in Streams
    BY <1>0, <2>1 DEF HandleShape
  <2>4. ContextType' /\ BlameType'
    BY <1>i, <1>5, <2>1, <2>3, FailType, WhyType
       DEF WinIOPreSetInformation, Unseen, ContextType, BlameType
  <2> QED
    BY <1>0, <1>5, <2>2, <2>4 DEF WinIOPreSetInformation, IrpType, ContextType, BlameType
<1>6. ASSUME NEW t \in Threads, WinIOPreDisposition(t) PROVE TypeOK'
  BY <1>0, <1>a, <1>b, <1>6 DEF WinIOPreDisposition, WithContext
<1>7. ASSUME NEW t \in Threads, WinIOPreRename(t) PROVE TypeOK'
  BY <1>0, <1>a, <1>7 DEF WinIOPreRename, WithContext
<1>8. ASSUME NEW t \in Threads, FsSetInformation(t) PROVE TypeOK'
  <2>1. IrpType'
    BY <1>i, <1>8, ReturnToType DEF FsSetInformation
  <2> QED
    BY <1>0, <1>b, <1>8, <2>1 DEF FsSetInformation, IrpType
<1>9. ASSUME NEW t \in Threads, FsSetInformationFails(t) PROVE TypeOK'
  <2>1. IrpType'
    BY <1>i, <1>9, ReturnToType DEF FsSetInformationFails
  <2> QED
    BY <1>0, <1>9, <2>1 DEF FsSetInformationFails, IrpType
<1>10. ASSUME NEW t \in Threads, WinIOPostSetInformation(t) PROVE TypeOK'
  BY <1>0, <1>a, <1>b, <1>10 DEF WinIOPostSetInformation, WithContext
<1>11. ASSUME NEW t \in Threads, WinIOPostDecrement(t) PROVE TypeOK'
  BY <1>0, <1>a, <1>e, <1>11 DEF WinIOPostDecrement, WithContext
<1>12. ASSUME NEW t \in Threads, WinIOPreCleanup(t) PROVE TypeOK'
  <2>1. IrpType'
    BY <1>i, <1>12, SendType DEF WinIOPreCleanup
  <2>2. PICK h \in Handles :
          /\ handle[h] = "open"
          /\ handle' = [handle EXCEPT ![h] = "closing"]
          /\ (CtxGetContext(t, target[h]) /\ UNCHANGED <<failures, why>>) \/ Unseen(target[h])
    BY <1>12 DEF WinIOPreCleanup
  <2>3. target[h] \in Streams
    BY <1>0, <2>2 DEF HandleShape
  <2>4. ContextType' /\ BlameType'
    BY <1>i, <1>0, <1>12, <2>2, <2>3, FailType, WhyType
       DEF WinIOPreCleanup, CtxGetContext, Unseen, ContextType, BlameType
  <2> QED
    BY <1>0, <1>12, <2>1, <2>2, <2>4 DEF WinIOPreCleanup, IrpType, ContextType, BlameType
<1>13. ASSUME NEW t \in Threads, FsCleanup(t) PROVE TypeOK'
  <2>1. IrpType'
    BY <1>i, <1>13, ReturnToType DEF FsCleanup
  <2> QED
    BY <1>0, <1>b, <1>13, <2>1 DEF FsCleanup, IrpType
<1>14. ASSUME NEW t \in Threads, WinIOPostCleanup_NumOps(t) PROVE TypeOK'
  BY <1>0, <1>a, <1>14 DEF WinIOPostCleanup_NumOps, WithContext
<1>15. ASSUME NEW t \in Threads, WinIOPostCleanup_Flags(t) PROVE TypeOK'
  BY <1>0, <1>a, <1>15 DEF WinIOPostCleanup_Flags, WithContext
<1>16. ASSUME NEW t \in Threads, WinIOPostCleanup_Notified(t) PROVE TypeOK'
  BY <1>0, <1>a, <1>16 DEF WinIOPostCleanup_Notified, WithContext
<1>17. ASSUME NEW t \in Threads, DfProcessDelete(t) PROVE TypeOK'
  BY <1>0, <1>b, <1>17 DEF DfProcessDelete
<1>18. ASSUME NEW t \in Threads, DfNotifyDelete(t) PROVE TypeOK'
  BY <1>0, <1>a, <1>b, <1>18 DEF DfNotifyDelete, WithContext
<1>19. ASSUME NEW t \in Threads, WinIOPreClose(t) PROVE TypeOK'
  <2>1. IrpType'
    BY <1>i, <1>19, SendType DEF WinIOPreClose
  <2> QED
    BY <1>0, <1>19, <2>1 DEF WinIOPreClose, CtxGetContext, Unseen, IrpType, HandleShape
<1>20. ASSUME NEW t \in Threads, FsClose(t) PROVE TypeOK'
  <2>1. IrpType'
    BY <1>i, <1>20, ReturnToType DEF FsClose
  <2> QED
    BY <1>0, <1>b, <1>20, <2>1 DEF FsClose, IrpType
<1>21. ASSUME NEW t \in Threads, CtxGetOrSetContext_Get(t) PROVE TypeOK'
  <2>1. CASE attached[StreamOf(t)] # NoContext
    BY <1>0, <1>b, <1>c, <1>21, <2>1 DEF CtxGetOrSetContext_Get, Swapped
  <2>2. CASE attached[StreamOf(t)] = NoContext
    <3>1. ContextType'
      BY <1>i, <1>21, <2>2, AllocateType DEF CtxGetOrSetContext_Get, ContextType
    <3> QED
      BY <1>0, <1>21, <2>2, <3>1, ZenonT(30) DEF CtxGetOrSetContext_Get, ContextType
  <2> QED
    BY <2>1, <2>2
<1>22. ASSUME NEW t \in Threads, CtxGetOrSetContext_Set(t) PROVE TypeOK'
  BY <1>0, <1>a, <1>b, <1>c, <1>22 DEF CtxGetOrSetContext_Set, Swapped, WithContext
<1>23. ASSUME NEW t \in Threads, CtxGetOrSetContext_Fail(t) PROVE TypeOK'
  <2>1. refs' \in [Contexts -> Nat] /\ ctx' \in [Threads -> Contexts \cup {NoContext}]
    BY <1>0, <1>c, <1>23 DEF CtxGetOrSetContext_Fail
  <2>2. BlameType'
    BY <1>i, <1>b, <1>23, FailType, WhyType DEF CtxGetOrSetContext_Fail, BlameType
  <2>3. IrpType'
    BY <1>i, <1>23 DEF CtxGetOrSetContext_Fail, IrpType
  <2> QED
    BY <1>0, <1>23, <2>1, <2>2, <2>3 DEF CtxGetOrSetContext_Fail, BlameType, IrpType
<1>24. ASSUME NEW t \in Threads, CreateIrpContext_Retry(t) PROVE TypeOK'
  BY <1>0, <1>b, <1>24 DEF CreateIrpContext_Retry, CtxGetContext
<1>25. ASSUME NEW t \in Threads, CloseIrpContext(t) PROVE TypeOK'
  BY <1>0, <1>a, <1>c, <1>25 DEF CloseIrpContext, WithContext
<1>26. ASSUME NEW s \in Streams, TeardownStream(s) PROVE TypeOK'
  BY <1>0, <1>d, <1>26 DEF TeardownStream
<1> QED
  BY <1>1, <1>2, <1>3, <1>4, <1>5, <1>6, <1>7, <1>8, <1>9, <1>10, <1>11, <1>12, <1>13, <1>14, <1>15, <1>16, <1>17, <1>18, <1>19, <1>20, <1>21, <1>22, <1>23, <1>24, <1>25, <1>26 DEF Next, Step, Create, SetInfo, Cleanup, Close, Context

-----------------------------------------------------------------------------
(* Reference counts. *)

(* A step of t that changes no stream's context keeps RefsExact when it    *)
(* adds to each count what it adds to the references t holds and leaks.    *)
LEMMA RefsStep ==
  ASSUME TypeOK, TypeOK', RefsExact, UNCHANGED attached,
         NEW t \in Threads, \A u \in Threads \ {t} : ctx'[u] = ctx[u],
         \A c \in Contexts :
           refs'[c] - leaked'[c] = refs[c] - leaked[c]
             + (IF ctx'[t] = c THEN 1 ELSE 0) - (IF ctx[t] = c THEN 1 ELSE 0)
  PROVE  RefsExact'
<1> SUFFICES ASSUME NEW c \in Contexts
             PROVE  refs'[c] = Cardinality(Holders(c))' + Cardinality(Attachments(c))' + leaked'[c]
  BY DEF RefsExact
<1>1. /\ Cardinality(Holders(c)) \in Nat
      /\ Cardinality(Holders(c))' = Cardinality(Holders(c))
           + (IF ctx'[t] = c THEN 1 ELSE 0) - (IF ctx[t] = c THEN 1 ELSE 0)
  BY HoldersStep
<1>2. Cardinality(Attachments(c)) \in Nat
  BY FiniteCounts
<1>0. Attachments(c)' = Attachments(c)
  BY DEF Attachments
<1>3. refs[c] = Cardinality(Holders(c)) + Cardinality(Attachments(c)) + leaked[c]
  BY DEF RefsExact
<1>4. refs[c] \in Nat /\ refs'[c] \in Nat /\ leaked[c] \in Nat /\ leaked'[c] \in Nat
  BY DEF TypeOK
<1> QED
  BY <1>0, <1>1, <1>2, <1>3, <1>4

(* At first there are no contexts and no references. *)
LEMMA RefsExactInit == Init => RefsExact
<1> SUFFICES ASSUME Init, NEW c \in Contexts
             PROVE  refs[c] = Cardinality(Holders(c)) + Cardinality(Attachments(c)) + leaked[c]
  BY DEF RefsExact
<1>1. (\A t \in Threads : ctx[t] # c) /\ (\A s \in Streams : attached[s] # c)
  BY NoneApart DEF Init
<1> QED
  BY <1>1, FiniteCounts DEF Init

(* Every step moves as many references as it counts. *)
LEMMA RefsExactStep ==
  ASSUME Inv, Next
  PROVE  RefsExact'
<1> USE NoneApart
<1>0. TypeOK /\ TypeOK' /\ IrpShape /\ HandleShape /\ RefsExact
  BY TypeOKStep DEF Inv
<1>i. \A t \in Threads : pc[t] \in {"idle", "retryContext"} => ctx[t] = NoContext
  BY <1>0 DEF IrpShape
<1>1. ASSUME UNCHANGED <<ctx, refs, attached, leaked>> PROVE RefsExact'
  BY <1>0, <1>1 DEF RefsExact, Holders, Attachments
<1>2. ASSUME NEW t \in Threads, WinIOPreCreate(t) PROVE RefsExact'
  <2>1. CASE \E c \in Contexts : CtxAllocateContext(t, c)
    <3>1. PICK c \in Contexts :
            /\ refs[c] = 0 /\ refs' = [refs EXCEPT ![c] = 1]
            /\ ctx' = [ctx EXCEPT ![t] = c]
      BY <2>1 DEF CtxAllocateContext
    <3>2. ctx[t] = NoContext /\ UNCHANGED <<attached, leaked>>
      BY <1>i, <1>2 DEF WinIOPreCreate, Send
    <3>3. /\ \A u \in Threads \ {t} : ctx'[u] = ctx[u]
          /\ \A d \in Contexts :
               refs'[d] - leaked'[d] = refs[d] - leaked[d]
                 + (IF ctx'[t] = d THEN 1 ELSE 0) - (IF ctx[t] = d THEN 1 ELSE 0)
      BY <1>0, <3>1, <3>2 DEF TypeOK
    <3> QED
      BY <1>0, <3>2, <3>3, RefsStep
  <2>2. CASE UNCHANGED <<refs, ctx>>
    BY <1>1, <1>2, <2>2 DEF WinIOPreCreate
  <2> QED
    BY <1>2, <2>1, <2>2 DEF WinIOPreCreate
<1>3. ASSUME NEW t \in Threads, NEW s \in Streams, pc[t] \in {"idle", "retryContext"},
             CtxGetContext(t, s), UNCHANGED <<attached, leaked>>
      PROVE  RefsExact'
  BY <1>0, <1>i, <1>3, RefsStep, SMTT(30) DEF CtxGetContext, TypeOK
<1>4. ASSUME NEW t \in Threads, WinIOPreCleanup(t) PROVE RefsExact'
  BY <1>0, <1>1, <1>3, <1>4 DEF WinIOPreCleanup, Send, Unseen, HandleShape, TypeOK
<1>5. ASSUME NEW t \in Threads, WinIOPreClose(t) PROVE RefsExact'
  BY <1>0, <1>3, <1>5 DEF WinIOPreClose, Send, HandleShape, TypeOK
<1>6. ASSUME NEW t \in Threads, CreateIrpContext_Retry(t) PROVE RefsExact'
  BY <1>0, <1>3, <1>6 DEF CreateIrpContext_Retry, HandleShape, IrpShape, TypeOK
<1>7. ASSUME NEW t \in Threads, WinIOPreRename(t) PROVE RefsExact'
  <2>1. CASE UNCHANGED <<ctx, leaked, failures>>
    BY <1>1, <1>7, <2>1 DEF WinIOPreRename
  <2>2. CASE ctx' = [ctx EXCEPT ![t] = NoContext] /\ leaked' = [leaked EXCEPT ![ctx[t]] = @ + 1]
    <3>1. UNCHANGED <<attached, refs>>
      BY <1>7 DEF WinIOPreRename
    <3>2. /\ \A u \in Threads \ {t} : ctx'[u] = ctx[u]
          /\ \A d \in Contexts :
               refs'[d] - leaked'[d] = refs[d] - leaked[d]
                 + (IF ctx'[t] = d THEN 1 ELSE 0) - (IF ctx[t] = d THEN 1 ELSE 0)
      <4>1. ctx'[t] = NoContext /\ \A u \in Threads \ {t} : ctx'[u] = ctx[u]
        BY <1>0, <2>2 DEF TypeOK
      <4>2. \A d \in Contexts : leaked'[d] = leaked[d] + (IF ctx[t] = d THEN 1 ELSE 0)
        BY <1>0, <2>2 DEF TypeOK
      <4>3. \A d \in Contexts : refs[d] \in Nat /\ leaked[d] \in Nat /\ refs'[d] = refs[d]
        BY <1>0, <3>1 DEF TypeOK
      <4> QED
        BY <4>1, <4>2, <4>3
    <3> QED
      BY <1>0, <3>1, <3>2, RefsStep
  <2> QED
    BY <1>7, <2>1, <2>2 DEF WinIOPreRename
<1>8. ASSUME NEW t \in Threads, CtxGetOrSetContext_Get(t) PROVE RefsExact'
  <2>1. CASE attached[StreamOf(t)] # NoContext
    BY <1>0, <1>8, <2>1, RefsStep, SMTT(30) DEF CtxGetOrSetContext_Get, Swapped, TypeOK
  <2>2. CASE attached[StreamOf(t)] = NoContext
    BY <1>0, <1>1, <1>8, <2>2, RefsStep DEF CtxGetOrSetContext_Get, CtxAllocateContext, TypeOK
  <2> QED
    BY <2>1, <2>2
<1>9. ASSUME NEW t \in Threads, CtxGetOrSetContext_Set(t) PROVE RefsExact'
  <2> DEFINE s == StreamOf(t)
  <2>1. CASE attached[s] # NoContext
    <3>1. /\ refs' = Swapped(t, attached[s]) /\ ctx' = [ctx EXCEPT ![t] = attached[s]]
          /\ UNCHANGED <<attached, leaked>>
      BY <1>9, <2>1 DEF CtxGetOrSetContext_Set
    <3>2. /\ \A u \in Threads \ {t} : ctx'[u] = ctx[u]
          /\ \A d \in Contexts :
               refs'[d] - leaked'[d] = refs[d] - leaked[d]
                 + (IF ctx'[t] = d THEN 1 ELSE 0) - (IF ctx[t] = d THEN 1 ELSE 0)
      <4>1. ctx'[t] = attached[s] /\ \A u \in Threads \ {t} : ctx'[u] = ctx[u]
        BY <1>0, <3>1 DEF TypeOK
      <4>2. \A d \in Contexts : refs'[d] = refs[d] + (IF d = attached[s] THEN 1 ELSE 0)
                                                   - (IF d = ctx[t] THEN 1 ELSE 0)
        BY <3>1 DEF Swapped
      <4>3. \A d \in Contexts : refs[d] \in Nat /\ leaked[d] \in Nat /\ leaked'[d] = leaked[d]
        BY <1>0, <3>1 DEF TypeOK
      <4> QED
        BY <4>1, <4>2, <4>3
    <3> QED
      BY <1>0, <3>1, <3>2, RefsStep
  <2>2. CASE attached[s] = NoContext
    <3>1. s \in Streams /\ ctx[t] \in Contexts
      BY <1>0, <1>9 DEF CtxGetOrSetContext_Set, HandleShape, IrpShape, WithContext, TypeOK
    <3> SUFFICES ASSUME NEW c \in Contexts
                 PROVE  refs'[c] = Cardinality(Holders(c))' + Cardinality(Attachments(c))' + leaked'[c]
      BY DEF RefsExact
    <3>2. /\ Cardinality(Attachments(c)) \in Nat
          /\ Cardinality(Attachments(c))' = Cardinality(Attachments(c))
               + (IF ctx[t] = c THEN 1 ELSE 0)
      BY <1>0, <1>9, <2>2, <3>1, AttachmentsStep, SMTT(30) DEF CtxGetOrSetContext_Set, TypeOK
    <3>3. /\ Cardinality(Holders(c)) \in Nat
          /\ Cardinality(Holders(c))' = Cardinality(Holders(c))
      BY <1>9, <2>2, FiniteCounts, ZenonT(30) DEF CtxGetOrSetContext_Set, Holders
    <3>4. refs'[c] = refs[c] + (IF ctx[t] = c THEN 1 ELSE 0) /\ leaked'[c] = leaked[c]
      BY <1>0, <1>9, <2>2, <3>1 DEF CtxGetOrSetContext_Set, TypeOK
    <3> QED
      BY <1>0, <3>2, <3>3, <3>4 DEF RefsExact, TypeOK
  <2> QED
    BY <2>1, <2>2
<1>10. ASSUME NEW t \in Threads, CtxGetOrSetContext_Fail(t) PROVE RefsExact'
  <2>1. UNCHANGED <<attached, leaked>> /\ ctx' = [ctx EXCEPT ![t] = NoContext]
    BY <1>10 DEF CtxGetOrSetContext_Fail
  <2>2. \A c \in Contexts : refs'[c] = IF c = ctx[t] THEN refs[c] - 1 ELSE refs[c]
    BY <1>10 DEF CtxGetOrSetContext_Fail
  <2> QED
    BY <1>0, <2>1, <2>2, RefsStep DEF TypeOK
<1>11. ASSUME NEW t \in Threads, CloseIrpContext(t) PROVE RefsExact'
  BY <1>0, <1>11, RefsStep DEF CloseIrpContext, IrpShape, WithContext, TypeOK
<1>12. ASSUME NEW s \in Streams, TeardownStream(s) PROVE RefsExact'
  <2> SUFFICES ASSUME NEW c \in Contexts
               PROVE  refs'[c] = Cardinality(Holders(c))' + Cardinality(Attachments(c))' + leaked'[c]
    BY DEF RefsExact
  <2>1. /\ Cardinality(Attachments(c)) \in Nat
        /\ Cardinality(Attachments(c))' = Cardinality(Attachments(c))
             - (IF attached[s] = c THEN 1 ELSE 0)
    BY <1>0, <1>12, AttachmentsStep DEF TeardownStream, TypeOK
  <2>2. /\ Cardinality(Holders(c)) \in Nat
        /\ Cardinality(Holders(c))' = Cardinality(Holders(c))
    BY <1>12, FiniteCounts DEF TeardownStream, Holders
  <2>3. refs'[c] = refs[c] - (IF attached[s] = c THEN 1 ELSE 0) /\ leaked'[c] = leaked[c]
    BY <1>0, <1>12 DEF TeardownStream, TypeOK
  <2> QED
    BY <1>0, <2>1, <2>2, <2>3 DEF RefsExact, TypeOK
<1>13. ASSUME NEW t \in Threads,
              \/ FsCreate(t) \/ FsCreateFails(t) \/ WinIOPostCreate(t)
              \/ WinIOPreSetInformation(t) \/ WinIOPreDisposition(t)
              \/ FsSetInformation(t) \/ FsSetInformationFails(t)
              \/ WinIOPostSetInformation(t) \/ WinIOPostDecrement(t)
       PROVE  UNCHANGED <<ctx, refs, attached, leaked>>
  BY <1>13 DEF FsCreate, FsCreateFails, WinIOPostCreate, WinIOPreSetInformation, Unseen,
               WinIOPreDisposition, FsSetInformation, FsSetInformationFails,
               WinIOPostSetInformation, WinIOPostDecrement
<1>14. ASSUME NEW t \in Threads,
              \/ FsCleanup(t) \/ WinIOPostCleanup_NumOps(t) \/ WinIOPostCleanup_Flags(t)
              \/ WinIOPostCleanup_Notified(t) \/ DfProcessDelete(t) \/ DfNotifyDelete(t)
              \/ FsClose(t)
       PROVE  UNCHANGED <<ctx, refs, attached, leaked>>
  BY <1>14 DEF FsCleanup, WinIOPostCleanup_NumOps, WinIOPostCleanup_Flags,
               WinIOPostCleanup_Notified, DfProcessDelete, DfNotifyDelete, FsClose
<1> QED
  BY <1>1, <1>2, <1>4, <1>5, <1>6, <1>7, <1>8, <1>9, <1>10, <1>11, <1>12, <1>13, <1>14
     DEF Next, Step, Create, SetInfo, Cleanup, Close, Context

-----------------------------------------------------------------------------
(* Where an IRP is says what it holds. *)

LEMMA ShapeInit == Init => IrpShape /\ HandleShape
  BY NoneApart DEF Init, IrpShape, HandleShape, WithContext

(* Every step preserves what the location of a thread says of its IRP. *)
LEMMA IrpShapeStep ==
  ASSUME Inv, Next
  PROVE  IrpShape'
<1> USE NoneApart, ClassesKnown DEF TypeOK, IrpShape, WithContext, Dispositions
<1>0. TypeOK /\ TypeOK' /\ IrpShape
  BY TypeOKStep DEF Inv
<1>1. ASSUME NEW t \in Threads, WinIOPreCreate(t) PROVE IrpShape'
  BY <1>0, <1>1 DEF WinIOPreCreate, Send, CtxAllocateContext
<1>2. ASSUME NEW t \in Threads, FsCreate(t) PROVE IrpShape'
  BY <1>0, <1>2 DEF FsCreate, ReturnTo
<1>3. ASSUME NEW t \in Threads, FsCreateFails(t) PROVE IrpShape'
  BY <1>0, <1>3 DEF FsCreateFails, ReturnTo
<1>4. ASSUME NEW t \in Threads, WinIOPostCreate(t) PROVE IrpShape'
  BY <1>0, <1>4 DEF WinIOPostCreate
<1>5. ASSUME NEW t \in Threads, WinIOPreSetInformation(t) PROVE IrpShape'
  BY <1>0, <1>5 DEF WinIOPreSetInformation, Send, Unseen
<1>6. ASSUME NEW t \in Threads, WinIOPreDisposition(t) PROVE IrpShape'
  BY <1>0, <1>6 DEF WinIOPreDisposition
<1>7. ASSUME NEW t \in Threads, WinIOPreRename(t) PROVE IrpShape'
  BY <1>0, <1>7 DEF WinIOPreRename
<1>8. ASSUME NEW t \in Threads, FsSetInformation(t) PROVE IrpShape'
  BY <1>0, <1>8 DEF FsSetInformation, ReturnTo
<1>9. ASSUME NEW t \in Threads, FsSetInformationFails(t) PROVE IrpShape'
  BY <1>0, <1>9 DEF FsSetInformationFails, ReturnTo
<1>10. ASSUME NEW t \in Threads, WinIOPostSetInformation(t) PROVE IrpShape'
  BY <1>0, <1>10 DEF WinIOPostSetInformation
<1>11. ASSUME NEW t \in Threads, WinIOPostDecrement(t) PROVE IrpShape'
  BY <1>0, <1>11 DEF WinIOPostDecrement
<1>12. ASSUME NEW t \in Threads, WinIOPreCleanup(t) PROVE IrpShape'
  BY <1>0, <1>12 DEF WinIOPreCleanup, Send, CtxGetContext, Unseen
<1>13. ASSUME NEW t \in Threads, FsCleanup(t) PROVE IrpShape'
  BY <1>0, <1>13 DEF FsCleanup, ReturnTo
<1>14. ASSUME NEW t \in Threads, WinIOPostCleanup_NumOps(t) PROVE IrpShape'
  BY <1>0, <1>14 DEF WinIOPostCleanup_NumOps
<1>15. ASSUME NEW t \in Threads, WinIOPostCleanup_Flags(t) PROVE IrpShape'
  BY <1>0, <1>15 DEF WinIOPostCleanup_Flags
<1>16. ASSUME NEW t \in Threads, WinIOPostCleanup_Notified(t) PROVE IrpShape'
  BY <1>0, <1>16 DEF WinIOPostCleanup_Notified
<1>17. ASSUME NEW t \in Threads, DfProcessDelete(t) PROVE IrpShape'
  BY <1>0, <1>17 DEF DfProcessDelete
<1>18. ASSUME NEW t \in Threads, DfNotifyDelete(t) PROVE IrpShape'
  BY <1>0, <1>18 DEF DfNotifyDelete
<1>19. ASSUME NEW t \in Threads, WinIOPreClose(t) PROVE IrpShape'
  BY <1>0, <1>19 DEF WinIOPreClose, Send, CtxGetContext
<1>20. ASSUME NEW t \in Threads, FsClose(t) PROVE IrpShape'
  BY <1>0, <1>20 DEF FsClose, ReturnTo
<1>21. ASSUME NEW t \in Threads, CtxGetOrSetContext_Get(t) PROVE IrpShape'
  BY <1>0, <1>21 DEF CtxGetOrSetContext_Get, Swapped, CtxAllocateContext
<1>22. ASSUME NEW t \in Threads, CtxGetOrSetContext_Set(t) PROVE IrpShape'
  BY <1>0, <1>22 DEF CtxGetOrSetContext_Set, Swapped
<1>23. ASSUME NEW t \in Threads, CtxGetOrSetContext_Fail(t) PROVE IrpShape'
  BY <1>0, <1>23 DEF CtxGetOrSetContext_Fail
<1>24. ASSUME NEW t \in Threads, CreateIrpContext_Retry(t) PROVE IrpShape'
  BY <1>0, <1>24 DEF CreateIrpContext_Retry, CtxGetContext
<1>25. ASSUME NEW t \in Threads, CloseIrpContext(t) PROVE IrpShape'
  BY <1>0, <1>25 DEF CloseIrpContext
<1>26. ASSUME NEW s \in Streams, TeardownStream(s) PROVE IrpShape'
  BY <1>0, <1>26 DEF TeardownStream
<1> QED
  BY <1>1, <1>2, <1>3, <1>4, <1>5, <1>6, <1>7, <1>8, <1>9, <1>10, <1>11, <1>12, <1>13, <1>14, <1>15, <1>16, <1>17, <1>18, <1>19, <1>20, <1>21, <1>22, <1>23, <1>24, <1>25, <1>26
     DEF Next, Step, Create, SetInfo, Cleanup, Close, Context

(* t goes on, or completes, without touching the file objects.             *)
LEMMA HandlesKept ==
  ASSUME TypeOK, IrpShape, HandleShape, NEW t \in Threads,
         UNCHANGED <<file, handle, target>>,
         \A u \in Threads \ {t} : pc'[u] = pc[u] /\ hnd'[u] = hnd[u],
         \/ pc'[t] = "idle" /\ hnd'[t] = NoHandle
         \/ /\ hnd'[t] = hnd[t] /\ pc[t] # "idle"
            /\ pc'[t] \notin {"idle", "fsCreate", "fsClose", "fsCleanup"}
            /\ pc'[t] = "release" \/ pc[t] \notin {"fsCreate", "release"}
  PROVE  HandleShape'
  BY NoneApart DEF TypeOK, IrpShape, HandleShape

(* Every step preserves what the state of a handle says of its stream. *)
LEMMA HandleShapeStep ==
  ASSUME Inv, Next
  PROVE  HandleShape'
<1> USE NoneApart DEF TypeOK, HandleShape, InUse, BeingCreated
<1>0. TypeOK /\ TypeOK' /\ HandleShape /\ IrpShape
  BY TypeOKStep DEF Inv
<1>1. ASSUME NEW t \in Threads, WinIOPreCreate(t) PROVE HandleShape'
  BY <1>0, <1>1 DEF WinIOPreCreate, Send, CtxAllocateContext
<1>2. ASSUME NEW t \in Threads, FsCreate(t) PROVE HandleShape'
  <2> DEFINE h == hnd[t]
  <2>1. PICK s \in Streams :
          /\ \/ file[s] = "live" /\ file' = file
             \/ file' = [file EXCEPT ![s] = "live"]
          /\ handle' = [handle EXCEPT ![h] = "open"]
          /\ target' = [target EXCEPT ![h] = s]
    BY <1>2 DEF FsCreate
  <2>2. /\ h \in Handles /\ pc[t] = "fsCreate" /\ target[h] = NoStream
        /\ \A u \in Threads \ {t} : hnd[u] # h
    BY <1>0, <1>2 DEF FsCreate, IrpShape
  <2>3. /\ \A u \in Threads \ {t} : pc'[u] = pc[u] /\ hnd'[u] = hnd[u]
        /\ \/ pc'[t] = "idle" /\ hnd'[t] = NoHandle
           \/ pc'[t] = "getContext" /\ hnd'[t] = h
    BY <1>0, <1>2 DEF FsCreate, ReturnTo
  <2>4. \A g \in Handles : handle'[g] = "none" <=> target'[g] = NoStream
    BY <1>0, <2>1, <2>2
  <2>5. \A g \in Handles : handle'[g] \in {"open", "closing"} => file'[target'[g]] = "live"
    BY <1>0, <2>1, <2>2
  <2>6. ASSUME NEW u \in Threads
        PROVE  /\ pc'[u] \notin {"idle", "fsCreate", "release"} => target'[hnd'[u]] # NoStream
               /\ pc'[u] = "fsCreate" => target'[hnd'[u]] = NoStream
               /\ pc'[u] = "fsClose" => handle'[hnd'[u]] = "cleaned"
               /\ pc'[u] = "fsCleanup" => handle'[hnd'[u]] = "closing"
    <3>1. CASE u = t
      BY <1>0, <2>1, <2>2, <2>3, <3>1
    <3>2. CASE u # t
      <4>1. pc'[u] = pc[u] /\ hnd'[u] = hnd[u] /\ hnd[u] # h
        BY <2>2, <2>3, <3>2
      <4>2. pc[u] # "idle" => hnd[u] \in Handles
        BY <1>0 DEF IrpShape
      <4>3. pc[u] # "idle" => target'[hnd[u]] = target[hnd[u]] /\ handle'[hnd[u]] = handle[hnd[u]]
        BY <1>0, <2>1, <4>1, <4>2
      <4> QED
        BY <1>0, <4>1, <4>3
    <3> QED
      BY <3>1, <3>2
  <2>7. ASSUME NEW u \in Threads, NEW v \in Threads \ {u}
        PROVE  /\ pc'[u] \in {"fsCreate", "fsClose"} => hnd'[v] # hnd'[u]
               /\ pc'[u] = "fsCleanup" /\ pc'[v] = "fsCleanup" => hnd'[v] # hnd'[u]
    BY <1>0, <2>2, <2>3 DEF IrpShape
  <2> QED
    BY <2>4, <2>5, <2>6, <2>7
<1>3. ASSUME NEW t \in Threads, FsCreateFails(t) PROVE HandleShape'
  BY <1>0, <1>3, HandlesKept DEF FsCreateFails, ReturnTo
<1>4. ASSUME NEW t \in Threads, WinIOPostCreate(t) PROVE HandleShape'
  BY <1>0, <1>4, HandlesKept DEF WinIOPostCreate
<1>5. ASSUME NEW t \in Threads, WinIOPreSetInformation(t) PROVE HandleShape'
  <2>1. PICK h \in Handles :
          /\ handle[h] = "open" /\ ~BeingCreated(h)
          /\ pc[t] = "idle" /\ hnd' = [hnd EXCEPT ![t] = h]
          /\ UNCHANGED <<file, handle, target>>
    BY <1>5 DEF WinIOPreSetInformation, Send
  <2>2. /\ \A u \in Threads \ {t} : pc'[u] = pc[u] /\ hnd'[u] = hnd[u]
        /\ pc'[t] \in {"getContext", "fsSet"}
        /\ hnd'[t] = h
    BY <1>0, <1>5, <2>1 DEF WinIOPreSetInformation
  <2>3. \A u \in Threads : hnd[u] = h => pc[u] \notin {"fsCreate", "fsClose", "fsCleanup"}
    BY <1>0, <2>1 DEF IrpShape
  <2> QED
    BY <1>0, <2>1, <2>2, <2>3 DEF IrpShape
<1>6. ASSUME NEW t \in Threads, WinIOPreDisposition(t) PROVE HandleShape'
  BY <1>0, <1>6 DEF WinIOPreDisposition
<1>7. ASSUME NEW t \in Threads, WinIOPreRename(t) PROVE HandleShape'
  BY <1>0, <1>7 DEF WinIOPreRename
<1>8. ASSUME NEW t \in Threads, FsSetInformation(t) PROVE HandleShape'
  BY <1>0, <1>8, HandlesKept DEF FsSetInformation, ReturnTo
<1>9. ASSUME NEW t \in Threads, FsSetInformationFails(t) PROVE HandleShape'
  BY <1>0, <1>9, HandlesKept DEF FsSetInformationFails, ReturnTo
<1>10. ASSUME NEW t \in Threads, WinIOPostSetInformation(t) PROVE HandleShape'
  BY <1>0, <1>10 DEF WinIOPostSetInformation
<1>11. ASSUME NEW t \in Threads, WinIOPostDecrement(t) PROVE HandleShape'
  BY <1>0, <1>11 DEF WinIOPostDecrement
<1>12. ASSUME NEW t \in Threads, WinIOPreCleanup(t) PROVE HandleShape'
  <2>1. PICK h \in Handles :
          /\ handle[h] = "open" /\ ~BeingCreated(h)
          /\ pc[t] = "idle" /\ hnd' = [hnd EXCEPT ![t] = h]
          /\ handle' = [handle EXCEPT ![h] = "closing"]
          /\ UNCHANGED <<file, target>>
    BY <1>12 DEF WinIOPreCleanup, Send
  <2>2. /\ \A u \in Threads \ {t} : pc'[u] = pc[u] /\ hnd'[u] = hnd[u]
        /\ pc'[t] = "fsCleanup"
        /\ hnd'[t] = h
    BY <1>0, <1>12, <2>1 DEF WinIOPreCleanup
  <2>3. \A u \in Threads : hnd[u] = h => pc[u] \notin {"fsCreate", "fsClose", "fsCleanup"}
    BY <1>0, <2>1 DEF IrpShape
  <2> QED
    BY <1>0, <2>1, <2>2, <2>3 DEF IrpShape
<1>13. ASSUME NEW t \in Threads, FsCleanup(t) PROVE HandleShape'
  <2> DEFINE h == hnd[t]
  <2>1. /\ h \in Handles /\ target[h] \in Streams /\ pc[t] = "fsCleanup"
        /\ handle[h] = "closing"
    BY <1>0, <1>13 DEF FsCleanup, IrpShape
  <2>2. /\ handle' = [handle EXCEPT ![h] = "cleaned"] /\ target' = target
        /\ \/ file' = file
           \/ /\ file' = [file EXCEPT ![target[h]] = "deleted"]
              /\ OpenHandles(target[h]) = {h}
    BY <1>13 DEF FsCleanup
  <2>3. /\ \A u \in Threads \ {t} : pc'[u] = pc[u] /\ hnd'[u] = hnd[u]
        /\ \/ pc'[t] = "idle" /\ hnd'[t] = NoHandle
           \/ pc'[t] = "readNumOps" /\ hnd'[t] = h
    BY <1>0, <1>13 DEF FsCleanup, ReturnTo
  <2>4. \A g \in Handles : handle'[g] \in {"open", "closing"} => file'[target'[g]] = "live"
    BY <1>0, <2>1, <2>2 DEF OpenHandles
  <2> QED
    BY <1>0, <2>1, <2>2, <2>3, <2>4 DEF IrpShape
<1>14. ASSUME NEW t \in Threads, WinIOPostCleanup_NumOps(t) PROVE HandleShape'
  BY <1>0, <1>14 DEF WinIOPostCleanup_NumOps
<1>15. ASSUME NEW t \in Threads, WinIOPostCleanup_Flags(t) PROVE HandleShape'
  BY <1>0, <1>15 DEF WinIOPostCleanup_Flags
<1>16. ASSUME NEW t \in Threads, WinIOPostCleanup_Notified(t) PROVE HandleShape'
  BY <1>0, <1>16 DEF WinIOPostCleanup_Notified
<1>17. ASSUME NEW t \in Threads, DfProcessDelete(t) PROVE HandleShape'
  BY <1>0, <1>17, HandlesKept DEF DfProcessDelete
<1>18. ASSUME NEW t \in Threads, DfNotifyDelete(t) PROVE HandleShape'
  BY <1>0, <1>18 DEF DfNotifyDelete
<1>19. ASSUME NEW t \in Threads, WinIOPreClose(t) PROVE HandleShape'
  BY <1>0, <1>19 DEF WinIOPreClose, Send, CtxGetContext
<1>20. ASSUME NEW t \in Threads, FsClose(t) PROVE HandleShape'
  <2> DEFINE h == hnd[t]
  <2>1. /\ h \in Handles /\ pc[t] = "fsClose"
        /\ \A u \in Threads \ {t} : hnd[u] # h
    BY <1>0, <1>20 DEF FsClose, IrpShape
  <2>2. /\ handle' = [handle EXCEPT ![h] = "none"]
        /\ target' = [target EXCEPT ![h] = NoStream]
        /\ file' = file
    BY <1>20 DEF FsClose
  <2>3. /\ \A u \in Threads \ {t} : pc'[u] = pc[u] /\ hnd'[u] = hnd[u]
        /\ \/ pc'[t] = "idle" /\ hnd'[t] = NoHandle
           \/ pc'[t] = "release" /\ hnd'[t] = h
    BY <1>0, <1>20 DEF FsClose, ReturnTo
  <2>4. \A g \in Handles : handle'[g] = "none" <=> target'[g] = NoStream
    BY <1>0, <2>1, <2>2
  <2>5. \A g \in Handles : handle'[g] \in {"open", "closing"} => file'[target'[g]] = "live"
    BY <1>0, <2>1, <2>2
  <2>6. ASSUME NEW u \in Threads
        PROVE  /\ pc'[u] \notin {"idle", "fsCreate", "release"} => target'[hnd'[u]] # NoStream
               /\ pc'[u] = "fsCreate" => target'[hnd'[u]] = NoStream
               /\ pc'[u] = "fsClose" => handle'[hnd'[u]] = "cleaned"
               /\ pc'[u] = "fsCleanup" => handle'[hnd'[u]] = "closing"
    <3>1. CASE u = t
      BY <1>0, <2>1, <2>2, <2>3, <3>1
    <3>2. CASE u # t
      <4>1. pc'[u] = pc[u] /\ hnd'[u] = hnd[u] /\ hnd[u] # h
        BY <2>1, <2>3, <3>2
      <4>2. pc[u] # "idle" => hnd[u] \in Handles
        BY <1>0 DEF IrpShape
      <4>3. pc[u] # "idle" => target'[hnd[u]] = target[hnd[u]] /\ handle'[hnd[u]] = handle[hnd[u]]
        BY <1>0, <2>2, <4>1, <4>2
      <4> QED
        BY <1>0, <4>1, <4>3
    <3> QED
      BY <3>1, <3>2
  <2>7. ASSUME NEW u \in Threads, NEW v \in Threads \ {u}
        PROVE  /\ pc'[u] \in {"fsCreate", "fsClose"} => hnd'[v] # hnd'[u]
               /\ pc'[u] = "fsCleanup" /\ pc'[v] = "fsCleanup" => hnd'[v] # hnd'[u]
    BY <1>0, <2>1, <2>3 DEF IrpShape
  <2> QED
    BY <2>4, <2>5, <2>6, <2>7
<1>21. ASSUME NEW t \in Threads, CtxGetOrSetContext_Get(t) PROVE HandleShape'
  BY <1>0, <1>21 DEF CtxGetOrSetContext_Get, Swapped, CtxAllocateContext
<1>22. ASSUME NEW t \in Threads, CtxGetOrSetContext_Set(t) PROVE HandleShape'
  BY <1>0, <1>22 DEF CtxGetOrSetContext_Set, Swapped
<1>23. ASSUME NEW t \in Threads, CtxGetOrSetContext_Fail(t) PROVE HandleShape'
  BY <1>0, <1>23, HandlesKept DEF CtxGetOrSetContext_Fail
<1>24. ASSUME NEW t \in Threads, CreateIrpContext_Retry(t) PROVE HandleShape'
  BY <1>0, <1>24 DEF CreateIrpContext_Retry, CtxGetContext
<1>25. ASSUME NEW t \in Threads, CloseIrpContext(t) PROVE HandleShape'
  BY <1>0, <1>25, HandlesKept DEF CloseIrpContext
<1>26. ASSUME NEW s \in Streams, TeardownStream(s) PROVE HandleShape'
  BY <1>0, <1>26 DEF TeardownStream
<1> QED
  BY <1>1, <1>2, <1>3, <1>4, <1>5, <1>6, <1>7, <1>8, <1>9, <1>10, <1>11, <1>12, <1>13, <1>14, <1>15, <1>16, <1>17, <1>18, <1>19, <1>20, <1>21, <1>22, <1>23, <1>24, <1>25, <1>26
     DEF Next, Step, Create, SetInfo, Cleanup, Close, Context

-----------------------------------------------------------------------------
(* One context per stream. *)

(* t gives its context up, keeps it, or takes one that is already set.     *)
LEMMA PrivateKept ==
  ASSUME TypeOK, PrivateContext, NEW t \in Threads, UNCHANGED attached,
         \A u \in Threads \ {t} : pc'[u] = pc[u] /\ ctx'[u] = ctx[u],
         \/ ctx'[t] = NoContext
         \/ ctx'[t] = ctx[t] /\ (pc'[t] \in Unsettled => pc[t] \in Unsettled)
         \/ pc'[t] \notin Unsettled /\ \E s \in Streams : ctx'[t] = attached[s]
  PROVE  PrivateContext'
  BY DEF PrivateContext

(* t takes a context nobody uses.                                          *)
LEMMA PrivateAllocated ==
  ASSUME TypeOK, PrivateContext, RefsExact, NEW t \in Threads, NEW c \in Contexts,
         CtxAllocateContext(t, c), UNCHANGED attached,
         \A u \in Threads \ {t} : pc'[u] = pc[u]
  PROVE  PrivateContext'
<1>1. /\ \A s \in Streams : attached[s] # c
      /\ \A u \in Threads : ctx[u] # c
  BY InUseIsReferenced DEF CtxAllocateContext
<1>2. ctx' = [ctx EXCEPT ![t] = c]
  BY DEF CtxAllocateContext
<1> QED
  BY <1>1, <1>2 DEF PrivateContext, TypeOK

(* A context that has been allocated and not yet attached stays private to *)
(* its thread.                                                             *)
LEMMA PrivateContextStep ==
  ASSUME Inv, Next
  PROVE  PrivateContext'
<1> USE NoneApart DEF TypeOK, Unsettled
<1>0. /\ TypeOK /\ TypeOK' /\ HandleShape /\ IrpShape
      /\ RefsExact /\ PrivateContext
  BY TypeOKStep DEF Inv
<1>i. \A t \in Threads : pc[t] \in {"idle", "retryContext"} => ctx[t] = NoContext
  BY <1>0 DEF IrpShape
<1>1. ASSUME NEW t \in Threads, WinIOPreCreate(t) PROVE PrivateContext'
  <2>1. CASE \E c \in Contexts : CtxAllocateContext(t, c)
    BY <1>0, <1>1, <2>1, PrivateAllocated DEF WinIOPreCreate
  <2>2. CASE UNCHANGED <<refs, fieldVars, ctx>>
    BY <1>0, <1>i, <1>1, <2>2, PrivateKept DEF WinIOPreCreate, Send
  <2> QED
    BY <1>1, <2>1, <2>2 DEF WinIOPreCreate
<1>2. ASSUME NEW t \in Threads, FsCreate(t) PROVE PrivateContext'
  BY <1>0, <1>2, PrivateKept DEF FsCreate, ReturnTo
<1>3. ASSUME NEW t \in Threads, FsCreateFails(t) PROVE PrivateContext'
  BY <1>0, <1>3, PrivateKept DEF FsCreateFails, ReturnTo
<1>4. ASSUME NEW t \in Threads, WinIOPostCreate(t) PROVE PrivateContext'
  BY <1>0, <1>4, PrivateKept DEF WinIOPostCreate
<1>5. ASSUME NEW t \in Threads, WinIOPreSetInformation(t) PROVE PrivateContext'
  BY <1>0, <1>i, <1>5, PrivateKept DEF WinIOPreSetInformation, Send, Unseen, HandleShape, IrpShape
<1>6. ASSUME NEW t \in Threads, WinIOPreDisposition(t) PROVE PrivateContext'
  BY <1>0, <1>6, PrivateKept DEF WinIOPreDisposition
<1>7. ASSUME NEW t \in Threads, WinIOPreRename(t) PROVE PrivateContext'
  BY <1>0, <1>7, PrivateKept DEF WinIOPreRename
<1>8. ASSUME NEW t \in Threads, FsSetInformation(t) PROVE PrivateContext'
  BY <1>0, <1>8, PrivateKept DEF FsSetInformation, ReturnTo
<1>9. ASSUME NEW t \in Threads, FsSetInformationFails(t) PROVE PrivateContext'
  BY <1>0, <1>9, PrivateKept DEF FsSetInformationFails, ReturnTo
<1>10. ASSUME NEW t \in Threads, WinIOPostSetInformation(t) PROVE PrivateContext'
  BY <1>0, <1>10, PrivateKept DEF WinIOPostSetInformation
<1>11. ASSUME NEW t \in Threads, WinIOPostDecrement(t) PROVE PrivateContext'
  BY <1>0, <1>11, PrivateKept DEF WinIOPostDecrement
<1>12. ASSUME NEW t \in Threads, WinIOPreCleanup(t) PROVE PrivateContext'
  <2>1. PICK h \in Handles : handle[h] # "none" /\ (CtxGetContext(t, target[h]) \/ Unseen(target[h]))
    BY <1>12 DEF WinIOPreCleanup
  <2>2. target[h] \in Streams
    BY <1>0, <2>1 DEF HandleShape
  <2>3. /\ ctx'[t] = NoContext \/ ctx'[t] = attached[target[h]]
        /\ pc'[t] \notin Unsettled /\ UNCHANGED attached
        /\ \A u \in Threads \ {t} : pc'[u] = pc[u] /\ ctx'[u] = ctx[u]
    BY <1>0, <1>i, <1>12, <2>1 DEF WinIOPreCleanup, Send, CtxGetContext, Unseen
  <2> QED
    BY <1>0, <2>2, <2>3, PrivateKept
<1>13. ASSUME NEW t \in Threads, FsCleanup(t) PROVE PrivateContext'
  BY <1>0, <1>13, PrivateKept DEF FsCleanup, ReturnTo
<1>14. ASSUME NEW t \in Threads, WinIOPostCleanup_NumOps(t) PROVE PrivateContext'
  BY <1>0, <1>14, PrivateKept DEF WinIOPostCleanup_NumOps
<1>15. ASSUME NEW t \in Threads, WinIOPostCleanup_Flags(t) PROVE PrivateContext'
  BY <1>0, <1>15, PrivateKept DEF WinIOPostCleanup_Flags
<1>16. ASSUME NEW t \in Threads, WinIOPostCleanup_Notified(t) PROVE PrivateContext'
  BY <1>0, <1>16, PrivateKept DEF WinIOPostCleanup_Notified
<1>17. ASSUME NEW t \in Threads, DfProcessDelete(t) PROVE PrivateContext'
  BY <1>0, <1>17, PrivateKept DEF DfProcessDelete
<1>18. ASSUME NEW t \in Threads, DfNotifyDelete(t) PROVE PrivateContext'
  BY <1>0, <1>18, PrivateKept DEF DfNotifyDelete
<1>19. ASSUME NEW t \in Threads, WinIOPreClose(t) PROVE PrivateContext'
  <2>1. PICK h \in Handles : handle[h] # "none" /\ (CtxGetContext(t, target[h]))
    BY <1>19 DEF WinIOPreClose
  <2>2. target[h] \in Streams
    BY <1>0, <2>1 DEF HandleShape
  <2>3. /\ ctx'[t] = NoContext \/ ctx'[t] = attached[target[h]]
        /\ pc'[t] \notin Unsettled /\ UNCHANGED attached
        /\ \A u \in Threads \ {t} : pc'[u] = pc[u] /\ ctx'[u] = ctx[u]
    BY <1>0, <1>i, <1>19, <2>1 DEF WinIOPreClose, Send, CtxGetContext, Unseen
  <2> QED
    BY <1>0, <2>2, <2>3, PrivateKept
<1>20. ASSUME NEW t \in Threads, FsClose(t) PROVE PrivateContext'
  BY <1>0, <1>20, PrivateKept DEF FsClose, ReturnTo
<1>21. ASSUME NEW t \in Threads, CtxGetOrSetContext_Get(t) PROVE PrivateContext'
  <2>1. CASE attached[StreamOf(t)] # NoContext
    BY <1>0, <1>21, <2>1, PrivateKept DEF CtxGetOrSetContext_Get, HandleShape, IrpShape
  <2>2. CASE attached[StreamOf(t)] = NoContext
    BY <1>0, <1>21, <2>2, PrivateKept, PrivateAllocated DEF CtxGetOrSetContext_Get
  <2> QED
    BY <2>1, <2>2
<1>22. ASSUME NEW t \in Threads, CtxGetOrSetContext_Set(t) PROVE PrivateContext'
  <2>1. CASE attached[StreamOf(t)] # NoContext
    BY <1>0, <1>22, <2>1, PrivateKept DEF CtxGetOrSetContext_Set, HandleShape, IrpShape
  <2>2. CASE attached[StreamOf(t)] = NoContext
    <3>1. /\ attached' = [attached EXCEPT ![StreamOf(t)] = ctx[t]] /\ ctx' = ctx
          /\ pc[t] \in Unsettled /\ pc' = [pc EXCEPT ![t] = "contextReady"]
          /\ ctx[t] # NoContext
      BY <1>0, <1>22, <2>2 DEF CtxGetOrSetContext_Set, IrpShape, WithContext
    <3> QED
      BY <1>0, <3>1 DEF PrivateContext
  <2> QED
    BY <2>1, <2>2
<1>23. ASSUME NEW t \in Threads, CtxGetOrSetContext_Fail(t) PROVE PrivateContext'
  BY <1>0, <1>23, PrivateKept DEF CtxGetOrSetContext_Fail
<1>24. ASSUME NEW t \in Threads, CreateIrpContext_Retry(t) PROVE PrivateContext'
  BY <1>0, <1>i, <1>24, PrivateKept DEF CreateIrpContext_Retry, CtxGetContext, HandleShape, IrpShape
<1>25. ASSUME NEW t \in Threads, CloseIrpContext(t) PROVE PrivateContext'
  BY <1>0, <1>25, PrivateKept DEF CloseIrpContext
<1>26. ASSUME NEW s \in Streams, TeardownStream(s) PROVE PrivateContext'
  BY <1>0, <1>26 DEF TeardownStream, PrivateContext
<1> QED
  BY <1>1, <1>2, <1>3, <1>4, <1>5, <1>6, <1>7, <1>8, <1>9, <1>10, <1>11, <1>12, <1>13, <1>14, <1>15, <1>16, <1>17, <1>18, <1>19, <1>20, <1>21, <1>22, <1>23, <1>24, <1>25, <1>26
     DEF Next, Step, Create, SetInfo, Cleanup, Close, Context

(* t gives its context up, keeps it on the same stream, or takes the one   *)
(* of the stream it is on.                                                 *)
LEMMA OneContextKept ==
  ASSUME TypeOK, OneContextPerStream, NEW t \in Threads, UNCHANGED <<attached, target>>,
         \A u \in Threads \ {t} : pc'[u] = pc[u] /\ hnd'[u] = hnd[u] /\ ctx'[u] = ctx[u],
         \/ ctx'[t] = NoContext
         \/ pc'[t] \in Unsettled \cup {"release"}
         \/ ctx'[t] = ctx[t] /\ hnd'[t] = hnd[t] /\ pc[t] \notin Unsettled \cup {"release"}
         \/ ctx'[t] = attached[target[hnd'[t]]]
  PROVE  OneContextPerStream'
  BY DEF OneContextPerStream, Unsettled

(* Every step keeps the callbacks of a stream on the context attached to   *)
(* it.                                                                     *)
LEMMA OneContextPerStreamStep ==
  ASSUME Inv, Next
  PROVE  OneContextPerStream'
<1> USE NoneApart DEF TypeOK, Unsettled
<1>0. /\ TypeOK /\ TypeOK' /\ HandleShape /\ IrpShape
      /\ RefsExact /\ PrivateContext /\ OneContextPerStream
  BY TypeOKStep DEF Inv
<1>i. \A t \in Threads : pc[t] \in {"idle", "retryContext"} => ctx[t] = NoContext
  BY <1>0 DEF IrpShape
<1>1. ASSUME NEW t \in Threads, WinIOPreCreate(t) PROVE OneContextPerStream'
  BY <1>0, <1>1, OneContextKept DEF WinIOPreCreate, Send, CtxAllocateContext, IrpShape
<1>2. ASSUME NEW t \in Threads, FsCreate(t) PROVE OneContextPerStream'
  <2>1. /\ hnd[t] \in Handles /\ \A u \in Threads \ {t} : hnd[u] # hnd[t]
    BY <1>0, <1>2 DEF FsCreate, IrpShape, HandleShape
  <2>2. /\ \A h \in Handles \ {hnd[t]} : target'[h] = target[h]
        /\ UNCHANGED <<attached, ctx>>
        /\ \A u \in Threads \ {t} : pc'[u] = pc[u] /\ hnd'[u] = hnd[u]
        /\ ctx'[t] = NoContext \/ pc'[t] \in {"getContext", "release"}
    BY <1>0, <1>2 DEF FsCreate, ReturnTo
  <2>3. \A u \in Threads : ctx[u] # NoContext => hnd[u] \in Handles
    BY <1>0 DEF IrpShape
  <2>4. ASSUME NEW u \in Threads, ctx'[u] # NoContext,
               pc'[u] \notin Unsettled \cup {"release"}
        PROVE  attached'[target'[hnd'[u]]] = ctx'[u]
    <3>1. u # t
      BY <2>2, <2>4
    <3>2. hnd'[u] = hnd[u] /\ target'[hnd[u]] = target[hnd[u]]
      BY <2>1, <2>2, <2>3, <2>4, <3>1
    <3> QED
      BY <1>0, <2>2, <2>4, <3>1, <3>2 DEF OneContextPerStream
  <2> QED
    BY <1>0, <2>2, <2>4 DEF OneContextPerStream
<1>3. ASSUME NEW t \in Threads, FsCreateFails(t) PROVE OneContextPerStream'
  BY <1>0, <1>3, OneContextKept DEF FsCreateFails, ReturnTo, IrpShape
<1>4. ASSUME NEW t \in Threads, WinIOPostCreate(t) PROVE OneContextPerStream'
  BY <1>0, <1>4, OneContextKept DEF WinIOPostCreate, IrpShape
<1>5. ASSUME NEW t \in Threads, WinIOPreSetInformation(t) PROVE OneContextPerStream'
  BY <1>0, <1>5, OneContextKept DEF WinIOPreSetInformation, Send, Unseen, IrpShape
<1>6. ASSUME NEW t \in Threads, WinIOPreDisposition(t) PROVE OneContextPerStream'
  BY <1>0, <1>6, OneContextKept DEF WinIOPreDisposition, IrpShape
<1>7. ASSUME NEW t \in Threads, WinIOPreRename(t) PROVE OneContextPerStream'
  BY <1>0, <1>7, OneContextKept DEF WinIOPreRename, IrpShape
<1>8. ASSUME NEW t \in Threads, FsSetInformation(t) PROVE OneContextPerStream'
  BY <1>0, <1>8, OneContextKept DEF FsSetInformation, ReturnTo, IrpShape
<1>9. ASSUME NEW t \in Threads, FsSetInformationFails(t) PROVE OneContextPerStream'
  BY <1>0, <1>9, OneContextKept DEF FsSetInformationFails, ReturnTo, IrpShape
<1>10. ASSUME NEW t \in Threads, WinIOPostSetInformation(t) PROVE OneContextPerStream'
  BY <1>0, <1>10, OneContextKept DEF WinIOPostSetInformation, IrpShape
<1>11. ASSUME NEW t \in Threads, WinIOPostDecrement(t) PROVE OneContextPerStream'
  BY <1>0, <1>11, OneContextKept DEF WinIOPostDecrement, IrpShape
<1>12. ASSUME NEW t \in Threads, WinIOPreCleanup(t) PROVE OneContextPerStream'
  <2>1. PICK h \in Handles : /\ hnd' = [hnd EXCEPT ![t] = h]
                             /\ CtxGetContext(t, target[h]) \/ Unseen(target[h])
    BY <1>12 DEF WinIOPreCleanup, Send
  <2>2. ctx'[t] = NoContext \/ ctx'[t] = attached[target[hnd'[t]]]
    BY <1>0, <1>i, <1>12, <2>1 DEF WinIOPreCleanup, Send, CtxGetContext, Unseen
  <2>3. /\ UNCHANGED <<attached, target>>
        /\ \A u \in Threads \ {t} : pc'[u] = pc[u] /\ hnd'[u] = hnd[u] /\ ctx'[u] = ctx[u]
    BY <1>0, <1>12, <2>1 DEF WinIOPreCleanup, CtxGetContext, Unseen
  <2> QED
    BY <1>0, <2>2, <2>3, OneContextKept
<1>13. ASSUME NEW t \in Threads, FsCleanup(t) PROVE OneContextPerStream'
  BY <1>0, <1>13, OneContextKept, SMTT(30) DEF FsCleanup, ReturnTo, IrpShape
<1>14. ASSUME NEW t \in Threads, WinIOPostCleanup_NumOps(t) PROVE OneContextPerStream'
  BY <1>0, <1>14, OneContextKept DEF WinIOPostCleanup_NumOps, IrpShape
<1>15. ASSUME NEW t \in Threads, WinIOPostCleanup_Flags(t) PROVE OneContextPerStream'
  BY <1>0, <1>15, OneContextKept DEF WinIOPostCleanup_Flags, IrpShape
<1>16. ASSUME NEW t \in Threads, WinIOPostCleanup_Notified(t) PROVE OneContextPerStream'
  BY <1>0, <1>16, OneContextKept DEF WinIOPostCleanup_Notified, IrpShape
<1>17. ASSUME NEW t \in Threads, DfProcessDelete(t) PROVE OneContextPerStream'
  BY <1>0, <1>17, OneContextKept DEF DfProcessDelete, IrpShape
<1>18. ASSUME NEW t \in Threads, DfNotifyDelete(t) PROVE OneContextPerStream'
  BY <1>0, <1>18, OneContextKept DEF DfNotifyDelete, IrpShape
<1>19. ASSUME NEW t \in Threads, WinIOPreClose(t) PROVE OneContextPerStream'
  <2>1. PICK h \in Handles : /\ hnd' = [hnd EXCEPT ![t] = h]
                             /\ CtxGetContext(t, target[h])
    BY <1>19 DEF WinIOPreClose, Send
  <2>2. ctx'[t] = NoContext \/ ctx'[t] = attached[target[hnd'[t]]]
    BY <1>0, <1>i, <1>19, <2>1 DEF WinIOPreClose, Send, CtxGetContext, Unseen
  <2>3. /\ UNCHANGED <<attached, target>>
        /\ \A u \in Threads \ {t} : pc'[u] = pc[u] /\ hnd'[u] = hnd[u] /\ ctx'[u] = ctx[u]
    BY <1>0, <1>19, <2>1 DEF WinIOPreClose, CtxGetContext, Unseen
  <2> QED
    BY <1>0, <2>2, <2>3, OneContextKept
<1>20. ASSUME NEW t \in Threads, FsClose(t) PROVE OneContextPerStream'
  <2>1. /\ hnd[t] \in Handles /\ \A u \in Threads \ {t} : hnd[u] # hnd[t]
    BY <1>0, <1>20 DEF FsClose, IrpShape, HandleShape
  <2>2. /\ \A h \in Handles \ {hnd[t]} : target'[h] = target[h]
        /\ UNCHANGED <<attached, ctx>>
        /\ \A u \in Threads \ {t} : pc'[u] = pc[u] /\ hnd'[u] = hnd[u]
        /\ ctx'[t] = NoContext \/ pc'[t] \in {"getContext", "release"}
    BY <1>0, <1>20 DEF FsClose, ReturnTo
  <2>3. \A u \in Threads : ctx[u] # NoContext => hnd[u] \in Handles
    BY <1>0 DEF IrpShape
  <2>4. ASSUME NEW u \in Threads, ctx'[u] # NoContext,
               pc'[u] \notin Unsettled \cup {"release"}
        PROVE  attached'[target'[hnd'[u]]] = ctx'[u]
    <3>1. u # t
      BY <2>2, <2>4
    <3>2. hnd'[u] = hnd[u] /\ target'[hnd[u]] = target[hnd[u]]
      BY <2>1, <2>2, <2>3, <2>4, <3>1
    <3> QED
      BY <1>0, <2>2, <2>4, <3>1, <3>2 DEF OneContextPerStream
  <2> QED
    BY <1>0, <2>2, <2>4 DEF OneContextPerStream
<1>21. ASSUME NEW t \in Threads, CtxGetOrSetContext_Get(t) PROVE OneContextPerStream'
  BY <1>0, <1>21, OneContextKept DEF CtxGetOrSetContext_Get, Swapped, CtxAllocateContext, IrpShape
<1>22. ASSUME NEW t \in Threads, CtxGetOrSetContext_Set(t) PROVE OneContextPerStream'
  <2>1. CASE attached[StreamOf(t)] # NoContext
    BY <1>0, <1>22, <2>1, OneContextKept DEF CtxGetOrSetContext_Set
  <2>2. CASE attached[StreamOf(t)] = NoContext
    <3> DEFINE s == StreamOf(t)
    <3>1. /\ attached' = [attached EXCEPT ![s] = ctx[t]]
          /\ UNCHANGED <<ctx, hnd, target>>
          /\ pc' = [pc EXCEPT ![t] = "contextReady"]
          /\ ctx[t] # NoContext /\ s \in Streams
      BY <1>0, <1>22, <2>2 DEF CtxGetOrSetContext_Set, IrpShape, HandleShape, WithContext
    <3>2. \A r \in Streams : attached[r] # ctx[t]
      BY <1>0, <1>22, <3>1 DEF CtxGetOrSetContext_Set, PrivateContext
    <3> QED
      BY <1>0, <2>2, <3>1, <3>2 DEF OneContextPerStream
  <2> QED
    BY <2>1, <2>2
<1>23. ASSUME NEW t \in Threads, CtxGetOrSetContext_Fail(t) PROVE OneContextPerStream'
  BY <1>0, <1>23, OneContextKept DEF CtxGetOrSetContext_Fail, IrpShape
<1>24. ASSUME NEW t \in Threads, CreateIrpContext_Retry(t) PROVE OneContextPerStream'
  BY <1>0, <1>24, OneContextKept DEF CreateIrpContext_Retry, CtxGetContext, IrpShape
<1>25. ASSUME NEW t \in Threads, CloseIrpContext(t) PROVE OneContextPerStream'
  BY <1>0, <1>25, OneContextKept DEF CloseIrpContext, IrpShape
<1>26. ASSUME NEW s \in Streams, TeardownStream(s) PROVE OneContextPerStream'
  <2>1. \A u \in Threads : ctx[u] # NoContext /\ pc[u] \notin Unsettled \cup {"release"}
                          => StreamOf(u) # s
    BY <1>0, <1>26 DEF TeardownStream, IrpShape, HandleShape
  <2> QED
    BY <1>0, <1>26, <2>1 DEF TeardownStream, OneContextPerStream
<1> QED
  BY <1>1, <1>2, <1>3, <1>4, <1>5, <1>6, <1>7, <1>8, <1>9, <1>10, <1>11, <1>12, <1>13, <1>14, <1>15, <1>16, <1>17, <1>18, <1>19, <1>20, <1>21, <1>22, <1>23, <1>24, <1>25, <1>26
     DEF Next, Step, Create, SetInfo, Cleanup, Close, Context

-----------------------------------------------------------------------------
(* Disposition changes in flight. *)

InFlight(t, c) == /\ ctx[t] = c /\ op[t] \in Dispositions
                  /\ pc[t] \in {"fsSet", "postSet", "decrement"}

(* When only t moves, t alone enters or leaves the changes in flight.      *)
LEMMA ChangesInFlightStep ==
  ASSUME NEW t \in Threads, NEW c,
         \A u \in Threads \ {t} : pc'[u] = pc[u] /\ op'[u] = op[u] /\ ctx'[u] = ctx[u]
  PROVE  /\ Cardinality(ChangesInFlight(c)) \in Nat
         /\ Cardinality(ChangesInFlight(c))' = Cardinality(ChangesInFlight(c))
              + (IF InFlight(t, c)' THEN 1 ELSE 0) - (IF InFlight(t, c) THEN 1 ELSE 0)
<1>1. ChangesInFlight(c) \ {t} = ChangesInFlight(c)' \ {t}
  BY DEF ChangesInFlight, Holders
<1>2. /\ t \in ChangesInFlight(c) <=> InFlight(t, c)
      /\ t \in ChangesInFlight(c)' <=> InFlight(t, c)'
  BY DEF ChangesInFlight, Holders, InFlight
<1>3. IsFiniteSet(ChangesInFlight(c))
  BY FiniteCounts, FS_Subset, ChangesInFlight(c) \in SUBSET Holders(c) DEF ChangesInFlight
<1> QED
  BY <1>1, <1>2, <1>3, MoveOne

(* t neither starts nor ends a change, and no context is allocated.        *)
LEMMA NumOpsKept ==
  ASSUME NumOpsExact, NEW t \in Threads, UNCHANGED numOps,
         \A u \in Threads \ {t} : pc'[u] = pc[u] /\ op'[u] = op[u] /\ ctx'[u] = ctx[u],
         \A c \in Contexts : refs'[c] > 0 => refs[c] > 0,
         \A c \in Contexts : InFlight(t, c)' <=> InFlight(t, c)
  PROVE  NumOpsExact'
<1> SUFFICES ASSUME NEW c \in Contexts, refs'[c] > 0
             PROVE  numOps'[c] = Cardinality(ChangesInFlight(c))'
  BY DEF NumOpsExact
<1>1. numOps[c] = Cardinality(ChangesInFlight(c))
  BY DEF NumOpsExact
<1>2. /\ Cardinality(ChangesInFlight(c)) \in Nat
      /\ Cardinality(ChangesInFlight(c))' = Cardinality(ChangesInFlight(c))
           + (IF InFlight(t, c)' THEN 1 ELSE 0) - (IF InFlight(t, c) THEN 1 ELSE 0)
  BY ChangesInFlightStep
<1> QED
  BY <1>1, <1>2

(* A context just allocated has no change in flight.                       *)
LEMMA NumOpsAllocated ==
  ASSUME TypeOK, NumOpsExact, RefsExact, NEW t \in Threads, ctx[t] = NoContext,
         \E c \in Contexts : CtxAllocateContext(t, c),
         \A u \in Threads \ {t} : pc'[u] = pc[u] /\ op'[u] = op[u],
         pc'[t] \in Unsettled
  PROVE  NumOpsExact'
<1> PICK c \in Contexts : CtxAllocateContext(t, c)
  OBVIOUS
<1>1. /\ refs[c] = 0 /\ refs' = [refs EXCEPT ![c] = 1]
      /\ numOps' = [numOps EXCEPT ![c] = 0] /\ ctx' = [ctx EXCEPT ![t] = c]
  BY DEF CtxAllocateContext
<1> SUFFICES ASSUME NEW d \in Contexts, refs'[d] > 0
             PROVE  numOps'[d] = Cardinality(ChangesInFlight(d))'
  BY DEF NumOpsExact
<1>2. CASE d = c
  <2>1. \A u \in Threads : ctx[u] # c
    BY <1>1, InUseIsReferenced
  <2>2. ChangesInFlight(c)' = {}
    BY <1>1, <2>1 DEF ChangesInFlight, Holders, Unsettled, TypeOK
  <2> QED
    BY <1>1, <1>2, <2>2, FS_EmptySet DEF TypeOK
<1>3. CASE d # c
  <2>1. ChangesInFlight(d)' = ChangesInFlight(d)
    BY <1>1, <1>3, NoneApart DEF ChangesInFlight, Holders, TypeOK
  <2> QED
    BY <1>1, <1>3, <2>1 DEF NumOpsExact, TypeOK
<1> QED
  BY <1>2, <1>3

(* At first no disposition change is in flight. *)
LEMMA NumOpsExactInit == Init => NumOpsExact
  BY DEF Init, NumOpsExact

(* Every step changes NumOps with the disposition changes in flight. *)
LEMMA NumOpsExactStep ==
  ASSUME Inv, Next
  PROVE  NumOpsExact'
<1> USE NoneApart DEF TypeOK, InFlight, Dispositions
<1>0. /\ TypeOK /\ TypeOK' /\ HandleShape /\ IrpShape
      /\ RefsExact /\ NumOpsExact
  BY TypeOKStep DEF Inv
<1>i. \A t \in Threads : pc[t] \in {"idle", "retryContext"} => ctx[t] = NoContext
  BY <1>0 DEF IrpShape
<1>r. \A s \in Streams, c \in Contexts : attached[s] = c => refs[c] > 0
  BY <1>0, InUseIsReferenced
<1>s. \A t \in Threads : /\ pc[t] \notin {"idle", "fsCreate", "release"} => StreamOf(t) \in Streams
                         /\ ctx[t] \in Contexts => refs[ctx[t]] > 0
  BY <1>0, InUseIsReferenced DEF IrpShape, HandleShape
<1>1. ASSUME NEW t \in Threads, WinIOPreCreate(t) PROVE NumOpsExact'
  <2>1. CASE \E c \in Contexts : CtxAllocateContext(t, c)
    BY <1>0, <1>i, <1>1, <2>1, NumOpsAllocated DEF WinIOPreCreate, Send, Unsettled
  <2>2. CASE UNCHANGED <<refs, fieldVars, ctx>>
    BY <1>0, <1>i, <1>1, <2>2, NumOpsKept DEF WinIOPreCreate, Send
  <2> QED
    BY <1>1, <2>1, <2>2 DEF WinIOPreCreate
<1>2. ASSUME NEW t \in Threads, FsCreate(t) PROVE NumOpsExact'
  BY <1>0, <1>2, NumOpsKept DEF FsCreate, ReturnTo, IrpShape, WithContext
<1>3. ASSUME NEW t \in Threads, FsCreateFails(t) PROVE NumOpsExact'
  BY <1>0, <1>3, NumOpsKept DEF FsCreateFails, ReturnTo, IrpShape, WithContext
<1>4. ASSUME NEW t \in Threads, WinIOPostCreate(t) PROVE NumOpsExact'
  BY <1>0, <1>4, NumOpsKept DEF WinIOPostCreate, IrpShape, WithContext
<1>5. ASSUME NEW t \in Threads, WinIOPreSetInformation(t) PROVE NumOpsExact'
  BY <1>0, <1>5, NumOpsKept DEF WinIOPreSetInformation, Send, Unseen, IrpShape, WithContext
<1>6. ASSUME NEW t \in Threads, WinIOPreDisposition(t) PROVE NumOpsExact'
  <2> DEFINE k == ctx[t]
  <2>1. /\ pc[t] = "contextReady" /\ op[t] \in Dispositions
        /\ numOps' = [numOps EXCEPT ![k] = numOps[k] + 1]
        /\ UNCHANGED <<refs, ctx, op>> /\ pc' = [pc EXCEPT ![t] = "fsSet"]
    BY <1>0, <1>6 DEF WinIOPreDisposition, IrpShape
  <2>2. k \in Contexts
    BY <1>0, <2>1 DEF IrpShape, WithContext
  <2> SUFFICES ASSUME NEW c \in Contexts, refs[c] > 0
               PROVE  numOps'[c] = Cardinality(ChangesInFlight(c))'
    BY <2>1 DEF NumOpsExact
  <2>3. \A u \in Threads \ {t} : pc'[u] = pc[u] /\ op'[u] = op[u] /\ ctx'[u] = ctx[u]
    BY <1>0, <2>1
  <2>4. /\ Cardinality(ChangesInFlight(c)) \in Nat
        /\ Cardinality(ChangesInFlight(c))' = Cardinality(ChangesInFlight(c))
             + (IF InFlight(t, c)' THEN 1 ELSE 0) - (IF InFlight(t, c) THEN 1 ELSE 0)
    BY <2>3, ChangesInFlightStep
  <2>5. numOps[c] = Cardinality(ChangesInFlight(c)) /\ numOps[c] \in Nat
    BY <1>0 DEF NumOpsExact
  <2>6. InFlight(t, c) <=> FALSE
    BY <2>1
  <2>7. InFlight(t, c)' <=> c = k
    BY <1>0, <2>1
  <2>8. numOps'[c] = IF c = k THEN numOps[c] + 1 ELSE numOps[c]
    BY <1>0, <2>1, <2>2
  <2> HIDE DEF InFlight
  <2> QED
    BY <2>4, <2>5, <2>6, <2>7, <2>8
<1>7. ASSUME NEW t \in Threads, WinIOPreRename(t) PROVE NumOpsExact'
  BY <1>0, <1>7, NumOpsKept DEF WinIOPreRename, IrpShape, WithContext
<1>8. ASSUME NEW t \in Threads, FsSetInformation(t) PROVE NumOpsExact'
  BY <1>0, <1>8, NumOpsKept DEF FsSetInformation, ReturnTo, IrpShape, WithContext
<1>9. ASSUME NEW t \in Threads, FsSetInformationFails(t) PROVE NumOpsExact'
  BY <1>0, <1>9, NumOpsKept DEF FsSetInformationFails, ReturnTo, IrpShape, WithContext
<1>10. ASSUME NEW t \in Threads, WinIOPostSetInformation(t) PROVE NumOpsExact'
  BY <1>0, <1>10, NumOpsKept DEF WinIOPostSetInformation, IrpShape, WithContext
<1>11. ASSUME NEW t \in Threads, WinIOPostDecrement(t) PROVE NumOpsExact'
  <2> DEFINE k == ctx[t]
  <2>1. /\ pc[t] = "decrement" /\ op[t] \in Dispositions
        /\ numOps' = [numOps EXCEPT ![k] = numOps[k] - 1]
        /\ UNCHANGED <<refs, ctx, op>> /\ pc' = [pc EXCEPT ![t] = "release"]
    BY <1>0, <1>11 DEF WinIOPostDecrement, IrpShape
  <2>2. k \in Contexts
    BY <1>0, <2>1 DEF IrpShape, WithContext
  <2> SUFFICES ASSUME NEW c \in Contexts, refs[c] > 0
               PROVE  numOps'[c] = Cardinality(ChangesInFlight(c))'
    BY <2>1 DEF NumOpsExact
  <2>3. \A u \in Threads \ {t} : pc'[u] = pc[u] /\ op'[u] = op[u] /\ ctx'[u] = ctx[u]
    BY <1>0, <2>1
  <2>4. /\ Cardinality(ChangesInFlight(c)) \in Nat
        /\ Cardinality(ChangesInFlight(c))' = Cardinality(ChangesInFlight(c))
             + (IF InFlight(t, c)' THEN 1 ELSE 0) - (IF InFlight(t, c) THEN 1 ELSE 0)
    BY <2>3, ChangesInFlightStep
  <2>5. numOps[c] = Cardinality(ChangesInFlight(c)) /\ numOps[c] \in Nat
    BY <1>0 DEF NumOpsExact
  <2>6. InFlight(t, c) <=> c = k
    BY <2>1
  <2>7. InFlight(t, c)' <=> FALSE
    BY <1>0, <2>1
  <2>8. numOps'[c] = IF c = k THEN numOps[c] - 1 ELSE numOps[c]
    BY <1>0, <2>1, <2>2
  <2> HIDE DEF InFlight
  <2> QED
    BY <2>4, <2>5, <2>6, <2>7, <2>8
<1>12. ASSUME NEW t \in Threads, WinIOPreCleanup(t) PROVE NumOpsExact'
  <2>1. PICK h \in Handles : /\ handle[h] # "none" /\ pc[t] = "idle"
                             /\ CtxGetContext(t, target[h]) \/ Unseen(target[h])
    BY <1>12 DEF WinIOPreCleanup, Send
  <2>2. target[h] \in Streams
    BY <1>0, <2>1 DEF HandleShape
  <2>3. \A c \in Contexts : refs'[c] > 0 => refs[c] > 0
    BY <1>r, <2>1, <2>2 DEF CtxGetContext, Unseen
  <2>4. /\ UNCHANGED numOps
        /\ \A u \in Threads \ {t} : pc'[u] = pc[u] /\ op'[u] = op[u] /\ ctx'[u] = ctx[u]
        /\ pc'[t] \notin {"fsSet", "postSet", "decrement"}
    BY <1>0, <1>12, <2>1 DEF WinIOPreCleanup, Send, CtxGetContext, Unseen
  <2> QED
    BY <1>0, <2>1, <2>3, <2>4, NumOpsKept
<1>13. ASSUME NEW t \in Threads, FsCleanup(t) PROVE NumOpsExact'
  BY <1>0, <1>13, NumOpsKept DEF FsCleanup, ReturnTo, IrpShape, WithContext
<1>14. ASSUME NEW t \in Threads, WinIOPostCleanup_NumOps(t) PROVE NumOpsExact'
  BY <1>0, <1>14, NumOpsKept DEF WinIOPostCleanup_NumOps, IrpShape, WithContext
<1>15. ASSUME NEW t \in Threads, WinIOPostCleanup_Flags(t) PROVE NumOpsExact'
  BY <1>0, <1>15, NumOpsKept DEF WinIOPostCleanup_Flags, IrpShape, WithContext
<1>16. ASSUME NEW t \in Threads, WinIOPostCleanup_Notified(t) PROVE NumOpsExact'
  BY <1>0, <1>16, NumOpsKept DEF WinIOPostCleanup_Notified, IrpShape, WithContext
<1>17. ASSUME NEW t \in Threads, DfProcessDelete(t) PROVE NumOpsExact'
  BY <1>0, <1>17, NumOpsKept DEF DfProcessDelete, IrpShape, WithContext
<1>18. ASSUME NEW t \in Threads, DfNotifyDelete(t) PROVE NumOpsExact'
  BY <1>0, <1>18, NumOpsKept DEF DfNotifyDelete, IrpShape, WithContext
<1>19. ASSUME NEW t \in Threads, WinIOPreClose(t) PROVE NumOpsExact'
  <2>1. PICK h \in Handles : /\ handle[h] # "none" /\ pc[t] = "idle"
                             /\ CtxGetContext(t, target[h])
    BY <1>19 DEF WinIOPreClose, Send
  <2>2. target[h] \in Streams
    BY <1>0, <2>1 DEF HandleShape
  <2>3. \A c \in Contexts : refs'[c] > 0 => refs[c] > 0
    BY <1>r, <2>1, <2>2 DEF CtxGetContext, Unseen
  <2>4. /\ UNCHANGED numOps
        /\ \A u \in Threads \ {t} : pc'[u] = pc[u] /\ op'[u] = op[u] /\ ctx'[u] = ctx[u]
        /\ pc'[t] \notin {"fsSet", "postSet", "decrement"}
    BY <1>0, <1>19, <2>1 DEF WinIOPreClose, Send, CtxGetContext, Unseen
  <2> QED
    BY <1>0, <2>1, <2>3, <2>4, NumOpsKept
<1>20. ASSUME NEW t \in Threads, FsClose(t) PROVE NumOpsExact'
  BY <1>0, <1>20, NumOpsKept, SMTT(30) DEF FsClose, ReturnTo, IrpShape, WithContext
<1>21. ASSUME NEW t \in Threads, CtxGetOrSetContext_Get(t) PROVE NumOpsExact'
  <2>1. CASE attached[StreamOf(t)] # NoContext
    <3>1. \A c \in Contexts : refs'[c] > 0 => refs[c] > 0
      BY <1>0, <1>r, <1>s, <1>21, <2>1, SMTT(30) DEF CtxGetOrSetContext_Get, Swapped
    <3> QED
      BY <1>0, <1>21, <2>1, <3>1, NumOpsKept DEF CtxGetOrSetContext_Get
  <2>2. CASE attached[StreamOf(t)] = NoContext /\ ctx[t] = NoContext
    BY <1>0, <1>21, <2>2, NumOpsAllocated DEF CtxGetOrSetContext_Get, Unsettled
  <2>3. CASE attached[StreamOf(t)] = NoContext /\ ctx[t] # NoContext
    BY <1>0, <1>21, <2>3, NumOpsKept DEF CtxGetOrSetContext_Get
  <2> QED
    BY <2>1, <2>2, <2>3
<1>22. ASSUME NEW t \in Threads, CtxGetOrSetContext_Set(t) PROVE NumOpsExact'
  <2>1. \A c \in Contexts : refs'[c] > 0 => refs[c] > 0
    <3>1. StreamOf(t) \in Streams /\ ctx[t] \in Contexts
      BY <1>0, <1>s, <1>22 DEF CtxGetOrSetContext_Set, IrpShape, WithContext
    <3>2. CASE refs' = Swapped(t, attached[StreamOf(t)])
      BY <1>0, <1>r, <1>s, <3>1, <3>2 DEF Swapped
    <3>3. CASE refs' = [refs EXCEPT ![ctx[t]] = refs[ctx[t]] + 1]
      BY <1>0, <1>s, <3>1, <3>3
    <3> QED
      BY <1>22, <3>2, <3>3 DEF CtxGetOrSetContext_Set
  <2> QED
    BY <1>0, <1>22, <2>1, NumOpsKept DEF CtxGetOrSetContext_Set
<1>23. ASSUME NEW t \in Threads, CtxGetOrSetContext_Fail(t) PROVE NumOpsExact'
  <2>1. \A c \in Contexts : refs'[c] > 0 => refs[c] > 0
    BY <1>0, <1>23 DEF CtxGetOrSetContext_Fail
  <2> QED
    BY <1>0, <1>23, <2>1, NumOpsKept DEF CtxGetOrSetContext_Fail
<1>24. ASSUME NEW t \in Threads, CreateIrpContext_Retry(t) PROVE NumOpsExact'
  <2>1. \A c \in Contexts : refs'[c] > 0 => refs[c] > 0
    BY <1>0, <1>r, <1>s, <1>24 DEF CreateIrpContext_Retry, CtxGetContext
  <2> QED
    BY <1>0, <1>i, <1>24, <2>1, NumOpsKept DEF CreateIrpContext_Retry, CtxGetContext
<1>25. ASSUME NEW t \in Threads, CloseIrpContext(t) PROVE NumOpsExact'
  <2>1. \A c \in Contexts : refs'[c] > 0 => refs[c] > 0
    BY <1>0, <1>25 DEF CloseIrpContext, IrpShape, WithContext
  <2> QED
    BY <1>0, <1>25, <2>1, NumOpsKept DEF CloseIrpContext
<1>26. ASSUME NEW s \in Streams, TeardownStream(s) PROVE NumOpsExact'
  <2>1. \A c \in Contexts : refs'[c] > 0 => refs[c] > 0
    BY <1>0, <1>26 DEF TeardownStream
  <2>2. UNCHANGED numOps /\ \A c : UNCHANGED ChangesInFlight(c)
    BY <1>26 DEF TeardownStream, ChangesInFlight, Holders
  <2> QED
    BY <1>0, <2>1, <2>2 DEF NumOpsExact
<1> QED
  BY <1>1, <1>2, <1>3, <1>4, <1>5, <1>6, <1>7, <1>8, <1>9, <1>10, <1>11, <1>12, <1>13, <1>14, <1>15, <1>16, <1>17, <1>18, <1>19, <1>20, <1>21, <1>22, <1>23, <1>24, <1>25, <1>26
     DEF Next, Step, Create, SetInfo, Cleanup, Close, Context

-----------------------------------------------------------------------------
(* Deletions are reported once. *)

Reported == ReportedOnce /\ ReportsTracked

(* At first nothing has been reported. *)
LEMMA ReportedInit == Init => Reported
  BY DEF Init, Reported, ReportedOnce, ReportsTracked

(* t neither reports nor is about to.                                      *)
LEMMA ReportedKept ==
  ASSUME TypeOK, Reported, NEW t \in Threads,
         UNCHANGED <<file, target, attached, isNotified, reports>>,
         \A u \in Threads \ {t} : pc'[u] = pc[u] /\ hnd'[u] = hnd[u],
         pc'[t] # "notify"
  PROVE  Reported'
  BY DEF Reported, ReportedOnce, ReportsTracked

(* t allocates a context: it is not the one of a stream.                   *)
LEMMA ReportedAllocated ==
  ASSUME TypeOK, RefsExact, Reported, NEW t \in Threads, NEW c \in Contexts,
         CtxAllocateContext(t, c),
         UNCHANGED <<file, target, attached, reports>>,
         \A u \in Threads \ {t} : pc'[u] = pc[u] /\ hnd'[u] = hnd[u],
         pc'[t] # "notify"
  PROVE  Reported'
<1>1. \A s \in Streams : attached[s] # c
  BY InUseIsReferenced DEF CtxAllocateContext
<1>2. \A s \in Streams : attached[s] # NoContext
        => isNotified'[attached[s]] = isNotified[attached[s]]
  BY <1>1 DEF CtxAllocateContext, TypeOK
<1> QED
  BY <1>2 DEF Reported, ReportedOnce, ReportsTracked

(* Every step preserves that IsNotified tells whether the deletion has     *)
(* been reported, and that it is reported at most once.                    *)
LEMMA ReportedStep ==
  ASSUME Inv, Next
  PROVE  Reported'
<1> USE NoneApart DEF TypeOK
<1>0. /\ TypeOK /\ TypeOK' /\ HandleShape /\ IrpShape
      /\ RefsExact /\ OneContextPerStream /\ Reported
  BY TypeOKStep DEF Inv, Reported
<1>1. ASSUME NEW t \in Threads, WinIOPreCreate(t) PROVE Reported'
  <2>1. CASE \E c \in Contexts : CtxAllocateContext(t, c)
    BY <1>0, <1>1, <2>1, ReportedAllocated DEF WinIOPreCreate, Send
  <2>2. CASE UNCHANGED <<refs, fieldVars, ctx>>
    BY <1>0, <1>1, <2>2, ReportedKept DEF WinIOPreCreate, Send
  <2> QED
    BY <1>1, <2>1, <2>2 DEF WinIOPreCreate
<1>2. ASSUME NEW t \in Threads, FsCreate(t) PROVE Reported'
  <2>1. PICK s \in Streams :
          /\ \/ file[s] = "live" /\ file' = file
             \/ file[s] = "absent" /\ file' = [file EXCEPT ![s] = "live"]
          /\ target' = [target EXCEPT ![hnd[t]] = s]
    BY <1>2 DEF FsCreate
  <2>2. /\ hnd[t] \in Handles /\ \A u \in Threads \ {t} : hnd[u] # hnd[t]
        /\ \A u \in Threads : pc[u] = "notify" => hnd[u] \in Handles
    BY <1>0, <1>2 DEF FsCreate, IrpShape, HandleShape
  <2>3. /\ UNCHANGED <<attached, isNotified, reports>>
        /\ \A u \in Threads \ {t} : pc'[u] = pc[u] /\ hnd'[u] = hnd[u]
        /\ pc'[t] # "notify"
    BY <1>0, <1>2 DEF FsCreate, ReturnTo
  <2>4. \A r \in Streams : file[r] = "deleted" => file'[r] = "deleted"
    BY <1>0, <2>1
  <2>5. ~(reports[s] > 0)
    BY <1>0, <2>1 DEF Reported, ReportedOnce
  <2>6. ReportedOnce'
    BY <1>0, <2>3, <2>4 DEF Reported, ReportedOnce
  <2>7. \A u \in Threads : pc'[u] = "notify"
          => /\ pc[u] = "notify" /\ target'[hnd'[u]] = target[hnd[u]]
             /\ target[hnd[u]] \in Streams
    BY <1>0, <2>1, <2>2, <2>3, SMTT(30) DEF HandleShape
  <2>8. \A r \in Streams : reports[r] > 0 /\ attached[r] = NoContext
          => \A h \in Handles : target'[h] # r
    BY <1>0, <2>1, <2>2, <2>5 DEF Reported, ReportsTracked
  <2> QED
    BY <1>0, <2>3, <2>4, <2>6, <2>7, <2>8 DEF Reported, ReportsTracked
<1>3. ASSUME NEW t \in Threads, FsCreateFails(t) PROVE Reported'
  BY <1>0, <1>3, ReportedKept DEF FsCreateFails, ReturnTo
<1>4. ASSUME NEW t \in Threads, WinIOPostCreate(t) PROVE Reported'
  BY <1>0, <1>4, ReportedKept DEF WinIOPostCreate
<1>5. ASSUME NEW t \in Threads, WinIOPreSetInformation(t) PROVE Reported'
  BY <1>0, <1>5, ReportedKept DEF WinIOPreSetInformation, Send, Unseen
<1>6. ASSUME NEW t \in Threads, WinIOPreDisposition(t) PROVE Reported'
  BY <1>0, <1>6, ReportedKept DEF WinIOPreDisposition
<1>7. ASSUME NEW t \in Threads, WinIOPreRename(t) PROVE Reported'
  BY <1>0, <1>7, ReportedKept DEF WinIOPreRename
<1>8. ASSUME NEW t \in Threads, FsSetInformation(t) PROVE Reported'
  BY <1>0, <1>8, ReportedKept DEF FsSetInformation, ReturnTo
<1>9. ASSUME NEW t \in Threads, FsSetInformationFails(t) PROVE Reported'
  BY <1>0, <1>9, ReportedKept DEF FsSetInformationFails, ReturnTo
<1>10. ASSUME NEW t \in Threads, WinIOPostSetInformation(t) PROVE Reported'
  BY <1>0, <1>10, ReportedKept DEF WinIOPostSetInformation
<1>11. ASSUME NEW t \in Threads, WinIOPostDecrement(t) PROVE Reported'
  BY <1>0, <1>11, ReportedKept DEF WinIOPostDecrement
<1>12. ASSUME NEW t \in Threads, WinIOPreCleanup(t) PROVE Reported'
  BY <1>0, <1>12, ReportedKept DEF WinIOPreCleanup, Send, CtxGetContext, Unseen
<1>13. ASSUME NEW t \in Threads, FsCleanup(t) PROVE Reported'
  <2>1. /\ UNCHANGED <<target, attached, isNotified, reports>>
        /\ \A u \in Threads \ {t} : pc'[u] = pc[u] /\ hnd'[u] = hnd[u]
        /\ pc'[t] # "notify"
        /\ file' = file \/ file' = [file EXCEPT ![StreamOf(t)] = "deleted"]
    BY <1>0, <1>13 DEF FsCleanup, ReturnTo
  <2>2. \A r \in Streams : file[r] = "deleted" => file'[r] = "deleted"
    BY <1>0, <2>1
  <2>3. \A u \in Threads : pc[u] = "notify" => StreamOf(u) \in Streams
    BY <1>0, SMTT(30) DEF HandleShape, IrpShape
  <2> QED
    BY <1>0, <2>1, <2>2, <2>3 DEF Reported, ReportedOnce, ReportsTracked
<1>14. ASSUME NEW t \in Threads, WinIOPostCleanup_NumOps(t) PROVE Reported'
  BY <1>0, <1>14, ReportedKept DEF WinIOPostCleanup_NumOps
<1>15. ASSUME NEW t \in Threads, WinIOPostCleanup_Flags(t) PROVE Reported'
  BY <1>0, <1>15, ReportedKept DEF WinIOPostCleanup_Flags
<1>16. ASSUME NEW t \in Threads, WinIOPostCleanup_Notified(t) PROVE Reported'
  BY <1>0, <1>16, ReportedKept DEF WinIOPostCleanup_Notified
<1>17. ASSUME NEW t \in Threads, DfProcessDelete(t) PROVE Reported'
  <2>1. /\ UNCHANGED <<file, target, attached, isNotified, reports, hnd>>
        /\ \A u \in Threads \ {t} : pc'[u] = pc[u]
        /\ pc'[t] = "notify" => file[StreamOf(t)] = "deleted"
    BY <1>0, <1>17 DEF DfProcessDelete
  <2> QED
    BY <1>0, <2>1 DEF Reported, ReportedOnce, ReportsTracked
<1>18. ASSUME NEW t \in Threads, DfNotifyDelete(t) PROVE Reported'
  <2> DEFINE c == ctx[t]
             s == StreamOf(t)
  <2>1. /\ c \in Contexts /\ s \in Streams /\ attached[s] = c
        /\ file[s] = "deleted"
    BY <1>0, <1>18 DEF DfNotifyDelete, IrpShape, HandleShape, WithContext,
                     OneContextPerStream, Reported, ReportsTracked
  <2>2. /\ isNotified' = [isNotified EXCEPT ![c] = isNotified[c] + 1]
        /\ reports' = IF isNotified'[c] > 1 THEN reports
                      ELSE [reports EXCEPT ![s] = reports[s] + 1]
        /\ UNCHANGED <<file, target, attached, hnd>>
        /\ pc' = [pc EXCEPT ![t] = "release"]
    BY <1>18 DEF DfNotifyDelete
  <2>3. isNotified'[c] > 0 /\ \A d \in Contexts : isNotified'[d] >= isNotified[d]
    BY <1>0, <2>1, <2>2
  <2>4. CASE isNotified'[c] > 1
    BY <1>0, <2>1, <2>2, <2>3, <2>4 DEF Reported, ReportedOnce, ReportsTracked
  <2>5. CASE ~(isNotified'[c] > 1)
    <3>1. reports[s] = 0
      BY <1>0, <2>1, <2>2, <2>5, SMTT(30) DEF Reported, ReportsTracked
    <3>2. reports' = [reports EXCEPT ![s] = 1]
      BY <2>2, <2>5, <3>1
    <3> QED
      BY <1>0, <2>1, <2>2, <2>3, <3>2 DEF Reported, ReportedOnce, ReportsTracked
  <2> QED
    BY <2>4, <2>5
<1>19. ASSUME NEW t \in Threads, WinIOPreClose(t) PROVE Reported'
  BY <1>0, <1>19, ReportedKept DEF WinIOPreClose, Send, CtxGetContext
<1>20. ASSUME NEW t \in Threads, FsClose(t) PROVE Reported'
  <2>1. /\ hnd[t] \in Handles /\ \A u \in Threads \ {t} : hnd[u] # hnd[t]
        /\ \A u \in Threads : pc[u] = "notify" => hnd[u] \in Handles
        /\ target' = [target EXCEPT ![hnd[t]] = NoStream]
    BY <1>0, <1>20 DEF FsClose, IrpShape, HandleShape
  <2>2. /\ UNCHANGED <<file, attached, isNotified, reports>>
        /\ \A u \in Threads \ {t} : pc'[u] = pc[u] /\ hnd'[u] = hnd[u]
        /\ pc'[t] # "notify"
    BY <1>0, <1>20 DEF FsClose, ReturnTo
  <2>3. \A u \in Threads : pc'[u] = "notify"
          => pc[u] = "notify" /\ target'[hnd'[u]] = target[hnd[u]]
    BY <1>0, <2>1, <2>2
  <2> QED
    BY <1>0, <2>1, <2>2, <2>3 DEF Reported, ReportedOnce, ReportsTracked
<1>21. ASSUME NEW t \in Threads, CtxGetOrSetContext_Get(t) PROVE Reported'
  <2>1. CASE UNCHANGED fieldVars
    BY <1>0, <1>21, <2>1, ReportedKept DEF CtxGetOrSetContext_Get
  <2>2. CASE \E c \in Contexts : CtxAllocateContext(t, c)
    BY <1>0, <1>21, <2>2, ReportedAllocated DEF CtxGetOrSetContext_Get
  <2> QED
    BY <1>21, <2>1, <2>2 DEF CtxGetOrSetContext_Get
<1>22. ASSUME NEW t \in Threads, CtxGetOrSetContext_Set(t) PROVE Reported'
  <2>1. CASE attached[StreamOf(t)] # NoContext
    BY <1>0, <1>22, <2>1, ReportedKept DEF CtxGetOrSetContext_Set
  <2>2. CASE attached[StreamOf(t)] = NoContext
    <3> DEFINE s == StreamOf(t)
    <3>1. /\ s \in Streams /\ hnd[t] \in Handles
          /\ attached' = [attached EXCEPT ![s] = ctx[t]]
          /\ UNCHANGED <<file, target, hnd, isNotified, reports>>
          /\ pc' = [pc EXCEPT ![t] = "contextReady"]
      BY <1>0, <1>22, <2>2 DEF CtxGetOrSetContext_Set, IrpShape, HandleShape
    <3>2. ~(reports[s] > 0)
      BY <1>0, <2>2, <3>1 DEF Reported, ReportsTracked
    <3> QED
      BY <1>0, <3>1, <3>2 DEF Reported, ReportedOnce, ReportsTracked
  <2> QED
    BY <2>1, <2>2
<1>23. ASSUME NEW t \in Threads, CtxGetOrSetContext_Fail(t) PROVE Reported'
  BY <1>0, <1>23, ReportedKept DEF CtxGetOrSetContext_Fail
<1>24. ASSUME NEW t \in Threads, CreateIrpContext_Retry(t) PROVE Reported'
  BY <1>0, <1>24, ReportedKept DEF CreateIrpContext_Retry, CtxGetContext
<1>25. ASSUME NEW t \in Threads, CloseIrpContext(t) PROVE Reported'
  BY <1>0, <1>25, ReportedKept DEF CloseIrpContext
<1>26. ASSUME NEW s \in Streams, TeardownStream(s) PROVE Reported'
  BY <1>0, <1>26 DEF TeardownStream, Reported, ReportedOnce, ReportsTracked
<1> QED
  BY <1>1, <1>2, <1>3, <1>4, <1>5, <1>6, <1>7, <1>8, <1>9, <1>10, <1>11, <1>12, <1>13, <1>14, <1>15, <1>16, <1>17, <1>18, <1>19, <1>20, <1>21, <1>22, <1>23, <1>24, <1>25, <1>26
     DEF Next, Step, Create, SetInfo, Cleanup, Close, Context

-----------------------------------------------------------------------------
(* Nothing that happened to a stream is forgotten. *)

(* Reasons are added to a stream, never taken away. *)
LEMMA WatchedBefore ==
  ASSUME TypeOK, NEW s \in Streams,
         \/ UNCHANGED why
         \/ \E r, x : why' = [why EXCEPT ![x] = @ \cup {r}],
         Watched(s)'
  PROVE  Watched(s)
  BY DEF TypeOK, Watched

(* A stream that has been blamed is not watched. *)
LEMMA BlamedSince ==
  ASSUME TypeOK, NEW s \in Streams, NEW r, why' = [why EXCEPT ![s] = @ \cup {r}]
  PROVE  why'[s] # {}
  BY DEF TypeOK

(* The create of t is back from the file system, on its way to recording.  *)
Creates(t) == /\ op[t] = "create"
              /\ pc[t] \in {"getContext", "setContext", "contextReady"}

(* A step of t that changes no stream, no file object's stream and no flag *)
(* of a context in use; a create in flight goes on, or its stream is no    *)
(* longer watched.                                                         *)
Passing(t) ==
  /\ UNCHANGED <<file, pending, target, docHandle, attached, reports>>
  /\ \A s \in Streams :
       attached[s] # NoContext
       => /\ setDisp'[attached[s]] = setDisp[attached[s]]
          /\ deleteOnClose'[attached[s]] = deleteOnClose[attached[s]]
          /\ isNotified'[attached[s]] = isNotified[attached[s]]
  /\ \A s \in Streams : Watched(s)' => Watched(s)
  /\ \A u \in Threads \ {t} : /\ pc'[u] = pc[u] /\ op'[u] = op[u] /\ hnd'[u] = hnd[u]
                              /\ flag'[u] = flag[u] /\ ctx'[u] = ctx[u]
  /\ pc[t] # "postSet" /\ pc'[t] # "postSet"
  /\ Creates(t)
     => \/ why'[StreamOf(t)] # {}
        \/ /\ Creates(t)' /\ hnd'[t] = hnd[t] /\ flag'[t] = flag[t]
           /\ pc'[t] = "contextReady" => attached[StreamOf(t)] # NoContext

(* Allocating a context disturbs no context that is set on a stream.       *)
LEMMA FieldsAllocated ==
  ASSUME TypeOK, RefsExact, NEW t \in Threads, NEW c \in Contexts, CtxAllocateContext(t, c),
         NEW s \in Streams, attached[s] # NoContext
  PROVE  /\ setDisp'[attached[s]] = setDisp[attached[s]]
         /\ deleteOnClose'[attached[s]] = deleteOnClose[attached[s]]
         /\ isNotified'[attached[s]] = isNotified[attached[s]]
<1>1. attached[s] # c /\ attached[s] \in Contexts
  BY InUseIsReferenced DEF CtxAllocateContext, TypeOK
<1> QED
  BY <1>1 DEF CtxAllocateContext, TypeOK

(* All steps but those named in StepKinds pass in that sense.              *)
LEMMA PassingStep ==
  ASSUME Inv, NEW t \in Threads,
         \/ WinIOPreCreate(t) \/ FsCreateFails(t) \/ WinIOPreSetInformation(t)
         \/ WinIOPreDisposition(t) \/ WinIOPreRename(t) \/ FsSetInformationFails(t)
         \/ WinIOPostDecrement(t) \/ WinIOPreCleanup(t) \/ WinIOPostCleanup_NumOps(t)
         \/ WinIOPostCleanup_Flags(t) \/ WinIOPostCleanup_Notified(t)
         \/ DfProcessDelete(t) \/ WinIOPreClose(t) \/ CtxGetOrSetContext_Get(t)
         \/ CtxGetOrSetContext_Set(t) /\ UNCHANGED attached
         \/ CtxGetOrSetContext_Fail(t) \/ CreateIrpContext_Retry(t)
         \/ CloseIrpContext(t)
  PROVE  Passing(t)
<1> USE NoneApart DEF TypeOK, Creates, Passing
<1>0. /\ TypeOK /\ IrpShape /\ HandleShape /\ RefsExact
  BY DEF Inv
<1>1. CASE WinIOPreCreate(t)
  <2>1. \A s \in Streams : Watched(s)' => Watched(s)
    BY <1>1 DEF WinIOPreCreate, Watched
  <2>2. CASE \E c \in Contexts : CtxAllocateContext(t, c)
    <3>1. PICK c \in Contexts : CtxAllocateContext(t, c)
      BY <2>2
    <3>2. ctx' = [ctx EXCEPT ![t] = c]
      BY <3>1 DEF CtxAllocateContext
    <3>3. \A s \in Streams :
            attached[s] # NoContext
            => /\ setDisp'[attached[s]] = setDisp[attached[s]]
               /\ deleteOnClose'[attached[s]] = deleteOnClose[attached[s]]
               /\ isNotified'[attached[s]] = isNotified[attached[s]]
      BY <1>0, <3>1, FieldsAllocated
    <3> QED
      BY <1>0, <1>1, <2>1, <3>2, <3>3 DEF WinIOPreCreate, Send
  <2>3. CASE UNCHANGED <<refs, fieldVars, ctx>>
    BY <1>0, <1>1, <2>1, <2>3 DEF WinIOPreCreate, Send
  <2> QED
    BY <1>1, <2>2, <2>3 DEF WinIOPreCreate
<1>2. CASE FsCreateFails(t)
  BY <1>0, <1>2 DEF FsCreateFails, ReturnTo, Watched
<1>3. CASE WinIOPreSetInformation(t)
  <2>1. \A s \in Streams : Watched(s)' => Watched(s)
    BY <1>0, <1>3, WatchedBefore DEF WinIOPreSetInformation, Unseen
  <2> QED
    BY <1>0, <1>3, <2>1 DEF WinIOPreSetInformation, Send, Unseen
<1>4. CASE WinIOPreDisposition(t)
  BY <1>0, <1>4, WatchedBefore DEF WinIOPreDisposition, Dispositions
<1>5. CASE WinIOPreRename(t)
  BY <1>0, <1>5, WatchedBefore DEF WinIOPreRename
<1>6. CASE FsSetInformationFails(t)
  BY <1>0, <1>6, WatchedBefore DEF FsSetInformationFails, ReturnTo
<1>7. CASE WinIOPostDecrement(t)
  BY <1>0, <1>7, WatchedBefore DEF WinIOPostDecrement
<1>8. CASE WinIOPreCleanup(t)
  <2>1. \A s \in Streams : Watched(s)' => Watched(s)
    BY <1>0, <1>8, WatchedBefore DEF WinIOPreCleanup, Unseen
  <2> QED
    BY <1>0, <1>8, <2>1 DEF WinIOPreCleanup, Send, Unseen, CtxGetContext
<1>9. CASE WinIOPostCleanup_NumOps(t)
  BY <1>0, <1>9, WatchedBefore DEF WinIOPostCleanup_NumOps
<1>10. CASE WinIOPostCleanup_Flags(t)
  BY <1>0, <1>10, WatchedBefore DEF WinIOPostCleanup_Flags
<1>11. CASE WinIOPostCleanup_Notified(t)
  BY <1>0, <1>11, WatchedBefore DEF WinIOPostCleanup_Notified
<1>12. CASE DfProcessDelete(t)
  BY <1>0, <1>12, WatchedBefore DEF DfProcessDelete
<1>13. CASE WinIOPreClose(t)
  BY <1>0, <1>13, WatchedBefore DEF WinIOPreClose, Send, CtxGetContext
<1>14. CASE CtxGetOrSetContext_Get(t)
  <2>1. /\ UNCHANGED <<file, pending, target, docHandle, attached, reports, op, hnd, flag, why>>
        /\ pc[t] = "getContext"
        /\ \/ pc' = [pc EXCEPT ![t] = "setContext"]
           \/ pc' = [pc EXCEPT ![t] = "contextReady"] /\ attached[StreamOf(t)] # NoContext
    BY <1>14 DEF CtxGetOrSetContext_Get
  <2>2. \A u \in Threads \ {t} : ctx'[u] = ctx[u]
    BY <1>0, <1>14 DEF CtxGetOrSetContext_Get, CtxAllocateContext
  <2>3. UNCHANGED fieldVars \/ \E c \in Contexts : CtxAllocateContext(t, c)
    BY <1>14 DEF CtxGetOrSetContext_Get
  <2>4. \A s \in Streams :
          attached[s] # NoContext
          => /\ setDisp'[attached[s]] = setDisp[attached[s]]
             /\ deleteOnClose'[attached[s]] = deleteOnClose[attached[s]]
             /\ isNotified'[attached[s]] = isNotified[attached[s]]
    BY <1>0, <2>3, FieldsAllocated
  <2> QED
    BY <1>0, <2>1, <2>2, <2>4, WatchedBefore
<1>15. CASE CtxGetOrSetContext_Set(t) /\ UNCHANGED attached
  BY <1>0, <1>15, WatchedBefore DEF CtxGetOrSetContext_Set, IrpShape, WithContext, HandleShape
<1>16. CASE CtxGetOrSetContext_Fail(t)
  <2>1. \A s \in Streams : Watched(s)' => Watched(s)
    BY <1>0, <1>16, WatchedBefore DEF CtxGetOrSetContext_Fail
  <2>2. Creates(t) => why'[StreamOf(t)] # {}
    <3>1. StreamOf(t) \in Streams
      BY <1>0, <1>16 DEF CtxGetOrSetContext_Fail, HandleShape, IrpShape
    <3>2. op[t] = "create" => why' = [why EXCEPT ![StreamOf(t)] = @ \cup {"blind"}]
      BY <1>16 DEF CtxGetOrSetContext_Fail
    <3>3. op[t] = "create" => why'[StreamOf(t)] = why[StreamOf(t)] \cup {"blind"}
      BY <1>0, <3>1, <3>2
    <3> QED
      BY <3>3
  <2> QED
    BY <1>0, <1>16, <2>1, <2>2 DEF CtxGetOrSetContext_Fail
<1>17. CASE CreateIrpContext_Retry(t)
  BY <1>0, <1>17, WatchedBefore DEF CreateIrpContext_Retry, CtxGetContext
<1>18. CASE CloseIrpContext(t)
  BY <1>0, <1>18, WatchedBefore DEF CloseIrpContext
<1> QED
  BY <1>1, <1>2, <1>3, <1>4, <1>5, <1>6, <1>7, <1>8, <1>9, <1>10, <1>11, <1>12,
     <1>13, <1>14, <1>15, <1>16, <1>17, <1>18

(* Where an IRP is says what it works on. *)
LEMMA Placed ==
  ASSUME Inv
  PROVE  /\ \A t \in Threads :
              /\ pc[t] # "idle" <=> hnd[t] \in Handles
              /\ pc[t] # "idle" <=> hnd[t] # NoHandle
              /\ pc[t] \notin {"idle", "fsCreate", "release"} => StreamOf(t) \in Streams
              /\ pc[t] \in WithContext => ctx[t] \in Contexts
              /\ pc[t] \in (WithContext \ {"setContext", "release"})
                 => attached[StreamOf(t)] = ctx[t]
         /\ \A h \in Handles : /\ handle[h] \in {"open", "closing"}
                                  => target[h] \in Streams /\ file[target[h]] = "live"
                               /\ target[h] # NoStream => target[h] \in Streams
<1>0. TypeOK /\ IrpShape /\ HandleShape /\ OneContextPerStream
  BY DEF Inv
<1>1. ASSUME NEW t \in Threads
      PROVE  /\ pc[t] # "idle" <=> hnd[t] \in Handles
             /\ pc[t] # "idle" <=> hnd[t] # NoHandle
             /\ pc[t] \in WithContext => ctx[t] \in Contexts
  BY <1>0, NoneApart DEF TypeOK, IrpShape, WithContext
<1>2. ASSUME NEW t \in Threads, pc[t] \notin {"idle", "fsCreate", "release"}
      PROVE  StreamOf(t) \in Streams
  BY <1>0, <1>1, <1>2 DEF TypeOK, HandleShape
<1>3. ASSUME NEW t \in Threads, pc[t] \in (WithContext \ {"setContext", "release"})
      PROVE  attached[StreamOf(t)] = ctx[t]
  BY <1>0, <1>3 DEF IrpShape, OneContextPerStream, WithContext
<1>4. ASSUME NEW h \in Handles
      PROVE  /\ handle[h] \in {"open", "closing"}
                  => target[h] \in Streams /\ file[target[h]] = "live"
             /\ target[h] # NoStream => target[h] \in Streams
  BY <1>0 DEF TypeOK, HandleShape
<1> QED
  BY <1>1, <1>2, <1>3, <1>4

(* What the threads other than t are sending does not change. *)
OthersKept(t) ==
  \A u \in Threads \ {t} : /\ pc'[u] = pc[u] /\ op'[u] = op[u] /\ hnd'[u] = hnd[u]
                           /\ flag'[u] = flag[u] /\ ctx'[u] = ctx[u]

(* t alone works on its file object. *)
Alone(t) == hnd[t] \in Handles /\ \A u \in Threads \ {t} : hnd[u] # hnd[t]

(* FsCreate opens stream s, unmarked, on the file object of t; the create  *)
(* goes on to its post-operation callback unless s is no longer watched.   *)
Opens(t, s) ==
  /\ file[s] # "deleted" /\ ~pending[s]
  /\ file' = file \/ file' = [file EXCEPT ![s] = "live"]
  /\ target' = [target EXCEPT ![hnd[t]] = s]
  /\ docHandle' = [docHandle EXCEPT ![hnd[t]] = flag[t]]
  /\ \/ Creates(t)' /\ pc'[t] = "getContext" /\ hnd'[t] = hnd[t] /\ flag'[t] = flag[t]
     \/ why'[s] # {} /\ pc'[t] = "idle"
  /\ UNCHANGED <<pending, attached, fieldVars, ctx, reports>>
  /\ OthersKept(t) /\ Alone(t)
  /\ pc[t] = "fsCreate"
  /\ \A r \in Streams : Watched(r)' => Watched(r)

(* FsCreate does that.                                                     *)
LEMMA FsCreateOpens ==
  ASSUME Inv, NEW t \in Threads, FsCreate(t)
  PROVE  \E s \in Streams : Opens(t, s)
<1>0. TypeOK /\ IrpShape /\ HandleShape /\ MarkedLife
  BY DEF Inv
<1>1. PICK s \in Streams :
        /\ \/ file[s] = "live" /\ ~pending[s] /\ UNCHANGED file
           \/ /\ \A r \in Streams : file[r] # "live"
              /\ file[s] = "absent"
              /\ file' = [file EXCEPT ![s] = "live"]
        /\ handle' = [handle EXCEPT ![hnd[t]] = "open"]
        /\ target' = [target EXCEPT ![hnd[t]] = s]
        /\ docHandle' = [docHandle EXCEPT ![hnd[t]] = flag[t]]
        /\ IF ctx[t] = NoContext THEN Blame(s, "blind") ELSE UNCHANGED why
  BY DEF FsCreate
<1>2. /\ pc[t] = "fsCreate" /\ ReturnTo(t, "getContext")
      /\ UNCHANGED <<pending, mgrVars, fieldVars, ctx, failures, leaked, reports>>
  BY DEF FsCreate
<1>3. ~pending[s] /\ file[s] # "deleted"
  BY <1>0, <1>1 DEF MarkedLife
<1>4. \A r \in Streams : Watched(r)' => Watched(r)
  BY <1>0, <1>1, WatchedBefore
<1>5. OthersKept(t)
  BY <1>0, <1>2 DEF OthersKept, ReturnTo, TypeOK
<1>6. Alone(t) /\ op[t] = "create"
  BY <1>0, <1>2, Placed DEF Alone, HandleShape, IrpShape
<1>7. CASE ctx[t] = NoContext
  <2>1. why'[s] = why[s] \cup {"blind"}
    BY <1>0, <1>1, <1>7 DEF TypeOK
  <2>2. pc'[t] = "idle"
    BY <1>0, <1>2, <1>7 DEF ReturnTo, TypeOK
  <2> QED
    BY <1>1, <1>2, <1>3, <1>4, <1>5, <1>6, <2>1, <2>2 DEF Opens
<1>8. CASE ctx[t] # NoContext
  <2>1. Creates(t)' /\ pc'[t] = "getContext" /\ hnd'[t] = hnd[t] /\ flag'[t] = flag[t]
    BY <1>0, <1>2, <1>6, <1>8 DEF ReturnTo, TypeOK, Creates
  <2> QED
    BY <1>1, <1>2, <1>3, <1>4, <1>5, <1>6, <2>1 DEF Opens
<1> QED
  BY <1>7, <1>8

(* FsClose takes the file object of t off its stream. *)
Closes(t) ==
  /\ target' = [target EXCEPT ![hnd[t]] = NoStream]
  /\ docHandle' = [docHandle EXCEPT ![hnd[t]] = FALSE]
  /\ UNCHANGED <<file, pending, attached, fieldVars, ctx, reports, why>>
  /\ OthersKept(t) /\ Alone(t)
  /\ pc[t] = "fsClose" /\ pc'[t] \in {"idle", "release"}

(* FsClose does that.                                                      *)
LEMMA FsCloseCloses ==
  ASSUME Inv, NEW t \in Threads, FsClose(t)
  PROVE  Closes(t)
<1>0. TypeOK /\ IrpShape /\ HandleShape
  BY DEF Inv
<1>1. OthersKept(t) /\ pc'[t] \in {"idle", "release"}
  BY <1>0 DEF OthersKept, FsClose, ReturnTo, TypeOK
<1>2. Alone(t)
  BY <1>0, Placed DEF Alone, FsClose, HandleShape
<1> QED
  BY <1>1, <1>2 DEF Closes, FsClose

(* The first context of a stream is set: it was t's alone. *)
Attaches(t) ==
  /\ pc[t] = "setContext" /\ pc' = [pc EXCEPT ![t] = "contextReady"]
  /\ StreamOf(t) \in Streams /\ attached[StreamOf(t)] = NoContext
  /\ attached' = [attached EXCEPT ![StreamOf(t)] = ctx[t]]
  /\ ctx[t] \in Contexts /\ \A u \in Threads \ {t} : ctx[u] # ctx[t]
  /\ UNCHANGED <<fsVars, fieldVars, op, hnd, flag, ctx, reports, why>>

(* CtxGetOrSetContext sets the context, or finds another one on the stream. *)
LEMMA SetAttaches ==
  ASSUME Inv, NEW t \in Threads, CtxGetOrSetContext_Set(t)
  PROVE  Attaches(t) \/ UNCHANGED attached
<1>0. TypeOK /\ IrpShape /\ HandleShape /\ PrivateContext
  BY DEF Inv
<1>1. CASE attached[StreamOf(t)] = NoContext
  <2>1. pc[t] = "setContext" /\ ctx[t] \in Contexts /\ StreamOf(t) \in Streams
    BY Placed DEF CtxGetOrSetContext_Set, WithContext
  <2>2. \A u \in Threads \ {t} : ctx[u] # ctx[t]
    BY <1>0, <2>1, NoneApart DEF PrivateContext, Unsettled
  <2> QED
    BY <1>1, <2>1, <2>2 DEF CtxGetOrSetContext_Set, Attaches
<1>2. CASE attached[StreamOf(t)] # NoContext
  BY <1>2 DEF CtxGetOrSetContext_Set
<1> QED
  BY <1>1, <1>2

(* The steps, as the following lemmas tell them apart. *)
LEMMA StepKinds ==
  ASSUME Inv, Next
  PROVE  \/ \E t \in Threads :
              \/ Passing(t) \/ Closes(t) \/ Attaches(t)
              \/ \E s \in Streams : Opens(t, s)
              \/ WinIOPostCreate(t) \/ FsSetInformation(t)
              \/ WinIOPostSetInformation(t) \/ FsCleanup(t) \/ DfNotifyDelete(t)
         \/ \E s \in Streams : TeardownStream(s)
  BY PassingStep, FsCreateOpens, FsCloseCloses, SetAttaches
     DEF Next, Step, Create, SetInfo, Cleanup, Close, Context

-----------------------------------------------------------------------------
(* Marks and file objects. *)

(* Only marked streams are deleted, and a stream is marked when it exists. *)
LEMMA MarkedLifeStep ==
  ASSUME Inv, Next
  PROVE  MarkedLife'
<1> USE DEF TypeOK, MarkedLife
<1>0. TypeOK /\ MarkedLife /\ HandleShape /\ IrpShape
  BY DEF Inv
<1>1. ASSUME NEW t \in Threads, NEW s \in Streams, Opens(t, s) PROVE MarkedLife'
  BY <1>0, <1>1 DEF Opens
<1>2. ASSUME NEW t \in Threads, FsSetInformation(t) PROVE MarkedLife'
  <2>1. StreamOf(t) \in Streams /\ file[StreamOf(t)] = "live"
    BY <1>2, Placed DEF FsSetInformation
  <2> QED
    BY <1>0, <1>2, <2>1 DEF FsSetInformation
<1>3. ASSUME NEW t \in Threads, FsCleanup(t) PROVE MarkedLife'
  <2>1. StreamOf(t) \in Streams /\ file[StreamOf(t)] = "live"
    BY <1>0, <1>3, Placed DEF FsCleanup, HandleShape
  <2> QED
    BY <1>0, <1>3, <2>1 DEF FsCleanup
<1>4. ASSUME UNCHANGED <<file, pending>> PROVE MarkedLife'
  BY <1>0, <1>4
<1> QED
  BY <1>1, <1>2, <1>3, <1>4, StepKinds
     DEF Passing, Closes, Attaches, WinIOPostCreate, WinIOPostSetInformation,
         DfNotifyDelete, TeardownStream

(* A file object in creation is in no other IRP.                           *)
LEMMA CreatorAloneStep ==
  ASSUME Inv, Next
  PROVE  CreatorAlone'
<1> USE NoneApart DEF TypeOK, CreatorAlone
<1>0. TypeOK /\ CreatorAlone
  BY DEF Inv
<1>1. ASSUME NEW t \in Threads,
             \A u \in Threads \ {t} : op'[u] = op[u] /\ hnd'[u] = hnd[u],
             \/ op'[t] = op[t] /\ hnd'[t] = hnd[t]
             \/ op'[t] = "none" /\ hnd'[t] = NoHandle
             \/ /\ hnd'[t] \in Handles /\ ~BeingCreated(hnd'[t])
                /\ op'[t] = "create" => ~InUse(hnd'[t])
      PROVE  CreatorAlone'
  BY <1>0, <1>1 DEF BeingCreated, InUse
<1>2. ASSUME NEW t \in Threads, WinIOPreCreate(t) PROVE CreatorAlone'
  <2>1. PICK h \in Handles, doc \in DocOptions : ~InUse(h) /\ Send(t, "create", h, doc)
    BY <1>2 DEF WinIOPreCreate
  <2>2. ~BeingCreated(h)
    BY <2>1 DEF InUse, BeingCreated
  <2> QED
    BY <1>0, <1>1, <2>1, <2>2 DEF Send
<1>3. ASSUME NEW t \in Threads, WinIOPreSetInformation(t) PROVE CreatorAlone'
  <2>1. PICK h \in Handles, class \in Classes, f \in BOOLEAN :
               ~BeingCreated(h) /\ Send(t, class, h, f)
    BY <1>3 DEF WinIOPreSetInformation
  <2> QED
    BY <1>0, <1>1, <2>1, ClassesKnown DEF Send
<1>4. ASSUME NEW t \in Threads, WinIOPreCleanup(t) PROVE CreatorAlone'
  <2>1. PICK h \in Handles : ~BeingCreated(h) /\ Send(t, "cleanup", h, FALSE)
    BY <1>4 DEF WinIOPreCleanup
  <2> QED
    BY <1>0, <1>1, <2>1 DEF Send
<1>5. ASSUME NEW t \in Threads, WinIOPreClose(t) PROVE CreatorAlone'
  <2>1. PICK h \in Handles : ~InUse(h) /\ Send(t, "close", h, FALSE)
    BY <1>5 DEF WinIOPreClose
  <2>2. ~BeingCreated(h)
    BY <2>1 DEF InUse, BeingCreated
  <2> QED
    BY <1>0, <1>1, <2>1, <2>2 DEF Send
<1>6. ASSUME NEW t \in Threads,
             (UNCHANGED <<op, hnd>>) \/ Complete(t)
      PROVE  CreatorAlone'
  BY <1>0, <1>1, <1>6
<1>7. ASSUME NEW s \in Streams, TeardownStream(s) PROVE CreatorAlone'
  BY <1>0, <1>7 DEF TeardownStream
<1>8. ASSUME NEW t \in Threads, Step(t)
      PROVE  \/ WinIOPreCreate(t) \/ WinIOPreSetInformation(t)
             \/ WinIOPreCleanup(t) \/ WinIOPreClose(t)
             \/ (UNCHANGED <<op, hnd>>) \/ Complete(t)
  <2>1. ASSUME Create(t), ~WinIOPreCreate(t) PROVE (UNCHANGED <<op, hnd>>) \/ Complete(t)
    BY <2>1 DEF Create, FsCreate, FsCreateFails, WinIOPostCreate, ReturnTo
  <2>2. ASSUME SetInfo(t), ~WinIOPreSetInformation(t)
        PROVE  (UNCHANGED <<op, hnd>>) \/ Complete(t)
    BY <2>2 DEF SetInfo, WinIOPreDisposition, WinIOPreRename, FsSetInformation,
                FsSetInformationFails, WinIOPostSetInformation, WinIOPostDecrement, ReturnTo
  <2>3. ASSUME Cleanup(t), ~WinIOPreCleanup(t)
        PROVE  (UNCHANGED <<op, hnd>>) \/ Complete(t)
    BY <2>3 DEF Cleanup, FsCleanup, WinIOPostCleanup_NumOps, WinIOPostCleanup_Flags,
                WinIOPostCleanup_Notified, DfProcessDelete, DfNotifyDelete, ReturnTo
  <2>4. ASSUME Close(t), ~WinIOPreClose(t) PROVE (UNCHANGED <<op, hnd>>) \/ Complete(t)
    BY <2>4 DEF Close, FsClose, ReturnTo
  <2>5. ASSUME Context(t) PROVE (UNCHANGED <<op, hnd>>) \/ Complete(t)
    BY <2>5 DEF Context, CtxGetOrSetContext_Get, CtxGetOrSetContext_Set,
                CtxGetOrSetContext_Fail, CreateIrpContext_Retry, CloseIrpContext
  <2> QED
    BY <1>8, <2>1, <2>2, <2>3, <2>4, <2>5 DEF Step
<1> QED
  BY <1>2, <1>3, <1>4, <1>5, <1>6, <1>7, <1>8 DEF Next

-----------------------------------------------------------------------------
(* Contexts carry the news. *)

(* The IsNotified counter of a stream's context moves with its report.     *)
LEMMA NotifiedReportedStep ==
  ASSUME Inv, Next
  PROVE  NotifiedReported'
<1> USE NoneApart DEF TypeOK, NotifiedReported
<1>0. TypeOK /\ NotifiedReported /\ IrpShape /\ PrivateContext /\ RefsExact
      /\ OneContextPerStream
  BY DEF Inv
<1> DEFINE Fresh(t) == \/ pc'[t] \notin Unsettled
                       \/ ctx'[t] = NoContext
                       \/ pc[t] \in Unsettled /\ ctx'[t] = ctx[t]
<1>1. ASSUME NEW t \in Threads,
             \A u \in Threads \ {t} : pc'[u] = pc[u] /\ ctx'[u] = ctx[u],
             UNCHANGED <<attached, reports, isNotified>>, Fresh(t)
      PROVE  NotifiedReported'
  BY <1>0, <1>1 DEF Unsettled
<1>2. ASSUME NEW t \in Threads, NEW c \in Contexts, CtxAllocateContext(t, c),
             \A u \in Threads \ {t} : pc'[u] = pc[u],
             UNCHANGED <<attached, reports>>
      PROVE  NotifiedReported'
  <2>1. /\ \A s \in Streams : attached[s] # c
        /\ \A u \in Threads : ctx[u] # c
    BY <1>0, <1>2, InUseIsReferenced DEF CtxAllocateContext
  <2>2. ctx' = [ctx EXCEPT ![t] = c] /\ isNotified' = [isNotified EXCEPT ![c] = 0]
    BY <1>2 DEF CtxAllocateContext
  <2> QED
    BY <1>0, <1>2, <2>1, <2>2
<1>3. ASSUME NEW t \in Threads, DfNotifyDelete(t) PROVE NotifiedReported'
  <2>1. /\ ctx[t] \in Contexts /\ StreamOf(t) \in Streams
        /\ attached[StreamOf(t)] = ctx[t]
    BY <1>3, Placed DEF DfNotifyDelete, WithContext
  <2>2. /\ isNotified' = [isNotified EXCEPT ![ctx[t]] = isNotified[ctx[t]] + 1]
        /\ reports' = IF isNotified'[ctx[t]] > 1 THEN reports
                      ELSE [reports EXCEPT ![StreamOf(t)] = reports[StreamOf(t)] + 1]
        /\ pc' = [pc EXCEPT ![t] = "release"] /\ UNCHANGED <<ctx, attached>>
    BY <1>3 DEF DfNotifyDelete
  <2>3. reports'[StreamOf(t)] > 0
    <3>1. CASE isNotified[ctx[t]] > 0
      BY <1>0, <2>1, <2>2, <3>1
    <3>2. CASE isNotified[ctx[t]] = 0
      BY <1>0, <2>1, <2>2, <3>2
    <3> QED
      BY <1>0, <2>1, <3>1, <3>2
  <2>4. \A s \in Streams : attached[s] = ctx[t] => s = StreamOf(t)
    BY <1>0, <2>1 DEF OneContextPerStream
  <2>5. \A s \in Streams \ {StreamOf(t)} : reports'[s] = reports[s]
    BY <1>0, <2>1, <2>2
  <2>6. \A u \in Threads : pc[u] \in Unsettled => ctx[u] # ctx[t]
    BY <1>0, <2>1 DEF PrivateContext
  <2>7. ASSUME NEW s \in Streams, attached'[s] # NoContext, isNotified'[attached'[s]] > 0
        PROVE  reports'[s] > 0
    <3>1. CASE s = StreamOf(t)
      BY <2>3, <3>1
    <3>2. CASE s # StreamOf(t)
      BY <1>0, <2>1, <2>2, <2>4, <2>5, <2>7, <3>2
    <3> QED
      BY <3>1, <3>2
  <2>8. ASSUME NEW u \in Threads, pc'[u] \in Unsettled, ctx'[u] # NoContext
        PROVE  isNotified'[ctx'[u]] = 0
    BY <1>0, <2>1, <2>2, <2>6, <2>8 DEF Unsettled
  <2> QED
    BY <2>7, <2>8
<1>4. ASSUME NEW t \in Threads, Attaches(t) PROVE NotifiedReported'
  BY <1>0, <1>4 DEF Attaches, Unsettled
<1>5. ASSUME NEW s \in Streams, TeardownStream(s) PROVE NotifiedReported'
  BY <1>0, <1>5 DEF TeardownStream
<1>6. ASSUME NEW t \in Threads, Create(t) PROVE NotifiedReported'
  <2>1. CASE WinIOPreCreate(t)
    <3>1. CASE \E c \in Contexts : CtxAllocateContext(t, c)
      BY <1>0, <1>2, <2>1, <3>1 DEF WinIOPreCreate
    <3>2. CASE UNCHANGED <<refs, fieldVars, ctx>>
      BY <1>0, <1>1, <2>1, <3>2 DEF WinIOPreCreate, Send, IrpShape
    <3> QED
      BY <2>1, <3>1, <3>2 DEF WinIOPreCreate
  <2>2. CASE FsCreate(t)
    BY <1>0, <1>1, <2>2 DEF FsCreate, ReturnTo, Unsettled
  <2>3. CASE FsCreateFails(t)
    BY <1>0, <1>1, <2>3 DEF FsCreateFails, ReturnTo, Unsettled
  <2>4. CASE WinIOPostCreate(t)
    BY <1>0, <1>1, <2>4 DEF WinIOPostCreate, Unsettled
  <2> QED
    BY <1>6, <2>1, <2>2, <2>3, <2>4 DEF Create
<1>7. ASSUME NEW t \in Threads, SetInfo(t) PROVE NotifiedReported'
  <2>1. CASE WinIOPreSetInformation(t)
    BY <1>0, <1>1, <2>1 DEF WinIOPreSetInformation, Send, Unseen, IrpShape, Unsettled
  <2>2. CASE WinIOPreDisposition(t) \/ WinIOPreRename(t)
    BY <1>0, <1>1, <2>2 DEF WinIOPreDisposition, WinIOPreRename, Unsettled
  <2>3. CASE FsSetInformation(t) \/ FsSetInformationFails(t)
    BY <1>0, <1>1, <2>3 DEF FsSetInformation, FsSetInformationFails, ReturnTo, Unsettled
  <2>4. CASE WinIOPostSetInformation(t) \/ WinIOPostDecrement(t)
    BY <1>0, <1>1, <2>4 DEF WinIOPostSetInformation, WinIOPostDecrement, Unsettled
  <2> QED
    BY <1>7, <2>1, <2>2, <2>3, <2>4 DEF SetInfo
<1>8. ASSUME NEW t \in Threads, Cleanup(t), ~DfNotifyDelete(t) PROVE NotifiedReported'
  <2>1. CASE WinIOPreCleanup(t)
    BY <1>0, <1>1, <2>1 DEF WinIOPreCleanup, Send, Unseen, CtxGetContext, Unsettled
  <2>2. CASE FsCleanup(t)
    BY <1>0, <1>1, <2>2 DEF FsCleanup, ReturnTo, Unsettled
  <2>3. CASE WinIOPostCleanup_NumOps(t) \/ WinIOPostCleanup_Flags(t)
             \/ WinIOPostCleanup_Notified(t) \/ DfProcessDelete(t)
    BY <1>0, <1>1, <2>3 DEF WinIOPostCleanup_NumOps, WinIOPostCleanup_Flags,
                            WinIOPostCleanup_Notified, DfProcessDelete, Unsettled
  <2> QED
    BY <1>8, <2>1, <2>2, <2>3 DEF Cleanup
<1>9. ASSUME NEW t \in Threads, Close(t) PROVE NotifiedReported'
  BY <1>0, <1>1, <1>9 DEF Close, WinIOPreClose, FsClose, Send, CtxGetContext, ReturnTo, Unsettled
<1>10. ASSUME NEW t \in Threads, Context(t) PROVE NotifiedReported'
  <2>1. CASE CtxGetOrSetContext_Get(t)
    <3>1. CASE UNCHANGED fieldVars
      <4>1. /\ UNCHANGED <<attached, reports>> /\ pc[t] = "getContext"
            /\ \/ pc' = [pc EXCEPT ![t] = "contextReady"] /\ ctx' = [ctx EXCEPT ![t] = attached[StreamOf(t)]]
               \/ \E c \in Contexts : CtxAllocateContext(t, c) /\ pc' = [pc EXCEPT ![t] = "setContext"]
               \/ ctx' = ctx /\ pc' = [pc EXCEPT ![t] = "setContext"]
        BY <2>1 DEF CtxGetOrSetContext_Get
      <4> QED
        BY <1>0, <1>1, <1>2, <3>1, <4>1 DEF Unsettled
    <3>2. CASE \E c \in Contexts : CtxAllocateContext(t, c)
      BY <1>0, <1>2, <2>1, <3>2 DEF CtxGetOrSetContext_Get
    <3> QED
      BY <2>1, <3>1, <3>2 DEF CtxGetOrSetContext_Get
  <2>2. CASE CtxGetOrSetContext_Set(t)
    <3>1. CASE Attaches(t)
      BY <1>4, <3>1
    <3>2. CASE UNCHANGED attached
      BY <1>0, <1>1, <2>2, <3>2 DEF CtxGetOrSetContext_Set, Unsettled
    <3> QED
      BY <2>2, <3>1, <3>2, SetAttaches
  <2>3. CASE CtxGetOrSetContext_Fail(t)
    BY <1>0, <1>1, <2>3 DEF CtxGetOrSetContext_Fail
  <2>4. CASE CreateIrpContext_Retry(t)
    BY <1>0, <1>1, <2>4 DEF CreateIrpContext_Retry, CtxGetContext, Unsettled
  <2>5. CASE CloseIrpContext(t)
    BY <1>0, <1>1, <2>5 DEF CloseIrpContext
  <2> QED
    BY <1>10, <2>1, <2>2, <2>3, <2>4, <2>5 DEF Context
<1> QED
  BY <1>3, <1>5, <1>6, <1>7, <1>8, <1>9, <1>10 DEF Next, Step

-----------------------------------------------------------------------------
(* Disposition changes and cleanups carry the context of their stream. *)

(* A disposition change with a context on its way; an IRP at the file      *)
(* system that should carry a context and does not.                        *)
Changes(t) == /\ pc[t] \in {"fsSet", "postSet", "decrement"}
              /\ op[t] \in Dispositions /\ ctx[t] # NoContext
Blind(t)   == /\ ctx[t] = NoContext
              /\ pc[t] = "fsCleanup" \/ (pc[t] = "fsSet" /\ op[t] \in Dispositions)

(* A change with a context starts in WinIOPreSetInformation, and an IRP    *)
(* that goes to the file system without one is the stream's excuse.        *)
LEMMA StartOfChange ==
  ASSUME Inv, NEW t \in Threads, Step(t)
  PROVE  /\ Changes(t)'
            => \/ WinIOPreDisposition(t)
               \/ Changes(t) /\ op'[t] = op[t] /\ ctx'[t] = ctx[t]
         /\ Blind(t)' => why'[target[hnd'[t]]] # {}
<1> USE NoneApart DEF TypeOK, Changes, Blind, Dispositions
<1>0. TypeOK /\ IrpShape /\ ContextSeen
  BY DEF Inv
<1>1. CASE Create(t)
  BY <1>0, <1>1 DEF Create, WinIOPreCreate, Send, FsCreate, FsCreateFails, ReturnTo,
                    WinIOPostCreate
<1>2. CASE WinIOPreSetInformation(t)
  <2>1. PICK h \in Handles, class \in Classes, f \in BOOLEAN :
          /\ handle[h] = "open" /\ Send(t, class, h, f)
          /\ \/ Goto(t, "getContext") /\ UNCHANGED <<refs, ctx, failures, why>>
             \/ Goto(t, "fsSet") /\ Unseen(target[h])
    BY <1>2 DEF WinIOPreSetInformation
  <2>2. target[h] \in Streams
    BY <2>1, Placed
  <2>3. Goto(t, "fsSet") => why'[target[h]] # {} /\ ctx'[t] = NoContext
    <3>1. ASSUME Unseen(target[h]) PROVE why'[target[h]] = why[target[h]] \cup {"blind"}
      BY <1>0, <2>2, <3>1 DEF Unseen
    <3>2. ctx[t] = NoContext
      BY <1>0, <2>1 DEF Send, IrpShape
    <3> QED
      BY <1>0, <2>1, <3>1, <3>2 DEF Unseen
  <2>4. hnd'[t] = h
    BY <1>0, <2>1 DEF Send
  <2> QED
    BY <1>0, <2>1, <2>3, <2>4
<1>3. CASE WinIOPreDisposition(t)
  BY <1>0, <1>3 DEF WinIOPreDisposition, IrpShape, WithContext
<1>4. CASE WinIOPreRename(t)
  BY <1>0, <1>4 DEF WinIOPreRename
<1>5. CASE FsSetInformation(t) \/ FsSetInformationFails(t)
  BY <1>0, <1>5 DEF FsSetInformation, FsSetInformationFails, ReturnTo
<1>6. CASE WinIOPostSetInformation(t) \/ WinIOPostDecrement(t)
  BY <1>0, <1>6 DEF WinIOPostSetInformation, WinIOPostDecrement
<1>7. CASE WinIOPreCleanup(t)
  <2>1. PICK h \in Handles :
          /\ handle[h] = "open" /\ ~BeingCreated(h) /\ Send(t, "cleanup", h, FALSE)
          /\ (CtxGetContext(t, target[h]) /\ UNCHANGED why) \/ Unseen(target[h])
          /\ Goto(t, "fsCleanup")
    BY <1>7 DEF WinIOPreCleanup
  <2>2. target[h] \in Streams /\ target[h] # NoStream
    BY <2>1, Placed
  <2>3. CASE CtxGetContext(t, target[h]) /\ UNCHANGED why
    <3>1. ctx'[t] = attached[target[h]]
      BY <1>0, <2>3 DEF CtxGetContext
    <3>2. ~Watched(target[h]) \/ attached[target[h]] # NoContext
      BY <1>0, <2>1, <2>2 DEF ContextSeen, BeingCreated
    <3> QED
      BY <1>0, <2>1, <2>3, <3>1, <3>2 DEF Watched, Send
  <2>4. CASE Unseen(target[h])
    <3>1. why'[target[h]] = why[target[h]] \cup {"blind"}
      BY <1>0, <2>2, <2>4 DEF Unseen
    <3> QED
      BY <1>0, <2>1, <3>1 DEF Send
  <2> QED
    BY <2>1, <2>3, <2>4
<1>8. CASE Cleanup(t) /\ ~WinIOPreCleanup(t)
  BY <1>0, <1>8 DEF Cleanup, FsCleanup, WinIOPostCleanup_NumOps, WinIOPostCleanup_Flags,
                    WinIOPostCleanup_Notified, DfProcessDelete, DfNotifyDelete, ReturnTo
<1>9. CASE Close(t)
  BY <1>0, <1>9 DEF Close, WinIOPreClose, Send, FsClose, ReturnTo
<1>10. CASE CreateIrpContext_Retry(t)
  <2>1. StreamOf(t) \in Streams
    BY <1>10, Placed DEF CreateIrpContext_Retry
  <2>2. CASE attached[StreamOf(t)] = NoContext
    <3>1. ctx'[t] = NoContext /\ hnd' = hnd
      BY <1>0, <1>10, <2>2 DEF CreateIrpContext_Retry, CtxGetContext
    <3>2. why'[StreamOf(t)] = why[StreamOf(t)] \cup {"blind"}
      BY <1>0, <1>10, <2>1, <2>2 DEF CreateIrpContext_Retry
    <3> QED
      BY <3>1, <3>2
  <2>3. CASE attached[StreamOf(t)] # NoContext
    BY <1>0, <1>10, <2>3 DEF CreateIrpContext_Retry, CtxGetContext
  <2> QED
    BY <2>2, <2>3
<1>11. CASE Context(t) /\ ~CreateIrpContext_Retry(t)
  <2>1. pc'[t] \notin {"fsSet", "postSet", "decrement", "fsCleanup"}
    BY <1>0, <1>11 DEF Context, CtxGetOrSetContext_Get, CtxGetOrSetContext_Set,
                       CtxGetOrSetContext_Fail, CloseIrpContext
  <2> QED
    BY <2>1
<1> QED
  BY <1>1, <1>2, <1>3, <1>4, <1>5, <1>6, <1>7, <1>8, <1>9, <1>10, <1>11
     DEF Step, SetInfo

(* The other threads stay with what they are sending, on the same stream.  *)
LEMMA OthersStay ==
  ASSUME Inv, NEW t \in Threads, Step(t)
  PROVE  /\ OthersKept(t)
         /\ \A u \in Threads \ {t} :
              hnd[u] \in Handles => target'[hnd[u]] = target[hnd[u]]
         /\ \A s \in Streams : Watched(s)' => Watched(s)
<1>0. TypeOK
  BY DEF Inv
<1>1. CASE FsCreate(t)
  BY <1>0, <1>1, FsCreateOpens DEF Opens, Alone, TypeOK
<1>2. CASE FsClose(t)
  BY <1>0, <1>2, FsCloseCloses DEF Closes, Alone, TypeOK, Watched
<1>3. CASE CtxGetOrSetContext_Set(t)
  BY <1>0, <1>3, SetAttaches, PassingStep DEF Attaches, OthersKept, TypeOK, Passing, Watched
<1>4. CASE WinIOPostCreate(t)
  BY <1>0, <1>4, WatchedBefore DEF WinIOPostCreate, OthersKept, TypeOK
<1>5. CASE FsSetInformation(t)
  BY <1>0, <1>5, WatchedBefore DEF FsSetInformation, OthersKept, TypeOK, ReturnTo
<1>6. CASE WinIOPostSetInformation(t)
  BY <1>0, <1>6, WatchedBefore DEF WinIOPostSetInformation, OthersKept, TypeOK
<1>7. CASE FsCleanup(t)
  BY <1>0, <1>7, WatchedBefore DEF FsCleanup, OthersKept, TypeOK, ReturnTo
<1>8. CASE DfNotifyDelete(t)
  BY <1>0, <1>8, WatchedBefore DEF DfNotifyDelete, OthersKept, TypeOK
<1>9. ASSUME Passing(t)
      PROVE  /\ OthersKept(t)
             /\ \A u \in Threads \ {t} :
                  hnd[u] \in Handles => target'[hnd[u]] = target[hnd[u]]
             /\ \A s \in Streams : Watched(s)' => Watched(s)
  BY <1>9 DEF Passing, OthersKept
<1> QED
  BY <1>1, <1>2, <1>3, <1>4, <1>5, <1>6, <1>7, <1>8, <1>9, PassingStep
     DEF Step, Create, SetInfo, Cleanup, Close, Context

(* The contexts of streams stay, unless the stream is being torn down or   *)
(* gets its first one.                                                     *)
LEMMA AttachedStay ==
  ASSUME Inv, NEW t \in Threads, Step(t)
  PROVE  Attaches(t) \/ UNCHANGED attached
  BY SetAttaches
     DEF Step, Create, WinIOPreCreate, FsCreate, FsCreateFails, WinIOPostCreate,
         SetInfo, WinIOPreSetInformation, WinIOPreDisposition, WinIOPreRename,
         FsSetInformation, FsSetInformationFails, WinIOPostSetInformation,
         WinIOPostDecrement, Cleanup, WinIOPreCleanup, FsCleanup,
         WinIOPostCleanup_NumOps, WinIOPostCleanup_Flags, WinIOPostCleanup_Notified,
         DfProcessDelete, DfNotifyDelete, Close, WinIOPreClose, FsClose,
         Context, CtxGetOrSetContext_Get, CtxGetOrSetContext_Fail,
         CreateIrpContext_Retry, CloseIrpContext

(* The changes of a watched stream stay apart: a second one overlapping    *)
(* blames the stream.                                                      *)
LEMMA OneChangeStep ==
  ASSUME Inv, Next
  PROVE  OneChange'
<1>0. TypeOK /\ OneChange /\ RefsExact /\ NumOpsExact /\ OneContextPerStream
  BY DEF Inv
<1>1. ASSUME NEW s \in Streams, TeardownStream(s) PROVE OneChange'
  BY <1>0, <1>1 DEF TeardownStream, OneChange, TypeOK, ChangesInFlight, Holders, Watched
<1>2. ASSUME NEW t \in Threads, Step(t) PROVE OneChange'
  <2>1. OthersKept(t) /\ \A s \in Streams : Watched(s)' => Watched(s)
    BY <1>2, OthersStay
  <2>2. ASSUME NEW s \in Streams, Watched(s)', attached'[s] # NoContext,
               NEW u \in ChangesInFlight(attached[s])',
               NEW v \in ChangesInFlight(attached[s])'
        PROVE  u = v
    <3>1. CASE attached[s] = NoContext
      <4>1. Attaches(t) /\ attached'[s] = ctx[t] /\ s = StreamOf(t)
        BY <1>0, <1>2, <2>2, <3>1, AttachedStay DEF Attaches, TypeOK
      <4> QED
        BY <1>0, <2>2, <4>1 DEF Attaches, ChangesInFlight, Holders
    <3>2. CASE attached[s] # NoContext
      <4>1. attached'[s] = attached[s]
        BY <1>0, <1>2, <3>2, AttachedStay DEF Attaches, TypeOK
      <4>2. Watched(s)
        BY <2>1, <2>2
      <4>3. \A w \in Threads \ {t} : w \in ChangesInFlight(attached[s])'
                                     => w \in ChangesInFlight(attached[s])
        BY <2>1, <4>1 DEF ChangesInFlight, Holders, OthersKept
      <4>4. CASE t \in ChangesInFlight(attached[s])' => t \in ChangesInFlight(attached[s])
        BY <1>0, <2>2, <3>2, <4>2, <4>3, <4>4 DEF OneChange, ChangesInFlight, Holders
      <4>5. CASE t \in ChangesInFlight(attached[s])' /\ t \notin ChangesInFlight(attached[s])
        <5>1. Changes(t)' /\ ctx'[t] = attached[s]
          BY <2>2, <4>1, <4>5 DEF Changes, ChangesInFlight, Holders
        <5>2. ~(Changes(t) /\ op'[t] = op[t] /\ ctx'[t] = ctx[t])
          BY <4>5, <5>1 DEF Changes, ChangesInFlight, Holders
        <5>3. WinIOPreDisposition(t)
          BY <1>2, <5>1, <5>2, StartOfChange
        <5>4. /\ StreamOf(t) \in Streams /\ ctx[t] \in Contexts
              /\ attached[StreamOf(t)] = ctx[t] /\ ctx[t] = attached[s]
          BY <5>1, <5>3, Placed DEF WinIOPreDisposition, WithContext
        <5>5. s = StreamOf(t)
          BY <1>0, <3>2, <5>4 DEF OneContextPerStream
        <5>6. ~(numOps[ctx[t]] > 0)
          <6>1. numOps[ctx[t]] > 0 => why' = [why EXCEPT ![s] = @ \cup {"race"}]
            BY <5>3, <5>5 DEF WinIOPreDisposition
          <6>2. why' = [why EXCEPT ![s] = @ \cup {"race"}] => why'[s] # {}
            BY <1>0 DEF TypeOK
          <6> QED
            BY <2>2, <6>1, <6>2 DEF Watched
        <5>7. ChangesInFlight(ctx[t]) = {}
          <6>1. refs[ctx[t]] > 0
            BY <1>0, <5>4, InUseIsReferenced
          <6>2. Cardinality(ChangesInFlight(ctx[t])) = 0
            BY <1>0, <5>4, <5>6, <6>1 DEF NumOpsExact, TypeOK
          <6>3. ChangesInFlight(ctx[t]) \in SUBSET Threads
            BY DEF ChangesInFlight, Holders
          <6> QED
            BY <6>2, <6>3, CountZero, FiniteParts
        <5> QED
          BY <2>2, <4>3, <5>4, <5>7 DEF ChangesInFlight, Holders
      <4> QED
        BY <4>4, <4>5
    <3> QED
      BY <3>1, <3>2
  <2> QED
    BY <2>2 DEF OneChange
<1> QED
  BY <1>1, <1>2 DEF Next

(* A thread is about to give the stream of file object h its context. *)
FirstContext(h) == \E t \in Threads : /\ hnd[t] = h /\ op[t] = "create"
                                      /\ pc[t] \in {"getContext", "setContext"}

(* The open file objects of a watched stream have given it a context.      *)
LEMMA ContextSeenStep ==
  ASSUME Inv, Next
  PROVE  ContextSeen'
<1> USE NoneApart
<1>0. TypeOK /\ TypeOK' /\ ContextSeen /\ IrpShape' /\ HandleShape'
  BY TypeOKStep, IrpShapeStep, HandleShapeStep DEF Inv
<1>1. ASSUME NEW h \in Handles, target'[h] # NoStream, why'[target'[h]] = {},
             attached'[target'[h]] = NoContext
      PROVE  FirstContext(h)'
  <2>1. target'[h] \in Streams
    BY <1>0, <1>1 DEF TypeOK
  <2>2. ASSUME target[h] = target'[h], Watched(target[h]), attached[target[h]] = NoContext
        PROVE  FirstContext(h)
    BY <1>0, <1>1, <2>2 DEF ContextSeen, FirstContext
  <2>3. ASSUME NEW t \in Threads, Passing(t) PROVE FirstContext(h)'
    <3>1. FirstContext(h) /\ UNCHANGED <<target, attached>>
      BY <1>1, <2>1, <2>2, <2>3 DEF Passing, Watched
    <3>2. PICK u \in Threads : /\ hnd[u] = h /\ op[u] = "create"
                               /\ pc[u] \in {"getContext", "setContext"}
      BY <3>1 DEF FirstContext
    <3>3. CASE u = t
      <4>1. why'[StreamOf(t)] = {} /\ Creates(t)
        BY <1>1, <3>1, <3>2, <3>3 DEF Watched, Creates
      <4>2. Creates(t)' /\ hnd'[t] = h /\ pc'[t] # "contextReady"
        BY <1>1, <2>3, <3>1, <3>2, <3>3, <4>1 DEF Passing
      <4> QED
        BY <4>2 DEF Creates, FirstContext
    <3>4. CASE u # t
      BY <2>3, <3>2, <3>4 DEF Passing, FirstContext
    <3> QED
      BY <3>3, <3>4
  <2>4. ASSUME NEW t \in Threads, NEW s \in Streams, Opens(t, s) PROVE FirstContext(h)'
    <3>1. CASE h = hnd[t]
      <4>1. target'[h] = s
        BY <1>0, <2>4, <3>1 DEF Opens, TypeOK
      <4> QED
        BY <1>1, <2>4, <3>1, <4>1 DEF Opens, Creates, FirstContext, Watched
    <3>2. CASE h # hnd[t]
      <4>1. target'[h] = target[h] /\ attached' = attached
        BY <1>0, <2>4, <3>2 DEF Opens, TypeOK
      <4>2. FirstContext(h)
        BY <1>1, <2>1, <2>2, <2>4, <4>1 DEF Opens, Watched
      <4> QED
        BY <2>4, <3>2, <4>2 DEF Opens, OthersKept, FirstContext
    <3> QED
      BY <3>1, <3>2
  <2>5. ASSUME NEW t \in Threads, Closes(t) PROVE FirstContext(h)'
    <3>1. h # hnd[t]
      BY <1>0, <1>1, <2>5 DEF Closes, TypeOK
    <3>2. target'[h] = target[h] /\ UNCHANGED <<attached, why>>
      BY <1>0, <2>5, <3>1 DEF Closes, TypeOK
    <3>3. FirstContext(h)
      BY <1>1, <2>2, <3>2 DEF Watched
    <3> QED
      BY <2>5, <3>3 DEF Closes, OthersKept, FirstContext
  <2>6. ASSUME NEW t \in Threads, Attaches(t) PROVE FirstContext(h)'
    <3>1. UNCHANGED <<target, why, hnd, op>> /\ target[h] # StreamOf(t)
      BY <1>0, <1>1, <2>1, <2>6 DEF Attaches, TypeOK
    <3>2. FirstContext(h)
      BY <1>0, <1>1, <2>1, <2>2, <2>6, <3>1 DEF Attaches, TypeOK, Watched
    <3> QED
      BY <1>0, <2>6, <3>1, <3>2 DEF Attaches, FirstContext, TypeOK
  <2>8. ASSUME NEW t \in Threads, WinIOPostCreate(t) \/ FsSetInformation(t)
                 \/ WinIOPostSetInformation(t) \/ FsCleanup(t) \/ DfNotifyDelete(t)
        PROVE  FirstContext(h)'
    <3>1. Step(t)
      BY <2>8 DEF Step, Create, SetInfo, Cleanup
    <3>2. UNCHANGED <<target, attached>> /\ pc[t] \notin {"getContext", "setContext"}
      BY <2>8 DEF WinIOPostCreate, FsSetInformation, WinIOPostSetInformation, FsCleanup,
                  DfNotifyDelete
    <3>3. OthersKept(t) /\ \A s \in Streams : Watched(s)' => Watched(s)
      BY <3>1, OthersStay
    <3>4. FirstContext(h)
      BY <1>1, <2>1, <2>2, <3>2, <3>3 DEF Watched
    <3> QED
      BY <3>2, <3>3, <3>4 DEF FirstContext, OthersKept
  <2>9. ASSUME NEW s \in Streams, TeardownStream(s) PROVE FirstContext(h)'
    <3>1. UNCHANGED <<target, hnd, op, pc, why>> /\ target[h] # s
      BY <2>9 DEF TeardownStream
    <3>2. attached'[target[h]] = attached[target[h]]
      BY <1>0, <2>1, <2>9, <3>1 DEF TeardownStream, TypeOK
    <3> QED
      BY <1>1, <2>2, <3>1, <3>2 DEF Watched, FirstContext
  <2> QED
    BY <2>3, <2>4, <2>5, <2>6, <2>8, <2>9, StepKinds
<1>2. ASSUME NEW u \in Threads, Blind(u)' PROVE why'[target'[hnd'[u]]] # {}
  <2>1. hnd'[u] \in Handles /\ target'[hnd'[u]] \in Streams
    BY <1>0, <1>2 DEF TypeOK, IrpShape, HandleShape, Blind
  <2>2. ASSUME NEW s \in Streams, TeardownStream(s) PROVE why'[target'[hnd'[u]]] # {}
    BY <1>0, <1>2, <2>2 DEF TeardownStream, ContextSeen, Blind, Watched
  <2>3. ASSUME NEW t \in Threads, Step(t), u # t PROVE why'[target'[hnd'[u]]] # {}
    <3>1. Blind(u) /\ hnd'[u] = hnd[u]
      BY <1>2, <2>3, OthersStay DEF OthersKept, Blind
    <3>2. target'[hnd[u]] = target[hnd[u]]
      BY <2>1, <2>3, <3>1, OthersStay
    <3>3. ~Watched(target[hnd[u]])
      BY <1>0, <3>1 DEF ContextSeen, Blind
    <3> QED
      BY <2>1, <2>3, <3>1, <3>2, <3>3, OthersStay DEF Watched
  <2>4. ASSUME Step(u) PROVE why'[target'[hnd'[u]]] # {}
    <3>1. why'[target[hnd'[u]]] # {}
      BY <1>2, <2>4, StartOfChange
    <3>2. pc'[u] \in {"fsSet", "fsCleanup"}
      BY <1>2 DEF Blind
    <3>3. ~FsCreate(u) /\ ~FsClose(u)
      BY <1>0, <3>2 DEF FsCreate, FsClose, ReturnTo, TypeOK
    <3>4. UNCHANGED target
      BY <2>4, <3>3
         DEF Step, Create, WinIOPreCreate, FsCreateFails, WinIOPostCreate,
             SetInfo, WinIOPreSetInformation, WinIOPreDisposition, WinIOPreRename,
             FsSetInformation, FsSetInformationFails, WinIOPostSetInformation,
             WinIOPostDecrement, Cleanup, WinIOPreCleanup, FsCleanup,
             WinIOPostCleanup_NumOps, WinIOPostCleanup_Flags, WinIOPostCleanup_Notified,
             DfProcessDelete, DfNotifyDelete, Close, WinIOPreClose,
             Context, CtxGetOrSetContext_Get, CtxGetOrSetContext_Set,
             CtxGetOrSetContext_Fail, CreateIrpContext_Retry, CloseIrpContext
    <3> QED
      BY <3>1, <3>4
  <2> QED
    BY <2>2, <2>3, <2>4 DEF Next
<1> QED
  BY <1>1, <1>2 DEF ContextSeen, FirstContext, Blind, Watched

-----------------------------------------------------------------------------
(* The context shows what the stream and its file objects are marked for.  *)

(* The flags of context c, and the changes yet to be recorded in them, stay. *)
RecordKept(c) ==
  /\ setDisp'[c] = setDisp[c] /\ deleteOnClose'[c] = deleteOnClose[c]
  /\ \A u \in Threads :
       /\ u \in Unrecorded(c)' <=> u \in Unrecorded(c)
       /\ u \in Unrecorded(c) => op'[u] = op[u] /\ flag'[u] = flag[u]

(* The steps that record nothing keep the record of every stream. *)
LEMMA RecordsKept ==
  ASSUME Inv, NEW t \in Threads, NEW s \in Streams, NEW c \in Contexts, attached[s] = c,
         \/ Passing(t) \/ Closes(t) \/ Attaches(t) \/ FsCleanup(t) \/ DfNotifyDelete(t)
         \/ \E r \in Streams : Opens(t, r)
  PROVE  RecordKept(c)
<1>0. TypeOK
  BY DEF Inv
<1>1. ASSUME OthersKept(t), pc[t] # "postSet", pc'[t] # "postSet",
             setDisp'[c] = setDisp[c], deleteOnClose'[c] = deleteOnClose[c]
      PROVE  RecordKept(c)
  BY <1>1 DEF RecordKept, Unrecorded, Holders, OthersKept
<1>2. CASE Passing(t)
  BY <1>1, <1>2, NoneApart DEF Passing, OthersKept
<1>3. CASE Closes(t)
  BY <1>1, <1>3 DEF Closes
<1>4. CASE Attaches(t)
  BY <1>0, <1>1, <1>4 DEF Attaches, OthersKept, TypeOK
<1>5. CASE FsCleanup(t)
  BY <1>0, <1>1, <1>5 DEF FsCleanup, ReturnTo, OthersKept, TypeOK
<1>6. CASE DfNotifyDelete(t)
  BY <1>0, <1>1, <1>6 DEF DfNotifyDelete, OthersKept, TypeOK
<1>7. CASE \E r \in Streams : Opens(t, r)
  BY <1>0, <1>1, <1>7 DEF Opens, Creates
<1> QED
  BY <1>2, <1>3, <1>4, <1>5, <1>6, <1>7

(* The create of file object h is about to show that it is delete-on-close. *)
DocToCome(h) == \E t \in Threads : hnd[t] = h /\ Creates(t) /\ flag[t]

(* Context c shows a delete-on-close, or will once a change is recorded. *)
DocShown(c) == \/ deleteOnClose[c]
               \/ \E t \in Unrecorded(c) : op[t] = "onClose" /\ flag[t]

(* The stream of h has such a context. *)
DocKnown(h) == \E c \in Contexts : attached[target[h]] = c /\ DocShown(c)

(* FILE_FLAG_DELETE_ON_CLOSE of a file object stays visible in the context. *)
LEMMA DocHandleSeenStep ==
  ASSUME Inv, Next
  PROVE  DocHandleSeen'
<1> USE NoneApart
<1>0. /\ TypeOK /\ TypeOK' /\ DocHandleSeen /\ IrpShape /\ HandleShape
      /\ OneContextPerStream /\ ContextSeen
  BY TypeOKStep DEF Inv
<1> DEFINE Seen(h) == /\ target[h] # NoStream
                      /\ why[target[h]] = {} => DocToCome(h) \/ DocKnown(h)
<1>a. SUFFICES ASSUME NEW h \in Handles, docHandle'[h]
               PROVE  Seen(h)'
  BY <1>0 DEF DocHandleSeen, DocToCome, DocShown, DocKnown, Watched, Creates
<1>1. ASSUME docHandle[h] PROVE Seen(h) /\ target[h] \in Streams
  BY <1>0, <1>1 DEF DocHandleSeen, DocToCome, DocShown, DocKnown, Watched, Creates, TypeOK
<1> HIDE DEF Seen
<1>2. ASSUME docHandle[h], target'[h] = target[h],
             why'[target[h]] = {} => why[target[h]] = {},
             why'[target[h]] = {} /\ DocToCome(h) => DocToCome(h)' \/ DocKnown(h)',
             why'[target[h]] = {} /\ DocKnown(h) => DocKnown(h)'
      PROVE  Seen(h)'
  BY <1>1, <1>2 DEF Seen
<1>3. ASSUME docHandle[h], target'[h] = target[h], DocKnown(h), NEW t \in Threads,
             attached'[target[h]] = attached[target[h]],
             \/ Passing(t) \/ Closes(t) \/ Attaches(t) \/ FsCleanup(t) \/ DfNotifyDelete(t)
             \/ \E r \in Streams : Opens(t, r)
      PROVE  DocKnown(h)'
  <2>1. PICK c \in Contexts : attached[target[h]] = c /\ DocShown(c)
    BY <1>3 DEF DocKnown
  <2>2. RecordKept(c)
    BY <1>1, <1>3, <2>1, RecordsKept
  <2>3. DocShown(c)'
    BY <2>1, <2>2 DEF RecordKept, DocShown, Unrecorded, Holders
  <2> QED
    BY <1>3, <2>1, <2>3 DEF DocKnown
<1>4. ASSUME NEW t \in Threads, Passing(t) PROVE Seen(h)'
  <2>1. UNCHANGED <<docHandle, target, attached>> /\ docHandle[h] /\ target[h] \in Streams
    BY <1>a, <1>1, <1>4 DEF Passing
  <2>2. why'[target[h]] = {} => why[target[h]] = {}
    BY <1>4, <2>1 DEF Passing, Watched
  <2>3. ASSUME why'[target[h]] = {}, DocToCome(h) PROVE DocToCome(h)'
    BY <1>4, <2>3 DEF Passing, DocToCome, Creates
  <2> QED
    BY <1>2, <1>3, <1>4, <2>1, <2>2, <2>3
<1>5. ASSUME NEW t \in Threads, NEW s \in Streams, Opens(t, s) PROVE Seen(h)'
  <2>1. CASE h = hnd[t]
    <3>1. target'[h] = s /\ flag[t]
      BY <1>a, <1>0, <1>5, <2>1 DEF Opens, TypeOK
    <3> QED
      BY <1>5, <2>1, <3>1 DEF Opens, DocToCome, Seen
  <2>2. CASE h # hnd[t]
    <3>1. docHandle[h] /\ target'[h] = target[h] /\ attached' = attached
      BY <1>a, <1>0, <1>5, <2>2 DEF Opens, TypeOK
    <3>2. DocToCome(h) => DocToCome(h)'
      BY <1>5, <2>2 DEF Opens, DocToCome, OthersKept, Creates
    <3>3. why'[target[h]] = {} => why[target[h]] = {}
      BY <1>1, <1>5, <3>1 DEF Opens, Watched
    <3> QED
      BY <1>2, <1>3, <1>5, <3>1, <3>2, <3>3
  <2> QED
    BY <2>1, <2>2
<1>6. ASSUME NEW t \in Threads, Closes(t) PROVE Seen(h)'
  <2>1. h # hnd[t]
    BY <1>a, <1>0, <1>6 DEF Closes, TypeOK
  <2>2. docHandle[h] /\ target'[h] = target[h] /\ UNCHANGED <<attached, why>>
    BY <1>a, <1>0, <1>6, <2>1 DEF Closes, TypeOK
  <2>3. DocToCome(h) => DocToCome(h)'
    BY <1>6, <2>1 DEF Closes, DocToCome, OthersKept, Creates
  <2> QED
    BY <1>2, <1>3, <1>6, <2>2, <2>3
<1>7. ASSUME NEW t \in Threads, Attaches(t) PROVE Seen(h)'
  <2>1. UNCHANGED <<docHandle, target, why, hnd, op, flag>>
    BY <1>7 DEF Attaches
  <2>2. DocToCome(h) => DocToCome(h)'
    BY <1>0, <1>7, <2>1 DEF Attaches, DocToCome, Creates, TypeOK
  <2>3. DocKnown(h) => attached'[target[h]] = attached[target[h]]
    BY <1>0, <1>7 DEF Attaches, DocKnown, TypeOK
  <2> QED
    BY <1>a, <1>2, <1>3, <1>7, <2>1, <2>2, <2>3
<1>8. ASSUME NEW t \in Threads, FsCleanup(t) \/ DfNotifyDelete(t) PROVE Seen(h)'
  <2>1. UNCHANGED <<docHandle, target, attached, why>>
    BY <1>8 DEF FsCleanup, DfNotifyDelete
  <2>2. DocToCome(h) => DocToCome(h)'
    <3>1. OthersKept(t) /\ ~Creates(t)
      BY <1>8, OthersStay DEF FsCleanup, DfNotifyDelete, Step, Cleanup, Creates
    <3> QED
      BY <3>1 DEF DocToCome, OthersKept, Creates
  <2> QED
    BY <1>a, <1>2, <1>3, <1>8, <2>1, <2>2
<1>9. ASSUME NEW s \in Streams, TeardownStream(s) PROVE Seen(h)'
  <2>1. UNCHANGED <<docHandle, target, why, hnd, op, flag, pc, ctx, deleteOnClose>>
    BY <1>9 DEF TeardownStream
  <2>2. attached'[target[h]] = attached[target[h]]
    BY <1>a, <1>0, <1>1, <1>9, <2>1 DEF TeardownStream, TypeOK
  <2>3. DocToCome(h) => DocToCome(h)'
    BY <2>1 DEF DocToCome, Creates
  <2>4. DocKnown(h) => DocKnown(h)'
    BY <2>1, <2>2 DEF DocKnown, DocShown, Unrecorded, Holders
  <2> QED
    BY <1>a, <1>2, <2>1, <2>3, <2>4
(* A step of t that writes DeleteOnClose of its context and nothing else. *)
<1>10. ASSUME NEW t \in Threads,
              UNCHANGED <<docHandle, target, attached, op, hnd, flag, ctx>>,
              deleteOnClose' = [deleteOnClose EXCEPT ![ctx[t]] = flag[t]],
              \A u \in Threads \ {t} : pc'[u] = pc[u],
              pc[t] \in WithContext \ {"setContext", "release"},
              \/ why' = why /\ (deleteOnClose[ctx[t]] => flag[t])
              \/ \E r : why' = [why EXCEPT ![StreamOf(t)] = @ \cup {r}]
       PROVE  Seen(h)'
  <2>1. /\ ctx[t] \in Contexts /\ StreamOf(t) \in Streams
        /\ attached[StreamOf(t)] = ctx[t]
    BY <1>10, Placed DEF WithContext
  <2>2. docHandle[h] /\ target[h] \in Streams
    BY <1>a, <1>1, <1>10
  <2>3. why'[target[h]] = {}
        => /\ why[target[h]] = {}
           /\ target[h] = StreamOf(t) => (deleteOnClose[ctx[t]] => flag[t])
    <3>1. CASE why' = why /\ (deleteOnClose[ctx[t]] => flag[t])
      BY <3>1
    <3>2. CASE \E r : why' = [why EXCEPT ![StreamOf(t)] = @ \cup {r}]
      <4>1. PICK r : why' = [why EXCEPT ![StreamOf(t)] = @ \cup {r}]
        BY <3>2
      <4>2. \A s \in Streams :
              why'[s] = IF s = StreamOf(t) THEN why[s] \cup {r} ELSE why[s]
        BY <1>0, <4>1 DEF TypeOK
      <4> QED
        BY <2>2, <4>2
    <3> QED
      BY <1>10, <3>1, <3>2
  <2>4. target[h] = StreamOf(t) /\ flag[t] => DocKnown(h)'
    BY <1>0, <1>10, <2>1 DEF DocKnown, DocShown, TypeOK
  <2>5. ASSUME DocToCome(h) PROVE DocToCome(h)' \/ DocKnown(h)'
    <3>1. PICK u \in Threads : hnd[u] = h /\ Creates(u) /\ flag[u]
      BY <2>5 DEF DocToCome
    <3>2. CASE u = t
      BY <2>4, <3>1, <3>2
    <3>3. CASE u # t
      BY <1>10, <3>1, <3>3 DEF DocToCome, Creates
    <3> QED
      BY <3>2, <3>3
  <2>6. ASSUME why'[target[h]] = {}, DocKnown(h) PROVE DocKnown(h)'
    <3>1. PICK c \in Contexts : attached[target[h]] = c /\ DocShown(c)
      BY <2>6 DEF DocKnown
    <3>2. c = ctx[t] => target[h] = StreamOf(t)
      BY <1>0, <2>1, <2>2, <3>1 DEF OneContextPerStream
    <3>3. CASE deleteOnClose[c]
      <4>1. deleteOnClose'[c]
        BY <1>0, <1>10, <2>1, <2>3, <2>6, <3>1, <3>2, <3>3 DEF TypeOK
      <4> QED
        BY <1>10, <3>1, <4>1 DEF DocKnown, DocShown
    <3>4. ASSUME NEW u \in Unrecorded(c), op[u] = "onClose", flag[u] PROVE DocKnown(h)'
      <4>1. CASE u = t
        BY <2>4, <3>2, <3>4, <4>1 DEF Unrecorded, Holders
      <4>2. CASE u # t
        BY <1>10, <3>1, <3>4, <4>2 DEF DocKnown, DocShown, Unrecorded, Holders
      <4> QED
        BY <4>1, <4>2
    <3> QED
      BY <3>1, <3>3, <3>4 DEF DocShown
  <2> QED
    BY <1>2, <1>10, <2>2, <2>3, <2>5, <2>6
<1>11. ASSUME NEW t \in Threads, WinIOPostCreate(t) PROVE Seen(h)'
  BY <1>0, <1>10, <1>11 DEF WinIOPostCreate, WithContext, TypeOK
<1>12. ASSUME NEW t \in Threads, WinIOPostSetInformation(t) PROVE Seen(h)'
  <2>1. CASE op[t] = "onClose"
    BY <1>0, <1>10, <1>12, <2>1 DEF WinIOPostSetInformation, WithContext, TypeOK
  <2>2. CASE op[t] # "onClose"
    <3>1. /\ UNCHANGED <<docHandle, target, attached, hnd, op, flag, ctx, deleteOnClose, why>>
          /\ pc' = [pc EXCEPT ![t] = "decrement"] /\ pc[t] = "postSet"
      BY <1>12, <2>2 DEF WinIOPostSetInformation
    <3>2. DocToCome(h) => DocToCome(h)'
      BY <3>1 DEF DocToCome, Creates
    <3>3. DocKnown(h) => DocKnown(h)'
      BY <1>0, <2>2, <3>1 DEF DocKnown, DocShown, Unrecorded, Holders, TypeOK
    <3> QED
      BY <1>a, <1>2, <3>1, <3>2, <3>3
  <2> QED
    BY <2>1, <2>2
<1>13. ASSUME NEW t \in Threads, FsSetInformation(t) PROVE Seen(h)'
  <2>1. /\ UNCHANGED <<target, attached, deleteOnClose, ctx, why>>
        /\ docHandle' = IF op[t] = "onClose"
                        THEN [docHandle EXCEPT ![hnd[t]] = flag[t]] ELSE docHandle
        /\ pc[t] = "fsSet"
    BY <1>13 DEF FsSetInformation
  <2>2. OthersKept(t)
    BY <1>13, OthersStay DEF Step, SetInfo
  <2>3. StreamOf(t) \in Streams /\ hnd[t] \in Handles
    BY <2>1, Placed
  <2>4. CASE h = hnd[t] /\ op[t] = "onClose"
    <3>1. flag[t] /\ target'[h] = StreamOf(t) /\ StreamOf(t) # NoStream
      BY <1>a, <1>0, <2>1, <2>3, <2>4 DEF TypeOK
    <3>2. CASE ctx[t] = NoContext
      <4>1. why[StreamOf(t)] # {}
        BY <1>0, <2>1, <2>4, <3>2 DEF ContextSeen, Dispositions, Watched
      <4> QED
        BY <2>1, <3>1, <4>1 DEF Seen
    <3>3. CASE ctx[t] # NoContext
      <4>1. pc'[t] = "postSet" /\ op'[t] = op[t] /\ flag'[t] = flag[t]
        BY <1>0, <1>13, <2>4, <3>3 DEF FsSetInformation, ReturnTo, Dispositions, TypeOK
      <4>2. attached[StreamOf(t)] = ctx[t] /\ ctx[t] \in Contexts
        BY <1>0, <2>1, <3>3 DEF OneContextPerStream, TypeOK
      <4> QED
        BY <2>1, <2>4, <3>1, <4>1, <4>2 DEF Seen, DocKnown, DocShown, Unrecorded, Holders
    <3> QED
      BY <3>2, <3>3
  <2>5. CASE ~(h = hnd[t] /\ op[t] = "onClose")
    <3>1. docHandle[h]
      BY <1>a, <1>0, <2>1, <2>3, <2>5 DEF TypeOK
    <3>2. DocToCome(h) => DocToCome(h)'
      BY <2>1, <2>2 DEF DocToCome, Creates, OthersKept
    <3>3. DocKnown(h) => DocKnown(h)'
      BY <2>1, <2>2 DEF DocKnown, DocShown, Unrecorded, Holders, OthersKept
    <3> QED
      BY <1>2, <2>1, <3>1, <3>2, <3>3
  <2> QED
    BY <2>4, <2>5
<1> QED
  BY <1>4, <1>5, <1>6, <1>7, <1>8, <1>9, <1>11, <1>12, <1>13, StepKinds

(* The stream of h has a context that says it may be deleted. *)
MarkKnown(h) == \E c \in Contexts : attached[target[h]] = c /\ Flagged(c)

(* So does the delete-pending mark of a stream that is referenced.         *)
LEMMA PendingSeenStep ==
  ASSUME Inv, Next
  PROVE  PendingSeen'
<1> USE NoneApart
<1>0. /\ TypeOK /\ TypeOK' /\ PendingSeen /\ IrpShape /\ HandleShape
      /\ OneContextPerStream /\ ContextSeen /\ OneChange
  BY TypeOKStep DEF Inv
<1>a. SUFFICES ASSUME NEW h \in Handles, target'[h] # NoStream,
                      why'[target'[h]] = {}, pending'[target'[h]]
               PROVE  MarkKnown(h)'
  BY <1>0 DEF PendingSeen, MarkKnown, Watched
<1>b. target'[h] \in Streams
  BY <1>a, <1>0 DEF TypeOK
<1>1. ASSUME target'[h] = target[h], why[target[h]] = {}, pending[target[h]]
      PROVE  MarkKnown(h)
  BY <1>a, <1>0, <1>1 DEF PendingSeen, MarkKnown, Watched, TypeOK
<1>2. ASSUME NEW c, RecordKept(c), Flagged(c) PROVE Flagged(c)'
  BY <1>2 DEF RecordKept, Flagged, Unrecorded, Holders
<1>3. ASSUME target'[h] = target[h], pending'[target[h]] = pending[target[h]],
             \A s \in Streams : Watched(s)' => Watched(s),
             NEW t \in Threads, Attaches(t) \/ UNCHANGED attached,
             \/ Passing(t) \/ Closes(t) \/ Attaches(t) \/ FsCleanup(t) \/ DfNotifyDelete(t)
             \/ \E r \in Streams : Opens(t, r)
      PROVE  MarkKnown(h)'
  <2>1. PICK c \in Contexts : attached[target[h]] = c /\ Flagged(c)
    BY <1>a, <1>b, <1>1, <1>3 DEF Watched, MarkKnown
  <2>2. RecordKept(c)
    BY <1>b, <1>3, <2>1, RecordsKept
  <2>3. attached'[target[h]] = c
    BY <1>b, <1>0, <1>3, <2>1 DEF Attaches, TypeOK
  <2> QED
    BY <1>2, <1>3, <2>1, <2>2, <2>3 DEF MarkKnown
<1>4. ASSUME NEW t \in Threads, Passing(t) \/ DfNotifyDelete(t) PROVE MarkKnown(h)'
  <2>1. /\ UNCHANGED <<pending, target, attached>>
        /\ \A s \in Streams : Watched(s)' => Watched(s)
    BY <1>4 DEF Passing, DfNotifyDelete, Watched
  <2> QED
    BY <1>3, <1>4, <2>1
<1>5. ASSUME NEW t \in Threads, NEW s \in Streams, Opens(t, s) PROVE MarkKnown(h)'
  <2>1. h # hnd[t]
    BY <1>a, <1>0, <1>5 DEF Opens, TypeOK
  <2>2. /\ target'[h] = target[h] /\ UNCHANGED <<attached, pending>>
        /\ \A r \in Streams : Watched(r)' => Watched(r)
    BY <1>0, <1>5, <2>1 DEF Opens, TypeOK
  <2> QED
    BY <1>3, <1>5, <2>2
<1>6. ASSUME NEW t \in Threads, Closes(t) PROVE MarkKnown(h)'
  <2>1. target'[h] = target[h] /\ UNCHANGED <<attached, pending, why>>
    BY <1>a, <1>0, <1>6 DEF Closes, TypeOK
  <2> QED
    BY <1>3, <1>6, <2>1 DEF Watched
<1>7. ASSUME NEW t \in Threads, Attaches(t) PROVE MarkKnown(h)'
  BY <1>3, <1>7 DEF Attaches, Watched
<1>8. ASSUME NEW s \in Streams, TeardownStream(s) PROVE MarkKnown(h)'
  <2>1. UNCHANGED <<pending, target, why, op, flag, pc, ctx, deleteOnClose, setDisp>>
    BY <1>8 DEF TeardownStream
  <2>2. attached'[target[h]] = attached[target[h]]
    BY <1>b, <1>0, <1>8, <2>1 DEF TeardownStream, TypeOK
  <2> QED
    BY <1>a, <1>1, <2>1, <2>2 DEF MarkKnown, Flagged, Unrecorded, Holders
<1>9. ASSUME NEW t \in Threads, FsCleanup(t) PROVE MarkKnown(h)'
  <2>1. /\ UNCHANGED <<target, attached, why>> /\ pc[t] = "fsCleanup"
        /\ pending' = [pending EXCEPT ![StreamOf(t)] = pending[StreamOf(t)] \/ docHandle[hnd[t]]]
    BY <1>9 DEF FsCleanup
  <2>2. hnd[t] \in Handles /\ StreamOf(t) \in Streams /\ target[h] \in Streams
    BY <1>b, <2>1, Placed
  <2>3. CASE pending[target[h]]
    BY <1>a, <1>0, <1>3, <1>9, <2>1, <2>2, <2>3 DEF Watched, TypeOK
  <2>4. CASE ~pending[target[h]]
    <3>1. target[h] = StreamOf(t) /\ docHandle[hnd[t]]
      BY <1>a, <1>0, <2>1, <2>2, <2>4 DEF TypeOK
    <3>2. \A u \in Threads : ~(hnd[u] = hnd[t] /\ op[u] = "create"
                               /\ pc[u] \in {"getContext", "setContext", "contextReady"})
      BY <1>9, <2>1 DEF Inv, CreatorAlone
    <3>3. PICK c \in Contexts :
            /\ attached[target[h]] = c
            /\ \/ deleteOnClose[c]
               \/ \E u \in Unrecorded(c) : op[u] = "onClose" /\ flag[u]
      <4>1. DocHandleSeen
        BY DEF Inv
      <4>2. /\ attached[target[h]] # NoContext
            /\ \/ deleteOnClose[attached[target[h]]]
               \/ \E u \in Unrecorded(attached[target[h]]) : op[u] = "onClose" /\ flag[u]
        BY <1>a, <2>1, <2>2, <3>1, <3>2, <4>1 DEF DocHandleSeen, Watched
      <4> QED
        BY <1>0, <2>2, <4>2 DEF TypeOK
    <3>4. Flagged(c)
      BY <3>3 DEF Flagged
    <3>5. RecordKept(c)
      BY <1>9, <2>2, <3>3, RecordsKept
    <3> QED
      BY <1>2, <2>1, <3>3, <3>4, <3>5 DEF MarkKnown
  <2> QED
    BY <2>3, <2>4
(* The steps that write a flag of the context of t. *)
<1>10. ASSUME NEW t \in Threads, UNCHANGED <<pending, target, attached>>,
              \A s \in Streams : Watched(s)' => Watched(s),
              pc[t] \in WithContext \ {"setContext", "release"},
              \A c \in Contexts \ {ctx[t]} : RecordKept(c),
              target[h] = StreamOf(t) /\ Flagged(ctx[t]) /\ attached[StreamOf(t)] = ctx[t]
                => \A c \in Contexts : c = ctx[t] => Flagged(c)'
       PROVE  MarkKnown(h)'
  <2>1. PICK c \in Contexts : attached[target[h]] = c /\ Flagged(c)
    <3>1. target'[h] = target[h] /\ pending[target[h]] /\ target[h] \in Streams
      BY <1>a, <1>b, <1>10
    <3>2. why[target[h]] = {}
      BY <1>a, <1>10, <3>1 DEF Watched
    <3> QED
      BY <1>1, <3>1, <3>2 DEF MarkKnown
  <2>2. c = ctx[t] => target[h] = StreamOf(t)
    <3>1. attached[StreamOf(t)] = ctx[t] /\ StreamOf(t) \in Streams /\ ctx[t] \in Contexts
      BY <1>10, Placed DEF WithContext
    <3> QED
      BY <1>b, <1>0, <1>10, <2>1, <3>1 DEF OneContextPerStream
  <2>3. Flagged(c)'
    BY <1>2, <1>10, <2>1, <2>2
  <2> QED
    BY <1>10, <2>1, <2>3 DEF MarkKnown
<1>11. ASSUME NEW t \in Threads, WinIOPostCreate(t) PROVE MarkKnown(h)'
  <2>1. /\ UNCHANGED <<pending, target, attached, hnd, op, flag, ctx, setDisp>>
        /\ deleteOnClose' = [deleteOnClose EXCEPT ![ctx[t]] = flag[t]]
        /\ pc' = [pc EXCEPT ![t] = "release"] /\ pc[t] = "contextReady"
        /\ \/ why' = why /\ (deleteOnClose[ctx[t]] => flag[t])
           \/ why' = [why EXCEPT ![StreamOf(t)] = @ \cup {"reopen"}]
    BY <1>11 DEF WinIOPostCreate
  <2>2. \A s \in Streams : Watched(s)' => Watched(s)
    BY <1>11, OthersStay DEF Step, Create
  <2>3. ctx[t] \in Contexts /\ StreamOf(t) \in Streams
    BY <2>1, Placed DEF WithContext
  <2>4. ASSUME NEW c \in Contexts \ {ctx[t]} PROVE RecordKept(c)
    <3>1. deleteOnClose'[c] = deleteOnClose[c] /\ setDisp'[c] = setDisp[c]
      BY <1>0, <2>1, <2>4 DEF TypeOK
    <3>2. \A u \in Threads : u \in Unrecorded(c)' <=> u \in Unrecorded(c)
      BY <1>0, <2>1 DEF Unrecorded, Holders, TypeOK
    <3> QED
      BY <2>1, <3>1, <3>2 DEF RecordKept
  <2>5. target[h] = StreamOf(t) => (deleteOnClose[ctx[t]] => flag[t])
    BY <1>a, <1>0, <2>1, <2>3, BlamedSince
  <2>6. ASSUME target[h] = StreamOf(t), Flagged(ctx[t]), NEW c \in Contexts, c = ctx[t]
        PROVE  Flagged(c)'
    BY <1>0, <2>1, <2>5, <2>6 DEF Flagged, Unrecorded, Holders, TypeOK
  <2> QED
    BY <1>10, <2>1, <2>2, <2>4, <2>6 DEF WithContext
<1>12. ASSUME NEW t \in Threads, WinIOPostSetInformation(t) PROVE MarkKnown(h)'
  <2>1. /\ UNCHANGED <<pending, target, attached, hnd, op, flag, ctx>>
        /\ pc' = [pc EXCEPT ![t] = "decrement"] /\ pc[t] = "postSet"
    BY <1>12 DEF WinIOPostSetInformation
  <2>2. \A s \in Streams : Watched(s)' => Watched(s)
    BY <1>12, OthersStay DEF Step, SetInfo
  <2>3. /\ ctx[t] \in Contexts /\ StreamOf(t) \in Streams
        /\ attached[StreamOf(t)] = ctx[t] /\ op[t] \in Dispositions
    BY <1>0, <2>1, Placed DEF WithContext, IrpShape
  <2>4. ASSUME NEW c \in Contexts \ {ctx[t]} PROVE RecordKept(c)
    BY <1>0, <1>12, <2>1, <2>3, <2>4
       DEF WinIOPostSetInformation, RecordKept, Unrecorded, Holders, TypeOK
  <2>5. ASSUME target[h] = StreamOf(t) PROVE Unrecorded(ctx[t]) = {t}
    <3>1. Watched(StreamOf(t))
      BY <1>a, <2>1, <2>2, <2>3, <2>5 DEF Watched
    <3>2. \A u \in Unrecorded(ctx[t]) : u \in ChangesInFlight(attached[StreamOf(t)])
      BY <1>0, <2>3 DEF Unrecorded, ChangesInFlight, Holders, IrpShape
    <3>3. t \in Unrecorded(ctx[t])
      BY <2>1 DEF Unrecorded, Holders
    <3> QED
      BY <1>0, <2>3, <3>1, <3>2, <3>3 DEF OneChange
  <2>6. ASSUME target[h] = StreamOf(t), Flagged(ctx[t]), NEW c \in Contexts, c = ctx[t]
        PROVE  Flagged(c)'
    <3>1. Unrecorded(c)' = {}
      BY <1>0, <2>1, <2>5, <2>6 DEF Unrecorded, Holders, TypeOK
    <3>2. CASE op[t] = "disposition"
      <4>1. setDisp' = [setDisp EXCEPT ![c] = flag[t]] /\ UNCHANGED deleteOnClose
        BY <1>12, <2>6, <3>2 DEF WinIOPostSetInformation
      <4>2. deleteOnClose[c] \/ flag[t]
        BY <2>5, <2>6, <3>2 DEF Flagged
      <4> QED
        BY <1>0, <2>6, <3>1, <4>1, <4>2 DEF Flagged, TypeOK
    <3>3. CASE op[t] = "onClose"
      <4>1. /\ deleteOnClose' = [deleteOnClose EXCEPT ![c] = flag[t]] /\ UNCHANGED setDisp
            /\ \/ deleteOnClose[c] => flag[t]
               \/ why' = [why EXCEPT ![StreamOf(t)] = @ \cup {"clear"}]
        BY <1>12, <2>6, <3>3 DEF WinIOPostSetInformation
      <4>2. deleteOnClose[c] => flag[t]
        BY <1>a, <1>0, <2>1, <2>3, <2>6, <4>1, BlamedSince
      <4>3. flag[t] \/ setDisp[c]
        BY <2>5, <2>6, <4>2 DEF Flagged
      <4> QED
        BY <1>0, <2>6, <3>1, <4>1, <4>3 DEF Flagged, TypeOK
    <3> QED
      BY <2>3, <3>2, <3>3 DEF Dispositions
  <2> QED
    BY <1>10, <2>1, <2>2, <2>4, <2>6 DEF WithContext
<1>13. ASSUME NEW t \in Threads, FsSetInformation(t) PROVE MarkKnown(h)'
  <2>1. /\ UNCHANGED <<target, attached, deleteOnClose, setDisp, ctx, why>>
        /\ pending' = IF op[t] = "disposition"
                      THEN [pending EXCEPT ![StreamOf(t)] = flag[t]] ELSE pending
        /\ pc[t] = "fsSet"
    BY <1>13 DEF FsSetInformation
  <2>2. OthersKept(t)
    BY <1>13, OthersStay DEF Step, SetInfo
  <2>3. StreamOf(t) \in Streams /\ hnd[t] \in Handles
    BY <2>1, Placed
  <2>4. ctx[t] # NoContext
        => /\ attached[StreamOf(t)] = ctx[t] /\ ctx[t] \in Contexts
           /\ op[t] \in Dispositions
              => pc'[t] = "postSet" /\ op'[t] = op[t] /\ flag'[t] = flag[t]
    BY <1>0, <1>13, <2>1 DEF FsSetInformation, ReturnTo, OneContextPerStream, TypeOK
  <2>5. CASE op[t] = "disposition" /\ target[h] = StreamOf(t)
    <3>1. flag[t]
      BY <1>a, <1>0, <2>1, <2>3, <2>5 DEF TypeOK
    <3>2. ctx[t] # NoContext
      BY <1>a, <1>0, <2>1, <2>5 DEF ContextSeen, Dispositions, Watched
    <3>3. t \in Unrecorded(ctx[t])' /\ flag'[t]
      BY <2>1, <2>4, <2>5, <3>1, <3>2 DEF Unrecorded, Holders, Dispositions
    <3> QED
      BY <2>1, <2>4, <2>5, <3>2, <3>3 DEF MarkKnown, Flagged, Unrecorded, Holders
  <2>6. CASE ~(op[t] = "disposition" /\ target[h] = StreamOf(t))
    <3>1. PICK c \in Contexts : attached[target[h]] = c /\ Flagged(c)
      BY <1>a, <1>b, <1>0, <1>1, <2>1, <2>3, <2>6 DEF MarkKnown, TypeOK
    <3>2. t \in Unrecorded(c)' => op'[t] = "onClose"
      <4>1. SUFFICES ASSUME t \in Unrecorded(c)' PROVE op'[t] = "onClose"
        OBVIOUS
      <4>2. ctx[t] = c /\ pc'[t] = "postSet" /\ c # NoContext
        BY <2>1, <4>1 DEF Unrecorded, Holders
      <4>3. target[h] = StreamOf(t)
        BY <1>b, <1>0, <2>1, <2>3, <2>4, <3>1, <4>2 DEF OneContextPerStream
      <4>4. op[t] \in Dispositions
        BY <1>0, <1>13, <4>2 DEF FsSetInformation, ReturnTo, TypeOK
      <4> QED
        BY <2>4, <2>6, <4>2, <4>3, <4>4 DEF Dispositions
    <3>3. \A u \in Threads \ {t} : u \in Unrecorded(c)' <=> u \in Unrecorded(c)
      BY <2>2 DEF OthersKept, Unrecorded, Holders
    <3>4. t \notin Unrecorded(c)
      BY <2>1 DEF Unrecorded
    <3>5. Flagged(c)'
      BY <2>1, <2>2, <3>1, <3>2, <3>3, <3>4 DEF Flagged, OthersKept, Unrecorded, Holders
    <3> QED
      BY <2>1, <3>1, <3>5 DEF MarkKnown
  <2> QED
    BY <2>5, <2>6
<1> QED
  BY <1>4, <1>5, <1>6, <1>7, <1>8, <1>9, <1>11, <1>12, <1>13, StepKinds

-----------------------------------------------------------------------------
(* A cleanup that sees the deletion of a watched stream goes on to report. *)

(* The cleanup that follows a deletion finds the flags and goes on.        *)
LEMMA DeletionChasedStep ==
  ASSUME Inv, Next
  PROVE  DeletionChased'
<1> USE NoneApart
<1>0. /\ TypeOK /\ TypeOK' /\ IrpShape /\ HandleShape /\ OneContextPerStream
      /\ ContextSeen /\ PendingSeen /\ MarkedLife /\ NotifiedReported /\ DeletionChased
      /\ RefsExact /\ NumOpsExact
  BY TypeOKStep DEF Inv
<1>a. SUFFICES ASSUME NEW s \in Streams, file'[s] = "deleted", why'[s] = {}, reports'[s] = 0
               PROVE  \E u \in Threads : Chases(u, s)'
  BY DEF DeletionChased, Watched
(* The chase that was on is not disturbed by another thread. *)
<1>1. ASSUME NEW t \in Threads, Step(t), NEW u \in Threads \ {t}, Chases(u, s),
             file[s] = "deleted"
      PROVE  Chases(u, s)'
  <2>1. OthersKept(t) /\ (hnd[u] \in Handles => target'[hnd[u]] = target[hnd[u]])
    BY <1>1, OthersStay
  <2>2. hnd[u] \in Handles /\ pc[u] # "idle"
    BY <1>1, Placed DEF Chases
  <2>3. ASSUME pc[u] = "readFlags", Unrecorded(ctx[u]) = {}
        PROVE  Unrecorded(ctx[u])' = {}
    <3>1. t \notin Unrecorded(ctx[u])'
      <4>1. SUFFICES ASSUME ctx'[t] = ctx[u], pc'[t] = "postSet" PROVE FALSE
        BY <2>1 DEF Unrecorded, Holders, OthersKept
      <4>2. ctx[u] \in Contexts /\ attached[s] = ctx[u]
        BY <1>1, <2>3, Placed DEF WithContext, Chases
      <4>3. pc[t] # "postSet" \/ ctx[t] # ctx[u]
        BY <2>3 DEF Unrecorded, Holders
      <4>4. CASE FsSetInformation(t)
        <5>1. /\ pc[t] = "fsSet" /\ StreamOf(t) \in Streams /\ file[StreamOf(t)] = "live"
              /\ ctx[t] = ctx[u]
          BY <4>1, <4>4, Placed DEF FsSetInformation
        <5>2. attached[StreamOf(t)] = ctx[t]
          BY <1>0, <4>2, <5>1 DEF OneContextPerStream
        <5> QED
          BY <1>a, <1>0, <1>1, <4>2, <5>1, <5>2 DEF OneContextPerStream
      <4>5. CASE ~FsSetInformation(t)
        <5>1. Passing(t) \/ Closes(t) \/ Attaches(t) \/ (\E r \in Streams : Opens(t, r))
                \/ WinIOPostCreate(t)
                \/ WinIOPostSetInformation(t) \/ FsCleanup(t) \/ DfNotifyDelete(t)
          BY <1>1, <4>5, PassingStep, FsCreateOpens, FsCloseCloses, SetAttaches
             DEF Step, Create, SetInfo, Cleanup, Close, Context
        <5>2. pc'[t] # "postSet"
          BY <1>0, <5>1 DEF Passing, Closes, Attaches, Opens, WinIOPostCreate,
             WinIOPostSetInformation, FsCleanup, ReturnTo, DfNotifyDelete, TypeOK
        <5> QED
          BY <4>1, <5>2
      <4> QED
        BY <4>4, <4>5
    <3> QED
      BY <2>1, <2>3, <3>1 DEF Unrecorded, Holders, OthersKept
  <2> QED
    BY <1>1, <2>1, <2>2, <2>3 DEF Chases, OthersKept
<1>2. file[s] = "deleted" => why[s] = {} /\ reports[s] = 0 /\ \E u \in Threads : Chases(u, s)
  <2>1. why[s] = {} /\ reports[s] = 0
    <3>1. CASE \E t \in Threads : Step(t)
      <4>1. PICK t \in Threads : Step(t)
        BY <3>1
      <4>2. Watched(s)' => Watched(s)
        BY <4>1, OthersStay
      <4>3. reports' = reports \/ DfNotifyDelete(t)
        BY <4>1
           DEF Step, Create, WinIOPreCreate, FsCreate, FsCreateFails, WinIOPostCreate,
               SetInfo, WinIOPreSetInformation, WinIOPreDisposition, WinIOPreRename,
               FsSetInformation, FsSetInformationFails, WinIOPostSetInformation,
               WinIOPostDecrement, Cleanup, WinIOPreCleanup, FsCleanup,
               WinIOPostCleanup_NumOps, WinIOPostCleanup_Flags, WinIOPostCleanup_Notified,
               DfProcessDelete, Close, WinIOPreClose, FsClose,
               Context, CtxGetOrSetContext_Get, CtxGetOrSetContext_Set,
               CtxGetOrSetContext_Fail, CreateIrpContext_Retry, CloseIrpContext
      <4>4. reports'[s] = 0 => reports[s] = 0
        BY <1>0, <4>3 DEF DfNotifyDelete, TypeOK
      <4> QED
        BY <1>a, <4>2, <4>4 DEF Watched
    <3>2. CASE \E r \in Streams : TeardownStream(r)
      BY <1>a, <3>2 DEF TeardownStream
    <3> QED
      BY <3>1, <3>2 DEF Next
  <2> QED
    BY <1>0, <2>1 DEF DeletionChased, Watched
(* The chaser goes on. *)
<1>3. ASSUME NEW t \in Threads, Step(t), Chases(t, s), file[s] = "deleted"
      PROVE  Chases(t, s)'
  <2>1. /\ hnd[t] \in Handles /\ target[hnd[t]] = s /\ ctx[t] \in Contexts
        /\ attached[s] = ctx[t] /\ why[s] = {} /\ reports[s] = 0
        /\ pc[t] \in {"readNumOps", "readFlags", "readNotified", "query", "notify"}
    BY <1>2, <1>3, Placed DEF Chases, WithContext
  <2>2. \/ WinIOPostCleanup_NumOps(t) \/ WinIOPostCleanup_Flags(t)
        \/ WinIOPostCleanup_Notified(t) \/ DfProcessDelete(t) \/ DfNotifyDelete(t)
    BY <1>3, <2>1
       DEF Step, Create, WinIOPreCreate, Send, FsCreate, FsCreateFails, WinIOPostCreate,
           SetInfo, WinIOPreSetInformation, WinIOPreDisposition, WinIOPreRename,
           FsSetInformation, FsSetInformationFails, WinIOPostSetInformation,
           WinIOPostDecrement, Cleanup, WinIOPreCleanup, FsCleanup,
           Close, WinIOPreClose, FsClose,
           Context, CtxGetOrSetContext_Get, CtxGetOrSetContext_Set,
           CtxGetOrSetContext_Fail, CreateIrpContext_Retry, CloseIrpContext
  <2>3. CASE WinIOPostCleanup_NumOps(t)
    <3>1. UNCHANGED <<target, hnd, ctx>> /\ pc[t] = "readNumOps"
      BY <2>3 DEF WinIOPostCleanup_NumOps
    <3>2. CASE numOps[ctx[t]] > 0
      <4>1. pc'[t] = "readNotified"
        BY <1>0, <2>3, <3>2 DEF WinIOPostCleanup_NumOps, TypeOK
      <4> QED
        BY <2>1, <3>1, <4>1 DEF Chases
    <3>3. CASE ~(numOps[ctx[t]] > 0)
      <4>1. pc' = [pc EXCEPT ![t] = "readFlags"]
        BY <2>3, <3>3 DEF WinIOPostCleanup_NumOps
      <4>2. Unrecorded(ctx[t]) = {}
        BY <1>0, <3>3, InFlightIsCounted DEF Unrecorded, Holders
      <4>3. Unrecorded(ctx[t])' = {}
        BY <1>0, <3>1, <4>1, <4>2 DEF Unrecorded, Holders, TypeOK
      <4> QED
        BY <1>0, <2>1, <3>1, <4>1, <4>3 DEF Chases, TypeOK
    <3> QED
      BY <3>2, <3>3
  <2>4. CASE WinIOPostCleanup_Flags(t)
    <3>1. UNCHANGED <<target, hnd>> /\ pc[t] = "readFlags"
      BY <2>4 DEF WinIOPostCleanup_Flags
    <3>2. Unrecorded(ctx[t]) = {}
      BY <1>3, <3>1 DEF Chases
    <3>3. Flagged(ctx[t])
      <4>1. pending[s] /\ s # NoStream
        BY <1>0, <1>3 DEF MarkedLife
      <4> QED
        BY <1>0, <2>1, <4>1 DEF PendingSeen, Watched
    <3>4. setDisp[ctx[t]] \/ deleteOnClose[ctx[t]]
      BY <3>2, <3>3 DEF Flagged
    <3>5. pc'[t] = "readNotified"
      BY <1>0, <2>4, <3>4 DEF WinIOPostCleanup_Flags, TypeOK
    <3> QED
      BY <2>1, <3>1, <3>5 DEF Chases
  <2>5. CASE WinIOPostCleanup_Notified(t)
    <3>1. isNotified[ctx[t]] = 0
      BY <1>0, <2>1 DEF NotifiedReported, TypeOK
    <3> QED
      BY <1>0, <2>1, <2>5, <3>1 DEF WinIOPostCleanup_Notified, Chases, TypeOK
  <2>6. CASE DfProcessDelete(t)
    <3>1. UNCHANGED <<target, hnd>>
      BY <2>6 DEF DfProcessDelete
    <3>2. why' # [why EXCEPT ![s] = @ \cup {"error"}]
      BY <1>a, <1>0, BlamedSince
    <3>3. pc' = [pc EXCEPT ![t] = "notify"]
      BY <1>3, <2>1, <2>6, <3>2 DEF DfProcessDelete
    <3> QED
      BY <1>0, <2>1, <3>1, <3>3 DEF Chases, TypeOK
  <2>7. CASE DfNotifyDelete(t)
    <3>1. isNotified[ctx[t]] = 0
      BY <1>0, <2>1 DEF NotifiedReported, TypeOK
    <3>2. reports'[s] = 1
      BY <1>0, <2>1, <2>7, <3>1 DEF DfNotifyDelete, TypeOK
    <3> QED
      BY <1>a, <3>2
  <2> QED
    BY <2>2, <2>3, <2>4, <2>5, <2>6, <2>7
<1>4. ASSUME NEW t \in Threads, FsCleanup(t), file[s] # "deleted" PROVE Chases(t, s)'
  <2>1. /\ UNCHANGED <<hnd, target>> \/ ctx[t] = NoContext
        /\ pc[t] = "fsCleanup" /\ UNCHANGED <<target, why>>
    BY <1>4 DEF FsCleanup, ReturnTo
  <2>2. s = StreamOf(t) /\ hnd[t] \in Handles
    BY <1>a, <1>0, <1>4, <2>1, Placed DEF FsCleanup, TypeOK
  <2>3. ctx[t] # NoContext
    BY <1>a, <1>0, <2>1, <2>2 DEF ContextSeen, Watched
  <2>4. pc'[t] = "readNumOps" /\ hnd'[t] = hnd[t]
    BY <1>0, <1>4, <2>3 DEF FsCleanup, ReturnTo, TypeOK
  <2> QED
    BY <2>1, <2>2, <2>4 DEF Chases
<1>5. CASE \E t \in Threads : Step(t)
  <2>1. PICK t \in Threads : Step(t)
    BY <1>5
  <2>2. CASE file[s] = "deleted"
    <3>1. PICK u \in Threads : Chases(u, s)
      BY <1>2, <2>2
    <3> QED
      BY <1>1, <1>3, <2>1, <2>2, <3>1
  <2>3. CASE file[s] # "deleted"
    <3>1. file' = file \/ FsCleanup(t) \/ FsCreate(t)
      BY <2>1
         DEF Step, Create, WinIOPreCreate, FsCreateFails, WinIOPostCreate,
             SetInfo, WinIOPreSetInformation, WinIOPreDisposition, WinIOPreRename,
             FsSetInformation, FsSetInformationFails, WinIOPostSetInformation,
             WinIOPostDecrement, Cleanup, WinIOPreCleanup, DfNotifyDelete,
             WinIOPostCleanup_NumOps, WinIOPostCleanup_Flags, WinIOPostCleanup_Notified,
             DfProcessDelete, Close, WinIOPreClose, FsClose,
             Context, CtxGetOrSetContext_Get, CtxGetOrSetContext_Set,
             CtxGetOrSetContext_Fail, CreateIrpContext_Retry, CloseIrpContext
    <3>2. ~FsCreate(t)
      BY <1>a, <1>0, <2>3 DEF FsCreate, TypeOK
    <3> QED
      BY <1>a, <1>4, <2>3, <3>1, <3>2
  <2> QED
    BY <2>2, <2>3
<1>6. CASE \E r \in Streams : TeardownStream(r)
  <2>1. UNCHANGED <<file, hnd, target, pc, ctx>>
    BY <1>6 DEF TeardownStream
  <2> QED
    BY <1>a, <1>2, <2>1 DEF Chases, Unrecorded, Holders
<1> QED
  BY <1>5, <1>6 DEF Next

-----------------------------------------------------------------------------
(* What is known of the watched streams.                                   *)
Watch == /\ CreatorAlone /\ ContextSeen /\ OneChange
         /\ DocHandleSeen /\ PendingSeen /\ MarkedLife
         /\ NotifiedReported /\ DeletionChased

(* No stream exists at first.                                              *)
LEMMA WatchInit == Init => Watch
  BY NoneApart
     DEF Init, Watch, CreatorAlone, ContextSeen, OneChange, DocHandleSeen, PendingSeen,
         MarkedLife, NotifiedReported, DeletionChased, Dispositions

(* A stuttering step changes none of it.                                   *)
LEMMA WatchStutter == Watch /\ UNCHANGED vars => Watch'
  BY DEF vars, Watch, CreatorAlone, ContextSeen, OneChange, DocHandleSeen, PendingSeen,
         MarkedLife, NotifiedReported, DeletionChased, Watched, Unrecorded, Flagged,
         ChangesInFlight, Holders, Chases

-----------------------------------------------------------------------------
(* The invariant is inductive. *)

LEMMA InvInit == Init => Inv
<1> SUFFICES ASSUME Init PROVE Inv
  OBVIOUS
<1>1. PrivateContext /\ OneContextPerStream
  BY NoneApart DEF Init, PrivateContext, OneContextPerStream, Unsettled
<1> QED
  BY <1>1, TypeOKInit, RefsExactInit, ShapeInit, NumOpsExactInit, ReportedInit, WatchInit
     DEF Inv, Reported, Watch

(* The steps above, together: Inv is inductive. *)
LEMMA InvStep == Inv /\ [Next]_vars => Inv'
<1> SUFFICES ASSUME Inv, [Next]_vars PROVE Inv'
  OBVIOUS
<1>1. CASE Next
  <2>1. TypeOK' /\ IrpShape' /\ HandleShape'
    BY <1>1, TypeOKStep, IrpShapeStep, HandleShapeStep
  <2>2. RefsExact' /\ NumOpsExact'
    BY <1>1, RefsExactStep, NumOpsExactStep
  <2>3. PrivateContext' /\ OneContextPerStream'
    BY <1>1, PrivateContextStep, OneContextPerStreamStep
  <2>4. Reported'
    BY <1>1, ReportedStep
  <2>5. Watch'
    BY <1>1, CreatorAloneStep, ContextSeenStep, OneChangeStep, DocHandleSeenStep,
       PendingSeenStep, MarkedLifeStep, NotifiedReportedStep, DeletionChasedStep
       DEF Watch
  <2> QED
    BY <2>1, <2>2, <2>3, <2>4, <2>5 DEF Inv, Reported, Watch
<1>2. CASE UNCHANGED vars
  <2>1. TypeOK' /\ IrpShape' /\ HandleShape' /\ RefsExact' /\ NumOpsExact'
    BY <1>2 DEF vars, Inv, TypeOK, IrpShape, HandleShape, RefsExact, NumOpsExact,
                Holders, Attachments, ChangesInFlight
  <2>2. PrivateContext' /\ OneContextPerStream' /\ Reported'
    BY <1>2 DEF vars, Inv, PrivateContext, OneContextPerStream, Reported,
                ReportedOnce, ReportsTracked
  <2>3. Watch'
    BY <1>2, WatchStutter DEF Inv, Watch
  <2> QED
    BY <2>1, <2>2, <2>3 DEF Inv, Reported, Watch
<1> QED
  BY <1>1, <1>2

(* Inv holds in every reachable state. *)
THEOREM Invariance == Spec => []Inv
  BY InvInit, InvStep, PTL DEF Spec

(* Every field of every stream context and IRP keeps its type; in          *)
(* particular NumOps and the reference counts never go below zero.         *)
THEOREM TypeCorrect == Spec => []TypeOK
<1>1. Inv => TypeOK
  BY DEF Inv
<1> QED
  BY <1>1, Invariance, PTL

(* The reference count of a stream context is the number of its users and  *)
(* of the references the rename error path has leaked: CloseIrpContext and *)
(* CtxGetOrSetContext never free a context that is in use.                 *)
THEOREM ReferencesExact == Spec => []RefsExact
<1>1. Inv => RefsExact
  BY DEF Inv
<1> QED
  BY <1>1, Invariance, PTL

(* NumOps counts the disposition changes in flight, whatever races.        *)
THEOREM ChangesCounted == Spec => []NumOpsExact
<1>1. Inv => NumOpsExact
  BY DEF Inv
<1> QED
  BY <1>1, Invariance, PTL

(* The callbacks of a stream share one context, and streams share none.    *)
THEOREM ContextUnique == Spec => []OneContextPerStream
<1>1. Inv => OneContextPerStream
  BY DEF Inv
<1> QED
  BY <1>1, Invariance, PTL

(* A deletion is reported at most once, and only after it has happened.    *)
THEOREM ReportUnique == Spec => []ReportedOnce
<1>1. Inv => ReportedOnce
  BY DEF Inv
<1> QED
  BY <1>1, Invariance, PTL

(* A deletion that is not reported has one of the reasons Blame names: a   *)
(* create without FILE_DELETE_ON_CLOSE or a set-information call took the  *)
(* flag back, disposition changes or the test of NumOps raced, the context *)
(* was missing, or an allocation or a query failed.  Nothing else that the *)
(* callbacks may do, in any order, loses a deletion.                       *)
THEOREM MissesExplained == Spec => []MissExplained
<1>1. ASSUME Inv PROVE MissExplained
  <2> SUFFICES ASSUME NEW s \in Streams, file[s] = "deleted", Quiet(s), why[s] = {}
               PROVE  reports[s] = 1
    BY DEF MissExplained
  <2>1. reports[s] \in Nat /\ reports[s] <= 1
    BY <1>1 DEF Inv, TypeOK, ReportedOnce
  <2>2. reports[s] # 0
    BY <1>1 DEF Inv, DeletionChased, Watched, Chases, Quiet
  <2> QED
    BY <2>1, <2>2
<1> QED
  BY <1>1, Invariance, PTL

-----------------------------------------------------------------------------
(* The promise is kept. *)

Excused == [s \in Streams |-> why[s] # {}]
Promised == [Promise!Next]_Promise!vars

(* A step that neither changes a stream nor reports may excuse one.        *)
LEMMA ExcusedStep ==
  ASSUME TypeOK, UNCHANGED <<file, reports>>,
         \/ UNCHANGED why
         \/ \E s \in Streams, r \in Reasons : why' = [why EXCEPT ![s] = @ \cup {r}]
  PROVE  Promised
<1>1. CASE UNCHANGED why
  BY <1>1 DEF Promised, Promise!vars
<1>2. CASE \E s \in Streams, r \in Reasons : why' = [why EXCEPT ![s] = @ \cup {r}]
  <2>1. PICK s \in Streams, r \in Reasons : why' = [why EXCEPT ![s] = @ \cup {r}]
    BY <1>2
  <2>2. Excused' = [Excused EXCEPT ![s] = TRUE]
    BY <2>1 DEF Excused, TypeOK
  <2>3. Promise!Excuse(s)
    BY <2>2 DEF Excused, Promise!Excuse
  <2> QED
    BY <2>3 DEF Promised, Promise!Next
<1> QED
  BY <1>1, <1>2

(* The initial states map to initial states of the abstract specification. *)
LEMMA PromiseInit == Init => Promise!Init
  BY DEF Init, Promise!Init

(* Every step maps to a step of the abstract specification or to a         *)
(* stutter.                                                                *)
LEMMA PromiseStep ==
  ASSUME Inv, Next
  PROVE  Promised
<1> USE DEF Reasons
<1>0. TypeOK /\ IrpShape /\ HandleShape /\ ReportsTracked /\ ReportedOnce'
  BY InvStep DEF Inv
<1>i. \A t \in Threads : pc[t] \notin {"idle", "fsCreate", "release"} => StreamOf(t) \in Streams
  BY <1>0 DEF IrpShape, HandleShape, TypeOK
<1>1. ASSUME NEW t \in Threads, WinIOPreCreate(t) PROVE Promised
  BY <1>0, <1>i, <1>1, ExcusedStep DEF WinIOPreCreate
<1>2. ASSUME NEW t \in Threads, FsCreate(t) PROVE Promised
  <2>1. PICK s \in Streams :
          /\ \/ file' = file
             \/ file[s] = "absent" /\ file' = [file EXCEPT ![s] = "live"]
          /\ \/ why' = [why EXCEPT ![s] = why[s] \cup {"blind"}]
             \/ why' = why
    BY <1>2 DEF FsCreate
  <2>2. UNCHANGED reports
    BY <1>2 DEF FsCreate
  <2>3. CASE file' = file
    BY <1>0, <2>1, <2>2, <2>3, ExcusedStep
  <2>4. CASE file[s] = "absent" /\ file' = [file EXCEPT ![s] = "live"]
    <3>1. \E e \in BOOLEAN : Excused' = [Excused EXCEPT ![s] = Excused[s] \/ e]
      <4>1. CASE why' = why
        <5>1. Excused' = [Excused EXCEPT ![s] = Excused[s] \/ FALSE]
          BY <4>1 DEF Excused
        <5> QED
          BY <5>1
      <4>2. CASE why' = [why EXCEPT ![s] = why[s] \cup {"blind"}]
        <5>1. Excused' = [Excused EXCEPT ![s] = Excused[s] \/ TRUE]
          BY <1>0, <4>2 DEF Excused, TypeOK
        <5> QED
          BY <5>1
      <4> QED
        BY <2>1, <4>1, <4>2
    <3>2. Promise!Appear(s)
      BY <2>2, <2>4, <3>1 DEF Promise!Appear, Excused
    <3> QED
      BY <3>2 DEF Promised, Promise!Next
  <2> QED
    BY <2>1, <2>3, <2>4
<1>3. ASSUME NEW t \in Threads, FsCreateFails(t) PROVE Promised
  BY <1>0, <1>i, <1>3, ExcusedStep DEF FsCreateFails, ReturnTo
<1>4. ASSUME NEW t \in Threads, WinIOPostCreate(t) PROVE Promised
  BY <1>0, <1>i, <1>4, ExcusedStep DEF WinIOPostCreate
<1>5. ASSUME NEW t \in Threads, WinIOPreSetInformation(t) PROVE Promised
  <2>1. PICK h \in Handles : handle[h] = "open" /\ (UNCHANGED why \/ Unseen(target[h]))
    BY <1>5 DEF WinIOPreSetInformation
  <2>2. UNCHANGED <<file, reports>>
    BY <1>5 DEF WinIOPreSetInformation
  <2>3. target[h] \in Streams
    BY <1>0, <2>1 DEF HandleShape, TypeOK
  <2> QED
    BY <1>0, <2>1, <2>2, <2>3, ExcusedStep DEF Unseen
<1>6. ASSUME NEW t \in Threads, WinIOPreDisposition(t) PROVE Promised
  BY <1>0, <1>i, <1>6, ExcusedStep DEF WinIOPreDisposition
<1>7. ASSUME NEW t \in Threads, WinIOPreRename(t) PROVE Promised
  BY <1>0, <1>i, <1>7, ExcusedStep DEF WinIOPreRename
<1>8. ASSUME NEW t \in Threads, FsSetInformation(t) PROVE Promised
  BY <1>0, <1>i, <1>8, ExcusedStep DEF FsSetInformation, ReturnTo
<1>9. ASSUME NEW t \in Threads, FsSetInformationFails(t) PROVE Promised
  BY <1>0, <1>i, <1>9, ExcusedStep DEF FsSetInformationFails, ReturnTo
<1>10. ASSUME NEW t \in Threads, WinIOPostSetInformation(t) PROVE Promised
  BY <1>0, <1>i, <1>10, ExcusedStep DEF WinIOPostSetInformation
<1>11. ASSUME NEW t \in Threads, WinIOPostDecrement(t) PROVE Promised
  BY <1>0, <1>i, <1>11, ExcusedStep DEF WinIOPostDecrement
<1>12. ASSUME NEW t \in Threads, WinIOPreCleanup(t) PROVE Promised
  <2>1. PICK h \in Handles : handle[h] = "open" /\ (UNCHANGED why \/ Unseen(target[h]))
    BY <1>12 DEF WinIOPreCleanup
  <2>2. UNCHANGED <<file, reports>>
    BY <1>12 DEF WinIOPreCleanup
  <2>3. target[h] \in Streams
    BY <1>0, <2>1 DEF HandleShape, TypeOK
  <2> QED
    BY <1>0, <2>1, <2>2, <2>3, ExcusedStep DEF Unseen
<1>13. ASSUME NEW t \in Threads, FsCleanup(t) PROVE Promised
  <2> DEFINE h == hnd[t]
             s == target[h]
  <2>1. UNCHANGED <<reports, why>>
    BY <1>13 DEF FsCleanup
  <2>2. CASE file' = file
    BY <1>0, <2>1, <2>2, ExcusedStep
  <2>3. CASE file' = [file EXCEPT ![s] = "deleted"]
    <3>1. s \in Streams /\ file[s] = "live"
      BY <1>0, <1>13 DEF FsCleanup, IrpShape, HandleShape, TypeOK
    <3>2. Promise!Delete(s)
      BY <2>1, <2>3, <3>1 DEF Promise!Delete
    <3> QED
      BY <3>1, <3>2 DEF Promised, Promise!Next
  <2> QED
    BY <1>13, <2>2, <2>3 DEF FsCleanup
<1>14. ASSUME NEW t \in Threads, WinIOPostCleanup_NumOps(t) PROVE Promised
  BY <1>0, <1>i, <1>14, ExcusedStep DEF WinIOPostCleanup_NumOps
<1>15. ASSUME NEW t \in Threads, WinIOPostCleanup_Flags(t) PROVE Promised
  BY <1>0, <1>i, <1>15, ExcusedStep DEF WinIOPostCleanup_Flags
<1>16. ASSUME NEW t \in Threads, WinIOPostCleanup_Notified(t) PROVE Promised
  BY <1>0, <1>i, <1>16, ExcusedStep DEF WinIOPostCleanup_Notified
<1>17. ASSUME NEW t \in Threads, DfProcessDelete(t) PROVE Promised
  BY <1>0, <1>i, <1>17, ExcusedStep DEF DfProcessDelete
<1>18. ASSUME NEW t \in Threads, DfNotifyDelete(t) PROVE Promised
  <2> DEFINE s == StreamOf(t)
  <2>1. UNCHANGED <<file, why>>
    BY <1>18 DEF DfNotifyDelete
  <2>2. s \in Streams /\ file[s] = "deleted"
    BY <1>0, <1>18 DEF DfNotifyDelete, IrpShape, HandleShape, ReportsTracked, TypeOK
  <2>3. CASE reports' = reports
    BY <1>0, <2>1, <2>3, ExcusedStep
  <2>4. CASE reports' = [reports EXCEPT ![s] = reports[s] + 1]
    <3>1. reports[s] \in Nat /\ reports'[s] = reports[s] + 1 /\ reports'[s] <= 1
      BY <1>0, <2>2, <2>4 DEF ReportedOnce, TypeOK
    <3>2. reports[s] = 0
      BY <3>1
    <3>3. Promise!Tell(s)
      BY <2>1, <2>2, <2>4, <3>2 DEF Promise!Tell
    <3> QED
      BY <2>2, <3>3 DEF Promised, Promise!Next
  <2> QED
    BY <1>18, <2>3, <2>4 DEF DfNotifyDelete
<1>19. ASSUME NEW t \in Threads, WinIOPreClose(t) PROVE Promised
  BY <1>0, <1>i, <1>19, ExcusedStep DEF WinIOPreClose
<1>20. ASSUME NEW t \in Threads, FsClose(t) PROVE Promised
  BY <1>0, <1>i, <1>20, ExcusedStep DEF FsClose, ReturnTo
<1>21. ASSUME NEW t \in Threads, CtxGetOrSetContext_Get(t) PROVE Promised
  BY <1>0, <1>i, <1>21, ExcusedStep DEF CtxGetOrSetContext_Get
<1>22. ASSUME NEW t \in Threads, CtxGetOrSetContext_Set(t) PROVE Promised
  BY <1>0, <1>i, <1>22, ExcusedStep DEF CtxGetOrSetContext_Set
<1>23. ASSUME NEW t \in Threads, CtxGetOrSetContext_Fail(t) PROVE Promised
  BY <1>0, <1>i, <1>23, ExcusedStep DEF CtxGetOrSetContext_Fail
<1>24. ASSUME NEW t \in Threads, CreateIrpContext_Retry(t) PROVE Promised
  BY <1>0, <1>i, <1>24, ExcusedStep DEF CreateIrpContext_Retry
<1>25. ASSUME NEW t \in Threads, CloseIrpContext(t) PROVE Promised
  BY <1>0, <1>i, <1>25, ExcusedStep DEF CloseIrpContext
<1>26. ASSUME NEW s \in Streams, TeardownStream(s) PROVE Promised
  BY <1>0, <1>26, ExcusedStep DEF TeardownStream
<1> QED
  BY <1>1, <1>2, <1>3, <1>4, <1>5, <1>6, <1>7, <1>8, <1>9, <1>10, <1>11, <1>12, <1>13, <1>14, <1>15, <1>16, <1>17, <1>18, <1>19, <1>20, <1>21, <1>22, <1>23, <1>24, <1>25, <1>26
     DEF Next, Step, Create, SetInfo, Cleanup, Close, Context

(* Delete detection implements DeletionReports: whichever callbacks        *)
(* interleave, a report is of a deletion that has happened and has not     *)
(* been reported.                                                          *)
THEOREM Refinement == Spec => PromiseKept
<1>1. Inv /\ [Next]_vars => [Promise!Next]_Promise!vars
  BY PromiseStep, ExcusedStep DEF Promised, vars, Inv
<1> QED
  BY <1>1, PromiseInit, Invariance, PTL DEF Spec, PromiseKept, Promise!Spec
=============================================================================
