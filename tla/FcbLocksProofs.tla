--------------------------- MODULE FcbLocksProofs ---------------------------
(***************************************************************************)
(* Proofs about FcbLocks, for any number of threads, of read-aheads and of *)
(* jobs of every kind, whether or not a change of the flags is one step:   *)
(* what is acquired exclusively has one owner, and until two threads have  *)
(* used the flags of one resource (crossed) the locks are released by      *)
(* those that hold them, nothing is held by a thread that is done, and     *)
(* whoever writes a page holds a lock.  The flags tell who holds what      *)
(* until they are written back over a change.                              *)
(*                                                                         *)
(* The last section is about PrivateFcb: who uses the FCBs that these      *)
(* locks belong to, and when they are made and freed.                      *)
(***************************************************************************)
EXTENDS FcbLocks, PrivateFcb, FiniteSetTheorems, SequenceTheorems, TLAPS

USE DEF Goto, irpVars, jobVars, Finish

P == "PagingIoResource"
M == "MainResource"
Bit(b) == IF b THEN 1 ELSE 0

Flushes == {"flush", "ccflush"}
UserJobs == {"read", "write", "sizes", "section"}
WriteLabels == {"writeTest", "writeAcquire", "writing", "writeDone"}
CcLabels == {"ccMain", "ccMainFlag", "ccPgioTest", "ccPgio", "ccPgioFlag", "ccRelease", "ccClear", "ccReleasePgio",
             "ccClearPgio"} \cup WriteLabels

(* Where a thread is in its job. *)
At(j, l) ==
    \/ j = "none" /\ l = "idle"
    \/ j \in {"read", "write"} /\ l \in {"main", "work", "pageRead", "readDone", "close"}
    \/ j = "sizes" /\ l \in {"main", "pgio", "close"}
    \/ j = "section" /\ l \in {"section", "close"}
    \/ j = "flush" /\ l \in {"main", "lastPgio", "close"} \cup CcLabels
    \/ j = "ccflush" /\ l \in CcLabels
    \/ j = "lazy" /\ l \in {"lazyTest", "lazyAcquire", "lazyFlag", "lazyRelease", "lazyClear"} \cup WriteLabels
    \/ j = "ahead" /\ l \in {"aheadTest", "aheadAcquire", "aheadFlag", "pageRead", "readDone", "aheadRelease",
                             "aheadClear"}
    \/ j = "mapped" /\ l \in {"modTest", "modMain", "modPgio", "modCheck", "modRelease"} \cup WriteLabels

MappedHolds == {"modCheck", "modRelease"} \cup WriteLabels

(* Where it has set a flag of a resource, and should hold that resource.       *)
PgioRegion(j, l) == \/ j = "lazy" /\ l \in {"lazyRelease"} \cup WriteLabels
                    \/ j \in Flushes /\ l \in {"ccRelease", "ccClear", "ccReleasePgio"} \cup WriteLabels
MainRegion(j, l) == \/ j = "ahead" /\ l \in {"pageRead", "readDone", "aheadRelease"}
                    \/ j \in Flushes /\ l \in {"ccPgioTest", "ccPgio", "ccPgioFlag", "ccRelease"} \cup WriteLabels
PgioClearing == {"lazyClear", "ccClearPgio"}
MainClearing == {"aheadClear", "ccClear"}

-----------------------------------------------------------------------------
(* The invariants: one that always holds, one until two threads have used the *)
(* same flags, and one until flags were written back over a change.           *)

Types ==
    /\ owner \in [Resources -> [Threads -> Nat]] /\ exclusive \in [Resources -> BOOLEAN]
    /\ job = [t \in Threads |-> job[t]] /\ pc = [t \in Threads |-> pc[t]]
    /\ status = [t \in Threads |-> status[t]] /\ nested = [t \in Threads |-> nested[t]]
    /\ toRelease = [t \in Threads |-> toRelease[t]]
    /\ fetched \in [Threads -> (SUBSET StateFlags) \cup {NotFetched}]
    /\ flags \subseteq StateFlags /\ started \in 0 .. MaxJobs
    /\ fault \in {"none", "not_owner", "assertion"} /\ crossed \subseteq {"second", "borrowed", "torn"}

Exclusion ==
    \A r \in Resources : exclusive[r] =>
        \A t, u \in Threads : owner[r][t] > 0 /\ owner[r][u] > 0 => t = u
ExclusiveHeld == \A r \in Resources : exclusive[r] => \E t \in Threads : owner[r][t] > 0

(* A thread that is about to set a flag holds the resource, whatever others do. *)
Place(t) ==
    /\ At(job[t], pc[t])
    /\ status[t] \subseteq Resources /\ nested[t] \in {{}, {P}} /\ toRelease[t] \in {P, M, "none"}
    /\ nested[t] # {} => pc[t] \in {"readDone", "writing", "writeDone"}
    /\ toRelease[t] # "none" <=> (job[t] = "mapped" /\ pc[t] \in MappedHolds)
    /\ pc[t] = "modCheck" /\ toRelease[t] = M => owner[M][t] > 0
    /\ pc[t] \in {"lazyFlag", "ccPgioFlag"} => owner[P][t] > 0
    /\ pc[t] \in {"aheadFlag", "ccMainFlag"} => owner[M][t] > 0

Basic == Types /\ Exclusion /\ ExclusiveHeld /\ \A t \in Threads : Place(t)

(* What a thread has acquired and not released is what its IRP contexts, its   *)
(* callbacks and the resource given to it say.                                 *)
PgioHeldBy(j, l) == \/ PgioRegion(j, l)
                    \/ j = "lazy" /\ l = "lazyFlag"
                    \/ j \in Flushes /\ l = "ccPgioFlag"
MainHeldBy(j, l) == \/ MainRegion(j, l)
                    \/ j = "ahead" /\ l = "aheadFlag"
                    \/ j \in Flushes /\ l = "ccMainFlag"
Counts(t) ==
    /\ M \in status[t] <=> (job[t] \in UserJobs \cup {"flush"} /\ pc[t] \notin {"main", "section"})
    /\ P \in status[t] => job[t] = "sizes" /\ pc[t] = "close"
    /\ owner[P][t] = Bit(P \in status[t]) + Bit(nested[t] # {}) + Bit(PgioHeldBy(job[t], pc[t])) + Bit(toRelease[t] = P)
    /\ owner[M][t] = Bit(M \in status[t]) + Bit(MainHeldBy(job[t], pc[t])) + Bit(toRelease[t] = M)
    /\ toRelease[t] = M => exclusive[M]

(* The flags of a resource are those of one thread: that is how it will know   *)
(* to release it.                                                              *)
PgioMine(t) == PgioRegion(job[t], pc[t]) \/ pc[t] \in PgioClearing
MainMine(t) == MainRegion(job[t], pc[t]) \/ pc[t] \in MainClearing
FlagsOwned ==
    /\ flags \cap PgioFlags # {} <=> \E t \in Threads : PgioMine(t)
    /\ flags \cap MainFlags # {} <=> \E t \in Threads : MainMine(t)
    /\ \A t, u \in Threads : (PgioMine(t) /\ PgioMine(u)) \/ (MainMine(t) /\ MainMine(u)) => t = u

Orderly == fault # "not_owner" /\ FlagsOwned /\ \A t \in Threads : Counts(t)

(* Behind a flag there is a thread that holds the resource for more than a     *)
(* paging I/O and will clear the flags when it lets go, or is about to.        *)
PgioBehind(t) == (PgioRegion(job[t], pc[t]) /\ owner[P][t] > Bit(nested[t] # {})) \/ pc[t] \in PgioClearing
MainBehind(t) == (MainRegion(job[t], pc[t]) /\ owner[M][t] > 0) \/ pc[t] \in MainClearing
Backed ==
    /\ flags \cap PgioFlags # {} => \E t \in Threads : PgioBehind(t)
    /\ flags \cap MainFlags # {} => \E t \in Threads : MainBehind(t)

Inv == Basic /\ (crossed = {} => Orderly) /\ ("torn" \notin crossed => Backed)

-----------------------------------------------------------------------------
(* Executive resources: what a step of t does to them.                        *)

OwnTypes == owner \in [Resources -> [Threads -> Nat]] /\ exclusive \in [Resources -> BOOLEAN]

(* The others own what they did, and what is acquired exclusively is held by  *)
(* t, or as before.                                                           *)
Held(t) ==
    /\ OwnTypes' /\ Exclusion'
    /\ \A q \in Resources, u \in Threads : u # t => owner'[q][u] = owner[q][u]
    /\ \A q \in Resources : exclusive'[q] => owner'[q][t] > 0 \/ (exclusive[q] /\ owner[q][t] = 0)
    /\ \A q \in Resources, u \in Threads : u # t /\ exclusive[q] /\ owner[q][u] > 0 => exclusive'[q]

(* A resource is P or M. *)
LEMMA TwoResources == P \in Resources /\ M \in Resources /\ P # M /\ Resources = {P, M}
  BY DEF P, M, Resources

LEMMA BasicOwn == ASSUME Basic PROVE OwnTypes /\ Exclusion
  BY DEF Basic, Types, OwnTypes

LEMMA SameHeld ==
  ASSUME Basic, NEW t \in Threads, UNCHANGED << owner, exclusive >>
  PROVE  Held(t)
BY BasicOwn DEF Held, OwnTypes, Exclusion

LEMMA TakeHeld ==
  ASSUME OwnTypes, Exclusion, NEW r \in Resources, NEW t \in Threads,
         Take(r, t), exclusive' \in [Resources -> BOOLEAN],
         \A q \in Resources : exclusive[q] => exclusive'[q],
         \A q \in Resources : q # r => exclusive'[q] = exclusive[q],
         exclusive'[r] => \A u \in Threads : u # t => owner[r][u] = 0
  PROVE  Held(t) /\ owner'[r][t] = owner[r][t] + 1 /\ \A q \in Resources : q # r => owner'[q][t] = owner[q][t]
<1>0. owner' = [owner EXCEPT ![r][t] = @ + 1] /\ owner \in [Resources -> [Threads -> Nat]]
  BY DEF Take, OwnTypes
<1>1. /\ owner' \in [Resources -> [Threads -> Nat]] /\ owner'[r][t] = owner[r][t] + 1
      /\ \A q \in Resources, u \in Threads : (q # r \/ u # t) => owner'[q][u] = owner[q][u]
  BY <1>0
<1>2. Exclusion'
  BY <1>1 DEF Exclusion, OwnTypes
<1>3. ASSUME NEW q \in Resources, exclusive'[q] PROVE owner'[q][t] > 0 \/ (exclusive[q] /\ owner[q][t] = 0)
  <2>1. owner[q][t] \in Nat /\ owner[r][t] \in Nat
    BY DEF OwnTypes
  <2>2. CASE q = r
    BY <1>1, <2>1, <2>2
  <2>3. CASE q # r
    BY <1>1, <1>3, <2>1, <2>3
  <2> QED
    BY <2>2, <2>3
<1> QED
  BY <1>1, <1>2, <1>3 DEF Held, OwnTypes

LEMMA ShareHeld ==
  ASSUME Basic, NEW r \in Resources, NEW t \in Threads, Share(r, t)
  PROVE  /\ Held(t) /\ owner'[r][t] = owner[r][t] + 1 /\ exclusive' = exclusive
         /\ \A q \in Resources : q # r => owner'[q][t] = owner[q][t]
<1>1. OwnTypes /\ Exclusion /\ Take(r, t) /\ exclusive' = exclusive
  BY BasicOwn DEF Share
<1>2. exclusive'[r] => \A u \in Threads : u # t => owner[r][u] = 0
  <2> SUFFICES ASSUME exclusive[r], NEW u \in Threads, u # t PROVE owner[r][u] = 0
    BY <1>1
  <2>1. owner[r][t] > 0
    BY <1>1 DEF Share, CanShare
  <2>2. owner[r][u] \in Nat
    BY <1>1 DEF OwnTypes
  <2> QED
    BY <1>1, <2>1, <2>2 DEF Exclusion
<1> QED
  BY <1>1, <1>2, TakeHeld DEF OwnTypes

LEMMA OwnHeld ==
  ASSUME Basic, NEW r \in Resources, NEW t \in Threads, Own(r, t)
  PROVE  /\ Held(t) /\ owner'[r][t] = owner[r][t] + 1 /\ exclusive'[r]
         /\ \A q \in Resources : q # r => owner'[q][t] = owner[q][t] /\ exclusive'[q] = exclusive[q]
<1>1. OwnTypes /\ Exclusion /\ Take(r, t) /\ exclusive' = [exclusive EXCEPT ![r] = TRUE]
  BY BasicOwn DEF Own
<1>2. exclusive' \in [Resources -> BOOLEAN] /\ exclusive'[r] /\ \A q \in Resources : q # r => exclusive'[q] = exclusive[q]
  BY <1>1 DEF OwnTypes
<1>3. \A u \in Threads : u # t => owner[r][u] = 0
  BY DEF Own, CanOwn, Free
<1>4. \A q \in Resources : exclusive[q] => exclusive'[q]
  BY <1>2
<1>5. Held(t) /\ owner'[r][t] = owner[r][t] + 1 /\ \A q \in Resources : q # r => owner'[q][t] = owner[q][t]
  BY <1>1, <1>2, <1>3, <1>4, TakeHeld
<1> QED
  BY <1>2, <1>5

LEMMA ReleaseHeld ==
  ASSUME Basic, NEW r \in Resources, NEW t \in Threads, Release(r, t)
  PROVE  /\ Held(t) /\ \A q \in Resources : q # r => owner'[q][t] = owner[q][t] /\ exclusive'[q] = exclusive[q]
         /\ owner[r][t] > 0 => owner'[r][t] = owner[r][t] - 1 /\ fault' = fault
         /\ owner[r][t] = 0 => owner'[r][t] = 0 /\ fault' = "not_owner"
<1>0. OwnTypes /\ Exclusion
  BY BasicOwn
<1>1. CASE owner[r][t] = 0
  <2>1. fault' = "not_owner" /\ UNCHANGED << owner, exclusive >>
    BY <1>1 DEF Release
  <2> QED
    BY <1>1, <2>1, SameHeld
<1>2. CASE owner[r][t] # 0
  <2>1. /\ owner' = [owner EXCEPT ![r][t] = @ - 1]
        /\ exclusive' = [exclusive EXCEPT ![r] = @ /\ owner[r][t] > 1] /\ fault' = fault
    BY <1>2 DEF Release
  <2>2. owner[r][t] \in Nat /\ owner[r][t] > 0
    BY <1>0, <1>2 DEF OwnTypes
  <2>3. /\ owner' \in [Resources -> [Threads -> Nat]] /\ owner'[r][t] = owner[r][t] - 1
        /\ \A q \in Resources, u \in Threads : (q # r \/ u # t) => owner'[q][u] = owner[q][u]
    BY <1>0, <2>1, <2>2 DEF OwnTypes
  <2>4. /\ exclusive' \in [Resources -> BOOLEAN] /\ (exclusive'[r] <=> exclusive[r] /\ owner[r][t] > 1)
        /\ \A q \in Resources : q # r => exclusive'[q] = exclusive[q]
    BY <1>0, <2>1 DEF OwnTypes
  <2>5. Exclusion'
    BY <1>0, <2>3, <2>4 DEF OwnTypes, Exclusion
  <2>6. ASSUME NEW q \in Resources, exclusive'[q] PROVE owner'[q][t] > 0 \/ (exclusive[q] /\ owner[q][t] = 0)
    <3>1. CASE q = r
      BY <2>2, <2>3, <2>4, <2>6, <3>1
    <3>2. CASE q # r
      <4>1. owner'[q][t] = owner[q][t] /\ exclusive[q] /\ owner[q][t] \in Nat
        BY <1>0, <2>3, <2>4, <2>6, <3>2 DEF OwnTypes
      <4> QED
        BY ONLY <4>1
    <3> QED
      BY <3>1, <3>2
  <2>7. ASSUME NEW q \in Resources, NEW u \in Threads, u # t, exclusive[q], owner[q][u] > 0 PROVE exclusive'[q]
    <3>1. q # r
      BY <1>0, <2>2, <2>7 DEF Exclusion
    <3> QED
      BY <2>4, <2>7, <3>1
  <2> QED
    BY <2>1, <2>2, <2>3, <2>4, <2>5, <2>6, <2>7 DEF Held, OwnTypes
<1> QED
  BY <1>0, <1>1, <1>2 DEF OwnTypes

-----------------------------------------------------------------------------
(* What a step of t does to the rest: to itself, and nothing to the others.   *)

ThreadMoves(t) ==
    /\ job' = [u \in Threads |-> job'[u]] /\ pc' = [u \in Threads |-> pc'[u]]
    /\ status' = [u \in Threads |-> status'[u]] /\ nested' = [u \in Threads |-> nested'[u]]
    /\ toRelease' = [u \in Threads |-> toRelease'[u]]
    /\ \A u \in Threads : u # t =>
          /\ job'[u] = job[u] /\ pc'[u] = pc[u] /\ status'[u] = status[u]
          /\ nested'[u] = nested[u] /\ toRelease'[u] = toRelease[u]
    /\ started' \in 0 .. MaxJobs /\ fault' \in {"none", "not_owner", "assertion"}

FlagsWord ==
    /\ flags' \subseteq StateFlags /\ fetched' \in [Threads -> (SUBSET StateFlags) \cup {NotFetched}]
    /\ crossed \subseteq crossed' /\ crossed' \subseteq {"second", "borrowed", "torn"}

(* The flags that are set after the step are backed by t, or were and still   *)
(* are by another thread.                                                     *)
Backs(t) ==
    /\ flags' \cap PgioFlags # {} => PgioBehind(t)' \/ (flags \cap PgioFlags # {} /\ ~PgioBehind(t))
    /\ flags' \cap MainFlags # {} => MainBehind(t)' \/ (flags \cap MainFlags # {} /\ ~MainBehind(t))

(* They become the thread's own when it sets them, if nobody's were set, and   *)
(* nobody's when it clears them.                                               *)
Owns(t) ==
    /\ PgioMine(t)' /\ ~PgioMine(t) => flags \cap PgioFlags = {} /\ flags' \cap PgioFlags # {}
    /\ PgioMine(t) /\ ~PgioMine(t)' => flags' \cap PgioFlags = {}
    /\ (PgioMine(t) <=> PgioMine(t)') => (flags' \cap PgioFlags = {} <=> flags \cap PgioFlags = {})
    /\ MainMine(t)' /\ ~MainMine(t) => flags \cap MainFlags = {} /\ flags' \cap MainFlags # {}
    /\ MainMine(t) /\ ~MainMine(t)' => flags' \cap MainFlags = {}
    /\ (MainMine(t) <=> MainMine(t)') => (flags' \cap MainFlags = {} <=> flags \cap MainFlags = {})

Undisturbed == crossed' = {} /\ Orderly

StepOf(t) ==
    /\ ThreadMoves(t) /\ Held(t) /\ FlagsWord /\ Place(t)'
    /\ "torn" \notin crossed' => Backs(t)
    /\ Undisturbed => fault' # "not_owner" /\ Counts(t)' /\ Owns(t)

(* Flags that have not been torn change as the code means them to; and they    *)
(* are set where none was set, unless the step is recorded in crossed.         *)
LEMMA UpdateWord ==
  ASSUME Basic, NEW t \in Threads, NEW add, NEW remove, add \subseteq StateFlags, Update(t, add, remove)
  PROVE  /\ FlagsWord
         /\ "torn" \notin crossed' => flags' = (flags \cup add) \ remove
         /\ crossed' = {} => /\ add \cap PgioFlags # {} => flags \cap PgioFlags = {}
                             /\ add \cap MainFlags # {} => flags \cap MainFlags = {}
<1>1. Types
  BY DEF Basic
<1>2. FlagsAtomic \in BOOLEAN
  BY LockAssumption
<1>3. ~FlagsAtomic => fetched[t] \in SUBSET StateFlags
  BY <1>1 DEF Update, Types
<1>4. /\ flags' = ((IF FlagsAtomic THEN flags ELSE fetched[t]) \cup add) \ remove
      /\ fetched' = [fetched EXCEPT ![t] = NotFetched]
  BY DEF Update
<1>5. flags' \subseteq StateFlags
  BY <1>1, <1>3, <1>4 DEF Types
<1>6. fetched' \in [Threads -> (SUBSET StateFlags) \cup {NotFetched}]
  BY <1>1, <1>4 DEF Types
<1>7. crossed \subseteq crossed' /\ crossed' \subseteq {"second", "borrowed", "torn"}
  BY <1>1 DEF Types, Update
<1>8. ~FlagsAtomic /\ fetched[t] # flags => "torn" \in crossed'
  BY DEF Update
<1>9. ASSUME NEW group \in {PgioFlags, MainFlags}, add \cap group # {}, flags \cap group # {} PROVE "second" \in crossed'
  BY <1>9 DEF Update
<1> QED
  BY <1>4, <1>5, <1>6, <1>7, <1>8, <1>9 DEF FlagsWord

LEMMA SameWord == ASSUME Basic, UNCHANGED << flags, fetched, crossed >> PROVE FlagsWord
BY DEF Basic, Types, FlagsWord

(* The two groups of flags. *)
LEMMA Groups == /\ PgioFlags \cap MainFlags = {} /\ PgioFlags \cup MainFlags = StateFlags
                /\ "PGIO_SHARED" \in PgioFlags /\ "PGIO_EXCLUSIVE" \in PgioFlags
  BY DEF PgioFlags, MainFlags, StateFlags

LEMMA AfterPagingValues ==
  /\ AfterPaging["lazy"] = "lazyRelease" /\ AfterPaging["ahead"] = "aheadRelease" /\ AfterPaging["mapped"] = "modRelease"
  /\ AfterPaging["read"] = "close" /\ AfterPaging["write"] = "close"
  /\ AfterPaging["flush"] = "ccRelease" /\ AfterPaging["ccflush"] = "ccRelease"
  BY DEF AfterPaging, AllJobs

(* The mapped page writer changes the main resource for the other one, or     *)
(* lets it go.                                                                *)
LowersLock(t) ==
    /\ pc[t] = "modCheck" /\ toRelease[t] = M
    /\ exclusive' = [exclusive EXCEPT ![M] = @ /\ owner[M][t] > 1] /\ UNCHANGED fault
    /\ IF CanShare(P, t)
         THEN /\ owner' = [owner EXCEPT ![M][t] = @ - 1, ![P][t] = @ + 1]
              /\ toRelease' = [toRelease EXCEPT ![t] = P]
              /\ Goto(t, "writeTest") /\ UNCHANGED << job, started >>
         ELSE /\ owner' = [owner EXCEPT ![M][t] = @ - 1]
              /\ toRelease' = [toRelease EXCEPT ![t] = "none"] /\ Finish(t)

LEMMA LowerHeld ==
  ASSUME Basic, NEW t \in Threads, LowersLock(t)
  PROVE  /\ Held(t) /\ owner'[M][t] = owner[M][t] - 1 /\ exclusive'[P] = exclusive[P] /\ fault' = fault
         /\ owner'[P][t] = owner[P][t] + (IF CanShare(P, t) THEN 1 ELSE 0)
<1>0. OwnTypes /\ Exclusion /\ P \in Resources /\ M \in Resources /\ P # M /\ Resources = {P, M}
  BY BasicOwn, TwoResources
<1>1. owner[M][t] > 0 /\ owner[M][t] \in Nat /\ owner[P][t] \in Nat
  BY <1>0 DEF LowersLock, Basic, Place, OwnTypes
<1>2. /\ exclusive' \in [Resources -> BOOLEAN] /\ exclusive'[P] = exclusive[P]
      /\ (exclusive'[M] <=> exclusive[M] /\ owner[M][t] > 1)
  BY <1>0 DEF LowersLock, OwnTypes
<1>3. /\ owner' \in [Resources -> [Threads -> Nat]] /\ owner'[M][t] = owner[M][t] - 1
      /\ owner'[P][t] = owner[P][t] + (IF CanShare(P, t) THEN 1 ELSE 0)
      /\ \A q \in Resources, u \in Threads : u # t => owner'[q][u] = owner[q][u]
  <2>1. CASE CanShare(P, t)
    <3>1. owner' = [owner EXCEPT ![M][t] = @ - 1, ![P][t] = @ + 1]
      BY <2>1 DEF LowersLock
    <3> QED
      BY <1>0, <1>1, <2>1, <3>1 DEF OwnTypes
  <2>2. CASE ~CanShare(P, t)
    <3>1. owner' = [owner EXCEPT ![M][t] = @ - 1]
      BY <2>2 DEF LowersLock
    <3> QED
      BY <1>0, <1>1, <2>2, <3>1 DEF OwnTypes
  <2> QED
    BY <2>1, <2>2
<1>4. exclusive[P] /\ CanShare(P, t) => owner[P][t] > 0
  BY DEF CanShare
<1>5. Exclusion'
  <2>1. ASSUME exclusive'[P], NEW u \in Threads, NEW v \in Threads, owner'[P][u] > 0, owner'[P][v] > 0 PROVE u = v
    <3>1. exclusive[P] /\ owner[P][t] \in Nat
      BY <1>1, <1>2, <2>1
    <3>2. ASSUME NEW w \in Threads, owner'[P][w] > 0 PROVE owner[P][w] > 0
      <4>1. CASE w = t
        BY <1>0, <1>3, <1>4, <3>1, <3>2, <4>1
      <4>2. CASE w # t
        BY <1>0, <1>3, <3>2, <4>2
      <4> QED
        BY <4>1, <4>2
    <3> QED
      BY <1>0, <2>1, <3>1, <3>2 DEF Exclusion
  <2>2. ASSUME exclusive'[M], NEW u \in Threads, NEW v \in Threads, owner'[M][u] > 0, owner'[M][v] > 0 PROVE u = v
    <3>1. exclusive[M]
      BY <1>2, <2>2
    <3>2. ASSUME NEW w \in Threads, owner'[M][w] > 0 PROVE owner[M][w] > 0
      BY <1>0, <1>1, <1>3, <3>2
    <3> QED
      BY <1>0, <2>2, <3>1, <3>2 DEF Exclusion
  <2> QED
    BY <1>0, <2>1, <2>2 DEF Exclusion
<1>6. ASSUME NEW q \in Resources, exclusive'[q] PROVE owner'[q][t] > 0 \/ (exclusive[q] /\ owner[q][t] = 0)
  <2>1. CASE q = M
    BY <1>1, <1>2, <1>3, <1>6, <2>1
  <2>2. CASE q = P
    <3>1. exclusive[P]
      BY <1>2, <1>6, <2>2
    <3>2. owner'[P][t] = owner[P][t] \/ owner'[P][t] = owner[P][t] + 1
      BY <1>1, <1>3
    <3>3. owner[P][t] = 0 \/ owner'[P][t] > 0
      BY ONLY <1>1, <3>2
    <3> QED
      BY <2>2, <3>1, <3>3
  <2> QED
    BY <1>0, <2>1, <2>2
<1>7. ASSUME NEW q \in Resources, NEW u \in Threads, u # t, exclusive[q], owner[q][u] > 0 PROVE exclusive'[q]
  <2>1. q # M
    BY <1>0, <1>1, <1>7 DEF Exclusion
  <2> QED
    BY <1>0, <1>2, <1>7, <2>1
<1> QED
  BY <1>2, <1>3, <1>5, <1>6, <1>7 DEF Held, OwnTypes, LowersLock

-----------------------------------------------------------------------------
(* The flags as words.                                                        *)

LEMMA FetchStep == ASSUME Basic, NEW t \in Threads, Fetch(t) PROVE StepOf(t)
<1>0. /\ Types /\ Place(t) /\ P \in Resources /\ M \in Resources /\ P # M
      /\ owner[P][t] \in Nat /\ owner[M][t] \in Nat /\ P # "none" /\ M # "none"
  BY TwoResources DEF Basic, Types, P, M
<1>1. UNCHANGED << owner, exclusive, flags, job, started, pc, status, nested, toRelease, fault, crossed >>
  BY DEF Fetch
<1>2. /\ job'[t] = job[t] /\ pc'[t] = pc[t]
      /\ status'[t] = status[t] /\ nested'[t] = nested[t] /\ toRelease'[t] = toRelease[t]
  BY <1>0, <1>1 DEF Fetch, Types, P, M
<1>3. ThreadMoves(t)
  BY <1>0, <1>1 DEF Fetch, ThreadMoves, Types, Release, P, M
<1>4. Held(t) /\ UNCHANGED << owner, exclusive >> /\ fault' = fault
  BY <1>0, <1>1, SameHeld DEF Fetch
<1>5. FlagsWord /\ flags' = flags /\ crossed' = crossed
  BY <1>0, <1>1 DEF Fetch, FlagsWord, Types
<1>6. Place(t)'
  BY <1>0, <1>1, <1>2, <1>4 DEF Held, OwnTypes, Place, At, CcLabels, WriteLabels, MappedHolds, Flushes, UserJobs
<1>7. "torn" \notin crossed' => Backs(t)
  BY <1>0, <1>1, <1>2, <1>4, <1>5 DEF Backs, PgioBehind, MainBehind, PgioRegion, MainRegion, PgioClearing,
     MainClearing, At, CcLabels, WriteLabels, MappedHolds, Flushes, UserJobs, Bit, Types, Place, PgioFlags,
     MainFlags
<1>8. ASSUME Undisturbed PROVE fault' # "not_owner" /\ Counts(t)' /\ Owns(t)
  <2>1. Counts(t) /\ FlagsOwned /\ fault # "not_owner" /\ crossed' = {}
    BY <1>8 DEF Undisturbed, Orderly
  <2>2. Owns(t)
    BY <1>0, <1>1, <1>2, <1>5, <2>1 DEF Owns, FlagsOwned, PgioMine, MainMine, PgioRegion, MainRegion,
       PgioClearing, MainClearing, At, CcLabels, WriteLabels, MappedHolds, Flushes, UserJobs, PgioFlags,
       MainFlags
  <2>3. fault' # "not_owner" /\ Counts(t)'
    BY <1>0, <1>1, <1>2, <1>4, <1>5, <2>1, <2>2 DEF Counts, FlagsOwned, PgioMine, MainMine, Bit, Types, Place,
       PgioHeldBy, MainHeldBy, PgioRegion, MainRegion, PgioClearing, MainClearing, At, CcLabels, WriteLabels,
       MappedHolds, Flushes, UserJobs
  <2> QED
    BY <2>2, <2>3
<1> QED
  BY <1>3, <1>4, <1>5, <1>6, <1>7, <1>8 DEF StepOf

-----------------------------------------------------------------------------
(* Steps of the user's requests.                                              *)

LEMMA AcquireMainStep == ASSUME Basic, NEW t \in Threads, AcquireMain(t) PROVE StepOf(t)
<1>0. /\ Types /\ Place(t) /\ P \in Resources /\ M \in Resources /\ P # M
      /\ owner[P][t] \in Nat /\ owner[M][t] \in Nat /\ P # "none" /\ M # "none"
  BY TwoResources DEF Basic, Types, P, M
<1>1. job[t] \in {"read", "write", "sizes", "flush"} /\ pc[t] = "main"
  BY <1>0 DEF AcquireMain, Place, At, CcLabels, WriteLabels, MappedHolds, Flushes, UserJobs
<1>2. CASE job[t] = "read"
  <2>1. /\ job'[t] = job[t] /\ pc'[t] = "work"
        /\ status'[t] = status[t] \cup {M} /\ nested'[t] = nested[t] /\ toRelease'[t] = toRelease[t]
    BY <1>0, <1>1, <1>2 DEF AcquireMain, Types, P, M
  <2>2. ThreadMoves(t)
    BY <1>0, <1>1, <1>2 DEF AcquireMain, ThreadMoves, Types, Release, P, M
  <2>3. /\ Held(t) /\ owner'[M][t] = owner[M][t] + 1 /\ owner'[P][t] = owner[P][t]
        /\ exclusive' = exclusive /\ fault' = fault
    BY <1>0, <1>1, <1>2, ShareHeld DEF AcquireMain, P, M
  <2>4. FlagsWord /\ flags' = flags /\ crossed' = crossed
    BY <1>0, <1>1, <1>2, SameWord DEF AcquireMain
  <2>5. Place(t)'
    BY <1>0, <1>1, <1>2, <2>1, <2>3 DEF Held, OwnTypes, Place, At, CcLabels, WriteLabels, MappedHolds,
       Flushes, UserJobs
  <2>6. "torn" \notin crossed' => Backs(t)
    BY <1>0, <1>1, <1>2, <2>1, <2>3, <2>4 DEF Backs, PgioBehind, MainBehind, PgioRegion, MainRegion,
       PgioClearing, MainClearing, At, CcLabels, WriteLabels, MappedHolds, Flushes, UserJobs, Bit, Types,
       Place
  <2>7. ASSUME Undisturbed PROVE fault' # "not_owner" /\ Counts(t)' /\ Owns(t)
    <3>1. Counts(t) /\ FlagsOwned /\ fault # "not_owner" /\ crossed' = {}
      BY <2>7 DEF Undisturbed, Orderly
    <3>2. Owns(t)
      BY <1>0, <1>1, <1>2, <2>1, <2>4, <3>1 DEF Owns, FlagsOwned, PgioMine, MainMine, PgioRegion, MainRegion,
         PgioClearing, MainClearing, At, CcLabels, WriteLabels, MappedHolds, Flushes, UserJobs
    <3>3. fault' # "not_owner" /\ Counts(t)'
      BY <1>0, <1>1, <1>2, <2>1, <2>3, <2>4, <3>1, <3>2 DEF Counts, FlagsOwned, PgioMine, MainMine, Bit,
         Types, Place, PgioHeldBy, MainHeldBy, PgioRegion, MainRegion, PgioClearing, MainClearing, At,
         CcLabels, WriteLabels, MappedHolds, Flushes, UserJobs
    <3> QED
      BY <3>2, <3>3
  <2> QED
    BY <2>2, <2>3, <2>4, <2>5, <2>6, <2>7 DEF StepOf
<1>3. CASE job[t] # "read"
  <2>1. /\ job'[t] = job[t] /\ pc'[t] = (CASE job[t] = "flush" -> "ccMain" [] job[t] = "sizes" -> "pgio" [] OTHER -> "work")
        /\ status'[t] = status[t] \cup {M} /\ nested'[t] = nested[t] /\ toRelease'[t] = toRelease[t]
    BY <1>0, <1>1, <1>3 DEF AcquireMain, Types, P, M
  <2>2. ThreadMoves(t)
    BY <1>0, <1>1, <1>3 DEF AcquireMain, ThreadMoves, Types, Release, P, M
  <2>3. /\ Held(t) /\ owner'[M][t] = owner[M][t] + 1 /\ owner'[P][t] = owner[P][t]
        /\ exclusive'[M] /\ exclusive'[P] = exclusive[P] /\ fault' = fault
    BY <1>0, <1>1, <1>3, OwnHeld DEF AcquireMain, P, M
  <2>4. FlagsWord /\ flags' = flags /\ crossed' = crossed
    BY <1>0, <1>1, <1>3, SameWord DEF AcquireMain
  <2>5. Place(t)'
    BY <1>0, <1>1, <1>3, <2>1, <2>3 DEF Held, OwnTypes, Place, At, CcLabels, WriteLabels, MappedHolds,
       Flushes, UserJobs
  <2>6. "torn" \notin crossed' => Backs(t)
    BY <1>0, <1>1, <1>3, <2>1, <2>3, <2>4 DEF Backs, PgioBehind, MainBehind, PgioRegion, MainRegion,
       PgioClearing, MainClearing, At, CcLabels, WriteLabels, MappedHolds, Flushes, UserJobs, Bit, Types,
       Place
  <2>7. ASSUME Undisturbed PROVE fault' # "not_owner" /\ Counts(t)' /\ Owns(t)
    <3>1. Counts(t) /\ FlagsOwned /\ fault # "not_owner" /\ crossed' = {}
      BY <2>7 DEF Undisturbed, Orderly
    <3>2. Owns(t)
      BY <1>0, <1>1, <1>3, <2>1, <2>4, <3>1 DEF Owns, FlagsOwned, PgioMine, MainMine, PgioRegion, MainRegion,
         PgioClearing, MainClearing, At, CcLabels, WriteLabels, MappedHolds, Flushes, UserJobs
    <3>3. fault' # "not_owner" /\ Counts(t)'
      BY <1>0, <1>1, <1>3, <2>1, <2>3, <2>4, <3>1, <3>2 DEF Counts, FlagsOwned, PgioMine, MainMine, Bit,
         Types, Place, PgioHeldBy, MainHeldBy, PgioRegion, MainRegion, PgioClearing, MainClearing, At,
         CcLabels, WriteLabels, MappedHolds, Flushes, UserJobs
    <3> QED
      BY <3>2, <3>3
  <2> QED
    BY <2>2, <2>3, <2>4, <2>5, <2>6, <2>7 DEF StepOf
<1> QED
  BY <1>0, <1>1, <1>2, <1>3 DEF AcquireMain, At, CcLabels, WriteLabels, MappedHolds, Flushes, UserJobs, Place, P, M

LEMMA AcquirePgioStep == ASSUME Basic, NEW t \in Threads, AcquirePgio(t) PROVE StepOf(t)
<1>0. /\ Types /\ Place(t) /\ P \in Resources /\ M \in Resources /\ P # M
      /\ owner[P][t] \in Nat /\ owner[M][t] \in Nat /\ P # "none" /\ M # "none"
  BY TwoResources DEF Basic, Types, P, M
<1>1. job[t] \in {"sizes"} /\ pc[t] = "pgio"
  BY <1>0 DEF AcquirePgio, Place, At, CcLabels, WriteLabels, MappedHolds, Flushes, UserJobs
<1>2. /\ job'[t] = job[t] /\ pc'[t] = "close"
      /\ status'[t] = status[t] \cup {P} /\ nested'[t] = nested[t] /\ toRelease'[t] = toRelease[t]
  BY <1>0, <1>1 DEF AcquirePgio, Types, P, M
<1>3. ThreadMoves(t)
  BY <1>0, <1>1 DEF AcquirePgio, ThreadMoves, Types, Release, P, M
<1>4. /\ Held(t) /\ owner'[P][t] = owner[P][t] + 1 /\ owner'[M][t] = owner[M][t]
      /\ exclusive'[P] /\ exclusive'[M] = exclusive[M] /\ fault' = fault
  BY <1>0, <1>1, OwnHeld DEF AcquirePgio, P, M
<1>5. FlagsWord /\ flags' = flags /\ crossed' = crossed
  BY <1>0, <1>1, SameWord DEF AcquirePgio
<1>6. Place(t)'
  BY <1>0, <1>1, <1>2, <1>4 DEF Held, OwnTypes, Place, At, CcLabels, WriteLabels, MappedHolds, Flushes, UserJobs
<1>7. "torn" \notin crossed' => Backs(t)
  BY <1>0, <1>1, <1>2, <1>4, <1>5 DEF Backs, PgioBehind, MainBehind, PgioRegion, MainRegion, PgioClearing,
     MainClearing, At, CcLabels, WriteLabels, MappedHolds, Flushes, UserJobs, Bit, Types, Place
<1>8. ASSUME Undisturbed PROVE fault' # "not_owner" /\ Counts(t)' /\ Owns(t)
  <2>1. Counts(t) /\ FlagsOwned /\ fault # "not_owner" /\ crossed' = {}
    BY <1>8 DEF Undisturbed, Orderly
  <2>2. Owns(t)
    BY <1>0, <1>1, <1>2, <1>5, <2>1 DEF Owns, FlagsOwned, PgioMine, MainMine, PgioRegion, MainRegion,
       PgioClearing, MainClearing, At, CcLabels, WriteLabels, MappedHolds, Flushes, UserJobs
  <2>3. fault' # "not_owner" /\ Counts(t)'
    BY <1>0, <1>1, <1>2, <1>4, <1>5, <2>1, <2>2 DEF Counts, FlagsOwned, PgioMine, MainMine, Bit, Types, Place,
       PgioHeldBy, MainHeldBy, PgioRegion, MainRegion, PgioClearing, MainClearing, At, CcLabels, WriteLabels,
       MappedHolds, Flushes, UserJobs
  <2> QED
    BY <2>2, <2>3
<1> QED
  BY <1>3, <1>4, <1>5, <1>6, <1>7, <1>8 DEF StepOf

LEMMA CopyStep == ASSUME Basic, NEW t \in Threads, Copy(t) PROVE StepOf(t)
<1>0. /\ Types /\ Place(t) /\ P \in Resources /\ M \in Resources /\ P # M
      /\ owner[P][t] \in Nat /\ owner[M][t] \in Nat /\ P # "none" /\ M # "none"
  BY TwoResources DEF Basic, Types, P, M
<1>1. job[t] \in {"read", "write"} /\ pc[t] = "work"
  BY <1>0 DEF Copy, Place, At, CcLabels, WriteLabels, MappedHolds, Flushes, UserJobs
<1>2. /\ job'[t] = job[t] /\ pc'[t] \in {"close", "pageRead"}
      /\ status'[t] = status[t] /\ nested'[t] = nested[t] /\ toRelease'[t] = toRelease[t]
  BY <1>0, <1>1 DEF Copy, Types, P, M
<1>3. ThreadMoves(t)
  BY <1>0, <1>1 DEF Copy, ThreadMoves, Types, Release, P, M
<1>4. Held(t) /\ UNCHANGED << owner, exclusive >> /\ fault' = fault
  BY <1>0, <1>1, SameHeld DEF Copy
<1>5. FlagsWord /\ flags' = flags /\ crossed' = crossed
  BY <1>0, <1>1, SameWord DEF Copy
<1>6. Place(t)'
  BY <1>0, <1>1, <1>2, <1>4 DEF Held, OwnTypes, Place, At, CcLabels, WriteLabels, MappedHolds, Flushes, UserJobs
<1>7. "torn" \notin crossed' => Backs(t)
  BY <1>0, <1>1, <1>2, <1>4, <1>5 DEF Backs, PgioBehind, MainBehind, PgioRegion, MainRegion, PgioClearing,
     MainClearing, At, CcLabels, WriteLabels, MappedHolds, Flushes, UserJobs, Bit, Types, Place
<1>8. ASSUME Undisturbed PROVE fault' # "not_owner" /\ Counts(t)' /\ Owns(t)
  <2>1. Counts(t) /\ FlagsOwned /\ fault # "not_owner" /\ crossed' = {}
    BY <1>8 DEF Undisturbed, Orderly
  <2>2. Owns(t)
    BY <1>0, <1>1, <1>2, <1>5, <2>1 DEF Owns, FlagsOwned, PgioMine, MainMine, PgioRegion, MainRegion,
       PgioClearing, MainClearing, At, CcLabels, WriteLabels, MappedHolds, Flushes, UserJobs
  <2>3. fault' # "not_owner" /\ Counts(t)'
    BY <1>0, <1>1, <1>2, <1>4, <1>5, <2>1, <2>2 DEF Counts, FlagsOwned, PgioMine, MainMine, Bit, Types, Place,
       PgioHeldBy, MainHeldBy, PgioRegion, MainRegion, PgioClearing, MainClearing, At, CcLabels, WriteLabels,
       MappedHolds, Flushes, UserJobs
  <2> QED
    BY <2>2, <2>3
<1> QED
  BY <1>3, <1>4, <1>5, <1>6, <1>7, <1>8 DEF StepOf

LEMMA CloseIrpContextStep == ASSUME Basic, NEW t \in Threads, CloseIrpContext(t) PROVE StepOf(t)
<1>0. /\ Types /\ Place(t) /\ P \in Resources /\ M \in Resources /\ P # M
      /\ owner[P][t] \in Nat /\ owner[M][t] \in Nat /\ P # "none" /\ M # "none"
  BY TwoResources DEF Basic, Types, P, M
<1>1. job[t] \in {"read", "write", "sizes", "section", "flush"} /\ pc[t] = "close"
  BY <1>0 DEF CloseIrpContext, Place, At, CcLabels, WriteLabels, MappedHolds, Flushes, UserJobs
<1>2. CASE P \in status[t] /\ Release(P, t) /\ status' = [status EXCEPT ![t] = @ \ {P}] /\ UNCHANGED << pc, job, started >>
  <2>1. /\ job'[t] = job[t] /\ pc'[t] = pc[t]
        /\ status'[t] = status[t] \ {P} /\ nested'[t] = nested[t] /\ toRelease'[t] = toRelease[t]
    BY <1>0, <1>1, <1>2 DEF CloseIrpContext, Types, P, M
  <2>2. ThreadMoves(t)
    BY <1>0, <1>1, <1>2 DEF CloseIrpContext, ThreadMoves, Types, Release, P, M
  <2>3. /\ Held(t) /\ owner'[M][t] = owner[M][t] /\ exclusive'[M] = exclusive[M]
        /\ owner[P][t] > 0 => owner'[P][t] = owner[P][t] - 1 /\ fault' = fault
    BY <1>0, <1>1, <1>2, ReleaseHeld DEF CloseIrpContext, P, M
  <2>4. FlagsWord /\ flags' = flags /\ crossed' = crossed
    BY <1>0, <1>1, <1>2, SameWord DEF CloseIrpContext
  <2>5. Place(t)'
    BY <1>0, <1>1, <1>2, <2>1, <2>3 DEF Held, OwnTypes, Place, At, CcLabels, WriteLabels, MappedHolds,
       Flushes, UserJobs
  <2>6. "torn" \notin crossed' => Backs(t)
    BY <1>0, <1>1, <1>2, <2>1, <2>3, <2>4 DEF Backs, PgioBehind, MainBehind, PgioRegion, MainRegion,
       PgioClearing, MainClearing, At, CcLabels, WriteLabels, MappedHolds, Flushes, UserJobs, Bit, Types,
       Place
  <2>7. ASSUME Undisturbed PROVE fault' # "not_owner" /\ Counts(t)' /\ Owns(t)
    <3>1. Counts(t) /\ FlagsOwned /\ fault # "not_owner" /\ crossed' = {}
      BY <2>7 DEF Undisturbed, Orderly
    <3>2. Owns(t)
      BY <1>0, <1>1, <1>2, <2>1, <2>4, <3>1 DEF Owns, FlagsOwned, PgioMine, MainMine, PgioRegion, MainRegion,
         PgioClearing, MainClearing, At, CcLabels, WriteLabels, MappedHolds, Flushes, UserJobs
    <3>3. owner[P][t] > 0
      BY <1>0, <1>1, <1>2, <2>1, <3>1 DEF Counts, FlagsOwned, PgioMine, MainMine, Bit, Place, PgioHeldBy,
         MainHeldBy, PgioRegion, MainRegion, PgioClearing, MainClearing, At, CcLabels, WriteLabels,
         MappedHolds, Flushes, UserJobs
    <3>4. fault' # "not_owner" /\ owner'[P][t] = owner[P][t] - 1
      BY <2>3, <3>1, <3>3
    <3>5. Counts(t)'
      BY <1>0, <1>1, <1>2, <2>1, <2>3, <2>4, <3>1, <3>4 DEF Counts, FlagsOwned, PgioMine, MainMine, Bit,
         Place, PgioHeldBy, MainHeldBy, PgioRegion, MainRegion, PgioClearing, MainClearing, At, CcLabels,
         WriteLabels, MappedHolds, Flushes, UserJobs
    <3> QED
      BY <3>2, <3>4, <3>5
  <2> QED
    BY <2>2, <2>3, <2>4, <2>5, <2>6, <2>7 DEF StepOf
<1>3. CASE status[t] = {M} /\ Release(M, t) /\ status' = [status EXCEPT ![t] = {}] /\ Finish(t)
  <2>1. /\ job'[t] = "none" /\ pc'[t] = "idle"
        /\ status'[t] = {} /\ nested'[t] = nested[t] /\ toRelease'[t] = toRelease[t]
    BY <1>0, <1>1, <1>3 DEF CloseIrpContext, Types, P, M
  <2>2. ThreadMoves(t)
    BY <1>0, <1>1, <1>3 DEF CloseIrpContext, ThreadMoves, Types, Release, P, M
  <2>3. /\ Held(t) /\ owner'[P][t] = owner[P][t] /\ exclusive'[P] = exclusive[P]
        /\ owner[M][t] > 0 => owner'[M][t] = owner[M][t] - 1 /\ fault' = fault
    BY <1>0, <1>1, <1>3, ReleaseHeld DEF CloseIrpContext, P, M
  <2>4. FlagsWord /\ flags' = flags /\ crossed' = crossed
    BY <1>0, <1>1, <1>3, SameWord DEF CloseIrpContext
  <2>5. Place(t)'
    BY <1>0, <1>1, <1>3, <2>1, <2>3 DEF Held, OwnTypes, Place, At, CcLabels, WriteLabels, MappedHolds,
       Flushes, UserJobs
  <2>6. "torn" \notin crossed' => Backs(t)
    BY <1>0, <1>1, <1>3, <2>1, <2>3, <2>4 DEF Backs, PgioBehind, MainBehind, PgioRegion, MainRegion,
       PgioClearing, MainClearing, At, CcLabels, WriteLabels, MappedHolds, Flushes, UserJobs, Bit, Types,
       Place
  <2>7. ASSUME Undisturbed PROVE fault' # "not_owner" /\ Counts(t)' /\ Owns(t)
    <3>1. Counts(t) /\ FlagsOwned /\ fault # "not_owner" /\ crossed' = {}
      BY <2>7 DEF Undisturbed, Orderly
    <3>2. Owns(t)
      BY <1>0, <1>1, <1>3, <2>1, <2>4, <3>1 DEF Owns, FlagsOwned, PgioMine, MainMine, PgioRegion, MainRegion,
         PgioClearing, MainClearing, At, CcLabels, WriteLabels, MappedHolds, Flushes, UserJobs
    <3>3. owner[M][t] > 0
      BY <1>0, <1>1, <1>3, <2>1, <3>1 DEF Counts, FlagsOwned, PgioMine, MainMine, Bit, Place, PgioHeldBy,
         MainHeldBy, PgioRegion, MainRegion, PgioClearing, MainClearing, At, CcLabels, WriteLabels,
         MappedHolds, Flushes, UserJobs
    <3>4. fault' # "not_owner" /\ owner'[M][t] = owner[M][t] - 1
      BY <2>3, <3>1, <3>3
    <3>5. Counts(t)'
      BY <1>0, <1>1, <1>3, <2>1, <2>3, <2>4, <3>1, <3>4 DEF Counts, FlagsOwned, PgioMine, MainMine, Bit,
         Place, PgioHeldBy, MainHeldBy, PgioRegion, MainRegion, PgioClearing, MainClearing, At, CcLabels,
         WriteLabels, MappedHolds, Flushes, UserJobs
    <3> QED
      BY <3>2, <3>4, <3>5
  <2> QED
    BY <2>2, <2>3, <2>4, <2>5, <2>6, <2>7 DEF StepOf
<1> QED
  BY <1>0, <1>1, <1>2, <1>3 DEF CloseIrpContext, At, CcLabels, WriteLabels, MappedHolds, Flushes, UserJobs,
     Place, P, M

LEMMA AcquireSectionStep == ASSUME Basic, NEW t \in Threads, AcquireSection(t) PROVE StepOf(t)
<1>0. /\ Types /\ Place(t) /\ P \in Resources /\ M \in Resources /\ P # M
      /\ owner[P][t] \in Nat /\ owner[M][t] \in Nat /\ P # "none" /\ M # "none"
  BY TwoResources DEF Basic, Types, P, M
<1>1. job[t] \in {"section"} /\ pc[t] = "section"
  BY <1>0 DEF AcquireSection, Place, At, CcLabels, WriteLabels, MappedHolds, Flushes, UserJobs
<1>2. /\ job'[t] = job[t] /\ pc'[t] = "close"
      /\ status'[t] = {M} /\ nested'[t] = nested[t] /\ toRelease'[t] = toRelease[t]
  BY <1>0, <1>1 DEF AcquireSection, Types, P, M
<1>3. ThreadMoves(t)
  BY <1>0, <1>1 DEF AcquireSection, ThreadMoves, Types, Release, P, M
<1>4. /\ Held(t) /\ owner'[M][t] = owner[M][t] + 1 /\ owner'[P][t] = owner[P][t]
      /\ exclusive'[M] /\ exclusive'[P] = exclusive[P] /\ fault' = fault
  BY <1>0, <1>1, OwnHeld DEF AcquireSection, P, M
<1>5. FlagsWord /\ flags' = flags /\ crossed' = crossed
  BY <1>0, <1>1, SameWord DEF AcquireSection
<1>6. Place(t)'
  BY <1>0, <1>1, <1>2, <1>4 DEF Held, OwnTypes, Place, At, CcLabels, WriteLabels, MappedHolds, Flushes, UserJobs
<1>7. "torn" \notin crossed' => Backs(t)
  BY <1>0, <1>1, <1>2, <1>4, <1>5 DEF Backs, PgioBehind, MainBehind, PgioRegion, MainRegion, PgioClearing,
     MainClearing, At, CcLabels, WriteLabels, MappedHolds, Flushes, UserJobs, Bit, Types, Place
<1>8. ASSUME Undisturbed PROVE fault' # "not_owner" /\ Counts(t)' /\ Owns(t)
  <2>1. Counts(t) /\ FlagsOwned /\ fault # "not_owner" /\ crossed' = {}
    BY <1>8 DEF Undisturbed, Orderly
  <2>2. Owns(t)
    BY <1>0, <1>1, <1>2, <1>5, <2>1 DEF Owns, FlagsOwned, PgioMine, MainMine, PgioRegion, MainRegion,
       PgioClearing, MainClearing, At, CcLabels, WriteLabels, MappedHolds, Flushes, UserJobs
  <2>3. fault' # "not_owner" /\ Counts(t)'
    BY <1>0, <1>1, <1>2, <1>4, <1>5, <2>1, <2>2 DEF Counts, FlagsOwned, PgioMine, MainMine, Bit, Types, Place,
       PgioHeldBy, MainHeldBy, PgioRegion, MainRegion, PgioClearing, MainClearing, At, CcLabels, WriteLabels,
       MappedHolds, Flushes, UserJobs
  <2> QED
    BY <2>2, <2>3
<1> QED
  BY <1>3, <1>4, <1>5, <1>6, <1>7, <1>8 DEF StepOf

-----------------------------------------------------------------------------
(* Paging I/O.                                                                *)

LEMMA ReadPagingIOStep == ASSUME Basic, NEW t \in Threads, ReadPagingIO(t) PROVE StepOf(t)
<1>0. /\ Types /\ Place(t) /\ P \in Resources /\ M \in Resources /\ P # M
      /\ owner[P][t] \in Nat /\ owner[M][t] \in Nat /\ P # "none" /\ M # "none"
  BY TwoResources DEF Basic, Types, P, M
<1>1. job[t] \in {"read", "write", "ahead"} /\ pc[t] = "pageRead"
  BY <1>0 DEF ReadPagingIO, Place, At, CcLabels, WriteLabels, MappedHolds, Flushes, UserJobs
<1>2. /\ job'[t] = job[t] /\ pc'[t] = "readDone"
      /\ status'[t] = status[t] /\ nested'[t] = {P} /\ toRelease'[t] = toRelease[t]
  BY <1>0, <1>1 DEF ReadPagingIO, Types, P, M
<1>3. ThreadMoves(t)
  BY <1>0, <1>1 DEF ReadPagingIO, ThreadMoves, Types, Release, P, M
<1>4. /\ Held(t) /\ owner'[P][t] = owner[P][t] + 1 /\ owner'[M][t] = owner[M][t]
      /\ exclusive' = exclusive /\ fault' = fault
  BY <1>0, <1>1, ShareHeld DEF ReadPagingIO, P, M
<1>5. FlagsWord /\ flags' = flags /\ crossed' = crossed
  BY <1>0, <1>1, SameWord DEF ReadPagingIO
<1>6. Place(t)'
  BY <1>0, <1>1, <1>2, <1>4 DEF Held, OwnTypes, Place, At, CcLabels, WriteLabels, MappedHolds, Flushes, UserJobs
<1>7. "torn" \notin crossed' => Backs(t)
  BY <1>0, <1>1, <1>2, <1>4, <1>5 DEF Backs, PgioBehind, MainBehind, PgioRegion, MainRegion, PgioClearing,
     MainClearing, At, CcLabels, WriteLabels, MappedHolds, Flushes, UserJobs, Bit, Types, Place
<1>8. ASSUME Undisturbed PROVE fault' # "not_owner" /\ Counts(t)' /\ Owns(t)
  <2>1. Counts(t) /\ FlagsOwned /\ fault # "not_owner" /\ crossed' = {}
    BY <1>8 DEF Undisturbed, Orderly
  <2>2. Owns(t)
    BY <1>0, <1>1, <1>2, <1>5, <2>1 DEF Owns, FlagsOwned, PgioMine, MainMine, PgioRegion, MainRegion,
       PgioClearing, MainClearing, At, CcLabels, WriteLabels, MappedHolds, Flushes, UserJobs
  <2>3. fault' # "not_owner" /\ Counts(t)'
    BY <1>0, <1>1, <1>2, <1>4, <1>5, <2>1, <2>2 DEF Counts, FlagsOwned, PgioMine, MainMine, Bit, Types, Place,
       PgioHeldBy, MainHeldBy, PgioRegion, MainRegion, PgioClearing, MainClearing, At, CcLabels, WriteLabels,
       MappedHolds, Flushes, UserJobs
  <2> QED
    BY <2>2, <2>3
<1> QED
  BY <1>3, <1>4, <1>5, <1>6, <1>7, <1>8 DEF StepOf

LEMMA TestPgioHeldStep == ASSUME Basic, NEW t \in Threads, TestPgioHeld(t) PROVE StepOf(t)
<1>0. /\ Types /\ Place(t) /\ P \in Resources /\ M \in Resources /\ P # M
      /\ owner[P][t] \in Nat /\ owner[M][t] \in Nat /\ P # "none" /\ M # "none"
  BY TwoResources DEF Basic, Types, P, M
<1>1. job[t] \in {"lazy", "mapped", "flush", "ccflush"} /\ pc[t] = "writeTest"
  BY <1>0 DEF TestPgioHeld, Place, At, CcLabels, WriteLabels, MappedHolds, Flushes, UserJobs
<1>2. /\ job'[t] = job[t] /\ pc'[t] \in {"writing", "writeAcquire"}
      /\ status'[t] = status[t] /\ nested'[t] = nested[t] /\ toRelease'[t] = toRelease[t]
  BY <1>0, <1>1 DEF TestPgioHeld, Types, P, M
<1>3. ThreadMoves(t)
  BY <1>0, <1>1 DEF TestPgioHeld, ThreadMoves, Types, Release, P, M
<1>4. Held(t) /\ UNCHANGED << owner, exclusive >> /\ fault' = fault
  BY <1>0, <1>1, SameHeld DEF TestPgioHeld
<1>5. FlagsWord /\ flags' = flags /\ crossed' = crossed
  BY <1>0, <1>1, SameWord DEF TestPgioHeld
<1>6. Place(t)'
  BY <1>0, <1>1, <1>2, <1>4 DEF Held, OwnTypes, Place, At, CcLabels, WriteLabels, MappedHolds, Flushes, UserJobs
<1>7. "torn" \notin crossed' => Backs(t)
  BY <1>0, <1>1, <1>2, <1>4, <1>5 DEF Backs, PgioBehind, MainBehind, PgioRegion, MainRegion, PgioClearing,
     MainClearing, At, CcLabels, WriteLabels, MappedHolds, Flushes, UserJobs, Bit, Types, Place
<1>8. ASSUME Undisturbed PROVE fault' # "not_owner" /\ Counts(t)' /\ Owns(t)
  <2>1. Counts(t) /\ FlagsOwned /\ fault # "not_owner" /\ crossed' = {}
    BY <1>8 DEF Undisturbed, Orderly
  <2>2. Owns(t)
    BY <1>0, <1>1, <1>2, <1>5, <2>1 DEF Owns, FlagsOwned, PgioMine, MainMine, PgioRegion, MainRegion,
       PgioClearing, MainClearing, At, CcLabels, WriteLabels, MappedHolds, Flushes, UserJobs
  <2>3. fault' # "not_owner" /\ Counts(t)'
    BY <1>0, <1>1, <1>2, <1>4, <1>5, <2>1, <2>2 DEF Counts, FlagsOwned, PgioMine, MainMine, Bit, Types, Place,
       PgioHeldBy, MainHeldBy, PgioRegion, MainRegion, PgioClearing, MainClearing, At, CcLabels, WriteLabels,
       MappedHolds, Flushes, UserJobs
  <2> QED
    BY <2>2, <2>3
<1> QED
  BY <1>3, <1>4, <1>5, <1>6, <1>7, <1>8 DEF StepOf

LEMMA AcquirePgioExclusiveStep == ASSUME Basic, NEW t \in Threads, AcquirePgioExclusive(t) PROVE StepOf(t)
<1>0. /\ Types /\ Place(t) /\ P \in Resources /\ M \in Resources /\ P # M
      /\ owner[P][t] \in Nat /\ owner[M][t] \in Nat /\ P # "none" /\ M # "none"
  BY TwoResources DEF Basic, Types, P, M
<1>1. job[t] \in {"lazy", "mapped", "flush", "ccflush"} /\ pc[t] = "writeAcquire"
  BY <1>0 DEF AcquirePgioExclusive, Place, At, CcLabels, WriteLabels, MappedHolds, Flushes, UserJobs
<1>2. CASE fault' = "assertion" /\ UNCHANGED << owner, exclusive, nested >>
  <2>1. /\ job'[t] = job[t] /\ pc'[t] = "writing"
        /\ status'[t] = status[t] /\ nested'[t] = nested[t] /\ toRelease'[t] = toRelease[t]
    BY <1>0, <1>1, <1>2 DEF AcquirePgioExclusive, Types, P, M
  <2>2. ThreadMoves(t)
    BY <1>0, <1>1, <1>2 DEF AcquirePgioExclusive, ThreadMoves, Types, Release, P, M
  <2>3. Held(t) /\ UNCHANGED << owner, exclusive >> /\ fault' = "assertion"
    BY <1>0, <1>1, <1>2, SameHeld DEF AcquirePgioExclusive
  <2>4. FlagsWord /\ flags' = flags /\ crossed' = crossed
    BY <1>0, <1>1, <1>2, SameWord DEF AcquirePgioExclusive
  <2>5. Place(t)'
    BY <1>0, <1>1, <1>2, <2>1, <2>3 DEF Held, OwnTypes, Place, At, CcLabels, WriteLabels, MappedHolds,
       Flushes, UserJobs
  <2>6. "torn" \notin crossed' => Backs(t)
    BY <1>0, <1>1, <1>2, <2>1, <2>3, <2>4 DEF Backs, PgioBehind, MainBehind, PgioRegion, MainRegion,
       PgioClearing, MainClearing, At, CcLabels, WriteLabels, MappedHolds, Flushes, UserJobs, Bit, Types,
       Place
  <2>7. ASSUME Undisturbed PROVE fault' # "not_owner" /\ Counts(t)' /\ Owns(t)
    <3>1. Counts(t) /\ FlagsOwned /\ fault # "not_owner" /\ crossed' = {}
      BY <2>7 DEF Undisturbed, Orderly
    <3>2. Owns(t)
      BY <1>0, <1>1, <1>2, <2>1, <2>4, <3>1 DEF Owns, FlagsOwned, PgioMine, MainMine, PgioRegion, MainRegion,
         PgioClearing, MainClearing, At, CcLabels, WriteLabels, MappedHolds, Flushes, UserJobs
    <3>3. fault' # "not_owner" /\ Counts(t)'
      BY <1>0, <1>1, <1>2, <2>1, <2>3, <2>4, <3>1, <3>2 DEF Counts, FlagsOwned, PgioMine, MainMine, Bit,
         Types, Place, PgioHeldBy, MainHeldBy, PgioRegion, MainRegion, PgioClearing, MainClearing, At,
         CcLabels, WriteLabels, MappedHolds, Flushes, UserJobs
    <3> QED
      BY <3>2, <3>3
  <2> QED
    BY <2>2, <2>3, <2>4, <2>5, <2>6, <2>7 DEF StepOf
<1>3. CASE Own(P, t) /\ nested' = [nested EXCEPT ![t] = {P}] /\ UNCHANGED fault
  <2>1. /\ job'[t] = job[t] /\ pc'[t] = "writing"
        /\ status'[t] = status[t] /\ nested'[t] = {P} /\ toRelease'[t] = toRelease[t]
    BY <1>0, <1>1, <1>3 DEF AcquirePgioExclusive, Types, P, M
  <2>2. ThreadMoves(t)
    BY <1>0, <1>1, <1>3 DEF AcquirePgioExclusive, ThreadMoves, Types, Release, P, M
  <2>3. /\ Held(t) /\ owner'[P][t] = owner[P][t] + 1 /\ owner'[M][t] = owner[M][t]
        /\ exclusive'[P] /\ exclusive'[M] = exclusive[M] /\ fault' = fault
    BY <1>0, <1>1, <1>3, OwnHeld DEF AcquirePgioExclusive, P, M
  <2>4. FlagsWord /\ flags' = flags /\ crossed' = crossed
    BY <1>0, <1>1, <1>3, SameWord DEF AcquirePgioExclusive
  <2>5. Place(t)'
    BY <1>0, <1>1, <1>3, <2>1, <2>3 DEF Held, OwnTypes, Place, At, CcLabels, WriteLabels, MappedHolds,
       Flushes, UserJobs
  <2>6. "torn" \notin crossed' => Backs(t)
    BY <1>0, <1>1, <1>3, <2>1, <2>3, <2>4 DEF Backs, PgioBehind, MainBehind, PgioRegion, MainRegion,
       PgioClearing, MainClearing, At, CcLabels, WriteLabels, MappedHolds, Flushes, UserJobs, Bit, Types,
       Place
  <2>7. ASSUME Undisturbed PROVE fault' # "not_owner" /\ Counts(t)' /\ Owns(t)
    <3>1. Counts(t) /\ FlagsOwned /\ fault # "not_owner" /\ crossed' = {}
      BY <2>7 DEF Undisturbed, Orderly
    <3>2. Owns(t)
      BY <1>0, <1>1, <1>3, <2>1, <2>4, <3>1 DEF Owns, FlagsOwned, PgioMine, MainMine, PgioRegion, MainRegion,
         PgioClearing, MainClearing, At, CcLabels, WriteLabels, MappedHolds, Flushes, UserJobs
    <3>3. fault' # "not_owner" /\ Counts(t)'
      BY <1>0, <1>1, <1>3, <2>1, <2>3, <2>4, <3>1, <3>2 DEF Counts, FlagsOwned, PgioMine, MainMine, Bit,
         Types, Place, PgioHeldBy, MainHeldBy, PgioRegion, MainRegion, PgioClearing, MainClearing, At,
         CcLabels, WriteLabels, MappedHolds, Flushes, UserJobs
    <3> QED
      BY <3>2, <3>3
  <2> QED
    BY <2>2, <2>3, <2>4, <2>5, <2>6, <2>7 DEF StepOf
<1> QED
  BY <1>0, <1>1, <1>2, <1>3 DEF AcquirePgioExclusive, At, CcLabels, WriteLabels, MappedHolds, Flushes,
     UserJobs, Place, P, M

LEMMA WritePageStep == ASSUME Basic, NEW t \in Threads, WritePage(t) PROVE StepOf(t)
<1>0. /\ Types /\ Place(t) /\ P \in Resources /\ M \in Resources /\ P # M
      /\ owner[P][t] \in Nat /\ owner[M][t] \in Nat /\ P # "none" /\ M # "none"
  BY TwoResources DEF Basic, Types, P, M
<1>1. job[t] \in {"lazy", "mapped", "flush", "ccflush"} /\ pc[t] = "writing"
  BY <1>0 DEF WritePage, Place, At, CcLabels, WriteLabels, MappedHolds, Flushes, UserJobs
<1>2. /\ job'[t] = job[t] /\ pc'[t] = "writeDone"
      /\ status'[t] = status[t] /\ nested'[t] = nested[t] /\ toRelease'[t] = toRelease[t]
  BY <1>0, <1>1 DEF WritePage, Types, P, M
<1>3. ThreadMoves(t)
  BY <1>0, <1>1 DEF WritePage, ThreadMoves, Types, Release, P, M
<1>4. Held(t) /\ UNCHANGED << owner, exclusive >> /\ fault' = fault
  BY <1>0, <1>1, SameHeld DEF WritePage
<1>5. /\ FlagsWord
      /\ "torn" \notin crossed' => flags' = (flags \cup {}) \ {}
  BY UpdateWord DEF WritePage, StateFlags
<1>6. Place(t)'
  BY <1>0, <1>1, <1>2, <1>4 DEF Held, OwnTypes, Place, At, CcLabels, WriteLabels, MappedHolds, Flushes, UserJobs
<1>7. "torn" \notin crossed' => Backs(t)
  BY <1>0, <1>1, <1>2, <1>4, <1>5 DEF Backs, PgioBehind, MainBehind, PgioRegion, MainRegion, PgioClearing,
     MainClearing, At, CcLabels, WriteLabels, MappedHolds, Flushes, UserJobs, Bit, Types, Place, PgioFlags,
     MainFlags
<1>8. ASSUME Undisturbed PROVE fault' # "not_owner" /\ Counts(t)' /\ Owns(t)
  <2>1. Counts(t) /\ FlagsOwned /\ fault # "not_owner" /\ crossed' = {}
    BY <1>8 DEF Undisturbed, Orderly
  <2>2. Owns(t)
    BY <1>0, <1>1, <1>2, <1>5, <2>1 DEF Owns, FlagsOwned, PgioMine, MainMine, PgioRegion, MainRegion,
       PgioClearing, MainClearing, At, CcLabels, WriteLabels, MappedHolds, Flushes, UserJobs, PgioFlags,
       MainFlags
  <2>3. fault' # "not_owner" /\ Counts(t)'
    BY <1>0, <1>1, <1>2, <1>4, <1>5, <2>1, <2>2 DEF Counts, FlagsOwned, PgioMine, MainMine, Bit, Types, Place,
       PgioHeldBy, MainHeldBy, PgioRegion, MainRegion, PgioClearing, MainClearing, At, CcLabels, WriteLabels,
       MappedHolds, Flushes, UserJobs
  <2> QED
    BY <2>2, <2>3
<1> QED
  BY <1>3, <1>4, <1>5, <1>6, <1>7, <1>8 DEF StepOf

LEMMA ClosePagingStep == ASSUME Basic, NEW t \in Threads, ClosePaging(t) PROVE StepOf(t)
<1>0. /\ Types /\ Place(t) /\ P \in Resources /\ M \in Resources /\ P # M
      /\ owner[P][t] \in Nat /\ owner[M][t] \in Nat /\ P # "none" /\ M # "none"
  BY TwoResources DEF Basic, Types, P, M
<1>1. job[t] \in {"read", "write", "ahead", "lazy", "mapped", "flush", "ccflush"} /\ pc[t] \in {"readDone", "writeDone"}
  BY <1>0 DEF ClosePaging, Place, At, CcLabels, WriteLabels, MappedHolds, Flushes, UserJobs
<1>2. CASE nested[t] = {}
  <2>1. /\ job'[t] = job[t] /\ pc'[t] = (CASE job[t] \in {"read", "write"} -> "close" [] job[t] = "lazy" -> "lazyRelease"
                         [] job[t] = "ahead" -> "aheadRelease" [] job[t] = "mapped" -> "modRelease"
                         [] OTHER -> "ccRelease")
        /\ status'[t] = status[t] /\ nested'[t] = nested[t] /\ toRelease'[t] = toRelease[t]
    BY <1>0, <1>1, <1>2, AfterPagingValues DEF ClosePaging, Types, P, M
  <2>2. ThreadMoves(t)
    BY <1>0, <1>1, <1>2 DEF ClosePaging, ThreadMoves, Types, Release, P, M
  <2>3. Held(t) /\ UNCHANGED << owner, exclusive >> /\ fault' = fault
    BY <1>0, <1>1, <1>2, SameHeld DEF ClosePaging
  <2>4. FlagsWord /\ flags' = flags /\ crossed' = crossed
    BY <1>0, <1>1, <1>2, SameWord DEF ClosePaging
  <2>5. Place(t)'
    BY <1>0, <1>1, <1>2, <2>1, <2>3 DEF Held, OwnTypes, Place, At, CcLabels, WriteLabels, MappedHolds,
       Flushes, UserJobs
  <2>6. /\ PgioRegion(job'[t], pc'[t]) <=> PgioRegion(job[t], pc[t])
        /\ MainRegion(job'[t], pc'[t]) <=> MainRegion(job[t], pc[t])
        /\ {pc[t], pc'[t]} \cap (PgioClearing \cup MainClearing) = {}
    BY <1>0, <1>1, <2>1 DEF Place, PgioRegion, MainRegion, PgioClearing, MainClearing, At, CcLabels,
       WriteLabels, MappedHolds, Flushes, UserJobs
  <2>7. "torn" \notin crossed' => Backs(t)
    BY <1>0, <1>1, <1>2, <2>1, <2>3, <2>4, <2>6 DEF Backs, PgioBehind, MainBehind, Bit
  <2>8. ASSUME Undisturbed PROVE fault' # "not_owner" /\ Counts(t)' /\ Owns(t)
    <3>1. Counts(t) /\ FlagsOwned /\ fault # "not_owner" /\ crossed' = {}
      BY <2>8 DEF Undisturbed, Orderly
    <3>2. Owns(t)
      BY <2>4, <2>6 DEF Owns, PgioMine, MainMine
    <3>3. fault' # "not_owner" /\ Counts(t)'
      BY <1>0, <1>1, <1>2, <2>1, <2>3, <2>4, <3>1, <3>2 DEF Counts, FlagsOwned, PgioMine, MainMine, Bit,
         Types, Place, PgioHeldBy, MainHeldBy, PgioRegion, MainRegion, PgioClearing, MainClearing, At,
         CcLabels, WriteLabels, MappedHolds, Flushes, UserJobs
    <3> QED
      BY <3>2, <3>3
  <2> QED
    BY <2>2, <2>3, <2>4, <2>5, <2>7, <2>8 DEF StepOf
<1>3. CASE nested[t] = {P}
  <2>1. /\ job'[t] = job[t] /\ pc'[t] = (CASE job[t] \in {"read", "write"} -> "close" [] job[t] = "lazy" -> "lazyRelease"
                         [] job[t] = "ahead" -> "aheadRelease" [] job[t] = "mapped" -> "modRelease"
                         [] OTHER -> "ccRelease")
        /\ status'[t] = status[t] /\ nested'[t] = {} /\ toRelease'[t] = toRelease[t]
    BY <1>0, <1>1, <1>3, AfterPagingValues DEF ClosePaging, Types, P, M
  <2>2. ThreadMoves(t)
    BY <1>0, <1>1, <1>3 DEF ClosePaging, ThreadMoves, Types, Release, P, M
  <2>3. /\ Held(t) /\ owner'[M][t] = owner[M][t] /\ exclusive'[M] = exclusive[M]
        /\ owner[P][t] > 0 => owner'[P][t] = owner[P][t] - 1 /\ fault' = fault
    BY <1>0, <1>1, <1>3, ReleaseHeld DEF ClosePaging, P, M
  <2>4. FlagsWord /\ flags' = flags /\ crossed' = crossed
    BY <1>0, <1>1, <1>3, SameWord DEF ClosePaging
  <2>5. Place(t)'
    BY <1>0, <1>1, <1>3, <2>1, <2>3 DEF Held, OwnTypes, Place, At, CcLabels, WriteLabels, MappedHolds,
       Flushes, UserJobs
  <2>6. /\ PgioRegion(job'[t], pc'[t]) <=> PgioRegion(job[t], pc[t])
        /\ MainRegion(job'[t], pc'[t]) <=> MainRegion(job[t], pc[t])
        /\ {pc[t], pc'[t]} \cap (PgioClearing \cup MainClearing) = {}
    BY <1>0, <1>1, <2>1 DEF Place, PgioRegion, MainRegion, PgioClearing, MainClearing, At, CcLabels,
       WriteLabels, MappedHolds, Flushes, UserJobs
  <2>7. "torn" \notin crossed' => Backs(t)
    BY <1>0, <1>1, <1>3, <2>1, <2>3, <2>4, <2>6 DEF Backs, PgioBehind, MainBehind, Bit
  <2>8. ASSUME Undisturbed PROVE fault' # "not_owner" /\ Counts(t)' /\ Owns(t)
    <3>1. Counts(t) /\ FlagsOwned /\ fault # "not_owner" /\ crossed' = {}
      BY <2>8 DEF Undisturbed, Orderly
    <3>2. Owns(t)
      BY <2>4, <2>6 DEF Owns, PgioMine, MainMine
    <3>3. owner[P][t] > 0
      BY <1>0, <1>1, <1>3, <2>1, <3>1 DEF Counts, FlagsOwned, PgioMine, MainMine, Bit, Place, PgioHeldBy,
         MainHeldBy, PgioRegion, MainRegion, PgioClearing, MainClearing, At, CcLabels, WriteLabels,
         MappedHolds, Flushes, UserJobs
    <3>4. fault' # "not_owner" /\ owner'[P][t] = owner[P][t] - 1
      BY <2>3, <3>1, <3>3
    <3>5. Counts(t)'
      BY <1>0, <1>1, <1>3, <2>1, <2>3, <2>4, <3>1, <3>4 DEF Counts, FlagsOwned, PgioMine, MainMine, Bit,
         Place, PgioHeldBy, MainHeldBy, PgioRegion, MainRegion, PgioClearing, MainClearing, At, CcLabels,
         WriteLabels, MappedHolds, Flushes, UserJobs
    <3> QED
      BY <3>2, <3>4, <3>5
  <2> QED
    BY <2>2, <2>3, <2>4, <2>5, <2>7, <2>8 DEF StepOf
<1> QED
  BY <1>0, <1>1, <1>2, <1>3 DEF ClosePaging, At, CcLabels, WriteLabels, MappedHolds, Flushes, UserJobs, Place, P, M

-----------------------------------------------------------------------------
(* Flushes.                                                                   *)

LEMMA AcquireCcFlush_MainStep == ASSUME Basic, NEW t \in Threads, AcquireCcFlush_Main(t) PROVE StepOf(t)
<1>0. /\ Types /\ Place(t) /\ P \in Resources /\ M \in Resources /\ P # M
      /\ owner[P][t] \in Nat /\ owner[M][t] \in Nat /\ P # "none" /\ M # "none"
  BY TwoResources DEF Basic, Types, P, M
<1>1. job[t] \in {"flush", "ccflush"} /\ pc[t] = "ccMain"
  BY <1>0 DEF AcquireCcFlush_Main, Place, At, CcLabels, WriteLabels, MappedHolds, Flushes, UserJobs
<1>2. CASE owner[M][t] = 0
  <2>1. /\ job'[t] = job[t] /\ pc'[t] = "ccMainFlag"
        /\ status'[t] = status[t] /\ nested'[t] = nested[t] /\ toRelease'[t] = toRelease[t]
    BY <1>0, <1>1, <1>2 DEF AcquireCcFlush_Main, Types, P, M
  <2>2. ThreadMoves(t)
    BY <1>0, <1>1, <1>2 DEF AcquireCcFlush_Main, ThreadMoves, Types, Release, P, M
  <2>3. /\ Held(t) /\ owner'[M][t] = owner[M][t] + 1 /\ owner'[P][t] = owner[P][t]
        /\ exclusive'[M] /\ exclusive'[P] = exclusive[P] /\ fault' = fault
    BY <1>0, <1>1, <1>2, OwnHeld DEF AcquireCcFlush_Main, P, M
  <2>4. FlagsWord /\ flags' = flags /\ crossed' = crossed
    BY <1>0, <1>1, <1>2, SameWord DEF AcquireCcFlush_Main
  <2>5. Place(t)'
    BY <1>0, <1>1, <1>2, <2>1, <2>3 DEF Held, OwnTypes, Place, At, CcLabels, WriteLabels, MappedHolds,
       Flushes, UserJobs
  <2>6. "torn" \notin crossed' => Backs(t)
    BY <1>0, <1>1, <1>2, <2>1, <2>3, <2>4 DEF Backs, PgioBehind, MainBehind, PgioRegion, MainRegion,
       PgioClearing, MainClearing, At, CcLabels, WriteLabels, MappedHolds, Flushes, UserJobs, Bit, Types,
       Place
  <2>7. ASSUME Undisturbed PROVE fault' # "not_owner" /\ Counts(t)' /\ Owns(t)
    <3>1. Counts(t) /\ FlagsOwned /\ fault # "not_owner" /\ crossed' = {}
      BY <2>7 DEF Undisturbed, Orderly
    <3>2. Owns(t)
      BY <1>0, <1>1, <1>2, <2>1, <2>4, <3>1 DEF Owns, FlagsOwned, PgioMine, MainMine, PgioRegion, MainRegion,
         PgioClearing, MainClearing, At, CcLabels, WriteLabels, MappedHolds, Flushes, UserJobs
    <3>3. fault' # "not_owner" /\ Counts(t)'
      BY <1>0, <1>1, <1>2, <2>1, <2>3, <2>4, <3>1, <3>2 DEF Counts, FlagsOwned, PgioMine, MainMine, Bit,
         Types, Place, PgioHeldBy, MainHeldBy, PgioRegion, MainRegion, PgioClearing, MainClearing, At,
         CcLabels, WriteLabels, MappedHolds, Flushes, UserJobs
    <3> QED
      BY <3>2, <3>3
  <2> QED
    BY <2>2, <2>3, <2>4, <2>5, <2>6, <2>7 DEF StepOf
<1>3. CASE owner[M][t] # 0
  <2>1. /\ job'[t] = job[t] /\ pc'[t] = "ccMainFlag"
        /\ status'[t] = status[t] /\ nested'[t] = nested[t] /\ toRelease'[t] = toRelease[t]
    BY <1>0, <1>1, <1>3 DEF AcquireCcFlush_Main, Types, P, M
  <2>2. ThreadMoves(t)
    BY <1>0, <1>1, <1>3 DEF AcquireCcFlush_Main, ThreadMoves, Types, Release, P, M
  <2>3. /\ Held(t) /\ owner'[M][t] = owner[M][t] + 1 /\ owner'[P][t] = owner[P][t]
        /\ exclusive' = exclusive /\ fault' = fault
    BY <1>0, <1>1, <1>3, ShareHeld DEF AcquireCcFlush_Main, P, M
  <2>4. FlagsWord /\ flags' = flags /\ crossed' = crossed
    BY <1>0, <1>1, <1>3, SameWord DEF AcquireCcFlush_Main
  <2>5. Place(t)'
    BY <1>0, <1>1, <1>3, <2>1, <2>3 DEF Held, OwnTypes, Place, At, CcLabels, WriteLabels, MappedHolds,
       Flushes, UserJobs
  <2>6. "torn" \notin crossed' => Backs(t)
    BY <1>0, <1>1, <1>3, <2>1, <2>3, <2>4 DEF Backs, PgioBehind, MainBehind, PgioRegion, MainRegion,
       PgioClearing, MainClearing, At, CcLabels, WriteLabels, MappedHolds, Flushes, UserJobs, Bit, Types,
       Place
  <2>7. ASSUME Undisturbed PROVE fault' # "not_owner" /\ Counts(t)' /\ Owns(t)
    <3>1. Counts(t) /\ FlagsOwned /\ fault # "not_owner" /\ crossed' = {}
      BY <2>7 DEF Undisturbed, Orderly
    <3>2. Owns(t)
      BY <1>0, <1>1, <1>3, <2>1, <2>4, <3>1 DEF Owns, FlagsOwned, PgioMine, MainMine, PgioRegion, MainRegion,
         PgioClearing, MainClearing, At, CcLabels, WriteLabels, MappedHolds, Flushes, UserJobs
    <3>3. fault' # "not_owner" /\ Counts(t)'
      BY <1>0, <1>1, <1>3, <2>1, <2>3, <2>4, <3>1, <3>2 DEF Counts, FlagsOwned, PgioMine, MainMine, Bit,
         Types, Place, PgioHeldBy, MainHeldBy, PgioRegion, MainRegion, PgioClearing, MainClearing, At,
         CcLabels, WriteLabels, MappedHolds, Flushes, UserJobs
    <3> QED
      BY <3>2, <3>3
  <2> QED
    BY <2>2, <2>3, <2>4, <2>5, <2>6, <2>7 DEF StepOf
<1> QED
  BY <1>0, <1>1, <1>2, <1>3 DEF AcquireCcFlush_Main, At, CcLabels, WriteLabels, MappedHolds, Flushes,
     UserJobs, Place, P, M

LEMMA AcquireCcFlush_MainFlagStep == ASSUME Basic, NEW t \in Threads, AcquireCcFlush_MainFlag(t) PROVE StepOf(t)
<1>0. /\ Types /\ Place(t) /\ P \in Resources /\ M \in Resources /\ P # M
      /\ owner[P][t] \in Nat /\ owner[M][t] \in Nat /\ P # "none" /\ M # "none"
  BY TwoResources DEF Basic, Types, P, M
<1>1. job[t] \in {"flush", "ccflush"} /\ pc[t] = "ccMainFlag"
  BY <1>0 DEF AcquireCcFlush_MainFlag, Place, At, CcLabels, WriteLabels, MappedHolds, Flushes, UserJobs
<1>2. /\ job'[t] = job[t] /\ pc'[t] = "ccPgioTest"
      /\ status'[t] = status[t] /\ nested'[t] = nested[t] /\ toRelease'[t] = toRelease[t]
  BY <1>0, <1>1 DEF AcquireCcFlush_MainFlag, Types, P, M
<1>3. ThreadMoves(t)
  BY <1>0, <1>1 DEF AcquireCcFlush_MainFlag, ThreadMoves, Types, Release, P, M
<1>4. Held(t) /\ UNCHANGED << owner, exclusive >> /\ fault' = fault
  BY <1>0, <1>1, SameHeld DEF AcquireCcFlush_MainFlag
<1>5. PICK f \in MainFlags : Update(t, {f}, {})
  BY DEF AcquireCcFlush_MainFlag
<1>6. /\ FlagsWord
      /\ "torn" \notin crossed' => flags' = (flags \cup {f}) \ {}
      /\ crossed' = {} => flags \cap MainFlags = {}
  BY <1>5, UpdateWord, Groups
<1>7. Place(t)'
  BY <1>0, <1>1, <1>2, <1>4 DEF Held, OwnTypes, Place, At, CcLabels, WriteLabels, MappedHolds, Flushes, UserJobs
<1>8. "torn" \notin crossed' => Backs(t)
  BY <1>0, <1>1, <1>2, <1>4, <1>6 DEF Backs, PgioBehind, MainBehind, PgioRegion, MainRegion, PgioClearing,
     MainClearing, At, CcLabels, WriteLabels, MappedHolds, Flushes, UserJobs, Bit, Types, Place, PgioFlags,
     MainFlags
<1>9. ASSUME Undisturbed PROVE fault' # "not_owner" /\ Counts(t)' /\ Owns(t)
  <2>1. Counts(t) /\ FlagsOwned /\ fault # "not_owner" /\ crossed' = {}
    BY <1>9 DEF Undisturbed, Orderly
  <2>2. Owns(t)
    BY <1>0, <1>1, <1>2, <1>6, <2>1 DEF Owns, FlagsOwned, PgioMine, MainMine, PgioRegion, MainRegion,
       PgioClearing, MainClearing, At, CcLabels, WriteLabels, MappedHolds, Flushes, UserJobs, PgioFlags,
       MainFlags
  <2>3. fault' # "not_owner" /\ Counts(t)'
    BY <1>0, <1>1, <1>2, <1>4, <1>6, <2>1, <2>2 DEF Counts, FlagsOwned, PgioMine, MainMine, Bit, Types, Place,
       PgioHeldBy, MainHeldBy, PgioRegion, MainRegion, PgioClearing, MainClearing, At, CcLabels, WriteLabels,
       MappedHolds, Flushes, UserJobs
  <2> QED
    BY <2>2, <2>3
<1> QED
  BY <1>3, <1>4, <1>6, <1>7, <1>8, <1>9 DEF StepOf

LEMMA AcquireCcFlush_TestStep == ASSUME Basic, NEW t \in Threads, AcquireCcFlush_Test(t) PROVE StepOf(t)
<1>0. /\ Types /\ Place(t) /\ P \in Resources /\ M \in Resources /\ P # M
      /\ owner[P][t] \in Nat /\ owner[M][t] \in Nat /\ P # "none" /\ M # "none"
  BY TwoResources DEF Basic, Types, P, M
<1>1. job[t] \in {"flush", "ccflush"} /\ pc[t] = "ccPgioTest"
  BY <1>0 DEF AcquireCcFlush_Test, Place, At, CcLabels, WriteLabels, MappedHolds, Flushes, UserJobs
<1>2. CASE flags \cap PgioFlags # {}
  <2>1. /\ job'[t] = job[t] /\ pc'[t] = "writeTest"
        /\ status'[t] = status[t] /\ nested'[t] = nested[t] /\ toRelease'[t] = toRelease[t]
    BY <1>0, <1>1, <1>2 DEF AcquireCcFlush_Test, Types, P, M
  <2>2. ThreadMoves(t)
    BY <1>0, <1>1, <1>2 DEF AcquireCcFlush_Test, ThreadMoves, Types, Release, P, M
  <2>3. Held(t) /\ UNCHANGED << owner, exclusive >> /\ fault' = fault
    BY <1>0, <1>1, <1>2, SameHeld DEF AcquireCcFlush_Test
  <2>4. FlagsWord /\ flags' = flags /\ "borrowed" \in crossed'
    BY <1>0, <1>1, <1>2 DEF AcquireCcFlush_Test, FlagsWord, Types
  <2>5. Place(t)'
    BY <1>0, <1>1, <1>2, <2>1, <2>3 DEF Held, OwnTypes, Place, At, CcLabels, WriteLabels, MappedHolds,
       Flushes, UserJobs
  <2>6. "torn" \notin crossed' => Backs(t)
    BY <1>0, <1>1, <1>2, <2>1, <2>3, <2>4 DEF Backs, PgioBehind, MainBehind, PgioRegion, MainRegion,
       PgioClearing, MainClearing, At, CcLabels, WriteLabels, MappedHolds, Flushes, UserJobs, Bit, Types,
       Place
  <2>7. ASSUME Undisturbed PROVE fault' # "not_owner" /\ Counts(t)' /\ Owns(t)
    <3>1. Counts(t) /\ FlagsOwned /\ fault # "not_owner" /\ crossed' = {}
      BY <2>7 DEF Undisturbed, Orderly
    <3>2. Owns(t)
      BY <1>0, <1>1, <1>2, <2>1, <2>4, <3>1 DEF Owns, FlagsOwned, PgioMine, MainMine, PgioRegion, MainRegion,
         PgioClearing, MainClearing, At, CcLabels, WriteLabels, MappedHolds, Flushes, UserJobs
    <3>3. fault' # "not_owner" /\ Counts(t)'
      BY <1>0, <1>1, <1>2, <2>1, <2>3, <2>4, <3>1, <3>2 DEF Counts, FlagsOwned, PgioMine, MainMine, Bit,
         Types, Place, PgioHeldBy, MainHeldBy, PgioRegion, MainRegion, PgioClearing, MainClearing, At,
         CcLabels, WriteLabels, MappedHolds, Flushes, UserJobs
    <3> QED
      BY <3>2, <3>3
  <2> QED
    BY <2>2, <2>3, <2>4, <2>5, <2>6, <2>7 DEF StepOf
<1>3. CASE flags \cap PgioFlags = {}
  <2>1. /\ job'[t] = job[t] /\ pc'[t] = "ccPgio"
        /\ status'[t] = status[t] /\ nested'[t] = nested[t] /\ toRelease'[t] = toRelease[t]
    BY <1>0, <1>1, <1>3 DEF AcquireCcFlush_Test, Types, P, M
  <2>2. ThreadMoves(t)
    BY <1>0, <1>1, <1>3 DEF AcquireCcFlush_Test, ThreadMoves, Types, Release, P, M
  <2>3. Held(t) /\ UNCHANGED << owner, exclusive >> /\ fault' = fault
    BY <1>0, <1>1, <1>3, SameHeld DEF AcquireCcFlush_Test
  <2>4. FlagsWord /\ flags' = flags /\ crossed' = crossed
    BY <1>0, <1>1, <1>3, SameWord DEF AcquireCcFlush_Test
  <2>5. Place(t)'
    BY <1>0, <1>1, <1>3, <2>1, <2>3 DEF Held, OwnTypes, Place, At, CcLabels, WriteLabels, MappedHolds,
       Flushes, UserJobs
  <2>6. "torn" \notin crossed' => Backs(t)
    BY <1>0, <1>1, <1>3, <2>1, <2>3, <2>4 DEF Backs, PgioBehind, MainBehind, PgioRegion, MainRegion,
       PgioClearing, MainClearing, At, CcLabels, WriteLabels, MappedHolds, Flushes, UserJobs, Bit, Types,
       Place
  <2>7. ASSUME Undisturbed PROVE fault' # "not_owner" /\ Counts(t)' /\ Owns(t)
    <3>1. Counts(t) /\ FlagsOwned /\ fault # "not_owner" /\ crossed' = {}
      BY <2>7 DEF Undisturbed, Orderly
    <3>2. Owns(t)
      BY <1>0, <1>1, <1>3, <2>1, <2>4, <3>1 DEF Owns, FlagsOwned, PgioMine, MainMine, PgioRegion, MainRegion,
         PgioClearing, MainClearing, At, CcLabels, WriteLabels, MappedHolds, Flushes, UserJobs
    <3>3. fault' # "not_owner" /\ Counts(t)'
      BY <1>0, <1>1, <1>3, <2>1, <2>3, <2>4, <3>1, <3>2 DEF Counts, FlagsOwned, PgioMine, MainMine, Bit,
         Types, Place, PgioHeldBy, MainHeldBy, PgioRegion, MainRegion, PgioClearing, MainClearing, At,
         CcLabels, WriteLabels, MappedHolds, Flushes, UserJobs
    <3> QED
      BY <3>2, <3>3
  <2> QED
    BY <2>2, <2>3, <2>4, <2>5, <2>6, <2>7 DEF StepOf
<1> QED
  BY <1>0, <1>1, <1>2, <1>3 DEF AcquireCcFlush_Test, At, CcLabels, WriteLabels, MappedHolds, Flushes,
     UserJobs, Place, P, M

LEMMA AcquireCcFlush_PgioStep == ASSUME Basic, NEW t \in Threads, AcquireCcFlush_Pgio(t) PROVE StepOf(t)
<1>0. /\ Types /\ Place(t) /\ P \in Resources /\ M \in Resources /\ P # M
      /\ owner[P][t] \in Nat /\ owner[M][t] \in Nat /\ P # "none" /\ M # "none"
  BY TwoResources DEF Basic, Types, P, M
<1>1. job[t] \in {"flush", "ccflush"} /\ pc[t] = "ccPgio"
  BY <1>0 DEF AcquireCcFlush_Pgio, Place, At, CcLabels, WriteLabels, MappedHolds, Flushes, UserJobs
<1>2. /\ job'[t] = job[t] /\ pc'[t] = "ccPgioFlag"
      /\ status'[t] = status[t] /\ nested'[t] = nested[t] /\ toRelease'[t] = toRelease[t]
  BY <1>0, <1>1 DEF AcquireCcFlush_Pgio, Types, P, M
<1>3. ThreadMoves(t)
  BY <1>0, <1>1 DEF AcquireCcFlush_Pgio, ThreadMoves, Types, Release, P, M
<1>4. /\ Held(t) /\ owner'[P][t] = owner[P][t] + 1 /\ owner'[M][t] = owner[M][t]
      /\ exclusive'[P] /\ exclusive'[M] = exclusive[M] /\ fault' = fault
  BY <1>0, <1>1, OwnHeld DEF AcquireCcFlush_Pgio, P, M
<1>5. FlagsWord /\ flags' = flags /\ crossed' = crossed
  BY <1>0, <1>1, SameWord DEF AcquireCcFlush_Pgio
<1>6. Place(t)'
  BY <1>0, <1>1, <1>2, <1>4 DEF Held, OwnTypes, Place, At, CcLabels, WriteLabels, MappedHolds, Flushes, UserJobs
<1>7. "torn" \notin crossed' => Backs(t)
  BY <1>0, <1>1, <1>2, <1>4, <1>5 DEF Backs, PgioBehind, MainBehind, PgioRegion, MainRegion, PgioClearing,
     MainClearing, At, CcLabels, WriteLabels, MappedHolds, Flushes, UserJobs, Bit, Types, Place
<1>8. ASSUME Undisturbed PROVE fault' # "not_owner" /\ Counts(t)' /\ Owns(t)
  <2>1. Counts(t) /\ FlagsOwned /\ fault # "not_owner" /\ crossed' = {}
    BY <1>8 DEF Undisturbed, Orderly
  <2>2. Owns(t)
    BY <1>0, <1>1, <1>2, <1>5, <2>1 DEF Owns, FlagsOwned, PgioMine, MainMine, PgioRegion, MainRegion,
       PgioClearing, MainClearing, At, CcLabels, WriteLabels, MappedHolds, Flushes, UserJobs
  <2>3. fault' # "not_owner" /\ Counts(t)'
    BY <1>0, <1>1, <1>2, <1>4, <1>5, <2>1, <2>2 DEF Counts, FlagsOwned, PgioMine, MainMine, Bit, Types, Place,
       PgioHeldBy, MainHeldBy, PgioRegion, MainRegion, PgioClearing, MainClearing, At, CcLabels, WriteLabels,
       MappedHolds, Flushes, UserJobs
  <2> QED
    BY <2>2, <2>3
<1> QED
  BY <1>3, <1>4, <1>5, <1>6, <1>7, <1>8 DEF StepOf

LEMMA AcquireCcFlush_PgioFlagStep == ASSUME Basic, NEW t \in Threads, AcquireCcFlush_PgioFlag(t) PROVE StepOf(t)
<1>0. /\ Types /\ Place(t) /\ P \in Resources /\ M \in Resources /\ P # M
      /\ owner[P][t] \in Nat /\ owner[M][t] \in Nat /\ P # "none" /\ M # "none"
  BY TwoResources DEF Basic, Types, P, M
<1>1. job[t] \in {"flush", "ccflush"} /\ pc[t] = "ccPgioFlag"
  BY <1>0 DEF AcquireCcFlush_PgioFlag, Place, At, CcLabels, WriteLabels, MappedHolds, Flushes, UserJobs
<1>2. /\ job'[t] = job[t] /\ pc'[t] = "writeTest"
      /\ status'[t] = status[t] /\ nested'[t] = nested[t] /\ toRelease'[t] = toRelease[t]
  BY <1>0, <1>1 DEF AcquireCcFlush_PgioFlag, Types, P, M
<1>3. ThreadMoves(t)
  BY <1>0, <1>1 DEF AcquireCcFlush_PgioFlag, ThreadMoves, Types, Release, P, M
<1>4. Held(t) /\ UNCHANGED << owner, exclusive >> /\ fault' = fault
  BY <1>0, <1>1, SameHeld DEF AcquireCcFlush_PgioFlag
<1>5. /\ FlagsWord
      /\ "torn" \notin crossed' => flags' = (flags \cup {"PGIO_EXCLUSIVE"}) \ {}
      /\ crossed' = {} => flags \cap PgioFlags = {}
  BY UpdateWord DEF AcquireCcFlush_PgioFlag, StateFlags, PgioFlags, MainFlags
<1>6. Place(t)'
  BY <1>0, <1>1, <1>2, <1>4 DEF Held, OwnTypes, Place, At, CcLabels, WriteLabels, MappedHolds, Flushes, UserJobs
<1>7. "torn" \notin crossed' => Backs(t)
  BY <1>0, <1>1, <1>2, <1>4, <1>5 DEF Backs, PgioBehind, MainBehind, PgioRegion, MainRegion, PgioClearing,
     MainClearing, At, CcLabels, WriteLabels, MappedHolds, Flushes, UserJobs, Bit, Types, Place, PgioFlags,
     MainFlags
<1>8. ASSUME Undisturbed PROVE fault' # "not_owner" /\ Counts(t)' /\ Owns(t)
  <2>1. Counts(t) /\ FlagsOwned /\ fault # "not_owner" /\ crossed' = {}
    BY <1>8 DEF Undisturbed, Orderly
  <2>2. Owns(t)
    BY <1>0, <1>1, <1>2, <1>5, <2>1 DEF Owns, FlagsOwned, PgioMine, MainMine, PgioRegion, MainRegion,
       PgioClearing, MainClearing, At, CcLabels, WriteLabels, MappedHolds, Flushes, UserJobs, PgioFlags,
       MainFlags
  <2>3. fault' # "not_owner" /\ Counts(t)'
    BY <1>0, <1>1, <1>2, <1>4, <1>5, <2>1, <2>2 DEF Counts, FlagsOwned, PgioMine, MainMine, Bit, Types, Place,
       PgioHeldBy, MainHeldBy, PgioRegion, MainRegion, PgioClearing, MainClearing, At, CcLabels, WriteLabels,
       MappedHolds, Flushes, UserJobs
  <2> QED
    BY <2>2, <2>3
<1> QED
  BY <1>3, <1>4, <1>5, <1>6, <1>7, <1>8 DEF StepOf

LEMMA ReleaseCcFlush_MainStep == ASSUME Basic, NEW t \in Threads, ReleaseCcFlush_Main(t) PROVE StepOf(t)
<1>0. /\ Types /\ Place(t) /\ P \in Resources /\ M \in Resources /\ P # M
      /\ owner[P][t] \in Nat /\ owner[M][t] \in Nat /\ P # "none" /\ M # "none"
  BY TwoResources DEF Basic, Types, P, M
<1>1. job[t] \in {"flush", "ccflush"} /\ pc[t] = "ccRelease"
  BY <1>0 DEF ReleaseCcFlush_Main, Place, At, CcLabels, WriteLabels, MappedHolds, Flushes, UserJobs
<1>2. CASE flags \cap MainFlags # {}
  <2>1. /\ job'[t] = job[t] /\ pc'[t] = "ccClear"
        /\ status'[t] = status[t] /\ nested'[t] = nested[t] /\ toRelease'[t] = toRelease[t]
    BY <1>0, <1>1, <1>2 DEF ReleaseCcFlush_Main, ReleaseIfFlagged, Types, P, M
  <2>2. ThreadMoves(t)
    BY <1>0, <1>1, <1>2 DEF ReleaseCcFlush_Main, ReleaseIfFlagged, ThreadMoves, Types, Release, P, M
  <2>3. /\ Held(t) /\ owner'[P][t] = owner[P][t] /\ exclusive'[P] = exclusive[P]
        /\ owner[M][t] > 0 => owner'[M][t] = owner[M][t] - 1 /\ fault' = fault
    BY <1>0, <1>1, <1>2, ReleaseHeld DEF ReleaseCcFlush_Main, ReleaseIfFlagged, P, M
  <2>4. FlagsWord /\ flags' = flags /\ crossed' = crossed
    BY <1>0, <1>1, <1>2, SameWord DEF ReleaseCcFlush_Main, ReleaseIfFlagged
  <2>5. Place(t)'
    BY <1>0, <1>1, <1>2, <2>1, <2>3 DEF Held, OwnTypes, Place, At, CcLabels, WriteLabels, MappedHolds,
       Flushes, UserJobs
  <2>6. "torn" \notin crossed' => Backs(t)
    BY <1>0, <1>1, <1>2, <2>1, <2>3, <2>4 DEF Backs, PgioBehind, MainBehind, PgioRegion, MainRegion,
       PgioClearing, MainClearing, At, CcLabels, WriteLabels, MappedHolds, Flushes, UserJobs, Bit, Types,
       Place
  <2>7. ASSUME Undisturbed PROVE fault' # "not_owner" /\ Counts(t)' /\ Owns(t)
    <3>1. Counts(t) /\ FlagsOwned /\ fault # "not_owner" /\ crossed' = {}
      BY <2>7 DEF Undisturbed, Orderly
    <3>2. Owns(t)
      BY <1>0, <1>1, <1>2, <2>1, <2>4, <3>1 DEF Owns, FlagsOwned, PgioMine, MainMine, PgioRegion, MainRegion,
         PgioClearing, MainClearing, At, CcLabels, WriteLabels, MappedHolds, Flushes, UserJobs
    <3>3. owner[M][t] > 0
      BY <1>0, <1>1, <1>2, <2>1, <3>1 DEF Counts, FlagsOwned, PgioMine, MainMine, Bit, Place, PgioHeldBy,
         MainHeldBy, PgioRegion, MainRegion, PgioClearing, MainClearing, At, CcLabels, WriteLabels,
         MappedHolds, Flushes, UserJobs
    <3>4. fault' # "not_owner" /\ owner'[M][t] = owner[M][t] - 1
      BY <2>3, <3>1, <3>3
    <3>5. Counts(t)'
      BY <1>0, <1>1, <1>2, <2>1, <2>3, <2>4, <3>1, <3>4 DEF Counts, FlagsOwned, PgioMine, MainMine, Bit,
         Place, PgioHeldBy, MainHeldBy, PgioRegion, MainRegion, PgioClearing, MainClearing, At, CcLabels,
         WriteLabels, MappedHolds, Flushes, UserJobs
    <3> QED
      BY <3>2, <3>4, <3>5
  <2> QED
    BY <2>2, <2>3, <2>4, <2>5, <2>6, <2>7 DEF StepOf
<1>3. CASE flags \cap MainFlags = {}
  <2>1. /\ job'[t] = job[t] /\ pc'[t] = "ccReleasePgio"
        /\ status'[t] = status[t] /\ nested'[t] = nested[t] /\ toRelease'[t] = toRelease[t]
    BY <1>0, <1>1, <1>3 DEF ReleaseCcFlush_Main, ReleaseIfFlagged, Types, P, M
  <2>2. ThreadMoves(t)
    BY <1>0, <1>1, <1>3 DEF ReleaseCcFlush_Main, ReleaseIfFlagged, ThreadMoves, Types, Release, P, M
  <2>3. Held(t) /\ UNCHANGED << owner, exclusive >> /\ fault' = fault
    BY <1>0, <1>1, <1>3, SameHeld DEF ReleaseCcFlush_Main, ReleaseIfFlagged
  <2>4. FlagsWord /\ flags' = flags /\ crossed' = crossed
    BY <1>0, <1>1, <1>3, SameWord DEF ReleaseCcFlush_Main, ReleaseIfFlagged
  <2>5. Place(t)'
    BY <1>0, <1>1, <1>3, <2>1, <2>3 DEF Held, OwnTypes, Place, At, CcLabels, WriteLabels, MappedHolds,
       Flushes, UserJobs
  <2>6. "torn" \notin crossed' => Backs(t)
    BY <1>0, <1>1, <1>3, <2>1, <2>3, <2>4 DEF Backs, PgioBehind, MainBehind, PgioRegion, MainRegion,
       PgioClearing, MainClearing, At, CcLabels, WriteLabels, MappedHolds, Flushes, UserJobs, Bit, Types,
       Place
  <2>7. ASSUME Undisturbed PROVE fault' # "not_owner" /\ Counts(t)' /\ Owns(t)
    <3>1. Counts(t) /\ FlagsOwned /\ fault # "not_owner" /\ crossed' = {}
      BY <2>7 DEF Undisturbed, Orderly
    <3>2. Owns(t)
      BY <1>0, <1>1, <1>3, <2>1, <2>4, <3>1 DEF Owns, FlagsOwned, PgioMine, MainMine, PgioRegion, MainRegion,
         PgioClearing, MainClearing, At, CcLabels, WriteLabels, MappedHolds, Flushes, UserJobs
    <3>3. fault' # "not_owner" /\ Counts(t)'
      BY <1>0, <1>1, <1>3, <2>1, <2>3, <2>4, <3>1, <3>2 DEF Counts, FlagsOwned, PgioMine, MainMine, Bit,
         Types, Place, PgioHeldBy, MainHeldBy, PgioRegion, MainRegion, PgioClearing, MainClearing, At,
         CcLabels, WriteLabels, MappedHolds, Flushes, UserJobs
    <3> QED
      BY <3>2, <3>3
  <2> QED
    BY <2>2, <2>3, <2>4, <2>5, <2>6, <2>7 DEF StepOf
<1> QED
  BY <1>0, <1>1, <1>2, <1>3 DEF ReleaseCcFlush_Main, ReleaseIfFlagged, At, CcLabels, WriteLabels, MappedHolds,
     Flushes, UserJobs, Place, P, M

LEMMA ReleaseCcFlush_ClearMainStep == ASSUME Basic, NEW t \in Threads, ReleaseCcFlush_ClearMain(t) PROVE StepOf(t)
<1>0. /\ Types /\ Place(t) /\ P \in Resources /\ M \in Resources /\ P # M
      /\ owner[P][t] \in Nat /\ owner[M][t] \in Nat /\ P # "none" /\ M # "none"
  BY TwoResources DEF Basic, Types, P, M
<1>1. job[t] \in {"flush", "ccflush"} /\ pc[t] = "ccClear"
  BY <1>0 DEF ReleaseCcFlush_ClearMain, Place, At, CcLabels, WriteLabels, MappedHolds, Flushes, UserJobs
<1>2. /\ job'[t] = job[t] /\ pc'[t] = "ccReleasePgio"
      /\ status'[t] = status[t] /\ nested'[t] = nested[t] /\ toRelease'[t] = toRelease[t]
  BY <1>0, <1>1 DEF ReleaseCcFlush_ClearMain, Types, P, M
<1>3. ThreadMoves(t)
  BY <1>0, <1>1 DEF ReleaseCcFlush_ClearMain, ThreadMoves, Types, Release, P, M
<1>4. Held(t) /\ UNCHANGED << owner, exclusive >> /\ fault' = fault
  BY <1>0, <1>1, SameHeld DEF ReleaseCcFlush_ClearMain
<1>5. /\ FlagsWord
      /\ "torn" \notin crossed' => flags' = (flags \cup {}) \ MainFlags
  BY UpdateWord DEF ReleaseCcFlush_ClearMain, StateFlags
<1>6. Place(t)'
  BY <1>0, <1>1, <1>2, <1>4 DEF Held, OwnTypes, Place, At, CcLabels, WriteLabels, MappedHolds, Flushes, UserJobs
<1>7. "torn" \notin crossed' => Backs(t)
  BY <1>0, <1>1, <1>2, <1>4, <1>5 DEF Backs, PgioBehind, MainBehind, PgioRegion, MainRegion, PgioClearing,
     MainClearing, At, CcLabels, WriteLabels, MappedHolds, Flushes, UserJobs, Bit, Types, Place, PgioFlags,
     MainFlags
<1>8. ASSUME Undisturbed PROVE fault' # "not_owner" /\ Counts(t)' /\ Owns(t)
  <2>1. Counts(t) /\ FlagsOwned /\ fault # "not_owner" /\ crossed' = {}
    BY <1>8 DEF Undisturbed, Orderly
  <2>2. Owns(t)
    BY <1>0, <1>1, <1>2, <1>5, <2>1 DEF Owns, FlagsOwned, PgioMine, MainMine, PgioRegion, MainRegion,
       PgioClearing, MainClearing, At, CcLabels, WriteLabels, MappedHolds, Flushes, UserJobs, PgioFlags,
       MainFlags
  <2>3. fault' # "not_owner" /\ Counts(t)'
    BY <1>0, <1>1, <1>2, <1>4, <1>5, <2>1, <2>2 DEF Counts, FlagsOwned, PgioMine, MainMine, Bit, Types, Place,
       PgioHeldBy, MainHeldBy, PgioRegion, MainRegion, PgioClearing, MainClearing, At, CcLabels, WriteLabels,
       MappedHolds, Flushes, UserJobs
  <2> QED
    BY <2>2, <2>3
<1> QED
  BY <1>3, <1>4, <1>5, <1>6, <1>7, <1>8 DEF StepOf

LEMMA ReleaseCcFlush_PgioStep == ASSUME Basic, NEW t \in Threads, ReleaseCcFlush_Pgio(t) PROVE StepOf(t)
<1>0. /\ Types /\ Place(t) /\ P \in Resources /\ M \in Resources /\ P # M
      /\ owner[P][t] \in Nat /\ owner[M][t] \in Nat /\ P # "none" /\ M # "none"
  BY TwoResources DEF Basic, Types, P, M
<1>1. job[t] \in {"flush", "ccflush"} /\ pc[t] = "ccReleasePgio"
  BY <1>0 DEF ReleaseCcFlush_Pgio, Place, At, CcLabels, WriteLabels, MappedHolds, Flushes, UserJobs
<1>2. CASE flags \cap PgioFlags # {}
  <2>1. /\ job'[t] = job[t] /\ pc'[t] = "ccClearPgio"
        /\ status'[t] = status[t] /\ nested'[t] = nested[t] /\ toRelease'[t] = toRelease[t]
    BY <1>0, <1>1, <1>2 DEF ReleaseCcFlush_Pgio, ReleaseIfFlagged, Flushed, EndOf, Types, P, M
  <2>2. ThreadMoves(t)
    BY <1>0, <1>1, <1>2 DEF ReleaseCcFlush_Pgio, ReleaseIfFlagged, Flushed, EndOf, ThreadMoves, Types, Release, P, M
  <2>3. /\ Held(t) /\ owner'[M][t] = owner[M][t] /\ exclusive'[M] = exclusive[M]
        /\ owner[P][t] > 0 => owner'[P][t] = owner[P][t] - 1 /\ fault' = fault
    BY <1>0, <1>1, <1>2, ReleaseHeld DEF ReleaseCcFlush_Pgio, ReleaseIfFlagged, Flushed, EndOf, P, M
  <2>4. FlagsWord /\ flags' = flags /\ crossed' = crossed
    BY <1>0, <1>1, <1>2, SameWord DEF ReleaseCcFlush_Pgio, ReleaseIfFlagged, Flushed, EndOf
  <2>5. Place(t)'
    BY <1>0, <1>1, <1>2, <2>1, <2>3 DEF Held, OwnTypes, Place, At, CcLabels, WriteLabels, MappedHolds,
       Flushes, UserJobs
  <2>6. "torn" \notin crossed' => Backs(t)
    BY <1>0, <1>1, <1>2, <2>1, <2>3, <2>4 DEF Backs, PgioBehind, MainBehind, PgioRegion, MainRegion,
       PgioClearing, MainClearing, At, CcLabels, WriteLabels, MappedHolds, Flushes, UserJobs, Bit, Types,
       Place
  <2>7. ASSUME Undisturbed PROVE fault' # "not_owner" /\ Counts(t)' /\ Owns(t)
    <3>1. Counts(t) /\ FlagsOwned /\ fault # "not_owner" /\ crossed' = {}
      BY <2>7 DEF Undisturbed, Orderly
    <3>2. Owns(t)
      BY <1>0, <1>1, <1>2, <2>1, <2>4, <3>1 DEF Owns, FlagsOwned, PgioMine, MainMine, PgioRegion, MainRegion,
         PgioClearing, MainClearing, At, CcLabels, WriteLabels, MappedHolds, Flushes, UserJobs
    <3>3. owner[P][t] > 0
      BY <1>0, <1>1, <1>2, <2>1, <3>1 DEF Counts, FlagsOwned, PgioMine, MainMine, Bit, Place, PgioHeldBy,
         MainHeldBy, PgioRegion, MainRegion, PgioClearing, MainClearing, At, CcLabels, WriteLabels,
         MappedHolds, Flushes, UserJobs
    <3>4. fault' # "not_owner" /\ owner'[P][t] = owner[P][t] - 1
      BY <2>3, <3>1, <3>3
    <3>5. Counts(t)'
      BY <1>0, <1>1, <1>2, <2>1, <2>3, <2>4, <3>1, <3>4 DEF Counts, FlagsOwned, PgioMine, MainMine, Bit,
         Place, PgioHeldBy, MainHeldBy, PgioRegion, MainRegion, PgioClearing, MainClearing, At, CcLabels,
         WriteLabels, MappedHolds, Flushes, UserJobs
    <3> QED
      BY <3>2, <3>4, <3>5
  <2> QED
    BY <2>2, <2>3, <2>4, <2>5, <2>6, <2>7 DEF StepOf
<1>3. CASE flags \cap PgioFlags = {}
  <2>1. /\ job'[t] = (IF job[t] = "flush" THEN "flush" ELSE "none") /\ pc'[t] = (IF job[t] = "flush" THEN "lastPgio" ELSE "idle")
        /\ status'[t] = status[t] /\ nested'[t] = nested[t] /\ toRelease'[t] = toRelease[t]
    BY <1>0, <1>1, <1>3 DEF ReleaseCcFlush_Pgio, ReleaseIfFlagged, Flushed, EndOf, Types, P, M
  <2>2. ThreadMoves(t)
    BY <1>0, <1>1, <1>3 DEF ReleaseCcFlush_Pgio, ReleaseIfFlagged, Flushed, EndOf, ThreadMoves, Types, Release, P, M
  <2>3. Held(t) /\ UNCHANGED << owner, exclusive >> /\ fault' = fault
    BY <1>0, <1>1, <1>3, SameHeld DEF ReleaseCcFlush_Pgio, ReleaseIfFlagged, Flushed, EndOf
  <2>4. FlagsWord /\ flags' = flags /\ crossed' = crossed
    BY <1>0, <1>1, <1>3, SameWord DEF ReleaseCcFlush_Pgio, ReleaseIfFlagged, Flushed, EndOf
  <2>5. Place(t)'
    BY <1>0, <1>1, <1>3, <2>1, <2>3 DEF Held, OwnTypes, Place, At, CcLabels, WriteLabels, MappedHolds,
       Flushes, UserJobs
  <2>6. "torn" \notin crossed' => Backs(t)
    BY <1>0, <1>1, <1>3, <2>1, <2>3, <2>4 DEF Backs, PgioBehind, MainBehind, PgioRegion, MainRegion,
       PgioClearing, MainClearing, At, CcLabels, WriteLabels, MappedHolds, Flushes, UserJobs, Bit, Types,
       Place
  <2>7. ASSUME Undisturbed PROVE fault' # "not_owner" /\ Counts(t)' /\ Owns(t)
    <3>1. Counts(t) /\ FlagsOwned /\ fault # "not_owner" /\ crossed' = {}
      BY <2>7 DEF Undisturbed, Orderly
    <3>2. Owns(t)
      BY <1>0, <1>1, <1>3, <2>1, <2>4, <3>1 DEF Owns, FlagsOwned, PgioMine, MainMine, PgioRegion, MainRegion,
         PgioClearing, MainClearing, At, CcLabels, WriteLabels, MappedHolds, Flushes, UserJobs
    <3>3. fault' # "not_owner" /\ Counts(t)'
      BY <1>0, <1>1, <1>3, <2>1, <2>3, <2>4, <3>1, <3>2 DEF Counts, FlagsOwned, PgioMine, MainMine, Bit,
         Types, Place, PgioHeldBy, MainHeldBy, PgioRegion, MainRegion, PgioClearing, MainClearing, At,
         CcLabels, WriteLabels, MappedHolds, Flushes, UserJobs
    <3> QED
      BY <3>2, <3>3
  <2> QED
    BY <2>2, <2>3, <2>4, <2>5, <2>6, <2>7 DEF StepOf
<1> QED
  BY <1>0, <1>1, <1>2, <1>3 DEF ReleaseCcFlush_Pgio, ReleaseIfFlagged, Flushed, EndOf, At, CcLabels,
     WriteLabels, MappedHolds, Flushes, UserJobs, Place, P, M

LEMMA ReleaseCcFlush_ClearPgioStep == ASSUME Basic, NEW t \in Threads, ReleaseCcFlush_ClearPgio(t) PROVE StepOf(t)
<1>0. /\ Types /\ Place(t) /\ P \in Resources /\ M \in Resources /\ P # M
      /\ owner[P][t] \in Nat /\ owner[M][t] \in Nat /\ P # "none" /\ M # "none"
  BY TwoResources DEF Basic, Types, P, M
<1>1. job[t] \in {"flush", "ccflush"} /\ pc[t] = "ccClearPgio"
  BY <1>0 DEF ReleaseCcFlush_ClearPgio, Place, At, CcLabels, WriteLabels, MappedHolds, Flushes, UserJobs
<1>2. /\ job'[t] = (IF job[t] = "flush" THEN "flush" ELSE "none") /\ pc'[t] = (IF job[t] = "flush" THEN "lastPgio" ELSE "idle")
      /\ status'[t] = status[t] /\ nested'[t] = nested[t] /\ toRelease'[t] = toRelease[t]
  BY <1>0, <1>1 DEF ReleaseCcFlush_ClearPgio, Flushed, EndOf, Types, P, M
<1>3. ThreadMoves(t)
  BY <1>0, <1>1 DEF ReleaseCcFlush_ClearPgio, Flushed, EndOf, ThreadMoves, Types, Release, P, M
<1>4. Held(t) /\ UNCHANGED << owner, exclusive >> /\ fault' = fault
  BY <1>0, <1>1, SameHeld DEF ReleaseCcFlush_ClearPgio, Flushed, EndOf
<1>5. /\ FlagsWord
      /\ "torn" \notin crossed' => flags' = (flags \cup {}) \ PgioFlags
  BY UpdateWord DEF ReleaseCcFlush_ClearPgio, Flushed, EndOf, StateFlags
<1>6. Place(t)'
  BY <1>0, <1>1, <1>2, <1>4 DEF Held, OwnTypes, Place, At, CcLabels, WriteLabels, MappedHolds, Flushes, UserJobs
<1>7. "torn" \notin crossed' => Backs(t)
  BY <1>0, <1>1, <1>2, <1>4, <1>5 DEF Backs, PgioBehind, MainBehind, PgioRegion, MainRegion, PgioClearing,
     MainClearing, At, CcLabels, WriteLabels, MappedHolds, Flushes, UserJobs, Bit, Types, Place, PgioFlags,
     MainFlags
<1>8. ASSUME Undisturbed PROVE fault' # "not_owner" /\ Counts(t)' /\ Owns(t)
  <2>1. Counts(t) /\ FlagsOwned /\ fault # "not_owner" /\ crossed' = {}
    BY <1>8 DEF Undisturbed, Orderly
  <2>2. Owns(t)
    BY <1>0, <1>1, <1>2, <1>5, <2>1 DEF Owns, FlagsOwned, PgioMine, MainMine, PgioRegion, MainRegion,
       PgioClearing, MainClearing, At, CcLabels, WriteLabels, MappedHolds, Flushes, UserJobs, PgioFlags,
       MainFlags
  <2>3. fault' # "not_owner" /\ Counts(t)'
    BY <1>0, <1>1, <1>2, <1>4, <1>5, <2>1, <2>2 DEF Counts, FlagsOwned, PgioMine, MainMine, Bit, Types, Place,
       PgioHeldBy, MainHeldBy, PgioRegion, MainRegion, PgioClearing, MainClearing, At, CcLabels, WriteLabels,
       MappedHolds, Flushes, UserJobs
  <2> QED
    BY <2>2, <2>3
<1> QED
  BY <1>3, <1>4, <1>5, <1>6, <1>7, <1>8 DEF StepOf

LEMMA AwaitPagingStep == ASSUME Basic, NEW t \in Threads, AwaitPaging(t) PROVE StepOf(t)
<1>0. /\ Types /\ Place(t) /\ P \in Resources /\ M \in Resources /\ P # M
      /\ owner[P][t] \in Nat /\ owner[M][t] \in Nat /\ P # "none" /\ M # "none"
  BY TwoResources DEF Basic, Types, P, M
<1>1. job[t] \in {"flush"} /\ pc[t] = "lastPgio"
  BY <1>0 DEF AwaitPaging, Place, At, CcLabels, WriteLabels, MappedHolds, Flushes, UserJobs
<1>2. /\ job'[t] = job[t] /\ pc'[t] = "close"
      /\ status'[t] = status[t] /\ nested'[t] = nested[t] /\ toRelease'[t] = toRelease[t]
  BY <1>0, <1>1 DEF AwaitPaging, Types, P, M
<1>3. ThreadMoves(t)
  BY <1>0, <1>1 DEF AwaitPaging, ThreadMoves, Types, Release, P, M
<1>4. Held(t) /\ UNCHANGED << owner, exclusive >> /\ fault' = fault
  BY <1>0, <1>1, SameHeld DEF AwaitPaging
<1>5. FlagsWord /\ flags' = flags /\ crossed' = crossed
  BY <1>0, <1>1, SameWord DEF AwaitPaging
<1>6. Place(t)'
  BY <1>0, <1>1, <1>2, <1>4 DEF Held, OwnTypes, Place, At, CcLabels, WriteLabels, MappedHolds, Flushes, UserJobs
<1>7. "torn" \notin crossed' => Backs(t)
  BY <1>0, <1>1, <1>2, <1>4, <1>5 DEF Backs, PgioBehind, MainBehind, PgioRegion, MainRegion, PgioClearing,
     MainClearing, At, CcLabels, WriteLabels, MappedHolds, Flushes, UserJobs, Bit, Types, Place
<1>8. ASSUME Undisturbed PROVE fault' # "not_owner" /\ Counts(t)' /\ Owns(t)
  <2>1. Counts(t) /\ FlagsOwned /\ fault # "not_owner" /\ crossed' = {}
    BY <1>8 DEF Undisturbed, Orderly
  <2>2. Owns(t)
    BY <1>0, <1>1, <1>2, <1>5, <2>1 DEF Owns, FlagsOwned, PgioMine, MainMine, PgioRegion, MainRegion,
       PgioClearing, MainClearing, At, CcLabels, WriteLabels, MappedHolds, Flushes, UserJobs
  <2>3. fault' # "not_owner" /\ Counts(t)'
    BY <1>0, <1>1, <1>2, <1>4, <1>5, <2>1, <2>2 DEF Counts, FlagsOwned, PgioMine, MainMine, Bit, Types, Place,
       PgioHeldBy, MainHeldBy, PgioRegion, MainRegion, PgioClearing, MainClearing, At, CcLabels, WriteLabels,
       MappedHolds, Flushes, UserJobs
  <2> QED
    BY <2>2, <2>3
<1> QED
  BY <1>3, <1>4, <1>5, <1>6, <1>7, <1>8 DEF StepOf

-----------------------------------------------------------------------------
(* The lazy writer and read-ahead.                                            *)

LEMMA CcAcquireForLazyWrite_TestStep == ASSUME Basic, NEW t \in Threads, CcAcquireForLazyWrite_Test(t) PROVE StepOf(t)
<1>0. /\ Types /\ Place(t) /\ P \in Resources /\ M \in Resources /\ P # M
      /\ owner[P][t] \in Nat /\ owner[M][t] \in Nat /\ P # "none" /\ M # "none"
  BY TwoResources DEF Basic, Types, P, M
<1>1. job[t] \in {"lazy"} /\ pc[t] = "lazyTest"
  BY <1>0 DEF CcAcquireForLazyWrite_Test, Place, At, CcLabels, WriteLabels, MappedHolds, Flushes, UserJobs
<1>2. CASE flags \cap PgioFlags = {}
  <2>1. /\ job'[t] = job[t] /\ pc'[t] = "lazyAcquire"
        /\ status'[t] = status[t] /\ nested'[t] = nested[t] /\ toRelease'[t] = toRelease[t]
    BY <1>0, <1>1, <1>2 DEF CcAcquireForLazyWrite_Test, Types, P, M
  <2>2. ThreadMoves(t)
    BY <1>0, <1>1, <1>2 DEF CcAcquireForLazyWrite_Test, ThreadMoves, Types, Release, P, M
  <2>3. Held(t) /\ UNCHANGED << owner, exclusive >> /\ fault' = fault
    BY <1>0, <1>1, <1>2, SameHeld DEF CcAcquireForLazyWrite_Test
  <2>4. FlagsWord /\ flags' = flags /\ crossed' = crossed
    BY <1>0, <1>1, <1>2, SameWord DEF CcAcquireForLazyWrite_Test
  <2>5. Place(t)'
    BY <1>0, <1>1, <1>2, <2>1, <2>3 DEF Held, OwnTypes, Place, At, CcLabels, WriteLabels, MappedHolds,
       Flushes, UserJobs
  <2>6. "torn" \notin crossed' => Backs(t)
    BY <1>0, <1>1, <1>2, <2>1, <2>3, <2>4 DEF Backs, PgioBehind, MainBehind, PgioRegion, MainRegion,
       PgioClearing, MainClearing, At, CcLabels, WriteLabels, MappedHolds, Flushes, UserJobs, Bit, Types,
       Place
  <2>7. ASSUME Undisturbed PROVE fault' # "not_owner" /\ Counts(t)' /\ Owns(t)
    <3>1. Counts(t) /\ FlagsOwned /\ fault # "not_owner" /\ crossed' = {}
      BY <2>7 DEF Undisturbed, Orderly
    <3>2. Owns(t)
      BY <1>0, <1>1, <1>2, <2>1, <2>4, <3>1 DEF Owns, FlagsOwned, PgioMine, MainMine, PgioRegion, MainRegion,
         PgioClearing, MainClearing, At, CcLabels, WriteLabels, MappedHolds, Flushes, UserJobs
    <3>3. fault' # "not_owner" /\ Counts(t)'
      BY <1>0, <1>1, <1>2, <2>1, <2>3, <2>4, <3>1, <3>2 DEF Counts, FlagsOwned, PgioMine, MainMine, Bit,
         Types, Place, PgioHeldBy, MainHeldBy, PgioRegion, MainRegion, PgioClearing, MainClearing, At,
         CcLabels, WriteLabels, MappedHolds, Flushes, UserJobs
    <3> QED
      BY <3>2, <3>3
  <2> QED
    BY <2>2, <2>3, <2>4, <2>5, <2>6, <2>7 DEF StepOf
<1>3. CASE flags \cap PgioFlags # {}
  <2>1. /\ job'[t] = "none" /\ pc'[t] = "idle"
        /\ status'[t] = status[t] /\ nested'[t] = nested[t] /\ toRelease'[t] = toRelease[t]
    BY <1>0, <1>1, <1>3 DEF CcAcquireForLazyWrite_Test, Types, P, M
  <2>2. ThreadMoves(t)
    BY <1>0, <1>1, <1>3 DEF CcAcquireForLazyWrite_Test, ThreadMoves, Types, Release, P, M
  <2>3. Held(t) /\ UNCHANGED << owner, exclusive >> /\ fault' = fault
    BY <1>0, <1>1, <1>3, SameHeld DEF CcAcquireForLazyWrite_Test
  <2>4. FlagsWord /\ flags' = flags /\ crossed' = crossed
    BY <1>0, <1>1, <1>3, SameWord DEF CcAcquireForLazyWrite_Test
  <2>5. Place(t)'
    BY <1>0, <1>1, <1>3, <2>1, <2>3 DEF Held, OwnTypes, Place, At, CcLabels, WriteLabels, MappedHolds,
       Flushes, UserJobs
  <2>6. "torn" \notin crossed' => Backs(t)
    BY <1>0, <1>1, <1>3, <2>1, <2>3, <2>4 DEF Backs, PgioBehind, MainBehind, PgioRegion, MainRegion,
       PgioClearing, MainClearing, At, CcLabels, WriteLabels, MappedHolds, Flushes, UserJobs, Bit, Types,
       Place
  <2>7. ASSUME Undisturbed PROVE fault' # "not_owner" /\ Counts(t)' /\ Owns(t)
    <3>1. Counts(t) /\ FlagsOwned /\ fault # "not_owner" /\ crossed' = {}
      BY <2>7 DEF Undisturbed, Orderly
    <3>2. Owns(t)
      BY <1>0, <1>1, <1>3, <2>1, <2>4, <3>1 DEF Owns, FlagsOwned, PgioMine, MainMine, PgioRegion, MainRegion,
         PgioClearing, MainClearing, At, CcLabels, WriteLabels, MappedHolds, Flushes, UserJobs
    <3>3. fault' # "not_owner" /\ Counts(t)'
      BY <1>0, <1>1, <1>3, <2>1, <2>3, <2>4, <3>1, <3>2 DEF Counts, FlagsOwned, PgioMine, MainMine, Bit,
         Types, Place, PgioHeldBy, MainHeldBy, PgioRegion, MainRegion, PgioClearing, MainClearing, At,
         CcLabels, WriteLabels, MappedHolds, Flushes, UserJobs
    <3> QED
      BY <3>2, <3>3
  <2> QED
    BY <2>2, <2>3, <2>4, <2>5, <2>6, <2>7 DEF StepOf
<1> QED
  BY <1>0, <1>1, <1>2, <1>3 DEF CcAcquireForLazyWrite_Test, At, CcLabels, WriteLabels, MappedHolds, Flushes,
     UserJobs, Place, P, M

LEMMA CcAcquireForLazyWriteStep == ASSUME Basic, NEW t \in Threads, CcAcquireForLazyWrite(t) PROVE StepOf(t)
<1>0. /\ Types /\ Place(t) /\ P \in Resources /\ M \in Resources /\ P # M
      /\ owner[P][t] \in Nat /\ owner[M][t] \in Nat /\ P # "none" /\ M # "none"
  BY TwoResources DEF Basic, Types, P, M
<1>1. job[t] \in {"lazy"} /\ pc[t] = "lazyAcquire"
  BY <1>0 DEF CcAcquireForLazyWrite, Place, At, CcLabels, WriteLabels, MappedHolds, Flushes, UserJobs
<1>2. CASE Share(P, t) /\ Goto(t, "lazyFlag") /\ UNCHANGED << job, started >>
  <2>1. /\ job'[t] = job[t] /\ pc'[t] = "lazyFlag"
        /\ status'[t] = status[t] /\ nested'[t] = nested[t] /\ toRelease'[t] = toRelease[t]
    BY <1>0, <1>1, <1>2 DEF CcAcquireForLazyWrite, Types, P, M
  <2>2. ThreadMoves(t)
    BY <1>0, <1>1, <1>2 DEF CcAcquireForLazyWrite, ThreadMoves, Types, Release, P, M
  <2>3. /\ Held(t) /\ owner'[P][t] = owner[P][t] + 1 /\ owner'[M][t] = owner[M][t]
        /\ exclusive' = exclusive /\ fault' = fault
    BY <1>0, <1>1, <1>2, ShareHeld DEF CcAcquireForLazyWrite, P, M
  <2>4. FlagsWord /\ flags' = flags /\ crossed' = crossed
    BY <1>0, <1>1, <1>2, SameWord DEF CcAcquireForLazyWrite
  <2>5. Place(t)'
    BY <1>0, <1>1, <1>2, <2>1, <2>3 DEF Held, OwnTypes, Place, At, CcLabels, WriteLabels, MappedHolds,
       Flushes, UserJobs
  <2>6. "torn" \notin crossed' => Backs(t)
    BY <1>0, <1>1, <1>2, <2>1, <2>3, <2>4 DEF Backs, PgioBehind, MainBehind, PgioRegion, MainRegion,
       PgioClearing, MainClearing, At, CcLabels, WriteLabels, MappedHolds, Flushes, UserJobs, Bit, Types,
       Place
  <2>7. ASSUME Undisturbed PROVE fault' # "not_owner" /\ Counts(t)' /\ Owns(t)
    <3>1. Counts(t) /\ FlagsOwned /\ fault # "not_owner" /\ crossed' = {}
      BY <2>7 DEF Undisturbed, Orderly
    <3>2. Owns(t)
      BY <1>0, <1>1, <1>2, <2>1, <2>4, <3>1 DEF Owns, FlagsOwned, PgioMine, MainMine, PgioRegion, MainRegion,
         PgioClearing, MainClearing, At, CcLabels, WriteLabels, MappedHolds, Flushes, UserJobs
    <3>3. fault' # "not_owner" /\ Counts(t)'
      BY <1>0, <1>1, <1>2, <2>1, <2>3, <2>4, <3>1, <3>2 DEF Counts, FlagsOwned, PgioMine, MainMine, Bit,
         Types, Place, PgioHeldBy, MainHeldBy, PgioRegion, MainRegion, PgioClearing, MainClearing, At,
         CcLabels, WriteLabels, MappedHolds, Flushes, UserJobs
    <3> QED
      BY <3>2, <3>3
  <2> QED
    BY <2>2, <2>3, <2>4, <2>5, <2>6, <2>7 DEF StepOf
<1>3. CASE Finish(t) /\ UNCHANGED << owner, exclusive >>
  <2>1. /\ job'[t] = "none" /\ pc'[t] = "idle"
        /\ status'[t] = status[t] /\ nested'[t] = nested[t] /\ toRelease'[t] = toRelease[t]
    BY <1>0, <1>1, <1>3 DEF CcAcquireForLazyWrite, Types, P, M
  <2>2. ThreadMoves(t)
    BY <1>0, <1>1, <1>3 DEF CcAcquireForLazyWrite, ThreadMoves, Types, Release, P, M
  <2>3. Held(t) /\ UNCHANGED << owner, exclusive >> /\ fault' = fault
    BY <1>0, <1>1, <1>3, SameHeld DEF CcAcquireForLazyWrite
  <2>4. FlagsWord /\ flags' = flags /\ crossed' = crossed
    BY <1>0, <1>1, <1>3, SameWord DEF CcAcquireForLazyWrite
  <2>5. Place(t)'
    BY <1>0, <1>1, <1>3, <2>1, <2>3 DEF Held, OwnTypes, Place, At, CcLabels, WriteLabels, MappedHolds,
       Flushes, UserJobs
  <2>6. "torn" \notin crossed' => Backs(t)
    BY <1>0, <1>1, <1>3, <2>1, <2>3, <2>4 DEF Backs, PgioBehind, MainBehind, PgioRegion, MainRegion,
       PgioClearing, MainClearing, At, CcLabels, WriteLabels, MappedHolds, Flushes, UserJobs, Bit, Types,
       Place
  <2>7. ASSUME Undisturbed PROVE fault' # "not_owner" /\ Counts(t)' /\ Owns(t)
    <3>1. Counts(t) /\ FlagsOwned /\ fault # "not_owner" /\ crossed' = {}
      BY <2>7 DEF Undisturbed, Orderly
    <3>2. Owns(t)
      BY <1>0, <1>1, <1>3, <2>1, <2>4, <3>1 DEF Owns, FlagsOwned, PgioMine, MainMine, PgioRegion, MainRegion,
         PgioClearing, MainClearing, At, CcLabels, WriteLabels, MappedHolds, Flushes, UserJobs
    <3>3. fault' # "not_owner" /\ Counts(t)'
      BY <1>0, <1>1, <1>3, <2>1, <2>3, <2>4, <3>1, <3>2 DEF Counts, FlagsOwned, PgioMine, MainMine, Bit,
         Types, Place, PgioHeldBy, MainHeldBy, PgioRegion, MainRegion, PgioClearing, MainClearing, At,
         CcLabels, WriteLabels, MappedHolds, Flushes, UserJobs
    <3> QED
      BY <3>2, <3>3
  <2> QED
    BY <2>2, <2>3, <2>4, <2>5, <2>6, <2>7 DEF StepOf
<1> QED
  BY <1>0, <1>1, <1>2, <1>3 DEF CcAcquireForLazyWrite, At, CcLabels, WriteLabels, MappedHolds, Flushes,
     UserJobs, Place, P, M

LEMMA CcAcquireForLazyWrite_FlagStep == ASSUME Basic, NEW t \in Threads, CcAcquireForLazyWrite_Flag(t) PROVE StepOf(t)
<1>0. /\ Types /\ Place(t) /\ P \in Resources /\ M \in Resources /\ P # M
      /\ owner[P][t] \in Nat /\ owner[M][t] \in Nat /\ P # "none" /\ M # "none"
  BY TwoResources DEF Basic, Types, P, M
<1>1. job[t] \in {"lazy"} /\ pc[t] = "lazyFlag"
  BY <1>0 DEF CcAcquireForLazyWrite_Flag, Place, At, CcLabels, WriteLabels, MappedHolds, Flushes, UserJobs
<1>2. /\ job'[t] = job[t] /\ pc'[t] = "writeTest"
      /\ status'[t] = status[t] /\ nested'[t] = nested[t] /\ toRelease'[t] = toRelease[t]
  BY <1>0, <1>1 DEF CcAcquireForLazyWrite_Flag, Types, P, M
<1>3. ThreadMoves(t)
  BY <1>0, <1>1 DEF CcAcquireForLazyWrite_Flag, ThreadMoves, Types, Release, P, M
<1>4. Held(t) /\ UNCHANGED << owner, exclusive >> /\ fault' = fault
  BY <1>0, <1>1, SameHeld DEF CcAcquireForLazyWrite_Flag
<1>5. /\ FlagsWord
      /\ "torn" \notin crossed' => flags' = (flags \cup {"PGIO_SHARED"}) \ {}
      /\ crossed' = {} => flags \cap PgioFlags = {}
  BY UpdateWord DEF CcAcquireForLazyWrite_Flag, StateFlags, PgioFlags, MainFlags
<1>6. Place(t)'
  BY <1>0, <1>1, <1>2, <1>4 DEF Held, OwnTypes, Place, At, CcLabels, WriteLabels, MappedHolds, Flushes, UserJobs
<1>7. "torn" \notin crossed' => Backs(t)
  BY <1>0, <1>1, <1>2, <1>4, <1>5 DEF Backs, PgioBehind, MainBehind, PgioRegion, MainRegion, PgioClearing,
     MainClearing, At, CcLabels, WriteLabels, MappedHolds, Flushes, UserJobs, Bit, Types, Place, PgioFlags,
     MainFlags
<1>8. ASSUME Undisturbed PROVE fault' # "not_owner" /\ Counts(t)' /\ Owns(t)
  <2>1. Counts(t) /\ FlagsOwned /\ fault # "not_owner" /\ crossed' = {}
    BY <1>8 DEF Undisturbed, Orderly
  <2>2. Owns(t)
    BY <1>0, <1>1, <1>2, <1>5, <2>1 DEF Owns, FlagsOwned, PgioMine, MainMine, PgioRegion, MainRegion,
       PgioClearing, MainClearing, At, CcLabels, WriteLabels, MappedHolds, Flushes, UserJobs, PgioFlags,
       MainFlags
  <2>3. fault' # "not_owner" /\ Counts(t)'
    BY <1>0, <1>1, <1>2, <1>4, <1>5, <2>1, <2>2 DEF Counts, FlagsOwned, PgioMine, MainMine, Bit, Types, Place,
       PgioHeldBy, MainHeldBy, PgioRegion, MainRegion, PgioClearing, MainClearing, At, CcLabels, WriteLabels,
       MappedHolds, Flushes, UserJobs
  <2> QED
    BY <2>2, <2>3
<1> QED
  BY <1>3, <1>4, <1>5, <1>6, <1>7, <1>8 DEF StepOf

LEMMA CcReleaseFromLazyWriteStep == ASSUME Basic, NEW t \in Threads, CcReleaseFromLazyWrite(t) PROVE StepOf(t)
<1>0. /\ Types /\ Place(t) /\ P \in Resources /\ M \in Resources /\ P # M
      /\ owner[P][t] \in Nat /\ owner[M][t] \in Nat /\ P # "none" /\ M # "none"
  BY TwoResources DEF Basic, Types, P, M
<1>1. job[t] \in {"lazy"} /\ pc[t] = "lazyRelease"
  BY <1>0 DEF CcReleaseFromLazyWrite, Place, At, CcLabels, WriteLabels, MappedHolds, Flushes, UserJobs
<1>2. CASE flags \cap PgioFlags # {}
  <2>1. /\ job'[t] = job[t] /\ pc'[t] = "lazyClear"
        /\ status'[t] = status[t] /\ nested'[t] = nested[t] /\ toRelease'[t] = toRelease[t]
    BY <1>0, <1>1, <1>2 DEF CcReleaseFromLazyWrite, ReleaseIfFlagged, Types, P, M
  <2>2. ThreadMoves(t)
    BY <1>0, <1>1, <1>2 DEF CcReleaseFromLazyWrite, ReleaseIfFlagged, ThreadMoves, Types, Release, P, M
  <2>3. /\ Held(t) /\ owner'[M][t] = owner[M][t] /\ exclusive'[M] = exclusive[M]
        /\ owner[P][t] > 0 => owner'[P][t] = owner[P][t] - 1 /\ fault' = fault
    BY <1>0, <1>1, <1>2, ReleaseHeld DEF CcReleaseFromLazyWrite, ReleaseIfFlagged, P, M
  <2>4. FlagsWord /\ flags' = flags /\ crossed' = crossed
    BY <1>0, <1>1, <1>2, SameWord DEF CcReleaseFromLazyWrite, ReleaseIfFlagged
  <2>5. Place(t)'
    BY <1>0, <1>1, <1>2, <2>1, <2>3 DEF Held, OwnTypes, Place, At, CcLabels, WriteLabels, MappedHolds,
       Flushes, UserJobs
  <2>6. "torn" \notin crossed' => Backs(t)
    BY <1>0, <1>1, <1>2, <2>1, <2>3, <2>4 DEF Backs, PgioBehind, MainBehind, PgioRegion, MainRegion,
       PgioClearing, MainClearing, At, CcLabels, WriteLabels, MappedHolds, Flushes, UserJobs, Bit, Types,
       Place
  <2>7. ASSUME Undisturbed PROVE fault' # "not_owner" /\ Counts(t)' /\ Owns(t)
    <3>1. Counts(t) /\ FlagsOwned /\ fault # "not_owner" /\ crossed' = {}
      BY <2>7 DEF Undisturbed, Orderly
    <3>2. Owns(t)
      BY <1>0, <1>1, <1>2, <2>1, <2>4, <3>1 DEF Owns, FlagsOwned, PgioMine, MainMine, PgioRegion, MainRegion,
         PgioClearing, MainClearing, At, CcLabels, WriteLabels, MappedHolds, Flushes, UserJobs
    <3>3. owner[P][t] > 0
      BY <1>0, <1>1, <1>2, <2>1, <3>1 DEF Counts, FlagsOwned, PgioMine, MainMine, Bit, Place, PgioHeldBy,
         MainHeldBy, PgioRegion, MainRegion, PgioClearing, MainClearing, At, CcLabels, WriteLabels,
         MappedHolds, Flushes, UserJobs
    <3>4. fault' # "not_owner" /\ owner'[P][t] = owner[P][t] - 1
      BY <2>3, <3>1, <3>3
    <3>5. Counts(t)'
      BY <1>0, <1>1, <1>2, <2>1, <2>3, <2>4, <3>1, <3>4 DEF Counts, FlagsOwned, PgioMine, MainMine, Bit,
         Place, PgioHeldBy, MainHeldBy, PgioRegion, MainRegion, PgioClearing, MainClearing, At, CcLabels,
         WriteLabels, MappedHolds, Flushes, UserJobs
    <3> QED
      BY <3>2, <3>4, <3>5
  <2> QED
    BY <2>2, <2>3, <2>4, <2>5, <2>6, <2>7 DEF StepOf
<1>3. CASE flags \cap PgioFlags = {}
  <2>1. /\ job'[t] = "none" /\ pc'[t] = "idle"
        /\ status'[t] = status[t] /\ nested'[t] = nested[t] /\ toRelease'[t] = toRelease[t]
    BY <1>0, <1>1, <1>3 DEF CcReleaseFromLazyWrite, ReleaseIfFlagged, Types, P, M
  <2>2. ThreadMoves(t)
    BY <1>0, <1>1, <1>3 DEF CcReleaseFromLazyWrite, ReleaseIfFlagged, ThreadMoves, Types, Release, P, M
  <2>3. Held(t) /\ UNCHANGED << owner, exclusive >> /\ fault' = fault
    BY <1>0, <1>1, <1>3, SameHeld DEF CcReleaseFromLazyWrite, ReleaseIfFlagged
  <2>4. FlagsWord /\ flags' = flags /\ crossed' = crossed
    BY <1>0, <1>1, <1>3, SameWord DEF CcReleaseFromLazyWrite, ReleaseIfFlagged
  <2>5. Place(t)'
    BY <1>0, <1>1, <1>3, <2>1, <2>3 DEF Held, OwnTypes, Place, At, CcLabels, WriteLabels, MappedHolds,
       Flushes, UserJobs
  <2>6. "torn" \notin crossed' => Backs(t)
    BY <1>0, <1>1, <1>3, <2>1, <2>3, <2>4 DEF Backs, PgioBehind, MainBehind, PgioRegion, MainRegion,
       PgioClearing, MainClearing, At, CcLabels, WriteLabels, MappedHolds, Flushes, UserJobs, Bit, Types,
       Place
  <2>7. ASSUME Undisturbed PROVE fault' # "not_owner" /\ Counts(t)' /\ Owns(t)
    <3>1. Counts(t) /\ FlagsOwned /\ fault # "not_owner" /\ crossed' = {}
      BY <2>7 DEF Undisturbed, Orderly
    <3>2. Owns(t)
      BY <1>0, <1>1, <1>3, <2>1, <2>4, <3>1 DEF Owns, FlagsOwned, PgioMine, MainMine, PgioRegion, MainRegion,
         PgioClearing, MainClearing, At, CcLabels, WriteLabels, MappedHolds, Flushes, UserJobs
    <3>3. fault' # "not_owner" /\ Counts(t)'
      BY <1>0, <1>1, <1>3, <2>1, <2>3, <2>4, <3>1, <3>2 DEF Counts, FlagsOwned, PgioMine, MainMine, Bit,
         Types, Place, PgioHeldBy, MainHeldBy, PgioRegion, MainRegion, PgioClearing, MainClearing, At,
         CcLabels, WriteLabels, MappedHolds, Flushes, UserJobs
    <3> QED
      BY <3>2, <3>3
  <2> QED
    BY <2>2, <2>3, <2>4, <2>5, <2>6, <2>7 DEF StepOf
<1> QED
  BY <1>0, <1>1, <1>2, <1>3 DEF CcReleaseFromLazyWrite, ReleaseIfFlagged, At, CcLabels, WriteLabels,
     MappedHolds, Flushes, UserJobs, Place, P, M

LEMMA CcReleaseFromLazyWrite_ClearStep == ASSUME Basic, NEW t \in Threads, CcReleaseFromLazyWrite_Clear(t) PROVE StepOf(t)
<1>0. /\ Types /\ Place(t) /\ P \in Resources /\ M \in Resources /\ P # M
      /\ owner[P][t] \in Nat /\ owner[M][t] \in Nat /\ P # "none" /\ M # "none"
  BY TwoResources DEF Basic, Types, P, M
<1>1. job[t] \in {"lazy"} /\ pc[t] = "lazyClear"
  BY <1>0 DEF CcReleaseFromLazyWrite_Clear, Place, At, CcLabels, WriteLabels, MappedHolds, Flushes, UserJobs
<1>2. /\ job'[t] = "none" /\ pc'[t] = "idle"
      /\ status'[t] = status[t] /\ nested'[t] = nested[t] /\ toRelease'[t] = toRelease[t]
  BY <1>0, <1>1 DEF CcReleaseFromLazyWrite_Clear, Types, P, M
<1>3. ThreadMoves(t)
  BY <1>0, <1>1 DEF CcReleaseFromLazyWrite_Clear, ThreadMoves, Types, Release, P, M
<1>4. Held(t) /\ UNCHANGED << owner, exclusive >> /\ fault' = fault
  BY <1>0, <1>1, SameHeld DEF CcReleaseFromLazyWrite_Clear
<1>5. /\ FlagsWord
      /\ "torn" \notin crossed' => flags' = (flags \cup {}) \ PgioFlags
  BY UpdateWord DEF CcReleaseFromLazyWrite_Clear, StateFlags
<1>6. Place(t)'
  BY <1>0, <1>1, <1>2, <1>4 DEF Held, OwnTypes, Place, At, CcLabels, WriteLabels, MappedHolds, Flushes, UserJobs
<1>7. "torn" \notin crossed' => Backs(t)
  BY <1>0, <1>1, <1>2, <1>4, <1>5 DEF Backs, PgioBehind, MainBehind, PgioRegion, MainRegion, PgioClearing,
     MainClearing, At, CcLabels, WriteLabels, MappedHolds, Flushes, UserJobs, Bit, Types, Place, PgioFlags,
     MainFlags
<1>8. ASSUME Undisturbed PROVE fault' # "not_owner" /\ Counts(t)' /\ Owns(t)
  <2>1. Counts(t) /\ FlagsOwned /\ fault # "not_owner" /\ crossed' = {}
    BY <1>8 DEF Undisturbed, Orderly
  <2>2. Owns(t)
    BY <1>0, <1>1, <1>2, <1>5, <2>1 DEF Owns, FlagsOwned, PgioMine, MainMine, PgioRegion, MainRegion,
       PgioClearing, MainClearing, At, CcLabels, WriteLabels, MappedHolds, Flushes, UserJobs, PgioFlags,
       MainFlags
  <2>3. fault' # "not_owner" /\ Counts(t)'
    BY <1>0, <1>1, <1>2, <1>4, <1>5, <2>1, <2>2 DEF Counts, FlagsOwned, PgioMine, MainMine, Bit, Types, Place,
       PgioHeldBy, MainHeldBy, PgioRegion, MainRegion, PgioClearing, MainClearing, At, CcLabels, WriteLabels,
       MappedHolds, Flushes, UserJobs
  <2> QED
    BY <2>2, <2>3
<1> QED
  BY <1>3, <1>4, <1>5, <1>6, <1>7, <1>8 DEF StepOf

LEMMA CcAcquireForReadAhead_TestStep == ASSUME Basic, NEW t \in Threads, CcAcquireForReadAhead_Test(t) PROVE StepOf(t)
<1>0. /\ Types /\ Place(t) /\ P \in Resources /\ M \in Resources /\ P # M
      /\ owner[P][t] \in Nat /\ owner[M][t] \in Nat /\ P # "none" /\ M # "none"
  BY TwoResources DEF Basic, Types, P, M
<1>1. job[t] \in {"ahead"} /\ pc[t] = "aheadTest"
  BY <1>0 DEF CcAcquireForReadAhead_Test, Place, At, CcLabels, WriteLabels, MappedHolds, Flushes, UserJobs
<1>2. CASE flags \cap MainFlags = {}
  <2>1. /\ job'[t] = job[t] /\ pc'[t] = "aheadAcquire"
        /\ status'[t] = status[t] /\ nested'[t] = nested[t] /\ toRelease'[t] = toRelease[t]
    BY <1>0, <1>1, <1>2 DEF CcAcquireForReadAhead_Test, Types, P, M
  <2>2. ThreadMoves(t)
    BY <1>0, <1>1, <1>2 DEF CcAcquireForReadAhead_Test, ThreadMoves, Types, Release, P, M
  <2>3. Held(t) /\ UNCHANGED << owner, exclusive >> /\ fault' = fault
    BY <1>0, <1>1, <1>2, SameHeld DEF CcAcquireForReadAhead_Test
  <2>4. FlagsWord /\ flags' = flags /\ crossed' = crossed
    BY <1>0, <1>1, <1>2, SameWord DEF CcAcquireForReadAhead_Test
  <2>5. Place(t)'
    BY <1>0, <1>1, <1>2, <2>1, <2>3 DEF Held, OwnTypes, Place, At, CcLabels, WriteLabels, MappedHolds,
       Flushes, UserJobs
  <2>6. "torn" \notin crossed' => Backs(t)
    BY <1>0, <1>1, <1>2, <2>1, <2>3, <2>4 DEF Backs, PgioBehind, MainBehind, PgioRegion, MainRegion,
       PgioClearing, MainClearing, At, CcLabels, WriteLabels, MappedHolds, Flushes, UserJobs, Bit, Types,
       Place
  <2>7. ASSUME Undisturbed PROVE fault' # "not_owner" /\ Counts(t)' /\ Owns(t)
    <3>1. Counts(t) /\ FlagsOwned /\ fault # "not_owner" /\ crossed' = {}
      BY <2>7 DEF Undisturbed, Orderly
    <3>2. Owns(t)
      BY <1>0, <1>1, <1>2, <2>1, <2>4, <3>1 DEF Owns, FlagsOwned, PgioMine, MainMine, PgioRegion, MainRegion,
         PgioClearing, MainClearing, At, CcLabels, WriteLabels, MappedHolds, Flushes, UserJobs
    <3>3. fault' # "not_owner" /\ Counts(t)'
      BY <1>0, <1>1, <1>2, <2>1, <2>3, <2>4, <3>1, <3>2 DEF Counts, FlagsOwned, PgioMine, MainMine, Bit,
         Types, Place, PgioHeldBy, MainHeldBy, PgioRegion, MainRegion, PgioClearing, MainClearing, At,
         CcLabels, WriteLabels, MappedHolds, Flushes, UserJobs
    <3> QED
      BY <3>2, <3>3
  <2> QED
    BY <2>2, <2>3, <2>4, <2>5, <2>6, <2>7 DEF StepOf
<1>3. CASE flags \cap MainFlags # {}
  <2>1. /\ job'[t] = "none" /\ pc'[t] = "idle"
        /\ status'[t] = status[t] /\ nested'[t] = nested[t] /\ toRelease'[t] = toRelease[t]
    BY <1>0, <1>1, <1>3 DEF CcAcquireForReadAhead_Test, Types, P, M
  <2>2. ThreadMoves(t)
    BY <1>0, <1>1, <1>3 DEF CcAcquireForReadAhead_Test, ThreadMoves, Types, Release, P, M
  <2>3. Held(t) /\ UNCHANGED << owner, exclusive >> /\ fault' = fault
    BY <1>0, <1>1, <1>3, SameHeld DEF CcAcquireForReadAhead_Test
  <2>4. FlagsWord /\ flags' = flags /\ crossed' = crossed
    BY <1>0, <1>1, <1>3, SameWord DEF CcAcquireForReadAhead_Test
  <2>5. Place(t)'
    BY <1>0, <1>1, <1>3, <2>1, <2>3 DEF Held, OwnTypes, Place, At, CcLabels, WriteLabels, MappedHolds,
       Flushes, UserJobs
  <2>6. "torn" \notin crossed' => Backs(t)
    BY <1>0, <1>1, <1>3, <2>1, <2>3, <2>4 DEF Backs, PgioBehind, MainBehind, PgioRegion, MainRegion,
       PgioClearing, MainClearing, At, CcLabels, WriteLabels, MappedHolds, Flushes, UserJobs, Bit, Types,
       Place
  <2>7. ASSUME Undisturbed PROVE fault' # "not_owner" /\ Counts(t)' /\ Owns(t)
    <3>1. Counts(t) /\ FlagsOwned /\ fault # "not_owner" /\ crossed' = {}
      BY <2>7 DEF Undisturbed, Orderly
    <3>2. Owns(t)
      BY <1>0, <1>1, <1>3, <2>1, <2>4, <3>1 DEF Owns, FlagsOwned, PgioMine, MainMine, PgioRegion, MainRegion,
         PgioClearing, MainClearing, At, CcLabels, WriteLabels, MappedHolds, Flushes, UserJobs
    <3>3. fault' # "not_owner" /\ Counts(t)'
      BY <1>0, <1>1, <1>3, <2>1, <2>3, <2>4, <3>1, <3>2 DEF Counts, FlagsOwned, PgioMine, MainMine, Bit,
         Types, Place, PgioHeldBy, MainHeldBy, PgioRegion, MainRegion, PgioClearing, MainClearing, At,
         CcLabels, WriteLabels, MappedHolds, Flushes, UserJobs
    <3> QED
      BY <3>2, <3>3
  <2> QED
    BY <2>2, <2>3, <2>4, <2>5, <2>6, <2>7 DEF StepOf
<1> QED
  BY <1>0, <1>1, <1>2, <1>3 DEF CcAcquireForReadAhead_Test, At, CcLabels, WriteLabels, MappedHolds, Flushes,
     UserJobs, Place, P, M

LEMMA CcAcquireForReadAheadStep == ASSUME Basic, NEW t \in Threads, CcAcquireForReadAhead(t) PROVE StepOf(t)
<1>0. /\ Types /\ Place(t) /\ P \in Resources /\ M \in Resources /\ P # M
      /\ owner[P][t] \in Nat /\ owner[M][t] \in Nat /\ P # "none" /\ M # "none"
  BY TwoResources DEF Basic, Types, P, M
<1>1. job[t] \in {"ahead"} /\ pc[t] = "aheadAcquire"
  BY <1>0 DEF CcAcquireForReadAhead, Place, At, CcLabels, WriteLabels, MappedHolds, Flushes, UserJobs
<1>2. CASE Share(M, t) /\ Goto(t, "aheadFlag") /\ UNCHANGED << job, started >>
  <2>1. /\ job'[t] = job[t] /\ pc'[t] = "aheadFlag"
        /\ status'[t] = status[t] /\ nested'[t] = nested[t] /\ toRelease'[t] = toRelease[t]
    BY <1>0, <1>1, <1>2 DEF CcAcquireForReadAhead, Types, P, M
  <2>2. ThreadMoves(t)
    BY <1>0, <1>1, <1>2 DEF CcAcquireForReadAhead, ThreadMoves, Types, Release, P, M
  <2>3. /\ Held(t) /\ owner'[M][t] = owner[M][t] + 1 /\ owner'[P][t] = owner[P][t]
        /\ exclusive' = exclusive /\ fault' = fault
    BY <1>0, <1>1, <1>2, ShareHeld DEF CcAcquireForReadAhead, P, M
  <2>4. FlagsWord /\ flags' = flags /\ crossed' = crossed
    BY <1>0, <1>1, <1>2, SameWord DEF CcAcquireForReadAhead
  <2>5. Place(t)'
    BY <1>0, <1>1, <1>2, <2>1, <2>3 DEF Held, OwnTypes, Place, At, CcLabels, WriteLabels, MappedHolds,
       Flushes, UserJobs
  <2>6. "torn" \notin crossed' => Backs(t)
    BY <1>0, <1>1, <1>2, <2>1, <2>3, <2>4 DEF Backs, PgioBehind, MainBehind, PgioRegion, MainRegion,
       PgioClearing, MainClearing, At, CcLabels, WriteLabels, MappedHolds, Flushes, UserJobs, Bit, Types,
       Place
  <2>7. ASSUME Undisturbed PROVE fault' # "not_owner" /\ Counts(t)' /\ Owns(t)
    <3>1. Counts(t) /\ FlagsOwned /\ fault # "not_owner" /\ crossed' = {}
      BY <2>7 DEF Undisturbed, Orderly
    <3>2. Owns(t)
      BY <1>0, <1>1, <1>2, <2>1, <2>4, <3>1 DEF Owns, FlagsOwned, PgioMine, MainMine, PgioRegion, MainRegion,
         PgioClearing, MainClearing, At, CcLabels, WriteLabels, MappedHolds, Flushes, UserJobs
    <3>3. fault' # "not_owner" /\ Counts(t)'
      BY <1>0, <1>1, <1>2, <2>1, <2>3, <2>4, <3>1, <3>2 DEF Counts, FlagsOwned, PgioMine, MainMine, Bit,
         Types, Place, PgioHeldBy, MainHeldBy, PgioRegion, MainRegion, PgioClearing, MainClearing, At,
         CcLabels, WriteLabels, MappedHolds, Flushes, UserJobs
    <3> QED
      BY <3>2, <3>3
  <2> QED
    BY <2>2, <2>3, <2>4, <2>5, <2>6, <2>7 DEF StepOf
<1>3. CASE Finish(t) /\ UNCHANGED << owner, exclusive >>
  <2>1. /\ job'[t] = "none" /\ pc'[t] = "idle"
        /\ status'[t] = status[t] /\ nested'[t] = nested[t] /\ toRelease'[t] = toRelease[t]
    BY <1>0, <1>1, <1>3 DEF CcAcquireForReadAhead, Types, P, M
  <2>2. ThreadMoves(t)
    BY <1>0, <1>1, <1>3 DEF CcAcquireForReadAhead, ThreadMoves, Types, Release, P, M
  <2>3. Held(t) /\ UNCHANGED << owner, exclusive >> /\ fault' = fault
    BY <1>0, <1>1, <1>3, SameHeld DEF CcAcquireForReadAhead
  <2>4. FlagsWord /\ flags' = flags /\ crossed' = crossed
    BY <1>0, <1>1, <1>3, SameWord DEF CcAcquireForReadAhead
  <2>5. Place(t)'
    BY <1>0, <1>1, <1>3, <2>1, <2>3 DEF Held, OwnTypes, Place, At, CcLabels, WriteLabels, MappedHolds,
       Flushes, UserJobs
  <2>6. "torn" \notin crossed' => Backs(t)
    BY <1>0, <1>1, <1>3, <2>1, <2>3, <2>4 DEF Backs, PgioBehind, MainBehind, PgioRegion, MainRegion,
       PgioClearing, MainClearing, At, CcLabels, WriteLabels, MappedHolds, Flushes, UserJobs, Bit, Types,
       Place
  <2>7. ASSUME Undisturbed PROVE fault' # "not_owner" /\ Counts(t)' /\ Owns(t)
    <3>1. Counts(t) /\ FlagsOwned /\ fault # "not_owner" /\ crossed' = {}
      BY <2>7 DEF Undisturbed, Orderly
    <3>2. Owns(t)
      BY <1>0, <1>1, <1>3, <2>1, <2>4, <3>1 DEF Owns, FlagsOwned, PgioMine, MainMine, PgioRegion, MainRegion,
         PgioClearing, MainClearing, At, CcLabels, WriteLabels, MappedHolds, Flushes, UserJobs
    <3>3. fault' # "not_owner" /\ Counts(t)'
      BY <1>0, <1>1, <1>3, <2>1, <2>3, <2>4, <3>1, <3>2 DEF Counts, FlagsOwned, PgioMine, MainMine, Bit,
         Types, Place, PgioHeldBy, MainHeldBy, PgioRegion, MainRegion, PgioClearing, MainClearing, At,
         CcLabels, WriteLabels, MappedHolds, Flushes, UserJobs
    <3> QED
      BY <3>2, <3>3
  <2> QED
    BY <2>2, <2>3, <2>4, <2>5, <2>6, <2>7 DEF StepOf
<1> QED
  BY <1>0, <1>1, <1>2, <1>3 DEF CcAcquireForReadAhead, At, CcLabels, WriteLabels, MappedHolds, Flushes,
     UserJobs, Place, P, M

LEMMA CcAcquireForReadAhead_FlagStep == ASSUME Basic, NEW t \in Threads, CcAcquireForReadAhead_Flag(t) PROVE StepOf(t)
<1>0. /\ Types /\ Place(t) /\ P \in Resources /\ M \in Resources /\ P # M
      /\ owner[P][t] \in Nat /\ owner[M][t] \in Nat /\ P # "none" /\ M # "none"
  BY TwoResources DEF Basic, Types, P, M
<1>1. job[t] \in {"ahead"} /\ pc[t] = "aheadFlag"
  BY <1>0 DEF CcAcquireForReadAhead_Flag, Place, At, CcLabels, WriteLabels, MappedHolds, Flushes, UserJobs
<1>2. /\ job'[t] = job[t] /\ pc'[t] = "pageRead"
      /\ status'[t] = status[t] /\ nested'[t] = nested[t] /\ toRelease'[t] = toRelease[t]
  BY <1>0, <1>1 DEF CcAcquireForReadAhead_Flag, Types, P, M
<1>3. ThreadMoves(t)
  BY <1>0, <1>1 DEF CcAcquireForReadAhead_Flag, ThreadMoves, Types, Release, P, M
<1>4. Held(t) /\ UNCHANGED << owner, exclusive >> /\ fault' = fault
  BY <1>0, <1>1, SameHeld DEF CcAcquireForReadAhead_Flag
<1>5. /\ FlagsWord
      /\ "torn" \notin crossed' => flags' = (flags \cup {"MAIN_SHARED"}) \ {}
      /\ crossed' = {} => flags \cap MainFlags = {}
  BY UpdateWord DEF CcAcquireForReadAhead_Flag, StateFlags, PgioFlags, MainFlags
<1>6. Place(t)'
  BY <1>0, <1>1, <1>2, <1>4 DEF Held, OwnTypes, Place, At, CcLabels, WriteLabels, MappedHolds, Flushes, UserJobs
<1>7. "torn" \notin crossed' => Backs(t)
  BY <1>0, <1>1, <1>2, <1>4, <1>5 DEF Backs, PgioBehind, MainBehind, PgioRegion, MainRegion, PgioClearing,
     MainClearing, At, CcLabels, WriteLabels, MappedHolds, Flushes, UserJobs, Bit, Types, Place, PgioFlags,
     MainFlags
<1>8. ASSUME Undisturbed PROVE fault' # "not_owner" /\ Counts(t)' /\ Owns(t)
  <2>1. Counts(t) /\ FlagsOwned /\ fault # "not_owner" /\ crossed' = {}
    BY <1>8 DEF Undisturbed, Orderly
  <2>2. Owns(t)
    BY <1>0, <1>1, <1>2, <1>5, <2>1 DEF Owns, FlagsOwned, PgioMine, MainMine, PgioRegion, MainRegion,
       PgioClearing, MainClearing, At, CcLabels, WriteLabels, MappedHolds, Flushes, UserJobs, PgioFlags,
       MainFlags
  <2>3. fault' # "not_owner" /\ Counts(t)'
    BY <1>0, <1>1, <1>2, <1>4, <1>5, <2>1, <2>2 DEF Counts, FlagsOwned, PgioMine, MainMine, Bit, Types, Place,
       PgioHeldBy, MainHeldBy, PgioRegion, MainRegion, PgioClearing, MainClearing, At, CcLabels, WriteLabels,
       MappedHolds, Flushes, UserJobs
  <2> QED
    BY <2>2, <2>3
<1> QED
  BY <1>3, <1>4, <1>5, <1>6, <1>7, <1>8 DEF StepOf

LEMMA CcReleaseFromReadAheadStep == ASSUME Basic, NEW t \in Threads, CcReleaseFromReadAhead(t) PROVE StepOf(t)
<1>0. /\ Types /\ Place(t) /\ P \in Resources /\ M \in Resources /\ P # M
      /\ owner[P][t] \in Nat /\ owner[M][t] \in Nat /\ P # "none" /\ M # "none"
  BY TwoResources DEF Basic, Types, P, M
<1>1. job[t] \in {"ahead"} /\ pc[t] = "aheadRelease"
  BY <1>0 DEF CcReleaseFromReadAhead, Place, At, CcLabels, WriteLabels, MappedHolds, Flushes, UserJobs
<1>2. CASE flags \cap MainFlags # {}
  <2>1. /\ job'[t] = job[t] /\ pc'[t] = "aheadClear"
        /\ status'[t] = status[t] /\ nested'[t] = nested[t] /\ toRelease'[t] = toRelease[t]
    BY <1>0, <1>1, <1>2 DEF CcReleaseFromReadAhead, ReleaseIfFlagged, Types, P, M
  <2>2. ThreadMoves(t)
    BY <1>0, <1>1, <1>2 DEF CcReleaseFromReadAhead, ReleaseIfFlagged, ThreadMoves, Types, Release, P, M
  <2>3. /\ Held(t) /\ owner'[P][t] = owner[P][t] /\ exclusive'[P] = exclusive[P]
        /\ owner[M][t] > 0 => owner'[M][t] = owner[M][t] - 1 /\ fault' = fault
    BY <1>0, <1>1, <1>2, ReleaseHeld DEF CcReleaseFromReadAhead, ReleaseIfFlagged, P, M
  <2>4. FlagsWord /\ flags' = flags /\ crossed' = crossed
    BY <1>0, <1>1, <1>2, SameWord DEF CcReleaseFromReadAhead, ReleaseIfFlagged
  <2>5. Place(t)'
    BY <1>0, <1>1, <1>2, <2>1, <2>3 DEF Held, OwnTypes, Place, At, CcLabels, WriteLabels, MappedHolds,
       Flushes, UserJobs
  <2>6. "torn" \notin crossed' => Backs(t)
    BY <1>0, <1>1, <1>2, <2>1, <2>3, <2>4 DEF Backs, PgioBehind, MainBehind, PgioRegion, MainRegion,
       PgioClearing, MainClearing, At, CcLabels, WriteLabels, MappedHolds, Flushes, UserJobs, Bit, Types,
       Place
  <2>7. ASSUME Undisturbed PROVE fault' # "not_owner" /\ Counts(t)' /\ Owns(t)
    <3>1. Counts(t) /\ FlagsOwned /\ fault # "not_owner" /\ crossed' = {}
      BY <2>7 DEF Undisturbed, Orderly
    <3>2. Owns(t)
      BY <1>0, <1>1, <1>2, <2>1, <2>4, <3>1 DEF Owns, FlagsOwned, PgioMine, MainMine, PgioRegion, MainRegion,
         PgioClearing, MainClearing, At, CcLabels, WriteLabels, MappedHolds, Flushes, UserJobs
    <3>3. owner[M][t] > 0
      BY <1>0, <1>1, <1>2, <2>1, <3>1 DEF Counts, FlagsOwned, PgioMine, MainMine, Bit, Place, PgioHeldBy,
         MainHeldBy, PgioRegion, MainRegion, PgioClearing, MainClearing, At, CcLabels, WriteLabels,
         MappedHolds, Flushes, UserJobs
    <3>4. fault' # "not_owner" /\ owner'[M][t] = owner[M][t] - 1
      BY <2>3, <3>1, <3>3
    <3>5. Counts(t)'
      BY <1>0, <1>1, <1>2, <2>1, <2>3, <2>4, <3>1, <3>4 DEF Counts, FlagsOwned, PgioMine, MainMine, Bit,
         Place, PgioHeldBy, MainHeldBy, PgioRegion, MainRegion, PgioClearing, MainClearing, At, CcLabels,
         WriteLabels, MappedHolds, Flushes, UserJobs
    <3> QED
      BY <3>2, <3>4, <3>5
  <2> QED
    BY <2>2, <2>3, <2>4, <2>5, <2>6, <2>7 DEF StepOf
<1>3. CASE flags \cap MainFlags = {}
  <2>1. /\ job'[t] = "none" /\ pc'[t] = "idle"
        /\ status'[t] = status[t] /\ nested'[t] = nested[t] /\ toRelease'[t] = toRelease[t]
    BY <1>0, <1>1, <1>3 DEF CcReleaseFromReadAhead, ReleaseIfFlagged, Types, P, M
  <2>2. ThreadMoves(t)
    BY <1>0, <1>1, <1>3 DEF CcReleaseFromReadAhead, ReleaseIfFlagged, ThreadMoves, Types, Release, P, M
  <2>3. Held(t) /\ UNCHANGED << owner, exclusive >> /\ fault' = fault
    BY <1>0, <1>1, <1>3, SameHeld DEF CcReleaseFromReadAhead, ReleaseIfFlagged
  <2>4. FlagsWord /\ flags' = flags /\ crossed' = crossed
    BY <1>0, <1>1, <1>3, SameWord DEF CcReleaseFromReadAhead, ReleaseIfFlagged
  <2>5. Place(t)'
    BY <1>0, <1>1, <1>3, <2>1, <2>3 DEF Held, OwnTypes, Place, At, CcLabels, WriteLabels, MappedHolds,
       Flushes, UserJobs
  <2>6. "torn" \notin crossed' => Backs(t)
    BY <1>0, <1>1, <1>3, <2>1, <2>3, <2>4 DEF Backs, PgioBehind, MainBehind, PgioRegion, MainRegion,
       PgioClearing, MainClearing, At, CcLabels, WriteLabels, MappedHolds, Flushes, UserJobs, Bit, Types,
       Place
  <2>7. ASSUME Undisturbed PROVE fault' # "not_owner" /\ Counts(t)' /\ Owns(t)
    <3>1. Counts(t) /\ FlagsOwned /\ fault # "not_owner" /\ crossed' = {}
      BY <2>7 DEF Undisturbed, Orderly
    <3>2. Owns(t)
      BY <1>0, <1>1, <1>3, <2>1, <2>4, <3>1 DEF Owns, FlagsOwned, PgioMine, MainMine, PgioRegion, MainRegion,
         PgioClearing, MainClearing, At, CcLabels, WriteLabels, MappedHolds, Flushes, UserJobs
    <3>3. fault' # "not_owner" /\ Counts(t)'
      BY <1>0, <1>1, <1>3, <2>1, <2>3, <2>4, <3>1, <3>2 DEF Counts, FlagsOwned, PgioMine, MainMine, Bit,
         Types, Place, PgioHeldBy, MainHeldBy, PgioRegion, MainRegion, PgioClearing, MainClearing, At,
         CcLabels, WriteLabels, MappedHolds, Flushes, UserJobs
    <3> QED
      BY <3>2, <3>3
  <2> QED
    BY <2>2, <2>3, <2>4, <2>5, <2>6, <2>7 DEF StepOf
<1> QED
  BY <1>0, <1>1, <1>2, <1>3 DEF CcReleaseFromReadAhead, ReleaseIfFlagged, At, CcLabels, WriteLabels,
     MappedHolds, Flushes, UserJobs, Place, P, M

LEMMA CcReleaseFromReadAhead_ClearStep == ASSUME Basic, NEW t \in Threads, CcReleaseFromReadAhead_Clear(t) PROVE StepOf(t)
<1>0. /\ Types /\ Place(t) /\ P \in Resources /\ M \in Resources /\ P # M
      /\ owner[P][t] \in Nat /\ owner[M][t] \in Nat /\ P # "none" /\ M # "none"
  BY TwoResources DEF Basic, Types, P, M
<1>1. job[t] \in {"ahead"} /\ pc[t] = "aheadClear"
  BY <1>0 DEF CcReleaseFromReadAhead_Clear, Place, At, CcLabels, WriteLabels, MappedHolds, Flushes, UserJobs
<1>2. /\ job'[t] = "none" /\ pc'[t] = "idle"
      /\ status'[t] = status[t] /\ nested'[t] = nested[t] /\ toRelease'[t] = toRelease[t]
  BY <1>0, <1>1 DEF CcReleaseFromReadAhead_Clear, Types, P, M
<1>3. ThreadMoves(t)
  BY <1>0, <1>1 DEF CcReleaseFromReadAhead_Clear, ThreadMoves, Types, Release, P, M
<1>4. Held(t) /\ UNCHANGED << owner, exclusive >> /\ fault' = fault
  BY <1>0, <1>1, SameHeld DEF CcReleaseFromReadAhead_Clear
<1>5. /\ FlagsWord
      /\ "torn" \notin crossed' => flags' = (flags \cup {}) \ MainFlags
  BY UpdateWord DEF CcReleaseFromReadAhead_Clear, StateFlags
<1>6. Place(t)'
  BY <1>0, <1>1, <1>2, <1>4 DEF Held, OwnTypes, Place, At, CcLabels, WriteLabels, MappedHolds, Flushes, UserJobs
<1>7. "torn" \notin crossed' => Backs(t)
  BY <1>0, <1>1, <1>2, <1>4, <1>5 DEF Backs, PgioBehind, MainBehind, PgioRegion, MainRegion, PgioClearing,
     MainClearing, At, CcLabels, WriteLabels, MappedHolds, Flushes, UserJobs, Bit, Types, Place, PgioFlags,
     MainFlags
<1>8. ASSUME Undisturbed PROVE fault' # "not_owner" /\ Counts(t)' /\ Owns(t)
  <2>1. Counts(t) /\ FlagsOwned /\ fault # "not_owner" /\ crossed' = {}
    BY <1>8 DEF Undisturbed, Orderly
  <2>2. Owns(t)
    BY <1>0, <1>1, <1>2, <1>5, <2>1 DEF Owns, FlagsOwned, PgioMine, MainMine, PgioRegion, MainRegion,
       PgioClearing, MainClearing, At, CcLabels, WriteLabels, MappedHolds, Flushes, UserJobs, PgioFlags,
       MainFlags
  <2>3. fault' # "not_owner" /\ Counts(t)'
    BY <1>0, <1>1, <1>2, <1>4, <1>5, <2>1, <2>2 DEF Counts, FlagsOwned, PgioMine, MainMine, Bit, Types, Place,
       PgioHeldBy, MainHeldBy, PgioRegion, MainRegion, PgioClearing, MainClearing, At, CcLabels, WriteLabels,
       MappedHolds, Flushes, UserJobs
  <2> QED
    BY <2>2, <2>3
<1> QED
  BY <1>3, <1>4, <1>5, <1>6, <1>7, <1>8 DEF StepOf

-----------------------------------------------------------------------------
(* The mapped page writer.                                                    *)

LEMMA AcquireModWrite_ChooseStep == ASSUME Basic, NEW t \in Threads, AcquireModWrite_Choose(t) PROVE StepOf(t)
<1>0. /\ Types /\ Place(t) /\ P \in Resources /\ M \in Resources /\ P # M
      /\ owner[P][t] \in Nat /\ owner[M][t] \in Nat /\ P # "none" /\ M # "none"
  BY TwoResources DEF Basic, Types, P, M
<1>1. job[t] \in {"mapped"} /\ pc[t] = "modTest"
  BY <1>0 DEF AcquireModWrite_Choose, Place, At, CcLabels, WriteLabels, MappedHolds, Flushes, UserJobs
<1>2. /\ job'[t] = job[t] /\ pc'[t] \in {"modMain", "modPgio"}
      /\ status'[t] = status[t] /\ nested'[t] = nested[t] /\ toRelease'[t] = toRelease[t]
  BY <1>0, <1>1 DEF AcquireModWrite_Choose, Types, P, M
<1>3. ThreadMoves(t)
  BY <1>0, <1>1 DEF AcquireModWrite_Choose, ThreadMoves, Types, Release, P, M
<1>4. Held(t) /\ UNCHANGED << owner, exclusive >> /\ fault' = fault
  BY <1>0, <1>1, SameHeld DEF AcquireModWrite_Choose
<1>5. FlagsWord /\ flags' = flags /\ crossed' = crossed
  BY <1>0, <1>1, SameWord DEF AcquireModWrite_Choose
<1>6. Place(t)'
  BY <1>0, <1>1, <1>2, <1>4 DEF Held, OwnTypes, Place, At, CcLabels, WriteLabels, MappedHolds, Flushes, UserJobs
<1>7. "torn" \notin crossed' => Backs(t)
  BY <1>0, <1>1, <1>2, <1>4, <1>5 DEF Backs, PgioBehind, MainBehind, PgioRegion, MainRegion, PgioClearing,
     MainClearing, At, CcLabels, WriteLabels, MappedHolds, Flushes, UserJobs, Bit, Types, Place
<1>8. ASSUME Undisturbed PROVE fault' # "not_owner" /\ Counts(t)' /\ Owns(t)
  <2>1. Counts(t) /\ FlagsOwned /\ fault # "not_owner" /\ crossed' = {}
    BY <1>8 DEF Undisturbed, Orderly
  <2>2. Owns(t)
    BY <1>0, <1>1, <1>2, <1>5, <2>1 DEF Owns, FlagsOwned, PgioMine, MainMine, PgioRegion, MainRegion,
       PgioClearing, MainClearing, At, CcLabels, WriteLabels, MappedHolds, Flushes, UserJobs
  <2>3. fault' # "not_owner" /\ Counts(t)'
    BY <1>0, <1>1, <1>2, <1>4, <1>5, <2>1, <2>2 DEF Counts, FlagsOwned, PgioMine, MainMine, Bit, Types, Place,
       PgioHeldBy, MainHeldBy, PgioRegion, MainRegion, PgioClearing, MainClearing, At, CcLabels, WriteLabels,
       MappedHolds, Flushes, UserJobs
  <2> QED
    BY <2>2, <2>3
<1> QED
  BY <1>3, <1>4, <1>5, <1>6, <1>7, <1>8 DEF StepOf

LEMMA AcquireModWrite_MainStep == ASSUME Basic, NEW t \in Threads, AcquireModWrite_Main(t) PROVE StepOf(t)
<1>0. /\ Types /\ Place(t) /\ P \in Resources /\ M \in Resources /\ P # M
      /\ owner[P][t] \in Nat /\ owner[M][t] \in Nat /\ P # "none" /\ M # "none"
  BY TwoResources DEF Basic, Types, P, M
<1>1. job[t] \in {"mapped"} /\ pc[t] = "modMain"
  BY <1>0 DEF AcquireModWrite_Main, Place, At, CcLabels, WriteLabels, MappedHolds, Flushes, UserJobs
<1>2. CASE Own(M, t) /\ Goto(t, "modCheck") /\ UNCHANGED << job, started >> /\ toRelease' = [toRelease EXCEPT ![t] = M]
  <2>1. /\ job'[t] = job[t] /\ pc'[t] = "modCheck"
        /\ status'[t] = status[t] /\ nested'[t] = nested[t] /\ toRelease'[t] = M
    BY <1>0, <1>1, <1>2 DEF AcquireModWrite_Main, GiveUp, Types, P, M
  <2>2. ThreadMoves(t)
    BY <1>0, <1>1, <1>2 DEF AcquireModWrite_Main, GiveUp, ThreadMoves, Types, Release, P, M
  <2>3. /\ Held(t) /\ owner'[M][t] = owner[M][t] + 1 /\ owner'[P][t] = owner[P][t]
        /\ exclusive'[M] /\ exclusive'[P] = exclusive[P] /\ fault' = fault
    BY <1>0, <1>1, <1>2, OwnHeld DEF AcquireModWrite_Main, GiveUp, P, M
  <2>4. FlagsWord /\ flags' = flags /\ crossed' = crossed
    BY <1>0, <1>1, <1>2, SameWord DEF AcquireModWrite_Main, GiveUp
  <2>5. Place(t)'
    BY <1>0, <1>1, <1>2, <2>1, <2>3 DEF Held, OwnTypes, Place, At, CcLabels, WriteLabels, MappedHolds,
       Flushes, UserJobs
  <2>6. "torn" \notin crossed' => Backs(t)
    BY <1>0, <1>1, <1>2, <2>1, <2>3, <2>4 DEF Backs, PgioBehind, MainBehind, PgioRegion, MainRegion,
       PgioClearing, MainClearing, At, CcLabels, WriteLabels, MappedHolds, Flushes, UserJobs, Bit, Types,
       Place
  <2>7. ASSUME Undisturbed PROVE fault' # "not_owner" /\ Counts(t)' /\ Owns(t)
    <3>1. Counts(t) /\ FlagsOwned /\ fault # "not_owner" /\ crossed' = {}
      BY <2>7 DEF Undisturbed, Orderly
    <3>2. Owns(t)
      BY <1>0, <1>1, <1>2, <2>1, <2>4, <3>1 DEF Owns, FlagsOwned, PgioMine, MainMine, PgioRegion, MainRegion,
         PgioClearing, MainClearing, At, CcLabels, WriteLabels, MappedHolds, Flushes, UserJobs
    <3>3. fault' # "not_owner" /\ Counts(t)'
      BY <1>0, <1>1, <1>2, <2>1, <2>3, <2>4, <3>1, <3>2 DEF Counts, FlagsOwned, PgioMine, MainMine, Bit,
         Types, Place, PgioHeldBy, MainHeldBy, PgioRegion, MainRegion, PgioClearing, MainClearing, At,
         CcLabels, WriteLabels, MappedHolds, Flushes, UserJobs
    <3> QED
      BY <3>2, <3>3
  <2> QED
    BY <2>2, <2>3, <2>4, <2>5, <2>6, <2>7 DEF StepOf
<1>3. CASE GiveUp(t)
  <2>1. /\ job'[t] = "none" /\ pc'[t] = "idle"
        /\ status'[t] = status[t] /\ nested'[t] = nested[t] /\ toRelease'[t] = toRelease[t]
    BY <1>0, <1>1, <1>3 DEF AcquireModWrite_Main, GiveUp, Types, P, M
  <2>2. ThreadMoves(t)
    BY <1>0, <1>1, <1>3 DEF AcquireModWrite_Main, GiveUp, ThreadMoves, Types, Release, P, M
  <2>3. Held(t) /\ UNCHANGED << owner, exclusive >> /\ fault' = fault
    BY <1>0, <1>1, <1>3, SameHeld DEF AcquireModWrite_Main, GiveUp
  <2>4. FlagsWord /\ flags' = flags /\ crossed' = crossed
    BY <1>0, <1>1, <1>3, SameWord DEF AcquireModWrite_Main, GiveUp
  <2>5. Place(t)'
    BY <1>0, <1>1, <1>3, <2>1, <2>3 DEF Held, OwnTypes, Place, At, CcLabels, WriteLabels, MappedHolds,
       Flushes, UserJobs
  <2>6. "torn" \notin crossed' => Backs(t)
    BY <1>0, <1>1, <1>3, <2>1, <2>3, <2>4 DEF Backs, PgioBehind, MainBehind, PgioRegion, MainRegion,
       PgioClearing, MainClearing, At, CcLabels, WriteLabels, MappedHolds, Flushes, UserJobs, Bit, Types,
       Place
  <2>7. ASSUME Undisturbed PROVE fault' # "not_owner" /\ Counts(t)' /\ Owns(t)
    <3>1. Counts(t) /\ FlagsOwned /\ fault # "not_owner" /\ crossed' = {}
      BY <2>7 DEF Undisturbed, Orderly
    <3>2. Owns(t)
      BY <1>0, <1>1, <1>3, <2>1, <2>4, <3>1 DEF Owns, FlagsOwned, PgioMine, MainMine, PgioRegion, MainRegion,
         PgioClearing, MainClearing, At, CcLabels, WriteLabels, MappedHolds, Flushes, UserJobs
    <3>3. fault' # "not_owner" /\ Counts(t)'
      BY <1>0, <1>1, <1>3, <2>1, <2>3, <2>4, <3>1, <3>2 DEF Counts, FlagsOwned, PgioMine, MainMine, Bit,
         Types, Place, PgioHeldBy, MainHeldBy, PgioRegion, MainRegion, PgioClearing, MainClearing, At,
         CcLabels, WriteLabels, MappedHolds, Flushes, UserJobs
    <3> QED
      BY <3>2, <3>3
  <2> QED
    BY <2>2, <2>3, <2>4, <2>5, <2>6, <2>7 DEF StepOf
<1> QED
  BY <1>0, <1>1, <1>2, <1>3 DEF AcquireModWrite_Main, GiveUp, At, CcLabels, WriteLabels, MappedHolds, Flushes,
     UserJobs, Place, P, M

LEMMA AcquireModWrite_PgioStep == ASSUME Basic, NEW t \in Threads, AcquireModWrite_Pgio(t) PROVE StepOf(t)
<1>0. /\ Types /\ Place(t) /\ P \in Resources /\ M \in Resources /\ P # M
      /\ owner[P][t] \in Nat /\ owner[M][t] \in Nat /\ P # "none" /\ M # "none"
  BY TwoResources DEF Basic, Types, P, M
<1>1. job[t] \in {"mapped"} /\ pc[t] = "modPgio"
  BY <1>0 DEF AcquireModWrite_Pgio, Place, At, CcLabels, WriteLabels, MappedHolds, Flushes, UserJobs
<1>2. CASE Share(P, t) /\ Goto(t, "modCheck") /\ UNCHANGED << job, started >> /\ toRelease' = [toRelease EXCEPT ![t] = P]
  <2>1. /\ job'[t] = job[t] /\ pc'[t] = "modCheck"
        /\ status'[t] = status[t] /\ nested'[t] = nested[t] /\ toRelease'[t] = P
    BY <1>0, <1>1, <1>2 DEF AcquireModWrite_Pgio, GiveUp, Types, P, M
  <2>2. ThreadMoves(t)
    BY <1>0, <1>1, <1>2 DEF AcquireModWrite_Pgio, GiveUp, ThreadMoves, Types, Release, P, M
  <2>3. /\ Held(t) /\ owner'[P][t] = owner[P][t] + 1 /\ owner'[M][t] = owner[M][t]
        /\ exclusive' = exclusive /\ fault' = fault
    BY <1>0, <1>1, <1>2, ShareHeld DEF AcquireModWrite_Pgio, GiveUp, P, M
  <2>4. FlagsWord /\ flags' = flags /\ crossed' = crossed
    BY <1>0, <1>1, <1>2, SameWord DEF AcquireModWrite_Pgio, GiveUp
  <2>5. Place(t)'
    BY <1>0, <1>1, <1>2, <2>1, <2>3 DEF Held, OwnTypes, Place, At, CcLabels, WriteLabels, MappedHolds,
       Flushes, UserJobs
  <2>6. "torn" \notin crossed' => Backs(t)
    BY <1>0, <1>1, <1>2, <2>1, <2>3, <2>4 DEF Backs, PgioBehind, MainBehind, PgioRegion, MainRegion,
       PgioClearing, MainClearing, At, CcLabels, WriteLabels, MappedHolds, Flushes, UserJobs, Bit, Types,
       Place
  <2>7. ASSUME Undisturbed PROVE fault' # "not_owner" /\ Counts(t)' /\ Owns(t)
    <3>1. Counts(t) /\ FlagsOwned /\ fault # "not_owner" /\ crossed' = {}
      BY <2>7 DEF Undisturbed, Orderly
    <3>2. Owns(t)
      BY <1>0, <1>1, <1>2, <2>1, <2>4, <3>1 DEF Owns, FlagsOwned, PgioMine, MainMine, PgioRegion, MainRegion,
         PgioClearing, MainClearing, At, CcLabels, WriteLabels, MappedHolds, Flushes, UserJobs
    <3>3. fault' # "not_owner" /\ Counts(t)'
      BY <1>0, <1>1, <1>2, <2>1, <2>3, <2>4, <3>1, <3>2 DEF Counts, FlagsOwned, PgioMine, MainMine, Bit,
         Types, Place, PgioHeldBy, MainHeldBy, PgioRegion, MainRegion, PgioClearing, MainClearing, At,
         CcLabels, WriteLabels, MappedHolds, Flushes, UserJobs
    <3> QED
      BY <3>2, <3>3
  <2> QED
    BY <2>2, <2>3, <2>4, <2>5, <2>6, <2>7 DEF StepOf
<1>3. CASE GiveUp(t)
  <2>1. /\ job'[t] = "none" /\ pc'[t] = "idle"
        /\ status'[t] = status[t] /\ nested'[t] = nested[t] /\ toRelease'[t] = toRelease[t]
    BY <1>0, <1>1, <1>3 DEF AcquireModWrite_Pgio, GiveUp, Types, P, M
  <2>2. ThreadMoves(t)
    BY <1>0, <1>1, <1>3 DEF AcquireModWrite_Pgio, GiveUp, ThreadMoves, Types, Release, P, M
  <2>3. Held(t) /\ UNCHANGED << owner, exclusive >> /\ fault' = fault
    BY <1>0, <1>1, <1>3, SameHeld DEF AcquireModWrite_Pgio, GiveUp
  <2>4. FlagsWord /\ flags' = flags /\ crossed' = crossed
    BY <1>0, <1>1, <1>3, SameWord DEF AcquireModWrite_Pgio, GiveUp
  <2>5. Place(t)'
    BY <1>0, <1>1, <1>3, <2>1, <2>3 DEF Held, OwnTypes, Place, At, CcLabels, WriteLabels, MappedHolds,
       Flushes, UserJobs
  <2>6. "torn" \notin crossed' => Backs(t)
    BY <1>0, <1>1, <1>3, <2>1, <2>3, <2>4 DEF Backs, PgioBehind, MainBehind, PgioRegion, MainRegion,
       PgioClearing, MainClearing, At, CcLabels, WriteLabels, MappedHolds, Flushes, UserJobs, Bit, Types,
       Place
  <2>7. ASSUME Undisturbed PROVE fault' # "not_owner" /\ Counts(t)' /\ Owns(t)
    <3>1. Counts(t) /\ FlagsOwned /\ fault # "not_owner" /\ crossed' = {}
      BY <2>7 DEF Undisturbed, Orderly
    <3>2. Owns(t)
      BY <1>0, <1>1, <1>3, <2>1, <2>4, <3>1 DEF Owns, FlagsOwned, PgioMine, MainMine, PgioRegion, MainRegion,
         PgioClearing, MainClearing, At, CcLabels, WriteLabels, MappedHolds, Flushes, UserJobs
    <3>3. fault' # "not_owner" /\ Counts(t)'
      BY <1>0, <1>1, <1>3, <2>1, <2>3, <2>4, <3>1, <3>2 DEF Counts, FlagsOwned, PgioMine, MainMine, Bit,
         Types, Place, PgioHeldBy, MainHeldBy, PgioRegion, MainRegion, PgioClearing, MainClearing, At,
         CcLabels, WriteLabels, MappedHolds, Flushes, UserJobs
    <3> QED
      BY <3>2, <3>3
  <2> QED
    BY <2>2, <2>3, <2>4, <2>5, <2>6, <2>7 DEF StepOf
<1> QED
  BY <1>0, <1>1, <1>2, <1>3 DEF AcquireModWrite_Pgio, GiveUp, At, CcLabels, WriteLabels, MappedHolds, Flushes,
     UserJobs, Place, P, M

LEMMA AcquireModWrite_CheckStep == ASSUME Basic, NEW t \in Threads, AcquireModWrite_Check(t) PROVE StepOf(t)
<1>0. /\ Types /\ Place(t) /\ P \in Resources /\ M \in Resources /\ P # M
      /\ owner[P][t] \in Nat /\ owner[M][t] \in Nat /\ P # "none" /\ M # "none"
  BY TwoResources DEF Basic, Types, P, M
<1>1. job[t] \in {"mapped"} /\ pc[t] = "modCheck"
  BY <1>0 DEF AcquireModWrite_Check, Place, At, CcLabels, WriteLabels, MappedHolds, Flushes, UserJobs
<1>2. CASE Goto(t, "writeTest") /\ UNCHANGED << owner, exclusive, job, started, toRelease, fault >>
  <2>1. /\ job'[t] = job[t] /\ pc'[t] = "writeTest"
        /\ status'[t] = status[t] /\ nested'[t] = nested[t] /\ toRelease'[t] = toRelease[t]
    BY <1>0, <1>1, <1>2 DEF AcquireModWrite_Check, LowersLock, Types, P, M
  <2>2. ThreadMoves(t)
    BY <1>0, <1>1, <1>2 DEF AcquireModWrite_Check, LowersLock, ThreadMoves, Types, Release, P, M
  <2>3. Held(t) /\ UNCHANGED << owner, exclusive >> /\ fault' = fault
    BY <1>0, <1>1, <1>2, SameHeld DEF AcquireModWrite_Check, LowersLock
  <2>4. FlagsWord /\ flags' = flags /\ crossed' = crossed
    BY <1>0, <1>1, <1>2, SameWord DEF AcquireModWrite_Check, LowersLock
  <2>5. Place(t)'
    BY <1>0, <1>1, <1>2, <2>1, <2>3 DEF Held, OwnTypes, Place, At, CcLabels, WriteLabels, MappedHolds,
       Flushes, UserJobs
  <2>6. "torn" \notin crossed' => Backs(t)
    BY <1>0, <1>1, <1>2, <2>1, <2>3, <2>4 DEF Backs, PgioBehind, MainBehind, PgioRegion, MainRegion,
       PgioClearing, MainClearing, At, CcLabels, WriteLabels, MappedHolds, Flushes, UserJobs, Bit, Types,
       Place
  <2>7. ASSUME Undisturbed PROVE fault' # "not_owner" /\ Counts(t)' /\ Owns(t)
    <3>1. Counts(t) /\ FlagsOwned /\ fault # "not_owner" /\ crossed' = {}
      BY <2>7 DEF Undisturbed, Orderly
    <3>2. Owns(t)
      BY <1>0, <1>1, <1>2, <2>1, <2>4, <3>1 DEF Owns, FlagsOwned, PgioMine, MainMine, PgioRegion, MainRegion,
         PgioClearing, MainClearing, At, CcLabels, WriteLabels, MappedHolds, Flushes, UserJobs
    <3>3. fault' # "not_owner" /\ Counts(t)'
      BY <1>0, <1>1, <1>2, <2>1, <2>3, <2>4, <3>1, <3>2 DEF Counts, FlagsOwned, PgioMine, MainMine, Bit,
         Types, Place, PgioHeldBy, MainHeldBy, PgioRegion, MainRegion, PgioClearing, MainClearing, At,
         CcLabels, WriteLabels, MappedHolds, Flushes, UserJobs
    <3> QED
      BY <3>2, <3>3
  <2> QED
    BY <2>2, <2>3, <2>4, <2>5, <2>6, <2>7 DEF StepOf
<1>3. CASE toRelease[t] = P /\ Release(P, t) /\ Goto(t, "modMain") /\ UNCHANGED << job, started >> /\ toRelease' = [toRelease EXCEPT ![t] = "none"]
  <2>1. /\ job'[t] = job[t] /\ pc'[t] = "modMain"
        /\ status'[t] = status[t] /\ nested'[t] = nested[t] /\ toRelease'[t] = "none"
    BY <1>0, <1>1, <1>3 DEF AcquireModWrite_Check, LowersLock, Types, P, M
  <2>2. ThreadMoves(t)
    BY <1>0, <1>1, <1>3 DEF AcquireModWrite_Check, LowersLock, ThreadMoves, Types, Release, P, M
  <2>3. /\ Held(t) /\ owner'[M][t] = owner[M][t] /\ exclusive'[M] = exclusive[M]
        /\ owner[P][t] > 0 => owner'[P][t] = owner[P][t] - 1 /\ fault' = fault
    BY <1>0, <1>1, <1>3, ReleaseHeld DEF AcquireModWrite_Check, LowersLock, P, M
  <2>4. FlagsWord /\ flags' = flags /\ crossed' = crossed
    BY <1>0, <1>1, <1>3, SameWord DEF AcquireModWrite_Check, LowersLock
  <2>5. Place(t)'
    BY <1>0, <1>1, <1>3, <2>1, <2>3 DEF Held, OwnTypes, Place, At, CcLabels, WriteLabels, MappedHolds,
       Flushes, UserJobs
  <2>6. "torn" \notin crossed' => Backs(t)
    BY <1>0, <1>1, <1>3, <2>1, <2>3, <2>4 DEF Backs, PgioBehind, MainBehind, PgioRegion, MainRegion,
       PgioClearing, MainClearing, At, CcLabels, WriteLabels, MappedHolds, Flushes, UserJobs, Bit, Types,
       Place
  <2>7. ASSUME Undisturbed PROVE fault' # "not_owner" /\ Counts(t)' /\ Owns(t)
    <3>1. Counts(t) /\ FlagsOwned /\ fault # "not_owner" /\ crossed' = {}
      BY <2>7 DEF Undisturbed, Orderly
    <3>2. Owns(t)
      BY <1>0, <1>1, <1>3, <2>1, <2>4, <3>1 DEF Owns, FlagsOwned, PgioMine, MainMine, PgioRegion, MainRegion,
         PgioClearing, MainClearing, At, CcLabels, WriteLabels, MappedHolds, Flushes, UserJobs
    <3>3. owner[P][t] > 0
      BY <1>0, <1>1, <1>3, <2>1, <3>1 DEF Counts, FlagsOwned, PgioMine, MainMine, Bit, Place, PgioHeldBy,
         MainHeldBy, PgioRegion, MainRegion, PgioClearing, MainClearing, At, CcLabels, WriteLabels,
         MappedHolds, Flushes, UserJobs
    <3>4. fault' # "not_owner" /\ owner'[P][t] = owner[P][t] - 1
      BY <2>3, <3>1, <3>3
    <3>5. Counts(t)'
      BY <1>0, <1>1, <1>3, <2>1, <2>3, <2>4, <3>1, <3>4 DEF Counts, FlagsOwned, PgioMine, MainMine, Bit,
         Place, PgioHeldBy, MainHeldBy, PgioRegion, MainRegion, PgioClearing, MainClearing, At, CcLabels,
         WriteLabels, MappedHolds, Flushes, UserJobs
    <3> QED
      BY <3>2, <3>4, <3>5
  <2> QED
    BY <2>2, <2>3, <2>4, <2>5, <2>6, <2>7 DEF StepOf
<1>4. CASE LowersLock(t) /\ CanShare(P, t)
  <2>1. /\ job'[t] = job[t] /\ pc'[t] = "writeTest"
        /\ status'[t] = status[t] /\ nested'[t] = nested[t] /\ toRelease'[t] = P
    BY <1>0, <1>1, <1>4 DEF AcquireModWrite_Check, LowersLock, Types, P, M
  <2>2. ThreadMoves(t)
    BY <1>0, <1>1, <1>4 DEF AcquireModWrite_Check, LowersLock, ThreadMoves, Types, Release, P, M
  <2>3. /\ Held(t) /\ owner'[M][t] = owner[M][t] - 1 /\ owner'[P][t] = owner[P][t] + 1
        /\ exclusive'[P] = exclusive[P] /\ fault' = fault
    BY <1>0, <1>1, <1>4, LowerHeld
  <2>4. FlagsWord /\ flags' = flags /\ crossed' = crossed
    BY <1>0, <1>1, <1>4, SameWord DEF AcquireModWrite_Check, LowersLock
  <2>5. Place(t)'
    BY <1>0, <1>1, <1>4, <2>1, <2>3 DEF Held, OwnTypes, Place, At, CcLabels, WriteLabels, MappedHolds,
       Flushes, UserJobs
  <2>6. "torn" \notin crossed' => Backs(t)
    BY <1>0, <1>1, <1>4, <2>1, <2>3, <2>4 DEF Backs, PgioBehind, MainBehind, PgioRegion, MainRegion,
       PgioClearing, MainClearing, At, CcLabels, WriteLabels, MappedHolds, Flushes, UserJobs, Bit, Types,
       Place
  <2>7. ASSUME Undisturbed PROVE fault' # "not_owner" /\ Counts(t)' /\ Owns(t)
    <3>1. Counts(t) /\ FlagsOwned /\ fault # "not_owner" /\ crossed' = {}
      BY <2>7 DEF Undisturbed, Orderly
    <3>2. Owns(t)
      BY <1>0, <1>1, <1>4, <2>1, <2>4, <3>1 DEF Owns, FlagsOwned, PgioMine, MainMine, PgioRegion, MainRegion,
         PgioClearing, MainClearing, At, CcLabels, WriteLabels, MappedHolds, Flushes, UserJobs
    <3>3. /\ toRelease[t] = M /\ owner[M][t] = 1 /\ owner[P][t] = 0 /\ nested[t] = {}
           /\ M \notin status[t] /\ P \notin status[t]
      BY <1>0, <1>1, <1>4, <3>1 DEF LowersLock, Counts, Bit, Place, PgioHeldBy, MainHeldBy, PgioRegion,
         MainRegion, PgioClearing, MainClearing, At, CcLabels, WriteLabels, MappedHolds, Flushes, UserJobs
    <3>4. owner'[M][t] = 0 /\ owner'[P][t] = 1 /\ fault' # "not_owner"
      BY <3>1, <3>3, <2>3
    <3>5. Counts(t)'
      BY <1>0, <1>1, <2>1, <3>3, <3>4 DEF Counts, Bit, PgioHeldBy, MainHeldBy, PgioRegion, MainRegion,
         PgioClearing, MainClearing, At, CcLabels, WriteLabels, MappedHolds, Flushes, UserJobs
    <3> QED
      BY <3>2, <3>4, <3>5
  <2> QED
    BY <2>2, <2>3, <2>4, <2>5, <2>6, <2>7 DEF StepOf
<1>5. CASE LowersLock(t) /\ ~CanShare(P, t)
  <2>1. /\ job'[t] = "none" /\ pc'[t] = "idle"
        /\ status'[t] = status[t] /\ nested'[t] = nested[t] /\ toRelease'[t] = "none"
    BY <1>0, <1>1, <1>5 DEF AcquireModWrite_Check, LowersLock, Types, P, M
  <2>2. ThreadMoves(t)
    BY <1>0, <1>1, <1>5 DEF AcquireModWrite_Check, LowersLock, ThreadMoves, Types, Release, P, M
  <2>3. /\ Held(t) /\ owner'[M][t] = owner[M][t] - 1 /\ owner'[P][t] = owner[P][t] + 0
        /\ exclusive'[P] = exclusive[P] /\ fault' = fault
    BY <1>0, <1>1, <1>5, LowerHeld
  <2>4. FlagsWord /\ flags' = flags /\ crossed' = crossed
    BY <1>0, <1>1, <1>5, SameWord DEF AcquireModWrite_Check, LowersLock
  <2>5. Place(t)'
    BY <1>0, <1>1, <1>5, <2>1, <2>3 DEF Held, OwnTypes, Place, At, CcLabels, WriteLabels, MappedHolds,
       Flushes, UserJobs
  <2>6. "torn" \notin crossed' => Backs(t)
    BY <1>0, <1>1, <1>5, <2>1, <2>3, <2>4 DEF Backs, PgioBehind, MainBehind, PgioRegion, MainRegion,
       PgioClearing, MainClearing, At, CcLabels, WriteLabels, MappedHolds, Flushes, UserJobs, Bit, Types,
       Place
  <2>7. ASSUME Undisturbed PROVE fault' # "not_owner" /\ Counts(t)' /\ Owns(t)
    <3>1. Counts(t) /\ FlagsOwned /\ fault # "not_owner" /\ crossed' = {}
      BY <2>7 DEF Undisturbed, Orderly
    <3>2. Owns(t)
      BY <1>0, <1>1, <1>5, <2>1, <2>4, <3>1 DEF Owns, FlagsOwned, PgioMine, MainMine, PgioRegion, MainRegion,
         PgioClearing, MainClearing, At, CcLabels, WriteLabels, MappedHolds, Flushes, UserJobs
    <3>3. /\ toRelease[t] = M /\ owner[M][t] = 1 /\ owner[P][t] = 0 /\ nested[t] = {}
           /\ M \notin status[t] /\ P \notin status[t]
      BY <1>0, <1>1, <1>5, <3>1 DEF LowersLock, Counts, Bit, Place, PgioHeldBy, MainHeldBy, PgioRegion,
         MainRegion, PgioClearing, MainClearing, At, CcLabels, WriteLabels, MappedHolds, Flushes, UserJobs
    <3>4. owner'[M][t] = 0 /\ owner'[P][t] = 0 /\ fault' # "not_owner"
      BY <3>1, <3>3, <2>3
    <3>5. Counts(t)'
      BY <1>0, <1>1, <2>1, <3>3, <3>4 DEF Counts, Bit, PgioHeldBy, MainHeldBy, PgioRegion, MainRegion,
         PgioClearing, MainClearing, At, CcLabels, WriteLabels, MappedHolds, Flushes, UserJobs
    <3> QED
      BY <3>2, <3>4, <3>5
  <2> QED
    BY <2>2, <2>3, <2>4, <2>5, <2>6, <2>7 DEF StepOf
<1> QED
  BY <1>0, <1>1, <1>2, <1>3, <1>4, <1>5 DEF AcquireModWrite_Check, LowersLock, At, CcLabels, WriteLabels,
     MappedHolds, Flushes, UserJobs, Place, P, M

LEMMA ReleaseModWriteStep == ASSUME Basic, NEW t \in Threads, ReleaseModWrite(t) PROVE StepOf(t)
<1>0. /\ Types /\ Place(t) /\ P \in Resources /\ M \in Resources /\ P # M
      /\ owner[P][t] \in Nat /\ owner[M][t] \in Nat /\ P # "none" /\ M # "none"
  BY TwoResources DEF Basic, Types, P, M
<1>1. job[t] \in {"mapped"} /\ pc[t] = "modRelease"
  BY <1>0 DEF ReleaseModWrite, Place, At, CcLabels, WriteLabels, MappedHolds, Flushes, UserJobs
<1>2. CASE toRelease[t] = P
  <2>1. /\ job'[t] = "none" /\ pc'[t] = "idle"
        /\ status'[t] = status[t] /\ nested'[t] = nested[t] /\ toRelease'[t] = "none"
    BY <1>0, <1>1, <1>2 DEF ReleaseModWrite, Types, P, M
  <2>2. ThreadMoves(t)
    BY <1>0, <1>1, <1>2 DEF ReleaseModWrite, ThreadMoves, Types, Release, P, M
  <2>3. /\ Held(t) /\ owner'[M][t] = owner[M][t] /\ exclusive'[M] = exclusive[M]
        /\ owner[P][t] > 0 => owner'[P][t] = owner[P][t] - 1 /\ fault' = fault
    BY <1>0, <1>1, <1>2, ReleaseHeld DEF ReleaseModWrite, P, M
  <2>4. FlagsWord /\ flags' = flags /\ crossed' = crossed
    BY <1>0, <1>1, <1>2, SameWord DEF ReleaseModWrite
  <2>5. Place(t)'
    BY <1>0, <1>1, <1>2, <2>1, <2>3 DEF Held, OwnTypes, Place, At, CcLabels, WriteLabels, MappedHolds,
       Flushes, UserJobs
  <2>6. "torn" \notin crossed' => Backs(t)
    BY <1>0, <1>1, <1>2, <2>1, <2>3, <2>4 DEF Backs, PgioBehind, MainBehind, PgioRegion, MainRegion,
       PgioClearing, MainClearing, At, CcLabels, WriteLabels, MappedHolds, Flushes, UserJobs, Bit, Types,
       Place
  <2>7. ASSUME Undisturbed PROVE fault' # "not_owner" /\ Counts(t)' /\ Owns(t)
    <3>1. Counts(t) /\ FlagsOwned /\ fault # "not_owner" /\ crossed' = {}
      BY <2>7 DEF Undisturbed, Orderly
    <3>2. Owns(t)
      BY <1>0, <1>1, <1>2, <2>1, <2>4, <3>1 DEF Owns, FlagsOwned, PgioMine, MainMine, PgioRegion, MainRegion,
         PgioClearing, MainClearing, At, CcLabels, WriteLabels, MappedHolds, Flushes, UserJobs
    <3>3. owner[P][t] > 0
      BY <1>0, <1>1, <1>2, <2>1, <3>1 DEF Counts, FlagsOwned, PgioMine, MainMine, Bit, Place, PgioHeldBy,
         MainHeldBy, PgioRegion, MainRegion, PgioClearing, MainClearing, At, CcLabels, WriteLabels,
         MappedHolds, Flushes, UserJobs
    <3>4. fault' # "not_owner" /\ owner'[P][t] = owner[P][t] - 1
      BY <2>3, <3>1, <3>3
    <3>5. Counts(t)'
      BY <1>0, <1>1, <1>2, <2>1, <2>3, <2>4, <3>1, <3>4 DEF Counts, FlagsOwned, PgioMine, MainMine, Bit,
         Place, PgioHeldBy, MainHeldBy, PgioRegion, MainRegion, PgioClearing, MainClearing, At, CcLabels,
         WriteLabels, MappedHolds, Flushes, UserJobs
    <3> QED
      BY <3>2, <3>4, <3>5
  <2> QED
    BY <2>2, <2>3, <2>4, <2>5, <2>6, <2>7 DEF StepOf
<1>3. CASE toRelease[t] = M
  <2>1. /\ job'[t] = "none" /\ pc'[t] = "idle"
        /\ status'[t] = status[t] /\ nested'[t] = nested[t] /\ toRelease'[t] = "none"
    BY <1>0, <1>1, <1>3 DEF ReleaseModWrite, Types, P, M
  <2>2. ThreadMoves(t)
    BY <1>0, <1>1, <1>3 DEF ReleaseModWrite, ThreadMoves, Types, Release, P, M
  <2>3. /\ Held(t) /\ owner'[P][t] = owner[P][t] /\ exclusive'[P] = exclusive[P]
        /\ owner[M][t] > 0 => owner'[M][t] = owner[M][t] - 1 /\ fault' = fault
    BY <1>0, <1>1, <1>3, ReleaseHeld DEF ReleaseModWrite, P, M
  <2>4. FlagsWord /\ flags' = flags /\ crossed' = crossed
    BY <1>0, <1>1, <1>3, SameWord DEF ReleaseModWrite
  <2>5. Place(t)'
    BY <1>0, <1>1, <1>3, <2>1, <2>3 DEF Held, OwnTypes, Place, At, CcLabels, WriteLabels, MappedHolds,
       Flushes, UserJobs
  <2>6. "torn" \notin crossed' => Backs(t)
    BY <1>0, <1>1, <1>3, <2>1, <2>3, <2>4 DEF Backs, PgioBehind, MainBehind, PgioRegion, MainRegion,
       PgioClearing, MainClearing, At, CcLabels, WriteLabels, MappedHolds, Flushes, UserJobs, Bit, Types,
       Place
  <2>7. ASSUME Undisturbed PROVE fault' # "not_owner" /\ Counts(t)' /\ Owns(t)
    <3>1. Counts(t) /\ FlagsOwned /\ fault # "not_owner" /\ crossed' = {}
      BY <2>7 DEF Undisturbed, Orderly
    <3>2. Owns(t)
      BY <1>0, <1>1, <1>3, <2>1, <2>4, <3>1 DEF Owns, FlagsOwned, PgioMine, MainMine, PgioRegion, MainRegion,
         PgioClearing, MainClearing, At, CcLabels, WriteLabels, MappedHolds, Flushes, UserJobs
    <3>3. owner[M][t] > 0
      BY <1>0, <1>1, <1>3, <2>1, <3>1 DEF Counts, FlagsOwned, PgioMine, MainMine, Bit, Place, PgioHeldBy,
         MainHeldBy, PgioRegion, MainRegion, PgioClearing, MainClearing, At, CcLabels, WriteLabels,
         MappedHolds, Flushes, UserJobs
    <3>4. fault' # "not_owner" /\ owner'[M][t] = owner[M][t] - 1
      BY <2>3, <3>1, <3>3
    <3>5. Counts(t)'
      BY <1>0, <1>1, <1>3, <2>1, <2>3, <2>4, <3>1, <3>4 DEF Counts, FlagsOwned, PgioMine, MainMine, Bit,
         Place, PgioHeldBy, MainHeldBy, PgioRegion, MainRegion, PgioClearing, MainClearing, At, CcLabels,
         WriteLabels, MappedHolds, Flushes, UserJobs
    <3> QED
      BY <3>2, <3>4, <3>5
  <2> QED
    BY <2>2, <2>3, <2>4, <2>5, <2>6, <2>7 DEF StepOf
<1> QED
  BY <1>0, <1>1, <1>2, <1>3 DEF ReleaseModWrite, At, CcLabels, WriteLabels, MappedHolds, Flushes, UserJobs,
     Place, P, M

-----------------------------------------------------------------------------
(* All steps. *)

LEMMA StepSteps == ASSUME Basic, NEW t \in Threads, Step(t) PROVE StepOf(t)
<1>1. CASE Fetch(t) \/ UserIo(t)
  BY <1>1, FetchStep, AcquireMainStep, AcquirePgioStep, CopyStep, CloseIrpContextStep, AcquireSectionStep DEF UserIo
<1>2. CASE PagingIo(t)
  BY <1>2, ReadPagingIOStep, TestPgioHeldStep, AcquirePgioExclusiveStep, WritePageStep, ClosePagingStep DEF PagingIo
<1>3. CASE CcFlush(t)
  BY <1>3, AcquireCcFlush_MainStep, AcquireCcFlush_MainFlagStep, AcquireCcFlush_TestStep, AcquireCcFlush_PgioStep,
     AcquireCcFlush_PgioFlagStep, ReleaseCcFlush_MainStep, ReleaseCcFlush_ClearMainStep, ReleaseCcFlush_PgioStep,
     ReleaseCcFlush_ClearPgioStep, AwaitPagingStep DEF CcFlush
<1>4. CASE LazyWrite(t)
  BY <1>4, CcAcquireForLazyWrite_TestStep, CcAcquireForLazyWriteStep, CcAcquireForLazyWrite_FlagStep,
     CcReleaseFromLazyWriteStep, CcReleaseFromLazyWrite_ClearStep DEF LazyWrite
<1>5. CASE ReadAhead(t)
  BY <1>5, CcAcquireForReadAhead_TestStep, CcAcquireForReadAheadStep, CcAcquireForReadAhead_FlagStep,
     CcReleaseFromReadAheadStep, CcReleaseFromReadAhead_ClearStep DEF ReadAhead
<1>6. CASE ModWrite(t)
  BY <1>6, AcquireModWrite_ChooseStep, AcquireModWrite_MainStep, AcquireModWrite_PgioStep, AcquireModWrite_CheckStep,
     ReleaseModWriteStep DEF ModWrite
<1> QED
  BY <1>1, <1>2, <1>3, <1>4, <1>5, <1>6 DEF Step

LEMMA FirstLabels == \A j \in AllJobs : At(j, FirstLabel[j]) /\ FirstLabel[j] \in
    {"main", "ccMain", "lazyTest", "aheadTest", "modTest", "section"} /\ (j = "flush" => FirstLabel[j] = "main")
BY DEF FirstLabel, AllJobs, At, CcLabels

LEMMA StartSteps == ASSUME Basic, NEW t \in Threads, NEW j \in Jobs, Start(t, j) PROVE StepOf(t)
<1>0. Types /\ Place(t) /\ P \in Resources /\ M \in Resources /\ P # M /\ j \in AllJobs
  BY TwoResources, LockAssumption DEF Basic
<1>1. job[t] = "none" /\ pc[t] = "idle"
  BY <1>0 DEF Start, Place, At, CcLabels, WriteLabels
<1>2. /\ job'[t] = j /\ pc'[t] = FirstLabel[j]
      /\ UNCHANGED << owner, exclusive, flags, fetched, status, nested, toRelease, fault, crossed >>
  BY <1>0 DEF Start, Types
<1>3. ThreadMoves(t)
  <2>1. started' \in 0 .. MaxJobs
    BY <1>0, LockAssumption DEF Start, Types
  <2> QED
    BY <1>0, <1>2, <2>1 DEF Start, ThreadMoves, Types
<1>4. Held(t)
  BY <1>2, SameHeld
<1>5. FlagsWord
  BY <1>2, SameWord
<1>6. /\ At(j, FirstLabel[j]) /\ (j = "flush" => FirstLabel[j] = "main")
      /\ FirstLabel[j] \in {"main", "ccMain", "lazyTest", "aheadTest", "modTest", "section"}
  BY <1>0, FirstLabels
<1>7. Place(t)'
  BY <1>0, <1>1, <1>2, <1>6 DEF Place, MappedHolds, WriteLabels
<1>8. ~PgioRegion(j, FirstLabel[j]) /\ ~MainRegion(j, FirstLabel[j]) /\ FirstLabel[j] \notin PgioClearing \cup MainClearing
  BY <1>6 DEF PgioRegion, MainRegion, PgioClearing, MainClearing, WriteLabels
<1>9. ~PgioRegion(job[t], pc[t]) /\ ~MainRegion(job[t], pc[t]) /\ pc[t] \notin PgioClearing \cup MainClearing
  BY <1>1 DEF PgioRegion, MainRegion, PgioClearing, MainClearing, WriteLabels, Flushes
<1>10. Backs(t) /\ Owns(t)
  BY <1>2, <1>8, <1>9 DEF Backs, Owns, PgioBehind, MainBehind, PgioMine, MainMine
<1>11. ASSUME Undisturbed PROVE fault' # "not_owner" /\ Counts(t)'
  <2>1. Counts(t) /\ fault # "not_owner"
    BY <1>11 DEF Undisturbed, Orderly
  <2>2. FirstLabel[j] = "main" \/ FirstLabel[j] = "section" \/ j \notin UserJobs \cup {"flush"}
    BY <1>6 DEF At, UserJobs, CcLabels, WriteLabels
  <2>3. ~PgioHeldBy(j, FirstLabel[j]) /\ ~MainHeldBy(j, FirstLabel[j]) /\ ~PgioHeldBy(job[t], pc[t]) /\ ~MainHeldBy(job[t], pc[t])
    BY <1>1, <1>6, <1>8, <1>9 DEF PgioHeldBy, MainHeldBy, Flushes
  <2>4. M \notin status[t] /\ P \notin status[t] /\ nested[t] = {} /\ toRelease[t] = "none"
    BY <1>0, <1>1, <2>1 DEF Counts, UserJobs, Place
  <2> QED
    BY <1>2, <2>1, <2>2, <2>3, <2>4 DEF Counts, Bit, P, M
<1> QED
  BY <1>3, <1>4, <1>5, <1>7, <1>10, <1>11 DEF StepOf

-----------------------------------------------------------------------------
(* The invariant is kept. *)

LEMMA BasicKept == ASSUME Basic, NEW t \in Threads, StepOf(t) PROVE Basic'
<1>1. Types'
  BY DEF StepOf, ThreadMoves, Held, OwnTypes, FlagsWord, Types
<1>2. Exclusion'
  BY DEF StepOf, Held
<1>3. ExclusiveHeld'
  <2> SUFFICES ASSUME NEW r \in Resources, exclusive'[r] PROVE \E u \in Threads : owner'[r][u] > 0
    BY DEF ExclusiveHeld
  <2>1. CASE owner'[r][t] > 0
    BY <2>1
  <2>2. CASE exclusive[r] /\ owner[r][t] = 0
    <3>1. PICK u \in Threads : owner[r][u] > 0
      BY <2>2 DEF Basic, ExclusiveHeld
    <3>2. u # t
      BY <2>2, <3>1
    <3>3. owner'[r][u] = owner[r][u]
      BY <3>2 DEF StepOf, Held
    <3> QED
      BY <3>1, <3>3
  <2> QED
    BY <2>1, <2>2 DEF StepOf, Held
<1>4. ASSUME NEW u \in Threads PROVE Place(u)'
  <2>1. CASE u = t
    BY <2>1 DEF StepOf
  <2>2. CASE u # t
    <3>1. Place(u)
      BY DEF Basic
    <3>2. /\ job'[u] = job[u] /\ pc'[u] = pc[u] /\ status'[u] = status[u]
          /\ nested'[u] = nested[u] /\ toRelease'[u] = toRelease[u]
          /\ owner'[P][u] = owner[P][u] /\ owner'[M][u] = owner[M][u]
      BY <2>2, TwoResources DEF StepOf, ThreadMoves, Held
    <3> QED
      BY <3>1, <3>2 DEF Place
  <2> QED
    BY <2>1, <2>2
<1> QED
  BY <1>1, <1>2, <1>3, <1>4 DEF Basic

(* Nothing of what concerns the flags changes for the others. *)
LEMMA OthersSame ==
  ASSUME NEW t \in Threads, StepOf(t), NEW u \in Threads, u # t
  PROVE  /\ PgioMine(u)' = PgioMine(u) /\ MainMine(u)' = MainMine(u)
         /\ PgioBehind(u)' = PgioBehind(u) /\ MainBehind(u)' = MainBehind(u)
<1>1. /\ job'[u] = job[u] /\ pc'[u] = pc[u] /\ nested'[u] = nested[u]
      /\ owner'[P][u] = owner[P][u] /\ owner'[M][u] = owner[M][u]
  BY TwoResources DEF StepOf, ThreadMoves, Held
<1> QED
  BY <1>1 DEF PgioMine, MainMine, PgioBehind, MainBehind

LEMMA BackedKept == ASSUME Backed, NEW t \in Threads, StepOf(t), "torn" \notin crossed' PROVE Backed'
<1>0. Backs(t)
  BY DEF StepOf
<1>1. ASSUME flags' \cap PgioFlags # {} PROVE \E u \in Threads : PgioBehind(u)'
  <2>1. CASE PgioBehind(t)'
    BY <2>1
  <2>2. CASE flags \cap PgioFlags # {} /\ ~PgioBehind(t)
    <3>1. PICK u \in Threads : PgioBehind(u)
      BY <2>2 DEF Backed
    <3>2. u # t
      BY <2>2, <3>1
    <3> QED
      BY <3>1, <3>2, OthersSame
  <2> QED
    BY <1>0, <1>1, <2>1, <2>2 DEF Backs
<1>2. ASSUME flags' \cap MainFlags # {} PROVE \E u \in Threads : MainBehind(u)'
  <2>1. CASE MainBehind(t)'
    BY <2>1
  <2>2. CASE flags \cap MainFlags # {} /\ ~MainBehind(t)
    <3>1. PICK u \in Threads : MainBehind(u)
      BY <2>2 DEF Backed
    <3>2. u # t
      BY <2>2, <3>1
    <3> QED
      BY <3>1, <3>2, OthersSame
  <2> QED
    BY <1>0, <1>2, <2>1, <2>2 DEF Backs
<1> QED
  BY <1>1, <1>2 DEF Backed

LEMMA OwnedKept == ASSUME FlagsOwned, NEW t \in Threads, StepOf(t), Owns(t) PROVE FlagsOwned'
<1>0. \A u \in Threads : u # t => (PgioMine(u)' = PgioMine(u)) /\ (MainMine(u)' = MainMine(u))
  BY OthersSame
<1>1. /\ flags' \cap PgioFlags # {} <=> \E u \in Threads : PgioMine(u)'
      /\ \A u, v \in Threads : PgioMine(u)' /\ PgioMine(v)' => u = v
  <2>1. /\ flags \cap PgioFlags # {} <=> \E u \in Threads : PgioMine(u)
        /\ \A u, v \in Threads : PgioMine(u) /\ PgioMine(v) => u = v
    BY DEF FlagsOwned
  <2>2. /\ PgioMine(t)' /\ ~PgioMine(t) => flags \cap PgioFlags = {} /\ flags' \cap PgioFlags # {}
        /\ PgioMine(t) /\ ~PgioMine(t)' => flags' \cap PgioFlags = {}
        /\ (PgioMine(t) <=> PgioMine(t)') => (flags' \cap PgioFlags = {} <=> flags \cap PgioFlags = {})
    BY DEF Owns
  <2> QED
    BY ONLY <1>0, <2>1, <2>2, t \in Threads
<1>2. /\ flags' \cap MainFlags # {} <=> \E u \in Threads : MainMine(u)'
      /\ \A u, v \in Threads : MainMine(u)' /\ MainMine(v)' => u = v
  <2>1. /\ flags \cap MainFlags # {} <=> \E u \in Threads : MainMine(u)
        /\ \A u, v \in Threads : MainMine(u) /\ MainMine(v) => u = v
    BY DEF FlagsOwned
  <2>2. /\ MainMine(t)' /\ ~MainMine(t) => flags \cap MainFlags = {} /\ flags' \cap MainFlags # {}
        /\ MainMine(t) /\ ~MainMine(t)' => flags' \cap MainFlags = {}
        /\ (MainMine(t) <=> MainMine(t)') => (flags' \cap MainFlags = {} <=> flags \cap MainFlags = {})
    BY DEF Owns
  <2> QED
    BY ONLY <1>0, <2>1, <2>2, t \in Threads
<1> QED
  BY <1>1, <1>2 DEF FlagsOwned

LEMMA OrderlyKept == ASSUME Basic, Orderly, NEW t \in Threads, StepOf(t), crossed' = {} PROVE Orderly'
<1>1. fault' # "not_owner" /\ Counts(t)' /\ Owns(t)
  BY DEF StepOf, Undisturbed
<1>2. FlagsOwned'
  BY <1>1, OwnedKept DEF Orderly
<1>3. ASSUME NEW u \in Threads, u # t PROVE Counts(u)'
  <2>1. Counts(u)
    BY DEF Orderly
  <2>2. /\ job'[u] = job[u] /\ pc'[u] = pc[u] /\ status'[u] = status[u]
        /\ nested'[u] = nested[u] /\ toRelease'[u] = toRelease[u]
        /\ owner'[P][u] = owner[P][u] /\ owner'[M][u] = owner[M][u]
    BY <1>3, TwoResources DEF StepOf, ThreadMoves, Held
  <2>3. toRelease[u] = M => exclusive'[M]
    <3>1. toRelease[u] = M => exclusive[M] /\ owner[M][u] > 0
      BY <2>1 DEF Counts, Bit
    <3> QED
      BY <1>3, <3>1, TwoResources DEF StepOf, Held
  <2> QED
    BY <2>1, <2>2, <2>3 DEF Counts
<1> QED
  BY <1>1, <1>2, <1>3 DEF Orderly

LEMMA NextKeeps == ASSUME Inv, [Next]_vars PROVE Inv'
<1>1. ASSUME NEW t \in Threads, StepOf(t) PROVE Inv'
  <2>1. Basic /\ crossed \subseteq crossed'
    BY <1>1 DEF Inv, StepOf, FlagsWord
  <2>2. Basic'
    BY <1>1, <2>1, BasicKept
  <2>3. crossed' = {} => Orderly'
    BY <1>1, <2>1, OrderlyKept DEF Inv
  <2>4. "torn" \notin crossed' => Backed'
    BY <1>1, <2>1, BackedKept DEF Inv
  <2> QED
    BY <2>2, <2>3, <2>4 DEF Inv
<1>2. CASE UNCHANGED vars
  <2>1. Basic /\ Basic'
    BY <1>2 DEF Inv, vars, Basic, Types, Exclusion, ExclusiveHeld, Place
  <2>2. (Orderly <=> Orderly') /\ crossed' = crossed
    BY <1>2 DEF vars, Orderly, FlagsOwned, Counts, PgioMine, MainMine
  <2>3. Backed <=> Backed'
    BY <1>2 DEF vars, Backed, PgioBehind, MainBehind
  <2> QED
    BY <2>1, <2>2, <2>3 DEF Inv
<1>3. ASSUME NEW t \in Threads, NEW j \in Jobs, Start(t, j) PROVE Inv'
  BY <1>1, <1>3, StartSteps DEF Inv
<1>4. ASSUME NEW t \in Threads, Step(t) PROVE Inv'
  BY <1>1, <1>4, StepSteps DEF Inv
<1> QED
  BY <1>2, <1>3, <1>4 DEF Next, Stopped

LEMMA InitInv == ASSUME Init PROVE Inv
<1>1. Types
  BY LockAssumption DEF Init, Types
<1>2. Exclusion /\ ExclusiveHeld /\ \A t \in Threads : Place(t)
  BY TwoResources DEF Init, Exclusion, ExclusiveHeld, Place, At, MappedHolds, WriteLabels, M, P
<1>3. \A t \in Threads : ~PgioMine(t) /\ ~MainMine(t)
  BY DEF Init, PgioMine, MainMine, PgioRegion, MainRegion, PgioClearing, MainClearing, Flushes
<1>4. \A t \in Threads : Counts(t)
  BY TwoResources DEF Init, Counts, Bit, PgioHeldBy, MainHeldBy, PgioRegion, MainRegion, UserJobs, Flushes, P, M
<1>5. Orderly /\ Backed
  BY <1>3, <1>4 DEF Init, Orderly, FlagsOwned, Backed
<1> QED
  BY <1>1, <1>2, <1>5 DEF Inv, Basic

-----------------------------------------------------------------------------
(* What follows from it. *)

LEMMA OrderlyKeepsLocks == ASSUME Basic, Orderly PROVE ReleasedByOwner /\ IdleHoldsNothing /\ PagingWriteLocked
<1>1. ReleasedByOwner
  BY DEF Orderly, ReleasedByOwner
<1>2. ASSUME NEW t \in Threads, pc[t] = "idle" PROVE Holds(t) = {}
  <2>0. Counts(t) /\ Place(t)
    BY DEF Basic, Orderly
  <2>1. job[t] = "none"
    BY <1>2, <2>0 DEF Place, At, CcLabels, WriteLabels
  <2>2. owner[P][t] = 0 /\ owner[M][t] = 0
    BY <1>2, <2>0, <2>1 DEF Place, Counts, UserJobs, PgioHeldBy, MainHeldBy, PgioRegion, MainRegion, Flushes, Bit, P, M
  <2> QED
    BY <2>2, TwoResources DEF Holds
<1>3. ASSUME NEW t \in Threads, pc[t] = "writing"
      PROVE  owner[P][t] > 0 \/ (owner[M][t] > 0 /\ exclusive[M])
  <2>0. Counts(t) /\ Place(t)
    BY DEF Basic, Orderly
  <2>1. job[t] \in {"lazy", "flush", "ccflush", "mapped"}
    BY <1>3, <2>0 DEF Place, At
  <2>2. CASE job[t] = "mapped"
    <3>1. toRelease[t] \in {P, M}
      BY <1>3, <2>0, <2>2 DEF Place, MappedHolds, WriteLabels
    <3> QED
      BY <2>0, <3>1 DEF Counts, Bit
  <2>3. CASE job[t] # "mapped"
    <3>1. Bit(PgioHeldBy(job[t], pc[t])) = 1
      BY <1>3, <2>1, <2>3 DEF Bit, PgioHeldBy, PgioRegion, WriteLabels, Flushes
    <3>2. owner[P][t] = Bit(P \in status[t]) + Bit(nested[t] # {}) + 1 + Bit(toRelease[t] = P)
      BY <2>0, <3>1 DEF Counts
    <3>3. Bit(P \in status[t]) \in 0..1 /\ Bit(nested[t] # {}) \in 0..1 /\ Bit(toRelease[t] = P) \in 0..1
      BY DEF Bit
    <3> HIDE DEF Bit
    <3> QED
      BY <3>2, <3>3
  <2> QED
    BY <2>2, <2>3
<1> QED
  BY <1>1, <1>2, <1>3 DEF IdleHoldsNothing, PagingWriteLocked, P, M

LEMMA BasicTyped == ASSUME Basic PROVE TypeOK
<1>1. ASSUME NEW r \in Resources, exclusive[r] PROVE Cardinality({t \in Threads : owner[r][t] > 0}) = 1
  <2>1. PICK t \in Threads : owner[r][t] > 0
    BY <1>1 DEF Basic, ExclusiveHeld
  <2>2. {u \in Threads : owner[r][u] > 0} = {t}
    BY <1>1, <2>1 DEF Basic, Exclusion
  <2> QED
    BY <2>2, FS_Singleton
<1>2. ASSUME NEW t \in Threads
      PROVE  /\ job[t] \in AllJobs \cup {"none"} /\ pc[t] \in Labels /\ status[t] \in SUBSET Resources
             /\ nested[t] \in SUBSET Resources /\ toRelease[t] \in Resources \cup {"none"}
  <2>1. Place(t)
    BY DEF Basic
  <2>2. job[t] \in AllJobs \cup {"none"} /\ pc[t] \in Labels
    BY <2>1 DEF Place, At, CcLabels, WriteLabels, AllJobs, Labels
  <2> QED
    BY <2>1, <2>2, TwoResources DEF Place
<1>3. /\ job \in [Threads -> AllJobs \cup {"none"}] /\ pc \in [Threads -> Labels]
      /\ status \in [Threads -> SUBSET Resources] /\ nested \in [Threads -> SUBSET Resources]
      /\ toRelease \in [Threads -> Resources \cup {"none"}]
  BY <1>2 DEF Basic, Types
<1> QED
  BY <1>1, <1>3 DEF Basic, Types, TypeOK

(* Whatever number of threads reads, writes, sizes, maps and flushes the file  *)
(* beside lazy writers, read-aheads and the mapped page writer: what is        *)
(* acquired exclusively has one owner, and until two threads have used the     *)
(* flags of one resource no callback releases what it does not hold, none      *)
(* keeps anything, and a page is written under a lock.                         *)
THEOREM LocksAreKept == Spec => []LocksKept
<1>1. Init => Inv
  BY InitInv
<1>2. Inv /\ [Next]_vars => Inv'
  BY NextKeeps
<1>3. Inv => LocksKept
  BY BasicTyped, OrderlyKeepsLocks DEF Inv, LocksKept
<1> QED
  BY <1>1, <1>2, <1>3, PTL DEF Spec

(* While the flags say that a resource is held a thread holds it, or has just  *)
(* released it and is about to clear them: also when two threads use them,     *)
(* until one writes them back over a change.                                   *)
THEOREM FlagsTellTruth == Spec => []FlagsTruthful
<1>1. Init => Inv
  BY InitInv
<1>2. Inv /\ [Next]_vars => Inv'
  BY NextKeeps
<1>3. ASSUME Inv PROVE FlagsTruthful
  <2>1. SUFFICES ASSUME "torn" \notin crossed, \A t \in Threads : pc[t] \notin Clearing
                 PROVE  /\ flags \cap PgioFlags # {} => \E t \in Threads : owner[P][t] > 0
                        /\ flags \cap MainFlags # {} => \E t \in Threads : owner[M][t] > 0
    BY DEF FlagsTruthful, P, M
  <2>2. Backed /\ Types
    BY <1>3, <2>1 DEF Inv, Basic
  <2>3. \A t \in Threads : /\ PgioBehind(t) => owner[P][t] > Bit(nested[t] # {})
                           /\ MainBehind(t) => owner[M][t] > 0
    BY <2>1 DEF PgioBehind, MainBehind, PgioClearing, MainClearing, Clearing
  <2>4. \A t \in Threads : PgioBehind(t) => owner[P][t] > 0
    BY <2>2, <2>3, TwoResources DEF Bit, Types
  <2> QED
    BY <2>2, <2>3, <2>4 DEF Backed
<1> QED
  BY <1>1, <1>2, <1>3, PTL DEF Spec

-----------------------------------------------------------------------------
(* The FCBs of one file (PrivateFcb), for any set of opens, of answers of the client and of calls
   that fail.  A step of an open is of one of seven kinds, and each kind keeps FcbInv:
     Crashes    a null pointer is used;
     Moves      the open goes on and still has no FCB, or ends without one;
     Joins      it is given the FCB in the list, and the counts are raised;
     Publishes  it inserts an FCB of its own, or fails to and leaves it behind;
     Cleans     its handle is closed;
     Lowers     its file object is closed and others use the FCB;
     Frees      its file object is closed, and the FCB is unlinked and freed. *)

OpenRecords == [pc : {"idle", "status", "ask", "lower", "publish", "open", "cleaned", "closed", "failed",
                      "passed", "phantom"},
                disp : Dispositions, doc : BOOLEAN, fcb : Opens \cup {None},
                lower : {"none", "held", "leaked"}, ccb : BOOLEAN]
FcbRecords == [state : {"none", "listed", "orphan", "freed"}, opn : Nat, cln : Nat, ref : Nat,
               sfo : BOOLEAN, doc : BOOLEAN]

Calm == exists' \in BOOLEAN /\ pending' = pending /\ crashed' = crashed
Explained == causes \subseteq causes' /\ causes' \subseteq Faults \cup {"raced", "reopened"}

Crashes(o) ==
    /\ crashed' = TRUE /\ (op[o].doc \/ "ccb" \in causes)
    /\ UNCHANGED << fcb, vcb, op, exists, pending, causes >>

(* An open goes on, and has no FCB yet. *)
Moves(o, v) ==
    /\ op[o].pc \in {"idle"} \cup Creating /\ v.pc \notin {"idle"} \cup InUse
    /\ v.pc \in Creating => \/ op[o].pc \in Creating
                            \/ vcb = <<>> /\ ("raced" \in causes' \/ \A u \in Opens \ {o} : op[u].pc \notin Creating)
    /\ op[o].pc = "idle" \/ v.doc = op[o].doc
    /\ op[o].lower # "none" => v.lower # "none"
    /\ v.lower # "none" => v.pc = "publish" \/ causes' # {}
    /\ v \in OpenRecords /\ op' = [op EXCEPT ![o] = v]
    /\ Calm /\ Explained /\ UNCHANGED << fcb, vcb >>

(* It is given the FCB in the list. *)
Joins(o, v, d) ==
    /\ op[o].pc = "idle" /\ vcb # <<>> /\ v.fcb = Head(vcb) /\ v.pc \in {"open", "passed"}
    /\ v.pc = "passed" => "mapped" \in causes'
    /\ v.pc = "open" => v.ccb \/ "ccb" \in causes'
    /\ d \in BOOLEAN /\ d => v.doc
    /\ v.lower # "none" /\ v \in OpenRecords
    /\ op' = [op EXCEPT ![o] = v] /\ fcb' = Counted(Head(vcb), d)
    /\ Calm /\ Explained /\ vcb' = vcb

Cleans(o) ==
    LET fcbs == Cleaned(op[o].fcb)
        ops == [op EXCEPT ![o] = [@ EXCEPT !.pc = "cleaned", !.lower = "none"]]
    IN /\ op[o].pc = "open"
       /\ fcb' = fcbs /\ op' = ops
       /\ Settle(ops, fcbs, pending \/ op[o].doc)
       /\ UNCHANGED << vcb, crashed, causes >>

ClosedOpen(o) == [op EXCEPT ![o] = [@ EXCEPT !.pc = "closed", !.fcb = None, !.ccb = FALSE]]

Lowers(o) ==
    LET f == op[o].fcb
        fcbs == [fcb EXCEPT ![f].opn = @ - 1, ![f].ref = @ - 1]
    IN /\ op[o].pc = "cleaned" /\ fcb[f].ref # 1
       /\ crashed' = FALSE /\ op' = ClosedOpen(o) /\ fcb' = fcbs
       /\ Settle(ClosedOpen(o), fcbs, pending)
       /\ UNCHANGED << vcb, causes >>

Frees(o) ==
    LET f == op[o].fcb
        fcbs == [fcb EXCEPT ![f] = [NoFcb EXCEPT !.state = "freed"]]
    IN /\ op[o].pc = "cleaned" /\ fcb[f].ref = 1
       /\ crashed' = ~fcb[f].sfo /\ op' = ClosedOpen(o) /\ fcb' = fcbs /\ vcb' = Unlinked(f)
       /\ Settle(ClosedOpen(o), fcbs, pending)
       /\ UNCHANGED causes

LEMMA ExistingKinds ==
  ASSUME FcbInv, NEW o \in Opens, op[o].pc = "idle", Vcb_SearchFCB # None,
         NEW d \in Dispositions, NEW doc \in BOOLEAN, CreateFileExistFCB(o, Vcb_SearchFCB, d, doc)
  PROVE  \E v \in OpenRecords : Moves(o, v) \/ \E b \in BOOLEAN : Joins(o, v, b)
<1> USE FcbAssumption
<1> DEFINE f == Vcb_SearchFCB
<1>t. op \in [Opens -> OpenRecords] /\ causes \subseteq Faults \cup {"raced", "reopened"}
  BY DEF FcbInv, FcbTypeOK, OpenRecords
<1>n. op[o] = NewOp
  BY DEF FcbInv, OpenShape
<1>1. CASE Refused(o, d, doc)
  <2> DEFINE v == [op[o] EXCEPT !.pc = "passed", !.disp = d, !.doc = doc]
  <2>1. v \in OpenRecords
    BY <1>t DEF OpenRecords, Dispositions
  <2>4. v.pc = "passed" /\ v.lower = "none"
    BY <1>t, <1>n DEF OpenRecords, NewOp
  <2>2. Explained
    BY <1>1, <1>t DEF Refused, Explained
  <2>3. op' = [op EXCEPT ![o] = v] /\ Calm /\ UNCHANGED << fcb, vcb >>
    BY <1>1 DEF Refused, Calm, FcbInv, FcbTypeOK
  <2> QED
    BY <1>n, <2>1, <2>2, <2>3, <2>4 DEF Moves, NewOp, Creating, InUse
<1>2. CASE /\ ~Openable(d)
           /\ op' = [op EXCEPT ![o] = [@ EXCEPT !.pc = "failed", !.disp = d, !.doc = doc]]
           /\ UNCHANGED << fcb, vcb, exists, pending, crashed, causes >>
  <2> DEFINE v == [op[o] EXCEPT !.pc = "failed", !.disp = d, !.doc = doc]
  <2>1. v \in OpenRecords
    BY <1>t DEF OpenRecords, Dispositions
  <2>4. v.pc = "failed" /\ v.lower = "none"
    BY <1>t, <1>n DEF OpenRecords, NewOp
  <2>2. Explained
    BY <1>2, <1>t DEF Explained
  <2>3. op' = [op EXCEPT ![o] = v] /\ Calm /\ UNCHANGED << fcb, vcb >>
    BY <1>2 DEF Calm, FcbInv, FcbTypeOK
  <2> QED
    BY <1>n, <2>1, <2>2, <2>3, <2>4 DEF Moves, NewOp, Creating, InUse
<1>3. CASE /\ Openable(d) /\ exists' = TRUE
           /\ \E ccb \in {TRUE} \cup {FALSE : x \in Faults \cap {"ccb"}},
                 mapped \in {FALSE} \cup {TRUE : x \in Faults \cap {"mapped"}} :
                 /\ mapped => d = "overwrite"
                 /\ op' = [op EXCEPT ![o] =
                       [pc |-> IF mapped THEN "passed" ELSE "open", disp |-> d, doc |-> doc, fcb |-> f, ccb |-> ccb,
                        lower |-> IF ccb /\ ~mapped THEN "held" ELSE "leaked"]]
                 /\ fcb' = Counted(f, doc /\ ~mapped)
                 /\ causes' = causes \cup {x \in {"ccb"} : ~ccb} \cup {x \in {"mapped"} : mapped}
                               \cup {x \in {"reopened"} : ~fcb[f].sfo}
           /\ UNCHANGED << vcb, pending, crashed >>
  <2>1. PICK ccb \in {TRUE} \cup {FALSE : x \in Faults \cap {"ccb"}},
                 mapped \in {FALSE} \cup {TRUE : x \in Faults \cap {"mapped"}} :
                 /\ op' = [op EXCEPT ![o] =
                       [pc |-> IF mapped THEN "passed" ELSE "open", disp |-> d, doc |-> doc, fcb |-> f, ccb |-> ccb,
                        lower |-> IF ccb /\ ~mapped THEN "held" ELSE "leaked"]]
                 /\ fcb' = Counted(f, doc /\ ~mapped)
                 /\ causes' = causes \cup {x \in {"ccb"} : ~ccb} \cup {x \in {"mapped"} : mapped}
                               \cup {x \in {"reopened"} : ~fcb[f].sfo}
    BY <1>3
  <2> DEFINE v == [pc |-> IF mapped THEN "passed" ELSE "open", disp |-> d, doc |-> doc, fcb |-> f, ccb |-> ccb,
                   lower |-> IF ccb /\ ~mapped THEN "held" ELSE "leaked"]
  <2>2. ccb \in BOOLEAN /\ mapped \in BOOLEAN
    OBVIOUS
  <2>3. (~ccb => "ccb" \in Faults) /\ (mapped => "mapped" \in Faults)
    OBVIOUS
  <2>4. vcb # <<>> /\ f = Head(vcb) /\ vcb \in Seq(Opens)
    BY DEF Vcb_SearchFCB, FcbInv, FcbTypeOK
  <2>5. f \in Opens
    BY <2>4, HeadTailProperties
  <2>6. v \in OpenRecords
    BY <2>2, <2>5 DEF OpenRecords
  <2>7. Explained
    BY <2>1, <2>3, <1>t DEF Explained
  <2>8. Calm /\ vcb' = vcb
    BY <1>3 DEF Calm
  <2>9. Joins(o, v, doc /\ ~mapped)
    <3>1. v.fcb = f /\ v.pc \in {"open", "passed"} /\ v.lower # "none" /\ (v.pc = "passed" <=> mapped)
            /\ v.ccb = ccb /\ v.doc = doc
      BY <2>2
    <3>2. (mapped => "mapped" \in causes') /\ (~ccb => "ccb" \in causes')
      BY <2>1
    <3>3. op' = [op EXCEPT ![o] = v] /\ fcb' = Counted(Head(vcb), doc /\ ~mapped)
      BY <2>1, <2>4
    <3> QED
      BY <2>2, <2>4, <2>6, <2>7, <2>8, <3>1, <3>2, <3>3 DEF Joins
  <2> QED
    BY <2>2, <2>6, <2>9
<1> QED
  BY <1>1, <1>2, <1>3 DEF CreateFileExistFCB

Publishes(o) ==
    /\ op[o].pc = "publish"
    /\ Publish(o) \/ \E call \in Faults, sfo \in BOOLEAN : PublishFails(o, call, sfo)

FcbKinds(o) ==
    \/ Crashes(o) \/ Publishes(o) \/ Cleans(o) \/ Lowers(o) \/ Frees(o)
    \/ \E v \in OpenRecords : Moves(o, v) \/ \E d \in BOOLEAN : Joins(o, v, d)

LEMMA EndMoves ==
  ASSUME FcbInv, ~crashed, NEW o \in Opens, NEW x \in {"failed", "phantom"}, op[o].pc \in {"status", "ask"},
         EndWithoutFcb(o, x), UNCHANGED << fcb, vcb, exists, pending, causes >>
  PROVE  Crashes(o) \/ \E v \in OpenRecords : Moves(o, v)
<1>t. op \in [Opens -> OpenRecords] /\ causes \subseteq Faults \cup {"raced", "reopened"}
  BY DEF FcbInv, FcbTypeOK, OpenRecords
<1>1. CASE op[o].doc
  BY <1>1 DEF EndWithoutFcb, Crashes
<1>2. CASE ~op[o].doc
  <2> DEFINE v == [op[o] EXCEPT !.pc = x]
  <2>1. v \in OpenRecords /\ v.pc = x /\ v.lower = op[o].lower /\ v.doc = op[o].doc
    BY <1>t DEF OpenRecords
  <2>2. v.lower # "none" => causes # {}
    BY <2>1 DEF FcbInv, OpenShape
  <2>3. Calm /\ Explained /\ UNCHANGED << fcb, vcb >> /\ op' = [op EXCEPT ![o] = v]
    BY <1>2, <1>t DEF EndWithoutFcb, Calm, Explained, FcbInv, FcbTypeOK
  <2>4. Moves(o, v)
    <3> HIDE DEF v
    <3> QED
      BY <2>1, <2>2, <2>3 DEF Moves, Creating, InUse
  <2> QED
    BY <2>1, <2>4
<1> QED
  BY <1>1, <1>2

LEMMA CreateMoves ==
  ASSUME FcbInv, ~crashed, NEW o \in Opens,
         FilterPreCreate(o) \/ GetFileStatus(o) \/ CheckEventFileCreateTo(o) \/ OpenLowerFile(o)
  PROVE  FcbKinds(o)
<1>t. op \in [Opens -> OpenRecords] /\ causes \subseteq Faults \cup {"raced", "reopened"}
  BY DEF FcbInv, FcbTypeOK, OpenRecords
<1>s. OpenShape(o)
  BY DEF FcbInv
<1>1. CASE FilterPreCreate(o)
  <2>1. op[o].pc = "idle"
    BY <1>1 DEF FilterPreCreate
  <2>2. PICK d \in Dispositions, doc \in BOOLEAN :
          \/ Vcb_SearchFCB # None /\ CreateFileExistFCB(o, Vcb_SearchFCB, d, doc)
          \/ /\ Vcb_SearchFCB = None
             /\ op' = [op EXCEPT ![o] = [@ EXCEPT !.pc = "status", !.disp = d, !.doc = doc]]
             /\ causes' = causes \cup {x \in {"raced"} : Racing(o)}
             /\ UNCHANGED << fcb, vcb, exists, pending, crashed >>
    BY <1>1 DEF FilterPreCreate
  <2>3. CASE Vcb_SearchFCB # None /\ CreateFileExistFCB(o, Vcb_SearchFCB, d, doc)
    BY <2>1, <2>3, ExistingKinds DEF FcbKinds
  <2>4. CASE /\ Vcb_SearchFCB = None
             /\ op' = [op EXCEPT ![o] = [@ EXCEPT !.pc = "status", !.disp = d, !.doc = doc]]
             /\ causes' = causes \cup {x \in {"raced"} : Racing(o)}
             /\ UNCHANGED << fcb, vcb, exists, pending, crashed >>
    <3> DEFINE v == [op[o] EXCEPT !.pc = "status", !.disp = d, !.doc = doc]
    <3>1. v \in OpenRecords
      BY <1>t DEF OpenRecords, Dispositions
    <3>2. v.pc = "status" /\ v.lower = "none" /\ op[o].lower = "none"
      BY <1>t, <1>s, <2>1 DEF OpenRecords, NewOp, OpenShape
    <3>3. Calm /\ Explained /\ UNCHANGED << fcb, vcb >> /\ op' = [op EXCEPT ![o] = v]
      BY <2>4, <1>t DEF Calm, Explained, FcbInv, FcbTypeOK
    <3>4. vcb = <<>>
      <4>1. vcb # <<>> => Head(vcb) \in Opens
        BY HeadTailProperties DEF FcbInv, FcbTypeOK
      <4> QED
        BY <2>4, <4>1, FcbAssumption DEF Vcb_SearchFCB
    <3>5. "raced" \in causes' \/ \A u \in Opens \ {o} : op[u].pc \notin Creating
      BY <2>4 DEF Racing, Creating
    <3>6. Moves(o, v)
      <4> HIDE DEF v
      <4> QED
        BY <2>1, <3>1, <3>2, <3>3, <3>4, <3>5 DEF Moves, Creating, InUse
    <3> QED
      BY <3>1, <3>6 DEF FcbKinds
  <2> QED
    BY <2>2, <2>3, <2>4
<1>2. CASE GetFileStatus(o)
  <2>1. op[o].pc = "status" /\ UNCHANGED << fcb, vcb, exists, pending, causes >>
    BY <1>2 DEF GetFileStatus
  <2>2. CASE EndWithoutFcb(o, "failed")
    BY <2>1, <2>2, EndMoves DEF FcbKinds
  <2>3. CASE op' = [op EXCEPT ![o].pc = "ask"] /\ crashed' = crashed
    <3> DEFINE v == [op[o] EXCEPT !.pc = "ask"]
    <3>1. v \in OpenRecords /\ v.pc = "ask" /\ v.lower = op[o].lower /\ v.doc = op[o].doc
      BY <1>t DEF OpenRecords
    <3>2. v.lower # "none" => causes # {}
      BY <1>s, <2>1, <3>1 DEF OpenShape
    <3>3. Calm /\ Explained /\ op' = [op EXCEPT ![o] = v]
      BY <2>1, <2>3, <1>t DEF Calm, Explained, FcbInv, FcbTypeOK
    <3>4. Moves(o, v)
      <4> HIDE DEF v
      <4> QED
        BY <2>1, <3>1, <3>2, <3>3 DEF Moves, Creating, InUse
    <3> QED
      BY <3>1, <3>4 DEF FcbKinds
  <2> QED
    BY <1>2, <2>2, <2>3 DEF GetFileStatus
<1>3. CASE CheckEventFileCreateTo(o)
  <2>1. op[o].pc = "ask" /\ UNCHANGED << fcb, vcb, exists, pending, causes >>
    BY <1>3 DEF CheckEventFileCreateTo
  <2>2. ASSUME NEW x \in {"failed", "phantom"}, EndWithoutFcb(o, x)
        PROVE  FcbKinds(o)
    BY <2>1, <2>2, EndMoves DEF FcbKinds
  <2>3. ASSUME NEW x \in {"passed", "lower"}, op' = [op EXCEPT ![o].pc = x], crashed' = crashed
        PROVE  FcbKinds(o)
    <3> DEFINE v == [op[o] EXCEPT !.pc = x]
    <3>1. v \in OpenRecords /\ v.pc = x /\ v.lower = op[o].lower /\ v.doc = op[o].doc
      BY <1>t DEF OpenRecords
    <3>2. v.lower # "none" => causes # {}
      BY <1>s, <2>1, <3>1 DEF OpenShape
    <3>3. Calm /\ Explained /\ op' = [op EXCEPT ![o] = v]
      BY <2>1, <2>3, <1>t DEF Calm, Explained, FcbInv, FcbTypeOK
    <3>4. Moves(o, v)
      <4> HIDE DEF v
      <4> QED
        BY <2>1, <3>1, <3>2, <3>3 DEF Moves, Creating, InUse
    <3> QED
      BY <3>1, <3>4 DEF FcbKinds
  <2> QED
    BY <1>3, <2>2, <2>3 DEF CheckEventFileCreateTo
<1>4. CASE OpenLowerFile(o)
  <2>1. op[o].pc = "lower" /\ UNCHANGED << fcb, vcb, pending, crashed, causes >>
    BY <1>4 DEF OpenLowerFile
  <2>2. CASE exists' = TRUE /\ op' = [op EXCEPT ![o].pc = "publish", ![o].lower = "held"]
    <3> DEFINE v == [op[o] EXCEPT !.pc = "publish", !.lower = "held"]
    <3>1. v \in OpenRecords /\ v.pc = "publish" /\ v.lower = "held" /\ v.doc = op[o].doc
      BY <1>t DEF OpenRecords
    <3>2. op' = [op EXCEPT ![o] = v]
      BY <2>2
    <3>3. Calm /\ Explained
      BY <2>1, <2>2, <1>t DEF Calm, Explained, FcbInv, FcbTypeOK
    <3>4. Moves(o, v)
      <4> HIDE DEF v
      <4> QED
        BY <2>1, <3>1, <3>2, <3>3 DEF Moves, Creating, InUse
    <3> QED
      BY <3>1, <3>4 DEF FcbKinds
  <2>3. CASE exists' = exists /\ op' = [op EXCEPT ![o].pc = "failed"]
    <3> DEFINE v == [op[o] EXCEPT !.pc = "failed"]
    <3>1. v \in OpenRecords /\ v.pc = "failed" /\ v.lower = op[o].lower /\ v.doc = op[o].doc
      BY <1>t DEF OpenRecords
    <3>2. v.lower # "none" => causes # {}
      BY <1>s, <2>1, <3>1 DEF OpenShape
    <3>3. Calm /\ Explained /\ op' = [op EXCEPT ![o] = v]
      BY <2>1, <2>3, <1>t DEF Calm, Explained, FcbInv, FcbTypeOK
    <3>4. Moves(o, v)
      <4> HIDE DEF v
      <4> QED
        BY <2>1, <3>1, <3>2, <3>3 DEF Moves, Creating, InUse
    <3> QED
      BY <3>1, <3>4 DEF FcbKinds
  <2> QED
    BY <1>4, <2>2, <2>3 DEF OpenLowerFile
<1> QED
  BY <1>1, <1>2, <1>3, <1>4

LEMMA UseKinds ==
  ASSUME FcbInv, ~crashed, NEW o \in Opens,
         CreateFileNonExistFCB(o) \/ FilterPreCleanup(o) \/ FilterPreClose(o)
  PROVE  FcbKinds(o)
<1>t. op \in [Opens -> OpenRecords] /\ causes \subseteq Faults \cup {"raced", "reopened"} /\ crashed = FALSE
  BY DEF FcbInv, FcbTypeOK, OpenRecords
<1>s. OpenShape(o)
  BY DEF FcbInv
<1>1. CASE CreateFileNonExistFCB(o)
  <2>1. op[o].pc = "publish"
    BY <1>1 DEF CreateFileNonExistFCB
  <2>2. CASE PublishNoMemory(o)
    <3> DEFINE v == [op[o] EXCEPT !.pc = "failed", !.lower = "leaked"]
    <3>1. v \in OpenRecords /\ v.pc = "failed" /\ v.lower = "leaked" /\ v.doc = op[o].doc
      BY <1>t DEF OpenRecords
    <3>2. op' = [op EXCEPT ![o] = v]
      BY <2>2 DEF PublishNoMemory
    <3>3. Calm /\ Explained /\ causes' # {} /\ UNCHANGED << fcb, vcb >>
      BY <2>2, <1>t DEF PublishNoMemory, Calm, Explained, FcbInv, FcbTypeOK
    <3>4. Moves(o, v)
      <4> HIDE DEF v
      <4> QED
        BY <2>1, <3>1, <3>2, <3>3 DEF Moves, Creating, InUse
    <3> QED
      BY <3>1, <3>4 DEF FcbKinds
  <2> QED
    BY <1>1, <2>1, <2>2 DEF CreateFileNonExistFCB, FcbKinds, Publishes
<1>2. CASE FilterPreCleanup(o)
  <2>1. CASE op[o].ccb
    <3>1. [op EXCEPT ![o].pc = "cleaned", ![o].lower = "none"]
          = [op EXCEPT ![o] = [@ EXCEPT !.pc = "cleaned", !.lower = "none"]]
      OBVIOUS
    <3> QED
      BY <1>2, <2>1, <3>1 DEF FilterPreCleanup, Cleans, FcbKinds
  <2>2. CASE ~op[o].ccb
    BY <1>2, <2>2, <1>s DEF FilterPreCleanup, Crashes, FcbKinds, OpenShape
  <2> QED
    BY <2>1, <2>2
<1>3. CASE FilterPreClose(o)
  <2> DEFINE f == op[o].fcb
             counted == [fcb EXCEPT ![f].opn = @ - 1, ![f].ref = @ - 1]
             ops == [op EXCEPT ![o].pc = "closed", ![o].fcb = None, ![o].ccb = FALSE]
  <2>1. ops = ClosedOpen(o)
    BY DEF ClosedOpen
  <2>3. op[o].pc = "cleaned" /\ op' = ClosedOpen(o) /\ causes' = causes
    BY <1>3, <2>1 DEF FilterPreClose
  <2>4. CASE fcb[f].ref = 1
    <3>1. /\ crashed' = ~fcb[f].sfo /\ fcb' = [fcb EXCEPT ![f] = [NoFcb EXCEPT !.state = "freed"]]
          /\ vcb' = Unlinked(f) /\ Settle(ops, fcb', pending)
      BY <1>3, <2>4 DEF FilterPreClose
    <3> QED
      BY <2>1, <2>3, <2>4, <3>1 DEF Frees, FcbKinds
  <2>5. CASE fcb[f].ref # 1
    <3>1. crashed' = FALSE /\ fcb' = counted /\ vcb' = vcb /\ Settle(ops, fcb', pending)
      BY <1>3, <2>5 DEF FilterPreClose
    <3> QED
      BY <2>1, <2>3, <2>5, <3>1 DEF Lowers, FcbKinds
  <2> QED
    BY <2>4, <2>5
<1> QED
  BY <1>1, <1>2, <1>3

-----------------------------------------------------------------------------
(* How the sets of opens that use an FCB change when one open does.           *)
LEMMA UsingNext ==
  ASSUME NEW o \in Opens, op \in [Opens -> OpenRecords], NEW v, op' = [op EXCEPT ![o] = v], NEW f
  PROVE  /\ Using(f, InUse)' = IF v.fcb = f /\ v.pc \in InUse THEN Using(f, InUse) \cup {o} ELSE Using(f, InUse) \ {o}
         /\ Using(f, {"open"})' = IF v.fcb = f /\ v.pc = "open" THEN Using(f, {"open"}) \cup {o}
                                                              ELSE Using(f, {"open"}) \ {o}
<1>1. \A u \in Opens : op'[u] = IF u = o THEN v ELSE op[u]
  OBVIOUS
<1> QED
  BY <1>1 DEF Using, InUse

LEMMA UsingSame ==
  ASSUME NEW o \in Opens, op \in [Opens -> OpenRecords], NEW v, op' = [op EXCEPT ![o] = v], NEW f
  PROVE  /\ ((op[o].fcb = f /\ op[o].pc \in InUse) <=> (v.fcb = f /\ v.pc \in InUse)) =>
              Using(f, InUse)' = Using(f, InUse)
         /\ ((op[o].fcb = f /\ op[o].pc = "open") <=> (v.fcb = f /\ v.pc = "open")) =>
              Using(f, {"open"})' = Using(f, {"open"})
<1>1. \A u \in Opens : op'[u] = IF u = o THEN v ELSE op[u]
  OBVIOUS
<1> QED
  BY <1>1 DEF Using, InUse

(* What is said of the counts of one FCB carries over when it and the sets of *)
(* its opens stay.                                                            *)
CountsOf(f) == fcb[f].state = "listed" =>
    /\ fcb[f].ref >= 1 /\ fcb[f].opn = fcb[f].ref
    /\ IsFiniteSet(Using(f, InUse)) /\ IsFiniteSet(Using(f, {"open"}))
    /\ fcb[f].ref >= Cardinality(Using(f, InUse))
    /\ fcb[f].cln >= Cardinality(Using(f, {"open"}))
    /\ "mapped" \in causes \/ /\ fcb[f].ref = Cardinality(Using(f, InUse))
                              /\ fcb[f].cln = Cardinality(Using(f, {"open"}))

LEMMA CountsAre == (CountsExact /\ CountsBound) <=> \A f \in Opens : CountsOf(f)
  BY DEF CountsExact, CountsBound, CountsOf, InUse

LEMMA CountsAreNext == (CountsExact /\ CountsBound)' <=> \A f \in Opens : CountsOf(f)'
  BY DEF CountsExact, CountsBound, CountsOf, InUse

OwnOf(f) ==
    /\ fcb[f].sfo => fcb[f].state = "listed" \/ causes # {}
    /\ fcb[f].state = "orphan" => causes # {}
    /\ fcb[f].state = "listed" =>
         /\ fcb[f].doc => \E o \in Opens : op[o].doc
         /\ ~fcb[f].sfo => fcb[f].doc
         /\ fcb[f].doc /\ fcb[f].cln = 0 => ~fcb[f].sfo

LEMMA OwnAre == (OwnHandle <=> \A f \in Opens : OwnOf(f)) /\ (OwnHandle' <=> \A f \in Opens : OwnOf(f)')
  BY DEF OwnHandle, OwnOf

LEMMA CountsCarry ==
  ASSUME NEW f \in Opens, CountsOf(f), fcb'[f] = fcb[f], causes \subseteq causes',
         Using(f, InUse)' = Using(f, InUse), Using(f, {"open"})' = Using(f, {"open"})
  PROVE  CountsOf(f)'
  BY DEF CountsOf

(* The list with one FCB taken out. *)
LEMMA UnlinkedList ==
  ASSUME vcb \in Seq(Opens), ListedOnce, NEW f \in ToSet(vcb)
  PROVE  /\ Unlinked(f) \in Seq(Opens)
         /\ ToSet(Unlinked(f)) = ToSet(vcb) \ {f}
         /\ Len(Unlinked(f)) = Len(vcb) - 1
         /\ \A i, j \in DOMAIN Unlinked(f) : Unlinked(f)[i] = Unlinked(f)[j] => i = j
<1> DEFINE k == CHOOSE i \in DOMAIN vcb : vcb[i] = f
           n == Len(vcb)
           a == SubSeq(vcb, 1, k - 1)
           b == SubSeq(vcb, k + 1, n)
<1>1. k \in DOMAIN vcb /\ vcb[k] = f
  BY DEF ToSet
<1>2. n \in Nat /\ DOMAIN vcb = 1 .. n /\ \A i \in 1 .. n : vcb[i] \in Opens
  BY LenProperties, ElementOfSeq
<1>3. k \in 1 .. n
  BY <1>1, <1>2
<1> HIDE DEF k, n
<1>4. a \in Seq(Opens) /\ Len(a) = k - 1 /\ \A i \in 1 .. k - 1 : a[i] = vcb[i]
  <2>1. \A i \in 1 .. k - 1 : vcb[i] \in Opens
    BY <1>2, <1>3
  <2>2. 1 \in Int /\ k - 1 \in Int
    BY <1>3
  <2>3. /\ a \in Seq(Opens) /\ Len(a) = IF 1 <= k - 1 THEN (k - 1) - 1 + 1 ELSE 0
        /\ \A i \in 1 .. (k - 1) - 1 + 1 : a[i] = vcb[1 + i - 1]
    BY <2>1, <2>2, SubSeqProperties
  <2> QED
    BY <2>3, <1>3
<1>5. b \in Seq(Opens) /\ Len(b) = n - k /\ \A i \in 1 .. n - k : b[i] = vcb[k + i]
  <2>1. \A i \in k + 1 .. n : vcb[i] \in Opens
    BY <1>2, <1>3
  <2>2. k + 1 \in Int /\ n \in Int
    BY <1>2, <1>3
  <2>3. /\ b \in Seq(Opens) /\ Len(b) = IF k + 1 <= n THEN n - (k + 1) + 1 ELSE 0
        /\ \A i \in 1 .. n - (k + 1) + 1 : b[i] = vcb[(k + 1) + i - 1]
    BY <2>1, <2>2, SubSeqProperties
  <2> QED
    BY <2>3, <1>2, <1>3
<1> HIDE DEF a, b
<1> DEFINE u == a \o b
<1>6. /\ u \in Seq(Opens) /\ Len(u) = n - 1
      /\ \A i \in 1 .. n - 1 : u[i] = IF i < k THEN vcb[i] ELSE vcb[i + 1]
  <2>1. /\ u \in Seq(Opens) /\ Len(u) = Len(a) + Len(b)
        /\ \A i \in 1 .. Len(a) + Len(b) : u[i] = IF i <= Len(a) THEN a[i] ELSE b[i - Len(a)]
    BY <1>4, <1>5, ConcatProperties
  <2>2. Len(a) + Len(b) = n - 1
    BY <1>2, <1>3, <1>4, <1>5
  <2>3. ASSUME NEW i \in 1 .. n - 1
        PROVE  u[i] = IF i < k THEN vcb[i] ELSE vcb[i + 1]
    <3>1. CASE i < k
      BY <2>1, <2>2, <3>1, <1>2, <1>3, <1>4
    <3>2. CASE ~(i < k)
      <4>1. u[i] = b[i - (k - 1)]
        BY <2>1, <2>2, <3>2, <1>2, <1>3, <1>4
      <4>2. i - (k - 1) \in 1 .. n - k /\ k + (i - (k - 1)) = i + 1
        BY <3>2, <1>2, <1>3
      <4> QED
        BY <4>1, <4>2, <3>2, <1>5
    <3> QED
      BY <3>1, <3>2
  <2> QED
    BY <2>1, <2>2, <2>3
<1>7. u = Unlinked(f)
  BY DEF Unlinked, RemoveAt, a, b, k, n
<1>8. DOMAIN u = 1 .. n - 1
  BY <1>6, LenProperties
<1> HIDE DEF u
<1>9. ToSet(u) = ToSet(vcb) \ {f}
  <2>1. ASSUME NEW i \in 1 .. n - 1
        PROVE  u[i] \in ToSet(vcb) \ {f}
    <3>1. PICK j \in 1 .. n : u[i] = vcb[j] /\ j # k
      BY <1>2, <1>3, <1>6
    <3> QED
      BY <3>1, <1>1, <1>2 DEF ToSet, ListedOnce
  <2>2. ASSUME NEW x \in ToSet(vcb) \ {f}
        PROVE  x \in ToSet(u)
    <3>1. PICK j \in 1 .. n : vcb[j] = x /\ j # k
      BY <1>1, <1>2 DEF ToSet
    <3>2. PICK i \in 1 .. n - 1 : i = IF j < k THEN j ELSE j - 1
      BY <3>1, <1>2, <1>3
    <3>3. u[i] = x
      BY <3>1, <3>2, <1>2, <1>3, <1>6
    <3> QED
      BY <3>3, <1>8 DEF ToSet
  <2> QED
    BY <2>1, <2>2, <1>8 DEF ToSet
<1>10. ASSUME NEW i \in DOMAIN u, NEW j \in DOMAIN u, u[i] = u[j]
       PROVE  i = j
  <2>1. PICK x \in 1 .. n : x = IF i < k THEN i ELSE i + 1
    BY <1>2, <1>3, <1>8
  <2>2. PICK y \in 1 .. n : y = IF j < k THEN j ELSE j + 1
    BY <1>2, <1>3, <1>8
  <2>3. vcb[x] = vcb[y]
    BY <2>1, <2>2, <1>6, <1>8, <1>10
  <2>4. x = y
    BY <2>3, <1>2 DEF ListedOnce
  <2> QED
    BY <2>1, <2>2, <2>4, <1>2, <1>3, <1>8
<1> QED
  BY <1>6, <1>7, <1>9, <1>10 DEF n

-----------------------------------------------------------------------------
(* Every kind of step keeps the invariant.                                    *)
Listed(f) == fcb[f].state = "listed"

LEMMA FcbTypes ==
  FcbTypeOK <=> /\ fcb \in [Opens -> FcbRecords] /\ vcb \in Seq(Opens) /\ op \in [Opens -> OpenRecords]
                /\ exists \in BOOLEAN /\ pending \in BOOLEAN /\ crashed \in BOOLEAN
                /\ causes \subseteq Faults \cup {"raced", "reopened"}
  BY DEF FcbTypeOK, FcbRecords, OpenRecords

LEMMA FcbTypesNext ==
  FcbTypeOK' <=> /\ fcb' \in [Opens -> FcbRecords] /\ vcb' \in Seq(Opens) /\ op' \in [Opens -> OpenRecords]
                 /\ exists' \in BOOLEAN /\ pending' \in BOOLEAN /\ crashed' \in BOOLEAN
                 /\ causes' \subseteq Faults \cup {"raced", "reopened"}
  BY DEF FcbTypeOK, FcbRecords, OpenRecords

LEMMA CrashesKeeps ==
  ASSUME FcbInv, NEW o \in Opens, Crashes(o)
  PROVE  FcbInv'
<1>1. UNCHANGED << fcb, vcb, op, exists, pending, causes >> /\ crashed' = TRUE
  BY DEF Crashes
<1>2. FcbTypeOK'
  BY <1>1 DEF FcbInv, FcbTypeOK
<1>3. CrashExplained'
  BY <1>1 DEF Crashes, CrashExplained
<1>4. (CountsExact /\ CountsBound)' /\ InUseIsListed' /\ OwnHandle' /\ OneAtATime' /\ ListedOnce'
  BY <1>1 DEF FcbInv, CountsExact, CountsBound, Using, InUseIsListed, OwnHandle, OneAtATime, ListedOnce
<1>5. (\A u \in Opens : OpenShape(u)') /\ (pending => LowerOpen(op, fcb))'
  BY <1>1 DEF FcbInv, OpenShape, LowerOpen
<1> QED
  BY <1>2, <1>3, <1>4, <1>5 DEF FcbInv

LEMMA MovesKeeps ==
  ASSUME FcbInv, NEW o \in Opens, NEW v \in OpenRecords, Moves(o, v)
  PROVE  FcbInv'
<1>t. /\ fcb \in [Opens -> FcbRecords] /\ vcb \in Seq(Opens) /\ op \in [Opens -> OpenRecords]
      /\ exists \in BOOLEAN /\ pending \in BOOLEAN /\ crashed \in BOOLEAN
  BY FcbTypes DEF FcbInv
<1>1. /\ op' = [op EXCEPT ![o] = v] /\ fcb' = fcb /\ vcb' = vcb /\ pending' = pending /\ crashed' = crashed
      /\ exists' \in BOOLEAN /\ causes \subseteq causes' /\ causes' \subseteq Faults \cup {"raced", "reopened"}
  BY DEF Moves, Calm, Explained
<1>2. \A u \in Opens : op'[u] = IF u = o THEN v ELSE op[u]
  BY <1>1, <1>t
<1>3. op[o].pc \in {"idle"} \cup Creating /\ v.pc \notin {"idle"} \cup InUse
  BY DEF Moves
<1>4. \A u \in Opens : op[u].doc => op'[u].doc
  <2>1. op[o].doc => v.doc
    <3>1. op[o].doc \in BOOLEAN /\ v.doc \in BOOLEAN
      BY <1>t DEF OpenRecords
    <3>2. op[o].pc = "idle" => op[o].doc = FALSE
      BY DEF FcbInv, OpenShape, NewOp
    <3> QED
      BY <3>1, <3>2 DEF Moves
  <2> QED
    BY <2>1, <1>2
<1>5. FcbTypeOK'
  BY <1>1, <1>t, FcbTypesNext
<1>6. (CountsExact /\ CountsBound)'
  <2>1. ASSUME NEW f \in Opens PROVE CountsOf(f)'
    <3>1. CountsOf(f)
      BY CountsAre DEF FcbInv
    <3>2. Using(f, InUse)' = Using(f, InUse) /\ Using(f, {"open"})' = Using(f, {"open"})
      <4>1. op[o].pc \notin InUse /\ v.pc \notin InUse /\ op[o].pc # "open" /\ v.pc # "open"
        BY <1>3 DEF Creating, InUse
      <4> QED
        BY <4>1, <1>1, <1>t, UsingSame
    <3> QED
      BY <3>1, <3>2, <1>1, CountsCarry
  <2> QED
    BY <2>1, CountsAreNext
<1>7. InUseIsListed'
  BY <1>1, <1>2, <1>3 DEF FcbInv, InUseIsListed, InUse
<1>8. CrashExplained'
  BY <1>1, <1>4 DEF FcbInv, CrashExplained
<1>9. \A u \in Opens : OpenShape(u)'
  <2> TAKE u \in Opens
  <2>1. CASE u = o
    BY <2>1, <1>1, <1>2, <1>3 DEF FcbInv, OpenShape, Moves, InUse, Creating
  <2>2. CASE u # o
    BY <2>2, <1>1, <1>2 DEF FcbInv, OpenShape
  <2> QED
    BY <2>1, <2>2
<1>10. OwnHandle'
  BY <1>1, <1>4 DEF FcbInv, OwnHandle
<1>11. OneAtATime'
  <2> SUFFICES ASSUME "raced" \notin causes' PROVE OneAtATime'
    BY DEF OneAtATime
  <2>1. Len(vcb') <= 1
    BY <1>1 DEF FcbInv, OneAtATime
  <2>2. ASSUME NEW u \in Opens, op'[u].pc \in Creating
        PROVE  vcb' = <<>> /\ \A w \in Opens \ {u} : op'[w].pc \notin Creating
    <3>1. CASE u = o
      BY <2>2, <3>1, <1>1, <1>2 DEF FcbInv, OneAtATime, Moves
    <3>2. CASE u # o
      BY <2>2, <3>2, <1>1, <1>2, <1>3 DEF FcbInv, OneAtATime, Moves
    <3> QED
      BY <3>1, <3>2
  <2> QED
    BY <2>1, <2>2 DEF OneAtATime
<1>12. ListedOnce'
  BY <1>1 DEF FcbInv, ListedOnce
<1>13. (pending => LowerOpen(op, fcb))'
  <2>1. \A u \in Opens : op[u].lower # "none" => op'[u].lower # "none"
    BY <1>2 DEF Moves
  <2> QED
    BY <2>1, <1>1 DEF FcbInv, LowerOpen
<1> QED
  BY <1>5, <1>6, <1>7, <1>8, <1>9, <1>10, <1>11, <1>12, <1>13 DEF FcbInv

LEMMA JoinsKeeps ==
  ASSUME FcbInv, NEW o \in Opens, NEW v \in OpenRecords, NEW d \in BOOLEAN, Joins(o, v, d)
  PROVE  FcbInv'
<1>t. /\ fcb \in [Opens -> FcbRecords] /\ vcb \in Seq(Opens) /\ op \in [Opens -> OpenRecords]
      /\ exists \in BOOLEAN /\ pending \in BOOLEAN /\ crashed \in BOOLEAN
  BY FcbTypes DEF FcbInv
<1>0. Head(vcb) \in Opens /\ vcb # <<>>
  BY <1>t, HeadTailProperties DEF Joins
<1>h. PICK g \in Opens : g = Head(vcb)
  BY <1>0
<1>1. /\ op' = [op EXCEPT ![o] = v] /\ fcb' = Counted(g, d) /\ vcb' = vcb /\ pending' = pending /\ crashed' = crashed
      /\ exists' \in BOOLEAN /\ causes \subseteq causes' /\ causes' \subseteq Faults \cup {"raced", "reopened"}
  BY <1>h DEF Joins, Calm, Explained
<1>2. \A u \in Opens : op'[u] = IF u = o THEN v ELSE op[u]
  BY <1>1, <1>t
<1>3. op[o].pc = "idle" /\ v.pc \in {"open", "passed"} /\ v.fcb = g /\ op[o].lower = "none" /\ v.lower # "none"
  BY <1>h DEF Joins, FcbInv, OpenShape, NewOp
<1>g. g \in Opens /\ g \in ToSet(vcb) /\ Listed(g) /\ g # o
  <2>1. vcb # <<>> /\ g = vcb[1] /\ g \in Opens /\ 1 \in DOMAIN vcb
    BY <1>t, <1>0, <1>h, HeadTailProperties, LenProperties, EmptySeq
  <2>2. Listed(g)
    BY <2>1 DEF FcbInv, InUseIsListed, ToSet, Listed
  <2>3. fcb[o] = NoFcb
    BY <1>3 DEF FcbInv, OpenShape
  <2> QED
    BY <2>1, <2>2, <2>3 DEF ToSet, Listed, NoFcb
<1>c. /\ fcb' \in [Opens -> FcbRecords]
      /\ \A f \in Opens : f # g => fcb'[f] = fcb[f]
      /\ fcb'[g].state = "listed" /\ fcb'[g].opn = fcb[g].opn + 1 /\ fcb'[g].cln = fcb[g].cln + 1
      /\ fcb'[g].ref = fcb[g].ref + 1 /\ fcb'[g].sfo = fcb[g].sfo /\ fcb'[g].doc = (fcb[g].doc \/ d)
  <2> DEFINE r == [state |-> fcb[g].state, opn |-> fcb[g].opn + 1, cln |-> fcb[g].cln + 1,
                   ref |-> fcb[g].ref + 1, sfo |-> fcb[g].sfo, doc |-> fcb[g].doc \/ d]
  <2>1. fcb' = [fcb EXCEPT ![g] = r]
    BY <1>1 DEF Counted
  <2>2. fcb[g] \in FcbRecords
    BY <1>t
  <2>3. r \in FcbRecords
    BY <2>2 DEF FcbRecords
  <2>4. /\ r.state = fcb[g].state /\ r.opn = fcb[g].opn + 1 /\ r.cln = fcb[g].cln + 1
        /\ r.ref = fcb[g].ref + 1 /\ r.sfo = fcb[g].sfo /\ r.doc = (fcb[g].doc \/ d)
    OBVIOUS
  <2> HIDE DEF r
  <2> QED
    BY <2>1, <2>3, <2>4, <1>g, <1>t DEF Listed
<1>4. \A u \in Opens : op[u].doc => op'[u].doc
  <2>1. ~op[o].doc
    BY <1>3 DEF FcbInv, OpenShape, NewOp
  <2> QED
    BY <2>1, <1>2
<1>5. FcbTypeOK'
  BY <1>1, <1>c, <1>t, FcbTypesNext
<1>6. (CountsExact /\ CountsBound)'
  <2>1. ASSUME NEW f \in Opens, f # g PROVE CountsOf(f)'
    <3>1. CountsOf(f)
      BY CountsAre DEF FcbInv
    <3>2. Using(f, InUse)' = Using(f, InUse) /\ Using(f, {"open"})' = Using(f, {"open"})
      <4>1. op[o].pc \notin InUse /\ op[o].pc # "open" /\ v.fcb # f
        BY <1>3, <2>1 DEF InUse
      <4> QED
        BY <4>1, <1>1, <1>t, UsingSame
    <3> QED
      BY <3>1, <3>2, <2>1, <1>1, <1>c, CountsCarry
  <2>2. CountsOf(g)'
    <3>1. CountsOf(g)
      BY <1>g, CountsAre DEF FcbInv
    <3>2. o \notin Using(g, InUse) /\ o \notin Using(g, {"open"})
      BY <1>3 DEF Using, InUse
    <3>3. fcb[g].ref \in Nat /\ fcb[g].opn \in Nat /\ fcb[g].cln \in Nat
      BY <1>g, <1>t DEF FcbRecords
    <3>4. /\ Using(g, InUse)' = IF v.pc = "open" THEN Using(g, InUse) \cup {o} ELSE Using(g, InUse) \ {o}
          /\ Using(g, {"open"})' = IF v.pc = "open" THEN Using(g, {"open"}) \cup {o} ELSE Using(g, {"open"}) \ {o}
      <4>1. v.pc \in InUse <=> v.pc = "open"
        BY <1>3 DEF InUse
      <4> QED
        BY <4>1, <1>1, <1>3, <1>t, UsingNext
    <3>5. /\ IsFiniteSet(Using(g, InUse)) /\ IsFiniteSet(Using(g, {"open"}))
          /\ Cardinality(Using(g, InUse)) \in Nat /\ Cardinality(Using(g, {"open"})) \in Nat
      BY <3>1, <1>g, FS_CardinalityType DEF CountsOf, Listed
    <3>6. CASE v.pc = "open"
      <4>1. /\ IsFiniteSet(Using(g, InUse)') /\ IsFiniteSet(Using(g, {"open"})')
            /\ Cardinality(Using(g, InUse)') = Cardinality(Using(g, InUse)) + 1
            /\ Cardinality(Using(g, {"open"})') = Cardinality(Using(g, {"open"})) + 1
        BY <3>2, <3>4, <3>5, <3>6, FS_AddElement
      <4> QED
        BY <4>1, <3>1, <3>3, <3>5, <1>1, <1>c, <1>g DEF CountsOf, Listed
    <3>7. CASE v.pc = "passed"
      <4>1. Using(g, InUse)' = Using(g, InUse) /\ Using(g, {"open"})' = Using(g, {"open"}) /\ "mapped" \in causes'
        BY <3>2, <3>4, <3>7 DEF Joins
      <4> QED
        BY <4>1, <3>1, <3>3, <3>5, <1>c, <1>g DEF CountsOf, Listed
    <3> QED
      BY <3>6, <3>7, <1>3
  <2> QED
    BY <2>1, <2>2, CountsAreNext
<1>7. InUseIsListed'
  <2>1. \A f \in Opens : Listed(f)' <=> Listed(f)
    BY <1>c, <1>g DEF Listed
  <2> QED
    BY <2>1, <1>1, <1>2, <1>3, <1>g DEF FcbInv, InUseIsListed, Listed
<1>8. CrashExplained'
  BY <1>1, <1>4 DEF FcbInv, CrashExplained
<1>9. \A u \in Opens : OpenShape(u)'
  <2> TAKE u \in Opens
  <2>1. CASE u = o
    BY <2>1, <1>1, <1>2, <1>3 DEF OpenShape, Joins, Creating
  <2>2. CASE u # o /\ u # g
    BY <2>2, <1>1, <1>2, <1>c DEF FcbInv, OpenShape
  <2>3. CASE u = g
    <3>1. op[u].pc \notin {"idle"} \cup Creating
      BY <2>3, <1>g DEF FcbInv, OpenShape, NoFcb, Listed
    <3> QED
      BY <3>1, <2>3, <1>1, <1>2, <1>g DEF FcbInv, OpenShape
  <2> QED
    BY <2>1, <2>2, <2>3
<1>10. OwnHandle'
  <2>1. d => op'[o].doc
    BY <1>2 DEF Joins
  <2>2. fcb[g].cln \in Nat /\ fcb[g].doc \in BOOLEAN /\ fcb[g].sfo \in BOOLEAN
    BY <1>g, <1>t DEF FcbRecords
  <2>3. \A f \in Opens : OwnOf(f)
    BY OwnAre DEF FcbInv
  <2>4. ASSUME NEW f \in Opens, f # g PROVE OwnOf(f)'
    BY <2>3, <2>4, <1>1, <1>4, <1>c DEF OwnOf
  <2>5. OwnOf(g)'
    BY <2>1, <2>2, <2>3, <1>1, <1>4, <1>c, <1>g DEF OwnOf, Listed
  <2> QED
    BY <2>4, <2>5, OwnAre
<1>11. OneAtATime'
  BY <1>1, <1>2, <1>3 DEF FcbInv, OneAtATime, Creating
<1>12. ListedOnce'
  BY <1>1 DEF FcbInv, ListedOnce
<1>13. (pending => LowerOpen(op, fcb))'
  BY <1>2, <1>3 DEF LowerOpen
<1> QED
  BY <1>5, <1>6, <1>7, <1>8, <1>9, <1>10, <1>11, <1>12, <1>13 DEF FcbInv

(* An open that is about to insert an FCB has none, and is in nobody's set. *)
LEMMA PublishingAlone ==
  ASSUME FcbInv, NEW o \in Opens, op[o].pc = "publish"
  PROVE  /\ fcb[o] = NoFcb /\ o \notin ToSet(vcb)
         /\ \A u \in Opens : op[u].pc \in InUse => op[u].fcb # o
<1>1. fcb[o] = NoFcb
  BY DEF FcbInv, OpenShape, Creating
<1>2. fcb[o].state # "listed"
  BY <1>1 DEF NoFcb
<1> QED
  BY <1>1, <1>2 DEF FcbInv, InUseIsListed, InUse

LEMMA FailsKeeps ==
  ASSUME FcbInv, NEW o \in Opens, op[o].pc = "publish", NEW call \in Faults, NEW sfo \in BOOLEAN,
         PublishFails(o, call, sfo)
  PROVE  FcbInv'
<1>t. /\ fcb \in [Opens -> FcbRecords] /\ vcb \in Seq(Opens) /\ op \in [Opens -> OpenRecords]
      /\ exists \in BOOLEAN /\ pending \in BOOLEAN /\ crashed \in BOOLEAN
      /\ causes \subseteq Faults \cup {"raced", "reopened"}
  BY FcbTypes DEF FcbInv
<1>a. PICK v : v = [op[o] EXCEPT !.pc = "failed", !.lower = "none"]
  OBVIOUS
<1>b. v \in OpenRecords /\ v.pc = "failed" /\ v.lower = "none" /\ v.doc = op[o].doc
  BY <1>a, <1>t DEF OpenRecords
<1>r. PICK r : r = [NoFcb EXCEPT !.state = "orphan", !.opn = 1, !.cln = 1, !.ref = 1, !.sfo = sfo]
  OBVIOUS
<1>s. r \in FcbRecords /\ r.state = "orphan" /\ r.sfo = sfo
  BY <1>r DEF FcbRecords, NoFcb
<1>1. /\ op' = [op EXCEPT ![o] = v] /\ fcb' = [fcb EXCEPT ![o] = r] /\ vcb' = vcb /\ crashed' = crashed
      /\ causes' = causes \cup {call} /\ Settle(op', fcb', pending \/ op[o].doc)
  BY <1>a, <1>r DEF PublishFails
<1>2. \A u \in Opens : op'[u] = (IF u = o THEN v ELSE op[u]) /\ fcb'[u] = (IF u = o THEN r ELSE fcb[u])
  BY <1>1, <1>t
<1>3. causes' # {} /\ causes \subseteq causes'
  BY <1>1
<1>p. exists' \in BOOLEAN /\ pending' \in BOOLEAN /\ (pending => LowerOpen(op, fcb))'
  BY <1>1, <1>t DEF Settle, LowerOpen
<1>4. \A u \in Opens : op[u].doc => op'[u].doc
  BY <1>2, <1>b
<1>5. FcbTypeOK'
  BY <1>1, <1>b, <1>s, <1>p, <1>t, FcbTypesNext
<1>6. (CountsExact /\ CountsBound)'
  <2>1. ASSUME NEW f \in Opens, f # o PROVE CountsOf(f)'
    <3>1. CountsOf(f)
      BY CountsAre DEF FcbInv
    <3>2. op[o].pc \notin InUse /\ v.pc \notin InUse /\ op[o].pc # "open" /\ v.pc # "open"
      BY <1>b DEF InUse
    <3>3. Using(f, InUse)' = Using(f, InUse) /\ Using(f, {"open"})' = Using(f, {"open"})
      BY <3>2, <1>1, <1>t, UsingSame
    <3> QED
      BY <3>1, <3>3, <2>1, <1>2, <1>3, CountsCarry
  <2>2. CountsOf(o)'
    BY <1>2, <1>s DEF CountsOf
  <2> QED
    BY <2>1, <2>2, CountsAreNext
<1>7. InUseIsListed'
  BY <1>1, <1>2, <1>b, <1>s, PublishingAlone DEF FcbInv, InUseIsListed, InUse
<1>8. CrashExplained'
  BY <1>1, <1>3, <1>4 DEF FcbInv, CrashExplained
<1>9. \A u \in Opens : OpenShape(u)'
  <2> TAKE u \in Opens
  <2>1. CASE u = o
    BY <2>1, <1>2, <1>b DEF OpenShape, Creating
  <2>2. CASE u # o
    BY <2>2, <1>2, <1>3 DEF FcbInv, OpenShape
  <2> QED
    BY <2>1, <2>2
<1>10. OwnHandle'
  <2>1. \A f \in Opens : OwnOf(f)
    BY OwnAre DEF FcbInv
  <2>2. ASSUME NEW f \in Opens, f # o PROVE OwnOf(f)'
    BY <2>1, <2>2, <1>2, <1>3, <1>4 DEF OwnOf
  <2>3. OwnOf(o)'
    BY <1>2, <1>3, <1>s DEF OwnOf
  <2> QED
    BY <2>2, <2>3, OwnAre
<1>11. OneAtATime'
  BY <1>1, <1>2, <1>3, <1>b DEF FcbInv, OneAtATime, Creating
<1>12. ListedOnce'
  BY <1>1 DEF FcbInv, ListedOnce
<1> QED
  BY <1>5, <1>6, <1>7, <1>8, <1>9, <1>10, <1>11, <1>12, <1>p DEF FcbInv

LEMMA PublishKeeps ==
  ASSUME FcbInv, NEW o \in Opens, op[o].pc = "publish", Publish(o)
  PROVE  FcbInv'
<1>t. /\ fcb \in [Opens -> FcbRecords] /\ vcb \in Seq(Opens) /\ op \in [Opens -> OpenRecords]
      /\ exists \in BOOLEAN /\ pending \in BOOLEAN /\ crashed \in BOOLEAN
      /\ causes \subseteq Faults \cup {"raced", "reopened"}
  BY FcbTypes DEF FcbInv
<1>a. PICK v : v = [op[o] EXCEPT !.pc = "open", !.fcb = o, !.ccb = TRUE]
  OBVIOUS
<1>b. v \in OpenRecords /\ v.pc = "open" /\ v.lower = op[o].lower /\ v.doc = op[o].doc /\ v.fcb = o /\ v.ccb = TRUE
  BY <1>a, <1>t DEF OpenRecords
<1>r. PICK r : r = [state |-> "listed", opn |-> 1, cln |-> 1, ref |-> 1, sfo |-> TRUE, doc |-> op[o].doc]
  OBVIOUS
<1>d. op[o].doc \in BOOLEAN
  BY <1>t DEF OpenRecords
<1>s. /\ r \in FcbRecords /\ r.state = "listed" /\ r.sfo = TRUE /\ r.doc = op[o].doc
      /\ r.opn = 1 /\ r.cln = 1 /\ r.ref = 1
  BY <1>r, <1>d DEF FcbRecords
<1>1. /\ op' = [op EXCEPT ![o] = v] /\ fcb' = [fcb EXCEPT ![o] = r] /\ vcb' = Append(vcb, o) /\ crashed' = crashed
      /\ causes' = causes /\ exists' = exists /\ pending' = pending
  BY <1>a, <1>r DEF Publish
<1>2. \A u \in Opens : op'[u] = (IF u = o THEN v ELSE op[u]) /\ fcb'[u] = (IF u = o THEN r ELSE fcb[u])
  BY <1>1, <1>t
<1>3. /\ vcb' \in Seq(Opens) /\ Len(vcb') = Len(vcb) + 1 /\ Len(vcb) \in Nat
      /\ DOMAIN vcb' = 1 .. Len(vcb) + 1 /\ DOMAIN vcb = 1 .. Len(vcb)
      /\ (\A i \in 1 .. Len(vcb) : vcb'[i] = vcb[i]) /\ vcb'[Len(vcb) + 1] = o
  BY <1>1, <1>t, AppendProperties, LenProperties
<1>v. ToSet(vcb') = ToSet(vcb) \cup {o}
  BY <1>3 DEF ToSet
<1>w. ToSet(vcb)' = ToSet(vcb')
  BY DEF ToSet
<1>o. fcb[o] = NoFcb /\ o \notin ToSet(vcb) /\ \A u \in Opens : op[u].pc \in InUse => op[u].fcb # o
  BY PublishingAlone
<1>4. \A u \in Opens : op[u].doc => op'[u].doc
  BY <1>2, <1>b
<1>5. FcbTypeOK'
  BY <1>1, <1>3, <1>b, <1>s, <1>t, FcbTypesNext
<1>6. (CountsExact /\ CountsBound)'
  <2>1. ASSUME NEW f \in Opens, f # o PROVE CountsOf(f)'
    <3>1. CountsOf(f)
      BY CountsAre DEF FcbInv
    <3>2. op[o].pc \notin InUse /\ op[o].pc # "open" /\ v.fcb # f
      BY <1>b, <2>1 DEF InUse
    <3>3. Using(f, InUse)' = Using(f, InUse) /\ Using(f, {"open"})' = Using(f, {"open"})
      BY <3>2, <1>1, <1>t, UsingSame
    <3> QED
      BY <3>1, <3>3, <2>1, <1>1, <1>2, CountsCarry
  <2>2. CountsOf(o)'
    <3>1. Using(o, InUse) = {} /\ Using(o, {"open"}) = {}
      BY <1>o DEF Using, InUse
    <3>2. v.fcb = o /\ v.pc \in InUse /\ v.pc = "open"
      BY <1>b DEF InUse
    <3>3. Using(o, InUse)' = {o} /\ Using(o, {"open"})' = {o}
      BY <3>1, <3>2, <1>1, <1>t, UsingNext
    <3>4. IsFiniteSet({o}) /\ Cardinality({o}) = 1
      BY FS_Singleton
    <3> QED
      BY <3>3, <3>4, <1>2, <1>s DEF CountsOf
  <2> QED
    BY <2>1, <2>2, CountsAreNext
<1>7. InUseIsListed'
  BY <1>2, <1>v, <1>w, <1>b, <1>s, <1>o DEF FcbInv, InUseIsListed
<1>8. CrashExplained'
  BY <1>1, <1>4 DEF FcbInv, CrashExplained
<1>9. \A u \in Opens : OpenShape(u)'
  <2> TAKE u \in Opens
  <2>1. CASE u = o
    BY <2>1, <1>2, <1>b DEF OpenShape, Creating
  <2>2. CASE u # o
    BY <2>2, <1>1, <1>2 DEF FcbInv, OpenShape
  <2> QED
    BY <2>1, <2>2
<1>10. OwnHandle'
  <2>1. \A f \in Opens : OwnOf(f)
    BY OwnAre DEF FcbInv
  <2>2. ASSUME NEW f \in Opens, f # o PROVE OwnOf(f)'
    BY <2>1, <2>2, <1>1, <1>2, <1>4 DEF OwnOf
  <2>3. OwnOf(o)'
    BY <1>2, <1>4, <1>s DEF OwnOf
  <2> QED
    BY <2>2, <2>3, OwnAre
<1>11. OneAtATime'
  <2> SUFFICES ASSUME "raced" \notin causes PROVE OneAtATime'
    BY <1>1 DEF OneAtATime
  <2>1. vcb = <<>> /\ \A u \in Opens \ {o} : op[u].pc \notin Creating
    BY DEF FcbInv, OneAtATime, Creating
  <2>2. Len(vcb') <= 1
    BY <2>1, <1>3, EmptySeq
  <2>3. \A u \in Opens : op'[u].pc \notin Creating
    BY <2>1, <1>2, <1>b DEF Creating
  <2> QED
    BY <2>2, <2>3 DEF OneAtATime
<1>12. ListedOnce'
  <2>1. \A i \in 1 .. Len(vcb) : vcb[i] # o
    BY <1>o, <1>3 DEF ToSet
  <2>2. ASSUME NEW i \in 1 .. Len(vcb) + 1, NEW j \in 1 .. Len(vcb) + 1, vcb'[i] = vcb'[j] PROVE i = j
    <3>1. \A k \in 1 .. Len(vcb) + 1 : k = Len(vcb) + 1 \/ k \in 1 .. Len(vcb)
      BY <1>3
    <3> QED
      BY <2>1, <2>2, <3>1, <1>3 DEF FcbInv, ListedOnce
  <2> QED
    BY <2>2, <1>3 DEF ListedOnce
<1>13. (pending => LowerOpen(op, fcb))'
  <2>1. fcb'[o].sfo
    BY <1>2, <1>s
  <2> QED
    BY <2>1 DEF LowerOpen
<1> QED
  BY <1>5, <1>6, <1>7, <1>8, <1>9, <1>10, <1>11, <1>12, <1>13 DEF FcbInv

LEMMA CleansKeeps ==
  ASSUME FcbInv, NEW o \in Opens, Cleans(o)
  PROVE  FcbInv'
<1>t. /\ fcb \in [Opens -> FcbRecords] /\ vcb \in Seq(Opens) /\ op \in [Opens -> OpenRecords]
      /\ exists \in BOOLEAN /\ pending \in BOOLEAN /\ crashed \in BOOLEAN
      /\ causes \subseteq Faults \cup {"raced", "reopened"}
  BY FcbTypes DEF FcbInv
<1>0. op[o].pc = "open" /\ op[o].fcb \in ToSet(vcb)
  BY DEF Cleans, FcbInv, InUseIsListed
<1>g. PICK g \in Opens : g = op[o].fcb /\ Listed(g) /\ g \in ToSet(vcb)
  <2>1. op[o].fcb \in Opens
    BY <1>0, <1>t, ElementOfSeq, LenProperties DEF ToSet
  <2> QED
    BY <2>1, <1>0 DEF FcbInv, InUseIsListed, Listed
<1>a. PICK v : v = [op[o] EXCEPT !.pc = "cleaned", !.lower = "none"]
  OBVIOUS
<1>b. v \in OpenRecords /\ v.pc = "cleaned" /\ v.lower = "none" /\ v.doc = op[o].doc /\ v.fcb = g
  <2>1. v \in OpenRecords /\ v.pc = "cleaned" /\ v.lower = "none" /\ v.doc = op[o].doc /\ v.fcb = op[o].fcb
    BY <1>a, <1>t DEF OpenRecords
  <2> QED
    BY <2>1, <1>g
<1>r. PICK r : r = [fcb[g] EXCEPT !.cln = fcb[g].cln - 1, !.sfo = fcb[g].sfo /\ ~(fcb[g].doc /\ fcb[g].cln = 1)]
  OBVIOUS
<1>f. fcb[g] \in FcbRecords /\ fcb[g].cln \in Nat /\ fcb[g].sfo \in BOOLEAN /\ fcb[g].doc \in BOOLEAN
  BY <1>t DEF FcbRecords
<1>n. CountsOf(g)
  BY CountsAre DEF FcbInv
<1>m. o \in Using(g, {"open"}) /\ fcb[g].cln >= 1
  <2>1. o \in Using(g, {"open"})
    BY <1>0, <1>g DEF Using
  <2>2. IsFiniteSet(Using(g, {"open"})) /\ fcb[g].cln >= Cardinality(Using(g, {"open"}))
    BY <1>n, <1>g DEF CountsOf, Listed
  <2>3. Cardinality(Using(g, {"open"})) # 0 /\ Cardinality(Using(g, {"open"})) \in Nat
    BY <2>1, <2>2, FS_EmptySet, FS_CardinalityType
  <2> QED
    BY <2>1, <2>2, <2>3, <1>f
<1>s. /\ r \in FcbRecords /\ r.state = "listed" /\ r.opn = fcb[g].opn /\ r.ref = fcb[g].ref /\ r.doc = fcb[g].doc
      /\ r.cln = fcb[g].cln - 1 /\ r.sfo = (fcb[g].sfo /\ ~(fcb[g].doc /\ fcb[g].cln = 1))
  <2>1. fcb[g].cln - 1 \in Nat /\ (fcb[g].sfo /\ ~(fcb[g].doc /\ fcb[g].cln = 1)) \in BOOLEAN
    BY <1>f, <1>m
  <2> QED
    BY <2>1, <1>r, <1>f, <1>g DEF FcbRecords, Listed
<1>1. /\ op' = [op EXCEPT ![o] = v] /\ fcb' = [fcb EXCEPT ![g] = r] /\ vcb' = vcb /\ crashed' = crashed
      /\ causes' = causes /\ Settle(op', fcb', pending \/ op[o].doc)
  BY <1>a, <1>r, <1>g DEF Cleans, Cleaned
<1>2. /\ \A u \in Opens : op'[u] = (IF u = o THEN v ELSE op[u])
      /\ \A u \in Opens : fcb'[u] = (IF u = g THEN r ELSE fcb[u])
  BY <1>1, <1>t
<1>p. exists' \in BOOLEAN /\ pending' \in BOOLEAN /\ (pending => LowerOpen(op, fcb))'
  BY <1>1, <1>t DEF Settle, LowerOpen
<1>4. \A u \in Opens : op[u].doc => op'[u].doc
  BY <1>2, <1>b
<1>5. FcbTypeOK'
  BY <1>1, <1>b, <1>s, <1>p, <1>t, FcbTypesNext
<1>6. (CountsExact /\ CountsBound)'
  <2>1. ASSUME NEW f \in Opens, f # g PROVE CountsOf(f)'
    <3>1. CountsOf(f)
      BY CountsAre DEF FcbInv
    <3>2. op[o].fcb # f /\ v.fcb # f
      BY <1>b, <1>g, <2>1
    <3>3. Using(f, InUse)' = Using(f, InUse) /\ Using(f, {"open"})' = Using(f, {"open"})
      <4>1. op' = [op EXCEPT ![o] = v]
        BY <1>1
      <4>2. o \notin Using(f, InUse) /\ o \notin Using(f, {"open"})
        BY <3>2 DEF Using
      <4>3. Using(f, InUse)' = Using(f, InUse) \ {o} /\ Using(f, {"open"})' = Using(f, {"open"}) \ {o}
        BY <3>2, <4>1, <1>t, UsingNext
      <4> QED
        BY <4>2, <4>3
    <3> QED
      BY <3>1, <3>3, <2>1, <1>1, <1>2, CountsCarry
  <2>2. CountsOf(g)'
    <3>1. op[o].pc \in InUse /\ v.pc \in InUse /\ v.pc # "open" /\ op[o].fcb = g /\ v.fcb = g
      BY <1>0, <1>b, <1>g DEF InUse
    <3>2. Using(g, InUse)' = Using(g, InUse)
      BY <3>1, <1>1, <1>t, UsingSame
    <3>3. Using(g, {"open"})' = Using(g, {"open"}) \ {o}
      BY <3>1, <1>1, <1>t, UsingNext
    <3>4. /\ IsFiniteSet(Using(g, {"open"})) /\ Cardinality(Using(g, {"open"})) \in Nat
      BY <1>n, <1>g, FS_CardinalityType DEF CountsOf, Listed
    <3>5. /\ IsFiniteSet(Using(g, {"open"})')
          /\ Cardinality(Using(g, {"open"})') = Cardinality(Using(g, {"open"})) - 1
      BY <3>3, <3>4, <1>m, FS_RemoveElement
    <3> QED
      BY <3>2, <3>4, <3>5, <1>1, <1>2, <1>f, <1>g, <1>n, <1>s DEF CountsOf, Listed
  <2> QED
    BY <2>1, <2>2, CountsAreNext
<1>7. InUseIsListed'
  BY <1>0, <1>1, <1>2, <1>b, <1>s, <1>g DEF FcbInv, InUseIsListed, Listed
<1>8. CrashExplained'
  BY <1>1, <1>4 DEF FcbInv, CrashExplained
<1>9. \A u \in Opens : OpenShape(u)'
  <2> TAKE u \in Opens
  <2>1. CASE u = o
    BY <2>1, <1>2, <1>b DEF OpenShape, Creating
  <2>2. CASE u # o /\ u # g
    BY <2>2, <1>1, <1>2 DEF FcbInv, OpenShape
  <2>3. CASE u # o /\ u = g
    <3>1. op[u].pc \notin {"idle"} \cup Creating
      BY <2>3, <1>g DEF FcbInv, OpenShape, NoFcb, Listed
    <3> QED
      BY <3>1, <2>3, <1>1, <1>2 DEF FcbInv, OpenShape
  <2> QED
    BY <2>1, <2>2, <2>3
<1>10. OwnHandle'
  <2>1. \A f \in Opens : OwnOf(f)
    BY OwnAre DEF FcbInv
  <2>2. ASSUME NEW f \in Opens, f # g PROVE OwnOf(f)'
    BY <2>1, <2>2, <1>1, <1>2, <1>4 DEF OwnOf
  <2>3. OwnOf(g)'
    <3>1. fcb[g].doc => \E u \in Opens : op'[u].doc
      BY <2>1, <1>4, <1>g DEF OwnOf, Listed
    <3>2. ~fcb[g].sfo => fcb[g].doc
      BY <2>1, <1>g DEF OwnOf, Listed
    <3>3. fcb'[g] = r /\ r.state = "listed" /\ r.doc = fcb[g].doc
      BY <1>2, <1>s
    <3>4. ~r.sfo => r.doc
      BY <3>2, <1>s
    <3>5. r.doc /\ r.cln = 0 => ~r.sfo
      <4>1. r.cln = 0 => fcb[g].cln = 1
        BY <1>s, <1>f
      <4> QED
        BY <4>1, <1>s, Zenon
    <3> QED
      BY <3>1, <3>3, <3>4, <3>5 DEF OwnOf
  <2> QED
    BY <2>2, <2>3, OwnAre
<1>11. OneAtATime'
  BY <1>1, <1>2, <1>b DEF FcbInv, OneAtATime, Creating
<1>12. ListedOnce'
  BY <1>1 DEF FcbInv, ListedOnce
<1> QED
  BY <1>5, <1>6, <1>7, <1>8, <1>9, <1>10, <1>11, <1>12, <1>p DEF FcbInv

(* A file object that is closed after its cleanup. *)
LEMMA Closing ==
  ASSUME FcbInv, NEW o \in Opens, op[o].pc = "cleaned"
  PROVE  /\ \E g \in Opens : g = op[o].fcb /\ Listed(g) /\ g \in ToSet(vcb) /\ o \in Using(g, InUse)
         /\ \E v \in OpenRecords : /\ v.pc = "closed" /\ v.fcb = None /\ v.doc = op[o].doc /\ v.lower = op[o].lower
                                   /\ ClosedOpen(o) = [op EXCEPT ![o] = v]
<1>t. vcb \in Seq(Opens) /\ op \in [Opens -> OpenRecords]
  BY FcbTypes DEF FcbInv
<1>1. op[o].fcb \in ToSet(vcb)
  BY DEF FcbInv, InUseIsListed
<1>2. op[o].fcb \in Opens
  BY <1>1, <1>t, ElementOfSeq, LenProperties DEF ToSet
<1>3. Listed(op[o].fcb)
  BY <1>1, <1>2 DEF FcbInv, InUseIsListed, Listed
<1>4. o \in Using(op[o].fcb, InUse)
  BY DEF Using, InUse
<1>v. PICK v : v = [op[o] EXCEPT !.pc = "closed", !.fcb = None, !.ccb = FALSE]
  OBVIOUS
<1>5. v \in OpenRecords /\ v.pc = "closed" /\ v.fcb = None /\ v.doc = op[o].doc /\ v.lower = op[o].lower
  BY <1>v, <1>t DEF OpenRecords
<1>6. ClosedOpen(o) = [op EXCEPT ![o] = v]
  BY <1>v DEF ClosedOpen
<1> QED
  BY <1>1, <1>2, <1>3, <1>4, <1>5, <1>6

LEMMA LowersKeeps ==
  ASSUME FcbInv, NEW o \in Opens, Lowers(o)
  PROVE  FcbInv'
<1>t. /\ fcb \in [Opens -> FcbRecords] /\ vcb \in Seq(Opens) /\ op \in [Opens -> OpenRecords]
      /\ exists \in BOOLEAN /\ pending \in BOOLEAN /\ crashed \in BOOLEAN
      /\ causes \subseteq Faults \cup {"raced", "reopened"}
  BY FcbTypes DEF FcbInv
<1>0. op[o].pc = "cleaned"
  BY DEF Lowers
<1>g. PICK g \in Opens : g = op[o].fcb /\ Listed(g) /\ g \in ToSet(vcb) /\ o \in Using(g, InUse)
  BY <1>0, Closing
<1>a. PICK v \in OpenRecords : /\ v.pc = "closed" /\ v.fcb = None /\ v.doc = op[o].doc /\ v.lower = op[o].lower
                               /\ ClosedOpen(o) = [op EXCEPT ![o] = v]
  BY <1>0, Closing
<1>f. fcb[g] \in FcbRecords /\ fcb[g].ref \in Nat /\ fcb[g].opn \in Nat /\ fcb[g].cln \in Nat
  BY <1>t DEF FcbRecords
<1>n. CountsOf(g)
  BY CountsAre DEF FcbInv
<1>m. fcb[g].ref > 1 /\ fcb[g].opn = fcb[g].ref
  <2>1. fcb[g].ref # 1 /\ fcb[g].ref >= 1 /\ fcb[g].opn = fcb[g].ref
    BY <1>g, <1>n DEF Lowers, CountsOf, Listed
  <2> QED
    BY <2>1, <1>f
<1>r. PICK r : r = [fcb[g] EXCEPT !.opn = fcb[g].opn - 1, !.ref = fcb[g].ref - 1]
  OBVIOUS
<1>s. /\ r \in FcbRecords /\ r.state = "listed" /\ r.opn = fcb[g].opn - 1 /\ r.ref = fcb[g].ref - 1
      /\ r.cln = fcb[g].cln /\ r.sfo = fcb[g].sfo /\ r.doc = fcb[g].doc
  <2>1. fcb[g].opn - 1 \in Nat /\ fcb[g].ref - 1 \in Nat
    BY <1>f, <1>m
  <2> QED
    BY <2>1, <1>r, <1>f, <1>g DEF FcbRecords, Listed
<1>1. /\ op' = [op EXCEPT ![o] = v] /\ fcb' = [fcb EXCEPT ![g] = r] /\ vcb' = vcb /\ crashed' = FALSE
      /\ causes' = causes /\ Settle(op', fcb', pending)
  <2>1. [fcb EXCEPT ![g].opn = @ - 1, ![g].ref = @ - 1] = [fcb EXCEPT ![g] = r]
    BY <1>r, <1>t
  <2> QED
    BY <2>1, <1>a, <1>g DEF Lowers
<1>2. /\ \A u \in Opens : op'[u] = (IF u = o THEN v ELSE op[u])
      /\ \A u \in Opens : fcb'[u] = (IF u = g THEN r ELSE fcb[u])
  BY <1>1, <1>t
<1>p. exists' \in BOOLEAN /\ pending' \in BOOLEAN /\ (pending => LowerOpen(op, fcb))'
  BY <1>1, <1>t DEF Settle, LowerOpen
<1>4. \A u \in Opens : op[u].doc => op'[u].doc
  BY <1>2, <1>a
<1>5. FcbTypeOK'
  BY <1>1, <1>a, <1>s, <1>p, <1>t, FcbTypesNext
<1>u. None \notin Opens
  BY FcbAssumption
<1>v. ASSUME NEW f \in Opens
      PROVE  Using(f, InUse)' = Using(f, InUse) \ {o} /\ Using(f, {"open"})' = Using(f, {"open"}) \ {o}
  <2>1. v.fcb # f /\ op' = [op EXCEPT ![o] = v]
    BY <1>a, <1>u, <1>1
  <2> QED
    BY <2>1, <1>t, UsingNext
<1>6. (CountsExact /\ CountsBound)'
  <2>1. ASSUME NEW f \in Opens, f # g PROVE CountsOf(f)'
    <3>1. CountsOf(f)
      BY CountsAre DEF FcbInv
    <3>2. o \notin Using(f, InUse) /\ o \notin Using(f, {"open"})
      BY <1>g, <2>1 DEF Using
    <3>3. Using(f, InUse)' = Using(f, InUse) /\ Using(f, {"open"})' = Using(f, {"open"})
      BY <3>2, <1>v
    <3> QED
      BY <3>1, <3>3, <2>1, <1>1, <1>2, CountsCarry
  <2>2. CountsOf(g)'
    <3>1. Using(g, InUse)' = Using(g, InUse) \ {o} /\ Using(g, {"open"})' = Using(g, {"open"})
      <4>1. o \notin Using(g, {"open"})
        BY <1>0 DEF Using
      <4> QED
        BY <4>1, <1>v
    <3>2. IsFiniteSet(Using(g, InUse)) /\ Cardinality(Using(g, InUse)) \in Nat
      BY <1>n, <1>g, FS_CardinalityType DEF CountsOf, Listed
    <3>3. /\ IsFiniteSet(Using(g, InUse)')
          /\ Cardinality(Using(g, InUse)') = Cardinality(Using(g, InUse)) - 1
      BY <3>1, <3>2, <1>g, FS_RemoveElement
    <3> QED
      BY <3>1, <3>2, <3>3, <1>1, <1>2, <1>f, <1>g, <1>m, <1>n, <1>s DEF CountsOf, Listed
  <2> QED
    BY <2>1, <2>2, CountsAreNext
<1>7. InUseIsListed'
  BY <1>0, <1>1, <1>2, <1>a, <1>s, <1>g DEF FcbInv, InUseIsListed, Listed
<1>8. CrashExplained'
  BY <1>1 DEF CrashExplained
<1>9. \A u \in Opens : OpenShape(u)'
  <2> TAKE u \in Opens
  <2>1. CASE u = o
    BY <2>1, <1>0, <1>1, <1>2, <1>a DEF FcbInv, OpenShape, Creating
  <2>2. CASE u # o /\ u # g
    BY <2>2, <1>1, <1>2 DEF FcbInv, OpenShape
  <2>3. CASE u # o /\ u = g
    <3>1. op[u].pc \notin {"idle"} \cup Creating
      BY <2>3, <1>g DEF FcbInv, OpenShape, NoFcb, Listed
    <3> QED
      BY <3>1, <2>3, <1>1, <1>2 DEF FcbInv, OpenShape
  <2> QED
    BY <2>1, <2>2, <2>3
<1>10. OwnHandle'
  <2>1. \A f \in Opens : OwnOf(f)
    BY OwnAre DEF FcbInv
  <2>2. ASSUME NEW f \in Opens, f # g PROVE OwnOf(f)'
    BY <2>1, <2>2, <1>1, <1>2, <1>4 DEF OwnOf
  <2>3. OwnOf(g)'
    BY <2>1, <1>1, <1>2, <1>4, <1>g, <1>s DEF OwnOf, Listed
  <2> QED
    BY <2>2, <2>3, OwnAre
<1>11. OneAtATime'
  BY <1>1, <1>2, <1>a DEF FcbInv, OneAtATime, Creating
<1>12. ListedOnce'
  BY <1>1 DEF FcbInv, ListedOnce
<1> QED
  BY <1>5, <1>6, <1>7, <1>8, <1>9, <1>10, <1>11, <1>12, <1>p DEF FcbInv

LEMMA FreesKeeps ==
  ASSUME FcbInv, NEW o \in Opens, Frees(o)
  PROVE  FcbInv'
<1>t. /\ fcb \in [Opens -> FcbRecords] /\ vcb \in Seq(Opens) /\ op \in [Opens -> OpenRecords]
      /\ exists \in BOOLEAN /\ pending \in BOOLEAN /\ crashed \in BOOLEAN
      /\ causes \subseteq Faults \cup {"raced", "reopened"}
  BY FcbTypes DEF FcbInv
<1>0. op[o].pc = "cleaned"
  BY DEF Frees
<1>g. PICK g \in Opens : g = op[o].fcb /\ Listed(g) /\ g \in ToSet(vcb) /\ o \in Using(g, InUse)
  BY <1>0, Closing
<1>a. PICK v \in OpenRecords : /\ v.pc = "closed" /\ v.fcb = None /\ v.doc = op[o].doc /\ v.lower = op[o].lower
                               /\ ClosedOpen(o) = [op EXCEPT ![o] = v]
  BY <1>0, Closing
<1>n. CountsOf(g)
  BY CountsAre DEF FcbInv
<1>m. \A u \in Opens : op[u].pc \in InUse /\ op[u].fcb = g => u = o
  <2>1. IsFiniteSet(Using(g, InUse)) /\ 1 >= Cardinality(Using(g, InUse))
    BY <1>g, <1>n DEF CountsOf, Listed, Frees
  <2>2. Cardinality(Using(g, InUse)) # 0 /\ Cardinality(Using(g, InUse)) \in Nat
    BY <2>1, <1>g, FS_EmptySet, FS_CardinalityType
  <2>3. Cardinality(Using(g, InUse)) = 1
    BY <2>1, <2>2
  <2>4. \E x : Using(g, InUse) = {x}
    BY <2>1, <2>3, FS_Singleton
  <2>5. Using(g, InUse) = {o}
    BY <2>4, <1>g
  <2> QED
    BY <2>5 DEF Using
<1>r. PICK r : r = [NoFcb EXCEPT !.state = "freed"]
  OBVIOUS
<1>s. r \in FcbRecords /\ r.state = "freed" /\ r.sfo = FALSE
  BY <1>r DEF FcbRecords, NoFcb
<1>l. PICK list : list = Unlinked(g)
  OBVIOUS
<1>1. /\ op' = [op EXCEPT ![o] = v] /\ fcb' = [fcb EXCEPT ![g] = r] /\ vcb' = list /\ crashed' = ~fcb[g].sfo
      /\ causes' = causes /\ Settle(op', fcb', pending)
  BY <1>a, <1>g, <1>r, <1>l DEF Frees
<1>2. /\ \A u \in Opens : op'[u] = (IF u = o THEN v ELSE op[u])
      /\ \A u \in Opens : fcb'[u] = (IF u = g THEN r ELSE fcb[u])
  BY <1>1, <1>t
<1>3. /\ list \in Seq(Opens) /\ ToSet(list) = ToSet(vcb) \ {g} /\ Len(list) = Len(vcb) - 1
      /\ \A i, j \in DOMAIN list : list[i] = list[j] => i = j
  BY <1>g, <1>l, <1>t, UnlinkedList DEF FcbInv
<1>w. ToSet(vcb)' = ToSet(list)
  BY <1>1 DEF ToSet
<1>p. exists' \in BOOLEAN /\ pending' \in BOOLEAN /\ (pending => LowerOpen(op, fcb))'
  BY <1>1, <1>t DEF Settle, LowerOpen
<1>4. \A u \in Opens : op[u].doc => op'[u].doc
  BY <1>2, <1>a
<1>5. FcbTypeOK'
  BY <1>1, <1>3, <1>a, <1>s, <1>p, <1>t, FcbTypesNext
<1>u. None \notin Opens
  BY FcbAssumption
<1>6. (CountsExact /\ CountsBound)'
  <2>1. ASSUME NEW f \in Opens, f # g PROVE CountsOf(f)'
    <3>1. CountsOf(f)
      BY CountsAre DEF FcbInv
    <3>2. o \notin Using(f, InUse) /\ o \notin Using(f, {"open"})
      BY <1>g, <2>1 DEF Using
    <3>3. Using(f, InUse)' = Using(f, InUse) \ {o} /\ Using(f, {"open"})' = Using(f, {"open"}) \ {o}
      <4>1. v.fcb # f /\ op' = [op EXCEPT ![o] = v]
        BY <1>a, <1>u, <1>1
      <4> QED
        BY <4>1, <1>t, UsingNext
    <3>4. Using(f, InUse)' = Using(f, InUse) /\ Using(f, {"open"})' = Using(f, {"open"})
      BY <3>2, <3>3
    <3> QED
      BY <3>1, <3>4, <2>1, <1>1, <1>2, CountsCarry
  <2>2. CountsOf(g)'
    BY <1>2, <1>s DEF CountsOf
  <2> QED
    BY <2>1, <2>2, CountsAreNext
<1>7. InUseIsListed'
  <2>1. ASSUME NEW f \in Opens
        PROVE  fcb'[f].state = "listed" <=> f \in ToSet(list)
    BY <1>2, <1>3, <1>s DEF FcbInv, InUseIsListed
  <2>2. ASSUME NEW u \in Opens, op'[u].pc \in InUse
        PROVE  op'[u].fcb \in ToSet(list)
    <3>1. u # o
      BY <2>2, <1>2, <1>a DEF InUse
    <3>2. op'[u] = op[u]
      BY <3>1, <1>2
    <3>3. op[u].fcb \in ToSet(vcb) /\ op[u].fcb # g
      BY <2>2, <3>1, <3>2, <1>m DEF FcbInv, InUseIsListed, InUse
    <3> QED
      BY <3>2, <3>3, <1>3
  <2> QED
    BY <2>1, <2>2, <1>w DEF InUseIsListed, InUse
<1>8. CrashExplained'
  <2>1. ~fcb[g].sfo => \E u \in Opens : op[u].doc
    BY <1>g, OwnAre DEF FcbInv, OwnOf, Listed
  <2> QED
    BY <2>1, <1>1, <1>4 DEF CrashExplained
<1>9. \A u \in Opens : OpenShape(u)'
  <2> TAKE u \in Opens
  <2>1. CASE u = o
    BY <2>1, <1>0, <1>1, <1>2, <1>a DEF FcbInv, OpenShape, Creating
  <2>2. CASE u # o /\ u # g
    BY <2>2, <1>1, <1>2 DEF FcbInv, OpenShape
  <2>3. CASE u # o /\ u = g
    <3>1. op[u].pc \notin {"idle"} \cup Creating
      BY <2>3, <1>g DEF FcbInv, OpenShape, NoFcb, Listed
    <3> QED
      BY <3>1, <2>3, <1>1, <1>2 DEF FcbInv, OpenShape
  <2> QED
    BY <2>1, <2>2, <2>3
<1>10. OwnHandle'
  <2>1. \A f \in Opens : OwnOf(f)
    BY OwnAre DEF FcbInv
  <2>2. ASSUME NEW f \in Opens, f # g PROVE OwnOf(f)'
    BY <2>1, <2>2, <1>1, <1>2, <1>4 DEF OwnOf
  <2>3. OwnOf(g)'
    BY <1>2, <1>s DEF OwnOf
  <2> QED
    BY <2>2, <2>3, OwnAre
<1>11. OneAtATime'
  <2> SUFFICES ASSUME "raced" \notin causes PROVE OneAtATime'
    BY <1>1 DEF OneAtATime
  <2>1. vcb # <<>> /\ Len(vcb) <= 1 /\ Len(vcb) \in Nat
    BY <1>g, <1>t, LenProperties, EmptySeq DEF FcbInv, OneAtATime, ToSet
  <2>2. \A u \in Opens : op[u].pc \notin Creating
    BY <2>1 DEF FcbInv, OneAtATime
  <2>3. \A u \in Opens : op'[u].pc \notin Creating
    BY <2>2, <1>2, <1>a DEF Creating
  <2>4. Len(vcb') <= 1
    BY <2>1, <1>1, <1>3
  <2> QED
    BY <2>3, <2>4 DEF OneAtATime
<1>12. ListedOnce'
  BY <1>1, <1>3 DEF ListedOnce
<1> QED
  BY <1>5, <1>6, <1>7, <1>8, <1>9, <1>10, <1>11, <1>12, <1>p DEF FcbInv

-----------------------------------------------------------------------------
(* The invariant, and what is asked of it. *)
LEMMA FcbInvInit == FcbInit => FcbInv
<1> SUFFICES ASSUME FcbInit PROVE FcbInv
  OBVIOUS
<1>1. /\ fcb = [f \in Opens |-> NoFcb] /\ vcb = <<>> /\ op = [o \in Opens |-> NewOp]
      /\ exists \in BOOLEAN /\ pending = FALSE /\ crashed = FALSE /\ causes = {}
  BY DEF FcbInit
<1>2. NoFcb \in FcbRecords /\ NewOp \in OpenRecords
  BY DEF NoFcb, NewOp, FcbRecords, OpenRecords, Dispositions
<1>3. vcb \in Seq(Opens) /\ Len(vcb) = 0 /\ DOMAIN vcb = {} /\ ToSet(vcb) = {}
  BY <1>1, EmptySeq, LenProperties DEF ToSet
<1>4. FcbTypeOK
  BY <1>1, <1>2, <1>3, FcbTypes
<1>5. \A f \in Opens : /\ fcb[f] = NoFcb /\ fcb[f].state = "none" /\ ~fcb[f].sfo
                       /\ op[f] = NewOp /\ op[f].pc = "idle" /\ op[f].lower = "none"
  BY <1>1 DEF NoFcb, NewOp
<1>6. CountsExact /\ CountsBound /\ OwnHandle
  BY <1>5 DEF CountsExact, CountsBound, OwnHandle
<1>7. InUseIsListed
  BY <1>3, <1>5 DEF InUseIsListed
<1>8. \A o \in Opens : OpenShape(o)
  BY <1>5 DEF OpenShape
<1>9. OneAtATime /\ ListedOnce
  BY <1>1, <1>3, <1>5 DEF OneAtATime, ListedOnce, Creating
<1> QED
  BY <1>1, <1>4, <1>6, <1>7, <1>8, <1>9 DEF FcbInv, CrashExplained

LEMMA FcbInvStep == FcbInv /\ [FcbNext]_fcbVars => FcbInv'
<1> SUFFICES ASSUME FcbInv, [FcbNext]_fcbVars PROVE FcbInv'
  OBVIOUS
<1>1. ASSUME NEW o \in Opens, ~crashed,
             \/ FilterPreCreate(o) \/ GetFileStatus(o) \/ CheckEventFileCreateTo(o) \/ OpenLowerFile(o)
             \/ CreateFileNonExistFCB(o) \/ FilterPreCleanup(o) \/ FilterPreClose(o)
      PROVE  FcbInv'
  <2>1. FcbKinds(o)
    BY <1>1, CreateMoves, UseKinds
  <2>2. CASE Crashes(o)
    BY <2>2, CrashesKeeps
  <2>3. CASE Publishes(o)
    BY <2>3, PublishKeeps, FailsKeeps DEF Publishes
  <2>4. CASE Cleans(o)
    BY <2>4, CleansKeeps
  <2>5. CASE Lowers(o)
    BY <2>5, LowersKeeps
  <2>6. CASE Frees(o)
    BY <2>6, FreesKeeps
  <2>7. CASE \E v \in OpenRecords : Moves(o, v) \/ \E d \in BOOLEAN : Joins(o, v, d)
    BY <2>7, MovesKeeps, JoinsKeeps
  <2> QED
    BY <2>1, <2>2, <2>3, <2>4, <2>5, <2>6, <2>7 DEF FcbKinds
<1>2. CASE UNCHANGED fcbVars
  <2>1. UNCHANGED << fcb, vcb, op, exists, pending, crashed, causes >>
    BY <1>2 DEF fcbVars
  <2>2. FcbTypeOK' /\ CrashExplained' /\ (\A u \in Opens : OpenShape(u)') /\ (pending => LowerOpen(op, fcb))'
    BY <2>1 DEF FcbInv, FcbTypeOK, CrashExplained, OpenShape, LowerOpen
  <2>3. (CountsExact /\ CountsBound)' /\ InUseIsListed' /\ OwnHandle' /\ OneAtATime' /\ ListedOnce'
    BY <2>1 DEF FcbInv, CountsExact, CountsBound, Using, InUseIsListed, OwnHandle, OneAtATime, ListedOnce
  <2> QED
    BY <2>2, <2>3 DEF FcbInv
<1> QED
  BY <1>1, <1>2 DEF FcbNext, Ended

LEMMA OneListed ==
  ASSUME FcbInv, Len(vcb) <= 1, NEW f \in ToSet(vcb), NEW g \in ToSet(vcb)
  PROVE  f = g
<1>1. vcb \in Seq(Opens) /\ DOMAIN vcb = 1 .. Len(vcb) /\ Len(vcb) \in Nat
  BY LenProperties DEF FcbInv, FcbTypeOK
<1>2. PICK i \in 1 .. Len(vcb) : vcb[i] = f
  BY <1>1 DEF ToSet
<1>3. PICK j \in 1 .. Len(vcb) : vcb[j] = g
  BY <1>1 DEF ToSet
<1>4. i = j
  BY <1>1, <1>2, <1>3
<1> QED
  BY <1>2, <1>3, <1>4

LEMMA FcbInvAccounts == FcbInv => FcbAccounted
<1> SUFFICES ASSUME FcbInv PROVE FcbAccounted
  OBVIOUS
<1>t. /\ fcb \in [Opens -> FcbRecords] /\ vcb \in Seq(Opens) /\ op \in [Opens -> OpenRecords]
  BY FcbTypes DEF FcbInv
<1>o. \A f \in Opens : OwnOf(f) /\ CountsOf(f) /\ OpenShape(f)
  BY OwnAre, CountsAre DEF FcbInv
<1>l. \A f \in Opens : Listed(f) <=> f \in ToSet(vcb)
  BY DEF FcbInv, InUseIsListed, Listed
<1>1. OneFcbUnlessRaced
  BY DEF FcbInv, OneAtATime, OneFcbUnlessRaced
<1>2. DeletedAtLastCleanup
  <2> SUFFICES ASSUME NEW f \in Opens, Listed(f), fcb[f].doc, fcb[f].cln = 0, causes = {},
                      \A o \in Opens : op[o].pc # "publish"
               PROVE  ~pending /\ ~fcb[f].sfo
    BY DEF DeletedAtLastCleanup, Listed
  <2>1. ~fcb[f].sfo
    BY <1>o DEF OwnOf, Listed
  <2>2. Len(vcb) <= 1 /\ f \in ToSet(vcb)
    BY <1>l DEF FcbInv, OneAtATime
  <2>3. Using(f, {"open"}) = {}
    <3>1. IsFiniteSet(Using(f, {"open"})) /\ 0 >= Cardinality(Using(f, {"open"}))
      BY <1>o DEF CountsOf, Listed
    <3>2. Cardinality(Using(f, {"open"})) \in Nat
      BY <3>1, FS_CardinalityType
    <3>3. Cardinality(Using(f, {"open"})) = 0
      BY <3>1, <3>2
    <3> QED
      BY <3>1, <3>3, FS_EmptySet
  <2>4. ASSUME NEW u \in Opens, op[u].lower # "none" PROVE FALSE
    <3>1. op[u].pc = "open"
      BY <2>4, <1>o DEF OpenShape
    <3>2. op[u].fcb \in ToSet(vcb)
      BY <3>1 DEF FcbInv, InUseIsListed
    <3>3. op[u].fcb = f
      BY <3>2, <2>2, OneListed
    <3> QED
      BY <3>1, <3>3, <2>3 DEF Using
  <2>5. ASSUME NEW u \in Opens, fcb[u].sfo PROVE FALSE
    <3>1. Listed(u)
      BY <2>5, <1>o DEF OwnOf, Listed
    <3>2. u = f
      BY <3>1, <1>l, <2>2, OneListed
    <3> QED
      BY <3>2, <2>1, <2>5
  <2>6. ~LowerOpen(op, fcb)
    BY <2>4, <2>5 DEF LowerOpen
  <2> QED
    BY <2>1, <2>6 DEF FcbInv
<1>3. AllReleased
  <2> SUFFICES ASSUME causes = {}, \A o \in Opens : op[o].pc \in {"closed", "failed", "passed", "phantom"}
               PROVE  vcb = <<>> /\ ~LowerOpen(op, fcb) /\ \A f \in Opens : fcb[f].state \in {"none", "freed"}
    BY DEF AllReleased
  <2>1. ASSUME NEW f \in Opens, Listed(f) PROVE FALSE
    <3>1. Using(f, InUse) = {}
      BY DEF Using, InUse
    <3>2. fcb[f].ref >= 1 /\ fcb[f].ref = Cardinality(Using(f, InUse))
      BY <2>1, <1>o DEF CountsOf, Listed
    <3> QED
      BY <3>1, <3>2, FS_EmptySet
  <2>2. vcb = <<>>
    <3>1. vcb # <<>> => vcb[1] \in Opens /\ vcb[1] \in ToSet(vcb)
      BY <1>t, LenProperties, ElementOfSeq, EmptySeq DEF ToSet
    <3> QED
      BY <3>1, <2>1, <1>l
  <2>3. ~LowerOpen(op, fcb)
    <3>1. \A u \in Opens : op[u].lower = "none"
      BY <1>o DEF OpenShape
    <3>2. \A u \in Opens : ~fcb[u].sfo
      BY <1>o, <2>1 DEF OwnOf, Listed
    <3> QED
      BY <3>1, <3>2 DEF LowerOpen
  <2>4. ASSUME NEW f \in Opens PROVE fcb[f].state \in {"none", "freed"}
    <3>1. fcb[f].state \in {"none", "listed", "orphan", "freed"}
      BY <1>t DEF FcbRecords
    <3>2. fcb[f].state # "orphan" /\ fcb[f].state # "listed"
      BY <1>o, <2>1 DEF OwnOf, Listed
    <3> QED
      BY <3>1, <3>2
  <2> QED
    BY <2>2, <2>3, <2>4
<1> QED
  BY <1>1, <1>2, <1>3 DEF FcbInv, FcbAccounted

(* The invariant holds in every state: what an open has where it stands, that the counts of a
   listed FCB are at least its handles and file objects, who holds the driver's own lower handle,
   and that without a race one open at a time is on its way to an FCB. *)
THEOREM FcbInvariant == FcbSpec => []FcbInv
  BY FcbInvInit, FcbInvStep, PTL DEF FcbSpec

(* The counts and the list of the FCBs are exact, a file has one FCB, all is released when every
   open has ended, a file to be deleted goes with its last handle, and a null pointer is used only
   for the named reasons: fltCreateFile.cpp, fltCleanup.cpp, fltClose.cpp. *)
THEOREM FcbsAreAccounted == FcbSpec => []FcbAccounted
  BY FcbInvariant, FcbInvAccounts, PTL
=============================================================================
