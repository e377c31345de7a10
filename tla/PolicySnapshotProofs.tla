------------------------- MODULE PolicySnapshotProofs -------------------------
(***************************************************************************)
(* Proofs about PolicySnapshot, for any number of threads, snapshots and   *)
(* policies.  Inv is inductive: the snapshot a change is prepared in is    *)
(* nobody else's until it is published, and a snapshot is freed only once  *)
(* it is no longer in force; hence the snapshot in force is never freed,   *)
(* although the reference counts may be wrong.  The count of a snapshot is *)
(* right until it is incremented between its last decrement and the end of *)
(* that release: until then nobody who has counted a reference finds the   *)
(* snapshot freed or its list emptied, and it does not leak but for the    *)
(* references that Match has lost.                                         *)
(***************************************************************************)
EXTENDS PolicySnapshot, SequenceTheorems, FiniteSetTheorems, WellFoundedInduction, TLAPS

(* The control and frame abbreviations are expanded everywhere. *)
USE FirstIsSnapshot, RequestsKnown, BoundsKnown
    DEF Goto, Alive, Fail, Excuse, Freeing, shared, threads, history

-----------------------------------------------------------------------------
(* Removing an entry of a list leaves a list. *)
LEMMA RemoveFirstType ==
  ASSUME NEW l \in Seq(Policies), NEW p
  PROVE  RemoveFirst(l, p) \in Seq(Policies)
<1> DEFINE I == {i \in 1 .. Len(l) : l[i] = p}
<1>1. CASE I = {}
  BY <1>1 DEF RemoveFirst
<1>2. CASE I # {}
  <2>1. \E x \in I : \A y \in I : ~ (<<y, x>> \in OpToRel(<, Nat))
    <3> HIDE DEF I
    <3>1. I \subseteq Nat
      BY DEF I
    <3> QED
      BY <1>2, <3>1, NatLessThanWellFounded, WFMin
  <2>2. \E x \in I : \A y \in I : x =< y
    <3>1. I \subseteq Nat
      OBVIOUS
    <3>2. \A x, y \in Nat : <<y, x>> \in OpToRel(<, Nat) <=> y < x
      BY DEF OpToRel
    <3>3. PICK x \in I : \A y \in I : ~ (<<y, x>> \in OpToRel(<, Nat))
      BY <2>1
    <3>4. \A y \in I : y \in Nat /\ ~ (y < x)
      BY <3>1, <3>2, <3>3
    <3>5. x \in Nat
      BY <3>1
    <3> QED
      BY <3>4, <3>5
  <2>3. Min(I) \in I
    BY <2>2 DEF Min
  <2> DEFINE m == Min(I)
  <2>4. m \in 1 .. Len(l)
    BY <2>3
  <2>5. RemoveFirst(l, p) = SubSeq(l, 1, m - 1) \o SubSeq(l, m + 1, Len(l))
    BY <1>2 DEF RemoveFirst, RemoveAt, SelectInSeq
  <2> HIDE DEF m
  <2>6. SubSeq(l, 1, m - 1) \in Seq(Policies) /\ SubSeq(l, m + 1, Len(l)) \in Seq(Policies)
    BY <2>4, SubSeqProperties
  <2> QED
    BY <2>5, <2>6, ConcatProperties
<1> QED
  BY <1>1, <1>2

(* What a thread asks for turns a list into a list. *)
LEMMA ChangedType ==
  ASSUME NEW t \in Threads, subject[t] \in Policies, NEW l \in Seq(Policies)
  PROVE  Changed(t, l) \in Seq(Policies)
  BY RemoveFirstType DEF Changed

(* The copy a clone makes is a list, also when it is cut short. *)
LEMMA PrefixType ==
  ASSUME NEW l \in Seq(Policies), NEW n \in 0 .. Len(l) - 1
  PROVE  SubSeq(l, 1, n) \in Seq(Policies)
<1>1. \A i \in 1 .. n : l[i] \in Policies
  OBVIOUS
<1> QED
  BY <1>1, SubSeqProperties

-----------------------------------------------------------------------------
(* The initial states. *)

LEMMA InvInit == Init => Inv
<1> SUFFICES ASSUME Init PROVE Inv
  OBVIOUS
<1>1. TypeOK /\ ThreadShape /\ SnapshotsApart /\ ClonesExact
  BY EmptySeq DEF Init, TypeOK, ThreadShape, Shape, SnapshotsApart, Apart, ClonesExact,
     CurrentLive, UpdatesKept, Mine, Cloned, Original, Dropping, Locations, Accessing
<1>2. \A s \in Snapshots : Users(s) = {}
  BY DEF Init, Users, Uses, Reading
<1>3. CountsExact
  <2>1. \A s \in Snapshots : refCount[s] = 0 /\ lost[s] = 0
    BY DEF Init
  <2>2. Cardinality({}) = 0
    BY FS_EmptySet
  <2> QED
    BY <1>2, <2>1, <2>2 DEF CountsExact
<1>4. DropsAlone
  BY DEF Init, DropsAlone, Dropping
<1> QED
  BY <1>1, <1>3, <1>4 DEF Inv

-----------------------------------------------------------------------------
(* The end of a release. *)

(* What a thread that is not idle works on are snapshots. *)
LEMMA Subjects ==
  ASSUME TypeOK, ThreadShape, NEW t \in Threads
  PROVE  /\ pc[t] \notin {"idle", "load"} => snap[t] \in Snapshots
         /\ pc[t] # "idle" => subject[t] \in Policies
         /\ back[t] = "publish" => other[t] \in Snapshots
  BY DEF TypeOK, ThreadShape, Shape

ThreadType == /\ pc \in [Threads -> Locations]
              /\ req \in [Threads -> Requests \cup {"none"}]
              /\ subject \in [Threads -> Policies \cup {"none"}]
              /\ snap \in [Threads -> Snapshots \cup {None}]
              /\ other \in [Threads -> Snapshots \cup {None}]
              /\ back \in [Threads -> {"idle", "publish"}]

(* Finishing a request, or going on after a release, keeps the types, *)
LEMMA FinishType ==
  ASSUME ThreadType, NEW t \in Threads, Finish(t)
  PROVE  ThreadType'
  BY DEF ThreadType, Finish, Locations

(* as does going on after a release; *)
LEMMA ReleasedType ==
  ASSUME ThreadType, NEW t \in Threads, Released(t)
  PROVE  ThreadType'
<1>1. CASE back[t] = "publish"
  BY <1>1 DEF ThreadType, Released, Locations
<1>2. CASE back[t] = "idle"
  BY <1>2, FinishType DEF Released
<1> QED
  BY <1>1, <1>2 DEF ThreadType

(* the shape of a thread, *)
LEMMA FinishShape ==
  ASSUME TypeOK, ThreadShape, NEW t \in Threads, Finish(t)
  PROVE  ThreadShape'
  BY DEF TypeOK, ThreadShape, Shape, Finish

(* and the same after a release; *)
LEMMA ReleasedShape ==
  ASSUME TypeOK, ThreadShape, NEW t \in Threads, Released(t),
         pc[t] \in {"decrement", "test", "free", "emptying"}
  PROVE  ThreadShape'
<1>1. CASE back[t] = "publish"
  <2>1. /\ pc' = [pc EXCEPT ![t] = "publish"]
        /\ snap' = [snap EXCEPT ![t] = other[t]]
        /\ other' = [other EXCEPT ![t] = snap[t]]
        /\ back' = [back EXCEPT ![t] = "idle"]
        /\ UNCHANGED <<req, subject>>
    BY <1>1 DEF Released
  <2>2. Shape(t) /\ snap[t] # None /\ other[t] # None
    BY <1>1 DEF ThreadShape, Shape
  <2>3. Shape(t)'
    BY <1>1, <2>1, <2>2 DEF TypeOK, Shape
  <2>4. \A u \in Threads \ {t} : Shape(u)'
    BY <2>1 DEF TypeOK, ThreadShape, Shape
  <2> QED
    BY <2>3, <2>4 DEF ThreadShape
<1>2. CASE back[t] = "idle"
  BY <1>2, FinishShape DEF Released
<1> QED
  BY <1>1, <1>2 DEF TypeOK

(* A release at most frees the snapshot it is about, when superseded. *)
Freed(t) == \/ memory' = memory
            \/ /\ memory' = [memory EXCEPT ![snap[t]] = "freed"]
               /\ snap[t] # current

(* what keeps snapshots apart, *)
LEMMA FinishApart ==
  ASSUME TypeOK, ThreadShape, SnapshotsApart, NEW t \in Threads, Finish(t),
         Freed(t), UNCHANGED current, Mine(t) = None, snap[t] \in Snapshots
  PROVE  SnapshotsApart'
<1>1. CurrentLive'
  BY DEF SnapshotsApart, CurrentLive, Freed, TypeOK
<1>2. \A s : s \in Snapshots /\ memory[s] # "unused" => memory'[s] # "unused"
  BY DEF Freed, TypeOK
<1>3. /\ pc'[t] = "idle" /\ back'[t] = "idle"
      /\ snap'[t] = None /\ other'[t] = None
  BY DEF TypeOK, Finish
<1>4. \A u \in Threads \ {t} :
        /\ pc'[u] = pc[u] /\ back'[u] = back[u] /\ req'[u] = req[u]
        /\ snap'[u] = snap[u] /\ other'[u] = other[u]
  BY DEF TypeOK, Finish
<1>5. Apart(t)'
  BY <1>3 DEF Apart, Mine
<1>6. ASSUME NEW u \in Threads \ {t} PROVE Apart(u)'
  <2>1. Apart(u) /\ Mine(u)' = Mine(u)
    BY <1>4 DEF SnapshotsApart, Mine
  <2>2. Mine(u) # None =>
          /\ Mine(u) \in Snapshots /\ memory[Mine(u)] = "live"
          /\ Mine(u) # current /\ snap[u] # other[u]
          /\ \A v \in Threads \ {u} : snap[v] # Mine(u) /\ other[v] # Mine(u)
    BY <2>1 DEF Apart, Mine, TypeOK
  <2>3. Mine(u) # None =>
          /\ memory'[Mine(u)] = "live"
          /\ \A v \in Threads \ {u} : snap'[v] # Mine(u) /\ other'[v] # Mine(u)
    <3>1. Mine(u) # None => memory'[Mine(u)] = "live"
      BY <2>2 DEF Freed, TypeOK
    <3>2. ASSUME Mine(u) # None, NEW v \in Threads \ {u}
          PROVE  snap'[v] # Mine(u) /\ other'[v] # Mine(u)
      BY <1>3, <1>4, <2>2, <3>2
    <3> QED
      BY <3>1, <3>2
  <2>4. /\ snap[u] # None => memory'[snap[u]] # "unused"
        /\ other[u] # None => memory'[other[u]] # "unused"
        /\ pc[u] \in Freeing => snap[u] # current
    BY <1>2, <2>1 DEF Apart, TypeOK
  <2> QED
    BY <1>4, <2>1, <2>2, <2>3, <2>4 DEF Apart
<1> QED
  BY <1>1, <1>5, <1>6 DEF SnapshotsApart

(* and the same after a release; *)
LEMMA ReleasedApart ==
  ASSUME TypeOK, ThreadShape, SnapshotsApart, NEW t \in Threads, Released(t),
         pc[t] \in {"decrement", "test", "free", "emptying"}, Freed(t), UNCHANGED current
  PROVE  SnapshotsApart'
<1>0. snap[t] \in Snapshots
  BY Subjects
<1>1. CASE back[t] = "publish"
  <2>1. /\ pc' = [pc EXCEPT ![t] = "publish"]
        /\ snap' = [snap EXCEPT ![t] = other[t]]
        /\ other' = [other EXCEPT ![t] = snap[t]]
        /\ back' = [back EXCEPT ![t] = "idle"]
        /\ UNCHANGED <<req, subject>>
    BY <1>1 DEF Released
  <2>2. Mine(t) = other[t] /\ other[t] \in Snapshots /\ req[t] \in Writes
    BY <1>1, Subjects DEF Mine, ThreadShape, Shape
  <2>3. CurrentLive'
    BY <1>0 DEF SnapshotsApart, CurrentLive, Freed, TypeOK
  <2>4. Apart(t)'
    BY <1>0, <2>1, <2>2 DEF TypeOK, SnapshotsApart, Apart, Mine, Freed
  <2>5. ASSUME NEW u \in Threads \ {t} PROVE Apart(u)'
    <3>1. /\ pc'[u] = pc[u] /\ snap'[u] = snap[u] /\ other'[u] = other[u]
          /\ Mine(u)' = Mine(u)
      BY <2>1 DEF TypeOK, Mine
    <3>2. /\ snap'[t] = other[t] /\ other'[t] = snap[t]
          /\ \A v \in Threads \ {t} : snap'[v] = snap[v] /\ other'[v] = other[v]
      BY <2>1 DEF TypeOK
    <3>3. Apart(u)
      BY DEF SnapshotsApart
    <3>4. Mine(u) # None =>
            /\ memory[Mine(u)] = "live" /\ Mine(u) # current /\ snap[u] # other[u]
            /\ \A v \in Threads \ {u} : snap[v] # Mine(u) /\ other[v] # Mine(u)
      BY <3>3 DEF Apart
    <3>5. Mine(u) # None => \A v \in Threads \ {u} : snap'[v] # Mine(u) /\ other'[v] # Mine(u)
      BY <3>2, <3>4
    <3>6. \A s : s \in Snapshots /\ memory[s] # "unused" => memory'[s] # "unused"
      BY <1>0 DEF Freed, TypeOK
    <3>7. Mine(u) # None => Mine(u) \in Snapshots /\ memory'[Mine(u)] = "live"
      BY <1>0, <3>4, SMTT(30) DEF Mine, Freed, TypeOK
    <3>8. /\ snap[u] # None => memory'[snap[u]] # "unused"
          /\ other[u] # None => memory'[other[u]] # "unused"
          /\ pc[u] \in Freeing => snap[u] # current
      BY <3>3, <3>6 DEF Apart, TypeOK
    <3> QED
      BY <3>1, <3>4, <3>5, <3>7, <3>8 DEF Apart
  <2> QED
    BY <2>3, <2>4, <2>5 DEF SnapshotsApart
<1>2. CASE back[t] = "idle"
  <2>1. Mine(t) = None /\ Finish(t)
    BY <1>2 DEF Mine, Released
  <2> QED
    BY <1>0, <2>1, FinishApart
<1> QED
  BY <1>1, <1>2 DEF TypeOK

(* Two threads do not prepare the same snapshot, nor does one prepare the  *)
(* snapshot in force.                                                      *)
LEMMA Prepared ==
  ASSUME TypeOK, ThreadShape, SnapshotsApart, NEW u \in Threads, Cloned(u)
  PROVE  /\ Mine(u) \in Snapshots /\ Original(u) \in Snapshots
         /\ Mine(u) # current /\ memory[Mine(u)] = "live"
         /\ memory[Original(u)] # "unused" /\ Original(u) # Mine(u)
         /\ \A v \in Threads \ {u} : /\ snap[v] # Mine(u) /\ other[v] # Mine(u)
                                     /\ Mine(v) # Mine(u)
<1>1. Shape(u) /\ Apart(u)
  BY DEF ThreadShape, SnapshotsApart
<1>2. \/ back[u] = "publish" /\ pc[u] \notin {"idle", "load"}
      \/ back[u] # "publish" /\ pc[u] = "publish" /\ req[u] \in Writes
  BY <1>1 DEF Cloned, Dropping, Shape
<1>3. snap[u] \in Snapshots /\ other[u] \in Snapshots
  BY <1>1, <1>2 DEF TypeOK, Shape
<1>4. Mine(u) \in {snap[u], other[u]} /\ Original(u) \in {snap[u], other[u]}
      /\ Mine(u) # None /\ Mine(u) \in Snapshots /\ Original(u) \in Snapshots
  BY <1>2, <1>3 DEF Mine, Original
<1>5. Original(u) # Mine(u) \/ snap[u] = other[u]
  BY <1>2 DEF Mine, Original
<1>6. /\ memory[Mine(u)] = "live" /\ Mine(u) # current /\ snap[u] # other[u]
      /\ \A v \in Threads \ {u} : snap[v] # Mine(u) /\ other[v] # Mine(u)
  BY <1>1, <1>4 DEF Apart
<1>7. memory[Original(u)] # "unused"
  BY <1>1, <1>3, <1>4 DEF Apart
<1>8. \A v \in Threads \ {u} : Mine(v) # Mine(u)
  BY <1>4, <1>6 DEF Mine
<1> QED
  BY <1>4, <1>5, <1>6, <1>7, <1>8

(* What a thread has prepared is what it was: a clone, as before the step. *)
StillCloned(u) == Cloned(u)' => /\ Cloned(u) /\ Mine(u)' = Mine(u)
                               /\ Original(u)' = Original(u)

(* A step that leaves the clones and the list in force alone keeps what    *)
(* they are worth.                                                         *)
LEMMA ExactFrame ==
  ASSUME TypeOK, ThreadShape, SnapshotsApart, ClonesExact,
         UNCHANGED <<current, policy, excuses>>, list'[current] = list[current],
         \A u \in Threads : StillCloned(u),
         \A u \in Threads : Cloned(u) => list'[Mine(u)] = list[Mine(u)],
         \A s \in Snapshots : memory'[s] = "unused" => list'[s] = <<>>
  PROVE  ClonesExact'
<1>1. UpdatesKept'
  BY DEF ClonesExact, UpdatesKept
<1>2. ASSUME excuses = {}, NEW u \in Threads, Cloned(u)', Original(u)' = current
      PROVE  list'[Mine(u)'] = list'[current]
  BY <1>2 DEF ClonesExact, StillCloned
<1> QED
  BY <1>1, <1>2 DEF ClonesExact

(* What the others have prepared stays theirs when t alone moves. *)
OthersKeep(t) ==
  \A u \in Threads \ {t} :
    /\ pc'[u] = pc[u] /\ req'[u] = req[u] /\ snap'[u] = snap[u]
    /\ other'[u] = other[u] /\ back'[u] = back[u]

LEMMA OthersStillCloned ==
  ASSUME NEW t, OthersKeep(t)
  PROVE  \A u \in Threads \ {t} :
           /\ StillCloned(u) /\ (Cloned(u)' <=> Cloned(u))
           /\ Mine(u)' = Mine(u) /\ Original(u)' = Original(u)
  BY DEF OthersKeep, StillCloned, Cloned, Mine, Original

(* Finishing a request leaves no clone behind, and what a release goes on  *)
(* with is the clone it was.                                               *)
LEMMA FinishCloned ==
  ASSUME TypeOK, NEW t \in Threads, Finish(t)
  PROVE  OthersKeep(t) /\ StillCloned(t)
<1>1. OthersKeep(t)
  BY DEF TypeOK, Finish, OthersKeep
<1>2. pc'[t] = "idle" /\ back'[t] = "idle"
  BY DEF TypeOK, Finish
<1> QED
  BY <1>1, <1>2 DEF StillCloned, Cloned

LEMMA ReleasedCloned ==
  ASSUME TypeOK, ThreadShape, NEW t \in Threads, Released(t),
         pc[t] \in {"decrement", "test", "free", "emptying"}
  PROVE  OthersKeep(t) /\ StillCloned(t)
<1>1. CASE back[t] = "publish"
  <2>1. /\ pc' = [pc EXCEPT ![t] = "publish"]
        /\ snap' = [snap EXCEPT ![t] = other[t]]
        /\ other' = [other EXCEPT ![t] = snap[t]]
        /\ back' = [back EXCEPT ![t] = "idle"] /\ req' = req
    BY <1>1 DEF Released
  <2>2. OthersKeep(t)
    BY <2>1 DEF TypeOK, OthersKeep
  <2>3. /\ pc'[t] = "publish" /\ snap'[t] = other[t] /\ other'[t] = snap[t]
        /\ back'[t] = "idle" /\ req'[t] = req[t]
    BY <2>1 DEF TypeOK
  <2>4. req[t] \in Writes
    BY <1>1 DEF ThreadShape, Shape
  <2> QED
    BY <1>1, <2>2, <2>3, <2>4 DEF StillCloned, Cloned, Mine, Original, Dropping
<1>2. CASE back[t] = "idle"
  BY <1>2, FinishCloned DEF Released
<1> QED
  BY <1>1, <1>2 DEF TypeOK

-----------------------------------------------------------------------------
(* Every step preserves the types, *)

LEMMA TypeOKStep ==
  ASSUME Inv, Next
  PROVE  TypeOK'
<1> USE DEF TypeOK, Locations, Accessing, Writes
<1>0. TypeOK /\ ThreadShape /\ ThreadType
  BY DEF Inv, ThreadType
<1>a. \A t \in Threads :
        /\ pc[t] \notin {"idle", "load"} => snap[t] \in Snapshots
        /\ pc[t] # "idle" => subject[t] \in Policies
        /\ back[t] = "publish" => other[t] \in Snapshots
  BY <1>0, Subjects
<1>1. ASSUME NEW t \in Threads, Start(t) PROVE TypeOK'
  <2>1. PICK r \in Requests, p \in Policies :
          /\ Goto(t, "load")
          /\ req' = [req EXCEPT ![t] = r]
          /\ subject' = [subject EXCEPT ![t] = p]
          /\ \/ /\ \E s \in Snapshots : /\ Allocate(s, 1)
                                       /\ other' = [other EXCEPT ![t] = s]
                /\ back' = [back EXCEPT ![t] = "publish"]
             \/ UNCHANGED <<memory, refCount, other, back>>
    BY <1>1 DEF Start
  <2>2. UNCHANGED <<current, list, snap, history>>
    BY <1>1 DEF Start
  <2>3. /\ memory' \in [Snapshots -> {"unused", "live", "freed"}]
        /\ refCount' \in [Snapshots -> Int]
        /\ other' \in [Threads -> Snapshots \cup {None}]
        /\ back' \in [Threads -> {"idle", "publish"}]
    <3>1. CASE UNCHANGED <<memory, refCount, other, back>>
      BY <1>0, <3>1
    <3>2. CASE /\ \E s \in Snapshots : Allocate(s, 1) /\ other' = [other EXCEPT ![t] = s]
               /\ back' = [back EXCEPT ![t] = "publish"]
      <4>1. PICK s \in Snapshots : /\ memory' = [memory EXCEPT ![s] = "live"]
                                  /\ refCount' = [refCount EXCEPT ![s] = 1]
                                  /\ other' = [other EXCEPT ![t] = s]
        BY <3>2 DEF Allocate
      <4> QED
        BY <1>0, <3>2, <4>1
    <3> QED
      BY <2>1, <3>1, <3>2
  <2> QED
    BY <1>0, <2>1, <2>2, <2>3
<1>2. ASSUME NEW t \in Threads, ProcessFilter_Ref_Load(t) PROVE TypeOK'
  BY <1>0, <1>2 DEF ProcessFilter_Ref_Load
<1>3. ASSUME NEW t \in Threads, ProcessFilter_Ref_Increment(t) PROVE TypeOK'
  <2>1. /\ \E l \in {"match", "count", "copy", "publish"} : Goto(t, l)
        /\ refCount' = [refCount EXCEPT ![snap[t]] = refCount[snap[t]] + 1]
        /\ revived' = revived \cup {snap[t]} \/ revived' = revived
        /\ UNCHANGED <<current, memory, list, req, subject, snap, other, back,
                       damaged, policy, lost, excuses, failures>>
    BY <1>3 DEF ProcessFilter_Ref_Increment
  <2>2. refCount' \in [Snapshots -> Int]
    <3>1. snap[t] \in Snapshots
      BY <1>3, <1>a DEF ProcessFilter_Ref_Increment
    <3> QED
      BY <1>0, <2>1, <3>1
  <2>3. pc' \in [Threads -> Locations]
    BY <1>0, <2>1
  <2>4. revived' \subseteq Snapshots
    <3>1. snap[t] \in Snapshots /\ revived \subseteq Snapshots
      BY <1>0, <1>3, <1>a DEF ProcessFilter_Ref_Increment
    <3> HIDE DEF TypeOK
    <3> QED
      BY <2>1, <3>1
  <2> QED
    BY <1>0, <2>1, <2>2, <2>3, <2>4
<1>4. ASSUME NEW t \in Threads, ProcessFilter_Match(t) PROVE TypeOK'
  <2>1. ThreadType'
    BY <1>0, <1>4, FinishType, ZenonT(30) DEF ProcessFilter_Match, ThreadType
  <2>2. lost' \in [Snapshots -> Nat]
    <3>1. lost' = lost \/ lost' = [lost EXCEPT ![snap[t]] = lost[snap[t]] + 1]
      BY <1>4 DEF ProcessFilter_Match
    <3>2. snap[t] \in Snapshots
      BY <1>4, <1>a DEF ProcessFilter_Match
    <3>3. lost[snap[t]] + 1 \in Nat /\ lost \in [Snapshots -> Nat]
      BY <1>0, <3>2
    <3> HIDE DEF TypeOK
    <3> QED
      BY <3>1, <3>3
  <2> QED
    BY <1>0, <1>4, <2>1, <2>2 DEF ProcessFilter_Match, ThreadType
<1>5. ASSUME NEW t \in Threads, CheckEvent(t) PROVE TypeOK'
  BY <1>0, <1>5 DEF CheckEvent
<1>6. ASSUME NEW t \in Threads, ProcessFilter_Count(t) PROVE TypeOK'
  BY <1>0, <1>6 DEF ProcessFilter_Count
<1>7. ASSUME NEW t \in Threads, ProcessFilter_Clone(t) PROVE TypeOK'
  <2>1. list[snap[t]] \in Seq(Policies)
    BY <1>0, <1>a, <1>7 DEF ProcessFilter_Clone
  <2>2. list' \in [Snapshots -> Seq(Policies)]
    <3>1. \E l \in Seq(Policies) : list' = [list EXCEPT ![other[t]] = l]
      BY <1>7, <2>1, PrefixType DEF ProcessFilter_Clone
    <3> QED
      BY <1>0, <3>1
  <2>3. /\ excuses' \subseteq {"truncated", "overlap"}
        /\ failures' \in 0 .. MaxFailures
    <3>1. \/ UNCHANGED <<excuses, failures>>
          \/ /\ failures < MaxFailures /\ failures' = failures + 1
             /\ excuses' = excuses \cup {"truncated"}
      BY <1>7 DEF ProcessFilter_Clone
    <3>2. failures' \in 0 .. MaxFailures
      BY <1>0, <3>1
    <3>3. excuses' \subseteq {"truncated", "overlap"}
      BY <1>0, <3>1
    <3> QED
      BY <3>2, <3>3
  <2> QED
    BY <1>0, <1>7, <2>2, <2>3 DEF ProcessFilter_Clone
<1>8. ASSUME NEW t \in Threads, ProcessFilter_Release_Decrement(t) PROVE TypeOK'
  <2>1. ThreadType'
    BY <1>0, <1>8, ReleasedType, ZenonT(30) DEF ProcessFilter_Release_Decrement, ThreadType
  <2> QED
    <3>1. /\ refCount' = [refCount EXCEPT ![snap[t]] = refCount[snap[t]] - 1]
          /\ UNCHANGED <<current, memory, list, history>>
      BY <1>8 DEF ProcessFilter_Release_Decrement
    <3>2. snap[t] \in Snapshots
      BY <1>8, <1>a DEF ProcessFilter_Release_Decrement
    <3>3. refCount' \in [Snapshots -> Int]
      BY <1>0, <3>1, <3>2
    <3> QED
      BY <1>0, <2>1, <3>1, <3>3 DEF ThreadType
<1>9. ASSUME NEW t \in Threads, ProcessFilter_Release_Zero(t) PROVE TypeOK'
  <2>1. /\ refCount' = [refCount EXCEPT ![snap[t]] = 0] /\ Goto(t, "test")
        /\ UNCHANGED <<current, memory, list, req, subject, snap, other, back, history>>
    BY <1>9 DEF ProcessFilter_Release_Zero
  <2>2. snap[t] \in Snapshots
    BY <1>9, <1>a DEF ProcessFilter_Release_Zero
  <2>3. refCount' \in [Snapshots -> Int]
    BY <1>0, <2>1, <2>2
  <2>4. pc' \in [Threads -> Locations]
    BY <1>0, <2>1
  <2> QED
    BY <1>0, <2>1, <2>3, <2>4
<1>10. ASSUME NEW t \in Threads, ProcessFilter_Release_Test(t) PROVE TypeOK'
  <2>1. ThreadType'
    BY <1>0, <1>10, ReleasedType DEF ProcessFilter_Release_Test, ThreadType
  <2> QED
    BY <1>0, <1>10, <2>1 DEF ProcessFilter_Release_Test, ThreadType
<1>11. ASSUME NEW t \in Threads, ProcessFilter_Release_Free(t) PROVE TypeOK'
  <2>1. ThreadType'
    BY <1>0, <1>11, ReleasedType DEF ProcessFilter_Release_Free
  <2> QED
    BY <1>0, <1>11, <2>1 DEF ProcessFilter_Release_Free, ThreadType
<1>16. ASSUME NEW t \in Threads, ProcessFilter_Release_Entry(t) PROVE TypeOK'
  <2>1. /\ pc' = [pc EXCEPT ![t] = "emptying"]
        /\ list' = [list EXCEPT ![snap[t]] = Tail(list[snap[t]])]
        /\ UNCHANGED <<current, memory, refCount, req, subject, snap, other, back, history>>
    BY <1>16 DEF ProcessFilter_Release_Entry
  <2>2. snap[t] \in Snapshots /\ list[snap[t]] # <<>>
    BY <1>16, <1>a DEF ProcessFilter_Release_Entry
  <2>3. list[snap[t]] \in Seq(Policies)
    BY <1>0, <2>2
  <2>4. Tail(list[snap[t]]) \in Seq(Policies)
    BY <2>2, <2>3, HeadTailProperties
  <2>5. list' \in [Snapshots -> Seq(Policies)]
    BY <1>0, <2>1, <2>4
  <2> QED
    BY <1>0, <2>1, <2>5
<1>12. ASSUME NEW t \in Threads, Publish(t) PROVE TypeOK'
  <2>1. snap[t] \in Snapshots /\ subject[t] \in Policies
    BY <1>a, <1>12 DEF Publish
  <2>2. Changed(t, list[snap[t]]) \in Seq(Policies) /\ Changed(t, policy) \in Seq(Policies)
    BY <1>0, <2>1, ChangedType
  <2>3. /\ list' = [list EXCEPT ![snap[t]] = Changed(t, list[snap[t]])]
        /\ policy' = Changed(t, policy)
        /\ current' = snap[t]
        /\ excuses' = excuses \cup {"overlap"} \/ excuses' = excuses
        /\ Goto(t, "decrement")
        /\ UNCHANGED <<memory, refCount, req, subject, snap, other, back,
                       damaged, lost, revived, failures>>
    BY <1>12 DEF Publish
  <2> QED
    BY <1>0, <2>1, <2>2, <2>3
<1>13. ASSUME NEW t \in Threads, ProcessFilter_Add_Fails(t) PROVE TypeOK'
  BY <1>0, <1>13 DEF ProcessFilter_Add_Fails
<1>14. ASSUME NEW t \in Threads, CloseProcessFilter(t) PROVE TypeOK'
  BY <1>0, <1>14 DEF CloseProcessFilter, Allocate
<1>15. ASSUME NEW t \in Threads, TouchFreed(t) PROVE TypeOK'
  <2>1. pc[t] \in Accessing
    BY <1>15 DEF TouchFreed, Reading
  <2> QED
    BY <1>0, <1>15, <2>1 DEF TouchFreed
<1> QED
  BY <1>1, <1>2, <1>3, <1>4, <1>5, <1>6, <1>7, <1>8, <1>9, <1>10, <1>11, <1>12, <1>13, <1>14, <1>15, <1>16
     DEF Next, Reader, Writer, Counter

(* what the location of a thread says of its fields, *)
LEMMA ThreadShapeStep ==
  ASSUME Inv, Next
  PROVE  ThreadShape'
<1> USE DEF TypeOK, Locations, Writes
<1>0. TypeOK /\ ThreadShape
  BY DEF Inv
<1>1. ASSUME NEW t \in Threads, Start(t) PROVE ThreadShape'
  BY <1>0, <1>1 DEF Start, Allocate, ThreadShape, Shape
<1>2. ASSUME NEW t \in Threads, ProcessFilter_Ref_Load(t) PROVE ThreadShape'
  BY <1>0, <1>2 DEF ProcessFilter_Ref_Load, ThreadShape, Shape
<1>3. ASSUME NEW t \in Threads, ProcessFilter_Ref_Increment(t) PROVE ThreadShape'
  <2>1. /\ \/ req[t] \in {"match", "count"} /\ Goto(t, req[t])
           \/ req[t] \in Writes /\ Goto(t, "copy")
           \/ req[t] = "clear" /\ Goto(t, "publish")
        /\ pc[t] = "increment"
        /\ UNCHANGED <<req, subject, snap, other, back>>
    BY <1>3 DEF ProcessFilter_Ref_Increment
  <2>2. \A u \in Threads \ {t} : Shape(u)'
    BY <1>0, <2>1, SMTT(30) DEF ThreadShape, Shape
  <2>3. Shape(t) /\ pc[t] = "increment"
    BY <1>0, <2>1 DEF ThreadShape
  <2>4. /\ req'[t] = req[t] /\ subject'[t] = subject[t] /\ snap'[t] = snap[t]
        /\ other'[t] = other[t] /\ back'[t] = back[t]
    BY <2>1
  <2>5. /\ \/ req[t] \notin Writes /\ req[t] # "clear" /\ pc'[t] \in {"match", "count"}
           \/ req[t] \in Writes /\ pc'[t] = "copy"
           \/ req[t] = "clear" /\ pc'[t] = "publish"
    BY <1>0, <2>1
  <2>6. /\ subject[t] \in Policies /\ req[t] \in Requests /\ snap[t] # None
        /\ back[t] = "publish" <=> req[t] \in Writes
        /\ back[t] = "publish" => other[t] # None
    BY <2>3 DEF Shape
  <2>7. Shape(t)'
    BY <2>4, <2>5, <2>6 DEF Shape
  <2> QED
    BY <2>2, <2>7 DEF ThreadShape
<1>4. ASSUME NEW t \in Threads, ProcessFilter_Match(t) PROVE ThreadShape'
  <2>1. CASE Finish(t)
    BY <1>0, <2>1, FinishShape
  <2>2. CASE Goto(t, "use") /\ UNCHANGED <<req, subject, snap, other, back>>
    BY <1>0, <1>4, <2>2 DEF ProcessFilter_Match, ThreadShape, Shape
  <2> QED
    BY <1>4, <2>1, <2>2 DEF ProcessFilter_Match
<1>5. ASSUME NEW t \in Threads, CheckEvent(t) PROVE ThreadShape'
  BY <1>0, <1>5 DEF CheckEvent, ThreadShape, Shape
<1>6. ASSUME NEW t \in Threads, ProcessFilter_Count(t) PROVE ThreadShape'
  BY <1>0, <1>6 DEF ProcessFilter_Count, ThreadShape, Shape
<1>7. ASSUME NEW t \in Threads, ProcessFilter_Clone(t) PROVE ThreadShape'
  BY <1>0, <1>7 DEF ProcessFilter_Clone, ThreadShape, Shape
<1>8. ASSUME NEW t \in Threads, ProcessFilter_Release_Decrement(t) PROVE ThreadShape'
  <2>1. CASE Goto(t, "zero") /\ UNCHANGED <<req, subject, snap, other, back>>
    BY <1>0, <1>8, <2>1 DEF ProcessFilter_Release_Decrement, ThreadShape, Shape
  <2>2. CASE Released(t)
    BY <1>0, <1>8, <2>2, ReleasedShape DEF ProcessFilter_Release_Decrement, Freed
  <2> QED
    BY <1>8, <2>1, <2>2 DEF ProcessFilter_Release_Decrement
<1>9. ASSUME NEW t \in Threads, ProcessFilter_Release_Zero(t) PROVE ThreadShape'
  BY <1>0, <1>9 DEF ProcessFilter_Release_Zero, ThreadShape, Shape
<1>10. ASSUME NEW t \in Threads, ProcessFilter_Release_Test(t) PROVE ThreadShape'
  <2>1. CASE current = snap[t]
    BY <1>0, <1>10, <2>1, ReleasedShape DEF ProcessFilter_Release_Test, Freed
  <2>2. CASE current # snap[t]
    BY <1>0, <1>10, <2>2, SMTT(30) DEF ProcessFilter_Release_Test, ThreadShape, Shape
  <2> QED
    BY <2>1, <2>2
<1>11. ASSUME NEW t \in Threads, ProcessFilter_Release_Free(t) PROVE ThreadShape'
  BY <1>0, <1>11, ReleasedShape DEF ProcessFilter_Release_Free
<1>16. ASSUME NEW t \in Threads, ProcessFilter_Release_Entry(t) PROVE ThreadShape'
  BY <1>0, <1>16, SMTT(30) DEF ProcessFilter_Release_Entry, ThreadShape, Shape
<1>12. ASSUME NEW t \in Threads, Publish(t) PROVE ThreadShape'
  BY <1>0, <1>12, SMTT(30) DEF Publish, ThreadShape, Shape
<1>13. ASSUME NEW t \in Threads, ProcessFilter_Add_Fails(t) PROVE ThreadShape'
  BY <1>0, <1>13, SMTT(30) DEF ProcessFilter_Add_Fails, ThreadShape, Shape
<1>14. ASSUME NEW t \in Threads, CloseProcessFilter(t) PROVE ThreadShape'
  BY <1>0, <1>14, SMTT(30) DEF CloseProcessFilter, Allocate, ThreadShape, Shape
<1>15. ASSUME NEW t \in Threads, TouchFreed(t) PROVE ThreadShape'
  BY <1>0, <1>15 DEF TouchFreed, ThreadShape, Shape
<1> QED
  BY <1>1, <1>2, <1>3, <1>4, <1>5, <1>6, <1>7, <1>8, <1>9, <1>10, <1>11, <1>12, <1>13, <1>14, <1>15, <1>16
     DEF Next, Reader, Writer, Counter

(* what keeps a change in preparation apart from everything else, *)
LEMMA SnapshotsApartStep ==
  ASSUME Inv, Next
  PROVE  SnapshotsApart'
<1> USE DEF TypeOK, Locations, Writes
<1>0. TypeOK /\ ThreadShape /\ SnapshotsApart
  BY DEF Inv
<1>1. ASSUME NEW t \in Threads, Start(t) PROVE SnapshotsApart'
  BY <1>0, <1>1, SMTT(30) DEF Start, Allocate, ThreadShape, Shape, SnapshotsApart, Apart, CurrentLive, Mine
<1>2. ASSUME NEW t \in Threads, ProcessFilter_Ref_Load(t) PROVE SnapshotsApart'
  BY <1>0, <1>2 DEF ProcessFilter_Ref_Load, ThreadShape, Shape, SnapshotsApart, Apart, CurrentLive, Mine
<1>3. ASSUME NEW t \in Threads, ProcessFilter_Ref_Increment(t) PROVE SnapshotsApart'
  <2>1. /\ \/ req[t] \in {"match", "count"} /\ Goto(t, req[t])
           \/ req[t] \in Writes /\ Goto(t, "copy")
           \/ req[t] = "clear" /\ Goto(t, "publish")
        /\ pc[t] = "increment"
        /\ UNCHANGED <<current, memory, req, subject, snap, other, back>>
    BY <1>3 DEF ProcessFilter_Ref_Increment
  <2>2. \A u \in Threads : Mine(u)' = Mine(u)
    BY <1>0, <2>1 DEF Mine, ThreadShape, Shape
  <2>3. \A u \in Threads : Apart(u)'
    BY <1>0, <2>1, <2>2 DEF SnapshotsApart, Apart
  <2> QED
    BY <1>0, <2>1, <2>3 DEF SnapshotsApart, CurrentLive
<1>4. ASSUME NEW t \in Threads, ProcessFilter_Match(t) PROVE SnapshotsApart'
  <2>1. Mine(t) = None /\ snap[t] \in Snapshots /\ Freed(t) /\ UNCHANGED <<current, memory>>
    BY <1>0, <1>4, Subjects DEF ProcessFilter_Match, Mine, ThreadShape, Shape, Freed
  <2>2. CASE Finish(t)
    BY <1>0, <2>1, <2>2, FinishApart
  <2>3. CASE Goto(t, "use") /\ UNCHANGED <<req, subject, snap, other, back>>
    BY <1>0, <1>4, <2>1, <2>3 DEF ProcessFilter_Match, SnapshotsApart, Apart, CurrentLive, Mine
  <2> QED
    BY <1>4, <2>2, <2>3 DEF ProcessFilter_Match
<1>5. ASSUME NEW t \in Threads, CheckEvent(t) PROVE SnapshotsApart'
  BY <1>0, <1>5 DEF CheckEvent, ThreadShape, Shape, SnapshotsApart, Apart, CurrentLive, Mine
<1>6. ASSUME NEW t \in Threads, ProcessFilter_Count(t) PROVE SnapshotsApart'
  BY <1>0, <1>6 DEF ProcessFilter_Count, ThreadShape, Shape, SnapshotsApart, Apart, CurrentLive, Mine
<1>7. ASSUME NEW t \in Threads, ProcessFilter_Clone(t) PROVE SnapshotsApart'
  BY <1>0, <1>7, SMTT(30) DEF ProcessFilter_Clone, ThreadShape, Shape, SnapshotsApart, Apart, CurrentLive, Mine
<1>8. ASSUME NEW t \in Threads, ProcessFilter_Release_Decrement(t) PROVE SnapshotsApart'
  <2>1. CASE Goto(t, "zero") /\ UNCHANGED <<req, subject, snap, other, back>>
    BY <1>0, <1>8, <2>1 DEF ProcessFilter_Release_Decrement, ThreadShape, Shape, SnapshotsApart, Apart, CurrentLive, Mine
  <2>2. CASE Released(t)
    BY <1>0, <1>8, <2>2, ReleasedApart DEF ProcessFilter_Release_Decrement, Freed
  <2> QED
    BY <1>8, <2>1, <2>2 DEF ProcessFilter_Release_Decrement
<1>9. ASSUME NEW t \in Threads, ProcessFilter_Release_Zero(t) PROVE SnapshotsApart'
  BY <1>0, <1>9 DEF ProcessFilter_Release_Zero, ThreadShape, Shape, SnapshotsApart, Apart, CurrentLive, Mine
<1>10. ASSUME NEW t \in Threads, ProcessFilter_Release_Test(t) PROVE SnapshotsApart'
  <2>1. CASE current = snap[t]
    BY <1>0, <1>10, <2>1, ReleasedApart DEF ProcessFilter_Release_Test, Freed
  <2>2. CASE current # snap[t]
    BY <1>0, <1>10, <2>2 DEF ProcessFilter_Release_Test, ThreadShape, Shape, SnapshotsApart, Apart, CurrentLive, Mine
  <2> QED
    BY <2>1, <2>2
<1>11. ASSUME NEW t \in Threads, ProcessFilter_Release_Free(t) PROVE SnapshotsApart'
  <2>1. pc[t] \in Freeing /\ snap[t] # current
    BY <1>0, <1>11 DEF ProcessFilter_Release_Free, SnapshotsApart, Apart
  <2> QED
    BY <1>0, <1>11, <2>1, ReleasedApart DEF ProcessFilter_Release_Free, Freed
<1>16. ASSUME NEW t \in Threads, ProcessFilter_Release_Entry(t) PROVE SnapshotsApart'
  <2>1. /\ pc[t] \in Freeing /\ pc' = [pc EXCEPT ![t] = "emptying"]
        /\ UNCHANGED <<current, memory, req, snap, other, back>>
    BY <1>16 DEF ProcessFilter_Release_Entry
  <2>2. \A u \in Threads : Mine(u)' = Mine(u) /\ (pc'[u] \in Freeing <=> pc[u] \in Freeing)
    BY <1>0, <2>1 DEF Mine
  <2>3. \A u \in Threads : Apart(u)'
    BY <1>0, <2>1, <2>2 DEF SnapshotsApart, Apart
  <2> QED
    BY <1>0, <2>1, <2>3 DEF SnapshotsApart, CurrentLive
<1>12. ASSUME NEW t \in Threads, Publish(t) PROVE SnapshotsApart'
  <2> DEFINE s == snap[t]
  <2>1. /\ pc[t] = "publish" /\ req[t] \in Writes /\ memory[s] = "live"
        /\ current' = s /\ pc' = [pc EXCEPT ![t] = "decrement"]
        /\ UNCHANGED <<memory, req, snap, other, back>>
    BY <1>12 DEF Publish
  <2>2. Mine(t) = s /\ s \in Snapshots /\ Mine(t)' = None
    BY <1>0, <2>1, Subjects DEF Mine, ThreadShape, Shape
  <2>3. \A u \in Threads \ {t} :
          /\ pc'[u] = pc[u] /\ Mine(u)' = Mine(u)
          /\ snap[u] # s /\ other[u] # s
    BY <1>0, <2>1, <2>2, ZenonT(30) DEF Mine, SnapshotsApart, Apart
  <2>4. \A u \in Threads \ {t} : Mine(u) # s
    BY <2>2, <2>3 DEF Mine
  <2>5. \A u \in Threads : Apart(u)'
    BY <1>0, <2>1, <2>2, <2>3, <2>4 DEF SnapshotsApart, Apart
  <2> QED
    BY <2>1, <2>5 DEF SnapshotsApart, CurrentLive
<1>13. ASSUME NEW t \in Threads, ProcessFilter_Add_Fails(t) PROVE SnapshotsApart'
  BY <1>0, <1>13, SMTT(30) DEF ProcessFilter_Add_Fails, ThreadShape, Shape, SnapshotsApart, Apart, CurrentLive, Mine
<1>14. ASSUME NEW t \in Threads, CloseProcessFilter(t) PROVE SnapshotsApart'
  <2>1. PICK s \in Snapshots : memory[s] = "unused" /\ current' = s
                            /\ memory' = [memory EXCEPT ![s] = "live"]
    BY <1>14 DEF CloseProcessFilter, Allocate
  <2>2. /\ pc[t] = "publish" /\ req[t] = "clear"
        /\ pc' = [pc EXCEPT ![t] = "decrement"]
        /\ UNCHANGED <<req, snap, other, back>>
    BY <1>14 DEF CloseProcessFilter
  <2>3. \A u \in Threads : Mine(u)' = Mine(u)
    BY <1>0, <2>2 DEF Mine
  <2>4. \A u \in Threads : /\ snap[u] # s /\ other[u] # s /\ Mine(u) # s
                           /\ Apart(u)
    BY <1>0, <2>1, SMTT(30) DEF SnapshotsApart, Apart, Mine
  <2>5. \A u \in Threads : Mine(u) # None => Mine(u) \in Snapshots
    BY <1>0 DEF Mine
  <2>6. \A u \in Threads : Apart(u)'
    BY <1>0, <2>1, <2>2, <2>3, <2>4, <2>5 DEF Apart
  <2> QED
    BY <1>0, <2>1, <2>6 DEF SnapshotsApart, CurrentLive
<1>15. ASSUME NEW t \in Threads, TouchFreed(t) PROVE SnapshotsApart'
  BY <1>0, <1>15 DEF TouchFreed, ThreadShape, Shape, SnapshotsApart, Apart, CurrentLive, Mine
<1> QED
  BY <1>1, <1>2, <1>3, <1>4, <1>5, <1>6, <1>7, <1>8, <1>9, <1>10, <1>11, <1>12, <1>13, <1>14, <1>15, <1>16
     DEF Next, Reader, Writer, Counter

(* and what makes the list in force the one that was asked for. *)
LEMMA ClonesExactStep ==
  ASSUME Inv, Next
  PROVE  ClonesExact'
<1> USE DEF Locations
<1>0. TypeOK /\ ThreadShape /\ SnapshotsApart /\ ClonesExact
  BY DEF Inv
<1>a. \A t \in Threads : pc[t] \notin {"idle", "load"} => snap[t] \in Snapshots
  BY <1>0, Subjects
<1>t. /\ pc \in [Threads -> Locations] /\ back \in [Threads -> {"idle", "publish"}]
      /\ list \in [Snapshots -> Seq(Policies)] /\ current \in Snapshots
      /\ memory \in [Snapshots -> {"unused", "live", "freed"}]
  BY <1>0 DEF TypeOK
(* A step that changes no list. *)
<1>b. ASSUME NEW t \in Threads, UNCHANGED <<list, current, policy, excuses>>,
             OthersKeep(t), StillCloned(t),
             \A s \in Snapshots : memory'[s] = "unused" => memory[s] = "unused"
      PROVE  ClonesExact'
  <2>1. \A u \in Threads : StillCloned(u)
    BY <1>b, OthersStillCloned
  <2>2. \A s \in Snapshots : memory'[s] = "unused" => list'[s] = <<>>
    BY <1>0, <1>b DEF ClonesExact
  <2> QED
    BY <1>0, <1>b, <2>1, <2>2, ExactFrame
(* A step in which t only goes to a location where it has no clone, or     *)
(* from one location with a clone to another.                              *)
<1>c. ASSUME NEW t \in Threads, NEW l, Goto(t, l),
             UNCHANGED <<list, current, policy, excuses, memory, req, other, back>>,
             \A u \in Threads \ {t} : snap'[u] = snap[u],
             \/ l \notin Dropping \cup {"decrement", "publish"}
             \/ back[t] = "idle" /\ l # "publish"
             \/ l = "publish" /\ req[t] \notin Writes /\ back[t] = "idle"
             \/ pc[t] \in Dropping \cup {"decrement"} /\ l \in Dropping /\ snap' = snap
      PROVE  ClonesExact'
  <2>1. OthersKeep(t) /\ pc'[t] = l
    BY <1>t, <1>c DEF OthersKeep
  <2>2. StillCloned(t)
    BY <1>t, <1>c, <2>1 DEF StillCloned, Cloned, Mine, Original, Dropping
  <2> QED
    BY <1>b, <1>c, <2>1, <2>2
<1>1. ASSUME NEW t \in Threads, Start(t) PROVE ClonesExact'
  <2>1. /\ pc[t] = "idle" /\ pc' = [pc EXCEPT ![t] = "load"]
        /\ UNCHANGED <<list, current, policy, excuses, snap>>
        /\ \E r \in Requests : req' = [req EXCEPT ![t] = r]
        /\ \/ /\ \E s \in Snapshots : /\ memory' = [memory EXCEPT ![s] = "live"]
                                        /\ other' = [other EXCEPT ![t] = s]
              /\ back' = [back EXCEPT ![t] = "publish"]
           \/ UNCHANGED <<memory, other, back>>
    BY <1>1 DEF Start, Allocate
  <2>2. OthersKeep(t) /\ pc'[t] = "load"
    BY <1>0, <2>1 DEF OthersKeep, TypeOK
  <2>3. StillCloned(t)
    BY <2>2 DEF StillCloned, Cloned, Dropping
  <2>4. \A s \in Snapshots : memory'[s] = "unused" => memory[s] = "unused"
    BY <1>t, <2>1
  <2> QED
    BY <1>b, <2>1, <2>2, <2>3, <2>4
<1>2. ASSUME NEW t \in Threads, ProcessFilter_Ref_Load(t) PROVE ClonesExact'
  <2>1. /\ Goto(t, "increment") /\ "increment" \notin Dropping \cup {"decrement", "publish"}
        /\ UNCHANGED <<list, current, policy, excuses, memory, req, other, back>>
        /\ \A u \in Threads \ {t} : snap'[u] = snap[u]
    BY <1>0, <1>2 DEF ProcessFilter_Ref_Load, TypeOK, Dropping
  <2> QED
    BY <1>c, <2>1
<1>3. ASSUME NEW t \in Threads, ProcessFilter_Ref_Increment(t) PROVE ClonesExact'
  <2>1. /\ \E l : /\ Goto(t, l)
                  /\ \/ l \notin Dropping \cup {"decrement", "publish"}
                     \/ l = "publish" /\ req[t] \notin Writes
        /\ pc[t] = "increment"
        /\ UNCHANGED <<list, current, policy, excuses, memory, req, snap, other, back>>
    BY <1>3 DEF ProcessFilter_Ref_Increment, Dropping, Writes
  <2>2. req[t] \notin Writes => back[t] = "idle"
    BY <1>0, <1>t DEF ThreadShape, Shape
  <2> QED
    BY <1>c, <2>1, <2>2
<1>4. ASSUME NEW t \in Threads, ProcessFilter_Match(t) PROVE ClonesExact'
  <2>1. UNCHANGED <<current, memory, list, policy, excuses>>
    BY <1>4 DEF ProcessFilter_Match
  <2>2. CASE Finish(t)
    BY <1>0, <1>b, <2>1, <2>2, FinishCloned
  <2>3. CASE Goto(t, "use") /\ UNCHANGED <<req, subject, snap, other, back>>
    BY <1>c, <2>1, <2>3 DEF Dropping
  <2> QED
    BY <1>4, <2>2, <2>3 DEF ProcessFilter_Match
<1>5. ASSUME NEW t \in Threads, CheckEvent(t) PROVE ClonesExact'
  <2>1. /\ Goto(t, "decrement") /\ pc[t] \in {"use", "count"}
        /\ UNCHANGED <<list, current, policy, excuses, memory, req, snap, other, back>>
    BY <1>5 DEF CheckEvent
  <2>2. back[t] = "idle"
    BY <1>0, <1>t, <2>1 DEF ThreadShape, Shape
  <2> QED
    BY <1>c, <2>1, <2>2
<1>6. ASSUME NEW t \in Threads, ProcessFilter_Count(t) PROVE ClonesExact'
  <2>1. /\ Goto(t, "decrement") /\ pc[t] \in {"use", "count"}
        /\ UNCHANGED <<list, current, policy, excuses, memory, req, snap, other, back>>
    BY <1>6 DEF ProcessFilter_Count
  <2>2. back[t] = "idle"
    BY <1>0, <1>t, <2>1 DEF ThreadShape, Shape
  <2> QED
    BY <1>c, <2>1, <2>2
<1>7. ASSUME NEW t \in Threads, ProcessFilter_Clone(t) PROVE ClonesExact'
  <2> DEFINE s == other[t]
  <2>1. /\ pc[t] = "copy" /\ pc' = [pc EXCEPT ![t] = "decrement"]
        /\ UNCHANGED <<current, memory, policy, req, snap, other, back>>
        /\ \/ list' = [list EXCEPT ![s] = list[snap[t]]] /\ UNCHANGED excuses
           \/ /\ \E n \in 0 .. Len(list[snap[t]]) - 1 :
                    list' = [list EXCEPT ![s] = SubSeq(list[snap[t]], 1, n)]
              /\ excuses' = excuses \cup {"truncated"}
    BY <1>7 DEF ProcessFilter_Clone
  <2>2. /\ back[t] = "publish" /\ Mine(t) = s /\ s \in Snapshots
        /\ s # snap[t] /\ s # current /\ memory[s] = "live"
        /\ \A u \in Threads \ {t} : snap[u] # s /\ other[u] # s
    BY <1>0, <2>1, Subjects DEF ThreadShape, Shape, Mine, SnapshotsApart, Apart
  <2>3. \A r \in Snapshots \ {s} : list'[r] = list[r]
    BY <1>t, <2>1
  <2>4. \A r \in Snapshots : memory'[r] = "unused" => list'[r] = <<>>
    BY <1>0, <2>1, <2>2, <2>3 DEF ClonesExact
  <2>5. OthersKeep(t)
    BY <1>t, <2>1 DEF OthersKeep
  <2>6. CASE excuses' = excuses /\ list' = [list EXCEPT ![s] = list[snap[t]]]
    <3>1. ASSUME NEW u \in Threads, Cloned(u)', excuses = {}, Original(u)' = current
          PROVE  list'[Mine(u)'] = list'[current]
      <4>1. CASE u = t
        <5>1. Mine(t)' = s /\ Original(t)' = snap[t]
          BY <2>1, <2>2 DEF Mine, Original
        <5>2. list'[s] = list[snap[t]]
          BY <1>t, <2>2, <2>6
        <5> QED
          BY <1>t, <2>2, <2>3, <3>1, <4>1, <5>1, <5>2
      <4>2. CASE u # t
        <5>1. Cloned(u) /\ Mine(u)' = Mine(u) /\ Original(u) = current
          BY <2>5, <3>1, <4>2, OthersStillCloned
        <5>2. Mine(u) # s /\ Mine(u) \in Snapshots
          BY <1>0, <2>2, <4>2, <5>1, Prepared
        <5>3. list[Mine(u)] = list[current]
          BY <1>0, <3>1, <5>1 DEF ClonesExact
        <5> QED
          BY <1>t, <2>2, <2>3, <5>1, <5>2, <5>3
      <4> QED
        BY <4>1, <4>2
    <3>2. UpdatesKept'
      BY <1>0, <1>t, <2>1, <2>2, <2>3, <2>6 DEF ClonesExact, UpdatesKept
    <3> QED
      BY <2>1, <2>4, <2>6, <3>1, <3>2 DEF ClonesExact
  <2>7. CASE excuses' = excuses \cup {"truncated"}
    <3>1. excuses' # {}
      BY <2>7
    <3> QED
      BY <2>4, <3>1 DEF ClonesExact, UpdatesKept
  <2> QED
    BY <2>1, <2>6, <2>7
<1>8. ASSUME NEW t \in Threads, ProcessFilter_Release_Decrement(t) PROVE ClonesExact'
  <2>1. pc[t] = "decrement" /\ UNCHANGED <<current, memory, list, policy, excuses>>
    BY <1>8 DEF ProcessFilter_Release_Decrement
  <2>2. CASE Goto(t, "zero") /\ UNCHANGED <<req, subject, snap, other, back>>
    BY <1>c, <2>1, <2>2 DEF Dropping
  <2>3. CASE Released(t)
    BY <1>0, <1>b, <2>1, <2>3, ReleasedCloned
  <2> QED
    BY <1>8, <2>2, <2>3 DEF ProcessFilter_Release_Decrement
<1>9. ASSUME NEW t \in Threads, ProcessFilter_Release_Zero(t) PROVE ClonesExact'
  <2>1. /\ pc[t] \in Dropping /\ "test" \in Dropping /\ Goto(t, "test")
        /\ UNCHANGED <<list, current, policy, excuses, memory, req, snap, other, back>>
    BY <1>9 DEF ProcessFilter_Release_Zero, Dropping
  <2> QED
    BY <1>c, <2>1
<1>10. ASSUME NEW t \in Threads, ProcessFilter_Release_Test(t) PROVE ClonesExact'
  <2>1. pc[t] = "test" /\ UNCHANGED <<current, memory, list, policy, excuses>>
    BY <1>10 DEF ProcessFilter_Release_Test
  <2>2. CASE Goto(t, "free") /\ UNCHANGED <<req, subject, snap, other, back>>
    BY <1>c, <2>1, <2>2 DEF Dropping
  <2>3. CASE Released(t)
    BY <1>0, <1>b, <2>1, <2>3, ReleasedCloned
  <2> QED
    BY <1>10, <2>2, <2>3 DEF ProcessFilter_Release_Test
<1>11. ASSUME NEW t \in Threads, ProcessFilter_Release_Free(t) PROVE ClonesExact'
  <2>1. /\ pc[t] \in {"free", "emptying"} /\ UNCHANGED <<current, list, policy, excuses>>
        /\ Released(t) /\ memory' = [memory EXCEPT ![snap[t]] = "freed"]
    BY <1>11 DEF ProcessFilter_Release_Free
  <2>2. \A s \in Snapshots : memory'[s] = "unused" => memory[s] = "unused"
    BY <1>t, <2>1
  <2> QED
    BY <1>0, <1>b, <2>1, <2>2, ReleasedCloned
<1>16. ASSUME NEW t \in Threads, ProcessFilter_Release_Entry(t) PROVE ClonesExact'
  <2>1. /\ pc[t] \in Freeing /\ Goto(t, "emptying") /\ memory[snap[t]] = "live"
        /\ list' = [list EXCEPT ![snap[t]] = Tail(list[snap[t]])]
        /\ UNCHANGED <<current, memory, policy, excuses, req, snap, other, back>>
    BY <1>16 DEF ProcessFilter_Release_Entry
  <2>2. snap[t] \in Snapshots /\ snap[t] # current
    BY <1>0, <1>a, <2>1 DEF SnapshotsApart, Apart
  <2>3. \A s \in Snapshots \ {snap[t]} : list'[s] = list[s]
    BY <1>t, <2>1
  <2>4. OthersKeep(t) /\ pc'[t] = "emptying"
    BY <1>t, <2>1 DEF OthersKeep
  <2>5. StillCloned(t)
    BY <2>1, <2>4 DEF StillCloned, Cloned, Mine, Original, Dropping
  <2>6. \A u \in Threads : StillCloned(u)
    BY <2>4, <2>5, OthersStillCloned
  <2>7. ASSUME NEW u \in Threads, Cloned(u) PROVE list'[Mine(u)] = list[Mine(u)]
    <3>1. Mine(u) \in Snapshots
      BY <1>0, <2>7, Prepared
    <3>2. Mine(u) # snap[t]
      <4>1. CASE u = t
        <5>1. Original(t) = snap[t]
          BY <2>1, <2>7, <4>1 DEF Original, Cloned
        <5> QED
          BY <1>0, <2>7, <4>1, <5>1, Prepared
      <4>2. CASE u # t
        BY <1>0, <2>7, <4>2, Prepared
      <4> QED
        BY <4>1, <4>2
    <3> QED
      BY <2>3, <3>1, <3>2
  <2>8. \A s \in Snapshots : memory'[s] = "unused" => list'[s] = <<>>
    BY <1>0, <2>1, <2>3 DEF ClonesExact
  <2>9. list'[current] = list[current]
    BY <1>t, <2>2, <2>3
  <2> QED
    BY <1>0, <2>1, <2>6, <2>7, <2>8, <2>9, ExactFrame
<1>12. ASSUME NEW t \in Threads, Publish(t) PROVE ClonesExact'
  <2> DEFINE s == snap[t]
  <2>1. /\ pc[t] = "publish" /\ req[t] \in Writes /\ memory[s] = "live"
        /\ list' = [list EXCEPT ![s] = Changed(t, list[s])]
        /\ current' = s /\ policy' = Changed(t, policy)
        /\ pc' = [pc EXCEPT ![t] = "decrement"]
        /\ UNCHANGED <<memory, req, snap, other, back>>
        /\ IF current # other[t] THEN excuses' = excuses \cup {"overlap"}
                                 ELSE excuses' = excuses
    BY <1>12 DEF Publish
  <2>2. /\ s \in Snapshots /\ Mine(t) = s /\ back[t] = "idle" /\ Cloned(t)
        /\ Original(t) = other[t]
        /\ \A u \in Threads \ {t} : snap[u] # s /\ other[u] # s
    BY <1>0, <2>1, Subjects
       DEF ThreadShape, Shape, Mine, Cloned, Original, SnapshotsApart, Apart, TypeOK
  <2>3. \A r \in Snapshots \ {s} : list'[r] = list[r]
    BY <1>t, <2>1
  <2>4. \A r \in Snapshots : memory'[r] = "unused" => list'[r] = <<>>
    BY <1>0, <2>1, <2>3 DEF ClonesExact
  <2>5. OthersKeep(t) /\ ~Cloned(t)'
    BY <1>t, <2>1, <2>2 DEF OthersKeep, Cloned, Dropping
  <2>6. CASE current = other[t]
    <3>1. excuses' = excuses
      BY <2>1, <2>6
    <3>2. excuses = {} => list[s] = policy
      BY <1>0, <2>2, <2>6 DEF ClonesExact, UpdatesKept
    <3>3. UpdatesKept'
      <4>1. list'[s] = Changed(t, list[s])
        BY <1>t, <2>1, <2>2
      <4> QED
        BY <2>1, <3>1, <3>2, <4>1 DEF UpdatesKept
    <3>4. ASSUME NEW u \in Threads, Cloned(u)' PROVE Original(u)' # s
      <4>1. u # t /\ Cloned(u) /\ Original(u)' = Original(u)
        BY <2>5, <3>4, OthersStillCloned
      <4> QED
        BY <2>2, <4>1 DEF Original
    <3> QED
      BY <2>1, <2>4, <3>3, <3>4 DEF ClonesExact
  <2>7. CASE current # other[t]
    <3>1. excuses' # {}
      BY <2>1, <2>7
    <3> QED
      BY <2>4, <3>1 DEF ClonesExact, UpdatesKept
  <2> QED
    BY <2>6, <2>7
<1>13. ASSUME NEW t \in Threads, ProcessFilter_Add_Fails(t) PROVE ClonesExact'
  <2>1. /\ pc[t] = "publish" /\ req[t] = "add" /\ Goto(t, "decrement")
        /\ UNCHANGED <<list, current, policy, excuses, memory, req, snap, other, back>>
    BY <1>13 DEF ProcessFilter_Add_Fails
  <2>2. back[t] = "idle"
    BY <1>0, <1>t, <2>1 DEF ThreadShape, Shape
  <2> QED
    BY <1>c, <2>1, <2>2
<1>14. ASSUME NEW t \in Threads, CloseProcessFilter(t) PROVE ClonesExact'
  <2>1. PICK s \in Snapshots : memory[s] = "unused" /\ current' = s
                            /\ memory' = [memory EXCEPT ![s] = "live"]
    BY <1>14 DEF CloseProcessFilter, Allocate
  <2>2. /\ policy' = <<>> /\ list' = list /\ excuses' = excuses
        /\ req' = req /\ snap' = snap /\ other' = other /\ back' = back
        /\ pc' = [pc EXCEPT ![t] = "decrement"]
        /\ pc[t] = "publish" /\ req[t] = "clear"
    BY <1>14 DEF CloseProcessFilter, Goto
  <2>3. UpdatesKept'
    BY <1>0, <2>1, <2>2 DEF ClonesExact, UpdatesKept
  <2>4. \A r \in Snapshots : memory'[r] = "unused" => list'[r] = <<>>
    BY <1>0, <1>t, <2>1, <2>2 DEF ClonesExact
  <2>5. OthersKeep(t) /\ ~Cloned(t)'
    BY <1>0, <1>t, <2>2 DEF OthersKeep, Cloned, Dropping, ThreadShape, Shape
  <2>6. ASSUME NEW u \in Threads, Cloned(u)' PROVE Original(u)' # s
    <3>1. u # t /\ Cloned(u) /\ Original(u)' = Original(u)
      BY <2>5, <2>6, OthersStillCloned
    <3> QED
      BY <1>0, <2>1, <3>1, Prepared
  <2> QED
    BY <2>1, <2>3, <2>4, <2>6 DEF ClonesExact
<1>15. ASSUME NEW t \in Threads, TouchFreed(t) PROVE ClonesExact'
  BY <1>0, <1>15 DEF TouchFreed, ClonesExact, UpdatesKept, Cloned, Original, Mine
<1> QED
  BY <1>1, <1>2, <1>3, <1>4, <1>5, <1>6, <1>7, <1>8, <1>9, <1>10, <1>11, <1>12, <1>13, <1>14, <1>15, <1>16
     DEF Next, Reader, Writer, Counter

-----------------------------------------------------------------------------
(* The users of a snapshot, as one thread moves. *)

(* The threads other than t stay where they are. *)
OthersStay(t) ==
  \A u \in Threads \ {t} : /\ pc'[u] = pc[u] /\ snap'[u] = snap[u]
                           /\ other'[u] = other[u] /\ back'[u] = back[u]

(* A snapshot has finitely many users. *)
LEMMA UsersFinite ==
  ASSUME NEW s
  PROVE  /\ IsFiniteSet(Users(s)) /\ Cardinality(Users(s)) \in Nat
         /\ Cardinality(Users(s)) = 0 <=> Users(s) = {}
<1>1. Users(s) \in SUBSET Threads
  BY DEF Users
<1> QED
  BY <1>1, ThreadsFinite, FS_Subset, FS_CardinalityType, FS_EmptySet

(* When t alone moves, the number of users changes by what t was and is.   *)
LEMMA UsersMove ==
  ASSUME NEW t \in Threads, OthersStay(t), NEW s
  PROVE  /\ Cardinality(Users(s)) \in Nat /\ Cardinality(Users(s)') \in Nat
         /\ Cardinality(Users(s)') = Cardinality(Users(s))
               + (IF Uses(t, s)' THEN 1 ELSE 0) - (IF Uses(t, s) THEN 1 ELSE 0)
<1> DEFINE A == Users(s)
           B == {u \in Threads : Uses(u, s)'}
<1>0. B = Users(s)'
  BY DEF Users
<1>1. A \ {t} = B \ {t}
  BY DEF Users, Uses, OthersStay
<1>2. IsFiniteSet(A) /\ A \in SUBSET Threads /\ B \in SUBSET Threads
  BY UsersFinite DEF Users
<1>3. IsFiniteSet(B)
  BY <1>2, ThreadsFinite, FS_Subset
<1>4. t \in A <=> Uses(t, s)
  BY DEF Users
<1>5. t \in B <=> Uses(t, s)'
  OBVIOUS
<1> HIDE DEF A, B
<1>6. /\ Cardinality(A \ {t}) = IF t \in A THEN Cardinality(A) - 1 ELSE Cardinality(A)
      /\ Cardinality(B \ {t}) = IF t \in B THEN Cardinality(B) - 1 ELSE Cardinality(B)
  BY <1>2, <1>3, FS_RemoveElement
<1>7. Cardinality(A) \in Nat /\ Cardinality(B) \in Nat
  BY <1>2, <1>3, FS_CardinalityType
<1>8. Cardinality(B) = Cardinality(A) + (IF t \in B THEN 1 ELSE 0) - (IF t \in A THEN 1 ELSE 0)
  BY <1>1, <1>6, <1>7
<1> QED
  BY <1>0, <1>4, <1>5, <1>7, <1>8 DEF A

(* After a release, t is a user of the snapshot it has prepared, if any.   *)
LEMMA ReleasedUses ==
  ASSUME TypeOK, ThreadShape, SnapshotsApart, NEW t \in Threads, Released(t),
         pc[t] \in {"decrement", "test", "free", "emptying"}
  PROVE  /\ OthersStay(t) /\ pc'[t] \in {"idle", "publish"}
         /\ \A s \in Snapshots : /\ Uses(t, s)' <=> (back[t] = "publish" /\ other[t] = s)
                                 /\ s = snap[t] => ~Uses(t, s)'
                                 /\ Uses(t, s) <=> \/ back[t] = "publish" /\ other[t] = s
                                                   \/ pc[t] = "decrement" /\ s = snap[t]
<1>0. ThreadType
  BY DEF ThreadType, TypeOK
<1>1. CASE back[t] = "publish"
  <2>1. /\ pc' = [pc EXCEPT ![t] = "publish"]
        /\ snap' = [snap EXCEPT ![t] = other[t]]
        /\ other' = [other EXCEPT ![t] = snap[t]]
        /\ back' = [back EXCEPT ![t] = "idle"]
    BY <1>1 DEF Released
  <2>2. snap[t] # other[t]
    BY <1>1 DEF SnapshotsApart, Apart, Mine, ThreadShape, Shape
  <2> QED
    BY <1>0, <1>1, <2>1, <2>2 DEF ThreadType, OthersStay, Uses, Reading
<1>2. CASE back[t] = "idle"
  <2>1. /\ pc' = [pc EXCEPT ![t] = "idle"]
        /\ snap' = [snap EXCEPT ![t] = None]
        /\ other' = [other EXCEPT ![t] = None]
        /\ back' = [back EXCEPT ![t] = "idle"]
    BY <1>2 DEF Released, Finish
  <2> QED
    BY <1>0, <1>2, <2>1 DEF ThreadType, OthersStay, Uses, Reading
<1> QED
  BY <1>0, <1>1, <1>2 DEF ThreadType

-----------------------------------------------------------------------------
(* The counts of the snapshots. *)

Counts == CountsExact /\ DropsAlone

(* The count of snapshot s follows what a step of t does: t may become a   *)
(* user of it, or cease to be one, and may lose its reference.             *)
Balanced(t, s) ==
  /\ memory'[s] = "live" /\ memory[s] = "live"
     => refCount'[s] - lost'[s] = refCount[s] - lost[s]
           + (IF Uses(t, s)' THEN 1 ELSE 0) - (IF Uses(t, s) THEN 1 ELSE 0)
  /\ memory'[s] = "live" /\ memory[s] # "live"
     => /\ memory[s] = "unused" /\ lost'[s] = lost[s]
        /\ refCount'[s] = IF Uses(t, s)' THEN 1 ELSE 0
  /\ memory'[s] # "live"
     => ~Uses(t, s)' /\ (memory[s] = "live" => \A u \in Threads \ {t} : ~Uses(u, s))
  /\ memory'[s] = "unused" => memory[s] = "unused" /\ lost'[s] = lost[s]

(* A snapshot that another thread is about to drop is left alone, and t is *)
(* alone in dropping one, when its count is zero.                          *)
Drops(t) ==
  /\ \A u \in Threads \ {t} :
       pc[u] \in Dropping /\ snap[u] \notin revived'
       => memory'[snap[u]] = memory[snap[u]] /\ refCount'[snap[u]] = refCount[snap[u]]
  /\ pc'[t] \in Dropping /\ snap'[t] \notin revived'
     => /\ memory'[snap'[t]] = "live" /\ refCount'[snap'[t]] = 0
        /\ \A u \in Threads \ {t} : pc[u] \in Dropping => snap[u] # snap'[t]

(* Such a step keeps the counts. *)
LEMMA CountsFollow ==
  ASSUME TypeOK, TypeOK', ThreadShape, Counts, NEW t \in Threads, OthersStay(t),
         revived \subseteq revived', Drops(t), \A s \in Snapshots \ revived' : Balanced(t, s)
  PROVE  Counts'
<1>0. /\ refCount \in [Snapshots -> Int] /\ refCount' \in [Snapshots -> Int]
      /\ lost \in [Snapshots -> Nat] /\ lost' \in [Snapshots -> Nat]
      /\ memory \in [Snapshots -> {"unused", "live", "freed"}]
      /\ memory' \in [Snapshots -> {"unused", "live", "freed"}]
  BY DEF TypeOK
<1>1. ASSUME NEW s \in Snapshots, s \notin revived'
      PROVE  /\ memory'[s] = "live" => refCount'[s] = Cardinality(Users(s)') + lost'[s]
             /\ memory'[s] # "live" => Users(s)' = {}
             /\ memory'[s] = "unused" => lost'[s] = 0
  <2>1. /\ memory[s] = "live" => refCount[s] = Cardinality(Users(s)) + lost[s]
        /\ memory[s] # "live" => Users(s) = {}
        /\ memory[s] = "unused" => lost[s] = 0
    BY <1>1 DEF Counts, CountsExact
  <2>2. /\ Cardinality(Users(s)) \in Nat /\ Cardinality(Users(s)') \in Nat
        /\ Cardinality(Users(s)') = Cardinality(Users(s))
              + (IF Uses(t, s)' THEN 1 ELSE 0) - (IF Uses(t, s) THEN 1 ELSE 0)
    BY UsersMove
  <2>3. /\ refCount[s] \in Int /\ refCount'[s] \in Int /\ lost[s] \in Nat /\ lost'[s] \in Nat
    BY <1>0
  <2>4. memory[s] # "live" => ~Uses(t, s) /\ Cardinality(Users(s)) = 0
    <3>1. memory[s] # "live" => ~Uses(t, s)
      BY <2>1 DEF Users
    <3> QED
      BY <2>1, <3>1, UsersFinite
  <2>5. ASSUME memory'[s] # "live" PROVE Users(s)' = {}
    <3>1. \A u \in Threads \ {t} : ~Uses(u, s)
      BY <1>1, <2>1, <2>5 DEF Users, Balanced
    <3>2. \A u \in Threads \ {t} : ~Uses(u, s)'
      BY <3>1 DEF Uses, OthersStay
    <3> QED
      BY <1>1, <2>5, <3>2 DEF Users, Balanced
  <2>6. CASE memory'[s] = "live" /\ memory[s] = "live"
    <3>1. refCount'[s] - lost'[s] = refCount[s] - lost[s]
                    + (IF Uses(t, s)' THEN 1 ELSE 0) - (IF Uses(t, s) THEN 1 ELSE 0)
      BY <1>1, <2>6 DEF Balanced
    <3> QED
      BY <2>1, <2>2, <2>3, <2>6, <3>1
  <2>7. CASE memory'[s] = "live" /\ memory[s] # "live"
    <3>1. /\ memory[s] = "unused" /\ lost'[s] = lost[s]
          /\ refCount'[s] = IF Uses(t, s)' THEN 1 ELSE 0
      BY <1>1, <2>7 DEF Balanced
    <3> QED
      BY <2>1, <2>2, <2>3, <2>4, <2>7, <3>1
  <2>8. memory'[s] = "unused" => lost'[s] = 0
    BY <1>1, <2>1 DEF Balanced
  <2> QED
    BY <2>5, <2>6, <2>7, <2>8
<1>2. ASSUME NEW u \in Threads, pc'[u] \in Dropping, snap'[u] \notin revived'
      PROVE  /\ memory'[snap'[u]] = "live" /\ refCount'[snap'[u]] = 0
             /\ \A v \in Threads \ {u} : pc'[v] \in Dropping => snap'[v] # snap'[u]
  <2>1. CASE u = t
    BY <1>2, <2>1 DEF OthersStay, Drops
  <2>2. CASE u # t
    <3>1. snap'[u] = snap[u] /\ pc[u] \in Dropping
      BY <1>2, <2>2 DEF OthersStay
    <3>2. /\ memory[snap[u]] = "live" /\ refCount[snap[u]] = 0
          /\ \A v \in Threads \ {u} : pc[v] \in Dropping => snap[v] # snap[u]
      BY <1>2, <3>1 DEF Counts, DropsAlone, Alive
    <3>3. snap[u] \in Snapshots
      BY <3>1, Subjects DEF Dropping
    <3>4. memory'[snap[u]] = "live" /\ refCount'[snap[u]] = 0
      BY <1>2, <2>2, <3>1, <3>2, <3>3 DEF Drops
    <3>5. ASSUME NEW v \in Threads \ {u}, pc'[v] \in Dropping PROVE snap'[v] # snap'[u]
      BY <1>2, <2>2, <3>1, <3>2, <3>5 DEF OthersStay, Drops
    <3> QED
      BY <3>1, <3>4, <3>5
  <2> QED
    BY <2>1, <2>2
<1> QED
  BY <1>1, <1>2 DEF Counts, CountsExact, DropsAlone, Alive

(* What is known of a thread before it releases or drops its snapshot. *)
LEMMA Releasing ==
  ASSUME TypeOK, ThreadShape, Counts, NEW t \in Threads, snap[t] \notin revived, Alive(t)
  PROVE  /\ pc[t] \in Reading \cup {"decrement"} => refCount[snap[t]] >= lost[snap[t]] + 1
         /\ pc[t] \in Dropping => /\ refCount[snap[t]] = 0
                                  /\ \A u \in Threads : ~Uses(u, snap[t])
<1>1. pc[t] \in Reading \cup Dropping \cup {"decrement"} => snap[t] \in Snapshots
  BY Subjects DEF Reading, Dropping
<1>2. ASSUME snap[t] \in Snapshots
      PROVE  /\ refCount[snap[t]] = Cardinality(Users(snap[t])) + lost[snap[t]]
             /\ Cardinality(Users(snap[t])) \in Nat /\ lost[snap[t]] \in Nat
             /\ Cardinality(Users(snap[t])) = 0 <=> Users(snap[t]) = {}
  BY <1>2, UsersFinite DEF Counts, CountsExact, Alive, TypeOK
<1>3. ASSUME pc[t] \in Reading \cup {"decrement"} PROVE t \in Users(snap[t])
  BY <1>3 DEF Users, Uses
<1>4. pc[t] \in Reading \cup {"decrement"} => refCount[snap[t]] >= lost[snap[t]] + 1
  BY <1>1, <1>2, <1>3
<1>5. ASSUME pc[t] \in Dropping
      PROVE  refCount[snap[t]] = 0 /\ \A u \in Threads : ~Uses(u, snap[t])
  <2>1. refCount[snap[t]] = 0
    BY <1>5 DEF Counts, DropsAlone
  <2>2. Users(snap[t]) = {}
    BY <1>1, <1>2, <1>5, <2>1
  <2> QED
    BY <2>1, <2>2 DEF Users
<1> QED
  BY <1>4, <1>5

(* The steps. *)
LEMMA CountsStep ==
  ASSUME Inv, Next
  PROVE  Counts'
<1> USE DEF Writes
<1>0. /\ TypeOK /\ TypeOK' /\ ThreadShape /\ SnapshotsApart /\ Counts
      /\ memory \in [Snapshots -> {"unused", "live", "freed"}]
      /\ refCount \in [Snapshots -> Int] /\ lost \in [Snapshots -> Nat]
      /\ ThreadType
  BY TypeOKStep DEF Inv, Counts, TypeOK, ThreadType
<1>a. \A t \in Threads : /\ pc[t] \notin {"idle", "load"} => snap[t] \in Snapshots
                         /\ back[t] = "publish" => other[t] \in Snapshots /\ snap[t] # other[t]
  BY <1>0, Subjects DEF SnapshotsApart, Apart, Mine, ThreadShape, Shape
(* A step of t that neither counts nor frees, and after which t is a user  *)
(* of what it was.                                                         *)
<1>b. ASSUME NEW t \in Threads, OthersStay(t), UNCHANGED <<memory, refCount, lost>>,
             revived \subseteq revived',
             pc'[t] \notin Dropping,
             \A s \in Snapshots : Uses(t, s)' <=> Uses(t, s)
      PROVE  Counts'
  <2>1. ASSUME NEW s \in Snapshots, s \notin revived' PROVE Balanced(t, s)
    <3>1. /\ memory[s] # "live" => \A u \in Threads : ~Uses(u, s)
          /\ memory[s] # "live" => Users(s) = {}
      BY <1>0, <1>b, <2>1 DEF Counts, CountsExact, Users
    <3>2. refCount[s] \in Int /\ lost[s] \in Nat
      BY <1>0 DEF TypeOK
    <3> QED
      BY <1>b, <3>1, <3>2 DEF Balanced
  <2> QED
    BY <1>0, <1>b, <2>1, CountsFollow DEF Drops
(* Such is a step between two locations at which t uses its snapshot. *)
<1>c. ASSUME NEW t \in Threads, UNCHANGED <<memory, refCount, lost, snap, other, back>>,
             revived \subseteq revived',
             pc[t] \in Reading \cup {"publish", "decrement"},
             NEW l \in Reading \cup {"publish", "decrement"}, Goto(t, l)
      PROVE  Counts'
  <2>1. pc'[t] = l /\ l \notin Dropping /\ OthersStay(t)
    BY <1>0, <1>c DEF TypeOK, OthersStay, Reading, Dropping
  <2>2. \A s \in Snapshots : Uses(t, s)' <=> Uses(t, s)
    BY <1>c, <2>1 DEF Uses
  <2> QED
    BY <1>b, <1>c, <2>1, <2>2
<1>1. ASSUME NEW t \in Threads, Start(t) PROVE Counts'
  <2>1. PICK r \in Requests, p \in Policies :
          /\ pc[t] = "idle" /\ pc' = [pc EXCEPT ![t] = "load"]
          /\ UNCHANGED <<snap, lost, revived>>
          /\ \/ /\ \E s \in Snapshots : /\ memory[s] = "unused"
                                        /\ memory' = [memory EXCEPT ![s] = "live"]
                                        /\ refCount' = [refCount EXCEPT ![s] = 1]
                                        /\ other' = [other EXCEPT ![t] = s]
                /\ back' = [back EXCEPT ![t] = "publish"]
             \/ UNCHANGED <<memory, refCount, other, back>>
    BY <1>1 DEF Start, Allocate
  <2>2. /\ OthersStay(t) /\ pc'[t] = "load" /\ pc'[t] \notin Dropping
        /\ pc'[t] \notin Reading \cup {"publish", "decrement"}
        /\ back[t] = "idle" /\ \A s \in Snapshots : ~Uses(t, s)
    BY <1>0, <2>1 DEF ThreadType, OthersStay, Dropping, Reading, ThreadShape, Shape, Uses
  <2>3. CASE UNCHANGED <<memory, refCount, other, back>>
    <3>1. \A s \in Snapshots : ~Uses(t, s)'
      BY <1>0, <2>1, <2>2, <2>3 DEF ThreadType, Uses, Reading
    <3> QED
      BY <1>b, <2>1, <2>2, <2>3, <3>1
  <2>4. ASSUME NEW s \in Snapshots, memory[s] = "unused", back' = [back EXCEPT ![t] = "publish"],
               memory' = [memory EXCEPT ![s] = "live"],
               refCount' = [refCount EXCEPT ![s] = 1], other' = [other EXCEPT ![t] = s]
        PROVE  Counts'
    <3>1. \A r1 \in Snapshots : Uses(t, r1)' <=> r1 = s
      BY <1>0, <2>1, <2>2, <2>4 DEF ThreadType, Uses, Reading
    <3>2. ASSUME NEW r1 \in Snapshots, r1 \notin revived' PROVE Balanced(t, r1)
      <4>1. memory[r1] # "live" => \A u \in Threads : ~Uses(u, r1)
        BY <1>0, <2>1, <3>2 DEF Counts, CountsExact, Users
      <4>2. refCount[r1] \in Int /\ lost[r1] \in Nat
        BY <1>0
      <4>3. CASE r1 = s
        BY <1>0, <2>1, <2>2, <2>4, <3>1, <4>3 DEF Balanced, ThreadType
      <4>4. CASE r1 # s
        BY <1>0, <2>1, <2>2, <2>4, <3>1, <4>1, <4>2, <4>4 DEF Balanced
      <4> QED
        BY <4>3, <4>4
    <3>3. Drops(t)
      <4>1. \A u \in Threads : pc[u] \in Dropping /\ snap[u] \notin revived
              => snap[u] \in Snapshots /\ memory[snap[u]] = "live"
        BY <1>0, <1>a DEF Counts, DropsAlone, Dropping, Alive
      <4> QED
        BY <1>0, <2>1, <2>2, <2>4, <4>1 DEF Drops, ThreadType
    <3> QED
      BY <1>0, <2>1, <2>2, <3>2, <3>3, CountsFollow
  <2> QED
    BY <2>1, <2>3, <2>4
<1>2. ASSUME NEW t \in Threads, ProcessFilter_Ref_Load(t) PROVE Counts'
  BY <1>0, <1>b, <1>2 DEF ProcessFilter_Ref_Load, OthersStay, Uses, Reading, Dropping, ThreadType
<1>3. ASSUME NEW t \in Threads, ProcessFilter_Ref_Increment(t) PROVE Counts'
  <2> DEFINE s == snap[t]
  <2>1. /\ pc[t] = "increment" /\ memory[s] = "live" /\ s \in Snapshots
        /\ refCount' = [refCount EXCEPT ![s] = @ + 1]
        /\ \E l \in Reading \cup {"publish"} : pc' = [pc EXCEPT ![t] = l]
        /\ UNCHANGED <<memory, snap, other, back, lost>>
        /\ revived \subseteq revived'
        /\ s \notin revived' => \A u \in Threads : pc[u] \in Dropping => snap[u] # s
    BY <1>3, <1>a DEF ProcessFilter_Ref_Increment, Reading
  <2>2. /\ OthersStay(t) /\ pc'[t] \in Reading \cup {"publish"} /\ pc'[t] \notin Dropping
        /\ \A r \in Snapshots : /\ r # s => (Uses(t, r)' <=> Uses(t, r))
                                /\ r = s => Uses(t, r)' /\ ~Uses(t, r)
    BY <1>0, <1>a, <2>1 DEF ThreadType, OthersStay, Reading, Dropping, Uses
  <2>3. ASSUME NEW r \in Snapshots, r \notin revived' PROVE Balanced(t, r)
    <3>1. memory[r] # "live" => \A u \in Threads : ~Uses(u, r)
      BY <1>0, <2>1, <2>3 DEF Counts, CountsExact, Users
    <3>2. refCount[r] \in Int /\ lost[r] \in Nat
      BY <1>0
    <3>3. refCount'[r] = IF r = s THEN refCount[r] + 1 ELSE refCount[r]
      BY <1>0, <2>1 DEF ThreadType
    <3> QED
      BY <2>1, <2>2, <3>1, <3>2, <3>3 DEF Balanced
  <2>4. Drops(t)
    <3>1. \A u \in Threads : pc[u] \in Dropping => snap[u] \in Snapshots
      BY <1>a DEF Dropping
    <3> QED
      BY <1>0, <2>1, <2>2, <3>1 DEF Drops, ThreadType
  <2> QED
    BY <1>0, <2>1, <2>2, <2>3, <2>4, CountsFollow
<1>4. ASSUME NEW t \in Threads, ProcessFilter_Match(t) PROVE Counts'
  <2>1. CASE Goto(t, "use") /\ UNCHANGED <<snap, other, back, lost>>
    BY <1>c, <1>4, <2>1 DEF ProcessFilter_Match, Reading
  <2>2. CASE Finish(t) /\ lost' = [lost EXCEPT ![snap[t]] = @ + 1]
    <3>1. /\ pc[t] = "match" /\ snap[t] \in Snapshots /\ memory[snap[t]] = "live"
          /\ back[t] = "idle" /\ UNCHANGED <<memory, refCount, revived>>
      BY <1>0, <1>4, <1>a DEF ProcessFilter_Match, ThreadShape, Shape, ThreadType
    <3>2. /\ OthersStay(t) /\ pc'[t] \notin Dropping
          /\ \A r \in Snapshots : ~Uses(t, r)' /\ (Uses(t, r) <=> r = snap[t])
      BY <1>0, <2>2, <3>1 DEF ThreadType, Finish, OthersStay, Reading, Dropping, Uses
    <3>3. ASSUME NEW r \in Snapshots, r \notin revived' PROVE Balanced(t, r)
      <4>1. memory[r] # "live" => \A u \in Threads : ~Uses(u, r)
        BY <1>0, <3>1, <3>3 DEF Counts, CountsExact, Users
      <4>2. refCount[r] \in Int /\ lost[r] \in Nat
        BY <1>0
      <4>3. lost'[r] = IF r = snap[t] THEN lost[r] + 1 ELSE lost[r]
        BY <1>0, <2>2, <3>1 DEF ThreadType
      <4> QED
        BY <3>1, <3>2, <4>1, <4>2, <4>3 DEF Balanced
    <3> QED
      BY <1>0, <3>1, <3>2, <3>3, CountsFollow DEF Drops
  <2> QED
    BY <1>4, <2>1, <2>2 DEF ProcessFilter_Match
<1>5. ASSUME NEW t \in Threads, CheckEvent(t) PROVE Counts'
  BY <1>c, <1>5 DEF CheckEvent, Reading
<1>6. ASSUME NEW t \in Threads, ProcessFilter_Count(t) PROVE Counts'
  BY <1>c, <1>6 DEF ProcessFilter_Count, Reading
<1>7. ASSUME NEW t \in Threads, ProcessFilter_Clone(t) PROVE Counts'
  BY <1>c, <1>7 DEF ProcessFilter_Clone, Reading
<1>8. ASSUME NEW t \in Threads, ProcessFilter_Release_Decrement(t) PROVE Counts'
  <2> DEFINE s == snap[t]
  <2>1. /\ pc[t] = "decrement" /\ memory[s] = "live" /\ s \in Snapshots
        /\ refCount' = [refCount EXCEPT ![s] = @ - 1]
        /\ UNCHANGED <<memory, lost, revived>>
        /\ refCount'[s] <= 0 => /\ pc' = [pc EXCEPT ![t] = "zero"]
                                /\ UNCHANGED <<snap, other, back>>
        /\ ~(refCount'[s] <= 0) => Released(t)
    BY <1>8, <1>a DEF ProcessFilter_Release_Decrement
  <2>2. \A r \in Snapshots : refCount'[r] = IF r = s THEN refCount[r] - 1 ELSE refCount[r]
    BY <1>0, <2>1
  <2>3. s \notin revived => refCount[s] >= lost[s] + 1
    BY <1>0, <2>1, Releasing DEF Alive
  <2>4. /\ OthersStay(t)
        /\ \A r \in Snapshots : /\ Uses(t, r)' <=> (Uses(t, r) /\ r # s)
                                /\ r = s => Uses(t, r)
        /\ pc'[t] \in Dropping => refCount'[s] <= 0 /\ snap'[t] = s
    <3>1. CASE refCount'[s] <= 0
      BY <1>0, <1>a, <2>1, <3>1 DEF ThreadType, OthersStay, Reading, Dropping, Uses
    <3>2. CASE ~(refCount'[s] <= 0)
      BY <1>0, <1>a, <2>1, <3>2, ReleasedUses DEF Dropping
    <3> QED
      BY <3>1, <3>2
  <2>5. ASSUME NEW r \in Snapshots, r \notin revived' PROVE Balanced(t, r)
    <3>1. memory[r] # "live" => \A u \in Threads : ~Uses(u, r)
      BY <1>0, <2>1, <2>5 DEF Counts, CountsExact, Users
    <3>2. refCount[r] \in Int /\ lost[r] \in Nat
      BY <1>0
    <3> QED
      BY <2>1, <2>2, <2>4, <3>1, <3>2 DEF Balanced
  <2>6. Drops(t)
    <3>0. s \notin revived => refCount[s] >= 1
      BY <1>0, <2>1, <2>3
    <3>1. ASSUME NEW u \in Threads, pc[u] \in Dropping, snap[u] \notin revived
          PROVE  snap[u] # s /\ refCount'[snap[u]] = refCount[snap[u]]
      <4>1. snap[u] \in Snapshots /\ refCount[snap[u]] = 0
        BY <1>0, <1>a, <3>1 DEF Counts, DropsAlone, Dropping
      <4>2. snap[u] # s
        BY <3>0, <3>1, <4>1
      <4> QED
        BY <2>2, <4>1, <4>2
    <3>2. s \notin revived /\ refCount'[s] <= 0 => refCount'[s] = 0
      BY <1>0, <2>1, <2>2, <3>0
    <3>3. ASSUME s \notin revived, NEW u \in Threads \ {t}, pc[u] \in Dropping
          PROVE  snap[u] # s
      BY <3>1, <3>3
    <3> QED
      BY <2>1, <2>4, <3>1, <3>2, <3>3 DEF Drops
  <2> QED
    BY <1>0, <2>1, <2>4, <2>5, <2>6, CountsFollow
<1>9. ASSUME NEW t \in Threads, ProcessFilter_Release_Zero(t) PROVE Counts'
  <2>1. /\ pc[t] = "zero" /\ Alive(t) /\ snap[t] \in Snapshots
        /\ refCount' = [refCount EXCEPT ![snap[t]] = 0] /\ pc' = [pc EXCEPT ![t] = "test"]
        /\ UNCHANGED <<memory, lost, revived, snap, other, back>>
    BY <1>9, <1>a DEF ProcessFilter_Release_Zero
  <2>2. snap[t] \notin revived => refCount[snap[t]] = 0
    BY <1>0, <2>1, Releasing DEF Dropping
  <2>3. \A r \in Snapshots \ revived : refCount'[r] = refCount[r]
    BY <1>0, <2>1, <2>2
  <2>4. \A u \in Threads : pc'[u] \in Dropping <=> pc[u] \in Dropping
    BY <1>0, <2>1 DEF ThreadType, Dropping
  <2>5. \A r : Users(r)' = Users(r)
    BY <1>0, <2>1 DEF ThreadType, Users, Uses, Reading
  <2>6. \A u \in Threads : pc[u] \in Dropping => snap[u] \in Snapshots
    BY <1>a DEF Dropping
  <2> QED
    BY <1>0, <2>1, <2>3, <2>4, <2>5, <2>6 DEF Counts, CountsExact, DropsAlone
<1>10. ASSUME NEW t \in Threads, ProcessFilter_Release_Test(t) PROVE Counts'
  <2>1. /\ pc[t] = "test" /\ UNCHANGED <<memory, refCount, lost, revived>>
        /\ Released(t) \/ (pc' = [pc EXCEPT ![t] = "free"] /\ UNCHANGED <<snap, other, back>>)
    BY <1>10 DEF ProcessFilter_Release_Test
  <2>2. CASE Released(t)
    <3>1. /\ OthersStay(t) /\ pc'[t] \notin Dropping
          /\ \A r \in Snapshots : Uses(t, r)' <=> Uses(t, r)
      BY <1>0, <2>1, <2>2, ReleasedUses DEF Dropping
    <3> QED
      BY <1>b, <2>1, <3>1
  <2>3. CASE pc' = [pc EXCEPT ![t] = "free"] /\ UNCHANGED <<snap, other, back>>
    <3>1. \A u \in Threads : pc'[u] \in Dropping <=> pc[u] \in Dropping
      BY <1>0, <2>1, <2>3 DEF ThreadType, Dropping
    <3>2. \A r : Users(r)' = Users(r)
      BY <1>0, <2>1, <2>3 DEF ThreadType, Users, Uses, Reading
    <3> QED
      BY <1>0, <2>1, <2>3, <3>1, <3>2 DEF Counts, CountsExact, DropsAlone
  <2> QED
    BY <2>1, <2>2, <2>3
<1>11. ASSUME NEW t \in Threads, ProcessFilter_Release_Free(t) PROVE Counts'
  <2> DEFINE s == snap[t]
  <2>1. /\ pc[t] \in Freeing /\ Alive(t) /\ s \in Snapshots /\ Released(t)
        /\ memory' = [memory EXCEPT ![s] = "freed"]
        /\ UNCHANGED <<refCount, lost, revived>>
    BY <1>11, <1>a DEF ProcessFilter_Release_Free
  <2>2. /\ OthersStay(t) /\ pc'[t] \notin Dropping
        /\ \A r \in Snapshots : Uses(t, r)' <=> Uses(t, r)
    BY <1>0, <2>1, ReleasedUses DEF Dropping
  <2>3. s \notin revived => \A u \in Threads : ~Uses(u, s)
    BY <1>0, <2>1, Releasing DEF Dropping
  <2>4. ASSUME NEW r \in Snapshots, r \notin revived' PROVE Balanced(t, r)
    <3>1. memory[r] # "live" => \A u \in Threads : ~Uses(u, r)
      BY <1>0, <2>1, <2>4 DEF Counts, CountsExact, Users
    <3>2. refCount[r] \in Int /\ lost[r] \in Nat
      BY <1>0
    <3>3. memory'[r] = IF r = s THEN "freed" ELSE memory[r]
      BY <1>0, <2>1
    <3> QED
      BY <2>1, <2>2, <2>3, <2>4, <3>1, <3>2, <3>3 DEF Balanced
  <2>5. Drops(t)
    <3>1. \A u \in Threads \ {t} : pc[u] \in Dropping /\ snap[u] \notin revived
                                  => snap[u] # s
      BY <1>0, <2>1 DEF Counts, DropsAlone, Dropping
    <3> QED
      BY <1>0, <2>1, <2>2, <3>1 DEF Drops
  <2> QED
    BY <1>0, <2>1, <2>2, <2>4, <2>5, CountsFollow
<1>16. ASSUME NEW t \in Threads, ProcessFilter_Release_Entry(t) PROVE Counts'
  <2>1. /\ pc[t] \in Freeing /\ pc' = [pc EXCEPT ![t] = "emptying"]
        /\ UNCHANGED <<memory, refCount, lost, revived, snap, other, back>>
    BY <1>16 DEF ProcessFilter_Release_Entry
  <2>2. \A u \in Threads : pc'[u] \in Dropping <=> pc[u] \in Dropping
    BY <1>0, <2>1 DEF ThreadType, Dropping
  <2>3. \A r : Users(r)' = Users(r)
    BY <1>0, <2>1 DEF ThreadType, Users, Uses, Reading
  <2> QED
    BY <1>0, <2>1, <2>2, <2>3 DEF Counts, CountsExact, DropsAlone
<1>12. ASSUME NEW t \in Threads, Publish(t) PROVE Counts'
  BY <1>c, <1>12 DEF Publish, Reading
<1>13. ASSUME NEW t \in Threads, ProcessFilter_Add_Fails(t) PROVE Counts'
  BY <1>c, <1>13 DEF ProcessFilter_Add_Fails, Reading
<1>14. ASSUME NEW t \in Threads, CloseProcessFilter(t) PROVE Counts'
  <2>1. PICK s \in Snapshots : /\ memory[s] = "unused"
                               /\ memory' = [memory EXCEPT ![s] = "live"]
                               /\ refCount' = [refCount EXCEPT ![s] = 0]
    BY <1>14 DEF CloseProcessFilter, Allocate
  <2>2. /\ pc[t] = "publish" /\ pc' = [pc EXCEPT ![t] = "decrement"]
        /\ UNCHANGED <<snap, other, back, lost, revived>>
    BY <1>14 DEF CloseProcessFilter
  <2>3. /\ OthersStay(t) /\ pc'[t] \notin Dropping
        /\ \A r \in Snapshots : Uses(t, r)' <=> Uses(t, r)
    BY <1>0, <2>2 DEF ThreadType, OthersStay, Dropping, Reading, Uses
  <2>4. ASSUME NEW r \in Snapshots, r \notin revived' PROVE Balanced(t, r)
    <3>1. memory[r] # "live" => \A u \in Threads : ~Uses(u, r)
      BY <1>0, <2>2, <2>4 DEF Counts, CountsExact, Users
    <3>2. refCount[r] \in Int /\ lost[r] \in Nat
      BY <1>0
    <3>3. /\ memory'[r] = IF r = s THEN "live" ELSE memory[r]
          /\ refCount'[r] = IF r = s THEN 0 ELSE refCount[r]
      BY <1>0, <2>1
    <3> QED
      BY <2>1, <2>2, <2>3, <3>1, <3>2, <3>3 DEF Balanced
  <2>5. Drops(t)
    <3>1. \A u \in Threads : pc[u] \in Dropping /\ snap[u] \notin revived
            => snap[u] \in Snapshots /\ memory[snap[u]] = "live"
      BY <1>0, <1>a DEF Counts, DropsAlone, Dropping, Alive
    <3> QED
      BY <1>0, <2>1, <2>2, <2>3, <3>1 DEF Drops
  <2> QED
    BY <1>0, <2>2, <2>3, <2>4, <2>5, CountsFollow
<1>15. ASSUME NEW t \in Threads, TouchFreed(t) PROVE Counts'
  <2>1. UNCHANGED <<memory, refCount, lost, revived, pc, snap, other, back>>
    BY <1>15 DEF TouchFreed
  <2>2. \A s : Users(s)' = Users(s)
    BY <2>1 DEF Users, Uses
  <2> QED
    BY <1>0, <2>1, <2>2 DEF Counts, CountsExact, DropsAlone
<1> QED
  BY <1>1, <1>2, <1>3, <1>4, <1>5, <1>6, <1>7, <1>8, <1>9, <1>10, <1>11, <1>12, <1>13, <1>14, <1>15, <1>16
     DEF Next, Reader, Writer, Counter

(* Who has counted a reference is a user, and who has dropped the last one *)
(* is alone, unless the snapshot has been revived.                         *)
LEMMA UsersAreSafe ==
  ASSUME Inv
  PROVE  CountedIsSafe
<1> SUFFICES ASSUME NEW t \in Threads, pc[t] \in Accessing \ {"increment"},
                    snap[t] \notin revived
             PROVE  Alive(t) /\ ~Emptied(t)
  BY DEF CountedIsSafe
<1>0. TypeOK /\ ThreadShape /\ CountsExact /\ DropsAlone
  BY DEF Inv
<1>1. snap[t] \in Snapshots
  BY <1>0, Subjects DEF Accessing, Locations
<1>2. ASSUME NEW u \in Threads \ {t}, pc[u] = "emptying", snap[u] = snap[t]
      PROVE  Users(snap[t]) = {} /\ pc[t] \notin Dropping
  <2>1. Alive(u) /\ pc[u] \in Dropping /\ snap[u] \notin revived
    BY <1>0, <1>2 DEF DropsAlone, Dropping
  <2>2. \A v \in Threads : ~Uses(v, snap[u])
    BY <1>0, <2>1, Releasing DEF Counts
  <2> QED
    BY <1>0, <1>2, <2>1, <2>2 DEF Users, DropsAlone
<1>3. CASE pc[t] \in Reading \cup {"publish", "decrement"}
  <2>1. t \in Users(snap[t])
    BY <1>3 DEF Users, Uses
  <2> QED
    BY <1>0, <1>1, <1>2, <2>1 DEF CountsExact, Emptied, TypeOK
<1>4. CASE pc[t] \in Dropping
  BY <1>0, <1>2, <1>4 DEF DropsAlone, Emptied
<1> QED
  BY <1>3, <1>4 DEF Accessing, Locations, Reading, Dropping

(* What is left behind has no user. *)
LEMMA LeftUnused ==
  ASSUME Inv
  PROVE  LeaksUnheld
<1> SUFFICES ASSUME NEW s \in Snapshots \ revived, LeftBehind(s)
             PROVE  refCount[s] = lost[s]
  BY DEF LeaksUnheld
<1>1. Users(s) = {}
  BY DEF LeftBehind, Users, Uses
<1>2. refCount[s] = Cardinality(Users(s)) + lost[s] /\ lost[s] \in Nat
  BY DEF Inv, CountsExact, LeftBehind, TypeOK
<1>3. Cardinality(Users(s)) = 0
  BY <1>1, UsersFinite
<1> QED
  BY <1>2, <1>3

-----------------------------------------------------------------------------
(* The theorems. *)

(* The inductive invariant holds throughout. *)
THEOREM Invariance == Spec => []Inv
<1>1. Inv /\ [Next]_vars => Inv'
  <2> SUFFICES ASSUME Inv, [Next]_vars PROVE Inv'
    OBVIOUS
  <2>1. CASE Next
    BY <2>1, TypeOKStep, ThreadShapeStep, SnapshotsApartStep, ClonesExactStep,
       CountsStep DEF Inv, Counts
  <2>2. CASE UNCHANGED vars
    <3>1. TypeOK' /\ ThreadShape' /\ SnapshotsApart' /\ ClonesExact'
      BY <2>2 DEF vars, Inv, TypeOK, ThreadShape, Shape, SnapshotsApart, CurrentLive,
         Apart, Mine, ClonesExact, UpdatesKept, Cloned, Original
    <3>2. \A s : Users(s)' = Users(s)
      BY <2>2 DEF vars, Users, Uses
    <3>3. CountsExact' /\ DropsAlone'
      BY <2>2, <3>2 DEF vars, Inv, CountsExact, DropsAlone
    <3> QED
      BY <3>1, <3>3 DEF Inv
  <2> QED
    BY <2>1, <2>2
<1> QED
  BY <1>1, InvInit, PTL DEF Spec

(* Every variable keeps its type. *)
THEOREM TypeCorrect == Spec => []TypeOK
<1>1. Inv => TypeOK
  BY DEF Inv
<1> QED
  BY <1>1, Invariance, PTL

(* The snapshot in force is never freed, whatever the counts say. *)
THEOREM CurrentStaysLive == Spec => []CurrentLive
<1>1. Inv => CurrentLive
  BY DEF Inv, SnapshotsApart
<1> QED
  BY <1>1, Invariance, PTL

(* The list in force is the one asked for, unless two changes overlapped   *)
(* or a clone was cut short.                                               *)
THEOREM UpdatesStayKept == Spec => []UpdatesKept
<1>1. Inv => UpdatesKept
  BY DEF Inv, ClonesExact
<1> QED
  BY <1>1, Invariance, PTL

(* A thread that has counted its reference keeps its snapshot and the      *)
(* entries of its list, unless ProcessFilter_Ref has incremented the count *)
(* of that snapshot during a ProcessFilter_Release of it that had brought  *)
(* it to zero; what happens to other snapshots does not matter.  This is   *)
(* not so of a snapshot revived in that way: there HandleCounts fails.     *)
THEOREM CountedStaysSafe == Spec => []CountedIsSafe
  BY UsersAreSafe, Invariance, PTL

(* Unless it was revived, the count of a snapshot left behind is that of   *)
(* the references ProcessFilter_Match has lost: none that is held leaks it.*)
THEOREM LeaksStayUnheld == Spec => []LeaksUnheld
  BY LeftUnused, Invariance, PTL

(* The list a thread walks does not change: clones are written, before the *)
(* publication only by the thread that made them, and only a list without  *)
(* users is emptied, unless its snapshot was revived.                      *)
LEMMA UndisturbedStep ==
  ASSUME Inv, Next, NEW u \in Threads, pc[u] \in Reading, snap[u] \notin revived
  PROVE  list'[snap[u]] = list[snap[u]]
<1>0. TypeOK /\ ThreadShape /\ SnapshotsApart
  BY DEF Inv
<1>1. snap[u] \in Snapshots
  BY <1>0, Subjects DEF Reading
<1>2. CASE UNCHANGED list
  BY <1>2
<1>3. ASSUME NEW t \in Threads, ProcessFilter_Clone(t) \/ Publish(t)
      PROVE  list'[snap[u]] = list[snap[u]]
  <2>1. \E l : list' = [list EXCEPT ![Mine(t)] = l]
    BY <1>0, <1>3 DEF ProcessFilter_Clone, Publish, Mine, ThreadShape, Shape
  <2>2. Mine(t) # None
    BY <1>0, <1>3 DEF ProcessFilter_Clone, Publish, Mine, ThreadShape, Shape
  <2>3. snap[u] # Mine(t)
    <3>1. CASE u = t
      BY <1>0, <1>3, <2>2, <3>1
         DEF ProcessFilter_Clone, Publish, Mine, ThreadShape, Shape, SnapshotsApart, Apart, Reading
    <3>2. CASE u # t
      BY <1>0, <2>2, <3>2 DEF SnapshotsApart, Apart
    <3> QED
      BY <3>1, <3>2
  <2> QED
    BY <1>0, <1>1, <2>1, <2>3 DEF TypeOK
<1>4. ASSUME NEW t \in Threads, ProcessFilter_Release_Entry(t)
      PROVE  list'[snap[u]] = list[snap[u]]
  <2>1. /\ pc[t] \in Dropping /\ Alive(t)
        /\ list' = [list EXCEPT ![snap[t]] = Tail(list[snap[t]])]
    BY <1>4 DEF ProcessFilter_Release_Entry, Dropping
  <2>2. snap[t] \notin revived => ~Uses(u, snap[t])
    BY <1>0, <2>1, Releasing DEF Inv, Counts
  <2>3. Uses(u, snap[u])
    BY DEF Uses
  <2>4. snap[t] # snap[u]
    BY <2>2, <2>3
  <2> QED
    BY <1>0, <1>1, <2>1, <2>4 DEF TypeOK
<1> QED
  BY <1>2, <1>3, <1>4
     DEF Next, Reader, Writer, Counter, Start, ProcessFilter_Ref_Load,
         ProcessFilter_Ref_Increment, ProcessFilter_Match, CheckEvent,
         ProcessFilter_Count, ProcessFilter_Release_Decrement,
         ProcessFilter_Release_Zero, ProcessFilter_Release_Test,
         ProcessFilter_Release_Free, ProcessFilter_Add_Fails,
         CloseProcessFilter, TouchFreed

(* No thread sees the list it walks change (ProcessFilter_Match, _Count    *)
(* and _Clone walk without a lock), nor is it emptied entry by entry under *)
(* it, unless its snapshot was revived.                                    *)
THEOREM ReadersStayUndisturbed == Spec => ReadersUndisturbed
<1>1. Inv /\ [Next]_vars
        => [\A t \in Threads : pc[t] \in Reading /\ snap[t] \notin revived
              => list'[snap[t]] = list[snap[t]]]_vars
  BY UndisturbedStep
<1> QED
  BY <1>1, Invariance, PTL DEF Spec, ReadersUndisturbed
=============================================================================
