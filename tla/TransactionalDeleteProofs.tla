---------------------- MODULE TransactionalDeleteProofs ----------------------
(***************************************************************************)
(* Proofs about TransactionalDelete, for any number of streams, threads,   *)
(* opens and failures: a deletion is announced at most once, and never one *)
(* that was rolled back; references are exact, and a rollback is settled.  *)
(***************************************************************************)
EXTENDS TransactionalDelete, SequenceTheorems, FiniteSetTheorems, TLAPS

USE DEF Goto, Return, fsVars, txVars, histVars

Labels == {"idle", "test", "query", "context", "enlist", "raise", "add"}

(* The part of the types the argument needs; a callback has its stream until *)
(* it returns, and the transaction manager calls back only while it ends the *)
(* transaction.                                                              *)
Types ==
    /\ handles \in [Streams -> Nat] /\ deleted \in [Streams -> {"no", "tx", "plain"}]
    /\ tx \in {"open", "committing", "rollingBack", "committed", "rolledBack"}
    /\ DeleteNotifyList \in Seq(Streams)
    /\ IsNotified \in [Streams -> Nat] /\ notices \in [Streams -> Nat]
    /\ pc \in [Threads -> Labels] /\ inTx \in [Threads -> BOOLEAN]
    /\ stream \in [Threads -> Streams \cup {NoStream}]
    /\ \A t \in Threads : pc[t] # "idle" => stream[t] \in Streams
    /\ Resource = "TransactionNotification" => tx \in {"committing", "rollingBack"}

(* A stream that is in the list, or about to be put there by a thread. *)
Listed(s) == \E n \in 1..Len(DeleteNotifyList) : DeleteNotifyList[n] = s
Adds(t, s) == pc[t] = "add" /\ stream[t] = s

(* One deletion of a stream has one claim at a time: a thread about to put it  *)
(* in the list, an entry of the list, or the notice given.  Whoever holds the  *)
(* claim has raised IsNotified, so that nobody else passes the increment.      *)
OneClaim ==
    \A s \in Streams :
       /\ IsNotified[s] = 0 => notices[s] = 0 /\ ~Listed(s) /\ \A t \in Threads : ~Adds(t, s)
       /\ notices[s] <= 1
       /\ notices[s] = 1 => ~Listed(s) /\ \A t \in Threads : ~Adds(t, s)
       /\ Listed(s) => \A t \in Threads : ~Adds(t, s)
       /\ \A t, u \in Threads : Adds(t, s) /\ Adds(u, s) => t = u
       /\ \A m, n \in 1..Len(DeleteNotifyList) : DeleteNotifyList[m] = s /\ DeleteNotifyList[n] = s => m = n

Rollback == tx \in {"rollingBack", "rolledBack"}
Found(t, s) == pc[t] \in {"context", "enlist", "raise", "add"} /\ stream[t] = s

(* What has been found deleted is deleted still, unless the transaction it  *)
(* was deleted in is rolled back; a callback outside the transaction runs   *)
(* only once that has ended.                                                *)
StillDeleted ==
    /\ \A s \in Streams :
          /\ handles[s] > 0 => deleted[s] = "no"
          /\ notices[s] = 1 => deleted[s] # "no" /\ tx # "open"
          /\ Listed(s) /\ ~Rollback => deleted[s] # "no"
          /\ \A t \in Threads : Found(t, s) /\ (~inTx[t] \/ ~Rollback) => deleted[s] # "no"
    /\ \A t \in Threads : pc[t] # "idle" /\ ~inTx[t] => tx # "open"
    /\ \A t \in Threads : pc[t] = "add" => inTx[t]

Inv == Types /\ OneClaim /\ StillDeleted

-----------------------------------------------------------------------------

LEMMA InitInv == Init => Inv
<1> SUFFICES ASSUME Init PROVE Inv
  OBVIOUS
<1>1. Types
  BY NameAssumption DEF Init, Types, Labels, NoThread
<1>2. OneClaim
  BY DEF Init, OneClaim, Listed, Adds
<1>3. StillDeleted
  BY DEF Init, StillDeleted, Listed, Found
<1> QED
  BY <1>1, <1>2, <1>3 DEF Inv

(* What the file system does: opens, cleanups and the end of the transaction. *)
LEMMA OpenKeeps == ASSUME Inv, NEW x \in Streams, Open(x) PROVE Inv'
<1>1. Types'
  BY DEF Inv, Types, Open, Labels
<1>2. OneClaim'
  BY DEF Inv, OneClaim, Open, Listed, Adds
<1>3. StillDeleted'
  BY DEF Inv, Types, StillDeleted, Open, Listed, Found, Rollback
<1> QED
  BY <1>1, <1>2, <1>3 DEF Inv

LEMMA FsCleanupKeeps == ASSUME Inv, NEW th \in Threads, NEW x \in Streams, FsCleanup(th, x) PROVE Inv'
<1>1. Types'
  BY DEF Inv, Types, FsCleanup, Labels
<1>2. OneClaim'
  BY DEF Inv, Types, OneClaim, FsCleanup, Listed, Adds
<1>3. deleted[x] = "no" /\ notices[x] # 1
  BY DEF Inv, Types, StillDeleted, FsCleanup
<1>4. StillDeleted'
  BY <1>3 DEF Inv, Types, StillDeleted, FsCleanup, Listed, Found, Rollback
<1> QED
  BY <1>1, <1>2, <1>4 DEF Inv

LEMMA EndTransactionKeeps == ASSUME Inv, EndTransaction PROVE Inv'
<1>1. Types'
  BY DEF Inv, Types, EndTransaction, Labels, StillDeleted
<1>2. OneClaim'
  BY DEF Inv, OneClaim, EndTransaction, Listed, Adds
<1>3. StillDeleted'
  BY DEF Inv, Types, StillDeleted, EndTransaction, Listed, Found, Rollback
<1> QED
  BY <1>1, <1>2, <1>3 DEF Inv

(* A callback that goes on, or returns, before it has raised IsNotified. *)
LEMMA EarlyStepsKeep ==
  ASSUME Inv, NEW th \in Threads,
         \/ TestNotified(th) \/ QueryDeleted(th) \/ GetTransactionContext(th) \/ Enlist(th)
         \/ IsFileDeletedFails(th) \/ AddNotifyFails(th)
  PROVE  Inv'
<1> USE DEF TestNotified, QueryDeleted, GetTransactionContext, Enlist, IsFileDeletedFails, AddNotifyFails
<1>0. /\ UNCHANGED << handles, deleted, tx, DeleteNotifyList, Resource, IsNotified, inTx, notices >>
      /\ \/ /\ pc' = [pc EXCEPT ![th] = "idle"] /\ stream' = [stream EXCEPT ![th] = NoStream]
         \/ /\ pc[th] = "test" /\ pc' = [pc EXCEPT ![th] = "query"] /\ UNCHANGED stream
         \/ /\ pc[th] = "query" /\ deleted[stream[th]] # "no" /\ UNCHANGED stream
            /\ pc' = [pc EXCEPT ![th] = IF inTx[th] THEN "context" ELSE "raise"]
         \/ /\ pc[th] = "context" /\ UNCHANGED stream
            /\ \/ pc' = [pc EXCEPT ![th] = "raise"]
               \/ pc' = [pc EXCEPT ![th] = "enlist"]
         \/ /\ pc[th] = "enlist" /\ pc' = [pc EXCEPT ![th] = "raise"] /\ UNCHANGED stream
  OBVIOUS
<1> HIDE DEF TestNotified, QueryDeleted, GetTransactionContext, Enlist, IsFileDeletedFails, AddNotifyFails
<1>1. Types'
  BY <1>0 DEF Inv, Types, Labels
<1>2. \A t \in Threads, s \in Streams : Adds(t, s)' => Adds(t, s)
  BY <1>0, NameAssumption DEF Inv, Types, Adds
<1>3. OneClaim'
  BY <1>0, <1>2 DEF Inv, OneClaim, Listed
<1>4. \A t \in Threads : pc'[t] # "idle" => pc[t] # "idle"
  BY <1>0 DEF Inv, Types
<1>5. \A t \in Threads, s \in Streams : Found(t, s)' => Found(t, s) \/ deleted[s] # "no"
  BY <1>0, NameAssumption DEF Inv, Types, Found
<1>6. \A t \in Threads : pc'[t] = "add" => pc[t] = "add"
  BY <1>0 DEF Inv, Types
<1>7. StillDeleted'
  BY <1>0, <1>4, <1>5, <1>6 DEF Inv, StillDeleted, Listed, Rollback
<1> QED
  BY <1>1, <1>3, <1>7 DEF Inv

(* The increment decides who goes on: a second one finds a claim, or that *)
(* there was one.                                                          *)
LEMMA RaiseKeeps == ASSUME Inv, NEW th \in Threads, RaiseNotified(th) PROVE Inv'
<1>0. PICK x \in Streams : x = stream[th]
  BY DEF Inv, Types, RaiseNotified
<1>1. /\ pc[th] = "raise" /\ Found(th, x) /\ IsNotified[x] \in Nat /\ IsNotified[x] + 1 # 0
      /\ UNCHANGED << handles, deleted, tx, DeleteNotifyList, Resource, inTx >>
      /\ IsNotified' = [IsNotified EXCEPT ![x] = @ + 1]
  BY <1>0 DEF Inv, Types, RaiseNotified, Found
<1>2. IsNotified' \in [Streams -> Nat] /\ \A s \in Streams : s # x => IsNotified'[s] = IsNotified[s]
  BY <1>1 DEF Inv, Types
<1>3. CASE IsNotified[x] > 0
  <2>1. /\ pc' = [pc EXCEPT ![th] = "idle"] /\ stream' = [stream EXCEPT ![th] = NoStream]
        /\ UNCHANGED notices
    BY <1>0, <1>3 DEF RaiseNotified
  <2>2. Types'
    BY <1>1, <1>2, <2>1 DEF Inv, Types, Labels
  <2>3. \A t \in Threads, s \in Streams : (Adds(t, s)' => Adds(t, s)) /\ (Found(t, s)' => Found(t, s))
    BY <2>1, NameAssumption DEF Inv, Types, Adds, Found
  <2>4. \A s \in Streams : IsNotified'[s] = 0 => IsNotified[s] = 0
    BY <1>1, <1>2 DEF Inv, Types
  <2>5. OneClaim'
    BY <1>1, <2>1, <2>3, <2>4 DEF Inv, OneClaim, Listed
  <2>6. StillDeleted'
    BY <1>1, <2>1, <2>3 DEF Inv, Types, StillDeleted, Listed, Rollback
  <2> QED
    BY <2>2, <2>5, <2>6 DEF Inv
<1>4. CASE IsNotified[x] = 0 /\ inTx[th]
  <2>1. pc' = [pc EXCEPT ![th] = "add"] /\ UNCHANGED << notices, stream >>
    BY <1>0, <1>4 DEF RaiseNotified
  <2>2. notices[x] = 0 /\ ~Listed(x) /\ \A t \in Threads : ~Adds(t, x)
    BY <1>4 DEF Inv, OneClaim
  <2>3. Types'
    BY <1>1, <1>2, <2>1 DEF Inv, Types, Labels
  <2>4. \A t \in Threads, s \in Streams : Adds(t, s)' <=> Adds(t, s) \/ (t = th /\ s = x)
    BY <1>0, <2>1, <2>3 DEF Inv, Types, Adds
  <2>5. OneClaim'
    BY <1>1, <1>2, <2>1, <2>2, <2>4 DEF Inv, Types, OneClaim, Listed
  <2>6. StillDeleted'
    BY <1>1, <1>4, <2>1 DEF Inv, Types, StillDeleted, Listed, Found, Rollback
  <2> QED
    BY <2>3, <2>5, <2>6 DEF Inv
<1>5. CASE IsNotified[x] = 0 /\ ~inTx[th]
  <2>1. /\ pc' = [pc EXCEPT ![th] = "idle"] /\ stream' = [stream EXCEPT ![th] = NoStream]
        /\ notices' = [notices EXCEPT ![x] = @ + 1]
    BY <1>0, <1>5 DEF RaiseNotified
  <2>2. notices[x] = 0 /\ ~Listed(x) /\ \A t \in Threads : ~Adds(t, x)
    BY <1>5 DEF Inv, OneClaim
  <2>3. deleted[x] # "no" /\ tx # "open"
    BY <1>1, <1>5 DEF Inv, StillDeleted
  <2>4. Types'
    BY <1>1, <1>2, <2>1 DEF Inv, Types, Labels
  <2>5. \A t \in Threads, s \in Streams : (Adds(t, s)' => Adds(t, s)) /\ (Found(t, s)' => Found(t, s))
    BY <2>1, NameAssumption DEF Inv, Types, Adds, Found
  <2>6. notices'[x] = 1 /\ \A s \in Streams : s # x => notices'[s] = notices[s]
    BY <2>1, <2>2 DEF Inv, Types
  <2>7. OneClaim'
    BY <1>1, <1>2, <2>2, <2>5, <2>6 DEF Inv, OneClaim, Listed
  <2>8. StillDeleted'
    BY <1>1, <2>1, <2>3, <2>5, <2>6 DEF Inv, Types, StillDeleted, Listed, Rollback
  <2> QED
    BY <2>4, <2>7, <2>8 DEF Inv
<1> QED
  BY <1>1, <1>3, <1>4, <1>5

(* The claim passes from the thread to the entry it adds. *)
LEMMA AddKeeps == ASSUME Inv, NEW th \in Threads, AddNotify(th) PROVE Inv'
<1> DEFINE x == stream[th]
           l == DeleteNotifyList
<1>0. x \in Streams /\ Adds(th, x) /\ l \in Seq(Streams)
  BY DEF Inv, Types, AddNotify, Adds
<1>1. /\ l' = Append(l, x) /\ pc' = [pc EXCEPT ![th] = "idle"] /\ stream' = [stream EXCEPT ![th] = NoStream]
      /\ UNCHANGED << handles, deleted, tx, Resource, IsNotified, inTx, notices >>
  BY DEF AddNotify
<1>2. /\ l' \in Seq(Streams) /\ Len(l') = Len(l) + 1 /\ Len(l) \in Nat
      /\ l'[Len(l) + 1] = x /\ \A n \in 1..Len(l) : l'[n] = l[n]
  BY <1>0, <1>1
<1>3. Types'
  BY <1>1, <1>2 DEF Inv, Types, Labels
<1>4. \A t \in Threads, s \in Streams : Adds(t, s)' <=> Adds(t, s) /\ t # th
  BY <1>1, NameAssumption DEF Inv, Types, Adds
<1>5. \A s \in Streams : Listed(s)' <=> Listed(s) \/ s = x
  BY <1>2 DEF Listed
<1>6. ~Listed(x) /\ notices[x] = 0 /\ IsNotified[x] # 0 /\ \A t \in Threads : Adds(t, x) => t = th
  BY <1>0 DEF Inv, Types, OneClaim
<1>7. \A m \in 1..Len(l) : l[m] # x
  BY <1>6 DEF Listed
<1>8. OneClaim'
  BY <1>1, <1>2, <1>4, <1>5, <1>6, <1>7 DEF Inv, OneClaim
<1>9. ~Rollback => deleted[x] # "no"
  BY <1>0 DEF Inv, StillDeleted, Adds, Found
<1>10. \A t \in Threads, s \in Streams : Found(t, s)' => Found(t, s)
  BY <1>1, NameAssumption DEF Inv, Types, Found
<1>11. StillDeleted'
  BY <1>1, <1>5, <1>9, <1>10 DEF Inv, Types, StillDeleted, Rollback
<1> QED
  BY <1>3, <1>8, <1>11 DEF Inv

-----------------------------------------------------------------------------

(* The entry goes; a rollback leaves the stream without a claim, a commit  *)
(* turns it into the notice.                                               *)
LEMMA NotifyEntryKeeps == ASSUME Inv, NotifyEntry PROVE Inv'
<1> DEFINE l == DeleteNotifyList
<1>a. l \in Seq(Streams) /\ l # << >>
  BY DEF Inv, Types, NotifyEntry
<1>b. PICK x \in Streams : x = Head(l)
  BY <1>a
<1>0. /\ l \in Seq(Streams) /\ l # << >> /\ tx \in {"committing", "rollingBack"}
      /\ l' = Tail(l) /\ UNCHANGED << handles, deleted, tx, Resource, pc, stream, inTx >>
      /\ IsNotified' = IF tx = "rollingBack" THEN [IsNotified EXCEPT ![x] = @ - 1] ELSE IsNotified
      /\ notices' = IF tx = "committing" THEN [notices EXCEPT ![x] = @ + 1] ELSE notices
  BY <1>b DEF Inv, Types, NotifyEntry
<1>1. /\ x \in Streams /\ x = l[1] /\ Len(l) \in Nat /\ Len(l) >= 1
      /\ l' \in Seq(Streams) /\ Len(l') = Len(l) - 1
      /\ \A n \in 1..Len(l') : l'[n] = l[n + 1] /\ n + 1 \in 1..Len(l)
  BY <1>0, <1>b, HeadTailProperties
<1>2. Listed(x)
  BY <1>1 DEF Listed
<1>c. /\ IsNotified[x] # 0 /\ notices[x] <= 1 /\ notices[x] # 1
      /\ \A t \in Threads : ~Adds(t, x)
      /\ \A m, n \in 1..Len(l) : l[m] = x /\ l[n] = x => m = n
  BY <1>2 DEF Inv, OneClaim
<1>3. notices[x] = 0 /\ IsNotified[x] \in Nat
  BY <1>c DEF Inv, Types
<1>4. Types'
  BY <1>0, <1>1, <1>3, <1>c DEF Inv, Types
<1>5. ~Listed(x)' /\ \A s \in Streams : Listed(s)' => Listed(s)
  <2>1. \A s \in Streams : Listed(s)' => Listed(s)
    BY <1>1 DEF Listed
  <2>2. ~Listed(x)'
    <3>1. SUFFICES ASSUME NEW n \in 1..Len(l'), l'[n] = x PROVE FALSE
      BY DEF Listed
    <3>2. l[n + 1] = x /\ n + 1 \in 1..Len(l) /\ 1 \in 1..Len(l) /\ l[1] = x
      BY <1>1, <3>1
    <3>3. n + 1 = 1
      BY <1>c, <3>2
    <3> QED
      BY <3>3
  <2> QED
    BY <2>1, <2>2
<1>6. \A t \in Threads, s \in Streams : Adds(t, s)' <=> Adds(t, s)
  BY <1>0 DEF Adds
<1>7. \A s \in Streams : s # x => notices'[s] = notices[s] /\ IsNotified'[s] = IsNotified[s]
  BY <1>0, <1>1 DEF Inv, Types
<1>8. notices'[x] \in {0, 1} /\ (notices'[x] = 1 => tx = "committing" /\ IsNotified'[x] # 0)
  BY <1>0, <1>1, <1>3, <1>c DEF Inv, Types
<1>9. \A s \in Streams : \A m, n \in 1..Len(l') : l'[m] = s /\ l'[n] = s => m = n
  BY <1>1 DEF Inv, OneClaim
<1>10. OneClaim'
  BY <1>3, <1>c, <1>5, <1>6, <1>7, <1>8, <1>9 DEF Inv, OneClaim
<1>11. tx = "committing" => deleted[x] # "no"
  BY <1>1, <1>2 DEF Inv, StillDeleted, Rollback
<1>12. StillDeleted'
  BY <1>0, <1>5, <1>7, <1>8, <1>11 DEF Inv, StillDeleted, Found, Rollback
<1> QED
  BY <1>4, <1>10, <1>12 DEF Inv

LEMMA BoundsOfNotificationKeep == ASSUME Inv, StartNotification \/ EndNotification PROVE Inv'
<1>0. /\ UNCHANGED << handles, deleted, DeleteNotifyList, IsNotified, pc, stream, inTx, notices >>
      /\ \/ UNCHANGED tx /\ tx \in {"committing", "rollingBack"}
         \/ tx = "committing" /\ tx' = "committed" /\ Resource' = NoThread
         \/ tx = "rollingBack" /\ tx' = "rolledBack" /\ Resource' = NoThread
  BY DEF Inv, Types, StartNotification, EndNotification
<1>1. Types'
  BY <1>0 DEF Inv, Types, Labels, NoThread
<1>2. OneClaim'
  BY <1>0 DEF Inv, OneClaim, Listed, Adds
<1>3. StillDeleted'
  BY <1>0 DEF Inv, StillDeleted, Listed, Found, Rollback
<1> QED
  BY <1>1, <1>2, <1>3 DEF Inv

LEMMA FreeContextKeeps == ASSUME Inv, FreeTransactionContext PROVE Inv'
<1>0. /\ UNCHANGED << handles, deleted, tx, Resource, IsNotified, pc, stream, inTx, notices >>
      /\ DeleteNotifyList' = << >>
  BY DEF FreeTransactionContext
<1>1. Types'
  BY <1>0 DEF Inv, Types, Labels
<1>2. \A s \in Streams : ~Listed(s)'
  BY <1>0 DEF Listed
<1>3. OneClaim'
  BY <1>0, <1>2 DEF Inv, OneClaim, Adds
<1>4. StillDeleted'
  BY <1>0, <1>2 DEF Inv, StillDeleted, Found, Rollback
<1> QED
  BY <1>1, <1>3, <1>4 DEF Inv

LEMMA StutterKeeps == ASSUME Inv, UNCHANGED vars PROVE Inv'
  BY DEF Inv, Types, OneClaim, StillDeleted, Listed, Adds, Found, Rollback, vars

LEMMA NextInv == Inv /\ [Next]_vars => Inv'
  BY OpenKeeps, FsCleanupKeeps, EndTransactionKeeps, EarlyStepsKeep, RaiseKeeps, AddKeeps, NotifyEntryKeeps,
     BoundsOfNotificationKeep, FreeContextKeeps, StutterKeeps
  DEF Next, PostCleanup, TransactionNotification

LEMMA Invariance == Spec => []Inv
  BY InitInv, NextInv, PTL DEF Spec

(* A deletion is announced at most once, and never one that was rolled back    *)
(* (DfNotifyDelete and the notification callback of the transaction, whatever  *)
(* fails and however cleanups of the stream meet).                             *)
THEOREM AnnouncedOnce == Spec => []NoticeOnce
<1>1. Inv => NoticeOnce
  BY DEF Inv, OneClaim, StillDeleted, NoticeOnce
<1> QED
  BY <1>1, Invariance, PTL

-----------------------------------------------------------------------------
(* References and rollbacks. *)

Ended == tx \in {"committed", "rolledBack"}

(* What a stream context is kept by: the callbacks that work on it, and its  *)
(* one entry.  A callback that is not running has no stream.                  *)
Kept(s) == Cardinality(Busy(s)) + (IF Listed(s) THEN 1 ELSE 0)
Counts ==
    /\ \A t \in Threads : pc[t] = "idle" => stream[t] = NoStream
    /\ refs \in [Streams -> Nat]
    /\ \A s \in Streams : refs[s] = Kept(s)

(* Whoever raised IsNotified holds the claim still, or has given the notice,  *)
(* unless one of the named causes is there.  What is left in the list when    *)
(* the transaction has ended came too late, or nobody had enlisted.           *)
Excused(s) == raced[s] \/ late[s] \/ failures > 0
Claims ==
    /\ raced \in [Streams -> BOOLEAN] /\ late \in [Streams -> BOOLEAN]
    /\ failures \in Nat /\ enlisted \in BOOLEAN
    /\ \A s \in Streams :
          (IsNotified[s] > 0 /\ ~Excused(s) /\ (enlisted \/ tx = "open")) =>
             /\ IsNotified[s] = 1
             /\ notices[s] = 1 \/ Listed(s) \/ \E t \in Threads : Adds(t, s)
    /\ \A s \in Streams : Listed(s) /\ Ended => late[s] \/ ~enlisted

SettledInv == Counts /\ Claims

(* The entries of a list in which a stream is at most once. *)
LEMMA EntriesOf ==
  ASSUME Inv, NEW s \in Streams
  PROVE  Entries(s) = IF Listed(s) THEN 1 ELSE 0
<1> DEFINE E == {n \in DOMAIN DeleteNotifyList : DeleteNotifyList[n] = s}
<1>1. E = {n \in 1..Len(DeleteNotifyList) : DeleteNotifyList[n] = s}
  BY DEF Inv, Types
<1>2. CASE Listed(s)
  <2>1. PICK n \in 1..Len(DeleteNotifyList) : DeleteNotifyList[n] = s
    BY <1>2 DEF Listed
  <2>2. E = {n}
    BY <1>1, <2>1 DEF Inv, OneClaim
  <2> QED
    BY <1>2, <2>2, FS_Singleton DEF Entries
<1>3. CASE ~Listed(s)
  <2>1. E = {}
    BY <1>1, <1>3 DEF Listed
  <2> QED
    BY <1>3, <2>1, FS_EmptySet DEF Entries
<1> QED
  BY <1>2, <1>3

LEMMA BusyFinite == \A s \in Streams : IsFiniteSet(Busy(s)) /\ Cardinality(Busy(s)) \in Nat
  BY TransAssumption, FS_Subset, FS_CardinalityType DEF Busy

LEMMA BusySame == ASSUME UNCHANGED stream PROVE \A s \in Streams : Busy(s)' = Busy(s)
  BY DEF Busy

(* A callback returns, or its entry takes over: one fewer at its stream. *)
LEMMA BusyLeaves ==
  ASSUME Inv, NEW th \in Threads, NEW x \in Streams, stream[th] = x,
         stream' = [stream EXCEPT ![th] = NoStream]
  PROVE  /\ Cardinality(Busy(x)') = Cardinality(Busy(x)) - 1
         /\ Cardinality(Busy(x)) > 0
         /\ \A s \in Streams : s # x => Busy(s)' = Busy(s)
<1>1. /\ Busy(x)' = Busy(x) \ {th} /\ th \in Busy(x)
      /\ \A s \in Streams : s # x => Busy(s)' = Busy(s)
  BY NameAssumption DEF Inv, Types, Busy
<1>2. Cardinality(Busy(x) \ {th}) = Cardinality(Busy(x)) - 1
  BY <1>1, BusyFinite, FS_RemoveElement
<1>3. Busy(x) # {}
  BY <1>1
<1>4. Cardinality(Busy(x)) # 0 /\ Cardinality(Busy(x)) \in Nat
  BY <1>3, BusyFinite, FS_EmptySet
<1> QED
  BY <1>1, <1>2, <1>4

LEMMA InitSettled == Init => SettledInv
<1> SUFFICES ASSUME Init PROVE SettledInv
  OBVIOUS
<1>1. \A s \in Streams : Busy(s) = {} /\ ~Listed(s)
  BY NameAssumption DEF Init, Busy, Listed
<1>2. \A s \in Streams : Kept(s) = 0
  BY <1>1, FS_EmptySet DEF Kept
<1>3. Counts
  BY <1>2 DEF Init, Counts
<1>4. raced \in [Streams -> BOOLEAN] /\ late \in [Streams -> BOOLEAN]
  BY DEF Init
<1>5. \A s \in Streams : IsNotified[s] = 0
  BY DEF Init
<1>6. failures = 0 /\ enlisted = FALSE /\ tx = "open"
  BY DEF Init
<1>a. failures \in Nat /\ enlisted \in BOOLEAN
  BY <1>6
<1>b. ~Ended /\ \A s \in Streams : ~(IsNotified[s] > 0)
  BY <1>5, <1>6 DEF Ended
<1>7. Claims
  BY <1>4, <1>a, <1>b DEF Claims
<1> QED
  BY <1>3, <1>7 DEF SettledInv

(* Steps that neither enter nor leave a callback, nor touch the list. *)
LEMMA CountsSame ==
  ASSUME Counts, UNCHANGED << stream, refs, DeleteNotifyList >>,
         \A t \in Threads : pc'[t] = "idle" => pc[t] = "idle"
  PROVE  Counts'
<1>1. \A s \in Streams : Busy(s)' = Busy(s) /\ (Listed(s)' <=> Listed(s))
  BY DEF Busy, Listed
<1>2. \A s \in Streams : Kept(s)' = Kept(s)
  BY <1>1 DEF Kept
<1> QED
  BY <1>2 DEF Counts

(* A callback returns and drops its reference. *)
LEMMA ReturnCounts ==
  ASSUME Inv, Counts, NEW th \in Threads, NEW x \in Streams, stream[th] = x,
         pc' = [pc EXCEPT ![th] = "idle"], stream' = [stream EXCEPT ![th] = NoStream],
         refs' = [refs EXCEPT ![x] = @ - 1], UNCHANGED DeleteNotifyList
  PROVE  Counts'
<1>1. /\ Cardinality(Busy(x)') = Cardinality(Busy(x)) - 1 /\ Cardinality(Busy(x)) > 0
      /\ \A s \in Streams : s # x => Busy(s)' = Busy(s)
  BY BusyLeaves
<1>2. \A s \in Streams : Listed(s)' <=> Listed(s)
  BY DEF Listed
<1>3. Cardinality(Busy(x)) \in Nat
  BY BusyFinite
<1>4. Kept(x)' = Kept(x) - 1 /\ Kept(x) > 0 /\ Kept(x) \in Nat
  BY <1>1, <1>2, <1>3 DEF Kept
<1>5. \A s \in Streams : s # x => Kept(s)' = Kept(s)
  BY <1>1, <1>2 DEF Kept
<1>6. refs' \in [Streams -> Nat] /\ \A s \in Streams : refs'[s] = Kept(s)'
  BY <1>4, <1>5 DEF Counts
<1>7. \A t \in Threads : pc'[t] = "idle" => stream'[t] = NoStream
  BY DEF Counts, Inv, Types
<1> QED
  BY <1>6, <1>7 DEF Counts

LEMMA OpenSettles == ASSUME Inv, SettledInv, NEW x \in Streams, Open(x) PROVE SettledInv'
<1>1. Counts'
  BY CountsSame DEF SettledInv, Open
<1>2. Claims'
  BY DEF SettledInv, Claims, Open, Excused, Listed, Adds, Ended
<1> QED
  BY <1>1, <1>2 DEF SettledInv

LEMMA EndSettles == ASSUME Inv, SettledInv, EndTransaction PROVE SettledInv'
<1>1. Counts'
  BY CountsSame DEF SettledInv, EndTransaction
<1>2. Claims'
  BY DEF SettledInv, Claims, EndTransaction, Excused, Listed, Adds, Ended
<1> QED
  BY <1>1, <1>2 DEF SettledInv

LEMMA FsCleanupSettles ==
  ASSUME Inv, SettledInv, NEW th \in Threads, NEW x \in Streams, FsCleanup(th, x)
  PROVE  SettledInv'
<1>0. /\ pc[th] = "idle" /\ stream[th] = NoStream
      /\ pc' = [pc EXCEPT ![th] = "test"] /\ stream' = [stream EXCEPT ![th] = x]
      /\ refs' = [refs EXCEPT ![x] = @ + 1]
      /\ UNCHANGED << tx, enlisted, DeleteNotifyList, IsNotified, failures, notices, raced, late >>
  BY DEF SettledInv, Counts, FsCleanup
<1>1. /\ Busy(x)' = Busy(x) \cup {th} /\ th \notin Busy(x)
      /\ \A s \in Streams : s # x => Busy(s)' = Busy(s)
  BY <1>0, NameAssumption DEF Inv, Types, Busy
<1>2. Cardinality(Busy(x)') = Cardinality(Busy(x)) + 1 /\ Cardinality(Busy(x)) \in Nat
  BY <1>1, BusyFinite, FS_AddElement
<1>3. \A s \in Streams : Listed(s)' <=> Listed(s)
  BY <1>0 DEF Listed
<1>4. Kept(x)' = Kept(x) + 1 /\ Kept(x) \in Nat /\ \A s \in Streams : s # x => Kept(s)' = Kept(s)
  BY <1>1, <1>2, <1>3 DEF Kept
<1>5. refs' \in [Streams -> Nat] /\ \A s \in Streams : refs'[s] = Kept(s)'
  BY <1>0, <1>4 DEF SettledInv, Counts
<1>6. \A t \in Threads : pc'[t] = "idle" => stream'[t] = NoStream
  BY <1>0 DEF SettledInv, Counts, Inv, Types
<1>7. \A t \in Threads, s \in Streams : Adds(t, s) => Adds(t, s)'
  BY <1>0 DEF Inv, Types, Adds
<1>8. Claims'
  BY <1>0, <1>3, <1>7 DEF SettledInv, Claims, Excused, Ended
<1> QED
  BY <1>5, <1>6, <1>8 DEF SettledInv, Counts

(* The steps of a callback before IsNotified is raised, and the failed call   *)
(* after it, which leaves a cause behind.                                     *)
LEMMA EarlyStepsSettle ==
  ASSUME Inv, SettledInv, NEW th \in Threads,
         \/ TestNotified(th) \/ QueryDeleted(th) \/ GetTransactionContext(th) \/ Enlist(th)
         \/ IsFileDeletedFails(th) \/ AddNotifyFails(th)
  PROVE  SettledInv'
<1> USE DEF TestNotified, QueryDeleted, GetTransactionContext, Enlist, IsFileDeletedFails, AddNotifyFails
<1>0. pc[th] # "idle"
  OBVIOUS
<1>a. PICK x \in Streams : x = stream[th]
  BY <1>0 DEF Inv, Types
<1>1. UNCHANGED << tx, DeleteNotifyList, IsNotified, notices, raced >>
  OBVIOUS
<1>2. \/ /\ pc' = [pc EXCEPT ![th] = "idle"] /\ stream' = [stream EXCEPT ![th] = NoStream]
         /\ refs' = [refs EXCEPT ![x] = @ - 1]
      \/ UNCHANGED << stream, refs >> /\ \E l \in Labels \ {"idle"} : pc' = [pc EXCEPT ![th] = l]
  BY <1>a DEF Labels
<1>3. failures \in Nat /\ failures' \in Nat /\ failures' >= failures /\ (pc[th] = "add" => failures' > 0)
  BY DEF SettledInv, Claims
<1>c. enlisted' \in BOOLEAN /\ (tx # "open" => enlisted' = enlisted)
  BY DEF SettledInv, Claims
<1>b. late' \in [Streams -> BOOLEAN] /\ \A s \in Streams : late[s] => late'[s]
  <2>1. late \in [Streams -> BOOLEAN]
    BY DEF SettledInv, Claims
  <2>2. UNCHANGED late \/ late' = [late EXCEPT ![x] = @ \/ txContext = "freed"]
    BY <1>a
  <2> QED
    BY <2>1, <2>2
<1> HIDE DEF TestNotified, QueryDeleted, GetTransactionContext, Enlist, IsFileDeletedFails, AddNotifyFails
<1>4. Counts'
  <2>1. CASE /\ pc' = [pc EXCEPT ![th] = "idle"] /\ stream' = [stream EXCEPT ![th] = NoStream]
             /\ refs' = [refs EXCEPT ![x] = @ - 1]
    BY <1>a, <1>1, <2>1, ReturnCounts DEF SettledInv
  <2>2. CASE UNCHANGED << stream, refs >> /\ \E l \in Labels \ {"idle"} : pc' = [pc EXCEPT ![th] = l]
    <3>1. \A t \in Threads : pc'[t] = "idle" => pc[t] = "idle"
      BY <2>2 DEF Inv, Types
    <3> QED
      BY <1>1, <2>2, <3>1, CountsSame DEF SettledInv
  <2> QED
    BY <1>2, <2>1, <2>2
<1>5. \A t \in Threads, s \in Streams : Adds(t, s) => Adds(t, s)' \/ (t = th /\ pc[th] = "add")
  BY <1>2 DEF Inv, Types, Adds
<1>6. \A s \in Streams : Listed(s)' <=> Listed(s)
  BY <1>1 DEF Listed
<1>7. failures \in Nat /\ \A s \in Streams : ~Excused(s)' => ~Excused(s) /\ pc[th] # "add"
  BY <1>b, <1>1, <1>3 DEF Excused, SettledInv, Claims
<1>8. Claims'
  BY <1>b, <1>c, <1>1, <1>3, <1>5, <1>6, <1>7 DEF SettledInv, Claims, Ended
<1> QED
  BY <1>4, <1>8 DEF SettledInv

(* The first to raise IsNotified takes the claim or gives the notice; another *)
(* one is a cause.                                                            *)
LEMMA RaiseSettles == ASSUME Inv, SettledInv, NEW th \in Threads, RaiseNotified(th) PROVE SettledInv'
<1>0. PICK x \in Streams : x = stream[th]
  BY DEF Inv, Types, RaiseNotified
<1>1. /\ pc[th] = "raise" /\ IsNotified[x] \in Nat
      /\ UNCHANGED << tx, enlisted, DeleteNotifyList, failures, late >>
      /\ IsNotified' = [IsNotified EXCEPT ![x] = @ + 1]
  BY <1>0 DEF Inv, Types, RaiseNotified
<1>2. IsNotified'[x] = IsNotified[x] + 1 /\ \A s \in Streams : s # x => IsNotified'[s] = IsNotified[s]
  BY <1>1 DEF Inv, Types
<1>3. \A s \in Streams : Listed(s)' <=> Listed(s)
  BY <1>1 DEF Listed
<1>4. CASE IsNotified[x] > 0
  <2>1. /\ pc' = [pc EXCEPT ![th] = "idle"] /\ stream' = [stream EXCEPT ![th] = NoStream]
        /\ refs' = [refs EXCEPT ![x] = @ - 1] /\ raced' = [raced EXCEPT ![x] = TRUE]
        /\ UNCHANGED notices
    BY <1>0, <1>4 DEF RaiseNotified
  <2>2. Counts'
    BY <1>0, <1>1, <2>1, ReturnCounts DEF SettledInv
  <2>3. raced' \in [Streams -> BOOLEAN] /\ raced'[x] = TRUE /\ \A s \in Streams : s # x => raced'[s] = raced[s]
    BY <2>1 DEF SettledInv, Claims
  <2>4. Excused(x)' /\ \A s \in Streams : s # x => (Excused(s)' <=> Excused(s))
    BY <1>1, <2>3 DEF Excused
  <2>5. \A t \in Threads, s \in Streams : Adds(t, s) => Adds(t, s)'
    BY <1>0, <1>1, <2>1 DEF Inv, Types, Adds
  <2>6. Claims'
    BY <1>1, <1>2, <1>3, <2>1, <2>3, <2>4, <2>5 DEF SettledInv, Claims, Ended
  <2> QED
    BY <2>2, <2>6 DEF SettledInv
<1>5. CASE IsNotified[x] = 0 /\ inTx[th]
  <2>1. pc' = [pc EXCEPT ![th] = "add"] /\ UNCHANGED << notices, stream, refs, raced >>
    BY <1>0, <1>5 DEF RaiseNotified
  <2>2. \A t \in Threads : pc'[t] = "idle" => pc[t] = "idle"
    BY <2>1 DEF Inv, Types
  <2>3. Counts'
    BY <1>1, <2>1, <2>2, CountsSame DEF SettledInv
  <2>4. Adds(th, x)' /\ \A t \in Threads, s \in Streams : Adds(t, s) => Adds(t, s)'
    BY <1>0, <1>1, <2>1 DEF Inv, Types, Adds
  <2>5. \A s \in Streams : Excused(s)' <=> Excused(s)
    BY <1>1, <2>1 DEF Excused
  <2>6. Claims'
    BY <1>1, <1>2, <1>3, <1>5, <2>1, <2>4, <2>5 DEF SettledInv, Claims, Ended
  <2> QED
    BY <2>3, <2>6 DEF SettledInv
<1>6. CASE IsNotified[x] = 0 /\ ~inTx[th]
  <2>1. /\ pc' = [pc EXCEPT ![th] = "idle"] /\ stream' = [stream EXCEPT ![th] = NoStream]
        /\ refs' = [refs EXCEPT ![x] = @ - 1] /\ notices' = [notices EXCEPT ![x] = @ + 1]
        /\ UNCHANGED raced
    BY <1>0, <1>6 DEF RaiseNotified
  <2>2. Counts'
    BY <1>0, <1>1, <2>1, ReturnCounts DEF SettledInv
  <2>3. notices[x] = 0
    BY <1>6 DEF Inv, OneClaim
  <2>4. notices'[x] = 1 /\ \A s \in Streams : s # x => notices'[s] = notices[s]
    BY <2>1, <2>3 DEF Inv, Types
  <2>5. \A t \in Threads, s \in Streams : Adds(t, s) => Adds(t, s)'
    BY <1>0, <1>1, <2>1 DEF Inv, Types, Adds
  <2>6. \A s \in Streams : Excused(s)' <=> Excused(s)
    BY <1>1, <2>1 DEF Excused
  <2>7. Claims'
    BY <1>1, <1>2, <1>3, <1>6, <2>1, <2>4, <2>5, <2>6 DEF SettledInv, Claims, Ended
  <2> QED
    BY <2>2, <2>7 DEF SettledInv
<1> QED
  BY <1>1, <1>4, <1>5, <1>6

(* The reference of the callback becomes that of the entry. *)
LEMMA AddSettles == ASSUME Inv, SettledInv, NEW th \in Threads, AddNotify(th) PROVE SettledInv'
<1> DEFINE l == DeleteNotifyList
<1>0. PICK x \in Streams : x = stream[th]
  BY DEF Inv, Types, AddNotify
<1>1. /\ l' = Append(l, x) /\ pc' = [pc EXCEPT ![th] = "idle"] /\ stream' = [stream EXCEPT ![th] = NoStream]
      /\ late' = [late EXCEPT ![x] = @ \/ tx # "open"] /\ pc[th] = "add" /\ l \in Seq(Streams)
      /\ UNCHANGED << tx, enlisted, IsNotified, refs, failures, notices, raced >>
  BY <1>0 DEF Inv, Types, AddNotify
<1>2. /\ Len(l') = Len(l) + 1 /\ Len(l) \in Nat
      /\ l'[Len(l) + 1] = x /\ \A n \in 1..Len(l) : l'[n] = l[n]
  BY <1>1
<1>3. \A s \in Streams : Listed(s)' <=> Listed(s) \/ s = x
  BY <1>2 DEF Listed
<1>4. Adds(th, x) /\ ~Listed(x)
  BY <1>0, <1>1 DEF Inv, OneClaim, Adds
<1>5. /\ Cardinality(Busy(x)') = Cardinality(Busy(x)) - 1
      /\ \A s \in Streams : s # x => Busy(s)' = Busy(s)
  BY <1>0, <1>1, BusyLeaves
<1>6. Cardinality(Busy(x)) \in Nat
  BY BusyFinite
<1>7. Kept(x)' = Kept(x)
  BY <1>3, <1>4, <1>5, <1>6 DEF Kept
<1>8. \A s \in Streams : Kept(s)' = Kept(s)
  BY <1>3, <1>5, <1>7 DEF Kept
<1>9. Counts'
  BY <1>1, <1>8 DEF SettledInv, Counts, Inv, Types
<1>10. /\ late' \in [Streams -> BOOLEAN] /\ (tx # "open" => late'[x])
       /\ \A s \in Streams : late[s] => late'[s]
  BY <1>1 DEF SettledInv, Claims
<1>11. \A s \in Streams : Excused(s) => Excused(s)'
  BY <1>1, <1>10 DEF Excused
<1>12. \A t \in Threads, s \in Streams : s # x /\ Adds(t, s) => Adds(t, s)'
  BY <1>0, <1>1 DEF Inv, Types, Adds
<1>13. Claims'
  BY <1>1, <1>3, <1>10, <1>11, <1>12 DEF SettledInv, Claims, Ended
<1> QED
  BY <1>9, <1>13 DEF SettledInv

(* An entry goes with its reference; a rollback lowers IsNotified, which was  *)
(* one, and a commit turns the claim into the notice.                         *)
LEMMA NotifyEntrySettles == ASSUME Inv, SettledInv, NotifyEntry PROVE SettledInv'
<1> DEFINE l == DeleteNotifyList
<1>a. l \in Seq(Streams) /\ l # << >>
  BY DEF Inv, Types, NotifyEntry
<1>b. PICK x \in Streams : x = Head(l)
  BY <1>a
<1>0. /\ l' = Tail(l) /\ tx \in {"committing", "rollingBack"}
      /\ UNCHANGED << tx, enlisted, pc, stream, failures, raced, late >>
      /\ IsNotified' = IF tx = "rollingBack" THEN [IsNotified EXCEPT ![x] = @ - 1] ELSE IsNotified
      /\ notices' = IF tx = "committing" THEN [notices EXCEPT ![x] = @ + 1] ELSE notices
      /\ refs' = [refs EXCEPT ![x] = @ - 1]
  BY <1>b DEF Inv, Types, NotifyEntry
<1>1. /\ x = l[1] /\ Len(l) \in Nat /\ Len(l) >= 1
      /\ l' \in Seq(Streams) /\ Len(l') = Len(l) - 1
      /\ \A n \in 1..Len(l') : l'[n] = l[n + 1] /\ n + 1 \in 1..Len(l)
  BY <1>0, <1>a, <1>b, HeadTailProperties
<1>2. Listed(x)
  BY <1>1 DEF Listed
<1>c. /\ IsNotified[x] # 0 /\ notices[x] # 1 /\ notices[x] <= 1
      /\ \A m, n \in 1..Len(l) : l[m] = x /\ l[n] = x => m = n
  BY <1>2 DEF Inv, OneClaim
<1>3. notices[x] = 0 /\ IsNotified[x] \in Nat \ {0}
  BY <1>c DEF Inv, Types
<1>4. ~Listed(x)'
  <2>1. SUFFICES ASSUME NEW n \in 1..Len(l'), l'[n] = x PROVE FALSE
    BY DEF Listed
  <2>2. l[n + 1] = x /\ n + 1 \in 1..Len(l) /\ 1 \in 1..Len(l) /\ l[1] = x
    BY <1>1, <2>1
  <2>3. n + 1 = 1
    BY <1>c, <2>2
  <2> QED
    BY <2>3
<1>5. \A s \in Streams : s # x => (Listed(s)' <=> Listed(s))
  <2>1. SUFFICES ASSUME NEW s \in Streams, s # x PROVE Listed(s)' <=> Listed(s)
    OBVIOUS
  <2>2. Listed(s)' => Listed(s)
    BY <1>1 DEF Listed
  <2>3. ASSUME Listed(s) PROVE Listed(s)'
    <3>1. PICK n \in 1..Len(l) : l[n] = s
      BY <2>3 DEF Listed
    <3>2. n # 1 /\ n - 1 \in 1..Len(l')
      BY <1>1, <2>1, <3>1
    <3>3. l'[n - 1] = l[(n - 1) + 1] /\ (n - 1) + 1 = n
      BY <1>1, <3>2
    <3>4. l'[n - 1] = s
      BY <3>1, <3>3
    <3> QED
      BY <3>2, <3>4 DEF Listed
  <2> QED
    BY <2>2, <2>3
<1>6. \A s \in Streams : Busy(s)' = Busy(s) /\ Cardinality(Busy(s)) \in Nat
  BY <1>0, BusyFinite DEF Busy
<1>7. Kept(x)' = Kept(x) - 1 /\ Kept(x) \in Nat \ {0}
  BY <1>2, <1>4, <1>6 DEF Kept
<1>8. \A s \in Streams : s # x => Kept(s)' = Kept(s)
  BY <1>5, <1>6 DEF Kept
<1>9. Counts'
  BY <1>0, <1>7, <1>8 DEF SettledInv, Counts
<1>10. \A s \in Streams : s # x => IsNotified'[s] = IsNotified[s] /\ notices'[s] = notices[s]
  BY <1>0 DEF Inv, Types
<1>11. /\ tx = "rollingBack" => IsNotified'[x] = IsNotified[x] - 1
       /\ tx = "committing" => IsNotified'[x] = IsNotified[x] /\ notices'[x] = 1
  BY <1>0, <1>3 DEF Inv, Types
<1>12. \A t \in Threads, s \in Streams : Adds(t, s)' <=> Adds(t, s)
  BY <1>0 DEF Adds
<1>13. \A s \in Streams : Excused(s)' <=> Excused(s)
  BY <1>0 DEF Excused
<1>14. (IsNotified'[x] > 0 /\ ~Excused(x)' /\ (enlisted' \/ tx' = "open")) =>
          IsNotified'[x] = 1 /\ notices'[x] = 1
  <2>1. ~Excused(x) /\ enlisted => IsNotified[x] = 1
    BY <1>3 DEF SettledInv, Claims
  <2> QED
    BY <1>0, <1>3, <1>11, <1>13, <2>1
<1>15. Claims'
  BY <1>0, <1>4, <1>5, <1>10, <1>12, <1>13, <1>14 DEF SettledInv, Claims, Ended
<1> QED
  BY <1>9, <1>15 DEF SettledInv

(* The callback begins, and ends once the list is empty; without an          *)
(* enlistment the transaction just ends.                                      *)
LEMMA BoundsSettle == ASSUME Inv, SettledInv, StartNotification \/ EndNotification PROVE SettledInv'
<1>0. /\ UNCHANGED << enlisted, DeleteNotifyList, IsNotified, refs, pc, stream, failures, notices, raced, late >>
      /\ UNCHANGED tx \/ (tx' # "open" /\ (~enlisted \/ DeleteNotifyList = << >>))
      /\ tx # "open"
  BY DEF Inv, Types, StartNotification, EndNotification
<1>1. Counts'
  BY <1>0, CountsSame DEF SettledInv
<1>2. \A s \in Streams : /\ Listed(s)' <=> Listed(s)
                         /\ Excused(s)' <=> Excused(s)
                         /\ \A t \in Threads : Adds(t, s)' <=> Adds(t, s)
  BY <1>0 DEF Listed, Excused, Adds
<1>3. DeleteNotifyList = << >> => \A s \in Streams : ~Listed(s)
  BY DEF Listed
<1>4. Claims'
  BY <1>0, <1>2, <1>3 DEF SettledInv, Claims, Ended
<1> QED
  BY <1>1, <1>4 DEF SettledInv

(* The entries left over drop their references with the context.  They were  *)
(* late, or nobody had enlisted.                                              *)
LEMMA FreeSettles == ASSUME Inv, SettledInv, FreeTransactionContext PROVE SettledInv'
<1>0. /\ UNCHANGED << tx, enlisted, IsNotified, pc, stream, failures, notices, raced, late >>
      /\ DeleteNotifyList' = << >> /\ Ended
      /\ refs' = [s \in Streams |-> refs[s] - Entries(s)]
  BY DEF FreeTransactionContext, Entries, Ended
<1>1. \A s \in Streams : ~Listed(s)'
  BY <1>0 DEF Listed
<1>2. \A s \in Streams : Busy(s)' = Busy(s) /\ Cardinality(Busy(s)) \in Nat
  BY <1>0, BusyFinite DEF Busy
<1>3. \A s \in Streams : Kept(s)' = Kept(s) - Entries(s) /\ Kept(s)' \in Nat
  BY <1>1, <1>2, EntriesOf DEF Kept
<1>4. Counts'
  BY <1>0, <1>3 DEF SettledInv, Counts
<1>5. \A s \in Streams : /\ Excused(s)' <=> Excused(s)
                         /\ \A t \in Threads : Adds(t, s)' <=> Adds(t, s)
  BY <1>0 DEF Excused, Adds
<1>6. \A s \in Streams : Listed(s) => late[s] \/ ~enlisted
  BY <1>0 DEF SettledInv, Claims
<1>7. tx # "open" /\ \A s \in Streams : late[s] => Excused(s)
  BY <1>0 DEF Ended, Excused
<1>8. Claims'
  BY <1>0, <1>1, <1>5, <1>6, <1>7 DEF SettledInv, Claims
<1> QED
  BY <1>4, <1>8 DEF SettledInv

LEMMA StutterSettles == ASSUME SettledInv, UNCHANGED vars PROVE SettledInv'
<1>1. Counts'
  BY CountsSame DEF SettledInv, vars
<1>2. \A s \in Streams : /\ Listed(s)' <=> Listed(s)
                         /\ Excused(s)' <=> Excused(s)
                         /\ \A t \in Threads : Adds(t, s)' <=> Adds(t, s)
  BY DEF vars, Listed, Excused, Adds
<1>3. Claims'
  BY <1>2 DEF vars, SettledInv, Claims, Ended
<1> QED
  BY <1>1, <1>3 DEF SettledInv

LEMMA NextSettled == Inv /\ SettledInv /\ [Next]_vars => SettledInv'
  BY OpenSettles, FsCleanupSettles, EndSettles, EarlyStepsSettle, RaiseSettles, AddSettles,
     NotifyEntrySettles, BoundsSettle, FreeSettles, StutterSettles
  DEF Next, PostCleanup, TransactionNotification

(* A stream context has as many references as callbacks and entries that     *)
(* need it; and once a rollback has been dealt with IsNotified is zero again, *)
(* unless one of the named causes is there (DfNotifyDelete, the callback of   *)
(* the transaction and CtxTransactionContextCleanupCallback).                 *)
THEOREM RollbackSettles == Spec => []Settled
<1>1. ASSUME Inv, SettledInv PROVE RefsExact
  <2>1. SUFFICES ASSUME NEW s \in Streams
                 PROVE  Entries(s) <= 1 /\ refs[s] = Cardinality(Busy(s)) + Entries(s)
    BY DEF RefsExact
  <2>2. Entries(s) = IF Listed(s) THEN 1 ELSE 0
    BY <1>1, EntriesOf
  <2>3. refs[s] = Cardinality(Busy(s)) + (IF Listed(s) THEN 1 ELSE 0)
    BY <1>1 DEF SettledInv, Counts, Kept
  <2> QED
    BY <2>2, <2>3
<1>2. ASSUME Inv, SettledInv PROVE RollbackForgets
  <2>1. SUFFICES ASSUME NEW s \in Streams, tx = "rolledBack", Busy(s) = {}, notices[s] = 0,
                        ~Excused(s), enlisted, IsNotified[s] # 0
                 PROVE  FALSE
    BY DEF RollbackForgets, Excused
  <2>2. IsNotified[s] > 0
    BY <1>2, <2>1 DEF Inv, Types
  <2>3. Listed(s) \/ \E t \in Threads : Adds(t, s)
    BY <1>2, <2>1, <2>2 DEF SettledInv, Claims
  <2>4. ~Listed(s)
    BY <1>2, <2>1 DEF SettledInv, Claims, Ended, Excused
  <2> QED
    BY <2>1, <2>3, <2>4 DEF Busy, Adds
<1>3. Inv /\ SettledInv => Settled
  BY <1>1, <1>2 DEF Settled
<1>4. Spec => []SettledInv
  BY InitSettled, NextSettled, Invariance, PTL DEF Spec
<1> QED
  BY <1>3, <1>4, Invariance, PTL
=============================================================================
