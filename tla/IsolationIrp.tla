----------------------------- MODULE IsolationIrp -----------------------------
(***************************************************************************)
(* The instance contexts of the isolation driver: who holds a reference    *)
(* from the set-up of an instance (callbacks/fltInstance.cpp) to its       *)
(* teardown - the IRP contexts (irpContext.cpp), the private FCBs          *)
(* (privateFCBMgr.cpp) and the table that finds a context by its drive     *)
(* letter (utilities/volumeMgr.cpp).                                       *)
(*                                                                         *)
(* The table is replaced as a whole behind a counted pointer.  Its readers *)
(* and writers are one step each: nothing is ever put into it, so that it  *)
(* is never replaced and no order of the steps inside can be told apart.   *)
(* The inverted test of CreateIrpContext for ordinary files is taken as it *)
(* was meant here; IsolationDelete shows what it does as it is.            *)
(***************************************************************************)
EXTENDS Integers, FiniteSets

CONSTANTS
    Volumes,
    Lettered,      \* those with a drive letter
    Requests,      \* threads in a callback or a control code
    MaxOpens,      \* bound: own files open on a volume
    MaxOwn         \* bound: IRPs on own files, per volume

ASSUME IrpAssumption ==
    /\ Volumes # {} /\ Lettered \subseteq Volumes /\ IsFiniteSet(Requests)
    /\ MaxOpens \in Nat /\ MaxOwn \in Nat

VARIABLES
    instance,      \* of a volume: the filter manager's view
    instanceRefs,  \* references to its instance context; 0: none, or freed
    fcbs,          \* private FCBs on it
    irp,           \* the IRP context of a request
    volumeTable,   \* VolumeNameMgr: entries
    ownMade,       \* history: IRP contexts made for own files
    missed,        \* history: attached volumes a search did not find
    nullReferenced \* FltReferenceContext was given NULL

instanceVars == << instance, instanceRefs, fcbs, irp, volumeTable, ownMade, missed, nullReferenced >>
instanceHistory == << ownMade, missed, nullReferenced >>

NoIrp == [pc |-> "idle", vol |-> CHOOSE v \in Volumes : TRUE, own |-> FALSE, opened |-> FALSE]

Irps == [pc : {"idle", "creating", "made"}, vol : Volumes, own : BOOLEAN, opened : BOOLEAN]

\* Types; no reference count goes below zero.
InstancesTypeOK ==
    /\ instance \in [Volumes -> {"detached", "attached", "stopping", "gone"}]
    /\ instanceRefs \in [Volumes -> Nat] /\ fcbs \in [Volumes -> 0..MaxOpens]
    /\ irp \in [Requests -> Irps]
    /\ volumeTable \subseteq [vol : Volumes, ctx : BOOLEAN]
    /\ ownMade \in [Volumes -> Nat] /\ missed \subseteq Volumes /\ nullReferenced \in BOOLEAN

InstancesInit ==
    /\ instance = [v \in Volumes |-> "detached"] /\ instanceRefs = [v \in Volumes |-> 0]
    /\ fcbs = [v \in Volumes |-> 0] /\ irp = [r \in Requests |-> NoIrp]
    /\ volumeTable = {} /\ ownMade = [v \in Volumes |-> 0] /\ missed = {} /\ nullReferenced = FALSE

-----------------------------------------------------------------------------
(* The volume table. *)

\* A copy of an entry has no context.
VolumeNameMgr_Clone == {[e EXCEPT !.ctx = FALSE] : e \in volumeTable}

\* The copy takes the place of the table only when it had the volume already;
\* the entry made otherwise is not linked anywhere.
VolumeMgr_Add(v) == volumeTable' = IF \E e \in volumeTable : e.vol = v THEN VolumeNameMgr_Clone ELSE volumeTable

VolumeMgr_Remove(v) ==
    volumeTable' = IF \E e \in volumeTable : e.vol = v THEN {e \in VolumeNameMgr_Clone : e.vol # v} ELSE volumeTable

VolumeMgr_SearchContext(v) == {e \in volumeTable : e.vol = v}

-----------------------------------------------------------------------------
(* Instances. *)

\* InstanceSetup and CreateInstanceContext: allocated, attached, released.
InstanceSetup(v) ==
    /\ instance[v] = "detached"
    /\ instance' = [instance EXCEPT ![v] = "attached"]
    /\ instanceRefs' = [instanceRefs EXCEPT ![v] = 1]
    /\ IF v \in Lettered THEN VolumeMgr_Add(v) ELSE UNCHANGED volumeTable
    /\ UNCHANGED << fcbs, irp, instanceHistory >>

\* A raw volume, or a failure on the way: the context goes with the instance.
InstanceSetup_Fail(v) ==
    /\ instance[v] = "detached"
    /\ instance' = [instance EXCEPT ![v] = "gone"]
    /\ UNCHANGED << instanceRefs, fcbs, irp, volumeTable, instanceHistory >>

InstanceTeardownStart(v) ==
    /\ instance[v] = "attached"
    /\ instance' = [instance EXCEPT ![v] = "stopping"]
    /\ \/ VolumeMgr_Remove(v)
       \/ UNCHANGED volumeTable   \* the teardown follows an internal error
    /\ UNCHANGED << instanceRefs, fcbs, irp, instanceHistory >>

\* The filter manager waits for the callbacks, then drops its reference.
DeleteInstance(v) ==
    /\ instance[v] = "stopping"
    /\ \A r \in Requests : irp[r].pc # "idle" => irp[r].vol # v
    /\ instance' = [instance EXCEPT ![v] = "gone"]
    /\ instanceRefs' = [instanceRefs EXCEPT ![v] = @ - 1]
    /\ UNCHANGED << fcbs, irp, volumeTable, instanceHistory >>

-----------------------------------------------------------------------------
(* IRP contexts. *)

\* For an own file: the FCB's context referenced, then looked up again and
\* overwritten by the same, then referenced for the IRP context.
References(own) == IF own THEN 3 ELSE 2

CreateIrpContextOn(r, v, own) ==
    /\ irp[r] = NoIrp /\ instance[v] = "attached"
    /\ own => fcbs[v] > 0 /\ ownMade[v] < MaxOwn
    /\ instanceRefs' = [instanceRefs EXCEPT ![v] = @ + References(own)]
    /\ irp' = [irp EXCEPT ![r] = [pc |-> "creating", vol |-> v, own |-> own, opened |-> FALSE]]
    /\ ownMade' = [ownMade EXCEPT ![v] = @ + (IF own THEN 1 ELSE 0)]
    /\ UNCHANGED << instance, fcbs, volumeTable, missed, nullReferenced >>

\* __finally: the local reference is released.
CreateIrpContext_Finally(r) ==
    /\ irp[r].pc = "creating"
    /\ irp' = [irp EXCEPT ![r].pc = "made"]
    /\ instanceRefs' = [instanceRefs EXCEPT ![irp[r].vol] = @ - 1]
    /\ UNCHANGED << instance, fcbs, volumeTable, instanceHistory >>

\* A create that becomes an own file.
InitializeFcbAndCcb(r) ==
    /\ irp[r].pc = "made" /\ ~irp[r].own /\ ~irp[r].opened /\ fcbs[irp[r].vol] < MaxOpens
    /\ fcbs' = [fcbs EXCEPT ![irp[r].vol] = @ + 1]
    /\ instanceRefs' = [instanceRefs EXCEPT ![irp[r].vol] = @ + 1]
    /\ irp' = [irp EXCEPT ![r].opened = TRUE]
    /\ UNCHANGED << instance, volumeTable, instanceHistory >>

\* The last close of an own file; its request still runs.
UninitializeFcb(r) ==
    LET v == irp[r].vol IN
    /\ irp[r].pc = "made" /\ irp[r].own /\ ~irp[r].opened
    /\ fcbs[v] > Cardinality({q \in Requests \ {r} : irp[q].pc # "idle" /\ irp[q].vol = v /\ irp[q].own})
    /\ fcbs' = [fcbs EXCEPT ![v] = @ - 1]
    /\ instanceRefs' = [instanceRefs EXCEPT ![v] = @ - 1]
    /\ irp' = [irp EXCEPT ![r].opened = TRUE]
    /\ UNCHANGED << instance, volumeTable, instanceHistory >>

\* Fault: the reference is forgotten.
CloseWithoutRelease(r) ==
    /\ irp[r].pc = "made"
    /\ irp' = [irp EXCEPT ![r] = NoIrp]
    /\ UNCHANGED << instance, instanceRefs, fcbs, volumeTable, instanceHistory >>

CloseIrpContext(r) ==
    /\ irp[r].pc = "made"
    /\ irp' = [irp EXCEPT ![r] = NoIrp]
    /\ instanceRefs' = [instanceRefs EXCEPT ![irp[r].vol] = @ - 1]
    /\ UNCHANGED << instance, fcbs, volumeTable, instanceHistory >>

\* GetFileMetaDataInfo for a path (DevIOCntlFileGetType), up to the context
\* of its volume: VolumeMgr_SearchContext takes a reference to what it finds,
\* and CloseIrpContext drops it.
GetFileMetaDataInfo(r, v) ==
    LET found == VolumeMgr_SearchContext(v) IN
    /\ irp[r] = NoIrp /\ v \in Lettered /\ instance[v] = "attached"
    /\ irp' = IF \E e \in found : e.ctx
              THEN [irp EXCEPT ![r] = [pc |-> "made", vol |-> v, own |-> FALSE, opened |-> TRUE]] ELSE irp
    /\ instanceRefs' = IF \E e \in found : e.ctx THEN [instanceRefs EXCEPT ![v] = @ + 1] ELSE instanceRefs
    /\ nullReferenced' = (nullReferenced \/ \E e \in found : ~e.ctx)
    /\ missed' = IF found = {} THEN missed \cup {v} ELSE missed
    /\ UNCHANGED << instance, fcbs, volumeTable, ownMade >>

-----------------------------------------------------------------------------

InstancesNext ==
    \/ \E v \in Volumes : \/ InstanceSetup(v) \/ InstanceSetup_Fail(v)
                          \/ InstanceTeardownStart(v) \/ DeleteInstance(v)
    \/ \E r \in Requests :
        \/ \E v \in Volumes : \/ \E own \in BOOLEAN : CreateIrpContextOn(r, v, own)
                              \/ GetFileMetaDataInfo(r, v)
        \/ CreateIrpContext_Finally(r) \/ InitializeFcbAndCcb(r) \/ UninitializeFcb(r) \/ CloseIrpContext(r)

InstancesSpec == InstancesInit /\ [][InstancesNext]_instanceVars

-----------------------------------------------------------------------------

\* IRP contexts of a volume; those under construction hold the context twice.
IrpsOn(v) == {r \in Requests : irp[r].pc # "idle" /\ irp[r].vol = v}
CreatingOn(v) == {r \in Requests : irp[r].pc = "creating" /\ irp[r].vol = v}

OfInstance(v) == IF instance[v] \in {"attached", "stopping"} THEN 1 ELSE 0

\* Every reference to an instance context has its holder - the instance, the
\* FCBs, the IRP contexts - but one for every IRP on an own file, which has
\* none: a volume with own files never gives its context back
\* (CreateIrpContext, CloseIrpContext, InitializeFcbAndCcb).
ContextsAccounted == \A v \in Volumes :
    instanceRefs[v] = OfInstance(v) + fcbs[v] + Cardinality(IrpsOn(v)) + Cardinality(CreatingOn(v)) + ownMade[v]

\* FltReferenceContext is not given the context a copied entry lost
\* (VolumeNameMgr_Clone, VolumeMgr_SearchContext): no entry is ever copied.
NoNullReference == ~nullReferenced

\* The instance contexts are counted as their holders use them.
InstancesAccounted == InstancesTypeOK /\ ContextsAccounted /\ NoNullReference

\* What makes that inductive: nothing is held of a volume that is not attached yet,
\* and the table stays empty.
ContextsOf(v) ==
    /\ instanceRefs[v] = OfInstance(v) + fcbs[v] + Cardinality(IrpsOn(v)) + Cardinality(CreatingOn(v)) + ownMade[v]
    /\ instance[v] = "detached" => Cardinality(IrpsOn(v)) = 0 /\ fcbs[v] = 0 /\ ownMade[v] = 0

InstancesInv ==
    /\ instance \in [Volumes -> {"detached", "attached", "stopping", "gone"}]
    /\ instanceRefs \in [Volumes -> Int] /\ fcbs \in [Volumes -> 0..MaxOpens]
    /\ ownMade \in [Volumes -> Nat] /\ irp \in [Requests -> Irps]
    /\ volumeTable = {} /\ missed \subseteq Volumes /\ nullReferenced = FALSE
    /\ \A v \in Volumes : ContextsOf(v)
=============================================================================
