----------------------------- MODULE PrivateFcb -----------------------------
(***************************************************************************)
(* The FCBs the isolation driver keeps for one file: opening, cleanup and  *)
(* close (sys-isolation/callbacks/fltCreateFile.cpp, fltCleanup.cpp,       *)
(* fltClose.cpp, privateFCBMgr.cpp).                                       *)
(*                                                                         *)
(* An open is a create request and then its file object.  An FCB is known  *)
(* by the open that made it.  Its search and its use are one step, for the *)
(* instance lock is held from the one to the other; when there is none the *)
(* lock is given back, the client is asked and the lower file is opened    *)
(* before the new FCB is inserted.                                         *)
(***************************************************************************)
EXTENDS Naturals, Sequences, FiniteSets, SequencesExt

CONSTANTS
    Opens,      \* create requests
    None,       \* no FCB
    Answers,    \* what the client answers: CheckEventFileCreateTo
    Faults      \* calls that may fail in this instance

AllAnswers == {"fails", "deny", "plain", "isolate"}
AllFaults == {"memory", "ccb", "sfo", "oplock", "refuse", "mapped"}
ASSUME FcbAssumption ==
    /\ None \notin Opens /\ Answers \subseteq AllAnswers /\ Faults \subseteq AllFaults

VARIABLES
    fcb,        \* of each open: the FCB it made
    vcb,        \* InstanceContext->FcbListHead
    op,         \* of each open: how far it has come
    exists, pending,    \* the lower file; it is to be deleted
    crashed,    \* a null pointer has been used
    causes      \* what has happened that may explain a property's loss

fcbVars == << fcb, vcb, op, exists, pending, crashed, causes >>

NoFcb == [state |-> "none", opn |-> 0, cln |-> 0, ref |-> 0, sfo |-> FALSE, doc |-> FALSE]
NewOp == [pc |-> "idle", disp |-> "open", doc |-> FALSE, fcb |-> None, lower |-> "none", ccb |-> FALSE]
Dispositions == {"open", "create", "overwrite"}

\* Every variable keeps its type.
FcbTypeOK ==
    /\ fcb \in [Opens -> [state : {"none", "listed", "orphan", "freed"}, opn : Nat, cln : Nat, ref : Nat,
                          sfo : BOOLEAN, doc : BOOLEAN]]
    /\ vcb \in Seq(Opens)
    /\ op \in [Opens -> [pc : {"idle", "status", "ask", "lower", "publish", "open", "cleaned", "closed",
                               "failed", "passed", "phantom"},
                         disp : Dispositions, doc : BOOLEAN, fcb : Opens \cup {None},
                         lower : {"none", "held", "leaked"}, ccb : BOOLEAN]]
    /\ {exists, pending, crashed} \subseteq BOOLEAN
    /\ causes \subseteq Faults \cup {"raced", "reopened"}

FcbInit ==
    /\ fcb = [o \in Opens |-> NoFcb] /\ vcb = <<>> /\ op = [o \in Opens |-> NewOp]
    /\ exists \in BOOLEAN /\ pending = FALSE /\ crashed = FALSE /\ causes = {}

-----------------------------------------------------------------------------
(* The lower file system. *)

Openable(disp) == ~pending /\ (disp = "create" => ~exists) /\ (disp # "create" => exists)

\* Handles on the lower file, in a given state of the opens and the FCBs.
LowerOpen(ops, fcbs) == \E o \in Opens : ops[o].lower # "none" \/ fcbs[o].sfo

\* A file to be deleted is gone with its last handle.
Settle(ops, fcbs, marked) ==
    /\ exists' = (exists /\ ~(marked /\ ~LowerOpen(ops, fcbs)))
    /\ pending' = (marked /\ LowerOpen(ops, fcbs))

-----------------------------------------------------------------------------
(* FilterPreCreate. *)

\* What ends without COMPLETE_DONT_CONT_PROCESS and without an FCB sets a flag
\* of no FCB when the file is opened to be deleted on close.
EndWithoutFcb(o, pc) ==
    IF op[o].doc
      THEN crashed' = TRUE /\ op' = op
      ELSE crashed' = crashed /\ op' = [op EXCEPT ![o].pc = pc]

\* A refusal is not completed here: the request goes on to the file system.
Refused(o, d, doc) ==
    /\ "refuse" \in Faults
    /\ op' = [op EXCEPT ![o] = [@ EXCEPT !.pc = "passed", !.disp = d, !.doc = doc]]
    /\ causes' = causes \cup {"refuse"}
    /\ UNCHANGED << fcb, vcb, exists, pending, crashed >>

Counted(f, doc) ==
    LET r == fcb[f] IN
    [fcb EXCEPT ![f] = [state |-> r.state, opn |-> r.opn + 1, cln |-> r.cln + 1, ref |-> r.ref + 1,
                        sfo |-> r.sfo, doc |-> r.doc \/ doc]]

\* An overwriting open may find, the counts raised, a view mapped meanwhile:
\* it is passed on, and nobody will give back what it has taken.
CreateFileExistFCB(o, f, d, doc) ==
    \/ Refused(o, d, doc)
    \/ /\ ~Openable(d)
       /\ op' = [op EXCEPT ![o] = [@ EXCEPT !.pc = "failed", !.disp = d, !.doc = doc]]
       /\ UNCHANGED << fcb, vcb, exists, pending, crashed, causes >>
    \/ /\ Openable(d) /\ exists' = TRUE
       /\ \E ccb \in {TRUE} \cup {FALSE : x \in Faults \cap {"ccb"}},
             mapped \in {FALSE} \cup {TRUE : x \in Faults \cap {"mapped"}} :
             /\ mapped => d = "overwrite"
             /\ op' = [op EXCEPT ![o] =
                   [pc |-> IF mapped THEN "passed" ELSE "open", disp |-> d, doc |-> doc, fcb |-> f, ccb |-> ccb,
                    lower |-> IF ccb /\ ~mapped THEN "held" ELSE "leaked"]]
             /\ fcb' = Counted(f, doc /\ ~mapped)
             /\ causes' = causes \cup {x \in {"ccb"} : ~ccb} \cup {x \in {"mapped"} : mapped}
                           \cup {x \in {"reopened"} : ~fcb[f].sfo}
       /\ UNCHANGED << vcb, pending, crashed >>

Vcb_SearchFCB == IF vcb = <<>> THEN None ELSE Head(vcb)

\* An open that finds nothing while another is on its way to an FCB.
Racing(o) == \E o1 \in Opens \ {o} : op[o1].pc \in {"status", "ask", "lower", "publish"}

FilterPreCreate(o) ==
    /\ op[o].pc = "idle"
    /\ \E d \in Dispositions, doc \in BOOLEAN :
          \/ Vcb_SearchFCB # None /\ CreateFileExistFCB(o, Vcb_SearchFCB, d, doc)
          \/ /\ Vcb_SearchFCB = None
             /\ op' = [op EXCEPT ![o] = [@ EXCEPT !.pc = "status", !.disp = d, !.doc = doc]]
             /\ causes' = causes \cup {x \in {"raced"} : Racing(o)}
             /\ UNCHANGED << fcb, vcb, exists, pending, crashed >>

\* The lock is not held from here: CreateFileNonExistFCB.
GetFileStatus(o) ==
    /\ op[o].pc = "status"
    /\ IF (op[o].disp = "create") = (exists /\ ~pending)
         THEN EndWithoutFcb(o, "failed")
         ELSE op' = [op EXCEPT ![o].pc = "ask"] /\ crashed' = crashed
    /\ UNCHANGED << fcb, vcb, exists, pending, causes >>

\* When the client cannot be asked the open is completed, with no status set
\* and nothing opened.
CheckEventFileCreateTo(o) ==
    /\ op[o].pc = "ask"
    /\ \E answer \in Answers :
          \/ answer = "fails" /\ EndWithoutFcb(o, "phantom")
          \/ answer = "deny" /\ EndWithoutFcb(o, "failed")
          \/ answer = "plain" /\ crashed' = crashed /\ op' = [op EXCEPT ![o].pc = "passed"]
          \/ answer = "isolate" /\ crashed' = crashed /\ op' = [op EXCEPT ![o].pc = "lower"]
    /\ UNCHANGED << fcb, vcb, exists, pending, causes >>

OpenLowerFile(o) ==
    /\ op[o].pc = "lower"
    /\ IF Openable(op[o].disp)
         THEN exists' = TRUE /\ op' = [op EXCEPT ![o].pc = "publish", ![o].lower = "held"]
         ELSE exists' = exists /\ op' = [op EXCEPT ![o].pc = "failed"]
    /\ UNCHANGED << fcb, vcb, pending, crashed, causes >>

\* InitializeFcbAndCcb fails: the lower handle is not among what is freed.
PublishNoMemory(o) ==
    /\ "memory" \in Faults
    /\ op' = [op EXCEPT ![o].pc = "failed", ![o].lower = "leaked"]
    /\ causes' = causes \cup {"memory"}
    /\ UNCHANGED << fcb, vcb, exists, pending, crashed >>

\* What fails after it frees the lower handle, and not the FCB.
PublishFails(o, fault, sfo) ==
    LET ops == [op EXCEPT ![o].pc = "failed", ![o].lower = "none"]
        fcbs == [fcb EXCEPT ![o] = [NoFcb EXCEPT !.state = "orphan", !.opn = 1, !.cln = 1, !.ref = 1, !.sfo = sfo]]
    IN /\ op' = ops /\ fcb' = fcbs
       /\ causes' = causes \cup {fault}
       /\ Settle(ops, fcbs, pending \/ op[o].doc)
       /\ UNCHANGED << vcb, crashed >>

Publish(o) ==
    /\ fcb' = [fcb EXCEPT ![o] = [state |-> "listed", opn |-> 1, cln |-> 1, ref |-> 1, sfo |-> TRUE, doc |-> op[o].doc]]
    /\ vcb' = Append(vcb, o)
    /\ op' = [op EXCEPT ![o] = [@ EXCEPT !.pc = "open", !.fcb = o, !.ccb = TRUE]]
    /\ UNCHANGED << exists, pending, crashed, causes >>

CreateFileNonExistFCB(o) ==
    /\ op[o].pc = "publish"
    /\ \/ PublishNoMemory(o)
       \/ "sfo" \in Faults /\ PublishFails(o, "sfo", FALSE)
       \/ "oplock" \in Faults /\ PublishFails(o, "oplock", TRUE)
       \/ Publish(o)

-----------------------------------------------------------------------------
(* FilterPreCleanup and FilterPreClose, under the instance lock. *)

\* RemoveEntryList.
Unlinked(f) == RemoveAt(vcb, CHOOSE i \in DOMAIN vcb : vcb[i] = f)

\* Fault: the last cleanup is taken for one before the last.
CleanedTooLate(f) ==
    LET r == fcb[f] IN
    [fcb EXCEPT ![f] = [r EXCEPT !.cln = r.cln - 1, !.sfo = r.sfo /\ ~(r.doc /\ r.cln = 0)]]

Cleaned(f) ==
    LET r == fcb[f] IN
    [fcb EXCEPT ![f] = [r EXCEPT !.cln = r.cln - 1, !.sfo = r.sfo /\ ~(r.doc /\ r.cln = 1)]]

FilterPreCleanup(o) ==
    LET fcbs == Cleaned(op[o].fcb)
        ops == [op EXCEPT ![o].pc = "cleaned", ![o].lower = "none"]
    IN /\ op[o].pc = "open"
       /\ IF op[o].ccb
            THEN /\ fcb' = fcbs /\ op' = ops /\ crashed' = crashed
                 /\ Settle(ops, fcbs, pending \/ op[o].doc)
            ELSE crashed' = TRUE /\ UNCHANGED << fcb, op, exists, pending >>
       /\ UNCHANGED << vcb, causes >>

\* UninitializeFCB sets the disposition by the handle the cleanup has closed.
FilterPreClose(o) ==
    LET f == op[o].fcb
        last == fcb[f].ref = 1
        counted == [fcb EXCEPT ![f].opn = @ - 1, ![f].ref = @ - 1]
        freed == [fcb EXCEPT ![f] = [NoFcb EXCEPT !.state = "freed"]]
        ops == [op EXCEPT ![o].pc = "closed", ![o].fcb = None, ![o].ccb = FALSE]
    IN /\ op[o].pc = "cleaned"
       /\ crashed' = (last /\ ~fcb[f].sfo)
       /\ op' = ops
       /\ fcb' = IF last THEN freed ELSE counted
       /\ vcb' = IF last THEN Unlinked(f) ELSE vcb
       /\ Settle(ops, fcb', pending)
       /\ UNCHANGED causes

Ended == /\ \/ crashed
            \/ \A o \in Opens : op[o].pc \in {"closed", "failed", "passed", "phantom"}
         /\ UNCHANGED fcbVars

FcbNext ==
    \/ \E o \in Opens :
          /\ ~crashed
          /\ \/ FilterPreCreate(o) \/ GetFileStatus(o) \/ CheckEventFileCreateTo(o)
             \/ OpenLowerFile(o) \/ CreateFileNonExistFCB(o)
             \/ FilterPreCleanup(o) \/ FilterPreClose(o)
    \/ Ended

FcbSpec == FcbInit /\ [][FcbNext]_fcbVars

-----------------------------------------------------------------------------
(* Properties. *)

Using(f, pcs) == {o \in Opens : op[o].fcb = f /\ op[o].pc \in pcs}

\* privateFCBMgr_Defs.hpp:99, 101: ClnCount and RefCount of an FCB in the list
\* count its handles and its file objects, unless an overwriting open has been
\* given up halfway.
CountsExact ==
    "mapped" \in causes \/
    \A f \in Opens : fcb[f].state = "listed" =>
        /\ fcb[f].ref = Cardinality(Using(f, {"open", "cleaned"}))
        /\ fcb[f].cln = Cardinality(Using(f, {"open"}))

\* The list holds the FCBs that are not freed, and the FCB of every file
\* object is among them.
InUseIsListed ==
    /\ \A f \in Opens : fcb[f].state = "listed" <=> f \in ToSet(vcb)
    /\ \A o \in Opens : op[o].pc \in {"open", "cleaned"} => op[o].fcb \in ToSet(vcb)

\* A file has one FCB unless two opens have searched before either inserted.
OneFcbUnlessRaced == "raced" \notin causes => Len(vcb) <= 1

\* fltCleanup.cpp:173: with the last handle of a file to be deleted the
\* driver's own handle is closed, so the file goes.
DeletedAtLastCleanup ==
    \A f \in Opens : (fcb[f].state = "listed" /\ fcb[f].doc /\ fcb[f].cln = 0 /\ causes = {}
                      /\ \A o \in Opens : op[o].pc # "publish") => ~pending /\ ~fcb[f].sfo

\* When every open has ended, and none of the named failures has happened, no
\* FCB and no lower handle is left.
AllReleased ==
    (causes = {} /\ ~crashed /\ \A o \in Opens : op[o].pc \in {"closed", "failed", "passed", "phantom"})
       => vcb = <<>> /\ ~LowerOpen(op, fcb) /\ \A f \in Opens : fcb[f].state \in {"none", "freed"}

\* A null pointer is used only for a file opened to be deleted on close, or
\* when a CCB could not be allocated.
CrashExplained == crashed => "ccb" \in causes \/ \E o \in Opens : op[o].doc

\* All of it: the counts and the list of the FCBs are exact, a file has one FCB, all is
\* released in the end, and a file to be deleted goes, but for the named reasons.
FcbAccounted ==
    /\ FcbTypeOK
    /\ CountsExact /\ InUseIsListed /\ OneFcbUnlessRaced
    /\ DeletedAtLastCleanup /\ AllReleased /\ CrashExplained

-----------------------------------------------------------------------------
(* Why it holds: the invariant behind these properties. *)

Creating == {"status", "ask", "lower", "publish"}
InUse == {"open", "cleaned"}

\* What an open has, where it stands.
OpenShape(o) ==
    /\ op[o].pc = "idle" => op[o] = NewOp
    /\ op[o].pc \in {"idle"} \cup Creating => fcb[o] = NoFcb
    /\ op[o].pc = "open" => op[o].ccb \/ "ccb" \in causes
    /\ op[o].lower # "none" => op[o].pc \in {"publish", "open"} \/ causes # {}

\* The counts of an FCB, whether or not an overwriting open was given up.
CountsBound == \A f \in Opens : fcb[f].state = "listed" =>
    /\ fcb[f].ref >= 1 /\ fcb[f].opn = fcb[f].ref
    /\ IsFiniteSet(Using(f, InUse)) /\ IsFiniteSet(Using(f, {"open"}))
    /\ fcb[f].ref >= Cardinality(Using(f, InUse))
    /\ fcb[f].cln >= Cardinality(Using(f, {"open"}))

\* The driver's own handle on the lower file: an FCB that was never listed has one only
\* after a failure, and a listed one loses it with the last handle of a file to be deleted.
OwnHandle == \A f \in Opens :
    /\ fcb[f].sfo => fcb[f].state = "listed" \/ causes # {}
    /\ fcb[f].state = "orphan" => causes # {}
    /\ fcb[f].state = "listed" =>
         /\ fcb[f].doc => \E o \in Opens : op[o].doc
         /\ ~fcb[f].sfo => fcb[f].doc
         /\ fcb[f].doc /\ fcb[f].cln = 0 => ~fcb[f].sfo

\* Without a race one open at a time is on its way to an FCB, and only while there is none.
OneAtATime == "raced" \notin causes =>
    /\ Len(vcb) <= 1
    /\ \A o \in Opens : op[o].pc \in Creating =>
         vcb = <<>> /\ \A u \in Opens \ {o} : op[u].pc \notin Creating

ListedOnce == \A i, j \in DOMAIN vcb : vcb[i] = vcb[j] => i = j

FcbInv ==
    /\ FcbTypeOK /\ CountsExact /\ InUseIsListed /\ CrashExplained
    /\ \A o \in Opens : OpenShape(o)
    /\ CountsBound /\ OwnHandle /\ OneAtATime /\ ListedOnce
    /\ pending => LowerOpen(op, fcb)
=============================================================================
