-------------------------- MODULE MCIsolationDelete --------------------------
(***************************************************************************)
(* The isolation driver's detection of deletions, the references to its    *)
(* instance contexts and its table of process names, for TLC.  The modules *)
(* share no state: a behaviour of this run is one of a single instance,    *)
(* named by part; the state of the other modules stays as it was at first. *)
(***************************************************************************)
EXTENDS IsolationDelete, ProcessNames, IsolationIrp, TLC

CONSTANTS Pid,      \* the ids of the processes whose calls fail
          Unborn    \* processes that are not created there

VARIABLE part

mcVars == << vars, instanceVars, nameVars, part >>

\* Deletions: three handles on a file and its alternate stream, one disposition
\* change, one failure.
Plain == Next /\ changes' <= 1

\* Three racing changes, the handles on one stream.
OneStream == \A h \in Handles : stream'[h] = Main
Race == Next /\ OneStream /\ failures' = 0

\* ReFS, where a file is opened by its id.
ById == INSTANCE IsolationDelete WITH ReFS <- TRUE, Classes <- {"disposition"}

\* Handles on one stream, inside and outside a transaction.
Tx == INSTANCE IsolationDelete WITH Transacted <- TRUE, Classes <- {"disposition"}, MaxChanges <- 0

\* Names: three processes share two ids, and a name is always found; two processes
\* share one, and calls fail.
Names == INSTANCE ProcessNames WITH NameSources <- {"locate", "peb", "handle"}, Failures <- {}
Nameless == INSTANCE ProcessNames WITH PebOfCurrent <- TRUE, NameSources <- {"locate", "denied", "nohandle"}
TwoShare == \A p \in Procs : pid'[p] \in Pid \cup {NoPid} /\ (p \in Unborn => life'[p] = "unborn")

ASSUME ById!IsoDeleteAssumption /\ Tx!IsoDeleteAssumption /\ Names!NamesAssumption /\ Nameless!NamesAssumption

Symmetry == Permutations(Handles)

\* Bounds of the table of names: its entries, and the references to a process.
Bound == Len(table) <= 4 /\ \A p \in Procs : refs[p] <= 3

-----------------------------------------------------------------------------

MCInit ==
    /\ part \in {"delete", "race", "byId", "tx", "instances", "names", "nameless"}
    /\ Init /\ InstancesInit /\ NamesInit

MCNext ==
    \/ /\ \/ part = "delete" /\ Plain
          \/ part = "race" /\ Race
          \/ part = "byId" /\ ById!Next /\ changes' <= 1
          \/ part = "tx" /\ Tx!Next /\ OneStream
       /\ UNCHANGED << part, instanceVars, nameVars >>
    \/ part = "instances" /\ InstancesNext /\ UNCHANGED << part, vars, nameVars >>
    \/ /\ (part = "names" /\ Names!NamesNext) \/ (part = "nameless" /\ Nameless!NamesNext /\ TwoShare)
       /\ UNCHANGED << part, vars, instanceVars >>

MCSpec == MCInit /\ [][MCNext]_mcVars
=============================================================================
