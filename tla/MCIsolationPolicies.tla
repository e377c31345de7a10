------------------------- MODULE MCIsolationPolicies -------------------------
(***************************************************************************)
(* How the isolation driver is told what to do, for TLC: its ports, its    *)
(* control codes, the policies in force and their snapshots.  The modules  *)
(* share no state: a behaviour of this run is one of a single module,      *)
(* named by part, while the others stay in an initial state of theirs.     *)
(***************************************************************************)
EXTENDS IsolationControl, PolicyPin, ClientPorts, IsolationPolicy, TLC

CONSTANTS one, app, f1, f2

VARIABLE part

allVars == << vars, part, policyVars, pinVars, portVars >>

\* Two control threads, and one whose clones run out of memory.  A client asks for the
\* masks {f1} and {f1, f2}, of processes by number or by name, for creates only.
Select == {[pid |-> app, names |-> {}], [pid |-> NoPid, names |-> {app}]}
Short == INSTANCE IsolationPolicy WITH AllocFails <- TRUE

Symmetry == Permutations(Threads)

-----------------------------------------------------------------------------

\* Bound on the changes whose clones run out of memory: one at a time.
ShortBound == Cardinality({t \in Changers : op[t] # Idle}) <= 1

\* Bound on the snapshots: three threads while there is one left, then two at a time.
PinBound == (\E s \in Snaps : memory[s] = "unused") \/ (\E t \in Threads : pc[t] = "idle")

MCInit ==
    /\ Init /\ PinInit /\ PortsInit /\ PolicyInit
    /\ \/ part \in {"control", "pin", "policy", "short"} /\ cookieGiven
       \/ part = "ports"

MCNext ==
    \/ /\ part = "control" /\ Next
       /\ UNCHANGED << part, policyVars, pinVars, portVars >>
    \/ /\ (part = "policy" /\ PolicyNext) \/ (part = "short" /\ Short!PolicyNext /\ ShortBound')
       /\ UNCHANGED << vars, part, pinVars, portVars >>
    \/ /\ part = "pin" /\ PinNext /\ PinBound'
       /\ UNCHANGED << vars, part, policyVars, portVars >>
    \/ /\ part = "ports" /\ PortsNext
       /\ UNCHANGED << vars, part, policyVars, pinVars >>

MCSpec == MCInit /\ [][MCNext]_allVars
=============================================================================
