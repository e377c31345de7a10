--------------------------- MODULE MCIsolationFile ---------------------------
(***************************************************************************)
(* A file of the isolation driver, for TLC: the locks of its FCB, its data *)
(* and sizes, and the FCB itself.  The modules share no state, so that     *)
(* what one of them does it does whatever the others do: a behaviour of    *)
(* this run is one of a single instance, named by part.                    *)
(***************************************************************************)
EXTENDS FcbLocks, PrivateFcb, FileData, TLC

VARIABLE part

allVars == << vars, part, dataVars, fcbVars >>

\* The same jobs with |= and &= taken apart.
Split == INSTANCE FcbLocks WITH FlagsAtomic <- FALSE, MaxJobs <- 3

ASSUME Split!LockAssumption

Symmetry == Permutations(Threads) \cup Permutations(Opens)

-----------------------------------------------------------------------------

NoData == DataInit /\ fs = 0
NoFile == FcbInit /\ ~exists

\* The jobs of the locks: user I/O, size changes, sections, flushes of either kind, one
\* lazy writer, two read-aheads, the mapped page writer.  The data: three operations on a file of two
\* pages, one allocation that fails.
MCInit ==
    /\ Init
    /\ \/ part \in {"locks", "split"} /\ NoData /\ NoFile
       \/ part = "data" /\ DataInit /\ NoFile
       \/ part = "fcb" /\ NoData /\ FcbInit

MCNext ==
    \/ part = "locks" /\ Next /\ UNCHANGED << part, dataVars, fcbVars >>
    \/ part = "split" /\ Split!Next /\ UNCHANGED << part, dataVars, fcbVars >>
    \/ part = "data" /\ DataNext /\ UNCHANGED << vars, part, fcbVars >>
    \/ part = "fcb" /\ FcbNext /\ UNCHANGED << vars, part, dataVars >>

MCSpec == MCInit /\ [][MCNext]_allVars

=============================================================================
