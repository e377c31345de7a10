-------------------------- MODULE MCDeleteFailures --------------------------
(***************************************************************************)
(* A larger instance of DeleteDetect for TLC: one stream with a rename and *)
(* a call that fails, or two streams whose handles are opened to be        *)
(* deleted on close and no failure.  ActionsBound keeps a behaviour to     *)
(* steps of the one kind or the other.                                     *)
(***************************************************************************)
EXTENDS DeleteDetect, TLC

Symmetry == Permutations(Threads) \cup Permutations(Handles)
              \cup Permutations(Contexts) \cup Permutations(Streams)

\* What the applications do, and what fails, in a step of each kind.
Failing == /\ Cardinality({s \in Streams : file'[s] # "absent"}) <= 1
           /\ \A t \in Threads : op'[t] = "create" => ~flag'[t]
Several == /\ failures' = 0 /\ \A c \in Contexts : ~setDisp'[c]
           /\ \A h \in Handles : handle'[h] = "open" => docHandle'[h]
           /\ \A t \in Threads : op'[t] \notin Classes /\ (op'[t] = "create" => flag'[t])

ActionsBound == Failing \/ Several
=============================================================================
