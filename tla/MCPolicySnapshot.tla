-------------------------- MODULE MCPolicySnapshot --------------------------
(* Instances of PolicySnapshot for TLC. *)
EXTENDS PolicySnapshot, FiniteSets

(* Threads, policies and the snapshots not yet allocated are alike. *)
Symmetry == Permutations(Threads) \cup Permutations(Policies)
            \cup Permutations(Snapshots \ {First})
=============================================================================
