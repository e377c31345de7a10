--------------------------- MODULE MCDeleteDetect ---------------------------
(* Small instances of DeleteDetect for TLC. *)
EXTENDS DeleteDetect, TLC

Symmetry == Permutations(Threads) \cup Permutations(Handles)
              \cup Permutations(Contexts) \cup Permutations(Streams)
=============================================================================
