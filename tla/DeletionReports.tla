--------------------------- MODULE DeletionReports ---------------------------
(***************************************************************************)
(* What delete detection promises (src/README.md, and the header comments  *)
(* of fltCleanup.cpp's candidate test): the deletion of a stream is        *)
(* reported once, after it has happened, unless something that excuses the *)
(* detector has happened to the stream.                                    *)
(***************************************************************************)
EXTENDS Naturals

CONSTANT Streams

VARIABLES
  life,      \* "absent", "live" or "deleted"
  told,      \* how often the deletion of the stream has been reported
  excused    \* the detector may miss the deletion of the stream

vars == <<life, told, excused>>

Init == /\ life = [s \in Streams |-> "absent"]
        /\ told = [s \in Streams |-> 0]
        /\ excused = [s \in Streams |-> FALSE]

(* A stream comes to life; one that does so unseen is excused at once. *)
Appear(s) == /\ life[s] = "absent"
             /\ life' = [life EXCEPT ![s] = "live"]
             /\ \E e \in BOOLEAN :
                  excused' = [excused EXCEPT ![s] = @ \/ e]
             /\ UNCHANGED told

Delete(s) == /\ life[s] = "live"
             /\ life' = [life EXCEPT ![s] = "deleted"]
             /\ UNCHANGED <<told, excused>>

Tell(s) == /\ life[s] = "deleted" /\ told[s] = 0
           /\ told' = [told EXCEPT ![s] = 1]
           /\ UNCHANGED <<life, excused>>

Excuse(s) == /\ excused' = [excused EXCEPT ![s] = TRUE]
             /\ UNCHANGED <<life, told>>

Next == \E s \in Streams : Appear(s) \/ Delete(s) \/ Tell(s) \/ Excuse(s)

Spec == Init /\ [][Next]_vars
=============================================================================
