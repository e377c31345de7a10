--------------------------- MODULE MCMonitorDriver ---------------------------
(***************************************************************************)
(* The event queue and the control device of the monitor driver, the      *)
(* string functions, and how both drivers are loaded and unloaded, for     *)
(* TLC.  The modules share no state, so that what one of them does it does *)
(* whatever the others do: a behaviour of this run is one of a single      *)
(* instance, named by part.                                                *)
(***************************************************************************)
EXTENDS StringLib, NotifyQueue, DriverLife, MonitorControl

VARIABLE part

allVars == << vars, part, queueVars, controlVars, lifeVars >>

\* All strings of at most n characters.
Strings(chars, n) == UNION {[1..k -> chars] : k \in 0..n}

\* Every text against every mask.
WildTexts == Strings({"a", "b"}, 4)
WildMasks == Strings({"a", "B", "*", "?"}, 4)

\* Searches; numbers; lists of masks.
Search == INSTANCE StringLib WITH Limit <- 12,
    Calls <- {"ReverseFindW", "ForwardFindW", "EndsWithW", "StartsWithW", "stricmp"},
    Texts <- Strings({"a", "b", "A"}, 3), Patterns <- Strings({"a", "b", "A"}, 3) \ {<< >>}
Number == INSTANCE StringLib WITH Calls <- {"stoul"}, Limit <- 12,
    Texts <- Strings({" ", "-", "+", "0", "1", "2", "9", "b"}, 4), Patterns <- {<< >>}
Lists == INSTANCE StringLib WITH Calls <- {"AddMask"}, Limit <- 12,
    Texts <- Strings({"a", "B", "|"}, 4), Patterns <- {<< >>}

ASSUME /\ Search!StringAssumption /\ Number!StringAssumption /\ Lists!StringAssumption

-----------------------------------------------------------------------------

\* The queue before anything is queued.
NoQueue == QueueInit /\ linkedBy = {"caller"} /\ MessageSize \in [Items -> {CHOOSE n \in Sizes : TRUE}]
NoLife == LifeInit /\ OfMonitor
NoCall == /\ fn = "none" /\ s = << >> /\ p = << >> /\ i = 0 /\ j = 0 /\ mp = NULLPTR /\ cp = NULLPTR
          /\ acc = 0 /\ any = 0 /\ neg = FALSE /\ buf = << >> /\ masks = << >> /\ freedLink = FALSE
          /\ result = NULLPTR /\ pc = "done"

MCInit ==
    \/ part = "queue" /\ QueueInit /\ ControlInit /\ NoLife /\ NoCall
    \/ part = "control" /\ ControlInit /\ NoQueue /\ NoLife /\ NoCall
    \/ part = "life" /\ LifeInit /\ NoQueue /\ ControlInit /\ NoCall
    \/ /\ \/ part = "wild" /\ Init
          \/ part = "search" /\ Search!Init
          \/ part = "number" /\ Number!Init
          \/ part = "lists" /\ Lists!Init
       /\ NoQueue /\ ControlInit /\ NoLife

MCNext ==
    \/ part = "queue" /\ QueueNext /\ UNCHANGED << vars, part, controlVars, lifeVars >>
    \/ part = "control" /\ ControlNext /\ UNCHANGED << vars, part, queueVars, lifeVars >>
    \/ part = "life" /\ LifeNext /\ UNCHANGED << vars, part, queueVars, controlVars >>
    \/ /\ \/ part = "wild" /\ Next
          \/ part = "search" /\ Search!Next
          \/ part = "number" /\ Number!Next
          \/ part = "lists" /\ Lists!Next
       /\ UNCHANGED << part, queueVars, controlVars, lifeVars >>

MCSpec == MCInit /\ [][MCNext]_allVars

-----------------------------------------------------------------------------

\* Giving up the earlier stars of a mask loses no match; the searches agree with what
\* they are named for; a number is read up to its end; no entry of a mask list is
\* read after it has been freed.
CallsAnswer ==
    /\ part = "wild" => TypeOK
    /\ part = "number" => Number!TypeOK
    /\ BacktrackKeepsMatch /\ SearchesAgree /\ NumberIsRead /\ NoFreedLink
=============================================================================
