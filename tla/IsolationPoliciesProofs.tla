----------------------- MODULE IsolationPoliciesProofs -----------------------
(***************************************************************************)
(* Proofs about how the isolation driver is told what to do, for any       *)
(* number of threads, snapshots, connections, processes and masks:         *)
(*   1. PolicyPin: the counts of the snapshots are exact, and the filter   *)
(*      in force, counted snapshots and held entries are freed only after  *)
(*      one of the named events;                                           *)
(*   2. ClientPorts: the table of ports is that of the connections;        *)
(*   3. IsolationControl: the status and the masks are those asked for,    *)
(*      and only the controlling process changes the driver;               *)
(*   4. IsolationPolicy: the entries in force and the decisions are those  *)
(*      the client asked for, unless a clone lost something.               *)
(***************************************************************************)
EXTENDS IsolationControl, PolicyPin, ClientPorts, IsolationPolicy, FiniteSetTheorems, SequenceTheorems,
        WellFoundedInduction, TLAPS

-----------------------------------------------------------------------------
(* 1. The snapshots of the process filter.                                   *)

-----------------------------------------------------------------------------
(* A step of a thread leaves the registers and the place of every other one   *)
(* alone.                                                                     *)
Alone(t) ==
    /\ pc' \in [Threads -> Touching \cup {"idle", "load", "allocate", "exchange", "test"}]
    /\ ptr' \in [Threads -> Registers]
    /\ request' \in [Threads -> Calls \cup {"none"}]
    /\ reg' \in [Threads -> [Registers -> Snaps \cup {None}]]
    /\ \A u \in Threads \ {t} :
         reg'[u] = reg[u] /\ pc'[u] = pc[u] /\ ptr'[u] = ptr[u] /\ request'[u] = request[u]

(* The step and the register a thread goes to. *)
Goes(t, step, r, c) == pc'[t] = step /\ ptr'[t] = r /\ request'[t] = c

LEMMA GotoGoes ==
  ASSUME PinTypeOK, NEW t \in Threads, NEW r \in Registers,
         NEW step \in Touching \cup {"idle", "load", "allocate", "exchange", "test"},
         Goto(t, step, r), UNCHANGED request, UNCHANGED reg
  PROVE  Alone(t) /\ Goes(t, step, r, request[t])
  BY DEF PinTypeOK, Goto, Alone, Goes

(* ... and writes one of its registers. *)
LEMMA WriteGoes ==
  ASSUME PinTypeOK, NEW t \in Threads, NEW r \in Registers,
         NEW step \in Touching \cup {"idle", "load", "allocate", "exchange", "test"},
         NEW w \in Registers, NEW v \in Snaps \cup {None},
         Goto(t, step, r), UNCHANGED request, reg' = [reg EXCEPT ![t][w] = v]
  PROVE  /\ Alone(t) /\ Goes(t, step, r, request[t])
         /\ reg'[t][w] = v
         /\ \A q \in Registers \ {w} : reg'[t][q] = reg[t][q]
  BY DEF PinTypeOK, Goto, Alone, Goes

(* A release returns: the register is given up. *)
LEMMA ReleasedGoes ==
  ASSUME PinTypeOK, NEW t \in Threads, Released(t), Shape(t), pc[t] \in Releasing
  PROVE  /\ Alone(t)
         /\ reg'[t][ptr[t]] = None
         /\ \A q \in Registers \ {ptr[t]} : reg'[t][q] = reg[t][q]
         /\ \/ Goes(t, "idle", "PFilter", "none") /\ (ptr[t] # "PFilter" \/ (request[t] # "change" /\ reg[t]["Entry"] = None))
            \/ Goes(t, "use", "Entry", "match") /\ ptr[t] = "PFilter" /\ request[t] = "match" /\ reg[t]["Entry"] # None
            \/ Goes(t, "exchange", "NewFilter", "change") /\ ptr[t] = "PFilter" /\ request[t] = "change"
            \/ Goes(t, "decrement", "NewFilter", "change") /\ ptr[t] = "PFilter" /\ request[t] = "change"
<1>1. reg' = [reg EXCEPT ![t][ptr[t]] = None]
  BY DEF Released
<1>2. /\ reg' \in [Threads -> [Registers -> Snaps \cup {None}]]
      /\ \A u \in Threads \ {t} : reg'[u] = reg[u]
      /\ reg'[t][ptr[t]] = None
      /\ \A q \in Registers \ {ptr[t]} : reg'[t][q] = reg[t][q]
  BY <1>1 DEF PinTypeOK
<1>3. reg[t]["Entry"] # None => request[t] = "match"
  BY DEF Shape
<1>4. \/ /\ Goto(t, "idle", "PFilter") /\ request' = [request EXCEPT ![t] = "none"]
         /\ ptr[t] # "PFilter" \/ (request[t] # "change" /\ reg[t]["Entry"] = None)
      \/ /\ Goto(t, "use", "Entry") /\ UNCHANGED request
         /\ ptr[t] = "PFilter" /\ request[t] = "match" /\ reg[t]["Entry"] # None
      \/ /\ Goto(t, "exchange", "NewFilter") /\ UNCHANGED request
         /\ ptr[t] = "PFilter" /\ request[t] = "change"
      \/ /\ Goto(t, "decrement", "NewFilter") /\ UNCHANGED request
         /\ ptr[t] = "PFilter" /\ request[t] = "change"
  BY <1>3 DEF Released, Return
<1>5. ASSUME NEW step \in Touching \cup {"idle", "load", "allocate", "exchange", "test"},
             NEW r \in Registers, NEW c \in Calls \cup {"none"},
             Goto(t, step, r), request' = [request EXCEPT ![t] = c]
      PROVE  Alone(t) /\ Goes(t, step, r, c)
  BY <1>2, <1>5 DEF PinTypeOK, Goto, Alone, Goes
<1>6. UNCHANGED request => request' = [request EXCEPT ![t] = request[t]] /\ request[t] \in Calls \cup {"none"}
  BY DEF PinTypeOK
<1>7. {"idle", "use", "exchange", "decrement"} \subseteq Touching \cup {"idle", "load", "allocate", "exchange", "test"}
  BY DEF Touching
<1>8. {"PFilter", "Entry", "NewFilter"} \subseteq Registers
  BY DEF Registers
<1>a. CASE /\ Goto(t, "idle", "PFilter") /\ request' = [request EXCEPT ![t] = "none"]
           /\ ptr[t] # "PFilter" \/ (request[t] # "change" /\ reg[t]["Entry"] = None)
  BY <1>2, <1>5, <1>7, <1>8, <1>a
<1>b. CASE /\ Goto(t, "use", "Entry") /\ UNCHANGED request
           /\ ptr[t] = "PFilter" /\ request[t] = "match" /\ reg[t]["Entry"] # None
  BY <1>2, <1>5, <1>6, <1>7, <1>8, <1>b
<1>c. CASE /\ Goto(t, "exchange", "NewFilter") /\ UNCHANGED request
           /\ ptr[t] = "PFilter" /\ request[t] = "change"
  BY <1>2, <1>5, <1>6, <1>7, <1>8, <1>c
<1>d. CASE /\ Goto(t, "decrement", "NewFilter") /\ UNCHANGED request
           /\ ptr[t] = "PFilter" /\ request[t] = "change"
  BY <1>2, <1>5, <1>6, <1>7, <1>8, <1>d
<1> QED
  BY <1>4, <1>a, <1>b, <1>c, <1>d

-----------------------------------------------------------------------------
(* What each step does to the registers its thread has counted: nothing, it   *)
(* counts one more, or it gives one up.                                       *)
HeldSame(t) == \A r \in Counted :
    /\ Holds(t, r)' <=> Holds(t, r)
    /\ Holds(t, r) => reg'[t][r] = reg[t][r]
HeldMore(t, w, s) ==
    /\ w \in Counted /\ ~Holds(t, w) /\ Holds(t, w)' /\ reg'[t][w] = s
    /\ \A r \in Counted \ {w} : /\ Holds(t, r)' <=> Holds(t, r)
                                /\ Holds(t, r) => reg'[t][r] = reg[t][r]
HeldLess(t, w) ==
    /\ w \in Counted /\ Holds(t, w) /\ ~Holds(t, w)'
    /\ \A r \in Counted \ {w} : /\ Holds(t, r)' <=> Holds(t, r)
                                /\ Holds(t, r) => reg'[t][r] = reg[t][r]

LEMMA CallHeld ==
  ASSUME PinTypeOK, NEW t \in Threads, Shape(t), Call(t)
  PROVE  Alone(t) /\ Shape(t)' /\ Mine(t)' \in {None, Mine(t)} /\ HeldSame(t) /\ reg' = reg /\ pc'[t] \notin Ending
<1>1. PICK c \in Calls : /\ request' = [request EXCEPT ![t] = c] /\ pc[t] = "idle"
                         /\ \/ c = "reset" /\ Goto(t, "allocate", "NewFilter")
                            \/ c # "reset" /\ Goto(t, "load", "PFilter")
                         /\ UNCHANGED reg
  BY DEF Call
<1>2. /\ Alone(t) /\ reg' = reg /\ c \in {"match", "change", "reset"}
      /\ Goes(t, "allocate", "NewFilter", "reset") \/ (c # "reset" /\ Goes(t, "load", "PFilter", c))
  BY <1>1, PinAssumption DEF PinTypeOK, Goto, Alone, Goes, Touching, Registers
<1>3. \A r \in Registers : reg[t][r] = None
  BY <1>1 DEF Shape, Place, Holds, Ending, Registers
<1>4. Mine(t)' \in {None, Mine(t)}
  BY <1>1, <1>2, <1>3 DEF Mine, Goes, Registers
<1> QED
  BY <1>1, <1>2, <1>3, <1>4 DEF Goes, Shape, Place, Holds, Ending, Registers, HeldSame, Counted, Releasing

LEMMA LoadHeld ==
  ASSUME PinTypeOK, NEW t \in Threads, Shape(t), Load(t)
  PROVE  /\ Alone(t) /\ Shape(t)' /\ Mine(t)' \in {None, Mine(t)} /\ HeldSame(t) /\ pc'[t] \notin Ending
         /\ reg'[t][ptr[t]] = current /\ ptr[t] \in {"PFilter", "Handle"} /\ reg[t][ptr[t]] = None
         /\ \A q \in Registers \ {ptr[t]} : reg'[t][q] = reg[t][q]
<1>1. /\ Alone(t) /\ Goes(t, "increment", ptr[t], request[t])
      /\ reg'[t][ptr[t]] = current
      /\ \A q \in Registers \ {ptr[t]} : reg'[t][q] = reg[t][q]
  BY WriteGoes DEF Load, PinTypeOK, Touching
<1>2. current # None
  BY PinAssumption DEF PinTypeOK
<1>3. Mine(t)' \in {None, Mine(t)}
  BY <1>1 DEF Load, Mine, Goes, Shape, Place, Holds, Ending, Registers, Counted, Releasing
<1> QED
  BY <1>1, <1>2, <1>3 DEF Load, Goes, Shape, Place, Holds, Ending, Registers, HeldSame, Counted, Releasing

LEMMA IncrementHeld ==
  ASSUME PinTypeOK, NEW t \in Threads, Shape(t), Increment(t), NEW w \in Registers, w = ptr[t]
  PROVE  /\ Alone(t) /\ Shape(t)' /\ Mine(t)' \in {None, Mine(t)} /\ HeldMore(t, w, At(t)) /\ pc'[t] \notin Ending
         /\ reg' = reg /\ At(t) \in Snaps
<1>1. \/ ptr[t] = "Handle" /\ Goto(t, "decrement", "PFilter")
      \/ ptr[t] # "Handle" /\ request[t] = "match" /\ Goto(t, "walk", "PFilter")
      \/ ptr[t] # "Handle" /\ request[t] = "change" /\ Goto(t, "allocate", "NewFilter")
      \/ ptr[t] # "Handle" /\ request[t] = "reset" /\ Goto(t, "exchange", "NewFilter")
  BY DEF Increment, Referenced
<1>2. /\ Alone(t)
      /\ \/ ptr[t] = "Handle" /\ Goes(t, "decrement", "PFilter", request[t])
         \/ ptr[t] # "Handle" /\ Goes(t, "walk", "PFilter", "match")
         \/ ptr[t] # "Handle" /\ Goes(t, "allocate", "NewFilter", "change")
         \/ ptr[t] # "Handle" /\ Goes(t, "exchange", "NewFilter", "reset")
      /\ ptr[t] # "Handle" => request[t] = request'[t]
  BY <1>1, GotoGoes DEF Increment, Registers, Touching, Goes
<1>3. reg' = reg /\ pc[t] = "increment" /\ ptr[t] \in {"PFilter", "Handle"} /\ reg[t][ptr[t]] # None
  BY DEF Increment, Shape, Place
<1>4. At(t) \in Snaps
  BY <1>3 DEF At, PinTypeOK
<1>7. Mine(t)' \in {None, Mine(t)}
  BY <1>2, <1>3 DEF Mine, Goes, Shape, Place, Holds, Ending, Registers, Counted, Releasing
<1>5. CASE ptr[t] = "Handle"
  BY <1>2, <1>3, <1>4, <1>5, <1>7 DEF HeldMore, At, Goes, Shape, Place, Holds, Ending, Registers, Counted, Releasing
<1>6. CASE ptr[t] = "PFilter"
  <2>1. Alone(t) /\ (\/ Goes(t, "walk", "PFilter", "match") \/ Goes(t, "allocate", "NewFilter", "change")
                      \/ Goes(t, "exchange", "NewFilter", "reset")) /\ request'[t] = request[t]
    BY <1>2, <1>6
  <2>2. Shape(t)' /\ pc'[t] \notin Ending
    BY <1>3, <1>6, <2>1 DEF Goes, Shape, Place, Holds, Ending, Registers, Counted, Releasing
  <2>3. HeldMore(t, w, At(t))
    BY <1>3, <1>6, <2>1 DEF HeldMore, At, Goes, Shape, Place, Holds, Ending, Registers, Counted, Releasing
  <2> QED
    BY <1>3, <1>4, <1>6, <2>1, <2>2, <2>3, <1>7
<1> QED
  BY <1>3, <1>5, <1>6

LEMMA WalkHeld ==
  ASSUME PinTypeOK, NEW t \in Threads, Shape(t), Walk(t)
  PROVE  /\ Alone(t) /\ Shape(t)' /\ Mine(t)' \in {None, Mine(t)} /\ HeldSame(t) /\ pc'[t] \notin Ending
         /\ Holds(t, "PFilter") /\ reg[t]["Handle"] = None
         /\ \A q \in Registers \ {"Entry"} : reg'[t][q] = reg[t][q]
         /\ reg'[t]["Entry"] \in {None, reg[t]["PFilter"]}
<1>1. \/ reg' = [reg EXCEPT ![t]["Entry"] = At(t)] /\ Goto(t, "load", "Handle") /\ UNCHANGED request
      \/ Goto(t, "decrement", "PFilter") /\ UNCHANGED request /\ UNCHANGED reg
  BY DEF Walk, NotFound
<1>2. /\ pc[t] = "walk" /\ ptr[t] = "PFilter" /\ request[t] = "match"
      /\ At(t) = reg[t]["PFilter"] /\ At(t) # None /\ At(t) \in Snaps
      /\ reg[t]["Entry"] = None /\ reg[t]["NewFilter"] = None /\ reg[t]["Handle"] = None
  <2>1. pc[t] = "walk" /\ ptr[t] = "PFilter" /\ request[t] = "match" /\ Holds(t, "PFilter")
    BY DEF Walk, Shape, Place, Holds
  <2>2. reg[t] \in [Registers -> Snaps \cup {None}] /\ At(t) = reg[t]["PFilter"]
    BY <2>1 DEF PinTypeOK, At
  <2>3. At(t) # None /\ At(t) \in Snaps
    BY <2>1, <2>2 DEF Shape, Registers
  <2>4. reg[t]["Entry"] = None /\ reg[t]["NewFilter"] = None /\ reg[t]["Handle"] = None
    BY <2>1 DEF Shape, Holds, Ending, Releasing
  <2> QED
    BY <2>1, <2>2, <2>3, <2>4
<1>3. CASE reg' = [reg EXCEPT ![t]["Entry"] = At(t)] /\ Goto(t, "load", "Handle") /\ UNCHANGED request
  <2>1. /\ Alone(t) /\ Goes(t, "load", "Handle", "match")
        /\ reg'[t]["Entry"] = reg[t]["PFilter"]
        /\ \A q \in Registers \ {"Entry"} : reg'[t][q] = reg[t][q]
    <3>1. /\ "PFilter" \in Registers /\ "Handle" \in Registers /\ "Entry" \in Registers
          /\ "load" \in Touching \cup {"idle", "load", "allocate", "exchange", "test"}
          /\ At(t) \in Snaps \cup {None}
      BY <1>2 DEF Registers
    <3> QED
      BY <1>2, <1>3, <3>1 DEF PinTypeOK, Goto, Alone, Goes
  <2> QED
    BY <1>2, <2>1 DEF Mine, HeldSame, Goes, Shape, Place, Holds, Ending, Registers, Counted, Releasing
<1>4. CASE Goto(t, "decrement", "PFilter") /\ UNCHANGED request /\ UNCHANGED reg
  <2>1. Alone(t) /\ Goes(t, "decrement", "PFilter", "match") /\ reg' = reg
    BY <1>2, <1>4, GotoGoes DEF Registers, Touching
  <2> QED
    BY <1>2, <2>1 DEF Mine, HeldSame, Goes, Shape, Place, Holds, Ending, Registers, Counted, Releasing
<1> QED
  BY <1>1, <1>3, <1>4

LEMMA UseHeld ==
  ASSUME PinTypeOK, NEW t \in Threads, Shape(t), Use(t)
  PROVE  /\ Alone(t) /\ Shape(t)' /\ Mine(t)' \in {None, Mine(t)} /\ HeldSame(t) /\ pc'[t] \notin Ending
         /\ reg'[t]["Entry"] = None
         /\ \A q \in Registers \ {"Entry"} : reg'[t][q] = reg[t][q]
<1>1. /\ Alone(t) /\ Goes(t, "decrement", "Handle", request[t])
      /\ reg'[t]["Entry"] = None
      /\ \A q \in Registers \ {"Entry"} : reg'[t][q] = reg[t][q]
  BY WriteGoes DEF Use, Registers, Touching
<1> QED
  BY <1>1 DEF Use, Mine, HeldSame, Goes, Shape, Place, Holds, Ending, Registers, Counted, Releasing

LEMMA AllocateHeld ==
  ASSUME PinTypeOK, NEW t \in Threads, Shape(t), Allocate(t)
  PROVE  \E s \in Snaps :
         /\ memory[s] = "unused" /\ memory' = [memory EXCEPT ![s] = "live"]
         /\ count' = [count EXCEPT ![s] = FirstCount(request[t])]
         /\ Alone(t) /\ Shape(t)' /\ pc'[t] \notin Ending
         /\ request[t] = "change" => HeldMore(t, "NewFilter", s)
         /\ request[t] # "change" => HeldSame(t)
         /\ reg[t]["NewFilter"] = None /\ reg'[t]["NewFilter"] = s
         /\ \A q \in Registers \ {"NewFilter"} : reg'[t][q] = reg[t][q]
<1>1. PICK s \in Snaps : /\ memory[s] = "unused" /\ memory' = [memory EXCEPT ![s] = "live"]
                         /\ count' = [count EXCEPT ![s] = FirstCount(request[t])]
                         /\ reg' = [reg EXCEPT ![t]["NewFilter"] = s]
  BY DEF Allocate
<1>2. /\ pc[t] = "allocate" /\ ptr[t] = "NewFilter" /\ request[t] \in {"change", "reset"}
      /\ Goto(t, IF request[t] = "change" THEN "decrement" ELSE "load", "PFilter") /\ UNCHANGED request
  BY DEF Allocate, Shape, Place
<1>3. /\ Alone(t) /\ Goes(t, IF request[t] = "change" THEN "decrement" ELSE "load", "PFilter", request[t])
      /\ reg'[t]["NewFilter"] = s
      /\ \A q \in Registers \ {"NewFilter"} : reg'[t][q] = reg[t][q]
  <2>1. (IF request[t] = "change" THEN "decrement" ELSE "load")
          \in Touching \cup {"idle", "load", "allocate", "exchange", "test"}
    BY DEF Touching
  <2>2. "PFilter" \in Registers /\ "NewFilter" \in Registers
    BY DEF Registers
  <2> QED
    BY <1>1, <1>2, <2>1, <2>2 DEF PinTypeOK, Goto, Alone, Goes
<1>4. s # None
  BY PinAssumption
<1>5. Shape(t)' /\ pc'[t] \notin Ending /\ reg[t]["NewFilter"] = None
  BY <1>2, <1>3, <1>4 DEF Goes, Shape, Place, Holds, Ending, Registers, Counted, Releasing
<1>6. request[t] = "change" => HeldMore(t, "NewFilter", s)
  BY <1>2, <1>3, <1>4 DEF HeldMore, Goes, Shape, Place, Holds, Ending, Registers, Counted, Releasing
<1>7. request[t] # "change" => HeldSame(t)
  BY <1>2, <1>3, <1>4 DEF HeldSame, Goes, Shape, Place, Holds, Ending, Registers, Counted, Releasing
<1> QED
  BY <1>1, <1>3, <1>5, <1>6, <1>7

LEMMA ExchangeHeld ==
  ASSUME PinTypeOK, NEW t \in Threads, Shape(t), ExchangeFilter(t)
  PROVE  /\ Alone(t) /\ Shape(t)' /\ HeldSame(t) /\ pc'[t] \notin Ending
         /\ current' = reg[t]["NewFilter"] /\ Mine(t) = reg[t]["NewFilter"] /\ reg[t]["NewFilter"] \in Snaps
         /\ reg'[t]["NewFilter"] \in {None, reg[t]["NewFilter"]} /\ Mine(t)' = None
         /\ \A q \in Registers \ {"NewFilter"} : reg'[t][q] = reg[t][q]
<1>1. /\ pc[t] = "exchange" /\ ptr[t] = "NewFilter" /\ request[t] \in {"change", "reset"}
      /\ reg[t]["NewFilter"] # None /\ current' = reg[t]["NewFilter"] /\ Mine(t) = reg[t]["NewFilter"]
  BY DEF ExchangeFilter, At, Mine, Goes, Shape, Place, Holds, Ending, Registers, Counted, Releasing
<1>2. reg[t]["NewFilter"] \in Snaps
  BY <1>1 DEF PinTypeOK, Registers
<1>3. CASE request[t] = "change"
  <2>1. Alone(t) /\ Goes(t, "decrement", "NewFilter", "change") /\ reg' = reg
    BY <1>1, <1>3, GotoGoes DEF ExchangeFilter, Registers, Touching
  <2> QED
    BY <1>1, <1>2, <1>3, <2>1 DEF HeldSame, Mine, Goes, Shape, Place, Holds, Ending, Registers, Counted, Releasing
<1>4. CASE request[t] = "reset"
  <2>1. /\ Alone(t) /\ Goes(t, "decrement", "PFilter", "reset")
        /\ reg'[t]["NewFilter"] = None
        /\ \A q \in Registers \ {"NewFilter"} : reg'[t][q] = reg[t][q]
    BY <1>1, <1>4, WriteGoes DEF ExchangeFilter, Registers, Touching
  <2> QED
    BY <1>1, <1>2, <1>4, <2>1 DEF HeldSame, Mine, Goes, Shape, Place, Holds, Ending, Registers, Counted, Releasing
<1> QED
  BY <1>1, <1>3, <1>4

LEMMA ReleasedHeld ==
  ASSUME PinTypeOK, NEW t \in Threads, Shape(t), Released(t), pc[t] \in Releasing,
         NEW w \in Registers, w = ptr[t]
  PROVE  /\ Alone(t) /\ Shape(t)' /\ Mine(t)' \in {None, Mine(t)} /\ pc'[t] \notin Ending /\ ptr[t] \in Counted
         /\ reg'[t][ptr[t]] = None
         /\ \A q \in Registers \ {ptr[t]} : reg'[t][q] = reg[t][q]
         /\ pc[t] = "decrement" => HeldLess(t, w)
         /\ pc[t] # "decrement" => HeldSame(t)
<1>1. /\ Alone(t)
      /\ reg'[t][ptr[t]] = None
      /\ \A q \in Registers \ {ptr[t]} : reg'[t][q] = reg[t][q]
      /\ \/ Goes(t, "idle", "PFilter", "none") /\ (ptr[t] # "PFilter" \/ (request[t] # "change" /\ reg[t]["Entry"] = None))
         \/ Goes(t, "use", "Entry", "match") /\ ptr[t] = "PFilter" /\ request[t] = "match" /\ reg[t]["Entry"] # None
         \/ Goes(t, "exchange", "NewFilter", "change") /\ ptr[t] = "PFilter" /\ request[t] = "change"
         \/ Goes(t, "decrement", "NewFilter", "change") /\ ptr[t] = "PFilter" /\ request[t] = "change"
  BY ReleasedGoes
<1>2. ptr[t] \in Counted
  BY DEF Shape, Place
<1>3. CASE Goes(t, "idle", "PFilter", "none") /\ (ptr[t] # "PFilter" \/ (request[t] # "change" /\ reg[t]["Entry"] = None))
  <2>1. \A r \in Registers : reg'[t][r] = None /\ ~Holds(t, r)'
    BY <1>1, <1>2, <1>3 DEF Goes, Shape, Place, Holds, Ending, Registers, Counted, Releasing
  <2>2. Shape(t)' /\ pc'[t] \notin Ending /\ Mine(t)' \in {None, Mine(t)}
    BY <1>1, <1>3, <2>1 DEF Mine, Goes, Shape, Place, Holds, Ending, Registers, Counted, Releasing
  <2>3. \A r \in Counted \ {ptr[t]} : ~Holds(t, r)
    BY <1>2, <1>3 DEF Goes, Shape, Place, Holds, Ending, Registers, Counted, Releasing
  <2>4. Holds(t, ptr[t]) <=> pc[t] = "decrement"
    BY <1>2, <1>3 DEF Goes, Shape, Place, Holds, Ending, Registers, Counted, Releasing
  <2>5. Counted \subseteq Registers
    BY DEF Counted, Registers
  <2>6. pc[t] = "decrement" => HeldLess(t, w)
    BY <1>2, <2>1, <2>3, <2>4, <2>5 DEF HeldLess
  <2>7. pc[t] # "decrement" => HeldSame(t)
    BY <1>2, <2>1, <2>3, <2>4, <2>5 DEF HeldSame
  <2> QED
    BY <1>1, <1>2, <2>2, <2>6, <2>7
<1>4. CASE Goes(t, "use", "Entry", "match") /\ ptr[t] = "PFilter" /\ request[t] = "match" /\ reg[t]["Entry"] # None
  <2>1. Shape(t)' /\ pc'[t] \notin Ending /\ Mine(t)' \in {None, Mine(t)}
    BY <1>1, <1>4 DEF Mine, Goes, Shape, Place, Holds, Ending, Registers, Counted, Releasing
  <2>2. /\ pc[t] = "decrement" => HeldLess(t, w)
        /\ pc[t] # "decrement" => HeldSame(t)
    BY <1>1, <1>4 DEF HeldLess, HeldSame, Goes, Shape, Place, Holds, Ending, Registers, Counted, Releasing
  <2> QED
    BY <1>1, <1>2, <2>1, <2>2
<1>5. CASE /\ Goes(t, "exchange", "NewFilter", "change") \/ Goes(t, "decrement", "NewFilter", "change")
           /\ ptr[t] = "PFilter" /\ request[t] = "change"
  <2>1. Shape(t)' /\ pc'[t] \notin Ending /\ Mine(t)' \in {None, Mine(t)}
    BY <1>1, <1>5 DEF Mine, Goes, Shape, Place, Holds, Ending, Registers, Counted, Releasing
  <2>3. \A r \in Counted : /\ Holds(t, r)' <=> r = "NewFilter"
                           /\ Holds(t, r) <=> r = "NewFilter" \/ (r = "PFilter" /\ pc[t] = "decrement")
    <3>1. reg[t]["Entry"] = None
      BY <1>5 DEF Shape
    <3> QED
      BY <1>1, <1>5, <3>1 DEF Holds, Goes, Counted, Releasing
  <2>2. /\ pc[t] = "decrement" => HeldLess(t, w)
        /\ pc[t] # "decrement" => HeldSame(t)
    BY <1>1, <1>5, <2>3 DEF HeldLess, HeldSame, Counted, Registers
  <2> QED
    BY <1>1, <1>2, <2>1, <2>2
<1> QED
  BY <1>1, <1>3, <1>4, <1>5

LEMMA DecrementHeld ==
  ASSUME PinTypeOK, NEW t \in Threads, Shape(t), Decrement(t), NEW w \in Registers, w = ptr[t]
  PROVE  /\ Alone(t) /\ Shape(t)' /\ Mine(t)' \in {None, Mine(t)} /\ HeldLess(t, w) /\ At(t) \in Snaps /\ ptr[t] \in Counted
         /\ count' = [count EXCEPT ![At(t)] = @ - 1]
         /\ \/ /\ count[At(t)] > 1 /\ Released(t) /\ pc'[t] \notin Ending
               /\ reg'[t][ptr[t]] = None
               /\ \A q \in Registers \ {ptr[t]} : reg'[t][q] = reg[t][q]
            \/ count[At(t)] <= 1 /\ pc'[t] = "zero" /\ ptr'[t] = ptr[t] /\ reg' = reg
<1>1. pc[t] = "decrement" /\ pc[t] \in Releasing /\ ptr[t] \in Counted /\ Holds(t, ptr[t])
  BY DEF Decrement, Goes, Shape, Place, Holds, Ending, Registers, Counted, Releasing
<1>2. At(t) # None /\ At(t) \in Snaps
  BY <1>1 DEF At, PinTypeOK, Goes, Shape, Place, Holds, Ending, Registers, Counted, Releasing
<1>3. /\ count' = [count EXCEPT ![At(t)] = @ - 1]
      /\ IF count'[At(t)] > 0 THEN Released(t) ELSE Goto(t, "zero", ptr[t]) /\ UNCHANGED <<reg, request>>
  BY DEF Decrement
<1>4. count'[At(t)] = count[At(t)] - 1 /\ count[At(t)] \in Int
  BY <1>2, <1>3 DEF PinTypeOK
<1>5. CASE count[At(t)] > 1
  <2>1. Released(t)
    BY <1>3, <1>4, <1>5
  <2> QED
    BY <1>1, <1>2, <1>3, <1>5, <2>1, ReleasedHeld
<1>6. CASE count[At(t)] <= 1
  <2>1. Goto(t, "zero", ptr[t]) /\ UNCHANGED <<reg, request>>
    BY <1>3, <1>4, <1>6
  <2>2. Alone(t) /\ Goes(t, "zero", ptr[t], request[t])
    BY <2>1, GotoGoes DEF PinTypeOK, Touching
  <2>3. Shape(t)' /\ Mine(t)' \in {None, Mine(t)}
    BY <1>1, <2>1, <2>2 DEF Mine, Goes, Shape, Place, Holds, Ending, Registers, Counted, Releasing
  <2>4. HeldLess(t, w)
    BY <1>1, <2>1, <2>2 DEF HeldLess, Goes, Shape, Place, Holds, Ending, Registers, Counted, Releasing
  <2> QED
    BY <1>1, <1>2, <1>3, <1>6, <2>1, <2>2, <2>3, <2>4 DEF Goes
<1> QED
  BY <1>4, <1>5, <1>6

LEMMA ZeroHeld ==
  ASSUME PinTypeOK, NEW t \in Threads, Shape(t), Zero(t)
  PROVE  /\ Alone(t) /\ Shape(t)' /\ Mine(t)' \in {None, Mine(t)} /\ HeldSame(t) /\ At(t) \in Snaps /\ ptr[t] \in Counted
         /\ reg' = reg /\ pc'[t] = "test" /\ ptr'[t] = ptr[t]
<1>1. pc[t] = "zero" /\ ptr[t] \in Counted /\ reg' = reg
  BY DEF Zero, Goes, Shape, Place, Holds, Ending, Registers, Counted, Releasing
<1>2. Alone(t) /\ Goes(t, "test", ptr[t], request[t])
  BY GotoGoes DEF Zero, PinTypeOK, Touching
<1>3. At(t) # None /\ At(t) \in Snaps
  BY <1>1 DEF At, PinTypeOK, Goes, Shape, Place, Holds, Ending, Registers, Counted, Releasing
<1>4. Shape(t)' /\ Mine(t)' \in {None, Mine(t)}
  BY <1>1, <1>2 DEF Mine, Goes, Shape, Place, Holds, Ending, Registers, Counted, Releasing
<1>5. HeldSame(t)
  BY <1>1, <1>2 DEF HeldSame, Goes, Shape, Place, Holds, Ending, Registers, Counted, Releasing
<1> QED
  BY <1>1, <1>2, <1>3, <1>4, <1>5 DEF Goes

LEMMA TestHeld ==
  ASSUME PinTypeOK, NEW t \in Threads, Shape(t), Test(t)
  PROVE  /\ Alone(t) /\ Shape(t)' /\ Mine(t)' \in {None, Mine(t)} /\ HeldSame(t) /\ At(t) \in Snaps /\ ptr[t] \in Counted
         /\ \/ /\ current = At(t) /\ Released(t) /\ pc'[t] \notin Ending
               /\ reg'[t][ptr[t]] = None
               /\ \A q \in Registers \ {ptr[t]} : reg'[t][q] = reg[t][q]
            \/ current # At(t) /\ pc'[t] = "free" /\ ptr'[t] = ptr[t] /\ reg' = reg
<1>1. pc[t] = "test" /\ ptr[t] \in Counted /\ pc[t] \in Releasing
  BY DEF Test, Goes, Shape, Place, Holds, Ending, Registers, Counted, Releasing
<1>2. At(t) # None /\ At(t) \in Snaps
  BY <1>1 DEF At, PinTypeOK, Goes, Shape, Place, Holds, Ending, Registers, Counted, Releasing
<1>3. CASE current = At(t)
  BY <1>1, <1>2, <1>3, ReleasedHeld DEF Test, PinTypeOK
<1>4. CASE current # At(t)
  <2>1. Goto(t, "free", ptr[t]) /\ UNCHANGED <<reg, request>>
    BY <1>4 DEF Test
  <2>2. Alone(t) /\ Goes(t, "free", ptr[t], request[t])
    BY <2>1, GotoGoes DEF PinTypeOK, Touching
  <2>3. Shape(t)' /\ Mine(t)' \in {None, Mine(t)}
    BY <1>1, <2>1, <2>2 DEF Mine, Goes, Shape, Place, Holds, Ending, Registers, Counted, Releasing
  <2>4. HeldSame(t)
    BY <1>1, <2>1, <2>2 DEF HeldSame, Goes, Shape, Place, Holds, Ending, Registers, Counted, Releasing
  <2> QED
    BY <1>1, <1>2, <1>4, <2>1, <2>2, <2>3, <2>4 DEF Goes
<1> QED
  BY <1>3, <1>4

LEMMA FreeHeld ==
  ASSUME PinTypeOK, NEW t \in Threads, Shape(t), Free(t)
  PROVE  /\ Alone(t) /\ Shape(t)' /\ Mine(t)' \in {None, Mine(t)} /\ HeldSame(t) /\ At(t) \in Snaps /\ ptr[t] \in Counted
         /\ pc'[t] \notin Ending /\ reg'[t][ptr[t]] = None
         /\ \A q \in Registers \ {ptr[t]} : reg'[t][q] = reg[t][q]
<1>1. pc[t] = "free" /\ ptr[t] \in Counted /\ pc[t] \in Releasing
  BY DEF Free, Goes, Shape, Place, Holds, Ending, Registers, Counted, Releasing
<1>2. At(t) # None /\ At(t) \in Snaps
  BY <1>1 DEF At, PinTypeOK, Goes, Shape, Place, Holds, Ending, Registers, Counted, Releasing
<1> QED
  BY <1>1, <1>2, ReleasedHeld DEF Free, PinTypeOK

-----------------------------------------------------------------------------
(* The other threads stay what they are. *)
LEMMA Others ==
  ASSUME NEW t \in Threads, Alone(t), NEW u \in Threads \ {t}, Shape(u)
  PROVE  /\ Shape(u)' /\ Mine(u)' = Mine(u) /\ At(u)' = At(u) /\ reg'[u] = reg[u]
         /\ pc'[u] = pc[u] /\ ptr'[u] = ptr[u]
         /\ \A r \in Registers : Holds(u, r)' <=> Holds(u, r)
<1>1. reg'[u] = reg[u] /\ pc'[u] = pc[u] /\ ptr'[u] = ptr[u] /\ request'[u] = request[u]
  BY DEF Alone
<1>2. \A r \in Registers : Holds(u, r)' <=> Holds(u, r)
  BY <1>1 DEF Holds
<1>3. Shape(u)'
  BY <1>1, <1>2 DEF Shape, Place, Registers
<1>4. Mine(u)' = Mine(u) /\ At(u)' = At(u)
  BY <1>1 DEF Mine, At
<1> QED
  BY <1>1, <1>2, <1>3, <1>4

-----------------------------------------------------------------------------
(* The set of the references to a snapshot. *)
LEMMA RefPairs ==
  ASSUME NEW s
  PROVE  /\ \A u \in Threads, r \in Counted : <<u, r>> \in Referencing(s) <=> reg[u][r] = s /\ Holds(u, r)
         /\ \A x \in Referencing(s) : \E u \in Threads, r \in Counted : x = <<u, r>>
  BY DEF Referencing, Counted

LEMMA RefPairsNext ==
  ASSUME NEW s
  PROVE  /\ \A u \in Threads, r \in Counted : <<u, r>> \in Referencing(s)' <=> reg'[u][r] = s /\ Holds(u, r)'
         /\ \A x \in Referencing(s)' : \E u \in Threads, r \in Counted : x = <<u, r>>
  BY DEF Referencing, Counted

LEMMA RefEqual ==
  ASSUME NEW s, NEW v,
         \A u \in Threads, r \in Counted : (reg'[u][r] = s /\ Holds(u, r)') <=> <<u, r>> \in v,
         \A x \in v : \E u \in Threads, r \in Counted : x = <<u, r>>
  PROVE  Referencing(s)' = v
<1>1. \A x : x \in Referencing(s)' <=> x \in v
  BY RefPairsNext
<1> QED
  BY <1>1

LEMMA RefSame ==
  ASSUME NEW t \in Threads, Alone(t), HeldSame(t), NEW s, \A u \in Threads : Shape(u)
  PROVE  Referencing(s)' = Referencing(s)
<1>1. Counted \subseteq Registers
  BY DEF Counted, Registers
<1>2. \A u \in Threads, r \in Counted : (reg'[u][r] = s /\ Holds(u, r)') <=> (reg[u][r] = s /\ Holds(u, r))
  BY <1>1, Others DEF HeldSame
<1> QED
  BY <1>2, RefPairs, RefEqual

LEMMA RefMore ==
  ASSUME NEW t \in Threads, Alone(t), NEW w, NEW v, HeldMore(t, w, v), NEW s, \A u \in Threads : Shape(u)
  PROVE  /\ s = v => <<t, w>> \notin Referencing(s) /\ Referencing(s)' = Referencing(s) \cup {<<t, w>>}
         /\ s # v => Referencing(s)' = Referencing(s)
<1>1. Counted \subseteq Registers
  BY DEF Counted, Registers
<1>2. \A u \in Threads, r \in Counted : <<u, r>> # <<t, w>> =>
        ((reg'[u][r] = s /\ Holds(u, r)') <=> (reg[u][r] = s /\ Holds(u, r)))
  BY <1>1, Others DEF HeldMore
<1>3. w \in Counted /\ ~Holds(t, w) /\ Holds(t, w)' /\ reg'[t][w] = v
  BY DEF HeldMore
<1>4. <<t, w>> \notin Referencing(s)
  BY <1>3, RefPairs
<1>5. CASE s = v
  <2>1. \A u \in Threads, r \in Counted :
          (reg'[u][r] = s /\ Holds(u, r)') <=> <<u, r>> \in Referencing(s) \cup {<<t, w>>}
    <3> TAKE u \in Threads, r \in Counted
    <3>1. <<u, r>> \in Referencing(s) <=> reg[u][r] = s /\ Holds(u, r)
      BY RefPairs
    <3>2. CASE u = t /\ r = w
      BY <1>3, <1>5, <3>2
    <3>3. CASE ~(u = t /\ r = w)
      <4>1. <<u, r>> # <<t, w>>
        BY <3>3
      <4> QED
        BY <1>2, <3>1, <4>1
    <3> QED
      BY <3>2, <3>3
  <2>2. \A x \in Referencing(s) \cup {<<t, w>>} : \E u \in Threads, r \in Counted : x = <<u, r>>
    BY <1>3, RefPairs
  <2>3. Referencing(s)' = Referencing(s) \cup {<<t, w>>}
    BY <2>1, <2>2, RefEqual
  <2> QED
    BY <1>4, <1>5, <2>3
<1>6. CASE s # v
  BY <1>2, <1>3, <1>4, <1>6, RefPairs, RefEqual
<1> QED
  BY <1>4, <1>5, <1>6

LEMMA RefLess ==
  ASSUME NEW t \in Threads, Alone(t), NEW w, HeldLess(t, w), NEW s, \A u \in Threads : Shape(u)
  PROVE  /\ s = reg[t][w] => <<t, w>> \in Referencing(s) /\ Referencing(s)' = Referencing(s) \ {<<t, w>>}
         /\ s # reg[t][w] => Referencing(s)' = Referencing(s)
<1>1. Counted \subseteq Registers
  BY DEF Counted, Registers
<1>2. \A u \in Threads, r \in Counted : <<u, r>> # <<t, w>> =>
        ((reg'[u][r] = s /\ Holds(u, r)') <=> (reg[u][r] = s /\ Holds(u, r)))
  BY <1>1, Others DEF HeldLess
<1>3. w \in Counted /\ Holds(t, w) /\ ~Holds(t, w)'
  BY DEF HeldLess
<1>4. <<t, w>> \in Referencing(s) <=> s = reg[t][w]
  BY <1>3, RefPairs
<1>5. CASE s = reg[t][w]
  <2>1. \A u \in Threads, r \in Counted :
          (reg'[u][r] = s /\ Holds(u, r)') <=> <<u, r>> \in Referencing(s) \ {<<t, w>>}
    <3> TAKE u \in Threads, r \in Counted
    <3>1. <<u, r>> \in Referencing(s) <=> reg[u][r] = s /\ Holds(u, r)
      BY RefPairs
    <3>2. CASE u = t /\ r = w
      BY <1>3, <1>5, <3>2
    <3>3. CASE ~(u = t /\ r = w)
      <4>1. <<u, r>> # <<t, w>>
        BY <3>3
      <4> QED
        BY <1>2, <3>1, <4>1
    <3> QED
      BY <3>2, <3>3
  <2>2. \A x \in Referencing(s) \ {<<t, w>>} : \E u \in Threads, r \in Counted : x = <<u, r>>
    BY RefPairs
  <2>3. Referencing(s)' = Referencing(s) \ {<<t, w>>}
    BY <2>1, <2>2, RefEqual
  <2> QED
    BY <1>4, <1>5, <2>3
<1>6. CASE s # reg[t][w]
  BY <1>2, <1>3, <1>4, <1>6, RefPairs, RefEqual
<1> QED
  BY <1>4, <1>5, <1>6

-----------------------------------------------------------------------------
(* Every snapshot has its place: the types, the way of each thread, and what  *)
(* keeps a new snapshot apart until it is in force.                           *)
Placed ==
    /\ PinTypeOK /\ CurrentLive
    /\ \A u \in Threads : Shape(u) /\ Apart(u)

(* A step that frees at most a snapshot that is neither in force nor new, and *)
(* that copies at most the snapshot in force or the one its thread refers to. *)
Freeing(v) == v \in Snaps /\ v # current /\ (\A u \in Threads : Mine(u) # v) /\ memory' = [memory EXCEPT ![v] = "freed"]

LEMMA ApartKept ==
  ASSUME Placed, NEW t \in Threads, Alone(t), Shape(t)', UNCHANGED current,
         memory' = memory \/ (\E v \in Snaps : Freeing(v)),
         Mine(t)' \in {None, Mine(t)},
         \A r \in Registers \ {"NewFilter"} : reg'[t][r] \in {None, reg[t][r], current, reg[t]["PFilter"]},
         reg'[t]["NewFilter"] \in {None, reg[t]["NewFilter"]},
         pc'[t] = "free" => At(t)' # current
  PROVE  CurrentLive' /\ \A u \in Threads : Shape(u)' /\ Apart(u)'
<1>1. CurrentLive'
  BY DEF Placed, CurrentLive, PinTypeOK, Freeing
<1>2. \A s \in Snaps : memory[s] # "unused" => memory'[s] # "unused"
  BY DEF Placed, PinTypeOK, Freeing
<1>3. \A u \in Threads : Mine(u) # None =>
        /\ Mine(u) \in Snaps /\ memory'[Mine(u)] = "live" /\ Mine(u) # current
        /\ \A v \in Threads, r \in Registers : reg[v][r] = Mine(u) => v = u /\ r = "NewFilter"
  <2> SUFFICES ASSUME NEW u \in Threads, Mine(u) # None
               PROVE  /\ Mine(u) \in Snaps /\ memory'[Mine(u)] = "live" /\ Mine(u) # current
                      /\ \A v \in Threads, r \in Registers : reg[v][r] = Mine(u) => v = u /\ r = "NewFilter"
    OBVIOUS
  <2>1. /\ memory[Mine(u)] = "live" /\ Mine(u) # current
        /\ \A v \in Threads, r \in Registers : reg[v][r] = Mine(u) => v = u /\ r = "NewFilter"
    BY DEF Placed, Apart
  <2>2. Mine(u) \in Snaps
    BY DEF Placed, PinTypeOK, Mine, Registers
  <2>3. memory'[Mine(u)] = "live"
    BY <2>1, <2>2 DEF Placed, PinTypeOK, Freeing
  <2> QED
    BY <2>1, <2>2, <2>3
<1>4. \A u \in Threads \ {t} : /\ Shape(u)' /\ Mine(u)' = Mine(u) /\ reg'[u] = reg[u]
                               /\ pc'[u] = pc[u] /\ At(u)' = At(u)
  BY Others DEF Placed
<1>5. "PFilter" \in Registers /\ "NewFilter" \in Registers
  BY DEF Registers
<1>6. \A u \in Threads : Mine(u)' # None => Mine(u)' = Mine(u)
  BY <1>4
<1>7. ASSUME NEW u \in Threads, Mine(u)' # None, NEW v \in Threads, NEW r \in Registers, reg'[v][r] = Mine(u)'
      PROVE  v = u /\ r = "NewFilter"
  <2>1. /\ Mine(u)' = Mine(u) /\ Mine(u) # None /\ Mine(u) # current
        /\ \A x \in Threads, q \in Registers : reg[x][q] = Mine(u) => x = u /\ q = "NewFilter"
    BY <1>3, <1>6, <1>7
  <2>2. CASE v # t
    BY <1>4, <1>7, <2>1, <2>2
  <2>3. CASE v = t /\ r # "NewFilter"
    BY <1>5, <1>7, <2>1, <2>3
  <2>4. CASE v = t /\ r = "NewFilter"
    BY <1>5, <1>7, <2>1, <2>4
  <2> QED
    BY <2>2, <2>3, <2>4
<1>8. ASSUME NEW u \in Threads, NEW r \in Registers, reg'[u][r] # None
      PROVE  memory'[reg'[u][r]] # "unused"
  <2>1. \A x \in Threads, q \in Registers : reg[x][q] # None => reg[x][q] \in Snaps /\ memory[reg[x][q]] # "unused"
    BY DEF Placed, Apart, PinTypeOK
  <2>2. current \in Snaps /\ memory[current] # "unused"
    BY DEF Placed, CurrentLive, PinTypeOK
  <2>3. reg'[u][r] = current \/ \E q \in Registers : reg'[u][r] = reg[u][q]
    BY <1>4, <1>5, <1>8
  <2> QED
    BY <1>2, <1>8, <2>1, <2>2, <2>3
<1>9. ASSUME NEW u \in Threads PROVE Apart(u)'
  <2>1. pc'[u] = "free" => At(u)' # current'
    BY <1>4 DEF Placed, Apart
  <2>2. Mine(u)' # None => memory'[Mine(u)'] = "live" /\ Mine(u)' # current'
    BY <1>3, <1>6
  <2> QED
    BY <1>7, <1>8, <2>1, <2>2 DEF Apart
<1> QED
  BY <1>1, <1>4, <1>9 DEF Placed

(* What a step of a thread t works on is nobody's new snapshot but its own. *)
LEMMA FreedApart ==
  ASSUME Placed, NEW t \in Threads, pc[t] = "free", At(t) \in Snaps
  PROVE  At(t) # current /\ \A u \in Threads : Mine(u) # At(t)
<1>1. Shape(t) /\ Apart(t) /\ ptr[t] \in Registers
  BY DEF Placed, PinTypeOK
<1>2. ASSUME NEW u \in Threads, Mine(u) = At(t) PROVE FALSE
  <2>1. Mine(u) # None
    BY <1>2, PinAssumption
  <2>2. u = t /\ ptr[t] = "NewFilter"
    BY <1>1, <1>2, <2>1 DEF Placed, Apart, At
  <2>3. Mine(t) = None
    BY <1>1, <2>2 DEF Shape, Place, Mine, Releasing, Ending
  <2> QED
    BY <2>1, <2>2, <2>3
<1> QED
  BY <1>1, <1>2 DEF Apart

LEMMA PlacedInit == PinInit => Placed
<1> SUFFICES ASSUME PinInit PROVE Placed
  OBVIOUS
<1>1. PinTypeOK
  BY PinAssumption DEF PinInit, PinTypeOK, Registers, Touching
<1>2. CurrentLive
  BY PinAssumption DEF PinInit, CurrentLive
<1>3. ASSUME NEW t \in Threads PROVE Shape(t) /\ Apart(t)
  <2>1. /\ pc[t] = "idle" /\ ptr[t] = "PFilter" /\ request[t] = "none"
        /\ \A r \in Registers : reg[t][r] = None
    BY DEF PinInit
  <2>2. Shape(t)
    BY <2>1 DEF Shape, Place, Holds, Ending, Registers, Releasing
  <2>3. Apart(t)
    BY <2>1 DEF Apart, Mine, Registers
  <2> QED
    BY <2>2, <2>3
<1> QED
  BY <1>1, <1>2, <1>3 DEF Placed

LEMMA PlacedAllocate ==
  ASSUME Placed, NEW t \in Threads, Allocate(t)
  PROVE  CurrentLive' /\ \A u \in Threads : Shape(u)' /\ Apart(u)'
<1>0. PinTypeOK /\ Shape(t)
  BY DEF Placed
<1>1. PICK s \in Snaps :
         /\ memory[s] = "unused" /\ memory' = [memory EXCEPT ![s] = "live"]
         /\ Alone(t) /\ Shape(t)' /\ pc'[t] \notin Ending
         /\ reg[t]["NewFilter"] = None /\ reg'[t]["NewFilter"] = s
         /\ \A q \in Registers \ {"NewFilter"} : reg'[t][q] = reg[t][q]
  BY <1>0, AllocateHeld
<1>2. current' = current
  BY DEF Allocate
<1>3. \A u \in Threads \ {t} : /\ Shape(u)' /\ Mine(u)' = Mine(u) /\ reg'[u] = reg[u]
                               /\ pc'[u] = pc[u] /\ At(u)' = At(u)
  BY <1>1, Others DEF Placed
<1>4. current # s /\ CurrentLive'
  BY <1>1, <1>2 DEF Placed, CurrentLive, PinTypeOK
<1>5. \A v \in Threads, r \in Registers : reg[v][r] # s
  BY <1>1, PinAssumption DEF Placed, Apart
<1>6. Mine(t)' \in {None, s}
  BY <1>1 DEF Mine
<1>7. \A x \in Snaps : memory[x] # "unused" => memory'[x] = memory[x]
  BY <1>1 DEF Placed, PinTypeOK
<1>8. \A v \in Threads, r \in Registers : reg[v][r] # None => reg[v][r] \in Snaps
  BY DEF Placed, PinTypeOK
<1>9. ASSUME NEW u \in Threads PROVE Apart(u)'
  <2>1. CASE u = t
    <3>1. Mine(t)' # None => memory'[Mine(t)'] = "live" /\ Mine(t)' # current'
      BY <1>1, <1>2, <1>4, <1>6 DEF Placed, PinTypeOK
    <3>2. ASSUME Mine(t)' # None, NEW v \in Threads, NEW r \in Registers, reg'[v][r] = Mine(t)'
          PROVE  v = t /\ r = "NewFilter"
      BY <1>1, <1>3, <1>5, <1>6, <3>2
    <3>3. \A r \in Registers : reg'[t][r] # None => memory'[reg'[t][r]] # "unused"
      BY <1>1, <1>7, <1>8 DEF Placed, Apart, PinTypeOK
    <3>4. pc'[t] # "free"
      BY <1>1 DEF Ending
    <3> QED
      BY <2>1, <3>1, <3>2, <3>3, <3>4 DEF Apart
  <2>2. CASE u # t
    <3>1. /\ Mine(u)' = Mine(u) /\ reg'[u] = reg[u] /\ pc'[u] = pc[u] /\ At(u)' = At(u)
          /\ Apart(u)
      BY <1>3, <2>2 DEF Placed
    <3>2. Mine(u) # None => Mine(u) \in Snaps /\ Mine(u) # s
      BY <1>5, <1>8, <2>2 DEF Mine, Registers
    <3>3. ASSUME Mine(u) # None, NEW v \in Threads, NEW r \in Registers, reg'[v][r] = Mine(u)
          PROVE  v = u /\ r = "NewFilter"
      BY <1>1, <1>3, <3>1, <3>2, <3>3 DEF Apart
    <3>4. \A r \in Registers : reg[u][r] # None => memory'[reg[u][r]] # "unused"
      BY <1>7, <1>8, <3>1 DEF Apart
    <3>5. Mine(u) # None => memory'[Mine(u)] = "live" /\ Mine(u) # current
      BY <1>7, <3>1, <3>2 DEF Apart
    <3>6. pc[u] = "free" => At(u) # current
      BY <3>1 DEF Apart
    <3> QED
      BY <1>2, <3>1, <3>3, <3>4, <3>5, <3>6 DEF Apart
  <2> QED
    BY <2>1, <2>2
<1> QED
  BY <1>1, <1>3, <1>4, <1>9

LEMMA PlacedExchange ==
  ASSUME Placed, NEW t \in Threads, ExchangeFilter(t)
  PROVE  CurrentLive' /\ \A u \in Threads : Shape(u)' /\ Apart(u)'
<1>0. PinTypeOK /\ Shape(t) /\ Apart(t)
  BY DEF Placed
<1> DEFINE n == reg[t]["NewFilter"]
<1>1. /\ Alone(t) /\ Shape(t)' /\ pc'[t] \notin Ending
      /\ current' = n /\ Mine(t) = n /\ n \in Snaps
      /\ reg'[t]["NewFilter"] \in {None, n} /\ Mine(t)' = None
      /\ \A q \in Registers \ {"NewFilter"} : reg'[t][q] = reg[t][q]
  BY <1>0, ExchangeHeld
<1>2. memory' = memory /\ n # None
  BY <1>1, PinAssumption DEF ExchangeFilter
<1>3. /\ memory[n] = "live"
      /\ \A u \in Threads, r \in Registers : reg[u][r] = n => u = t /\ r = "NewFilter"
  BY <1>0, <1>1, <1>2 DEF Apart
<1> HIDE DEF n
<1>4. CurrentLive'
  BY <1>1, <1>2, <1>3 DEF CurrentLive
<1>5. \A u \in Threads \ {t} : /\ Shape(u)' /\ Mine(u)' = Mine(u) /\ reg'[u] = reg[u]
                               /\ pc'[u] = pc[u] /\ At(u)' = At(u)
  BY <1>1, Others DEF Placed
<1>6. ASSUME NEW u \in Threads PROVE Apart(u)'
  <2>1. CASE u = t
    <3>1. pc'[t] # "free"
      BY <1>1 DEF Ending
    <3>2. \A r \in Registers : reg'[t][r] # None => memory'[reg'[t][r]] # "unused"
      BY <1>0, <1>1, <1>2, <1>3 DEF Apart
    <3> QED
      BY <1>1, <2>1, <3>1, <3>2 DEF Apart
  <2>2. CASE u # t
    <3>1. /\ Mine(u)' = Mine(u) /\ reg'[u] = reg[u] /\ pc'[u] = pc[u] /\ At(u)' = At(u)
          /\ Apart(u) /\ ptr[u] \in Registers
      BY <1>5, <2>2 DEF Placed, PinTypeOK
    <3>2. Mine(u) # n /\ At(u) # n
      BY <1>2, <1>3, <2>2, <3>1 DEF Mine, At, Registers
    <3>3. ASSUME Mine(u) # None, NEW v \in Threads, NEW r \in Registers, reg'[v][r] = Mine(u)
          PROVE  v = u /\ r = "NewFilter"
      <4>1. \A x \in Threads, q \in Registers : reg[x][q] = Mine(u) => x = u /\ q = "NewFilter"
        BY <3>1, <3>3 DEF Apart
      <4>2. reg'[v][r] = reg[v][r] \/ (v = t /\ r = "NewFilter")
        BY <1>1, <1>5
      <4>3. ~(v = t /\ r = "NewFilter")
        BY <1>1, <3>2, <3>3
      <4> QED
        BY <3>3, <4>1, <4>2, <4>3
    <3>4. Mine(u) # None => memory[Mine(u)] = "live"
      BY <3>1 DEF Apart
    <3>5. \A r \in Registers : reg[u][r] # None => memory[reg[u][r]] # "unused"
      BY <3>1 DEF Apart
    <3> QED
      BY <1>1, <1>2, <3>1, <3>2, <3>3, <3>4, <3>5 DEF Apart
  <2> QED
    BY <2>1, <2>2
<1> QED
  BY <1>1, <1>4, <1>5, <1>6

LEMMA PlacedStep == Placed /\ PinNext => Placed'
<1> SUFFICES ASSUME Placed, PinNext PROVE Placed'
  OBVIOUS
<1>1. PICK t \in Threads : PinStep(t)
  BY DEF PinNext
<1>2. PinTypeOK /\ Shape(t) /\ Apart(t)
  BY DEF Placed
<1>3. {"PFilter", "NewFilter", "Handle", "Entry"} = Registers
  BY DEF Registers
<1>4. Ending = {"zero", "test", "free"}
  BY DEF Ending
<1> DEFINE Typed == /\ current' \in Snaps
                    /\ memory' \in [Snaps -> {"unused", "live", "freed"}]
                    /\ count' \in [Snaps -> Int]
                    /\ damaged' \in {"no"} \cup Touching
                    /\ causes' \subseteq {"revived", "switched"}
           Fits == CurrentLive' /\ \A u \in Threads : Shape(u)' /\ Apart(u)'
<1>5. Alone(t) /\ Typed => PinTypeOK'
  BY DEF PinTypeOK, Alone
<1>6. CASE Call(t)
  <2>1. Typed
    BY <1>2, <1>6 DEF Call, PinTypeOK
  <2>2. Fits
    BY <1>2, <1>4, <1>6, CallHeld, ApartKept DEF Call
  <2> QED
    BY <1>2, <1>5, <1>6, <2>1, <2>2, CallHeld DEF Placed
<1>7. CASE Load(t)
  <2>1. Typed
    BY <1>2, <1>7 DEF Load, PinTypeOK
  <2>2. Fits
    BY <1>2, <1>3, <1>4, <1>7, LoadHeld, ApartKept DEF Load
  <2> QED
    BY <1>2, <1>5, <1>7, <2>1, <2>2, LoadHeld DEF Placed
<1>8. CASE Increment(t)
  <2>1. ptr[t] \in Registers
    BY <1>2 DEF PinTypeOK
  <2>2. /\ Alone(t) /\ Shape(t)' /\ Mine(t)' \in {None, Mine(t)} /\ pc'[t] \notin Ending /\ reg' = reg
        /\ At(t) \in Snaps
    BY <1>2, <1>8, <2>1, IncrementHeld
  <2>a. count' \in [Snaps -> Int]
    BY <1>2, <1>8, <2>2 DEF Increment, PinTypeOK
  <2>3. Typed
    BY <1>2, <1>8, <2>a DEF Increment, PinTypeOK
  <2>4. Fits
    BY <1>2, <1>4, <1>8, <2>2, ApartKept DEF Increment
  <2> QED
    BY <1>5, <2>2, <2>3, <2>4 DEF Placed
<1>9. CASE Walk(t)
  <2>1. Typed
    BY <1>2, <1>9 DEF Walk, PinTypeOK
  <2>2. Fits
    BY <1>2, <1>3, <1>4, <1>9, WalkHeld, ApartKept DEF Walk
  <2> QED
    BY <1>2, <1>5, <1>9, <2>1, <2>2, WalkHeld DEF Placed
<1>10. CASE Use(t)
  <2>1. Typed
    BY <1>2, <1>10 DEF Use, PinTypeOK
  <2>2. Fits
    BY <1>2, <1>3, <1>4, <1>10, UseHeld, ApartKept DEF Use
  <2> QED
    BY <1>2, <1>5, <1>10, <2>1, <2>2, UseHeld DEF Placed
<1>11. CASE Allocate(t)
  <2>1. Typed
    BY <1>2, <1>11 DEF Allocate, PinTypeOK, FirstCount
  <2>2. Alone(t)
    BY <1>2, <1>11, AllocateHeld
  <2> QED
    BY <1>5, <1>11, <2>1, <2>2, PlacedAllocate DEF Placed
<1>12. CASE ExchangeFilter(t)
  <2>1. Typed
    BY <1>2, <1>12, ExchangeHeld DEF ExchangeFilter, PinTypeOK
  <2> QED
    BY <1>2, <1>5, <1>12, <2>1, PlacedExchange, ExchangeHeld DEF Placed
<1>13. CASE Decrement(t)
  <2>1. ptr[t] \in Registers
    BY <1>2 DEF PinTypeOK
  <2>2. /\ Alone(t) /\ Shape(t)' /\ Mine(t)' \in {None, Mine(t)} /\ pc'[t] # "free"
        /\ \A q \in Registers : reg'[t][q] \in {None, reg[t][q]}
        /\ At(t) \in Snaps /\ count' = [count EXCEPT ![At(t)] = @ - 1]
    BY <1>2, <1>4, <1>13, <2>1, DecrementHeld
  <2>a. count' \in [Snaps -> Int]
    BY <1>2, <2>2 DEF PinTypeOK
  <2>3. Typed
    BY <1>2, <1>13, <2>a DEF Decrement, PinTypeOK
  <2>4. Fits
    BY <1>3, <1>13, <2>2, ApartKept DEF Decrement
  <2> QED
    BY <1>5, <2>2, <2>3, <2>4 DEF Placed
<1>14. CASE Zero(t)
  <2>a. count' \in [Snaps -> Int]
    <3>1. count' = [count EXCEPT ![At(t)] = 0] /\ At(t) \in Snaps
      BY <1>2, <1>14, ZeroHeld DEF Zero
    <3> QED
      BY <1>2, <3>1 DEF PinTypeOK
  <2>1. Typed
    BY <1>2, <1>14, <2>a DEF Zero, PinTypeOK
  <2>2. Fits
    BY <1>2, <1>3, <1>14, ZeroHeld, ApartKept DEF Zero
  <2> QED
    BY <1>2, <1>5, <1>14, <2>1, <2>2, ZeroHeld DEF Placed
<1>15. CASE Test(t)
  <2>1. /\ Alone(t) /\ Shape(t)' /\ Mine(t)' \in {None, Mine(t)}
        /\ pc'[t] = "free" => ptr'[t] = ptr[t] /\ reg' = reg /\ current # At(t)
        /\ \A q \in Registers : reg'[t][q] \in {None, reg[t][q]}
    BY <1>2, <1>4, <1>15, TestHeld
  <2>2. Typed
    BY <1>2, <1>15 DEF Test, PinTypeOK
  <2>3. pc'[t] = "free" => At(t)' # current
    BY <2>1 DEF At
  <2>4. Fits
    BY <1>3, <1>15, <2>1, <2>3, ApartKept DEF Test
  <2> QED
    BY <1>5, <2>1, <2>2, <2>4 DEF Placed
<1>16. CASE Free(t)
  <2>1. /\ Alone(t) /\ Shape(t)' /\ Mine(t)' \in {None, Mine(t)} /\ pc'[t] # "free" /\ At(t) \in Snaps
        /\ \A q \in Registers : reg'[t][q] \in {None, reg[t][q]}
    BY <1>2, <1>4, <1>16, FreeHeld
  <2>2. Typed
    BY <1>2, <1>16 DEF Free, PinTypeOK
  <2>3. Freeing(At(t)) /\ UNCHANGED current
    BY <1>16, <2>1, FreedApart DEF Free, Freeing
  <2>4. \E v \in Snaps : Freeing(v)
    BY <2>1, <2>3
  <2>5. Fits
    BY <1>3, <2>1, <2>3, <2>4, ApartKept
  <2> QED
    BY <1>5, <2>1, <2>2, <2>5 DEF Placed
<1>17. CASE TouchFreed(t)
  <2>1. PinTypeOK'
    BY <1>2, <1>17 DEF TouchFreed, PinTypeOK
  <2>2. CurrentLive'
    BY <1>17 DEF Placed, CurrentLive, TouchFreed
  <2>3. \A u \in Threads : Shape(u)' /\ Apart(u)'
    BY <1>17 DEF Placed, Shape, Place, Holds, Apart, Mine, At, TouchFreed
  <2> QED
    BY <2>1, <2>2, <2>3 DEF Placed
<1> QED
  BY <1>1, <1>6, <1>7, <1>8, <1>9, <1>10, <1>11, <1>12, <1>13, <1>14, <1>15, <1>16, <1>17 DEF PinStep

-----------------------------------------------------------------------------
(* The counts.                                                                *)
Balanced == CountsReferences /\ CountsAtMost /\ DropsAlone

(* A step that counts nothing and leaves no count below zero behind. *)
LEMMA BalancedSame ==
  ASSUME Placed, Balanced, NEW t \in Threads, Alone(t), HeldSame(t),
         UNCHANGED count, causes \subseteq causes', pc[t] # "zero",
         \A s \in Snaps : Ends(t, s)' => Ends(t, s),
         \/ UNCHANGED memory
         \/ pc[t] = "free" /\ memory' = [memory EXCEPT ![At(t)] = "freed"] /\ pc'[t] \notin Ending
  PROVE  Balanced'
<1>1. \A s \in Snaps : Referencing(s)' = Referencing(s)
  BY RefSame DEF Placed
<1>2. \A u \in Threads \ {t} : pc'[u] = pc[u] /\ \A s \in Snaps : Ends(u, s)' <=> Ends(u, s)
  BY Others DEF Placed, Ends
<1>3. \A u \in Threads, s \in Snaps : Ends(u, s)' => Ends(u, s)
  BY <1>2
<1>4. \A s \in Snaps : /\ memory'[s] = "live" => memory[s] = "live"
                       /\ memory[s] = "live" /\ ~(pc[t] = "free" /\ At(t) = s) => memory'[s] = "live"
  BY DEF Placed, PinTypeOK
<1>6. CountsReferences'
  BY <1>1, <1>4 DEF Balanced, CountsReferences
<1>7. CountsAtMost'
  <2> SUFFICES ASSUME NEW s \in Snaps, memory'[s] = "live"
               PROVE  /\ IsFiniteSet(Referencing(s)') /\ count'[s] <= Cardinality(Referencing(s)')
                      /\ count'[s] < 0 => \E u \in Threads : pc'[u] = "zero" /\ At(u)' = s
    BY DEF CountsAtMost
  <2>1. /\ IsFiniteSet(Referencing(s)) /\ count[s] <= Cardinality(Referencing(s))
        /\ count[s] < 0 => \E u \in Threads : pc[u] = "zero" /\ At(u) = s
    BY <1>4 DEF Balanced, CountsAtMost
  <2>2. \A u \in Threads : pc[u] = "zero" => pc'[u] = "zero" /\ At(u)' = At(u)
    BY Others DEF Placed
  <2> QED
    BY <1>1, <2>1, <2>2
<1>8. DropsAlone'
  <2> SUFFICES ASSUME "revived" \notin causes', NEW s \in Snaps
               PROVE  /\ \A u \in Threads : Ends(u, s)' =>
                           memory'[s] = "live" /\ Referencing(s)' = {} /\ \A v \in Threads \ {u} : ~Ends(v, s)'
                      /\ Referencing(s)' # {} => memory'[s] = "live"
    BY DEF DropsAlone
  <2>1. /\ \A u \in Threads : Ends(u, s) =>
             memory[s] = "live" /\ Referencing(s) = {} /\ \A v \in Threads \ {u} : ~Ends(v, s)
        /\ Referencing(s) # {} => memory[s] = "live"
    BY DEF Balanced, DropsAlone
  <2>2. CASE memory'[s] = memory[s]
    BY <1>1, <1>3, <2>1, <2>2
  <2>3. CASE memory'[s] # memory[s]
    <3>1. pc[t] = "free" /\ At(t) = s /\ pc'[t] \notin Ending
      BY <2>3 DEF Placed, PinTypeOK
    <3>2. Ends(t, s) /\ ~Ends(t, s)'
      BY <3>1 DEF Ends, Ending
    <3> QED
      BY <1>1, <1>3, <2>1, <3>2
  <2> QED
    BY <2>2, <2>3
<1> QED
  BY <1>6, <1>7, <1>8 DEF Balanced

LEMMA BalancedIncrement ==
  ASSUME Placed, Balanced, NEW t \in Threads, Increment(t)
  PROVE  Balanced'
<1>0. PinTypeOK /\ Shape(t) /\ ptr[t] \in Registers
  BY DEF Placed, PinTypeOK
<1>w. PICK w \in Registers : w = ptr[t]
  BY <1>0
<1>v. PICK v \in Snaps : v = At(t)
  BY <1>0, <1>w, IncrementHeld
<1>1. /\ Alone(t) /\ HeldMore(t, w, v) /\ pc'[t] \notin Ending
  <2>1. Alone(t) /\ HeldMore(t, w, At(t)) /\ pc'[t] \notin Ending
    BY <1>0, <1>w, IncrementHeld
  <2> QED
    BY <1>v, <2>1 DEF HeldMore
<1>2. /\ memory' = memory /\ memory[v] = "live" /\ pc[t] = "increment"
      /\ count' = [count EXCEPT ![v] = @ + 1]
      /\ causes' = causes \cup (IF Dropping(v) THEN {"revived"} ELSE {})
  BY <1>v DEF Increment, Live
<1>3. /\ <<t, w>> \notin Referencing(v) /\ Referencing(v)' = Referencing(v) \cup {<<t, w>>}
      /\ \A s \in Snaps \ {v} : Referencing(s)' = Referencing(s)
  BY <1>1, RefMore DEF Placed
<1>4. IsFiniteSet(Referencing(v)) /\ Cardinality(Referencing(v)) \in Nat
  BY <1>1, <1>2, FS_CardinalityType DEF Balanced, CountsAtMost
<1>5. /\ IsFiniteSet(Referencing(v)') /\ Cardinality(Referencing(v)') = Cardinality(Referencing(v)) + 1
  BY <1>3, <1>4, FS_AddElement
<1>6. /\ count'[v] = count[v] + 1 /\ count[v] \in Int
      /\ \A s \in Snaps \ {v} : count'[s] = count[s]
  BY <1>0, <1>1, <1>2 DEF PinTypeOK
<1>7. \A u \in Threads \ {t} : pc'[u] = pc[u] /\ At(u)' = At(u)
  BY <1>1, Others DEF Placed
<1>8. \A u \in Threads, s \in Snaps : Ends(u, s)' => Ends(u, s) /\ u # t
  BY <1>1, <1>7 DEF Ends
<1>9. \A s \in Snaps : memory'[s] = memory[s]
  BY <1>2
<1>10. CountsReferences'
  <2> SUFFICES ASSUME "revived" \notin causes', NEW s \in Snaps, memory'[s] = "live"
               PROVE  count'[s] = Cardinality(Referencing(s)')
    BY DEF CountsReferences
  <2>1. memory[s] = "live" /\ count[s] = Cardinality(Referencing(s))
    BY <1>2 DEF Balanced, CountsReferences
  <2> QED
    BY <1>3, <1>5, <1>6, <2>1
<1>11. CountsAtMost'
  <2> SUFFICES ASSUME NEW s \in Snaps, memory'[s] = "live"
               PROVE  /\ IsFiniteSet(Referencing(s)') /\ count'[s] <= Cardinality(Referencing(s)')
                      /\ count'[s] < 0 => \E u \in Threads : pc'[u] = "zero" /\ At(u)' = s
    BY DEF CountsAtMost
  <2>1. /\ IsFiniteSet(Referencing(s)) /\ count[s] <= Cardinality(Referencing(s))
        /\ count[s] < 0 => \E u \in Threads : pc[u] = "zero" /\ At(u) = s
    BY <1>9 DEF Balanced, CountsAtMost
  <2>2. \A u \in Threads : pc[u] = "zero" => pc'[u] = "zero" /\ At(u)' = At(u)
    BY <1>2, <1>7
  <2>3. count'[s] < 0 => count[s] < 0
    BY <1>6
  <2>4. IsFiniteSet(Referencing(s)') /\ count'[s] <= Cardinality(Referencing(s)')
    BY <1>3, <1>4, <1>5, <1>6, <2>1
  <2> QED
    BY <2>1, <2>2, <2>3, <2>4
<1>12. DropsAlone'
  <2> SUFFICES ASSUME "revived" \notin causes', NEW s \in Snaps
               PROVE  /\ \A u \in Threads : Ends(u, s)' =>
                           memory'[s] = "live" /\ Referencing(s)' = {} /\ \A x \in Threads \ {u} : ~Ends(x, s)'
                      /\ Referencing(s)' # {} => memory'[s] = "live"
    BY DEF DropsAlone
  <2>1. /\ \A u \in Threads : Ends(u, s) =>
             memory[s] = "live" /\ Referencing(s) = {} /\ \A x \in Threads \ {u} : ~Ends(x, s)
        /\ Referencing(s) # {} => memory[s] = "live"
    BY <1>2 DEF Balanced, DropsAlone
  <2>2. \A u \in Threads : ~Ends(u, v)
    BY <1>2 DEF Dropping, Ends, Ending
  <2> QED
    BY <1>2, <1>3, <1>8, <2>1, <2>2
<1> QED
  BY <1>10, <1>11, <1>12 DEF Balanced

LEMMA BalancedDecrement ==
  ASSUME Placed, Balanced, NEW t \in Threads, Decrement(t)
  PROVE  Balanced'
<1>0. PinTypeOK /\ Shape(t) /\ ptr[t] \in Registers
  BY DEF Placed, PinTypeOK
<1>w. PICK w \in Registers : w = ptr[t]
  BY <1>0
<1>v. PICK v \in Snaps : v = At(t)
  BY <1>0, <1>w, DecrementHeld
<1>1. /\ Alone(t) /\ HeldLess(t, w) /\ v = reg[t][w]
      /\ count' = [count EXCEPT ![v] = @ - 1]
      /\ \/ count[v] > 1 /\ pc'[t] \notin Ending
         \/ count[v] <= 1 /\ pc'[t] = "zero" /\ At(t)' = v
  <2>1. /\ Alone(t) /\ HeldLess(t, w)
        /\ count' = [count EXCEPT ![At(t)] = @ - 1]
        /\ \/ count[At(t)] > 1 /\ pc'[t] \notin Ending
           \/ count[At(t)] <= 1 /\ pc'[t] = "zero" /\ ptr'[t] = ptr[t] /\ reg' = reg
    BY <1>0, <1>w, DecrementHeld
  <2> QED
    BY <1>w, <1>v, <2>1 DEF At
<1>2. /\ memory' = memory /\ memory[v] = "live" /\ pc[t] = "decrement" /\ causes' = causes
  BY <1>v DEF Decrement, Live
<1>3. /\ <<t, w>> \in Referencing(v) /\ Referencing(v)' = Referencing(v) \ {<<t, w>>}
      /\ \A s \in Snaps \ {v} : Referencing(s)' = Referencing(s)
  BY <1>1, RefLess DEF Placed
<1>4. IsFiniteSet(Referencing(v)) /\ Cardinality(Referencing(v)) \in Nat
  BY <1>1, <1>2, FS_CardinalityType DEF Balanced, CountsAtMost
<1>5. /\ IsFiniteSet(Referencing(v)') /\ Cardinality(Referencing(v)') = Cardinality(Referencing(v)) - 1
  <2>1. /\ IsFiniteSet(Referencing(v) \ {<<t, w>>})
        /\ Cardinality(Referencing(v) \ {<<t, w>>})
             = IF <<t, w>> \in Referencing(v) THEN Cardinality(Referencing(v)) - 1 ELSE Cardinality(Referencing(v))
    BY <1>4, FS_RemoveElement
  <2> QED
    BY <1>3, <2>1
<1>6. /\ count'[v] = count[v] - 1 /\ count[v] \in Int
      /\ \A s \in Snaps \ {v} : count'[s] = count[s]
  BY <1>0, <1>1 DEF PinTypeOK
<1>7. \A u \in Threads \ {t} : pc'[u] = pc[u] /\ At(u)' = At(u)
  BY <1>1, Others DEF Placed
<1>8. /\ \A u \in Threads \ {t}, s \in Snaps : Ends(u, s)' <=> Ends(u, s)
      /\ \A s \in Snaps : Ends(t, s)' => s = v /\ count[v] <= 1
  BY <1>1, <1>7 DEF Ends, Ending
<1>9. \A s \in Snaps : memory'[s] = memory[s]
  BY <1>2
<1>10. CountsReferences'
  <2> SUFFICES ASSUME "revived" \notin causes', NEW s \in Snaps, memory'[s] = "live"
               PROVE  count'[s] = Cardinality(Referencing(s)')
    BY DEF CountsReferences
  <2>1. memory[s] = "live" /\ count[s] = Cardinality(Referencing(s))
    BY <1>2 DEF Balanced, CountsReferences
  <2> QED
    BY <1>3, <1>5, <1>6, <2>1
<1>11. CountsAtMost'
  <2> SUFFICES ASSUME NEW s \in Snaps, memory'[s] = "live"
               PROVE  /\ IsFiniteSet(Referencing(s)') /\ count'[s] <= Cardinality(Referencing(s)')
                      /\ count'[s] < 0 => \E u \in Threads : pc'[u] = "zero" /\ At(u)' = s
    BY DEF CountsAtMost
  <2>1. /\ IsFiniteSet(Referencing(s)) /\ count[s] <= Cardinality(Referencing(s))
        /\ count[s] < 0 => \E u \in Threads : pc[u] = "zero" /\ At(u) = s
    BY <1>9 DEF Balanced, CountsAtMost
  <2>2. \A u \in Threads : pc[u] = "zero" => pc'[u] = "zero" /\ At(u)' = At(u)
    BY <1>2, <1>7
  <2>3. s = v /\ count'[s] < 0 => pc'[t] = "zero" /\ At(t)' = s
    BY <1>1, <1>6
  <2>4. IsFiniteSet(Referencing(s)') /\ count'[s] <= Cardinality(Referencing(s)')
    <3>1. CASE s = v
      <4>1. IsFiniteSet(Referencing(v)') /\ count'[v] <= Cardinality(Referencing(v)')
        BY <1>4, <1>5, <1>6, <2>1, <3>1
      <4> QED
        BY <3>1, <4>1
    <3>2. CASE s # v
      BY <1>3, <1>6, <2>1, <3>2
    <3> QED
      BY <3>1, <3>2
  <2>5. s # v => count'[s] = count[s]
    BY <1>6
  <2> QED
    BY <2>1, <2>2, <2>3, <2>4, <2>5
<1>12. DropsAlone'
  <2> SUFFICES ASSUME "revived" \notin causes', NEW s \in Snaps
               PROVE  /\ \A u \in Threads : Ends(u, s)' =>
                           memory'[s] = "live" /\ Referencing(s)' = {} /\ \A x \in Threads \ {u} : ~Ends(x, s)'
                      /\ Referencing(s)' # {} => memory'[s] = "live"
    BY DEF DropsAlone
  <2>1. /\ \A u \in Threads : Ends(u, s) =>
             memory[s] = "live" /\ Referencing(s) = {} /\ \A x \in Threads \ {u} : ~Ends(x, s)
        /\ Referencing(s) # {} => memory[s] = "live"
    BY <1>2 DEF Balanced, DropsAlone
  <2>2. CASE s # v
    BY <1>2, <1>3, <1>8, <2>1, <2>2
  <2>3. CASE s = v
    <3>1. \A u \in Threads : ~Ends(u, v)
      BY <1>3, <2>1, <2>3
    <3>2. count[v] = Cardinality(Referencing(v))
      BY <1>1, <1>2 DEF Balanced, CountsReferences
    <3>3. count[v] <= 1 => Referencing(v)' = {}
      <4>1. count[v] <= 1 => Cardinality(Referencing(v)') <= 0 /\ Cardinality(Referencing(v)') \in Nat
        BY <1>5, <1>6, <3>2, FS_CardinalityType
      <4> QED
        BY <1>5, <4>1, FS_EmptySet
    <3> QED
      BY <1>2, <1>8, <2>3, <3>1, <3>3
  <2> QED
    BY <2>2, <2>3
<1> QED
  BY <1>10, <1>11, <1>12 DEF Balanced

LEMMA BalancedZero ==
  ASSUME Placed, Balanced, NEW t \in Threads, Zero(t)
  PROVE  Balanced'
<1>0. PinTypeOK /\ Shape(t)
  BY DEF Placed
<1>v. PICK v \in Snaps : v = At(t)
  BY <1>0, ZeroHeld
<1>1. Alone(t) /\ HeldSame(t) /\ reg' = reg /\ pc'[t] = "test" /\ ptr'[t] = ptr[t]
  BY <1>0, ZeroHeld
<1>2. /\ memory' = memory /\ memory[v] = "live" /\ pc[t] = "zero" /\ causes' = causes
      /\ count' = [count EXCEPT ![v] = 0]
  BY <1>v DEF Zero, Live
<1>3. \A s \in Snaps : Referencing(s)' = Referencing(s)
  BY <1>1, RefSame DEF Placed
<1>4. \A u \in Threads \ {t} : pc'[u] = pc[u] /\ At(u)' = At(u)
  BY <1>1, Others DEF Placed
<1>5. At(t)' = v
  BY <1>v, <1>1 DEF At
<1>6. \A u \in Threads, s \in Snaps : Ends(u, s)' <=> Ends(u, s)
  BY <1>v, <1>1, <1>2, <1>4, <1>5 DEF Ends, Ending
<1>7. count'[v] = 0 /\ \A s \in Snaps \ {v} : count'[s] = count[s]
  BY <1>0, <1>2 DEF PinTypeOK
<1>8. Ends(t, v)
  BY <1>v, <1>2 DEF Ends, Ending
<1>9. CountsReferences'
  <2> SUFFICES ASSUME "revived" \notin causes', NEW s \in Snaps, memory'[s] = "live"
               PROVE  count'[s] = Cardinality(Referencing(s)')
    BY DEF CountsReferences
  <2>1. memory[s] = "live" /\ count[s] = Cardinality(Referencing(s))
    BY <1>2 DEF Balanced, CountsReferences
  <2>2. Referencing(v) = {}
    BY <1>2, <1>8 DEF Balanced, DropsAlone
  <2> QED
    BY <1>3, <1>7, <2>1, <2>2, FS_EmptySet
<1>10. CountsAtMost'
  <2> SUFFICES ASSUME NEW s \in Snaps, memory'[s] = "live"
               PROVE  /\ IsFiniteSet(Referencing(s)') /\ count'[s] <= Cardinality(Referencing(s)')
                      /\ count'[s] < 0 => \E u \in Threads : pc'[u] = "zero" /\ At(u)' = s
    BY DEF CountsAtMost
  <2>1. /\ IsFiniteSet(Referencing(s)) /\ count[s] <= Cardinality(Referencing(s))
        /\ count[s] < 0 => \E u \in Threads : pc[u] = "zero" /\ At(u) = s
    BY <1>2 DEF Balanced, CountsAtMost
  <2>2. Cardinality(Referencing(s)) \in Nat
    BY <2>1, FS_CardinalityType
  <2>3. CASE s = v
    BY <1>3, <1>7, <2>1, <2>2, <2>3
  <2>4. CASE s # v
    <3>1. \A u \in Threads : pc[u] = "zero" /\ At(u) = s => pc'[u] = "zero" /\ At(u)' = s
      BY <1>v, <1>4, <2>4
    <3> QED
      BY <1>3, <1>7, <2>1, <2>4, <3>1
  <2> QED
    BY <2>3, <2>4
<1>11. DropsAlone'
  BY <1>2, <1>3, <1>6 DEF Balanced, DropsAlone
<1> QED
  BY <1>9, <1>10, <1>11 DEF Balanced

LEMMA BalancedAllocate ==
  ASSUME Placed, Balanced, NEW t \in Threads, Allocate(t)
  PROVE  Balanced'
<1>0. PinTypeOK /\ Shape(t)
  BY DEF Placed
<1>1. PICK v \in Snaps :
         /\ memory[v] = "unused" /\ memory' = [memory EXCEPT ![v] = "live"]
         /\ count' = [count EXCEPT ![v] = FirstCount(request[t])]
         /\ Alone(t) /\ Shape(t)' /\ pc'[t] \notin Ending
         /\ request[t] = "change" => HeldMore(t, "NewFilter", v)
         /\ request[t] # "change" => HeldSame(t)
         /\ reg[t]["NewFilter"] = None /\ reg'[t]["NewFilter"] = v
         /\ \A q \in Registers \ {"NewFilter"} : reg'[t][q] = reg[t][q]
  BY <1>0, AllocateHeld
<1>2. pc[t] = "allocate" /\ causes' = causes
  BY DEF Allocate
<1>3. \A u \in Threads, r \in Registers : reg[u][r] # v
  BY <1>1, PinAssumption DEF Placed, Apart
<1>4. Referencing(v) = {}
  <2>1. Counted \subseteq Registers
    BY DEF Counted, Registers
  <2> QED
    BY <1>3, <2>1, RefPairs
<1>5. /\ request[t] = "change" => Referencing(v)' = Referencing(v) \cup {<<t, "NewFilter">>}
      /\ request[t] # "change" => Referencing(v)' = Referencing(v)
      /\ \A s \in Snaps \ {v} : Referencing(s)' = Referencing(s)
  <2>1. CASE request[t] = "change"
    <3>0. PICK w \in Registers : w = "NewFilter"
      BY DEF Registers
    <3>1. HeldMore(t, w, v)
      BY <1>1, <2>1, <3>0
    <3>2. /\ <<t, w>> \notin Referencing(v) /\ Referencing(v)' = Referencing(v) \cup {<<t, w>>}
          /\ \A s \in Snaps \ {v} : Referencing(s)' = Referencing(s)
      BY <1>1, <3>1, RefMore DEF Placed
    <3> QED
      BY <2>1, <3>0, <3>2
  <2>2. CASE request[t] # "change"
    BY <1>1, <2>2, RefSame DEF Placed
  <2> QED
    BY <2>1, <2>2
<1>6. IsFiniteSet(Referencing(v)') /\ Cardinality(Referencing(v)') = FirstCount(request[t])
  <2>1. Cardinality({}) = 0 /\ IsFiniteSet({})
    BY FS_EmptySet
  <2>2. IsFiniteSet({<<t, "NewFilter">>}) /\ Cardinality({<<t, "NewFilter">>}) = 1
    BY FS_Singleton
  <2>3. CASE request[t] = "change"
    BY <1>4, <1>5, <2>2, <2>3 DEF FirstCount
  <2>4. CASE request[t] # "change"
    BY <1>4, <1>5, <2>1, <2>4 DEF FirstCount
  <2> QED
    BY <2>3, <2>4
<1>7. /\ count'[v] = FirstCount(request[t]) /\ FirstCount(request[t]) \in Nat /\ memory'[v] = "live"
      /\ \A s \in Snaps \ {v} : count'[s] = count[s] /\ memory'[s] = memory[s]
  BY <1>0, <1>1 DEF PinTypeOK, FirstCount
<1>8. \A u \in Threads \ {t} : pc'[u] = pc[u] /\ At(u)' = At(u)
  BY <1>1, Others DEF Placed
<1>9. /\ \A u \in Threads : ~Ends(u, v)
      /\ ~\E s \in Snaps : Ends(t, s)'
      /\ \A u \in Threads, s \in Snaps : Ends(u, s)' => Ends(u, s)
  <2>1. \A u \in Threads : At(u) # v
    BY <1>0, <1>3 DEF At, PinTypeOK
  <2> QED
    BY <1>1, <1>8, <2>1 DEF Ends
<1>10. CountsReferences'
  <2> SUFFICES ASSUME "revived" \notin causes', NEW s \in Snaps, memory'[s] = "live"
               PROVE  count'[s] = Cardinality(Referencing(s)')
    BY DEF CountsReferences
  <2>1. s # v => memory[s] = "live" /\ count[s] = Cardinality(Referencing(s))
    BY <1>2, <1>7 DEF Balanced, CountsReferences
  <2> QED
    BY <1>5, <1>6, <1>7, <2>1
<1>11. CountsAtMost'
  <2> SUFFICES ASSUME NEW s \in Snaps, memory'[s] = "live"
               PROVE  /\ IsFiniteSet(Referencing(s)') /\ count'[s] <= Cardinality(Referencing(s)')
                      /\ count'[s] < 0 => \E u \in Threads : pc'[u] = "zero" /\ At(u)' = s
    BY DEF CountsAtMost
  <2>1. CASE s = v
    BY <1>6, <1>7, <2>1
  <2>2. CASE s # v
    <3>1. /\ IsFiniteSet(Referencing(s)) /\ count[s] <= Cardinality(Referencing(s))
          /\ count[s] < 0 => \E u \in Threads : pc[u] = "zero" /\ At(u) = s
      BY <1>7, <2>2 DEF Balanced, CountsAtMost
    <3>2. \A u \in Threads : pc[u] = "zero" => pc'[u] = "zero" /\ At(u)' = At(u)
      BY <1>2, <1>8
    <3> QED
      BY <1>5, <1>7, <2>2, <3>1, <3>2
  <2> QED
    BY <2>1, <2>2
<1>12. DropsAlone'
  <2> SUFFICES ASSUME "revived" \notin causes', NEW s \in Snaps
               PROVE  /\ \A u \in Threads : Ends(u, s)' =>
                           memory'[s] = "live" /\ Referencing(s)' = {} /\ \A x \in Threads \ {u} : ~Ends(x, s)'
                      /\ Referencing(s)' # {} => memory'[s] = "live"
    BY DEF DropsAlone
  <2>1. /\ \A u \in Threads : Ends(u, s) =>
             memory[s] = "live" /\ Referencing(s) = {} /\ \A x \in Threads \ {u} : ~Ends(x, s)
        /\ Referencing(s) # {} => memory[s] = "live"
    BY <1>2 DEF Balanced, DropsAlone
  <2>2. CASE s = v
    BY <1>7, <1>9, <2>2
  <2>3. CASE s # v
    BY <1>5, <1>7, <1>9, <2>1, <2>3
  <2> QED
    BY <2>2, <2>3
<1> QED
  BY <1>10, <1>11, <1>12 DEF Balanced

LEMMA BalancedStep == Placed /\ Balanced /\ PinNext => Balanced'
<1> SUFFICES ASSUME Placed, Balanced, PinNext PROVE Balanced'
  OBVIOUS
<1>1. PICK t \in Threads : PinStep(t)
  BY DEF PinNext
<1>2. PinTypeOK /\ Shape(t) /\ ptr[t] \in Registers
  BY DEF Placed, PinTypeOK
<1>3. ASSUME pc'[t] \notin Ending PROVE \A s \in Snaps : Ends(t, s)' => Ends(t, s)
  BY <1>3 DEF Ends
<1>4. CASE Call(t)
  BY <1>2, <1>3, <1>4, CallHeld, BalancedSame DEF Call
<1>5. CASE Load(t)
  BY <1>2, <1>3, <1>5, LoadHeld, BalancedSame DEF Load
<1>6. CASE Walk(t)
  BY <1>2, <1>3, <1>6, WalkHeld, BalancedSame DEF Walk
<1>7. CASE Use(t)
  BY <1>2, <1>3, <1>7, UseHeld, BalancedSame DEF Use
<1>8. CASE ExchangeFilter(t)
  BY <1>2, <1>3, <1>8, ExchangeHeld, BalancedSame DEF ExchangeFilter
<1>9. CASE Test(t)
  <2>1. /\ Alone(t) /\ HeldSame(t)
        /\ pc'[t] \notin Ending \/ (pc'[t] = "free" /\ ptr'[t] = ptr[t] /\ reg' = reg)
    BY <1>2, <1>9, TestHeld
  <2>2. pc[t] = "test" /\ UNCHANGED <<memory, count, causes>>
    BY <1>9 DEF Test
  <2>3. \A s \in Snaps : Ends(t, s)' => Ends(t, s)
    BY <1>3, <2>1, <2>2 DEF Ends, At, Ending
  <2> QED
    BY <2>1, <2>2, <2>3, BalancedSame
<1>10. CASE Free(t)
  BY <1>2, <1>3, <1>10, FreeHeld, BalancedSame DEF Free
<1>11. CASE TouchFreed(t)
  <2>1. UNCHANGED <<memory, count, reg, pc, ptr, request, causes>>
    BY <1>11 DEF TouchFreed
  <2> QED
    BY <2>1 DEF Balanced, CountsReferences, CountsAtMost, DropsAlone, Referencing, Holds, Ends, At
<1> QED
  BY <1>1, <1>4, <1>5, <1>6, <1>7, <1>8, <1>9, <1>10, <1>11,
     BalancedIncrement, BalancedDecrement, BalancedZero, BalancedAllocate DEF PinStep

-----------------------------------------------------------------------------
(* Who keeps a snapshot goes on keeping it, or somebody else does, as long as *)
(* it is neither freed nor in force while a release looks at it.              *)
LEMMA KeepsOn ==
  ASSUME Placed, NEW t \in Threads, Alone(t), NEW s \in Snaps, NEW u \in Threads, NEW r \in Counted, Keeps(u, r, s),
         Keeps(t, r, s) => Keeps(t, r, s)'
  PROVE  Keeps(u, r, s)'
<1>1. CASE u = t
  BY <1>1
<1>2. CASE u # t
  <2>1. r \in Registers
    BY DEF Counted, Registers
  <2> QED
    BY <1>2, <2>1, Others DEF Placed, Keeps
<1> QED
  BY <1>1, <1>2

LEMMA HeldKeeps ==
  ASSUME Placed, NEW t \in Threads, Alone(t), NEW s \in Snaps, NEW u \in Threads, NEW r \in Counted, Keeps(u, r, s),
         \A q \in Counted : Holds(t, q) => Holds(t, q)' /\ reg'[t][q] = reg[t][q],
         pc[t] \in Ending => pc'[t] \in Ending /\ ptr'[t] = ptr[t] /\ reg' = reg
  PROVE  Keeps(u, r, s)'
<1>1. Keeps(t, r, s) => Keeps(t, r, s)'
  BY DEF Keeps
<1> QED
  BY <1>1, KeepsOn

LEMMA KeptOn ==
  ASSUME Placed, Balanced, NEW t \in Threads, PinStep(t), NEW s \in Snaps, memory'[s] = "live",
         pc[t] = "test" => s # current,
         NEW u \in Threads, NEW r \in Counted, Keeps(u, r, s)
  PROVE  \E v \in Threads, q \in Counted : Keeps(v, q, s)'
<1>1. PinTypeOK /\ Shape(t) /\ ptr[t] \in Registers /\ Counted \subseteq Registers
  BY DEF Placed, PinTypeOK, Counted, Registers
<1>2. ASSUME Alone(t), HeldSame(t),
             pc[t] \in Ending => pc'[t] \in Ending /\ ptr'[t] = ptr[t] /\ reg' = reg
      PROVE  Keeps(u, r, s)'
  BY <1>2, HeldKeeps DEF HeldSame
<1>3. ASSUME Alone(t), NEW w, NEW x, HeldMore(t, w, x), pc[t] \notin Ending
      PROVE  Keeps(u, r, s)'
  <2>1. \A q \in Counted : Holds(t, q) => Holds(t, q)' /\ reg'[t][q] = reg[t][q]
    BY <1>3 DEF HeldMore
  <2> QED
    BY <1>3, <2>1, HeldKeeps
<1>4. CASE Call(t)
  <2>1. pc[t] \notin Ending
    BY <1>4 DEF Call, Ending
  <2> QED
    BY <1>1, <1>2, <1>4, <2>1, CallHeld
<1>5. CASE Load(t)
  <2>1. pc[t] \notin Ending
    BY <1>5 DEF Load, Ending
  <2> QED
    BY <1>1, <1>2, <1>5, <2>1, LoadHeld
<1>6. CASE Increment(t)
  <2>1. pc[t] \notin Ending
    BY <1>6 DEF Increment, Ending
  <2>2. PICK w \in Registers : w = ptr[t]
    BY <1>1
  <2>3. Alone(t) /\ HeldMore(t, w, At(t)) /\ At(t) \in Snaps
    BY <1>1, <1>6, <2>2, IncrementHeld
  <2>4. PICK x \in Snaps : x = At(t)
    BY <2>3
  <2>5. HeldMore(t, w, x)
    BY <2>3, <2>4 DEF HeldMore
  <2> QED
    BY <1>3, <2>1, <2>3, <2>5
<1>7. CASE Walk(t)
  <2>1. pc[t] \notin Ending
    BY <1>7 DEF Walk, Ending
  <2> QED
    BY <1>1, <1>2, <1>7, <2>1, WalkHeld
<1>8. CASE Use(t)
  <2>1. pc[t] \notin Ending
    BY <1>8 DEF Use, Ending
  <2> QED
    BY <1>1, <1>2, <1>8, <2>1, UseHeld
<1>9. CASE Allocate(t)
  <2>1. pc[t] \notin Ending
    BY <1>9 DEF Allocate, Ending
  <2>2. PICK x \in Snaps : /\ Alone(t)
                           /\ request[t] = "change" => HeldMore(t, "NewFilter", x)
                           /\ request[t] # "change" => HeldSame(t)
    BY <1>1, <1>9, AllocateHeld
  <2>3. PICK w \in Registers : w = "NewFilter"
    BY DEF Registers
  <2>4. CASE request[t] = "change"
    <3>1. HeldMore(t, w, x)
      BY <2>2, <2>3, <2>4
    <3> QED
      BY <1>3, <2>1, <2>2, <3>1
  <2>5. CASE request[t] # "change"
    BY <1>2, <2>1, <2>2, <2>5
  <2> QED
    BY <2>4, <2>5
<1>10. CASE ExchangeFilter(t)
  <2>1. pc[t] \notin Ending
    BY <1>10 DEF ExchangeFilter, Ending
  <2> QED
    BY <1>1, <1>2, <1>10, <2>1, ExchangeHeld
<1>11. CASE Decrement(t)
  <2>1. PICK w \in Registers : w = ptr[t]
    BY <1>1
  <2>2. PICK x \in Snaps : x = At(t)
    BY <1>1, <1>11, <2>1, DecrementHeld
  <2>3. /\ Alone(t) /\ HeldLess(t, w) /\ x = reg[t][w] /\ w \in Counted
        /\ \/ count[x] > 1 /\ pc'[t] \notin Ending
           \/ pc'[t] = "zero" /\ ptr'[t] = ptr[t] /\ reg' = reg
    BY <1>1, <1>11, <2>1, <2>2, DecrementHeld DEF At
  <2>4. pc[t] = "decrement" /\ pc[t] \notin Ending /\ memory[x] = "live"
    BY <1>11, <2>2 DEF Decrement, Live, Ending
  <2>5. CASE ~(u = t /\ r = w)
    <3>1. r # w => (Keeps(t, r, s) => Keeps(t, r, s)')
      BY <2>3, <2>4 DEF Keeps, HeldLess
    <3>2. u # t => Keeps(u, r, s)'
      BY <1>1, <2>3, Others DEF Placed, Keeps
    <3> QED
      BY <2>5, <3>1, <3>2
  <2>6. CASE u = t /\ r = w /\ pc'[t] = "zero"
    <3>1. Keeps(t, w, s)'
      BY <2>1, <2>3, <2>4, <2>6 DEF Keeps, Ending
    <3> QED
      BY <2>6, <3>1
  <2>7. CASE u = t /\ r = w /\ count[x] > 1
    <3>1. s = x
      BY <2>3, <2>7 DEF Keeps
    <3>2. IsFiniteSet(Referencing(s)) /\ count[s] <= Cardinality(Referencing(s)) /\ count[s] \in Int
      BY <1>1, <2>4, <3>1 DEF Balanced, CountsAtMost, PinTypeOK
    <3>3. <<t, w>> \in Referencing(s) /\ Referencing(s)' = Referencing(s) \ {<<t, w>>}
      BY <2>3, <3>1, RefLess DEF Placed
    <3>4. Cardinality(Referencing(s) \ {<<t, w>>}) = Cardinality(Referencing(s)) - 1
      BY <3>2, <3>3, FS_RemoveElement
    <3>5. Cardinality(Referencing(s)) \in Nat
      BY <3>2, FS_CardinalityType
    <3>6. Cardinality(Referencing(s) \ {<<t, w>>}) > 0
      BY <2>7, <3>1, <3>2, <3>4, <3>5
    <3>7. Referencing(s)' # {}
      BY <3>3, <3>6, FS_EmptySet
    <3> QED
      BY <3>7, RefPairsNext DEF Keeps
  <2> QED
    BY <2>3, <2>5, <2>6, <2>7
<1>12. CASE Zero(t)
  <2>1. pc'[t] \in Ending /\ ptr'[t] = ptr[t] /\ reg' = reg
    BY <1>1, <1>12, ZeroHeld DEF Ending
  <2> QED
    BY <1>1, <1>2, <1>12, <2>1, ZeroHeld
<1>13. CASE Test(t) /\ current # At(t)
  <2>1. pc'[t] \in Ending /\ ptr'[t] = ptr[t] /\ reg' = reg
    BY <1>1, <1>13, TestHeld DEF Ending
  <2> QED
    BY <1>1, <1>2, <1>13, <2>1, TestHeld
<1>14. CASE (Test(t) /\ current = At(t)) \/ Free(t)
  <2>1. Alone(t) /\ HeldSame(t) /\ At(t) \in Snaps
    BY <1>1, <1>14, TestHeld, FreeHeld
  <2>2. At(t) # s
    <3>1. Test(t) => pc[t] = "test"
      BY DEF Test
    <3>2. Free(t) => memory'[At(t)] = "freed"
      BY <1>1, <2>1 DEF Free, PinTypeOK
    <3> QED
      BY <1>14, <3>1, <3>2
  <2>3. Keeps(t, r, s) => Keeps(t, r, s)'
    BY <2>1, <2>2 DEF Keeps, HeldSame, At
  <2> QED
    BY <2>1, <2>3, KeepsOn
<1>15. CASE TouchFreed(t)
  BY <1>15 DEF TouchFreed, Keeps, Holds
<1> QED
  BY <1>4, <1>5, <1>6, <1>7, <1>8, <1>9, <1>10, <1>11, <1>12, <1>13, <1>14, <1>15 DEF PinStep

(* An entry of the snapshot in force is kept by its own thread. *)
LEMMA EntryHeld ==
  ASSUME Placed, EntryKept, NEW u \in Threads, reg[u]["Entry"] = current
  PROVE  \E r \in Counted : Keeps(u, r, current)
<1>1. Shape(u) /\ current # None /\ current \in Snaps
  BY PinAssumption DEF Placed, PinTypeOK
<1>2. "PFilter" \in Counted /\ "Handle" \in Counted
  BY DEF Counted
<1>3. CASE pc[u] = "use"
  BY <1>1, <1>2, <1>3 DEF Shape, Holds, Keeps, EntryKept
<1>4. CASE pc[u] # "use"
  <2>1. reg[u]["PFilter"] # None
    BY <1>1, <1>4 DEF Shape, Holds, Releasing, Ending
  <2>2. Holds(u, "PFilter") \/ (ptr[u] = "PFilter" /\ pc[u] \in Ending)
    BY <1>1, <1>4 DEF Shape, Holds, Releasing, Ending
  <2> QED
    BY <1>1, <1>2, <2>1, <2>2 DEF Shape, Keeps
<1> QED
  BY <1>3, <1>4

(* What a step writes: it clears registers, or it is one of the steps that    *)
(* fill one.                                                                  *)
LEMMA Writes ==
  ASSUME Placed, NEW t \in Threads, PinStep(t)
  PROVE  /\ \A u \in Threads \ {t} : reg'[u] = reg[u]
         /\ reg'[t]["Entry"] \in {None, reg[t]["Entry"]} \/ Walk(t)
         /\ reg'[t]["Handle"] \in {None, reg[t]["Handle"]} \/ (Load(t) /\ ptr[t] = "Handle")
         /\ current' = current \/ ExchangeFilter(t)
         /\ causes \subseteq causes'
<1>1. PinTypeOK /\ Shape(t) /\ ptr[t] \in Registers
  BY DEF Placed, PinTypeOK
<1>2. {"PFilter", "NewFilter", "Handle", "Entry"} = Registers /\ Counted = {"PFilter", "NewFilter", "Handle"}
  BY DEF Registers, Counted
<1>3. Alone(t) => \A u \in Threads \ {t} : reg'[u] = reg[u]
  BY DEF Alone
<1>4. CASE Call(t)
  BY <1>1, <1>2, <1>3, <1>4, CallHeld DEF Call
<1>5. CASE Load(t)
  BY <1>1, <1>2, <1>3, <1>5, LoadHeld DEF Load
<1>6. CASE Increment(t)
  BY <1>1, <1>2, <1>3, <1>6, IncrementHeld DEF Increment
<1>7. CASE Walk(t)
  BY <1>1, <1>2, <1>3, <1>7, WalkHeld DEF Walk
<1>8. CASE Use(t)
  BY <1>1, <1>2, <1>3, <1>8, UseHeld DEF Use
<1>9. CASE Allocate(t)
  BY <1>1, <1>2, <1>3, <1>9, AllocateHeld DEF Allocate
<1>10. CASE ExchangeFilter(t)
  BY <1>1, <1>2, <1>3, <1>10, ExchangeHeld DEF ExchangeFilter
<1>11. CASE Decrement(t)
  BY <1>1, <1>2, <1>3, <1>11, DecrementHeld DEF Decrement
<1>12. CASE Zero(t)
  BY <1>1, <1>2, <1>3, <1>12, ZeroHeld DEF Zero
<1>13. CASE Test(t)
  BY <1>1, <1>2, <1>3, <1>13, TestHeld DEF Test
<1>14. CASE Free(t)
  BY <1>1, <1>2, <1>3, <1>14, FreeHeld DEF Free
<1>15. CASE TouchFreed(t)
  BY <1>15 DEF TouchFreed
<1> QED
  BY <1>4, <1>5, <1>6, <1>7, <1>8, <1>9, <1>10, <1>11, <1>12, <1>13, <1>14, <1>15 DEF PinStep

(* Freed memory is not given out again, and what is in use was given out. *)
LEMMA MemoryOnward ==
  ASSUME PinTypeOK, NEW t \in Threads, PinStep(t), NEW s \in Snaps, memory[s] = "freed"
  PROVE  memory'[s] = "freed"
<1>1. memory' = memory \/ Allocate(t) \/ Free(t)
  BY DEF PinStep, Call, Load, Increment, Walk, Use, ExchangeFilter, Decrement, Zero, Test, TouchFreed
<1> QED
  BY <1>1 DEF Allocate, Free, PinTypeOK

LEMMA EntryKeptStep ==
  ASSUME Placed, Balanced, EntryKept, NEW t \in Threads, PinStep(t)
  PROVE  EntryKept'
<1>1. PinTypeOK /\ \A u \in Threads : Shape(u) /\ Apart(u)
  BY DEF Placed
<1>2. "PFilter" \in Counted /\ "Entry" \in Registers /\ "NewFilter" \in Registers
  BY DEF Counted, Registers
<1>3. \A u \in Threads : reg[u]["Entry"] # None => reg[u]["Entry"] \in Snaps
  BY <1>1, <1>2 DEF PinTypeOK
<1>4. /\ \A u \in Threads \ {t} : reg'[u] = reg[u]
      /\ reg'[t]["Entry"] \in {None, reg[t]["Entry"]} \/ Walk(t)
      /\ reg'[t]["Handle"] \in {None, reg[t]["Handle"]} \/ (Load(t) /\ ptr[t] = "Handle")
      /\ current' = current \/ ExchangeFilter(t)
      /\ causes \subseteq causes'
  BY Writes
<1>5. \A u \in Threads : reg[u]["Entry"] # None /\ reg[u]["Entry"] # current => reg[u]["Entry"] # current'
  <2> SUFFICES ASSUME NEW u \in Threads, reg[u]["Entry"] # None, current' # current
               PROVE  reg[u]["Entry"] # current'
    OBVIOUS
  <2>1. current' = Mine(t) /\ Mine(t) # None
    BY <1>1, <1>4, ExchangeHeld, PinAssumption
  <2> QED
    BY <1>1, <1>2, <2>1 DEF Apart
<1>6. ASSUME NEW u \in Threads, NEW s \in Snaps, reg'[u]["Entry"] = s, ~(u = t /\ Walk(t))
      PROVE  /\ reg'[u]["Handle"] # None => reg'[u]["Handle"] = s \/ (s # current' /\ "switched" \in causes')
             /\ memory'[s] = "live" /\ s # current' => \E v \in Threads, r \in Counted : Keeps(v, r, s)'
  <2>1. s = reg[u]["Entry"] /\ s # None
    BY <1>4, <1>6, PinAssumption
  <2>2. /\ reg[u]["Handle"] # None => reg[u]["Handle"] = s \/ (s # current /\ "switched" \in causes)
        /\ memory[s] = "live" /\ s # current => \E v \in Threads, r \in Counted : Keeps(v, r, s)
    BY <2>1 DEF EntryKept
  <2>3. s # current => s # current'
    BY <1>5, <2>1
  <2>4. ASSUME u = t, Load(t), ptr[t] = "Handle"
        PROVE  reg'[u]["Handle"] # None => reg'[u]["Handle"] = s \/ (s # current' /\ "switched" \in causes')
    <3>1. /\ reg'[t]["Handle"] = current
          /\ causes' = causes \cup (IF current # reg[t]["PFilter"] THEN {"switched"} ELSE {})
          /\ pc[t] = "load" /\ current' = current
      BY <1>1, <2>4, LoadHeld DEF Load
    <3>2. s = reg[t]["PFilter"]
      BY <1>1, <2>1, <2>4, <3>1 DEF Shape, Holds
    <3> QED
      BY <2>4, <3>1, <3>2
  <2>5. ASSUME reg'[u]["Handle"] \in {None, reg[u]["Handle"]}
        PROVE  reg'[u]["Handle"] # None => reg'[u]["Handle"] = s \/ (s # current' /\ "switched" \in causes')
    BY <1>4, <2>2, <2>3, <2>5
  <2>6. ASSUME memory'[s] = "live", s # current'
        PROVE  \E v \in Threads, r \in Counted : Keeps(v, r, s)'
    <3>1. memory[s] = "live"
      <4>1. memory[s] # "unused"
        BY <1>1, <1>2, <2>1 DEF Apart
      <4>2. memory[s] # "freed"
        BY <1>1, <2>6, MemoryOnward
      <4> QED
        BY <1>1, <4>1, <4>2 DEF PinTypeOK
    <3>2. CASE s # current
      <4>1. PICK v \in Threads, r \in Counted : Keeps(v, r, s)
        BY <2>2, <3>1, <3>2
      <4> QED
        BY <2>6, <3>2, <4>1, KeptOn
    <3>3. CASE s = current
      <4>1. PICK r \in Counted : Keeps(u, r, s)
        BY <2>1, <3>3, EntryHeld DEF Keeps
      <4>2. pc[t] # "test"
        BY <1>4, <2>6, <3>3 DEF ExchangeFilter
      <4> QED
        BY <2>6, <4>1, <4>2, KeptOn
    <3> QED
      BY <3>2, <3>3
  <2>7. reg'[u]["Handle"] # None => reg'[u]["Handle"] = s \/ (s # current' /\ "switched" \in causes')
    BY <1>4, <2>4, <2>5
  <2> QED
    BY <2>6, <2>7
<1>7. ASSUME Walk(t), NEW s \in Snaps, reg'[t]["Entry"] = s
      PROVE  reg'[t]["Handle"] = None /\ Keeps(t, "PFilter", s)'
  <2>1. /\ HeldSame(t) /\ Holds(t, "PFilter") /\ reg[t]["Handle"] = None
        /\ reg'[t]["Handle"] = reg[t]["Handle"]
        /\ reg'[t]["Entry"] = reg[t]["PFilter"]
    BY <1>1, <1>7, WalkHeld, PinAssumption DEF Registers
  <2>2. "PFilter" \in Registers
    BY DEF Registers
  <2> QED
    BY <1>2, <1>7, <2>1, <2>2 DEF HeldSame, Keeps
<1> QED
  <2> SUFFICES ASSUME NEW u \in Threads, NEW s \in Snaps, reg'[u]["Entry"] = s
               PROVE  /\ reg'[u]["Handle"] # None => reg'[u]["Handle"] = s \/ (s # current' /\ "switched" \in causes')
                      /\ memory'[s] = "live" /\ s # current' => \E v \in Threads, r \in Counted : Keeps(v, r, s)'
    BY DEF EntryKept
  <2>1. CASE u = t /\ Walk(t)
    BY <1>2, <1>7, <2>1
  <2> QED
    BY <1>6, <2>1

-----------------------------------------------------------------------------
(* Who finds a snapshot freed. *)
LEMMA ExplainedStep ==
  ASSUME Placed, Balanced, EntryKept, damaged = "no", NEW t \in Threads, PinStep(t)
  PROVE  CountedIsSafe' /\ EntryExplained'
<1>1. PinTypeOK /\ Shape(t) /\ ptr[t] \in Registers /\ Counted \subseteq Registers
  BY DEF Placed, PinTypeOK, Counted, Registers
<1>2. CASE ~TouchFreed(t)
  <2>1. damaged' = "no"
    BY <1>2 DEF PinStep, Call, Load, Increment, Walk, Use, Allocate, ExchangeFilter, Decrement, Zero, Test, Free
  <2> QED
    BY <2>1 DEF CountedIsSafe, EntryExplained
<1>3. CASE TouchFreed(t)
  <2>1. damaged' = pc[t] /\ causes' = causes /\ pc[t] \in Touching /\ memory[At(t)] # "live"
    BY <1>3 DEF TouchFreed, Live
  <2>3. ASSUME NEW r \in Counted, Holds(t, r), "revived" \notin causes
        PROVE  reg[t][r] # None => memory[reg[t][r]] = "live"
    <3>1. SUFFICES ASSUME reg[t][r] # None PROVE memory[reg[t][r]] = "live"
      OBVIOUS
    <3>2. PICK s \in Snaps : s = reg[t][r]
      BY <1>1, <3>1 DEF PinTypeOK
    <3>3. <<t, r>> \in Referencing(s)
      BY <2>3, <3>2, RefPairs
    <3> QED
      BY <2>3, <3>2, <3>3 DEF Balanced, DropsAlone
  <2>4. ASSUME pc[t] \in {"walk", "decrement"} PROVE "revived" \in causes
    <3>1. ptr[t] \in Counted /\ Holds(t, ptr[t]) /\ reg[t][ptr[t]] # None
      BY <1>1, <2>4 DEF Shape, Place, Holds, Counted, Releasing
    <3> QED
      BY <2>1, <2>3, <3>1 DEF At
  <2>5. ASSUME pc[t] \in {"zero", "free"} PROVE "revived" \in causes
    <3>1. At(t) \in Snaps
      BY <1>1, <2>5 DEF Shape, Place, Holds, Counted, Releasing, Ending, At, PinTypeOK
    <3>2. Ends(t, At(t))
      BY <2>5 DEF Ends, Ending
    <3> QED
      BY <2>1, <3>1, <3>2 DEF Balanced, DropsAlone
  <2>6. ASSUME pc[t] = "use" PROVE causes # {}
    <3>1. /\ ptr[t] = "Entry" /\ Holds(t, "Handle") /\ reg[t]["Handle"] # None /\ reg[t]["Entry"] # None
          /\ "Handle" \in Counted /\ "Entry" \in Registers
      BY <1>1, <2>6 DEF Shape, Place, Holds, Counted, Registers
    <3>2. reg[t]["Entry"] \in Snaps /\ At(t) = reg[t]["Entry"]
      BY <1>1, <3>1 DEF PinTypeOK, At
    <3>3. reg[t]["Handle"] = reg[t]["Entry"] \/ "switched" \in causes
      BY <3>1, <3>2 DEF EntryKept
    <3> QED
      BY <2>1, <2>3, <3>1, <3>2, <3>3
  <2> QED
    BY <2>1, <2>4, <2>5, <2>6 DEF CountedIsSafe, EntryExplained
<1> QED
  BY <1>2, <1>3

-----------------------------------------------------------------------------
(* Who forgets a snapshot. *)
LEMMA Forgets ==
  ASSUME Placed, NEW t \in Threads, PinStep(t), NEW u \in Threads, NEW r \in Registers,
         reg[u][r] # None, reg'[u][r] # reg[u][r]
  PROVE  /\ u = t
         /\ \/ r = "Entry" /\ Use(t)
            \/ r = ptr[t] /\ r \in Counted /\ Keeps(t, r, reg[t][r]) /\ (Decrement(t) \/ (Test(t) /\ current = At(t)) \/ Free(t))
            \/ ExchangeFilter(t) /\ reg[t][r] = current'
<1>1. PinTypeOK /\ Shape(t) /\ ptr[t] \in Registers
  BY DEF Placed, PinTypeOK
<1>2. {"PFilter", "NewFilter", "Handle", "Entry"} = Registers /\ Counted = {"PFilter", "NewFilter", "Handle"}
  BY DEF Registers, Counted
<1>3. u = t
  BY Writes
<1>4. CASE Call(t)
  BY <1>1, <1>3, <1>4, CallHeld
<1>5. CASE Load(t)
  BY <1>1, <1>3, <1>5, LoadHeld
<1>6. CASE Increment(t)
  BY <1>1, <1>3, <1>6, IncrementHeld
<1>7. CASE Walk(t)
  <2>1. reg[t]["Entry"] = None
    BY <1>1, <1>7 DEF Walk, Shape, Releasing
  <2> QED
    BY <1>1, <1>3, <1>7, <2>1, WalkHeld
<1>8. CASE Use(t)
  BY <1>1, <1>3, <1>8, UseHeld
<1>9. CASE Allocate(t)
  BY <1>1, <1>3, <1>9, AllocateHeld
<1>10. CASE ExchangeFilter(t)
  BY <1>1, <1>3, <1>10, ExchangeHeld
<1>11. CASE Decrement(t)
  <2>1. PICK w \in Registers : w = ptr[t]
    BY <1>1
  <2>2. r = w /\ w \in Counted /\ Holds(t, w)
    BY <1>1, <1>3, <1>11, <2>1, DecrementHeld DEF HeldLess
  <2> QED
    BY <1>3, <1>11, <2>1, <2>2 DEF Keeps
<1>12. CASE Zero(t)
  BY <1>1, <1>3, <1>12, ZeroHeld
<1>13. CASE Test(t)
  <2>1. r = ptr[t] /\ ptr[t] \in Counted /\ current = At(t)
    BY <1>1, <1>3, <1>13, TestHeld
  <2>2. pc[t] \in Ending
    BY <1>13 DEF Test, Ending
  <2> QED
    BY <1>3, <1>13, <2>1, <2>2 DEF Keeps
<1>14. CASE Free(t)
  <2>1. r = ptr[t] /\ ptr[t] \in Counted
    BY <1>1, <1>3, <1>14, FreeHeld
  <2>2. pc[t] \in Ending
    BY <1>14 DEF Free, Ending
  <2> QED
    BY <1>3, <1>14, <2>1, <2>2 DEF Keeps
<1>15. CASE TouchFreed(t)
  BY <1>15 DEF TouchFreed
<1> QED
  BY <1>4, <1>5, <1>6, <1>7, <1>8, <1>9, <1>10, <1>11, <1>12, <1>13, <1>14, <1>15 DEF PinStep

LEMMA LeakKept ==
  ASSUME Placed, Balanced, EntryKept, NEW t \in Threads, PinStep(t)
  PROVE  LeakStep
<1> SUFFICES ASSUME NEW s \in Snaps, memory'[s] = "live", s # current',
                    \A u \in Threads, r \in Registers : reg'[u][r] # s,
                    ~Unreachable(s)
             PROVE  current = s /\ count[s] = 0
  BY DEF LeakStep, Unreachable
<1>1. PinTypeOK /\ \A u \in Threads : Shape(u) /\ Apart(u)
  BY DEF Placed
<1>2. Counted \subseteq Registers /\ "NewFilter" \in Registers /\ "Entry" \in Registers
  BY DEF Counted, Registers
<1>3. ~\E v \in Threads, q \in Counted : Keeps(v, q, s)'
  BY <1>2 DEF Keeps
<1>4. memory[s] = "live"
  <2>1. memory[s] # "freed"
    BY <1>1, MemoryOnward
  <2>2. memory[s] # "unused"
    <3>1. CASE Allocate(t)
      BY <1>1, <1>2, <3>1, AllocateHeld DEF PinTypeOK
    <3>2. CASE Free(t)
      BY <1>1, <3>2 DEF Free, Live, PinTypeOK
    <3>3. CASE memory' = memory
      BY <3>3
    <3> QED
      BY <3>1, <3>2, <3>3 DEF PinStep, Call, Load, Increment, Walk, Use, ExchangeFilter, Decrement, Zero, Test, TouchFreed
  <2> QED
    BY <1>1, <2>1, <2>2 DEF PinTypeOK
<1>5. CASE s = current
  <2>1. ExchangeFilter(t)
    BY <1>5, Writes
  <2>2. \A u \in Threads, r \in Registers : reg[u][r] # s
    <3> SUFFICES ASSUME NEW u \in Threads, NEW r \in Registers, reg[u][r] = s PROVE FALSE
      OBVIOUS
    <3>1. reg[u][r] # None /\ reg'[u][r] # reg[u][r]
      BY PinAssumption
    <3>2. ~Use(t) /\ ~Decrement(t) /\ ~Test(t) /\ ~Free(t)
      BY <2>1 DEF ExchangeFilter, Use, Decrement, Test, Free
    <3> QED
      BY <3>1, <3>2, Forgets
  <2>3. Referencing(s) = {}
    BY <1>2, <2>2, RefPairs
  <2>4. count[s] <= 0 /\ (count[s] < 0 => \E u \in Threads : pc[u] = "zero" /\ At(u) = s)
    BY <1>4, <2>3, FS_EmptySet DEF Balanced, CountsAtMost
  <2>5. \A u \in Threads : At(u) # s
    BY <1>1, <2>2 DEF At, PinTypeOK
  <2>6. count[s] \in Int
    BY <1>1 DEF PinTypeOK
  <2> QED
    BY <1>5, <2>4, <2>5, <2>6
<1>6. CASE s # current
  <2>1. PICK u \in Threads, r \in Registers : reg[u][r] = s
    BY <1>4, <1>6 DEF Unreachable
  <2>2. /\ u = t
        /\ \/ r = "Entry" /\ Use(t)
           \/ r = ptr[t] /\ r \in Counted /\ Keeps(t, r, reg[t][r]) /\ (Decrement(t) \/ (Test(t) /\ current = At(t)) \/ Free(t))
           \/ ExchangeFilter(t) /\ reg[t][r] = current'
    BY <2>1, Forgets, PinAssumption
  <2>3. PICK v \in Threads, q \in Counted : Keeps(v, q, s)
    BY <1>4, <1>6, <2>1, <2>2 DEF EntryKept
  <2> QED
    BY <1>3, <1>6, <2>3, KeptOn
<1> QED
  BY <1>5, <1>6

-----------------------------------------------------------------------------
LEMMA PinInvParts == PinInv <=> Placed /\ Balanced /\ EntryKept /\ CountedIsSafe /\ EntryExplained
  BY DEF PinInv, SnapshotsCounted, Placed, Balanced

LEMMA PinInvInit == PinInit => PinInv
<1> SUFFICES ASSUME PinInit PROVE PinInv
  OBVIOUS
<1>1. Placed
  BY PlacedInit
<1>2. /\ \A t \in Threads : pc[t] = "idle" /\ ptr[t] = "PFilter" /\ \A r \in Registers : reg[t][r] = None
      /\ \A s \in Snaps : count[s] = 0
      /\ damaged = "no" /\ causes = {}
      /\ current = First /\ memory[First] = "live" /\ First \in Snaps
  BY PinAssumption DEF PinInit
<1>3. \A t \in Threads, s \in Snaps : ~Ends(t, s)
  BY <1>2 DEF Ends, Ending
<1>4. \A s \in Snaps : Referencing(s) = {}
  <2> SUFFICES ASSUME NEW s \in Snaps PROVE Referencing(s) = {}
    OBVIOUS
  <2>1. Counted \subseteq Registers
    BY DEF Counted, Registers
  <2>2. \A u \in Threads, r \in Counted : <<u, r>> \notin Referencing(s)
    <3>1. \A u \in Threads, r \in Counted : reg[u][r] # s
      BY <1>2, <2>1, PinAssumption
    <3> QED
      BY <3>1, RefPairs
  <2> QED
    BY <2>2, RefPairs
<1>5. Balanced
  BY <1>2, <1>3, <1>4, FS_EmptySet DEF Balanced, CountsReferences, CountsAtMost, DropsAlone
<1>6. EntryKept
  BY <1>2, PinAssumption DEF EntryKept, Registers
<1>7. CountedIsSafe /\ EntryExplained
  BY <1>2 DEF CountedIsSafe, EntryExplained
<1> QED
  BY <1>1, <1>5, <1>6, <1>7, PinInvParts

LEMMA PinInvStep == PinInv /\ [PinNext]_pinVars => PinInv'
<1> SUFFICES ASSUME PinInv, [PinNext]_pinVars PROVE PinInv'
  OBVIOUS
<1>1. CASE PinNext
  <2>1. Placed /\ Balanced /\ EntryKept
    BY PinInvParts
  <2>2. PICK t \in Threads : PinStep(t) /\ damaged = "no"
    BY <1>1 DEF PinNext
  <2>3. Placed' /\ Balanced'
    BY <1>1, <2>1, PlacedStep, BalancedStep
  <2>4. EntryKept'
    BY <2>1, <2>2, EntryKeptStep
  <2>5. CountedIsSafe' /\ EntryExplained'
    BY <2>1, <2>2, ExplainedStep
  <2> QED
    BY <2>3, <2>4, <2>5 DEF PinInv, SnapshotsCounted, Placed, Balanced
<1>2. CASE UNCHANGED pinVars
  BY <1>2 DEF pinVars, PinInv, SnapshotsCounted, PinTypeOK, CurrentLive, CountsReferences, CountedIsSafe,
     EntryExplained, Shape, Place, Holds, Apart, Mine, At, CountsAtMost, DropsAlone, Ends, Referencing, EntryKept, Keeps
<1> QED
  BY <1>1, <1>2

(* The invariant holds for any number of threads, snapshots and calls.         *)
THEOREM PinInvariant == PinSpec => []PinInv
  BY PinInvInit, PinInvStep, PTL DEF PinSpec

(* The process filter in force is never freed; who has counted a reference,    *)
(* or holds the entry of a match, finds its snapshot freed only after one of   *)
(* the named events; the count is the number of pointers to be released        *)
(* (ProcessFilter.cpp).                                                        *)
THEOREM SnapshotsAreCounted == PinSpec => []SnapshotsCounted
<1>1. PinInv => SnapshotsCounted
  BY DEF PinInv
<1> QED
  BY <1>1, PinInvariant, PTL

(* A snapshot nobody points to any more was freed, unless it was exchanged     *)
(* while its count was zero (ProcessFilter_Add, ProcessFilter_Reset).          *)
THEOREM OnlyTheUnheldLeak == PinSpec => LeaksOnlyUnheld
<1>1. PinInv /\ [PinNext]_pinVars => [LeakStep]_pinVars
  BY LeakKept, PinInvParts DEF PinNext
<1> QED
  BY <1>1, PinInvariant, PTL DEF PinSpec, LeaksOnlyUnheld

-----------------------------------------------------------------------------
(* 2. The table of ports.                                                    *)

LEMMA LeastElement ==
  ASSUME NEW T, T \subseteq Nat, T # {}
  PROVE  \E x \in T : \A y \in T : x <= y
<1>1. \E x \in T : \A y \in T : ~(<<y, x>> \in OpToRel(<, Nat))
  BY NatLessThanWellFounded, WFMin, Zenon
<1>2. PICK x \in T : \A y \in T : ~(<<y, x>> \in OpToRel(<, Nat))
  BY <1>1
<1>3. ASSUME NEW y \in T PROVE x <= y
  <2>1. <<y, x>> \notin {xy \in Nat \X Nat : xy[1] < xy[2]}
    BY <1>2, Zenon DEF OpToRel
  <2>2. ~(y < x)
    BY <2>1
  <2> QED BY <2>2
<1> QED BY <1>2, <1>3

(* The slot a new connection is given is a free one of the table. *)
LEMMA FirstFreeIsFree ==
  ASSUME ~Full
  PROVE  FirstFree \in Slots /\ slots[FirstFree] = NoConn
<1> DEFINE T == {i \in Slots : slots[i] = NoConn}
<1>1. T # {}
  BY DEF Full, FirstFree
<1>2. T \subseteq Nat
  BY PortsAssumption DEF Slots
<1>3. PICK x \in T : \A y \in T : x <= y
  BY <1>1, <1>2, LeastElement
<1>4. x \in Slots /\ slots[x] = NoConn
  BY <1>3
<1>5. \A j \in 0 .. x - 1 : slots[j] # NoConn
  BY <1>3, <1>4, PortsAssumption DEF Slots
<1> HIDE DEF T
<1>6. \E i \in Slots : slots[i] = NoConn /\ \A j \in 0 .. i - 1 : slots[j] # NoConn
  BY <1>4, <1>5
<1>7. (\E i \in Slots : slots[i] = NoConn)
      => FirstFree = CHOOSE i \in Slots : slots[i] = NoConn /\ \A j \in 0 .. i - 1 : slots[j] # NoConn
  BY DEF FirstFree
<1> QED
  BY <1>4, <1>6, <1>7

ConnStates == {"off", "storing", "up", "closing", "gone", "refused"}

(* What a notify routine does to the connections. *)
LEMMA ConnectBeginType ==
  ASSUME PortsTypeOK, NEW c \in Conns, NEW p \in Clients, ConnectBegin(c, p)
  PROVE  /\ \/ ~cookieGiven /\ conn'[c] = [st |-> "up", proc |-> p, cookie |-> 0]
            \/ cookieGiven /\ conn'[c] = [st |-> "refused", proc |-> p, cookie |-> NoCookie]
            \/ /\ cookieGiven /\ conn'[c] = [st |-> "storing", proc |-> p, cookie |-> FirstFree]
               /\ MayControl(p) /\ FirstFree \in Slots /\ slots[FirstFree] = NoConn
         /\ \A d \in Conns \ {c} : conn'[d] = conn[d]
         /\ conn' \in [Conns -> [st : ConnStates, proc : Clients \cup {NoClient}, cookie : {NoCookie} \cup Slots]]
<1>1. 0 \in Slots
  BY PortsAssumption DEF Slots
<1>2. \/ ~cookieGiven /\ conn' = [conn EXCEPT ![c] = [st |-> "up", proc |-> p, cookie |-> 0]]
      \/ cookieGiven /\ conn' = [conn EXCEPT ![c] = [st |-> "refused", proc |-> p, cookie |-> NoCookie]]
      \/ cookieGiven /\ MayControl(p) /\ ~Full /\ conn' = [conn EXCEPT ![c] = [st |-> "storing", proc |-> p, cookie |-> FirstFree]]
  BY DEF ConnectBegin
<1>3. conn \in [Conns -> [st : ConnStates, proc : Clients \cup {NoClient}, cookie : {NoCookie} \cup Slots]]
  BY DEF PortsTypeOK, ConnStates
<1> QED
  BY <1>1, <1>2, <1>3, FirstFreeIsFree DEF ConnStates

LEMMA PortsTypeStep == PortsTypeOK /\ [PortsNext]_portVars => PortsTypeOK'
<1> SUFFICES ASSUME PortsTypeOK, [PortsNext]_portVars PROVE PortsTypeOK'
  OBVIOUS
<1> USE PortsAssumption
<1>1. ASSUME NEW c \in Conns, NEW p \in Clients, ConnectBegin(c, p) PROVE PortsTypeOK'
  <2>1. conn' \in [Conns -> [st : ConnStates, proc : Clients \cup {NoClient}, cookie : {NoCookie} \cup Slots]]
    BY <1>1, ConnectBeginType
  <2>2. overlapped' \in BOOLEAN
    BY <1>1 DEF ConnectBegin, Overlaps, PortsTypeOK
  <2> QED
    BY <1>1, <2>1, <2>2 DEF ConnectBegin, PortsTypeOK, ConnStates
<1>2. ASSUME NEW c \in Conns, ConnectStore(c) PROVE PortsTypeOK'
  BY <1>2 DEF ConnectStore, PortsTypeOK
<1>3. ASSUME NEW c \in Conns, DisconnectBegin(c) PROVE PortsTypeOK'
  <2>1. overlapped' \in BOOLEAN
    BY <1>3 DEF DisconnectBegin, Overlaps, PortsTypeOK
  <2> QED
    BY <1>3, <2>1 DEF DisconnectBegin, PortsTypeOK
<1>4. ASSUME NEW c \in Conns, DisconnectEnd(c) PROVE PortsTypeOK'
  BY <1>4 DEF DisconnectEnd, PortsTypeOK
<1> DEFINE CallType == [pc : {"idle", "own", "scan", "found", "done"},
                        seed : -SeedLimit .. SeedLimit - 1, salt : 0 .. MaxConn, port : Conns \cup {NoConn}]
<1>5. NoCall \in CallType
  BY DEF NoCall
<1>6. NextEvtId \in -SeedLimit .. SeedLimit - 1
  BY DEF NextEvtId, PortsTypeOK
<1>7. ASSUME NEW t \in Callbacks, CheckBegin(t) PROVE PortsTypeOK'
  <2>1. [NoCall EXCEPT !.pc = "own", !.seed = NextEvtId] \in CallType
    BY <1>5, <1>6
  <2>2. call' \in [Callbacks -> CallType]
    BY <1>7, <2>1 DEF CheckBegin, PortsTypeOK
  <2> QED
    BY <1>6, <1>7, <2>2 DEF CheckBegin, PortsTypeOK
<1>8. ASSUME NEW t \in Callbacks, NEW v \in CallType, call' = [call EXCEPT ![t] = v],
             UNCHANGED <<slots, controller, conn, evtId, wrapped, overlapped, loaded, cookieGiven>>
      PROVE  PortsTypeOK'
  BY <1>8 DEF PortsTypeOK
<1>9. ASSUME NEW t \in Callbacks, NotifyFile(t) PROVE PortsTypeOK'
  <2>1. [NoCall EXCEPT !.pc = "done"] \in CallType
    BY <1>5
  <2> QED
    BY <1>8, <1>9, <2>1 DEF NotifyFile
<1>10. ASSUME NEW t \in Callbacks, LookOwn(t) PROVE PortsTypeOK'
  <2>1. call[t] \in CallType
    BY DEF PortsTypeOK
  <2>2. \E v \in CallType : call' = [call EXCEPT ![t] = v]
    <3>1. \/ call' = [call EXCEPT ![t] = [call[t] EXCEPT !.pc = IF call[t].salt < MaxConn THEN "scan" ELSE "own"]]
          \/ call' = [call EXCEPT ![t] = [call[t] EXCEPT !.pc = "found"]]
          \/ \E i \in Slots : call' = [call EXCEPT ![t] = [call[t] EXCEPT !.pc = "found", !.port = slots[i]]]
      BY <1>10 DEF LookOwn
    <3>2. \A i \in Slots : slots[i] \in Conns \cup {NoConn}
      BY DEF PortsTypeOK
    <3>3. /\ [call[t] EXCEPT !.pc = IF call[t].salt < MaxConn THEN "scan" ELSE "own"] \in CallType
          /\ [call[t] EXCEPT !.pc = "found"] \in CallType
          /\ \A i \in Slots : [call[t] EXCEPT !.pc = "found", !.port = slots[i]] \in CallType
      BY <2>1, <3>2
    <3> HIDE DEF CallType
    <3> QED
      BY <3>1, <3>3
  <2> QED
    BY <1>8, <1>10, <2>2 DEF LookOwn
<1>11. ASSUME NEW t \in Callbacks, LookNext(t) PROVE PortsTypeOK'
  <2>1. call[t] \in CallType
    BY DEF PortsTypeOK
  <2>2. \E v \in CallType : call' = [call EXCEPT ![t] = v]
    <3> DEFINE s == call[t].salt
    <3>1. \/ call' = [call EXCEPT ![t] = [call[t] EXCEPT !.pc = "own"]]
          \/ s # MaxConn /\ call' = [call EXCEPT ![t] = [call[t] EXCEPT !.salt = s + 1]]
          \/ s # MaxConn /\ call' = [call EXCEPT ![t] = [call[t] EXCEPT !.salt = s + 1, !.pc = "found", !.port = slots[s]]]
      BY <1>11 DEF LookNext
    <3>2. s # MaxConn => s \in Slots /\ s + 1 \in 0 .. MaxConn
      BY <2>1 DEF Slots
    <3>3. \A i \in Slots : slots[i] \in Conns \cup {NoConn}
      BY DEF PortsTypeOK
    <3>4. /\ [call[t] EXCEPT !.pc = "own"] \in CallType
          /\ s # MaxConn => [call[t] EXCEPT !.salt = s + 1] \in CallType
          /\ s # MaxConn => [call[t] EXCEPT !.salt = s + 1, !.pc = "found", !.port = slots[s]] \in CallType
      BY <2>1, <3>2, <3>3
    <3> HIDE DEF CallType
    <3> QED
      BY <3>1, <3>4
  <2> QED
    BY <1>8, <1>11, <2>2 DEF LookNext
<1>12. ASSUME NEW t \in Callbacks, GiveUp(t) PROVE PortsTypeOK'
  BY <1>12 DEF GiveUp, PortsTypeOK
<1>13. ASSUME NEW t \in Callbacks, CheckEnd(t) PROVE PortsTypeOK'
  BY <1>5, <1>8, <1>13 DEF CheckEnd
<1>14. CASE Unload
  BY <1>14 DEF Unload, PortsTypeOK
<1>15. CASE UNCHANGED portVars
  BY <1>15 DEF portVars, PortsTypeOK
<1> QED
  BY <1>1, <1>2, <1>3, <1>4, <1>7, <1>9, <1>10, <1>11, <1>12, <1>13, <1>14, <1>15
     DEF PortsNext, Connections, CallbackStep

(* A step of a callback, or the unloading, leaves the connections alone. *)
ConnectionsStay == UNCHANGED <<slots, controller, conn, overlapped, cookieGiven>>

LEMMA StaysKeeps ==
  ASSUME PortsKept, PortsUncontrolled, ConnectionsStay
  PROVE  PortsKept' /\ PortsUncontrolled'
  BY DEF ConnectionsStay, PortsKept, PortsUncontrolled, InNotify

LEMMA PortsStepKinds ==
  ASSUME [PortsNext]_portVars
  PROVE  \/ ConnectionsStay
         \/ \E c \in Conns : (\E p \in Clients : ConnectBegin(c, p)) \/ ConnectStore(c) \/ DisconnectBegin(c) \/ DisconnectEnd(c)
  BY DEF PortsNext, Connections, CallbackStep, CheckBegin, NotifyFile, LookOwn, LookNext, GiveUp, CheckEnd, Unload,
     portVars, ConnectionsStay

LEMMA UncontrolledStep ==
  ASSUME PortsTypeOK, PortsUncontrolled, [PortsNext]_portVars
  PROVE  PortsUncontrolled'
<1> SUFFICES ASSUME ~cookieGiven'
             PROVE  /\ \A i \in Slots : slots'[i] = NoConn
                    /\ controller' = NoClient
                    /\ \A d \in Conns : conn'[d].st # "storing"
  BY DEF PortsUncontrolled
<1>1. cookieGiven' = cookieGiven
  BY PortsStepKinds DEF ConnectionsStay, ConnectBegin, ConnectStore, DisconnectBegin, DisconnectEnd
<1>2. /\ \A i \in Slots : slots[i] = NoConn
      /\ controller = NoClient
      /\ \A d \in Conns : conn[d].st # "storing"
  BY <1>1 DEF PortsUncontrolled
<1>3. CASE ConnectionsStay
  BY <1>2, <1>3 DEF ConnectionsStay
<1>4. ASSUME NEW c \in Conns, NEW p \in Clients, ConnectBegin(c, p)
      PROVE  /\ \A i \in Slots : slots'[i] = NoConn
             /\ controller' = NoClient
             /\ \A d \in Conns : conn'[d].st # "storing"
  BY <1>1, <1>2, <1>4, ConnectBeginType DEF ConnectBegin
<1>5. ASSUME NEW c \in Conns, ConnectStore(c) PROVE FALSE
  BY <1>2, <1>5 DEF ConnectStore
<1>6. ASSUME NEW c \in Conns, DisconnectBegin(c) \/ DisconnectEnd(c)
      PROVE  /\ \A i \in Slots : slots'[i] = NoConn
             /\ controller' = NoClient
             /\ \A d \in Conns : conn'[d].st # "storing"
  BY <1>2, <1>6 DEF DisconnectBegin, DisconnectEnd, PortsTypeOK
<1> QED
  BY <1>3, <1>4, <1>5, <1>6, PortsStepKinds

LEMMA KeptStep ==
  ASSUME PortsTypeOK, PortsKept, PortsUncontrolled, [PortsNext]_portVars
  PROVE  PortsKept'
<1> SUFFICES ASSUME cookieGiven', ~overlapped' PROVE PortsKept'
  BY DEF PortsKept
<1> USE PortsAssumption
<1>1. cookieGiven' = cookieGiven
  BY PortsStepKinds DEF ConnectionsStay, ConnectBegin, ConnectStore, DisconnectBegin, DisconnectEnd
<1>2. CASE ConnectionsStay
  BY <1>2, StaysKeeps
<1>3. ASSUME NEW c \in Conns, \/ \E p \in Clients : ConnectBegin(c, p)
                              \/ ConnectStore(c) \/ DisconnectBegin(c) \/ DisconnectEnd(c)
      PROVE  /\ ~overlapped
             /\ \A d, e \in Conns : InNotify(d) /\ InNotify(e) => d = e
             /\ \A d \in Conns :
                  /\ conn[d].st \in {"storing", "up", "closing"} => conn[d].proc \in Clients /\ conn[d].cookie \in Slots
                  /\ conn[d].st = "storing" => slots[conn[d].cookie] = NoConn /\ controller \in {NoClient, conn[d].proc}
                  /\ conn[d].st = "up" => slots[conn[d].cookie] = d /\ conn[d].proc = controller
                  /\ conn[d].st = "closing" => controller # NoClient
             /\ \A i \in Slots : slots[i] # NoConn => conn[slots[i]].st = "up" /\ conn[slots[i]].cookie = i
             /\ controller # NoClient => \E d \in Conns : conn[d].st \in {"up", "closing"}
             /\ \A d \in Conns \ {c} : ~InNotify(d)
  <2>1. ~overlapped
    BY <1>3 DEF ConnectBegin, ConnectStore, DisconnectBegin, DisconnectEnd, Overlaps
  <2>2. \A d, e \in Conns : InNotify(d) /\ InNotify(e) => d = e
    BY <1>1, <2>1 DEF PortsKept
  <2>3. \A d \in Conns \ {c} : ~InNotify(d)
    <3>1. (\E p \in Clients : ConnectBegin(c, p)) \/ DisconnectBegin(c) => \A d \in Conns \ {c} : ~InNotify(d)
      BY DEF ConnectBegin, DisconnectBegin, Overlaps
    <3>2. ConnectStore(c) \/ DisconnectEnd(c) => InNotify(c)
      BY DEF ConnectStore, DisconnectEnd, InNotify
    <3> QED
      BY <1>3, <2>2, <3>1, <3>2
  <2> QED
    BY <1>1, <2>1, <2>2, <2>3 DEF PortsKept
<1>4. ASSUME NEW c \in Conns, NEW p \in Clients, ConnectBegin(c, p) PROVE PortsKept'
  <2>1. /\ \/ conn'[c] = [st |-> "refused", proc |-> p, cookie |-> NoCookie]
           \/ /\ conn'[c] = [st |-> "storing", proc |-> p, cookie |-> FirstFree]
              /\ MayControl(p) /\ FirstFree \in Slots /\ slots[FirstFree] = NoConn
        /\ \A d \in Conns \ {c} : conn'[d] = conn[d]
    BY <1>1, <1>4, ConnectBeginType
  <2>2. slots' = slots /\ controller' = controller /\ conn[c].st = "off"
    BY <1>4 DEF ConnectBegin
  <2>3. \A i \in Slots : slots[i] # NoConn => slots[i] \in Conns \ {c}
    BY <1>3, <1>4, <2>2 DEF PortsTypeOK
  <2>4. controller # NoClient => \E d \in Conns \ {c} : conn[d].st \in {"up", "closing"}
    BY <1>3, <1>4, <2>2
  <2> QED
    BY <1>3, <1>4, <2>1, <2>2, <2>3, <2>4 DEF PortsKept, InNotify, MayControl
<1>5. ASSUME NEW c \in Conns, ConnectStore(c) PROVE PortsKept'
  <2> DEFINE i == conn[c].cookie
             p == conn[c].proc
  <2>1. /\ conn[c].st = "storing" /\ i \in Slots /\ p \in Clients /\ slots[i] = NoConn
        /\ controller \in {NoClient, p} /\ p # NoClient
    BY <1>3, <1>5 DEF ConnectStore
  <2>2. /\ slots'[i] = c /\ \A j \in Slots \ {i} : slots'[j] = slots[j]
        /\ controller' = p
        /\ conn'[c].st = "up" /\ conn'[c].cookie = i /\ conn'[c].proc = p
        /\ \A d \in Conns \ {c} : conn'[d] = conn[d]
    BY <1>5, <2>1 DEF ConnectStore, PortsTypeOK
  <2> HIDE DEF i, p
  <2>3. \A d \in Conns \ {c} : conn[d].st = "up" => conn[d].cookie # i /\ conn[d].proc = p
    <3>1. \A d \in Conns \ {c} : conn[d].st = "up" => slots[conn[d].cookie] = d /\ conn[d].proc = controller
      BY <1>3, <1>5
    <3>2. \A d \in Conns \ {c} : conn[d].st = "up" => conn[d].proc \in Clients
      BY <1>3, <1>5
    <3> QED
      BY <2>1, <3>1, <3>2
  <2>4. \A j \in Slots : slots[j] # NoConn => slots[j] \in Conns \ {c}
    BY <1>3, <1>5, <2>1 DEF PortsTypeOK
  <2> QED
    BY <1>3, <1>5, <2>1, <2>2, <2>3, <2>4 DEF PortsKept, InNotify
<1>6. ASSUME NEW c \in Conns, DisconnectBegin(c) PROVE PortsKept'
  <2> DEFINE i == conn[c].cookie
  <2>1. conn[c].st = "up" /\ i \in Slots /\ slots[i] = c /\ conn[c].proc = controller /\ controller \in Clients
    BY <1>3, <1>6 DEF DisconnectBegin
  <2>2. /\ slots'[i] = NoConn /\ \A j \in Slots \ {i} : slots'[j] = slots[j]
        /\ controller' = controller /\ controller # NoClient
        /\ conn'[c].st = "closing" /\ conn'[c].cookie = i /\ conn'[c].proc = conn[c].proc
        /\ \A d \in Conns \ {c} : conn'[d] = conn[d]
    BY <1>6, <2>1 DEF DisconnectBegin, PortsTypeOK
  <2> HIDE DEF i
  <2>3. \A d \in Conns \ {c} : conn[d].st = "up" => conn[d].cookie # i
    BY <1>3, <1>6, <2>1
  <2>4. \A j \in Slots \ {i} : slots[j] # NoConn => slots[j] \in Conns \ {c}
    BY <1>3, <1>6, <2>1 DEF PortsTypeOK, i
  <2> QED
    BY <1>3, <1>6, <2>1, <2>2, <2>3, <2>4 DEF PortsKept, InNotify
<1>7. ASSUME NEW c \in Conns, DisconnectEnd(c) PROVE PortsKept'
  <2>1. conn[c].st = "closing" /\ slots' = slots
    BY <1>7 DEF DisconnectEnd
  <2>2. conn'[c].st = "gone" /\ \A d \in Conns \ {c} : conn'[d] = conn[d]
    BY <1>7 DEF DisconnectEnd, PortsTypeOK
  <2>3. \A j \in Slots : slots[j] # NoConn => slots[j] \in Conns \ {c}
    BY <1>3, <1>7, <2>1 DEF PortsTypeOK
  <2>4. CASE \A j \in Slots : slots[j] = NoConn
    <3>1. controller' = NoClient
      BY <1>7, <2>4 DEF DisconnectEnd
    <3>2. \A d \in Conns : conn[d].st # "up"
      <4>1. \A d \in Conns : d # NoConn
        OBVIOUS
      <4> QED
        BY <1>3, <1>7, <2>4, <4>1
    <3> QED
      BY <1>3, <1>7, <2>1, <2>2, <2>3, <2>4, <3>1, <3>2 DEF PortsKept, InNotify
  <2>5. CASE ~\A j \in Slots : slots[j] = NoConn
    <3>1. controller' = controller
      BY <1>7, <2>5 DEF DisconnectEnd
    <3>2. \E d \in Conns \ {c} : conn[d].st = "up"
      BY <1>3, <1>7, <2>3, <2>5
    <3> QED
      BY <1>3, <1>7, <2>1, <2>2, <2>3, <3>1, <3>2 DEF PortsKept, InNotify
  <2> QED
    BY <2>4, <2>5
<1> QED
  BY <1>2, <1>4, <1>5, <1>6, <1>7, PortsStepKinds

LEMMA SeedsStep ==
  ASSUME PortsTypeOK, SeedsInRange, [PortsNext]_portVars
  PROVE  SeedsInRange'
<1> USE PortsAssumption
<1>1. ASSUME NEW t \in Callbacks, CheckBegin(t) PROVE SeedsInRange'
  <2>1. ~wrapped' => ~wrapped /\ evtId # SeedLimit - 1 /\ evtId' = evtId + 1
    BY <1>1 DEF CheckBegin, NextEvtId, PortsTypeOK
  <2>2. call'[t].seed = evtId' /\ \A u \in Callbacks \ {t} : call'[u] = call[u]
    BY <1>1 DEF CheckBegin, NoCall, PortsTypeOK
  <2> QED
    BY <2>1, <2>2 DEF SeedsInRange, PortsTypeOK
<1>2. ASSUME NEW t \in Callbacks, NEW v, call' = [call EXCEPT ![t] = v], UNCHANGED <<evtId, wrapped>>,
             v.seed \in {0, call[t].seed}
      PROVE  SeedsInRange'
  BY <1>2 DEF SeedsInRange, PortsTypeOK
<1>3. ASSUME NEW t \in Callbacks, NotifyFile(t) \/ CheckEnd(t) PROVE SeedsInRange'
  BY <1>2, <1>3 DEF NotifyFile, CheckEnd, NoCall
<1>4. ASSUME NEW t \in Callbacks, LookOwn(t) PROVE SeedsInRange'
  <2>a. \/ call' = [call EXCEPT ![t] = [call[t] EXCEPT !.pc = IF call[t].salt < MaxConn THEN "scan" ELSE "own"]]
        \/ call' = [call EXCEPT ![t] = [call[t] EXCEPT !.pc = "found"]]
        \/ \E i \in Slots : call' = [call EXCEPT ![t] = [call[t] EXCEPT !.pc = "found", !.port = slots[i]]]
    BY <1>4 DEF LookOwn
  <2>1. \A u \in Callbacks : call'[u].seed = call[u].seed
    <3>1. ASSUME NEW v, call' = [call EXCEPT ![t] = v], v.seed = call[t].seed
          PROVE  \A u \in Callbacks : call'[u].seed = call[u].seed
      BY <3>1 DEF PortsTypeOK
    <3>2. call[t] \in [pc : {"idle", "own", "scan", "found", "done"},
                       seed : -SeedLimit .. SeedLimit - 1, salt : 0 .. MaxConn, port : Conns \cup {NoConn}]
      BY DEF PortsTypeOK
    <3>3. CASE call' = [call EXCEPT ![t] = [call[t] EXCEPT !.pc = IF call[t].salt < MaxConn THEN "scan" ELSE "own"]]
      BY <3>1, <3>2, <3>3
    <3>4. CASE call' = [call EXCEPT ![t] = [call[t] EXCEPT !.pc = "found"]]
      BY <3>1, <3>2, <3>4
    <3>5. ASSUME NEW i \in Slots, call' = [call EXCEPT ![t] = [call[t] EXCEPT !.pc = "found", !.port = slots[i]]]
          PROVE  \A u \in Callbacks : call'[u].seed = call[u].seed
      BY <3>1, <3>2, <3>5
    <3> QED
      BY <2>a, <3>3, <3>4, <3>5
  <2> QED
    BY <1>4, <2>1 DEF LookOwn, SeedsInRange
<1>5. ASSUME NEW t \in Callbacks, LookNext(t) PROVE SeedsInRange'
  <2>1. UNCHANGED <<evtId, wrapped>> /\ \A u \in Callbacks : call'[u].seed = call[u].seed
    BY <1>5 DEF LookNext, PortsTypeOK
  <2> QED
    BY <2>1 DEF SeedsInRange
<1>6. ASSUME NEW t \in Callbacks, GiveUp(t) PROVE SeedsInRange'
  BY <1>6 DEF GiveUp, SeedsInRange, PortsTypeOK
<1>7. ASSUME UNCHANGED <<call, evtId, wrapped>> PROVE SeedsInRange'
  BY <1>7 DEF SeedsInRange
<1>8. Connections \/ Unload \/ UNCHANGED portVars => UNCHANGED <<call, evtId, wrapped>>
  BY DEF Connections, ConnectBegin, ConnectStore, DisconnectBegin, DisconnectEnd, Unload, portVars
<1> QED
  BY <1>1, <1>3, <1>4, <1>5, <1>6, <1>7, <1>8 DEF PortsNext, CallbackStep

LEMMA PortsInvInit == PortsInit => PortsInv
<1> SUFFICES ASSUME PortsInit PROVE PortsInv
  OBVIOUS
<1> USE PortsAssumption
<1>1. PortsTypeOK
  <2>1. call \in [Callbacks -> [pc : {"idle", "own", "scan", "found", "done"},
                                seed : -SeedLimit .. SeedLimit - 1, salt : 0 .. MaxConn, port : Conns \cup {NoConn}]]
    BY DEF PortsInit, NoCall
  <2>2. conn \in [Conns -> [st : {"off", "storing", "up", "closing", "gone", "refused"},
                            proc : Clients \cup {NoClient}, cookie : {NoCookie} \cup Slots]]
    BY DEF PortsInit
  <2>3. evtId \in -SeedLimit .. SeedLimit - 1
    BY DEF PortsInit
  <2>4. /\ slots \in [Slots -> Conns \cup {NoConn}] /\ controller \in Clients \cup {NoClient}
        /\ wrapped \in BOOLEAN /\ overlapped \in BOOLEAN /\ cookieGiven \in BOOLEAN
        /\ loaded \in {"yes", "crashed"}
    BY DEF PortsInit
  <2> QED
    BY <2>1, <2>2, <2>3, <2>4 DEF PortsTypeOK
<1>2. PortsKept
  BY DEF PortsInit, PortsKept, InNotify
<1>3. PortsUncontrolled
  BY DEF PortsInit, PortsUncontrolled
<1>4. SeedsInRange
  BY DEF PortsInit, SeedsInRange, NoCall
<1> QED
  BY <1>1, <1>2, <1>3, <1>4 DEF PortsInv

LEMMA PortsInvExact == PortsInv => PortsExact
<1> SUFFICES ASSUME PortsInv PROVE PortsExact
  OBVIOUS
<1>1. ControlExact
  <2>1. ASSUME cookieGiven, ~overlapped, \A c \in Conns : ~InNotify(c)
        PROVE  /\ \A c \in Up : slots[conn[c].cookie] = c /\ conn[c].proc = controller
               /\ \A i \in Slots : slots[i] # NoConn => slots[i] \in Up
               /\ (controller # NoClient) <=> (Up # {})
    <3>1. \A c \in Up : c \in Conns /\ conn[c].st = "up" /\ slots[conn[c].cookie] = c /\ conn[c].proc = controller
                        /\ conn[c].proc \in Clients
      BY <2>1 DEF PortsInv, PortsKept, Up
    <3>2. \A i \in Slots : slots[i] # NoConn => slots[i] \in Up
      BY <2>1 DEF PortsInv, PortsKept, PortsTypeOK, Up
    <3>3. controller # NoClient => Up # {}
      BY <2>1 DEF PortsInv, PortsKept, Up, InNotify
    <3> QED
      BY <3>1, <3>2, <3>3, PortsAssumption
  <2> QED
    BY <2>1 DEF ControlExact, PortsInv, PortsUncontrolled
<1>2. SlotInTable
  <2> SUFFICES ASSUME NEW t \in Callbacks, ~wrapped PROVE OwnSlot(call[t].seed) \in Slots
    BY DEF SlotInTable
  <2>1. call[t].seed \in Int /\ call[t].seed >= 0 /\ MaxConn \in Nat \ {0}
    BY PortsAssumption DEF PortsInv, SeedsInRange, PortsTypeOK
  <2>2. OwnSlot(call[t].seed) = call[t].seed % MaxConn
    BY <2>1 DEF OwnSlot, Remainder
  <2>3. call[t].seed % MaxConn \in 0 .. MaxConn - 1
    BY <2>1
  <2> QED
    BY <2>2, <2>3 DEF Slots
<1> QED
  BY <1>1, <1>2 DEF PortsExact, PortsInv

(* Unless two notify routines overlap, the table of ports and the controlling  *)
(* process are those of the connections, and a callback reads outside the      *)
(* table only once the event numbers have wrapped (WinIOIsolation_Filter.cpp,  *)
(* Communication.cpp).                                                         *)
THEOREM PortsAreExact == PortsSpec => []PortsExact
<1>1. PortsInv /\ [PortsNext]_portVars => PortsInv'
  BY PortsTypeStep, KeptStep, UncontrolledStep, SeedsStep DEF PortsInv
<1> QED
  BY <1>1, PortsInvInit, PortsInvExact, PTL DEF PortsSpec

-----------------------------------------------------------------------------
(* 3. The control codes.                                                     *)

USE DEF Handled, Privileged, Refuse, End, driver, filters, history

StatusKept == UNCHANGED << running, lastSet, repeated >>
MasksKept == UNCHANGED << inc, asked, confused >>

(* A step that is not about the status of the driver or the global filter: a  *)
(* refusal, a question, or a change of the other parts.                       *)
Elsewhere == StatusKept /\ MasksKept /\ ControllerStep

SetsStatus(p) == \E on \in BOOLEAN : cntl = p /\ DevIOCntlSetDriverStatus(p, on)
AddsMask(p) == \E m \in Masks, include \in BOOLEAN : cntl = p /\ DevIOCntlAddGlobalPolicy(p, m, include)
DelsMask(p) == \E m \in Masks, include \in BOOLEAN : cntl = p /\ DevIOCntlDelGlobalPolicy(p, m, include)
DropsMasks(p) ==
    /\ cntl = p /\ inc' = {} /\ asked' = {} /\ UNCHANGED confused
    /\ StatusKept /\ answer'.proc = p

-----------------------------------------------------------------------------
(* Every call is one of these, or happens elsewhere. *)
LEMMA CallKinds ==
  ASSUME NEW p \in Procs,
         \/ Control(p) \/ LibraryCall(p)
         \/ StubCode(p) \/ DevIOCntlGetGlobalPolicyCnt(p) \/ DevIOCntlRstProcessPolicy(p)
  PROVE  Elsewhere \/ SetsStatus(p) \/ AddsMask(p) \/ DelsMask(p) \/ DropsMasks(p)
<1> USE DEF Elsewhere, StatusKept, MasksKept, ControllerStep
<1>1. CASE SetDriverStatus(p)
  BY <1>1 DEF SetDriverStatus, SetsStatus
<1>2. CASE AddGlobalFilterMask(p)
  BY <1>2 DEF AddGlobalFilterMask, AddsMask
<1>3. CASE DelGlobalFilterMask(p)
  BY <1>3 DEF DelGlobalFilterMask, DelsMask
<1>4. CASE ResetGlobalFilter(p)
  BY <1>4 DEF ResetGlobalFilter, DropsMasks
<1>5. CASE GetDriverStatus(p)
  BY <1>5 DEF GetDriverStatus
<1>6. CASE GetGlobalFilterMaskCnt(p)
  BY <1>6 DEF GetGlobalFilterMaskCnt
<1>7. CASE AddProcessFilter(p)
  BY <1>7 DEF AddProcessFilter
<1>8. CASE DelProcessFilterByID(p)
  BY <1>8 DEF DelProcessFilterByID
<1>9. CASE DelProcessFilterByPID(p)
  <2>1. PICK pid \in Pids : IF cntl = p THEN DevIOCntlDelProcessPolicyPID(p, pid)
                                          ELSE Refuse(p, "DelProcessFilterByPID", "privilege")
    BY <1>9 DEF DelProcessFilterByPID
  <2>2. ASSUME cntl = p, DevIOCntlDelProcessPolicyPID(p, pid) PROVE Elsewhere
    <3>1. /\ UNCHANGED << running, inc, lastSet, repeated, asked, confused >>
          /\ \E status : answer' = [proc |-> p, fn |-> "DelProcessFilterByPID", status |-> status, wrote |-> FALSE]
      BY <2>2, Zenon DEF DevIOCntlDelProcessPolicyPID
    <3> QED
      BY <2>2, <3>1
  <2> QED
    BY <2>1, <2>2
<1>10. CASE DelProcessFilterByFilterMask(p)
  BY <1>10 DEF DelProcessFilterByFilterMask
<1>11. CASE ResetProcessFilter(p)
  BY <1>11 DEF ResetProcessFilter
<1>12. CASE \E fn \in ItemCalls : ProcessFilterItem(p, fn)
  BY <1>12 DEF ProcessFilterItem
<1>13. CASE GetFileType(p)
  BY <1>13 DEF GetFileType
<1>14. CASE SetFileSolutionMetaData(p)
  BY <1>14 DEF SetFileSolutionMetaData, Untouched
<1>15. CASE GetFileSolutionMetaData(p)
  BY <1>15 DEF GetFileSolutionMetaData, Untouched
<1>16. CASE NoDevice(p)
  BY <1>16 DEF NoDevice
<1>17. CASE Control(p)
  BY <1>17 DEF Control
<1>18. CASE StubCode(p)
  BY <1>18 DEF StubCode, DevIOCntlSetStubCode, DevIOCntlGetStubCode
<1>19. CASE DevIOCntlGetGlobalPolicyCnt(p)
  BY <1>19 DEF DevIOCntlGetGlobalPolicyCnt, Untouched
<1>20. CASE DevIOCntlRstProcessPolicy(p)
  BY <1>20 DEF DevIOCntlRstProcessPolicy
<1> QED
  BY <1>1, <1>2, <1>3, <1>4, <1>5, <1>6, <1>7, <1>8, <1>9, <1>10, <1>11, <1>12, <1>13, <1>14, <1>15, <1>16, <1>17, <1>18, <1>19, <1>20 DEF LibraryCall

LEMMA StepKinds ==
  ASSUME [Next]_vars
  PROVE  Elsewhere \/ \E p \in Procs : SetsStatus(p) \/ AddsMask(p) \/ DelsMask(p) \/ DropsMasks(p)
<1>1. CASE UNCHANGED vars
  BY <1>1 DEF vars, Elsewhere, StatusKept, MasksKept, ControllerStep
<1>2. CASE Next
  BY <1>2, CallKinds DEF Next
<1> QED
  BY <1>1, <1>2

-----------------------------------------------------------------------------
(* The counter of the driver's status is zero or one as long as no status was *)
(* asked for twice; that it is positive when it should be is not inductive.   *)
StatusInv ==
    /\ running \in Int /\ lastSet \in BOOLEAN /\ repeated \in BOOLEAN
    /\ ~repeated => running = IF lastSet THEN 1 ELSE 0

Inv == StatusInv /\ confused \in BOOLEAN /\ IncludedAsAsked

LEMMA InitInv == Init => Inv
<1> SUFFICES ASSUME Init PROVE Inv
  OBVIOUS
<1>1. StatusInv
  <2>1. running = 0 /\ lastSet \in BOOLEAN /\ ~lastSet /\ repeated \in BOOLEAN
    BY DEF Init
  <2> QED
    BY <2>1 DEF StatusInv
<1>2. confused \in BOOLEAN /\ IncludedAsAsked
  BY DEF Init, IncludedAsAsked
<1> QED
  BY <1>1, <1>2 DEF Inv

LEMMA SetsStatusKeeps == ASSUME Inv, NEW p \in Procs, SetsStatus(p) PROVE Inv'
<1>1. PICK on \in BOOLEAN : DevIOCntlSetDriverStatus(p, on)
  BY DEF SetsStatus
<1>2. MasksKept
  BY <1>1 DEF DevIOCntlSetDriverStatus, MasksKept
<1>3. /\ running' = IF on THEN running + 1 ELSE running - 1
      /\ lastSet' = on /\ repeated' = (repeated \/ on = (running > 0))
  BY <1>1 DEF DevIOCntlSetDriverStatus
<1>4. StatusInv'
  <2>1. running' \in Int /\ lastSet' \in BOOLEAN /\ repeated' \in BOOLEAN
    BY <1>3 DEF Inv, StatusInv
  <2>2. SUFFICES ASSUME ~repeated' PROVE running' = IF lastSet' THEN 1 ELSE 0
    BY <2>1 DEF StatusInv
  <2>3. ~repeated /\ (on <=> ~(running > 0))
    <3>1. ~(repeated \/ on = (running > 0)) /\ repeated \in BOOLEAN
      BY <1>3, <2>2 DEF Inv, StatusInv
    <3>2. (running > 0) \in BOOLEAN
      OBVIOUS
    <3> HIDE <1>3
    <3> DEFINE runs == running > 0
    <3>3. runs \in BOOLEAN /\ ~(repeated \/ on = runs)
      BY <3>1, <3>2
    <3> HIDE DEF runs
    <3>4. ~repeated /\ (on <=> ~runs)
      BY <3>3
    <3> QED
      BY <3>4 DEF runs
  <2>4. running = 0 \/ running = 1
    BY <2>3 DEF Inv, StatusInv
  <2>5. CASE on
    BY <1>3, <2>3, <2>4, <2>5
  <2>6. CASE ~on
    BY <1>3, <2>3, <2>4, <2>6
  <2> QED
    BY <2>5, <2>6
<1> QED
  BY <1>2, <1>4 DEF Inv, MasksKept, IncludedAsAsked

LEMMA MasksStepsKeep ==
  ASSUME Inv, NEW p \in Procs, AddsMask(p) \/ DelsMask(p) \/ DropsMasks(p)
  PROVE  Inv'
<1>1. StatusKept
  BY DEF AddsMask, DelsMask, DropsMasks, DevIOCntlAddGlobalPolicy, DevIOCntlDelGlobalPolicy, StatusKept
<1>2. StatusInv'
  BY <1>1 DEF Inv, StatusInv, StatusKept
<1>3. confused' \in BOOLEAN /\ IncludedAsAsked'
  <2>1. CASE DropsMasks(p)
    BY <2>1 DEF Inv, DropsMasks, IncludedAsAsked
  <2>2. CASE AddsMask(p)
    BY <2>2 DEF Inv, AddsMask, DevIOCntlAddGlobalPolicy, IncludedAsAsked
  <2>3. CASE DelsMask(p)
    <3>1. PICK m \in Masks, include \in BOOLEAN : DevIOCntlDelGlobalPolicy(p, m, include)
      BY <2>3 DEF DelsMask
    <3>2. /\ inc' = inc \ {m} /\ asked' = IF include THEN asked \ {m} ELSE asked
          /\ confused' = (confused \/ (~include /\ m \in inc))
      BY <3>1 DEF DevIOCntlDelGlobalPolicy
    <3>3. confused' \in BOOLEAN /\ (confused' <=> confused \/ (~include /\ m \in inc))
      BY <3>2 DEF Inv
    <3>4. CASE include
      BY <3>2, <3>3, <3>4 DEF Inv, IncludedAsAsked
    <3>5. CASE ~include
      BY <3>2, <3>3, <3>5 DEF Inv, IncludedAsAsked
    <3> QED
      BY <3>4, <3>5
  <2> QED
    BY <2>1, <2>2, <2>3
<1> QED
  BY <1>2, <1>3 DEF Inv

LEMMA ElsewhereKeeps == ASSUME Inv, Elsewhere PROVE Inv'
  BY DEF Inv, StatusInv, IncludedAsAsked, Elsewhere, StatusKept, MasksKept

LEMMA Invariance == Spec => []Inv
<1>1. Inv /\ [Next]_vars => Inv'
  BY StepKinds, SetsStatusKeeps, MasksStepsKeep, ElsewhereKeeps
<1> QED
  BY <1>1, InitInv, PTL DEF Spec

(* The driver runs when that was the last status asked for, until a status is  *)
(* asked for twice, and the included masks are those asked for and not removed *)
(* since, unless one was removed as an excluded one (deviceCntl.cpp).          *)
THEOREM DoesAsAsked == Spec => []AsAsked
<1>1. Inv => AsAsked
  <2> SUFFICES ASSUME Inv PROVE StatusIsLatest /\ IncludedAsAsked
    BY DEF AsAsked
  <2>1. ~repeated => (running > 0) = lastSet
    <3>1. SUFFICES ASSUME ~repeated PROVE (running > 0) = lastSet
      OBVIOUS
    <3>2. lastSet \in BOOLEAN /\ running = IF lastSet THEN 1 ELSE 0
      BY <3>1 DEF Inv, StatusInv
    <3> QED
      BY <3>2
  <2> QED
    BY <2>1 DEF Inv, StatusIsLatest
<1> QED
  BY <1>1, Invariance, PTL

(* Whatever a process sends, only a call of the controlling one changes the   *)
(* driver, or crashes it (the privilege test of every handler).               *)
THEOREM ControllerAlone == Spec => OnlyControllerChanges
<1>1. [Next]_vars => [ControllerStep]_vars
  <2> SUFFICES ASSUME [Next]_vars PROVE ControllerStep
    OBVIOUS
  <2>1. CASE Elsewhere
    BY <2>1 DEF Elsewhere
  <2>2. CASE \E p \in Procs : SetsStatus(p) \/ AddsMask(p) \/ DelsMask(p) \/ DropsMasks(p)
    BY <2>2 DEF SetsStatus, AddsMask, DelsMask, DropsMasks, DevIOCntlSetDriverStatus,
                DevIOCntlAddGlobalPolicy, DevIOCntlDelGlobalPolicy, ControllerStep
  <2> QED
    BY <2>1, <2>2, StepKinds
<1> QED
  BY <1>1, PTL DEF Spec, OnlyControllerChanges

-----------------------------------------------------------------------------
(* 4. The policies in force and the decisions made from them.                *)

-----------------------------------------------------------------------------
(* Lists without some of their entries. *)

\* How many numbers of a set there are up to one of them.
Upto(K, i) == {j \in K : j <= i}

LEMMA UptoCounts ==
  ASSUME NEW K \in SUBSET Nat, IsFiniteSet(K), NEW i \in K
  PROVE  IsFiniteSet(Upto(K, i)) /\ Cardinality(Upto(K, i)) \in 1 .. Cardinality(K)
<1>1. Upto(K, i) \in SUBSET K /\ Upto(K, i) # {}
  BY DEF Upto
<1>2. IsFiniteSet(Upto(K, i)) /\ Cardinality(Upto(K, i)) <= Cardinality(K)
  BY <1>1, FS_Subset
<1>3. Cardinality(Upto(K, i)) \in Nat /\ Cardinality(Upto(K, i)) # 0 /\ Cardinality(K) \in Nat
  BY <1>1, <1>2, FS_CardinalityType, FS_EmptySet
<1> QED
  BY ONLY <1>2, <1>3

\* The n-th of a finite set of numbers is one that has n of them up to itself.
LEMMA NthOfSet ==
  ASSUME NEW K \in SUBSET Nat, IsFiniteSet(K)
  PROVE  /\ Cardinality(K) \in Nat
         /\ \A n \in 1 .. Cardinality(K) : \E i \in K : Cardinality(Upto(K, i)) = n
<1> DEFINE rank == [i \in K |-> Cardinality(Upto(K, i))]
<1>1. Cardinality(K) \in Nat
  BY FS_CardinalityType
<1>2. ASSUME NEW i \in K, NEW j \in K, i < j PROVE Cardinality(Upto(K, i)) # Cardinality(Upto(K, j))
  <2>1. Upto(K, i) \in SUBSET Upto(K, j) /\ j \in Upto(K, j) /\ j \notin Upto(K, i)
    <3>1. i \in Nat /\ j \in Nat /\ j <= j /\ ~(j <= i)
      BY <1>2
    <3>2. ASSUME NEW k \in K, k <= i PROVE k <= j
      <4>1. k \in Nat
        OBVIOUS
      <4> QED
        BY ONLY <1>2, <3>1, <3>2, <4>1
    <3> QED
      BY <3>1, <3>2 DEF Upto
  <2>2. IsFiniteSet(Upto(K, j))
    BY UptoCounts
  <2>3. Cardinality(Upto(K, i)) = Cardinality(Upto(K, j)) => Upto(K, i) = Upto(K, j)
    BY <2>1, <2>2, FS_Subset
  <2> QED
    BY ONLY <2>1, <2>3
<1>3. ASSUME NEW i \in K, NEW j \in K, i # j PROVE Cardinality(Upto(K, i)) # Cardinality(Upto(K, j))
  <2>1. i < j \/ j < i
    BY <1>3
  <2>2. CASE i < j
    BY <1>2, <2>2
  <2>3. CASE j < i
    BY <1>2, <2>3
  <2> QED
    BY <2>1, <2>2, <2>3
<1>4. rank \in [K -> 1 .. Cardinality(K)]
  BY UptoCounts
<1>5. \A i \in K : rank[i] = Cardinality(Upto(K, i))
  OBVIOUS
<1> HIDE DEF rank
<1>6. rank \in Injection(K, 1 .. Cardinality(K))
  BY <1>3, <1>4, <1>5 DEF Injection, IsInjective
<1>7. IsFiniteSet(1 .. Cardinality(K)) /\ Cardinality(1 .. Cardinality(K)) = Cardinality(K)
  BY <1>1, FS_Interval
<1>8. rank \in Surjection(K, 1 .. Cardinality(K))
  BY <1>6, <1>7, FS_Injection
<1>9. ASSUME NEW n \in 1 .. Cardinality(K) PROVE \E i \in K : Cardinality(Upto(K, i)) = n
  BY <1>5, <1>8 DEF Surjection
<1> QED
  BY <1>1, <1>9

\* Where the n-th entry that stays comes from.
Stays(s, out) == DOMAIN s \ out
From(s, out, n) == CHOOSE i \in Stays(s, out) : Cardinality(Upto(Stays(s, out), i)) = n

LEMMA KeptFrom ==
  ASSUME NEW S, NEW s \in Seq(S), NEW out
  PROVE  /\ Kept(s, out) \in Seq(S)
         /\ Cardinality(Stays(s, out)) \in Nat
         /\ Kept(s, out) = [n \in 1 .. Cardinality(Stays(s, out)) |-> s[From(s, out, n)]]
         /\ \A n \in 1 .. Cardinality(Stays(s, out)) : From(s, out, n) \in 1 .. Len(s)
<1>1. DOMAIN s = 1 .. Len(s) /\ Len(s) \in Nat
  OBVIOUS
<1>2. Stays(s, out) \in SUBSET Nat /\ Stays(s, out) \in SUBSET (1 .. Len(s))
  BY <1>1 DEF Stays
<1>3. IsFiniteSet(1 .. Len(s))
  BY <1>1, FS_Interval
<1>4. IsFiniteSet(Stays(s, out))
  BY <1>2, <1>3, FS_Subset
<1>5. /\ Cardinality(Stays(s, out)) \in Nat
      /\ \A n \in 1 .. Cardinality(Stays(s, out)) :
            \E i \in Stays(s, out) : Cardinality(Upto(Stays(s, out), i)) = n
  BY <1>2, <1>4, NthOfSet
<1>6. \A n \in 1 .. Cardinality(Stays(s, out)) : From(s, out, n) \in 1 .. Len(s)
  BY <1>2, <1>5 DEF From
<1>7. Kept(s, out) = [n \in 1 .. Cardinality(Stays(s, out)) |-> s[From(s, out, n)]]
  BY DEF Kept, From, Stays, Upto
<1>8. \A n \in 1 .. Cardinality(Stays(s, out)) : s[From(s, out, n)] \in S
  BY <1>6
<1>9. Kept(s, out) \in Seq(S)
  BY <1>5, <1>7, <1>8
<1> QED
  BY <1>5, <1>6, <1>7, <1>9

\* A function on 1 .. n is a list of n entries.
LEMMA ListOf ==
  ASSUME NEW S, NEW n \in Nat, NEW f, f = [i \in 1 .. n |-> f[i]], \A i \in 1 .. n : f[i] \in S
  PROVE  f \in Seq(S) /\ Len(f) = n /\ DOMAIN f = 1 .. n
<1>1. f \in [1 .. n -> S]
  OBVIOUS
<1> QED
  BY <1>1

Joined(a, s, z) ==
    /\ \A k \in 1 .. Len(s) : k \in DOMAIN a /\ a[k] = s[k]
    /\ \A k \in 1 .. Len(z) : Len(s) + k \in DOMAIN a /\ a[Len(s) + k] = z[k]

LEMMA JoinedAt ==
  ASSUME NEW S, NEW s \in Seq(S), NEW z \in Seq(S)
  PROVE  Joined(s \o z, s, z)
<1>1. Len(s) \in Nat /\ Len(z) \in Nat
  OBVIOUS
<1>2. /\ DOMAIN (s \o z) = 1 .. Len(s) + Len(z)
      /\ \A i \in 1 .. Len(s) + Len(z) : (s \o z)[i] = IF i <= Len(s) THEN s[i] ELSE z[i - Len(s)]
  <2>1. /\ s \o z \in Seq(S) /\ Len(s \o z) = Len(s) + Len(z)
        /\ \A i \in 1 .. Len(s) + Len(z) : (s \o z)[i] = IF i <= Len(s) THEN s[i] ELSE z[i - Len(s)]
    BY ConcatProperties, Zenon
  <2>2. DOMAIN (s \o z) = 1 .. Len(s \o z)
    BY <2>1
  <2> QED
    BY <2>1, <2>2
<1>3. ASSUME NEW k \in 1 .. Len(s) PROVE k \in 1 .. Len(s) + Len(z) /\ (s \o z)[k] = s[k]
  <2>1. k \in 1 .. Len(s) + Len(z) /\ k <= Len(s)
    BY <1>1
  <2> QED
    BY <1>2, <2>1
<1>4. ASSUME NEW k \in 1 .. Len(z)
      PROVE  Len(s) + k \in 1 .. Len(s) + Len(z) /\ (s \o z)[Len(s) + k] = z[k]
  <2>1. /\ Len(s) + k \in 1 .. Len(s) + Len(z) /\ ~(Len(s) + k <= Len(s))
        /\ (Len(s) + k) - Len(s) = k
    BY <1>1
  <2> QED
    BY <1>2, <2>1
<1> QED
  BY <1>2, <1>3, <1>4, Zenon DEF Joined

LEMMA AppendedAt ==
  ASSUME NEW S, NEW s \in Seq(S), NEW x \in S
  PROVE  /\ Append(s, x) \in Seq(S) /\ Len(s) \in Nat /\ Len(Append(s, x)) = Len(s) + 1
         /\ Append(s, x)[Len(s) + 1] = x
         /\ \A k \in 1 .. Len(s) : Append(s, x)[k] = s[k]
  OBVIOUS

-----------------------------------------------------------------------------
(* What is kept of a list when its entries are alike. *)

SameFiles(m1, m2) == Len(m1) = Len(m2) /\ \A k \in 1 .. Len(m1) : m1[k].files = m2[k].files
Alike(a, b) == a.sel = b.sel /\ SameFiles(a.inc, b.inc) /\ SameFiles(a.exc, b.exc)
SameLists(s, z) == Len(s) = Len(z) /\ \A i \in 1 .. Len(s) : Alike(s[i], z[i])

LEMMA SameEnd ==
  ASSUME NEW m \in Nat, NEW n \in Nat, 1 .. m = 1 .. n
  PROVE  m = n
<1>1. \A k \in Int : (1 <= k /\ k <= m) <=> (1 <= k /\ k <= n)
  <2>1. \A k : k \in 1 .. m <=> k \in 1 .. n
    OBVIOUS
  <2> QED
    BY <2>1
<1>2. m >= 1 => m <= n
  BY <1>1
<1>3. n >= 1 => n <= m
  BY <1>1
<1> QED
  BY ONLY <1>2, <1>3, m \in Nat, n \in Nat

LEMMA FilesSame ==
  ASSUME NEW m1 \in Seq(Mask), NEW m2 \in Seq(Mask)
  PROVE  FilesOf(m1) = FilesOf(m2) <=> SameFiles(m1, m2)
<1>1. /\ DOMAIN m1 = 1 .. Len(m1) /\ Len(m1) \in Nat
      /\ DOMAIN m2 = 1 .. Len(m2) /\ Len(m2) \in Nat
  OBVIOUS
<1>2. /\ FilesOf(m1) = [k \in 1 .. Len(m1) |-> m1[k].files]
      /\ FilesOf(m2) = [k \in 1 .. Len(m2) |-> m2[k].files]
  BY <1>1 DEF FilesOf
<1>3. SameFiles(m1, m2) => FilesOf(m1) = FilesOf(m2)
  BY <1>2 DEF SameFiles
<1>4. ASSUME FilesOf(m1) = FilesOf(m2) PROVE SameFiles(m1, m2)
  <2>1. 1 .. Len(m1) = 1 .. Len(m2)
    BY <1>2, <1>4
  <2>2. Len(m1) = Len(m2)
    BY <1>1, <2>1, SameEnd
  <2>3. ASSUME NEW k \in 1 .. Len(m1) PROVE m1[k].files = m2[k].files
    <3>1. FilesOf(m1)[k] = m1[k].files /\ FilesOf(m2)[k] = m2[k].files
      BY <1>2, <2>2
    <3> QED
      BY <1>4, <3>1
  <2> QED
    BY <2>2, <2>3 DEF SameFiles
<1> QED
  BY <1>3, <1>4

LEMMA OutlineSame ==
  ASSUME NEW s \in Seq(Entry), NEW z \in Seq(Entry)
  PROVE  Outline(s) = Outline(z) <=> SameLists(s, z)
<1> DEFINE O(e) == [sel |-> e.sel, inc |-> FilesOf(e.inc), exc |-> FilesOf(e.exc)]
<1>1. /\ DOMAIN s = 1 .. Len(s) /\ Len(s) \in Nat
      /\ DOMAIN z = 1 .. Len(z) /\ Len(z) \in Nat
  OBVIOUS
<1>2. /\ Outline(s) = [i \in 1 .. Len(s) |-> O(s[i])]
      /\ Outline(z) = [i \in 1 .. Len(z) |-> O(z[i])]
  BY <1>1 DEF Outline
<1>3. ASSUME NEW a \in Entry, NEW b \in Entry PROVE O(a) = O(b) <=> Alike(a, b)
  <2>1. /\ a.inc \in Seq(Mask) /\ a.exc \in Seq(Mask)
        /\ b.inc \in Seq(Mask) /\ b.exc \in Seq(Mask)
    BY DEF Entry
  <2>2. /\ FilesOf(a.inc) = FilesOf(b.inc) <=> SameFiles(a.inc, b.inc)
        /\ FilesOf(a.exc) = FilesOf(b.exc) <=> SameFiles(a.exc, b.exc)
    BY <2>1, FilesSame
  <2>3. O(a) = O(b) <=> /\ a.sel = b.sel /\ FilesOf(a.inc) = FilesOf(b.inc)
                        /\ FilesOf(a.exc) = FilesOf(b.exc)
    OBVIOUS
  <2> QED
    BY <2>2, <2>3 DEF Alike
<1>4. \A i \in 1 .. Len(s) : s[i] \in Entry
  BY <1>1
<1>5. \A i \in 1 .. Len(z) : z[i] \in Entry
  BY <1>1
<1> HIDE DEF O
<1>6. ASSUME SameLists(s, z) PROVE Outline(s) = Outline(z)
  <2>1. Len(s) = Len(z) /\ \A i \in 1 .. Len(s) : O(s[i]) = O(z[i])
    BY <1>3, <1>4, <1>5, <1>6 DEF SameLists
  <2> QED
    BY <1>2, <2>1
<1>7. ASSUME Outline(s) = Outline(z) PROVE SameLists(s, z)
  <2>1. 1 .. Len(s) = 1 .. Len(z)
    BY <1>2, <1>7
  <2>2. Len(s) = Len(z)
    BY <1>1, <2>1, SameEnd
  <2>3. ASSUME NEW i \in 1 .. Len(s) PROVE Alike(s[i], z[i])
    <3>1. Outline(s)[i] = O(s[i]) /\ Outline(z)[i] = O(z[i])
      BY <1>2, <2>2
    <3>2. s[i] \in Entry /\ z[i] \in Entry
      BY <1>4, <1>5, <2>2
    <3> QED
      BY <1>3, <1>7, <3>1, <3>2
  <2> QED
    BY <2>2, <2>3 DEF SameLists
<1> QED
  BY <1>6, <1>7

\* The entries of a and b stand at the same places of s and z.
Together(a, b, s, z) ==
    /\ Len(a) = Len(b)
    /\ \A n \in 1 .. Len(a) : \E i \in 1 .. Len(s) : a[n] = s[i] /\ b[n] = z[i]

\* An edit of two lists at the same places.
LEMMA KeptAlike ==
  ASSUME NEW S, NEW s \in Seq(S), NEW z \in Seq(S), Len(s) = Len(z), NEW out
  PROVE  Together(Kept(s, out), Kept(z, out), s, z)
<1>1. Stays(s, out) = Stays(z, out)
  BY DEF Stays
<1>2. \A n : From(s, out, n) = From(z, out, n)
  BY <1>1 DEF From
<1>3. /\ Cardinality(Stays(s, out)) \in Nat
      /\ Kept(s, out) = [n \in 1 .. Cardinality(Stays(s, out)) |-> s[From(s, out, n)]]
      /\ Kept(z, out) = [n \in 1 .. Cardinality(Stays(s, out)) |-> z[From(s, out, n)]]
      /\ \A n \in 1 .. Cardinality(Stays(s, out)) : From(s, out, n) \in 1 .. Len(s)
  BY <1>1, <1>2, KeptFrom
<1>4. /\ Len(Kept(s, out)) = Cardinality(Stays(s, out))
      /\ Len(Kept(z, out)) = Cardinality(Stays(s, out))
  BY <1>3, KeptFrom
<1>5. ASSUME NEW n \in 1 .. Len(Kept(s, out))
      PROVE  \E i \in 1 .. Len(s) : Kept(s, out)[n] = s[i] /\ Kept(z, out)[n] = z[i]
  <2>1. Kept(s, out)[n] = s[From(s, out, n)] /\ Kept(z, out)[n] = z[From(s, out, n)]
    BY <1>3, <1>4
  <2>2. From(s, out, n) \in 1 .. Len(s)
    BY <1>3, <1>4
  <2> QED
    BY <2>1, <2>2
<1> QED
  BY <1>4, <1>5 DEF Together
-----------------------------------------------------------------------------
(* The edits. *)

\* The kinds of event of the masks of a list, and of all its entries.
TypesOf(ms, T) == \A k \in 1 .. Len(ms) : ms[k].types \in T
TypesIn(s, T) == \A i \in 1 .. Len(s) : TypesOf(s[i].inc, T) /\ TypesOf(s[i].exc, T)

\* What a change of the entries asks for.
ItemReq(r) ==
    \/ r.op = "Add" /\ r.entry \in Entry /\ r.entry.inc = <<>> /\ r.entry.exc = <<>>
    \/ r.op = "AddEntry" /\ r.include \in BOOLEAN /\ r.mask \in Mask /\ r.mask.types = Wanted
    \/ r.op = "RemoveEntry" /\ r.include \in BOOLEAN
    \/ r.op \in {"RemoveId", "RemovePid", "RemoveMask"}

\* What a change of an entry makes of the masks it is about, and of the entry.
MasksAfter(ms, child, r) == IF r.op = "AddEntry" THEN Append(ms, r.mask) ELSE Kept(ms, {child})
EntryAfter(e, child, r) == [e EXCEPT ![Side(r.include)] = MasksAfter(@, child, r)]

LEMMA MasksAfterAlike ==
  ASSUME NEW m1 \in Seq(Mask), NEW m2 \in Seq(Mask), SameFiles(m1, m2),
         NEW child, NEW r, r.op = "AddEntry" => r.mask \in Mask
  PROVE  SameFiles(MasksAfter(m1, child, r), MasksAfter(m2, child, r))
<1>1. CASE r.op = "AddEntry"
  <2>1. MasksAfter(m1, child, r) = Append(m1, r.mask) /\ MasksAfter(m2, child, r) = Append(m2, r.mask)
    BY <1>1 DEF MasksAfter
  <2>2. Len(Append(m1, r.mask)) = Len(m1) + 1 /\ Len(Append(m2, r.mask)) = Len(m1) + 1
    BY <1>1 DEF SameFiles
  <2>3. ASSUME NEW k \in 1 .. Len(m1) + 1
        PROVE  Append(m1, r.mask)[k].files = Append(m2, r.mask)[k].files
    <3>1. Len(m1) = Len(m2) /\ Len(m1) \in Nat /\ r.mask \in Mask
      BY <1>1 DEF SameFiles
    <3>2. /\ Append(m1, r.mask)[Len(m1) + 1] = r.mask
          /\ Append(m2, r.mask)[Len(m1) + 1] = r.mask
          /\ \A j \in 1 .. Len(m1) : Append(m1, r.mask)[j] = m1[j] /\ Append(m2, r.mask)[j] = m2[j]
      BY <3>1, AppendedAt
    <3>3. k = Len(m1) + 1 \/ k \in 1 .. Len(m1)
      BY <3>1
    <3> QED
      BY <3>2, <3>3 DEF SameFiles
  <2> QED
    BY <2>1, <2>2, <2>3 DEF SameFiles
<1>2. CASE r.op # "AddEntry"
  <2>1. MasksAfter(m1, child, r) = Kept(m1, {child}) /\ MasksAfter(m2, child, r) = Kept(m2, {child})
    BY <1>2 DEF MasksAfter
  <2>2. /\ Len(Kept(m1, {child})) = Len(Kept(m2, {child}))
        /\ \A n \in 1 .. Len(Kept(m1, {child})) : \E i \in 1 .. Len(m1) :
              Kept(m1, {child})[n] = m1[i] /\ Kept(m2, {child})[n] = m2[i]
    <3>1. Len(m1) = Len(m2)
      BY DEF SameFiles
    <3>2. Together(Kept(m1, {child}), Kept(m2, {child}), m1, m2)
      BY <3>1, KeptAlike
    <3> QED
      BY <3>2 DEF Together
  <2>3. \A n \in 1 .. Len(Kept(m1, {child})) : Kept(m1, {child})[n].files = Kept(m2, {child})[n].files
    BY <2>2 DEF SameFiles
  <2> QED
    BY <2>1, <2>2, <2>3 DEF SameFiles
<1> QED
  BY <1>1, <1>2

LEMMA MasksAfterTyped ==
  ASSUME NEW ms \in Seq(Mask), NEW child, NEW r, r.op = "AddEntry" => r.mask \in Mask,
         NEW T, TypesOf(ms, T), r.op = "AddEntry" => r.mask.types \in T
  PROVE  MasksAfter(ms, child, r) \in Seq(Mask) /\ TypesOf(MasksAfter(ms, child, r), T)
<1>1. CASE r.op = "AddEntry"
  <2>1. MasksAfter(ms, child, r) = Append(ms, r.mask)
    BY <1>1 DEF MasksAfter
  <2>2. Len(Append(ms, r.mask)) = Len(ms) + 1 /\ Append(ms, r.mask) \in Seq(Mask)
    BY <1>1
  <2>3. ASSUME NEW k \in 1 .. Len(ms) + 1 PROVE Append(ms, r.mask)[k].types \in T
    BY <1>1 DEF TypesOf
  <2> QED
    BY <2>1, <2>2, <2>3 DEF TypesOf
<1>2. CASE r.op # "AddEntry"
  <2>1. MasksAfter(ms, child, r) = Kept(ms, {child})
    BY <1>2 DEF MasksAfter
  <2>2. \A n \in 1 .. Len(Kept(ms, {child})) : \E i \in 1 .. Len(ms) : Kept(ms, {child})[n] = ms[i]
    BY KeptAlike DEF Together
  <2>3. Kept(ms, {child}) \in Seq(Mask)
    BY KeptFrom
  <2> QED
    BY <2>1, <2>2, <2>3 DEF TypesOf
<1> QED
  BY <1>1, <1>2

LEMMA EntryAfterAlike ==
  ASSUME NEW a \in Entry, NEW b \in Entry, Alike(a, b), NEW child, NEW r,
         r.include \in BOOLEAN, r.op = "AddEntry" => r.mask \in Mask
  PROVE  Alike(EntryAfter(a, child, r), EntryAfter(b, child, r))
<1>1. /\ a.inc \in Seq(Mask) /\ a.exc \in Seq(Mask)
      /\ b.inc \in Seq(Mask) /\ b.exc \in Seq(Mask)
  BY DEF Entry
<1>2. CASE r.include
  <2>1. /\ EntryAfter(a, child, r) = [a EXCEPT !.inc = MasksAfter(@, child, r)]
        /\ EntryAfter(b, child, r) = [b EXCEPT !.inc = MasksAfter(@, child, r)]
    BY <1>2 DEF EntryAfter, Side
  <2>2. SameFiles(MasksAfter(a.inc, child, r), MasksAfter(b.inc, child, r))
    BY <1>1, MasksAfterAlike DEF Alike
  <2> QED
    BY <2>1, <2>2 DEF Alike, Entry
<1>3. CASE ~r.include
  <2>1. /\ EntryAfter(a, child, r) = [a EXCEPT !.exc = MasksAfter(@, child, r)]
        /\ EntryAfter(b, child, r) = [b EXCEPT !.exc = MasksAfter(@, child, r)]
    BY <1>3 DEF EntryAfter, Side
  <2>2. SameFiles(MasksAfter(a.exc, child, r), MasksAfter(b.exc, child, r))
    BY <1>1, MasksAfterAlike DEF Alike
  <2> QED
    BY <2>1, <2>2 DEF Alike, Entry
<1> QED
  BY <1>2, <1>3

LEMMA EntryAfterTyped ==
  ASSUME NEW e \in Entry, NEW child, NEW r, r.include \in BOOLEAN,
         r.op = "AddEntry" => r.mask \in Mask,
         NEW T, TypesOf(e.inc, T), TypesOf(e.exc, T), r.op = "AddEntry" => r.mask.types \in T
  PROVE  /\ EntryAfter(e, child, r) \in Entry
         /\ TypesOf(EntryAfter(e, child, r).inc, T) /\ TypesOf(EntryAfter(e, child, r).exc, T)
<1>1. e.inc \in Seq(Mask) /\ e.exc \in Seq(Mask)
  BY DEF Entry
<1>2. CASE r.include
  <2>1. EntryAfter(e, child, r) = [e EXCEPT !.inc = MasksAfter(@, child, r)]
    BY <1>2 DEF EntryAfter, Side
  <2>2. MasksAfter(e.inc, child, r) \in Seq(Mask) /\ TypesOf(MasksAfter(e.inc, child, r), T)
    BY <1>1, MasksAfterTyped
  <2> QED
    BY <2>1, <2>2 DEF Entry
<1>3. CASE ~r.include
  <2>1. EntryAfter(e, child, r) = [e EXCEPT !.exc = MasksAfter(@, child, r)]
    BY <1>3 DEF EntryAfter, Side
  <2>2. MasksAfter(e.exc, child, r) \in Seq(Mask) /\ TypesOf(MasksAfter(e.exc, child, r), T)
    BY <1>1, MasksAfterTyped
  <2> QED
    BY <2>1, <2>2 DEF Entry
<1> QED
  BY <1>2, <1>3

\* The three ways a list is edited.
EditKinds(s, spots, child, r) ==
    \/ r.op = "Add" /\ r.entry \in Entry /\ r.entry.inc = <<>> /\ r.entry.exc = <<>>
       /\ Edited(s, spots, child, r) = Append(s, r.entry)
    \/ r.op \in {"AddEntry", "RemoveEntry"} /\ r.include \in BOOLEAN
       /\ (r.op = "AddEntry" => r.mask \in Mask /\ r.mask.types = Wanted)
       /\ Edited(s, spots, child, r) =
             [i \in 1 .. Len(s) |-> IF i \in spots THEN EntryAfter(s[i], child, r) ELSE s[i]]
    \/ r.op \in {"RemoveId", "RemovePid", "RemoveMask"} /\ Edited(s, spots, child, r) = Kept(s, spots)

LEMMA EditIs ==
  ASSUME NEW s \in Seq(Entry), NEW spots, NEW child, NEW r, ItemReq(r)
  PROVE  EditKinds(s, spots, child, r)
<1>1. DOMAIN s = 1 .. Len(s)
  OBVIOUS
<1>2. CASE r.op = "Add"
  BY <1>2 DEF ItemReq, EditKinds, Edited
<1>3. CASE r.op = "AddEntry"
  <2>1. Edited(s, spots, child, r) = [i \in 1 .. Len(s) |-> IF i \in spots THEN EntryAfter(s[i], child, r) ELSE s[i]]
    BY <1>1, <1>3 DEF Edited, EntryAfter, MasksAfter
  <2> QED
    BY <1>3, <2>1 DEF ItemReq, EditKinds
<1>4. CASE r.op = "RemoveEntry"
  <2>1. Edited(s, spots, child, r) = [i \in 1 .. Len(s) |-> IF i \in spots THEN EntryAfter(s[i], child, r) ELSE s[i]]
    BY <1>1, <1>4 DEF Edited, EntryAfter, MasksAfter
  <2> QED
    BY <1>4, <2>1 DEF ItemReq, EditKinds
<1>5. CASE r.op \in {"RemoveId", "RemovePid", "RemoveMask"}
  BY <1>5 DEF ItemReq, EditKinds, Edited
<1> QED
  BY <1>2, <1>3, <1>4, <1>5 DEF ItemReq

LEMMA EditTyped ==
  ASSUME NEW s \in Seq(Entry), NEW spots, NEW child, NEW r, ItemReq(r),
         NEW T, TypesIn(s, T), r.op = "AddEntry" => Wanted \in T
  PROVE  Edited(s, spots, child, r) \in Seq(Entry) /\ TypesIn(Edited(s, spots, child, r), T)
<1> DEFINE E == Edited(s, spots, child, r)
<1>1. EditKinds(s, spots, child, r)
  BY EditIs
<1>2. CASE r.op = "Add"
  <2>1. E = Append(s, r.entry) /\ r.entry \in Entry /\ r.entry.inc = <<>> /\ r.entry.exc = <<>>
    BY <1>1, <1>2 DEF EditKinds
  <2> HIDE DEF E
  <2>2. E \in Seq(Entry) /\ Len(E) = Len(s) + 1
    BY <2>1
  <2>3. TypesOf(r.entry.inc, T) /\ TypesOf(r.entry.exc, T)
    BY <2>1 DEF TypesOf
  <2>4. ASSUME NEW i \in 1 .. Len(E) PROVE TypesOf(E[i].inc, T) /\ TypesOf(E[i].exc, T)
    <3>1. E[i] = r.entry \/ (i \in 1 .. Len(s) /\ E[i] = s[i])
      BY <2>1, <2>2
    <3> QED
      BY <2>3, <3>1 DEF TypesIn
  <2> QED
    BY <2>2, <2>4 DEF TypesIn, E
<1>3. CASE r.op \in {"AddEntry", "RemoveEntry"}
  <2>1. /\ E = [i \in 1 .. Len(s) |-> IF i \in spots THEN EntryAfter(s[i], child, r) ELSE s[i]]
        /\ r.include \in BOOLEAN /\ (r.op = "AddEntry" => r.mask \in Mask /\ r.mask.types \in T)
    BY <1>1, <1>3 DEF EditKinds
  <2>2. Len(s) \in Nat
    OBVIOUS
  <2> HIDE DEF E
  <2>3. ASSUME NEW i \in 1 .. Len(s)
        PROVE  E[i] \in Entry /\ TypesOf(E[i].inc, T) /\ TypesOf(E[i].exc, T)
    <3>1. s[i] \in Entry /\ TypesOf(s[i].inc, T) /\ TypesOf(s[i].exc, T)
      BY DEF TypesIn
    <3>2. /\ EntryAfter(s[i], child, r) \in Entry
          /\ TypesOf(EntryAfter(s[i], child, r).inc, T) /\ TypesOf(EntryAfter(s[i], child, r).exc, T)
      BY <2>1, <3>1, EntryAfterTyped
    <3>3. E[i] = EntryAfter(s[i], child, r) \/ E[i] = s[i]
      BY <2>1
    <3> QED
      BY <3>1, <3>2, <3>3
  <2>4. E \in Seq(Entry) /\ Len(E) = Len(s)
    BY <2>1, <2>2, <2>3
  <2> QED
    BY <2>3, <2>4 DEF TypesIn, E
<1>4. CASE r.op \in {"RemoveId", "RemovePid", "RemoveMask"}
  <2>1. E = Kept(s, spots)
    BY <1>1, <1>4 DEF EditKinds
  <2> HIDE DEF E
  <2>2. E \in Seq(Entry)
    BY <2>1, KeptFrom
  <2>3. \A n \in 1 .. Len(E) : \E i \in 1 .. Len(s) : E[n] = s[i]
    BY <2>1, KeptAlike DEF Together
  <2>4. TypesIn(E, T)
    BY <2>3 DEF TypesIn
  <2> QED
    BY <2>2, <2>4 DEF E
<1> QED
  BY <1>2, <1>3, <1>4 DEF ItemReq

LEMMA EditAlike ==
  ASSUME NEW s \in Seq(Entry), NEW z \in Seq(Entry), SameLists(s, z),
         NEW spots, NEW child, NEW r, ItemReq(r)
  PROVE  SameLists(Edited(s, spots, child, r), Edited(z, spots, child, r))
<1> DEFINE E == Edited(s, spots, child, r)
           F == Edited(z, spots, child, r)
<1>1. EditKinds(s, spots, child, r) /\ EditKinds(z, spots, child, r)
  BY EditIs
<1>2. Len(s) = Len(z) /\ Len(s) \in Nat /\ \A i \in 1 .. Len(s) : s[i] \in Entry /\ z[i] \in Entry /\ Alike(s[i], z[i])
  BY DEF SameLists
<1>3. CASE r.op = "Add"
  <2>1. E = Append(s, r.entry) /\ F = Append(z, r.entry) /\ r.entry \in Entry
    BY <1>1, <1>3 DEF EditKinds
  <2> HIDE DEF E, F
  <2>2. Len(E) = Len(s) + 1 /\ Len(F) = Len(s) + 1
    BY <1>2, <2>1
  <2>3. Alike(r.entry, r.entry)
    BY DEF Alike, SameFiles
  <2>4. ASSUME NEW i \in 1 .. Len(E) PROVE Alike(E[i], F[i])
    <3>1. (E[i] = r.entry /\ F[i] = r.entry) \/ (i \in 1 .. Len(s) /\ E[i] = s[i] /\ F[i] = z[i])
      BY <1>2, <2>1, <2>2
    <3> QED
      BY <1>2, <2>3, <3>1
  <2> QED
    BY <2>2, <2>4 DEF SameLists, E, F
<1>4. CASE r.op \in {"AddEntry", "RemoveEntry"}
  <2>1. /\ E = [i \in 1 .. Len(s) |-> IF i \in spots THEN EntryAfter(s[i], child, r) ELSE s[i]]
        /\ F = [i \in 1 .. Len(s) |-> IF i \in spots THEN EntryAfter(z[i], child, r) ELSE z[i]]
        /\ r.include \in BOOLEAN /\ (r.op = "AddEntry" => r.mask \in Mask)
    BY <1>1, <1>2, <1>4 DEF EditKinds
  <2> HIDE DEF E, F
  <2>2. Len(E) = Len(s) /\ Len(F) = Len(s)
    BY <1>2, <2>1
  <2>3. ASSUME NEW i \in 1 .. Len(s) PROVE Alike(E[i], F[i])
    <3>1. Alike(EntryAfter(s[i], child, r), EntryAfter(z[i], child, r))
      BY <1>2, <2>1, EntryAfterAlike
    <3> QED
      BY <1>2, <2>1, <3>1
  <2> QED
    BY <2>2, <2>3 DEF SameLists, E, F
<1>5. CASE r.op \in {"RemoveId", "RemovePid", "RemoveMask"}
  <2>1. E = Kept(s, spots) /\ F = Kept(z, spots)
    BY <1>1, <1>5 DEF EditKinds
  <2> HIDE DEF E, F
  <2>2. /\ Len(E) = Len(F)
        /\ \A n \in 1 .. Len(E) : \E i \in 1 .. Len(s) : E[n] = s[i] /\ F[n] = z[i]
    BY <1>2, <2>1, KeptAlike DEF Together
  <2>3. \A n \in 1 .. Len(E) : Alike(E[n], F[n])
    BY <1>2, <2>2
  <2> QED
    BY <2>2, <2>3 DEF SameLists, E, F
<1> QED
  BY <1>3, <1>4, <1>5 DEF ItemReq
-----------------------------------------------------------------------------
(* The clones. *)

\* A clone with nothing cut off.
FullCopy(s) == [i \in DOMAIN s |-> CopyEntry(s[i])]

LEMMA CopyMasksTyped ==
  ASSUME NEW ms \in Seq(Mask)
  PROVE  /\ CopyMasks(ms) \in Seq(Mask) /\ TypesOf(CopyMasks(ms), {{}})
         /\ SameFiles(CopyMasks(ms), ms)
<1>1. DOMAIN ms = 1 .. Len(ms) /\ Len(ms) \in Nat
  OBVIOUS
<1>2. CopyMasks(ms) = [i \in 1 .. Len(ms) |-> [ms[i] EXCEPT !.id = NoId, !.types = {}]]
  BY <1>1 DEF CopyMasks
<1>3. ASSUME NEW i \in 1 .. Len(ms)
      PROVE  /\ CopyMasks(ms)[i] \in Mask /\ CopyMasks(ms)[i].types = {}
             /\ CopyMasks(ms)[i].files = ms[i].files
  <2>1. ms[i] \in Mask
    OBVIOUS
  <2>2. CopyMasks(ms)[i] = [ms[i] EXCEPT !.id = NoId, !.types = {}]
    BY <1>2
  <2> QED
    BY <2>1, <2>2 DEF Mask
<1>4. CopyMasks(ms) \in Seq(Mask) /\ Len(CopyMasks(ms)) = Len(ms)
  <2>1. CopyMasks(ms) = [i \in 1 .. Len(ms) |-> CopyMasks(ms)[i]]
    BY <1>2
  <2> QED
    BY <1>1, <1>3, <2>1, ListOf
<1> QED
  BY <1>3, <1>4 DEF TypesOf, SameFiles

LEMMA CopyEntryTyped ==
  ASSUME NEW e \in Entry
  PROVE  /\ CopyEntry(e) \in Entry /\ Alike(CopyEntry(e), e)
         /\ TypesOf(CopyEntry(e).inc, {{}}) /\ TypesOf(CopyEntry(e).exc, {{}})
<1>1. e.inc \in Seq(Mask) /\ e.exc \in Seq(Mask)
  BY DEF Entry
<1>2. /\ CopyMasks(e.inc) \in Seq(Mask) /\ TypesOf(CopyMasks(e.inc), {{}}) /\ SameFiles(CopyMasks(e.inc), e.inc)
      /\ CopyMasks(e.exc) \in Seq(Mask) /\ TypesOf(CopyMasks(e.exc), {{}}) /\ SameFiles(CopyMasks(e.exc), e.exc)
  BY <1>1, CopyMasksTyped
<1>3. CopyEntry(e) = [e EXCEPT !.id = NoId, !.inc = CopyMasks(@), !.exc = CopyMasks(@)]
  BY DEF CopyEntry
<1>4. /\ CopyEntry(e).inc = CopyMasks(e.inc) /\ CopyEntry(e).exc = CopyMasks(e.exc)
      /\ CopyEntry(e).sel = e.sel /\ CopyEntry(e) \in Entry
  BY <1>2, <1>3 DEF Entry
<1> QED
  BY <1>2, <1>4 DEF Alike

LEMMA FullCopyTyped ==
  ASSUME NEW s \in Seq(Entry)
  PROVE  /\ FullCopy(s) \in Seq(Entry) /\ Len(FullCopy(s)) = Len(s)
         /\ TypesIn(FullCopy(s), {{}}) /\ SameLists(FullCopy(s), s)
<1>1. DOMAIN s = 1 .. Len(s) /\ Len(s) \in Nat
  OBVIOUS
<1>2. FullCopy(s) = [i \in 1 .. Len(s) |-> CopyEntry(s[i])]
  BY <1>1 DEF FullCopy
<1>3. ASSUME NEW i \in 1 .. Len(s)
      PROVE  /\ FullCopy(s)[i] \in Entry /\ Alike(FullCopy(s)[i], s[i])
             /\ TypesOf(FullCopy(s)[i].inc, {{}}) /\ TypesOf(FullCopy(s)[i].exc, {{}})
  BY <1>2, CopyEntryTyped
<1>4. FullCopy(s) \in Seq(Entry) /\ Len(FullCopy(s)) = Len(s)
  BY <1>1, <1>2, <1>3
<1> QED
  BY <1>3, <1>4 DEF TypesIn, SameLists

\* The beginning of a list.
LEMMA PrefixOf ==
  ASSUME NEW S, NEW s \in Seq(S), NEW q \in Prefixes(s)
  PROVE  /\ q \in Seq(S) /\ Len(q) \in Nat /\ Len(q) <= Len(s)
         /\ \A i \in 1 .. Len(q) : i \in 1 .. Len(s) /\ q[i] = s[i]
<1>1. PICK l \in 0 .. Len(s) : q = SubSeq(s, 1, l)
  BY DEF Prefixes
<1>2. q = [i \in 1 .. l |-> s[i]] /\ l \in Nat /\ l <= Len(s) /\ Len(s) \in Nat
  BY <1>1
<1> QED
  BY <1>2

\* A clone with one list of masks cut off.
Cut(s, q) ==
    \E i \in 1 .. Len(s) : (\E p \in Prefixes(s[i].inc) : q = [s EXCEPT ![i].inc = p])
                         \/ (\E p \in Prefixes(s[i].exc) : q = [s EXCEPT ![i].exc = p])

LEMMA CutTyped ==
  ASSUME NEW s \in Seq(Entry), NEW T, TypesIn(s, T), NEW q, Cut(s, q)
  PROVE  q \in Seq(Entry) /\ TypesIn(q, T)
<1>1. PICK i \in 1 .. Len(s) : (\E p \in Prefixes(s[i].inc) : q = [s EXCEPT ![i].inc = p])
                            \/ (\E p \in Prefixes(s[i].exc) : q = [s EXCEPT ![i].exc = p])
  BY DEF Cut
<1>2. /\ s[i] \in Entry /\ s[i].inc \in Seq(Mask) /\ s[i].exc \in Seq(Mask)
      /\ TypesOf(s[i].inc, T) /\ TypesOf(s[i].exc, T)
  <2>1. s[i] \in Entry
    OBVIOUS
  <2>2. TypesOf(s[i].inc, T) /\ TypesOf(s[i].exc, T)
    BY DEF TypesIn
  <2> QED
    BY <2>1, <2>2 DEF Entry
<1>3. \E e \in Entry : q = [s EXCEPT ![i] = e] /\ TypesOf(e.inc, T) /\ TypesOf(e.exc, T)
  <2>1. ASSUME NEW p \in Prefixes(s[i].inc), q = [s EXCEPT ![i].inc = p]
        PROVE  \E e \in Entry : q = [s EXCEPT ![i] = e] /\ TypesOf(e.inc, T) /\ TypesOf(e.exc, T)
    <3>1. p \in Seq(Mask) /\ TypesOf(p, T)
      BY <1>2, PrefixOf DEF TypesOf
    <3>2. /\ [s[i] EXCEPT !.inc = p] \in Entry
          /\ [s[i] EXCEPT !.inc = p].inc = p /\ [s[i] EXCEPT !.inc = p].exc = s[i].exc
      BY <1>2, <3>1 DEF Entry
    <3>3. q = [s EXCEPT ![i] = [s[i] EXCEPT !.inc = p]]
      BY <2>1
    <3> QED
      BY <1>2, <3>1, <3>2, <3>3
  <2>2. ASSUME NEW p \in Prefixes(s[i].exc), q = [s EXCEPT ![i].exc = p]
        PROVE  \E e \in Entry : q = [s EXCEPT ![i] = e] /\ TypesOf(e.inc, T) /\ TypesOf(e.exc, T)
    <3>1. p \in Seq(Mask) /\ TypesOf(p, T)
      BY <1>2, PrefixOf DEF TypesOf
    <3>2. /\ [s[i] EXCEPT !.exc = p] \in Entry
          /\ [s[i] EXCEPT !.exc = p].exc = p /\ [s[i] EXCEPT !.exc = p].inc = s[i].inc
      BY <1>2, <3>1 DEF Entry
    <3>3. q = [s EXCEPT ![i] = [s[i] EXCEPT !.exc = p]]
      BY <2>2
    <3> QED
      BY <1>2, <3>1, <3>2, <3>3
  <2> QED
    BY <1>1, <2>1, <2>2
<1>4. PICK e \in Entry : q = [s EXCEPT ![i] = e] /\ TypesOf(e.inc, T) /\ TypesOf(e.exc, T)
  BY <1>3
<1>5. q \in Seq(Entry) /\ Len(q) = Len(s)
  BY <1>4
<1>6. \A j \in 1 .. Len(q) : q[j] = e \/ q[j] = s[j]
  BY <1>4, <1>5
<1> QED
  BY <1>4, <1>5, <1>6 DEF TypesIn

LEMMA CopiesTyped ==
  ASSUME NEW s \in Seq(Entry), NEW q \in Copies(s)
  PROVE  q \in Seq(Entry) /\ TypesIn(q, {{}})
<1>1. DOMAIN s = 1 .. Len(s)
  OBVIOUS
<1>2. q = FullCopy(s) \/ q \in Prefixes(FullCopy(s)) \/ Cut(FullCopy(s), q)
  <2> DEFINE f == FullCopy(s)
             Inc(i) == {[f EXCEPT ![i].inc = p] : p \in Prefixes(f[i].inc)}
             Exc(i) == {[f EXCEPT ![i].exc = p] : p \in Prefixes(f[i].exc)}
             U == UNION {Inc(i) : i \in DOMAIN s}
             V == UNION {Exc(i) : i \in DOMAIN s}
  <2>1. DOMAIN s = 1 .. Len(f)
    BY <1>1, FullCopyTyped
  <2>2. Copies(s) = {f} \cup (IF AllocFails THEN (Prefixes(f) \cup U) \cup V ELSE {})
    BY DEF Copies, FullCopy
  <2>3. q = f \/ q \in Prefixes(f) \/ q \in U \/ q \in V
    <3> HIDE DEF f, U, V
    <3> QED
      BY <2>2
  <2>4. ASSUME q \in U PROVE \E i \in DOMAIN s : q \in Inc(i)
    BY <2>4
  <2>5. ASSUME q \in V PROVE \E i \in DOMAIN s : q \in Exc(i)
    BY <2>5
  <2> HIDE DEF f, U, V
  <2> QED
    BY <2>1, <2>3, <2>4, <2>5 DEF Cut, f
<1>3. CASE q = FullCopy(s)
  BY <1>3, FullCopyTyped
<1>4. CASE q \in Prefixes(FullCopy(s))
  <2>1. FullCopy(s) \in Seq(Entry) /\ TypesIn(FullCopy(s), {{}})
    BY FullCopyTyped
  <2>2. q \in Seq(Entry) /\ \A i \in 1 .. Len(q) : i \in 1 .. Len(FullCopy(s)) /\ q[i] = FullCopy(s)[i]
    BY <1>4, <2>1, PrefixOf
  <2> QED
    BY <2>1, <2>2 DEF TypesIn
<1>5. CASE Cut(FullCopy(s), q)
  <2>1. FullCopy(s) \in Seq(Entry) /\ TypesIn(FullCopy(s), {{}})
    BY FullCopyTyped
  <2> QED
    BY <1>5, <2>1, CutTyped
<1> QED
  BY <1>2, <1>3, <1>4, <1>5

\* A list that has lost no kind of event.
LEMMA UntypedIs ==
  ASSUME NEW s \in Seq(Entry), ~AsksKinds(s)
  PROVE  TypesIn(s, {{}})
<1>1. ASSUME NEW i \in 1 .. Len(s) PROVE TypesOf(s[i].inc, {{}}) /\ TypesOf(s[i].exc, {{}})
  <2>1. s[i].inc \in Seq(Mask) /\ s[i].exc \in Seq(Mask) /\ i \in DOMAIN s
    <3>1. s[i] \in Entry /\ i \in DOMAIN s
      OBVIOUS
    <3> QED
      BY <3>1 DEF Entry
  <2> DEFINE both == s[i].inc \o s[i].exc
  <2>2. \A k \in DOMAIN both : both[k].types = {}
    BY <2>1 DEF AsksKinds
  <2>3. /\ \A k \in 1 .. Len(s[i].inc) : k \in DOMAIN both /\ both[k] = s[i].inc[k]
        /\ \A k \in 1 .. Len(s[i].exc) : Len(s[i].inc) + k \in DOMAIN both /\ both[Len(s[i].inc) + k] = s[i].exc[k]
    <3>1. Joined(both, s[i].inc, s[i].exc)
      BY <2>1, JoinedAt
    <3> QED
      BY <3>1 DEF Joined
  <2> HIDE DEF both
  <2>4. \A k \in 1 .. Len(s[i].inc) : s[i].inc[k].types = {}
    BY <2>2, <2>3
  <2>5. \A k \in 1 .. Len(s[i].exc) : s[i].exc[k].types = {}
    BY <2>2, <2>3
  <2> QED
    BY <2>4, <2>5 DEF TypesOf
<1> QED
  BY <1>1 DEF TypesIn
-----------------------------------------------------------------------------
(* The decisions. *)

\* Which masks of a list match a file.
Takes(ms, f) == {k \in DOMAIN ms : f \in ms[k].files}

LEMMA HitsAre ==
  ASSUME NEW ms \in Seq(Mask), NEW zs \in Seq(Mask), SameFiles(ms, zs), TypesOf(ms, {Wanted}),
         NEW f, NEW ev
  PROVE  Hits(ms, f, ev) = IF ev \in Wanted THEN Takes(zs, f) ELSE {}
<1>1. DOMAIN ms = 1 .. Len(ms) /\ DOMAIN zs = 1 .. Len(zs) /\ Len(ms) = Len(zs)
  BY DEF SameFiles
<1>2. \A k \in 1 .. Len(ms) : ms[k].types = Wanted /\ ms[k].files = zs[k].files
  BY DEF SameFiles, TypesOf
<1> QED
  BY <1>1, <1>2 DEF Hits, Takes

\* How an entry decides, as asked.
Selects(e, f, ev) == e.inc \o e.exc = <<>> \/ (ev \in Wanted /\ Takes(e.exc, f) = {} /\ Takes(e.inc, f) # {})

LEMMA SubMatchIs ==
  ASSUME NEW e \in Entry, NEW z \in Entry, Alike(e, z),
         TypesOf(e.inc, {Wanted}), TypesOf(e.exc, {Wanted}), NEW f, NEW ev
  PROVE  SubMatch(e, f, ev) <=> Selects(z, f, ev)
<1>1. /\ e.inc \in Seq(Mask) /\ e.exc \in Seq(Mask) /\ z.inc \in Seq(Mask) /\ z.exc \in Seq(Mask)
      /\ SameFiles(e.inc, z.inc) /\ SameFiles(e.exc, z.exc)
  BY DEF Entry, Alike
<1>2. /\ Hits(e.exc, f, ev) = IF ev \in Wanted THEN Takes(z.exc, f) ELSE {}
      /\ Hits(e.inc, f, ev) = IF ev \in Wanted THEN Takes(z.inc, f) ELSE {}
  BY <1>1, HitsAre
<1>3. e.inc = <<>> /\ e.exc = <<>> <=> z.inc \o z.exc = <<>>
  <2>1. \A m, n \in Seq(Mask) : m \o n = <<>> <=> m = <<>> /\ n = <<>>
    <3>1. ASSUME NEW m \in Seq(Mask), NEW n \in Seq(Mask)
          PROVE  m \o n = <<>> <=> m = <<>> /\ n = <<>>
      <4>1. m \o n \in Seq(Mask) /\ Len(m \o n) = Len(m) + Len(n) /\ Len(m) \in Nat /\ Len(n) \in Nat
        BY ConcatProperties
      <4>2. \A u \in Seq(Mask) : u = <<>> <=> Len(u) = 0
        OBVIOUS
      <4>3. (m \o n = <<>> <=> Len(m \o n) = 0) /\ (m = <<>> <=> Len(m) = 0) /\ (n = <<>> <=> Len(n) = 0)
        BY <4>1, <4>2, Zenon
      <4> QED
        BY ONLY <4>1, <4>3
    <3> QED
      BY <3>1
  <2>2. \A m, n \in Seq(Mask) : SameFiles(m, n) => (m = <<>> <=> n = <<>>)
    BY DEF SameFiles
  <2>3. z.inc \o z.exc = <<>> <=> z.inc = <<>> /\ z.exc = <<>>
    BY <1>1, <2>1
  <2>4. (e.inc = <<>> <=> z.inc = <<>>) /\ (e.exc = <<>> <=> z.exc = <<>>)
    BY <1>1, <2>2
  <2> QED
    BY <2>3, <2>4
<1> QED
  BY <1>2, <1>3 DEF SubMatch, Selects

\* The first entry that selects a process.
LEMMA FirstMatches ==
  ASSUME NEW M \in SUBSET Nat
  PROVE  /\ M # {} => FirstOf(M) \in M /\ \A j \in M : FirstOf(M) <= j
         /\ \A i \in M : (\A j \in M : i <= j) => i = FirstOf(M)
<1>1. ASSUME M # {} PROVE FirstOf(M) \in M /\ \A j \in M : FirstOf(M) <= j
  <2>1. \E i \in M : \A j \in M : i <= j
    BY <1>1, LeastElement
  <2> QED
    BY <2>1 DEF FirstOf
<1>2. ASSUME NEW i \in M, \A j \in M : i <= j PROVE i = FirstOf(M)
  <2>1. FirstOf(M) \in M /\ FirstOf(M) <= i /\ i <= FirstOf(M)
    BY <1>1, <1>2
  <2>2. FirstOf(M) \in Nat /\ i \in Nat
    BY <2>1
  <2> QED
    BY ONLY <2>1, <2>2
<1> QED
  BY <1>1, <1>2

LEMMA MatchingSame ==
  ASSUME NEW s \in Seq(Entry), NEW z \in Seq(Entry), SameLists(s, z), NEW p
  PROVE  Matching(s, p) = Matching(z, p) /\ Matching(s, p) \in SUBSET (1 .. Len(s))
<1>1. DOMAIN s = 1 .. Len(s) /\ DOMAIN z = 1 .. Len(z) /\ Len(s) = Len(z)
  BY DEF SameLists
<1>2. \A i \in 1 .. Len(s) : s[i].sel = z[i].sel
  BY DEF SameLists, Alike
<1> QED
  BY <1>1, <1>2 DEF Matching

\* What the client asked for, over the entries that select a process.
Asks(z, p, f, ev, looks) ==
    \E i \in Matching(z, p) : (\A j \in Matching(z, p) : i <= j) /\ (looks => Selects(z[i], f, ev))

LEMMA AsksIs ==
  ASSUME NEW s \in Seq(Entry), NEW z \in Seq(Entry), SameLists(s, z), NEW p, NEW f, NEW ev,
         NEW looks \in BOOLEAN, looks => TypesIn(s, {Wanted})
  PROVE  Asks(z, p, f, ev, looks) <=> (ProcessMatch(s, p) /\ (looks => SubMatch(EntryFor(s, p), f, ev)))
<1> DEFINE M == Matching(s, p)
<1>1. Matching(z, p) = M /\ M \in SUBSET (1 .. Len(s))
  BY MatchingSame
<1> HIDE DEF M
<1>2. M \in SUBSET Nat
  BY <1>1
<1>3. /\ M # {} => FirstOf(M) \in M /\ \A j \in M : FirstOf(M) <= j
      /\ \A i \in M : (\A j \in M : i <= j) => i = FirstOf(M)
  BY <1>2, FirstMatches
<1>4. Asks(z, p, f, ev, looks) <=> M # {} /\ (looks => Selects(z[FirstOf(M)], f, ev))
  BY <1>1, <1>3 DEF Asks
<1>5. ASSUME M # {}, looks PROVE SubMatch(s[FirstOf(M)], f, ev) <=> Selects(z[FirstOf(M)], f, ev)
  <2>1. FirstOf(M) \in 1 .. Len(s) /\ Len(s) = Len(z)
    BY <1>1, <1>3, <1>5 DEF SameLists
  <2>2. s[FirstOf(M)] \in Entry /\ z[FirstOf(M)] \in Entry
    BY <2>1
  <2>3. Alike(s[FirstOf(M)], z[FirstOf(M)])
    BY <2>1 DEF SameLists
  <2>4. TypesOf(s[FirstOf(M)].inc, {Wanted}) /\ TypesOf(s[FirstOf(M)].exc, {Wanted})
    BY <1>5, <2>1 DEF TypesIn
  <2> QED
    BY <2>2, <2>3, <2>4, SubMatchIs
<1>6. EntryFor(s, p) = s[FirstOf(M)] /\ (ProcessMatch(s, p) <=> M # {})
  BY DEF EntryFor, ProcessMatch, M
<1> QED
  BY <1>4, <1>5, <1>6

LEMMA AskedIs ==
  ASSUME NEW ev, NEW p, NEW f
  PROVE  AskedConcern(ev, p, f) <=>
           /\ ev = "CREATE" => \A k \in DOMAIN granted.masks.exc : f \notin granted.masks.exc[k]
           /\ IF p = System THEN ev = "CREATE" /\ \E k \in DOMAIN granted.masks.inc : f \in granted.masks.inc[k]
              ELSE Asks(granted.items, p, f, ev, ev \in {"CREATE", "SET_INFORMATION"})
<1> DEFINE sel == {i \in DOMAIN granted.items : p \in granted.items[i].sel.names \cup {granted.items[i].sel.pid}}
<1>1. sel = Matching(granted.items, p)
  BY DEF Matching
<1> QED
  BY <1>1 DEF AskedConcern, Asks, Selects, Takes

LEMMA Decides ==
  ASSUME items \in Seq(Entry), granted.items \in Seq(Entry), SameLists(items, granted.items),
         masks = granted.masks,
         NEW ev, NEW p, NEW f,
         p # System /\ ev \in {"CREATE", "SET_INFORMATION"} => TypesIn(items, {Wanted})
  PROVE  CheckEventTo(items, masks, ev, p, f) <=> AskedConcern(ev, p, f)
<1>1. /\ GlobalMatch(masks, f, FALSE) <=> \E k \in DOMAIN granted.masks.exc : f \in granted.masks.exc[k]
      /\ GlobalMatch(masks, f, TRUE) <=> \E k \in DOMAIN granted.masks.inc : f \in granted.masks.inc[k]
  BY DEF GlobalMatch, Side
<1>2. ASSUME p # System
      PROVE  Asks(granted.items, p, f, ev, ev \in {"CREATE", "SET_INFORMATION"}) <=>
               (ProcessMatch(items, p) /\ (ev \in {"CREATE", "SET_INFORMATION"} => SubMatch(EntryFor(items, p), f, ev)))
  <2> DEFINE looks == ev \in {"CREATE", "SET_INFORMATION"}
  <2>1. looks \in BOOLEAN /\ (looks => TypesIn(items, {Wanted}))
    BY <1>2
  <2> HIDE DEF looks
  <2>2. Asks(granted.items, p, f, ev, looks) <=> (ProcessMatch(items, p) /\ (looks => SubMatch(EntryFor(items, p), f, ev)))
    BY <2>1, AsksIs
  <2> QED
    BY <2>2 DEF looks
<1>3. CASE ev = "CREATE"
  BY <1>1, <1>2, <1>3, AskedIs DEF CheckEventTo, CheckEventToWithCREATE
<1>4. CASE ev = "DIRECTORY_CONTROL"
  BY <1>1, <1>2, <1>4, AskedIs DEF CheckEventTo, CheckEventToWithDIRECTORY_CONTROL
<1>5. CASE ev # "CREATE" /\ ev # "DIRECTORY_CONTROL"
  BY <1>1, <1>2, <1>5, AskedIs DEF CheckEventTo, CheckEventToWithQUERY_INFORMATION
<1> QED
  BY <1>3, <1>4, <1>5
-----------------------------------------------------------------------------
(* The invariant. *)

\* What a change of the entries has cloned: while no exchange has come between, the entries
\* in force, unless it says so, and if it lost no kind of event there was none.
ItemOp(t) == op[t].kind = "items" =>
    /\ ItemReq(op[t].req)
    /\ op[t].list \in Seq(Entry) /\ TypesIn(op[t].list, {{}})
    /\ op[t].ver \in Nat /\ op[t].ver <= version.items
    /\ op[t].lost \subseteq {"types", "short"}
    /\ op[t].ver = version.items =>
         /\ "short" \notin op[t].lost => SameLists(op[t].list, items)
         /\ "types" \notin op[t].lost => TypesIn(items, {{}})

\* ... and one of the masks.
MaskReq(r) == r.mask \in Wildcards /\ ((r.op = "Add" /\ r.include \in BOOLEAN) \/ r.op = "Remove")
MaskOp(t) == op[t].kind = "masks" =>
    /\ MaskReq(op[t].req)
    /\ op[t].list \in MaskLists
    /\ op[t].ver \in Nat /\ op[t].ver <= version.masks
    /\ op[t].lost \subseteq {"exclude", "short"}
    /\ op[t].ver = version.masks /\ op[t].lost = {} => op[t].list = masks

OpsInv ==
    /\ op = [t \in Changers |-> op[t]]
    /\ \A t \in Changers : ItemOp(t) /\ MaskOp(t)

\* The lists in force against those the client asked for.
ListsInv ==
    /\ granted = [items |-> granted.items, masks |-> granted.masks]
    /\ losses \cap {"overlap", "short"} = {} => SameLists(items, granted.items)
    /\ losses \subseteq {"types"} => masks = granted.masks
    /\ TypesIn(items, {{}, Wanted})
    /\ losses = {} => TypesIn(items, {Wanted})

PolicyInv == PolicyTypeOK /\ OpsInv /\ ListsInv

LEMMA PolicyInvInit == PolicyInit => PolicyInv
<1> SUFFICES ASSUME PolicyInit PROVE PolicyInv
  OBVIOUS
<1>1. /\ items = <<>> /\ granted = [items |-> <<>>, masks |-> masks]
      /\ masks = [inc |-> <<>>, exc |-> <<>>] /\ version = [items |-> 0, masks |-> 0]
      /\ op = [t \in Changers |-> Idle] /\ losses = {}
  BY DEF PolicyInit
<1>2. items \in Seq(Entry) /\ masks \in MaskLists
  BY <1>1 DEF MaskLists
<1>3. PolicyTypeOK
  BY <1>1, <1>2, PolicyAssumption DEF PolicyInit, PolicyTypeOK
<1>4. OpsInv
  BY <1>1 DEF OpsInv, ItemOp, MaskOp, Idle
<1>5. ListsInv
  BY <1>1 DEF ListsInv, SameLists, TypesIn
<1> QED
  BY <1>3, <1>4, <1>5 DEF PolicyInv

\* A thread that begins or ends a change leaves what the others do alone.
LEMMA OpSet ==
  ASSUME OpsInv, NEW t \in Changers, NEW o, op' = [op EXCEPT ![t] = o]
  PROVE  op'[t] = o /\ (\A u \in Changers \ {t} : op'[u] = op[u]) /\ op' = [u \in Changers |-> op'[u]]
  BY DEF OpsInv

ItemsMove == (items' = items /\ version'.items = version.items) \/ version'.items = version.items + 1
MasksMove == (masks' = masks /\ version'.masks = version.masks) \/ version'.masks = version.masks + 1

LEMMA OpStays ==
  ASSUME PolicyInv, NEW u \in Changers, op'[u] = op[u], ItemsMove, MasksMove
  PROVE  ItemOp(u)' /\ MaskOp(u)'
<1>1. version.items \in Nat /\ version.masks \in Nat /\ ItemOp(u) /\ MaskOp(u)
  BY DEF PolicyInv, PolicyTypeOK, OpsInv
<1>2. ItemOp(u)'
  <2>1. CASE items' = items /\ version'.items = version.items
    BY <1>1, <2>1 DEF ItemOp
  <2>2. CASE version'.items = version.items + 1
    <3>1. op[u].kind = "items" => op[u].ver <= version'.items /\ op[u].ver # version'.items
      BY <1>1, <2>2 DEF ItemOp
    <3> QED
      BY <1>1, <3>1 DEF ItemOp
  <2> QED
    BY <2>1, <2>2 DEF ItemsMove
<1>3. MaskOp(u)'
  <2>1. CASE masks' = masks /\ version'.masks = version.masks
    BY <1>1, <2>1 DEF MaskOp
  <2>2. CASE version'.masks = version.masks + 1
    <3>1. op[u].kind = "masks" => op[u].ver <= version'.masks /\ op[u].ver # version'.masks
      BY <1>1, <2>2 DEF MaskOp
    <3> QED
      BY <1>1, <3>1 DEF MaskOp
  <2> QED
    BY <2>1, <2>2 DEF MasksMove
<1> QED
  BY <1>2, <1>3

\* The threads after a step of t that ends with o.
LEMMA OpsStep ==
  ASSUME PolicyInv, NEW t \in Changers, NEW o, op' = [op EXCEPT ![t] = o], ItemsMove, MasksMove,
         o = Idle \/ (o.kind \in {"items", "masks"} /\ ItemOp(t)' /\ MaskOp(t)')
  PROVE  OpsInv' /\ \A u \in Changers : op'[u] = Idle \/ op'[u].kind \in {"items", "masks"}
<1>1. /\ op'[t] = o /\ (\A u \in Changers \ {t} : op'[u] = op[u])
      /\ op' = [u \in Changers |-> op'[u]]
  BY OpSet DEF PolicyInv
<1>2. ItemOp(t)' /\ MaskOp(t)'
  BY <1>1 DEF ItemOp, MaskOp, Idle
<1>3. \A u \in Changers \ {t} : ItemOp(u)' /\ MaskOp(u)'
  BY <1>1, OpStays
<1>4. \A u \in Changers : op'[u] = Idle \/ op'[u].kind \in {"items", "masks"}
  BY <1>1 DEF PolicyInv, PolicyTypeOK
<1> QED
  BY <1>1, <1>2, <1>3, <1>4 DEF OpsInv
-----------------------------------------------------------------------------
(* The steps. *)

\* A clone changes no list.
LEMMA BeginKeeps ==
  ASSUME PolicyInv, NEW t \in Changers, Begin(t)
  PROVE  /\ ListsInv' /\ ItemsMove /\ MasksMove /\ changes' \in 0 .. MaxChanges
         /\ OpsInv' /\ (\A u \in Changers : op'[u] = Idle \/ op'[u].kind \in {"items", "masks"})
            /\ died' \in {"no", "no_clone", "null_name", "freed_link"} => PolicyInv'
<1>1. ListsInv' /\ ItemsMove /\ MasksMove
  BY DEF Begin, PolicyInv, ListsInv, SameLists, TypesIn, ItemsMove, MasksMove
<1>2. changes' \in 0 .. MaxChanges
  BY PolicyAssumption DEF Begin, PolicyInv, PolicyTypeOK
<1>3. /\ items' = items /\ granted' = granted /\ masks' = masks /\ version' = version
      /\ missed' = missed /\ losses' = losses
  BY DEF Begin
<1>4. ASSUME \A u \in Changers : op'[u] = Idle \/ op'[u].kind \in {"items", "masks"},
             died' \in {"no", "no_clone", "null_name", "freed_link"}
      PROVE  PolicyTypeOK'
  BY <1>2, <1>3, <1>4 DEF PolicyInv, PolicyTypeOK
<1> QED
  BY <1>1, <1>2, <1>4 DEF PolicyInv

LEMMA ItemsCloned ==
  ASSUME PolicyInv, NEW t \in Changers, NEW req, ItemReq(req), ProcessFilter_Clone(t, req)
  PROVE  PolicyInv'
<1>1. Begin(t) /\ ItemsMove /\ MasksMove
  BY BeginKeeps DEF ProcessFilter_Clone
<1>2. items' = items /\ version' = version /\ died = "no"
  BY <1>1 DEF Begin
<1>3. CASE died' = "no_clone" /\ op' = op
  <2>1. OpsInv' /\ \A u \in Changers : op'[u] = Idle \/ op'[u].kind \in {"items", "masks"}
    <3>1. \A u \in Changers : ItemOp(u)' /\ MaskOp(u)'
      BY <1>1, <1>3, OpStays
    <3> QED
      BY <1>3, <3>1 DEF PolicyInv, PolicyTypeOK, OpsInv
  <2> QED
    BY <1>1, <1>3, <2>1, BeginKeeps
<1>4. ASSUME NEW copy \in Copies(items), died' = died,
             op' = [op EXCEPT ![t] = [kind |-> "items", req |-> req, list |-> copy, ver |-> version.items,
                      lost |-> (IF AsksKinds(items) THEN {"types"} ELSE {}) \cup
                               (IF copy # [i \in DOMAIN items |-> CopyEntry(items[i])] THEN {"short"} ELSE {})]]
      PROVE  PolicyInv'
  <2> DEFINE lost == (IF AsksKinds(items) THEN {"types"} ELSE {}) \cup
                     (IF copy # [i \in DOMAIN items |-> CopyEntry(items[i])] THEN {"short"} ELSE {})
             o == [kind |-> "items", req |-> req, list |-> copy, ver |-> version.items, lost |-> lost]
  <2>1. items \in Seq(Entry) /\ version.items \in Nat
    BY DEF PolicyInv, PolicyTypeOK
  <2>2. copy \in Seq(Entry) /\ TypesIn(copy, {{}})
    BY <2>1, CopiesTyped
  <2>3. lost \subseteq {"types", "short"}
    OBVIOUS
  <2>4. "short" \notin lost => SameLists(copy, items)
    BY <2>1, FullCopyTyped DEF FullCopy
  <2>5. "types" \notin lost => TypesIn(items, {{}})
    BY <2>1, UntypedIs
  <2> HIDE DEF lost
  <2>6. op' = [op EXCEPT ![t] = o]
    BY <1>4 DEF lost
  <2>7. op'[t] = o
    BY <2>6, OpSet DEF PolicyInv
  <2>8. ItemOp(t)' /\ MaskOp(t)'
    <3>1. /\ op'[t].kind = "items" /\ op'[t].req = req /\ op'[t].list = copy
          /\ op'[t].ver = version.items /\ op'[t].lost = lost
      BY <2>7
    <3> QED
      BY <1>2, <2>1, <2>2, <2>3, <2>4, <2>5, <3>1 DEF ItemOp, MaskOp
  <2>9. OpsInv' /\ \A u \in Changers : op'[u] = Idle \/ op'[u].kind \in {"items", "masks"}
    BY <1>1, <2>6, <2>8, OpsStep
  <2> QED
    BY <1>1, <1>2, <1>4, <2>9, BeginKeeps
<1> QED
  BY <1>3, <1>4 DEF ProcessFilter_Clone

LEMMA MasksCloned ==
  ASSUME PolicyInv, NEW t \in Changers, NEW req, MaskReq(req), GlobalFilter_Clone(t, req)
  PROVE  PolicyInv'
<1>1. Begin(t) /\ ItemsMove /\ MasksMove /\ died' = died
  BY BeginKeeps DEF GlobalFilter_Clone
<1>2. masks' = masks /\ version' = version /\ died = "no"
  BY <1>1 DEF Begin
<1>3. PICK i \in {masks.inc} \cup (IF AllocFails THEN Prefixes(masks.inc) ELSE {}) :
        op' = [op EXCEPT ![t] = [kind |-> "masks", req |-> req, list |-> [inc |-> i, exc |-> ExcludesCloned(masks.exc)],
                  ver |-> version.masks,
                  lost |-> (IF ExcludesCloned(masks.exc) # masks.exc THEN {"exclude"} ELSE {}) \cup
                           (IF i # masks.inc THEN {"short"} ELSE {})]]
  BY DEF GlobalFilter_Clone
<1> DEFINE lost == (IF ExcludesCloned(masks.exc) # masks.exc THEN {"exclude"} ELSE {}) \cup
                   (IF i # masks.inc THEN {"short"} ELSE {})
           list == [inc |-> i, exc |-> ExcludesCloned(masks.exc)]
           o == [kind |-> "masks", req |-> req, list |-> list, ver |-> version.masks, lost |-> lost]
<1>4. masks \in MaskLists /\ masks.inc \in Seq(Wildcards) /\ version.masks \in Nat
  BY DEF PolicyInv, PolicyTypeOK, MaskLists
<1>5. list \in MaskLists
  <2>1. i \in Seq(Wildcards)
    BY <1>3, <1>4, PrefixOf
  <2> QED
    BY <2>1 DEF MaskLists, ExcludesCloned
<1>6. lost \subseteq {"exclude", "short"}
  OBVIOUS
<1>7. lost = {} => list = masks
  <2>1. masks = [inc |-> masks.inc, exc |-> masks.exc]
    BY <1>4 DEF MaskLists
  <2> QED
    BY <2>1
<1> HIDE DEF lost, list
<1>8. op' = [op EXCEPT ![t] = o]
  BY <1>3 DEF lost, list
<1>9. op'[t] = o
  BY <1>8, OpSet DEF PolicyInv
<1>10. ItemOp(t)' /\ MaskOp(t)'
  <2>1. /\ op'[t].kind = "masks" /\ op'[t].req = req /\ op'[t].list = list
        /\ op'[t].ver = version.masks /\ op'[t].lost = lost
    BY <1>9
  <2> QED
    BY <1>2, <1>4, <1>5, <1>6, <1>7, <2>1 DEF ItemOp, MaskOp
<1>11. OpsInv' /\ \A u \in Changers : op'[u] = Idle \/ op'[u].kind \in {"items", "masks"}
  BY <1>1, <1>8, <1>10, OpsStep
<1> QED
  BY <1>1, <1>2, <1>11, BeginKeeps
\* Of alike lists, one that has lost its kinds of event, while nothing was lost in the other.
LEMMA LostNone ==
  ASSUME NEW s \in Seq(Entry), NEW z \in Seq(Entry), SameLists(s, z),
         TypesIn(s, {{}}), TypesIn(z, {{}}), TypesIn(z, {Wanted})
  PROVE  TypesIn(s, {Wanted})
<1>1. ASSUME NEW i \in 1 .. Len(s) PROVE TypesOf(s[i].inc, {Wanted}) /\ TypesOf(s[i].exc, {Wanted})
  <2>1. i \in 1 .. Len(z) /\ SameFiles(s[i].inc, z[i].inc) /\ SameFiles(s[i].exc, z[i].exc)
    BY DEF SameLists, Alike
  <2>2. ASSUME NEW k \in 1 .. Len(s[i].inc) PROVE s[i].inc[k].types = Wanted
    <3>1. k \in 1 .. Len(z[i].inc)
      BY <2>1 DEF SameFiles
    <3>2. s[i].inc[k].types = {} /\ z[i].inc[k].types = {} /\ z[i].inc[k].types = Wanted
      BY <2>1, <3>1 DEF TypesIn, TypesOf
    <3> QED
      BY <3>2
  <2>3. ASSUME NEW k \in 1 .. Len(s[i].exc) PROVE s[i].exc[k].types = Wanted
    <3>1. k \in 1 .. Len(z[i].exc)
      BY <2>1 DEF SameFiles
    <3>2. s[i].exc[k].types = {} /\ z[i].exc[k].types = {} /\ z[i].exc[k].types = Wanted
      BY <2>1, <3>1 DEF TypesIn, TypesOf
    <3> QED
      BY <3>2
  <2> QED
    BY <2>2, <2>3 DEF TypesOf
<1> QED
  BY <1>1 DEF TypesIn

LEMMA AlikeToo ==
  ASSUME NEW a, NEW b, NEW c, SameLists(a, b), SameLists(b, c)
  PROVE  SameLists(a, c)
<1>1. Len(a) = Len(b) /\ Len(b) = Len(c)
  BY DEF SameLists
<1>2. ASSUME NEW i \in 1 .. Len(a) PROVE Alike(a[i], c[i])
  <2>1. Alike(a[i], b[i]) /\ Alike(b[i], c[i])
    BY <1>1 DEF SameLists
  <2>2. \A m, n, l : SameFiles(m, n) /\ SameFiles(n, l) => SameFiles(m, l)
    BY DEF SameFiles
  <2>3. SameFiles(a[i].inc, c[i].inc) /\ SameFiles(a[i].exc, c[i].exc)
    BY <2>1, <2>2, Zenon DEF Alike
  <2> QED
    BY <2>1, <2>3 DEF Alike
<1> QED
  BY <1>1, <1>2 DEF SameLists

LEMMA ExchangeKeeps ==
  ASSUME PolicyInv, NEW t \in Changers, op[t].kind = "items",
         NEW spots, NEW child, ProcessFilter_Exchange(t, spots, child, op[t].req),
         masks' = masks
  PROVE  /\ ListsInv' /\ ItemsMove /\ MasksMove
         /\ items' \in Seq(Entry) /\ granted'.items \in Seq(Entry) /\ granted'.masks = granted.masks
         /\ version' \in [items : Nat, masks : Nat] /\ losses' \subseteq {"types", "short", "exclude", "overlap"}
<1> DEFINE o == op[t]
           req == op[t].req
<1>1. /\ items \in Seq(Entry) /\ granted.items \in Seq(Entry) /\ version \in [items : Nat, masks : Nat]
      /\ losses \subseteq {"types", "short", "exclude", "overlap"}
      /\ granted = [items |-> granted.items, masks |-> granted.masks]
      /\ losses \cap {"overlap", "short"} = {} => SameLists(items, granted.items)
      /\ losses \subseteq {"types"} => masks = granted.masks
      /\ TypesIn(items, {{}, Wanted}) /\ (losses = {} => TypesIn(items, {Wanted}))
  BY DEF PolicyInv, PolicyTypeOK, ListsInv
<1>2. /\ ItemReq(req) /\ o.list \in Seq(Entry) /\ TypesIn(o.list, {{}})
      /\ o.lost \subseteq {"types", "short"}
      /\ o.ver = version.items /\ "short" \notin o.lost => SameLists(o.list, items)
      /\ o.ver = version.items /\ "types" \notin o.lost => TypesIn(items, {{}})
  BY DEF PolicyInv, OpsInv, ItemOp
<1>3. /\ items' = Edited(o.list, spots, child, req)
      /\ version' = [version EXCEPT !.items = @ + 1]
      /\ losses' = losses \cup o.lost \cup Overlap(t)
      /\ granted' = IF losses' \cap {"overlap", "short"} = {}
                   THEN [granted EXCEPT !.items = Edited(@, spots, child, req)] ELSE granted
  BY DEF ProcessFilter_Exchange
<1>4. Overlap(t) \subseteq {"overlap"} /\ (o.ver # version.items => Overlap(t) = {"overlap"})
  BY DEF Overlap
<1>5. version' \in [items : Nat, masks : Nat] /\ ItemsMove /\ MasksMove
  BY <1>1, <1>3 DEF ItemsMove, MasksMove
<1>6. losses' \subseteq {"types", "short", "exclude", "overlap"}
  BY <1>1, <1>2, <1>3, <1>4
<1>7. /\ losses' \cap {"overlap", "short"} = {} =>
           losses \cap {"overlap", "short"} = {} /\ o.ver = version.items /\ "short" \notin o.lost
      /\ losses' \subseteq {"types"} => losses \subseteq {"types"}
      /\ losses' = {} => losses = {} /\ o.ver = version.items /\ o.lost = {}
  BY <1>3, <1>4
<1>8. items' \in Seq(Entry) /\ TypesIn(items', {{}, Wanted})
  <2>1. TypesIn(o.list, {{}, Wanted})
    BY <1>2 DEF TypesIn, TypesOf
  <2> QED
    BY <1>2, <1>3, <2>1, EditTyped
<1>9. /\ granted'.items \in Seq(Entry) /\ granted'.masks = granted.masks
      /\ granted' = [items |-> granted'.items, masks |-> granted'.masks]
      /\ losses' \cap {"overlap", "short"} = {} => granted'.items = Edited(granted.items, spots, child, req)
  <2>1. CASE losses' \cap {"overlap", "short"} = {}
    <3>1. granted' = [items |-> Edited(granted.items, spots, child, req), masks |-> granted.masks]
      BY <1>1, <1>3, <2>1
    <3>2. \E T : TypesIn(granted.items, T) /\ Wanted \in T
      <4>1. TypesIn(granted.items, SUBSET Events) /\ Wanted \in SUBSET Events
        <5>1. \A i \in 1 .. Len(granted.items) : granted.items[i].inc \in Seq(Mask) /\ granted.items[i].exc \in Seq(Mask)
          <6>1. \A i \in 1 .. Len(granted.items) : granted.items[i] \in Entry
            BY <1>1
          <6> QED
            BY <6>1 DEF Entry
        <5>2. \A m \in Seq(Mask) : \A k \in 1 .. Len(m) : m[k].types \in SUBSET Events
          <6>1. \A m \in Seq(Mask) : \A k \in 1 .. Len(m) : m[k] \in Mask
            OBVIOUS
          <6> QED
            BY <6>1 DEF Mask
        <5> QED
          BY <5>1, <5>2, PolicyAssumption DEF TypesIn, TypesOf
      <4> QED
        BY <4>1
    <3>3. Edited(granted.items, spots, child, req) \in Seq(Entry)
      BY <1>1, <1>2, <3>2, EditTyped
    <3> QED
      BY <3>1, <3>3
  <2>2. CASE losses' \cap {"overlap", "short"} # {}
    BY <1>1, <1>3, <2>2
  <2> QED
    BY <2>1, <2>2
<1>10. losses' \cap {"overlap", "short"} = {} => SameLists(items', granted'.items)
  <2> SUFFICES ASSUME losses' \cap {"overlap", "short"} = {} PROVE SameLists(items', granted'.items)
    OBVIOUS
  <2>1. SameLists(o.list, granted.items)
    BY <1>1, <1>2, <1>7, AlikeToo
  <2> QED
    BY <1>1, <1>2, <1>3, <1>9, <2>1, EditAlike
<1>11. losses' = {} => TypesIn(items', {Wanted})
  <2> SUFFICES ASSUME losses' = {} PROVE TypesIn(items', {Wanted})
    OBVIOUS
  <2>1. SameLists(o.list, items) /\ TypesIn(items, {{}}) /\ TypesIn(items, {Wanted})
    BY <1>1, <1>2, <1>7
  <2>2. TypesIn(o.list, {Wanted})
    BY <1>1, <1>2, <2>1, LostNone
  <2> QED
    BY <1>2, <1>3, <2>2, EditTyped
<1>12. losses' \subseteq {"types"} => masks' = granted'.masks
  BY <1>1, <1>7, <1>9
<1>13. ListsInv'
  BY <1>8, <1>9, <1>10, <1>11, <1>12 DEF ListsInv
<1> QED
  BY <1>5, <1>6, <1>8, <1>9, <1>13

LEMMA ItemsChanged ==
  ASSUME PolicyInv, NEW t \in Changers, ProcessFilter_Change(t)
  PROVE  PolicyInv'
<1> DEFINE r == op[t].req
           s == op[t].list
           Same == items' = items /\ version' = version /\ losses' = losses /\ granted' = granted
           Exchanged == \E child : ProcessFilter_Exchange(t, Spots(s, r), child, r)
<1>1. /\ died = "no" /\ op[t].kind = "items" /\ op' = [op EXCEPT ![t] = Idle]
      /\ masks' = masks /\ changes' = changes
  BY DEF ProcessFilter_Change
<1>2. Same \/ Exchanged
  BY DEF ProcessFilter_Change
<1>3. /\ died' \in {"no", "no_clone", "null_name", "freed_link"}
      /\ missed' \subseteq {"RemoveId", "RemoveEntry", "AddEntry"}
  <2>1. missed \subseteq {"RemoveId", "RemoveEntry", "AddEntry"}
    BY DEF PolicyInv, PolicyTypeOK
  <2>2. missed' = missed \/ (missed' = missed \cup {r.op} /\ r.op \in {"RemoveId", "RemoveEntry", "AddEntry"})
    BY DEF ProcessFilter_Change
  <2>3. died' = died \/ died' \in {"null_name", "freed_link"}
    BY DEF ProcessFilter_Change
  <2> QED
    BY <1>1, <2>1, <2>2, <2>3
<1>4. /\ ListsInv' /\ ItemsMove /\ MasksMove
      /\ items' \in Seq(Entry) /\ granted'.items \in Seq(Entry) /\ granted'.masks = granted.masks
      /\ version' \in [items : Nat, masks : Nat] /\ losses' \subseteq {"types", "short", "exclude", "overlap"}
  <2>1. CASE Exchanged
    BY <1>1, <2>1, ExchangeKeeps
  <2>2. CASE Same
    BY <1>1, <2>2 DEF PolicyInv, PolicyTypeOK, ListsInv, ItemsMove, MasksMove, TypesIn, SameLists
  <2> QED
    BY <1>2, <2>1, <2>2
<1>5. OpsInv' /\ \A u \in Changers : op'[u] = Idle \/ op'[u].kind \in {"items", "masks"}
  BY <1>1, <1>4, OpsStep
<1>6. PolicyTypeOK'
  BY <1>1, <1>3, <1>4, <1>5 DEF PolicyInv, PolicyTypeOK
<1> QED
  BY <1>4, <1>5, <1>6 DEF PolicyInv
LEMMA MasksEditedTyped ==
  ASSUME NEW l \in MaskLists, NEW r, MaskReq(r)
  PROVE  MasksEdited(l, r) \in MaskLists
<1>1. l.inc \in Seq(Wildcards) /\ l.exc \in Seq(Wildcards) /\ r.mask \in Wildcards
  BY DEF MaskLists, MaskReq
<1>2. CASE r.op = "Add"
  <2>1. Append(l.inc, r.mask) \in Seq(Wildcards) /\ Append(l.exc, r.mask) \in Seq(Wildcards)
    BY <1>1
  <2>2. \/ MasksEdited(l, r) = [l EXCEPT !.inc = Append(@, r.mask)]
        \/ MasksEdited(l, r) = [l EXCEPT !.exc = Append(@, r.mask)]
    BY <1>2 DEF MaskReq, MasksEdited, Side
  <2> QED
    BY <2>1, <2>2 DEF MaskLists
<1>3. CASE r.op # "Add"
  <2>1. MasksEdited(l, r) = [inc |-> Kept(l.inc, {i \in DOMAIN l.inc : l.inc[i] = r.mask}),
                             exc |-> Kept(l.exc, {i \in DOMAIN l.exc : l.exc[i] = r.mask})]
    BY <1>3 DEF MasksEdited
  <2>2. \A m \in Seq(Wildcards) : Kept(m, {i \in DOMAIN m : m[i] = r.mask}) \in Seq(Wildcards)
    BY KeptFrom
  <2> QED
    BY <1>1, <2>1, <2>2 DEF MaskLists
<1> QED
  BY <1>2, <1>3

LEMMA MasksChanged ==
  ASSUME PolicyInv, NEW t \in Changers, GlobalFilter_Change(t)
  PROVE  PolicyInv'
<1> DEFINE r == op[t].req
           l == op[t].list
           lost == op[t].lost
           Left == /\ granted' = [granted EXCEPT !.masks = MasksEdited(@, r)]
                   /\ MasksEdited(l, r) = l
                   /\ losses' = losses \cup (IF granted'.masks # granted.masks THEN lost \cup Overlap(t) ELSE {})
                   /\ masks' = masks /\ version' = version /\ died' = died
           Exchanged == /\ granted' = [granted EXCEPT !.masks = MasksEdited(@, r)]
                        /\ masks' = MasksEdited(l, r)
                        /\ version' = [version EXCEPT !.masks = @ + 1]
                        /\ losses' = losses \cup lost \cup Overlap(t)
                        /\ died' = died
           Died == /\ died' = "freed_link"
                   /\ masks' = masks /\ version' = version /\ losses' = losses /\ granted' = granted
<1>1. /\ died = "no" /\ op[t].kind = "masks" /\ op' = [op EXCEPT ![t] = Idle]
      /\ items' = items /\ missed' = missed /\ changes' = changes
  BY DEF GlobalFilter_Change
<1>2. Left \/ Exchanged \/ Died
  BY DEF GlobalFilter_Change
<1>3. /\ items \in Seq(Entry) /\ granted.items \in Seq(Entry)
      /\ masks \in MaskLists /\ granted.masks \in MaskLists
      /\ version \in [items : Nat, masks : Nat]
      /\ losses \subseteq {"types", "short", "exclude", "overlap"}
      /\ granted = [items |-> granted.items, masks |-> granted.masks]
      /\ losses \subseteq {"types"} => masks = granted.masks
  BY DEF PolicyInv, PolicyTypeOK, ListsInv
<1>4. /\ MaskReq(r) /\ l \in MaskLists /\ lost \subseteq {"exclude", "short"}
      /\ op[t].ver = version.masks /\ lost = {} => l = masks
  BY <1>1 DEF PolicyInv, OpsInv, MaskOp
<1>5. Overlap(t) \subseteq {"overlap"} /\ (op[t].ver # version.masks => Overlap(t) = {"overlap"})
  BY <1>1 DEF Overlap
<1>6. MasksEdited(l, r) \in MaskLists /\ MasksEdited(granted.masks, r) \in MaskLists
  BY <1>3, <1>4, MasksEditedTyped
<1>7. /\ Left \/ Exchanged => /\ granted' = [items |-> granted.items, masks |-> MasksEdited(granted.masks, r)]
                            /\ granted'.masks = MasksEdited(granted.masks, r)
      /\ granted'.items = granted.items /\ granted'.masks \in MaskLists
      /\ granted' = [items |-> granted'.items, masks |-> granted'.masks]
  <2>1. CASE Left \/ Exchanged
    <3>1. granted' = [items |-> granted.items, masks |-> MasksEdited(granted.masks, r)]
      BY <1>3, <2>1
    <3> QED
      BY <1>6, <3>1
  <2>2. CASE Died
    BY <1>3, <1>6, <2>2
  <2> QED
    BY <1>2, <2>1, <2>2
<1>8. /\ masks' \in MaskLists /\ version' \in [items : Nat, masks : Nat] /\ ItemsMove /\ MasksMove
      /\ died' \in {"no", "no_clone", "null_name", "freed_link"}
  BY <1>1, <1>2, <1>3, <1>6 DEF ItemsMove, MasksMove
<1>9. losses' \subseteq {"types", "short", "exclude", "overlap"} /\ losses \subseteq losses'
  BY <1>2, <1>3, <1>4, <1>5
<1>10. ASSUME losses' \subseteq {"types"} PROVE masks' = granted'.masks
  <2>1. losses \subseteq {"types"} /\ masks = granted.masks
    BY <1>3, <1>9, <1>10
  <2>2. ASSUME lost \cup Overlap(t) \subseteq {"types"} PROVE l = granted.masks
    <3>1. lost = {} /\ op[t].ver = version.masks
      BY <1>4, <1>5, <2>2
    <3> QED
      BY <1>4, <2>1, <3>1
  <2>3. CASE Left
    <3>1. CASE granted'.masks = granted.masks
      BY <2>1, <2>3, <3>1
    <3>2. CASE granted'.masks # granted.masks
      <4>1. lost \cup Overlap(t) \subseteq {"types"}
        BY <1>10, <2>3, <3>2
      <4>2. MasksEdited(granted.masks, r) = granted.masks
        BY <2>2, <2>3, <4>1
      <4> QED
        BY <1>7, <2>3, <3>2, <4>2
    <3> QED
      BY <3>1, <3>2
  <2>4. CASE Exchanged
    <3>1. lost \cup Overlap(t) \subseteq {"types"}
      BY <1>10, <2>4
    <3> QED
      BY <1>7, <2>2, <2>4, <3>1
  <2>5. CASE Died
    BY <2>1, <2>5
  <2> QED
    BY <1>2, <2>3, <2>4, <2>5
<1>11. ListsInv'
  <2>1. losses' \cap {"overlap", "short"} = {} => SameLists(items', granted'.items)
    <3>1. losses \cap {"overlap", "short"} = {} => SameLists(items, granted.items)
      BY DEF PolicyInv, ListsInv
    <3> QED
      BY <1>1, <1>7, <1>9, <3>1
  <2>2. TypesIn(items', {{}, Wanted}) /\ (losses' = {} => TypesIn(items', {Wanted}))
    BY <1>1, <1>9 DEF PolicyInv, ListsInv
  <2> QED
    BY <1>7, <1>10, <2>1, <2>2 DEF ListsInv
<1>12. OpsInv' /\ \A u \in Changers : op'[u] = Idle \/ op'[u].kind \in {"items", "masks"}
  BY <1>1, <1>8, OpsStep
<1>13. PolicyTypeOK'
  BY <1>1, <1>3, <1>7, <1>8, <1>9, <1>12 DEF PolicyInv, PolicyTypeOK
<1> QED
  BY <1>11, <1>12, <1>13 DEF PolicyInv

LEMMA MasksReset ==
  ASSUME PolicyInv, NEW t \in Changers, GlobalFilter_Reset(t)
  PROVE  PolicyInv'
<1>1. /\ masks' = [inc |-> <<>>, exc |-> <<>>] /\ granted' = [granted EXCEPT !.masks = masks']
      /\ version' = [version EXCEPT !.masks = @ + 1] /\ changes < MaxChanges /\ changes' = changes + 1
      /\ items' = items /\ op' = op /\ died' = died /\ missed' = missed /\ losses' = losses
  BY DEF GlobalFilter_Reset
<1>2. /\ PolicyTypeOK /\ OpsInv /\ ListsInv /\ version \in [items : Nat, masks : Nat]
      /\ granted = [items |-> granted.items, masks |-> granted.masks]
  BY DEF PolicyInv, PolicyTypeOK, ListsInv
<1>3. masks' \in MaskLists
  BY <1>1 DEF MaskLists
<1>4. granted' = [items |-> granted.items, masks |-> masks']
  BY <1>1, <1>2
<1>5. version' \in [items : Nat, masks : Nat] /\ ItemsMove /\ MasksMove
  BY <1>1, <1>2 DEF ItemsMove, MasksMove
<1>6. changes' \in 0 .. MaxChanges
  BY <1>1, <1>2, PolicyAssumption DEF PolicyTypeOK
<1>7. OpsInv'
  <2>1. \A u \in Changers : ItemOp(u)' /\ MaskOp(u)'
    BY <1>1, <1>5, OpStays
  <2> QED
    BY <1>1, <1>2, <2>1 DEF OpsInv
<1>8. ListsInv'
  <2>1. granted'.items = granted.items /\ granted'.masks = masks'
    BY <1>4
  <2> QED
    BY <1>1, <1>2, <1>4, <2>1 DEF ListsInv, SameLists, TypesIn
<1>9. PolicyTypeOK'
  <2>1. granted'.items = granted.items /\ granted'.masks = masks'
    BY <1>4
  <2> QED
    BY <1>1, <1>2, <1>3, <1>5, <1>6, <2>1 DEF PolicyTypeOK
<1> QED
  BY <1>7, <1>8, <1>9 DEF PolicyInv

LEMMA ItemsReset ==
  ASSUME PolicyInv, NEW t \in Changers, ProcessFilter_Reset(t)
  PROVE  PolicyInv'
<1>1. /\ items' = <<>> /\ granted' = [granted EXCEPT !.items = <<>>]
      /\ version' = [version EXCEPT !.items = @ + 1] /\ changes < MaxChanges /\ changes' = changes + 1
      /\ masks' = masks /\ op' = op /\ died' = died /\ missed' = missed /\ losses' = losses
  BY DEF ProcessFilter_Reset
<1>2. /\ PolicyTypeOK /\ OpsInv /\ ListsInv /\ version \in [items : Nat, masks : Nat]
      /\ granted = [items |-> granted.items, masks |-> granted.masks]
  BY DEF PolicyInv, PolicyTypeOK, ListsInv
<1>3. items' \in Seq(Entry)
  BY <1>1
<1>4. granted' = [items |-> <<>>, masks |-> granted.masks]
  BY <1>1, <1>2
<1>5. version' \in [items : Nat, masks : Nat] /\ ItemsMove /\ MasksMove
  BY <1>1, <1>2 DEF ItemsMove, MasksMove
<1>6. changes' \in 0 .. MaxChanges
  BY <1>1, <1>2, PolicyAssumption DEF PolicyTypeOK
<1>7. OpsInv'
  <2>1. \A u \in Changers : ItemOp(u)' /\ MaskOp(u)'
    BY <1>1, <1>5, OpStays
  <2> QED
    BY <1>1, <1>2, <2>1 DEF OpsInv
<1>8. ListsInv'
  <2>1. granted'.items = items' /\ granted'.masks = granted.masks
    BY <1>1, <1>4
  <2>2. SameLists(items', items') /\ \A T : TypesIn(items', T)
    BY <1>1 DEF SameLists, TypesIn
  <2> QED
    BY <1>1, <1>2, <1>4, <2>1, <2>2 DEF ListsInv
<1>9. PolicyTypeOK'
  <2>1. granted'.items = items' /\ granted'.masks = granted.masks
    BY <1>1, <1>4
  <2> QED
    BY <1>1, <1>2, <1>3, <1>5, <1>6, <2>1 DEF PolicyTypeOK
<1> QED
  BY <1>7, <1>8, <1>9 DEF PolicyInv

LEMMA PolicyInvStep == PolicyInv /\ [PolicyNext]_policyVars => PolicyInv'
<1> SUFFICES ASSUME PolicyInv, [PolicyNext]_policyVars PROVE PolicyInv'
  OBVIOUS
<1>1. ASSUME NEW t \in Changers,
             \/ ProcessFilter_Add(t) \/ ProcessFilter_RemoveByID(t)
             \/ ProcessFilter_RemoveByPID(t) \/ ProcessFilter_RemoveByMask(t)
             \/ ProcessFilter_AddEntry(t) \/ ProcessFilter_RemoveEntry(t)
      PROVE  PolicyInv'
  <2>1. ASSUME NEW id \in Ids, NEW e \in Selectors,
               ProcessFilter_Clone(t, [op |-> "Add", entry |-> [id |-> id, sel |-> e, inc |-> <<>>, exc |-> <<>>]])
        PROVE  PolicyInv'
    <3>1. [id |-> id, sel |-> e, inc |-> <<>>, exc |-> <<>>] \in Entry
      BY DEF Entry
    <3>2. ItemReq([op |-> "Add", entry |-> [id |-> id, sel |-> e, inc |-> <<>>, exc |-> <<>>]])
      BY <3>1 DEF ItemReq
    <3> QED
      BY <2>1, <3>2, ItemsCloned
  <2>2. ASSUME NEW req, req.op \in {"RemoveId", "RemovePid", "RemoveMask"}, ProcessFilter_Clone(t, req)
        PROVE  PolicyInv'
    <3>1. ItemReq(req)
      BY <2>2 DEF ItemReq
    <3> QED
      BY <2>2, <3>1, ItemsCloned
  <2>3. ASSUME NEW parent \in Ids, NEW id \in Ids, NEW m \in Wildcards, NEW include \in BOOLEAN,
               ProcessFilter_Clone(t, [op |-> "AddEntry", parent |-> parent, include |-> include,
                                       mask |-> [id |-> id, types |-> Wanted, files |-> m]])
        PROVE  PolicyInv'
    <3>1. [id |-> id, types |-> Wanted, files |-> m] \in Mask
      BY PolicyAssumption DEF Mask
    <3>2. ItemReq([op |-> "AddEntry", parent |-> parent, include |-> include,
                   mask |-> [id |-> id, types |-> Wanted, files |-> m]])
      BY <3>1 DEF ItemReq
    <3> QED
      BY <2>3, <3>2, ItemsCloned
  <2>4. ASSUME NEW parent \in Ids, NEW id \in Ids, NEW include \in BOOLEAN,
               ProcessFilter_Clone(t, [op |-> "RemoveEntry", parent |-> parent, id |-> id, include |-> include])
        PROVE  PolicyInv'
    <3>1. ItemReq([op |-> "RemoveEntry", parent |-> parent, id |-> id, include |-> include])
      BY DEF ItemReq
    <3> QED
      BY <2>4, <3>1, ItemsCloned
  <2>5. ASSUME ProcessFilter_RemoveByID(t) \/ ProcessFilter_RemoveByPID(t) \/ ProcessFilter_RemoveByMask(t)
        PROVE  \E req : req.op \in {"RemoveId", "RemovePid", "RemoveMask"} /\ ProcessFilter_Clone(t, req)
    <3>1. \A x : /\ [op |-> "RemoveId", id |-> x].op = "RemoveId"
                 /\ [op |-> "RemovePid", pid |-> x].op = "RemovePid"
                 /\ [op |-> "RemoveMask", names |-> x].op = "RemoveMask"
      OBVIOUS
    <3>2. CASE ProcessFilter_RemoveByID(t)
      BY <3>1, <3>2 DEF ProcessFilter_RemoveByID
    <3>3. CASE ProcessFilter_RemoveByPID(t)
      BY <3>1, <3>3 DEF ProcessFilter_RemoveByPID
    <3>4. CASE ProcessFilter_RemoveByMask(t)
      BY <3>1, <3>4 DEF ProcessFilter_RemoveByMask
    <3> QED
      BY <2>5, <3>2, <3>3, <3>4
  <2>6. CASE ProcessFilter_Add(t)
    BY <2>1, <2>6, Zenon DEF ProcessFilter_Add
  <2>7. CASE ProcessFilter_AddEntry(t)
    BY <2>3, <2>7, Zenon DEF ProcessFilter_AddEntry
  <2>8. CASE ProcessFilter_RemoveEntry(t)
    BY <2>4, <2>8, Zenon DEF ProcessFilter_RemoveEntry
  <2>9. CASE ProcessFilter_RemoveByID(t) \/ ProcessFilter_RemoveByPID(t) \/ ProcessFilter_RemoveByMask(t)
    <3>1. PICK req : req.op \in {"RemoveId", "RemovePid", "RemoveMask"} /\ ProcessFilter_Clone(t, req)
      BY <2>5, <2>9
    <3> QED
      BY <2>2, <3>1
  <2> QED
    BY <1>1, <2>6, <2>7, <2>8, <2>9
<1>2. ASSUME NEW t \in Changers, GlobalFilter_Add(t) \/ GlobalFilter_Remove(t)
      PROVE  PolicyInv'
  <2>1. ASSUME NEW req, MaskReq(req), GlobalFilter_Clone(t, req) PROVE PolicyInv'
    BY <2>1, MasksCloned
  <2>2. \A m \in Wildcards, include \in BOOLEAN : MaskReq([op |-> "Add", mask |-> m, include |-> include])
    BY DEF MaskReq
  <2>3. \A m \in Wildcards : MaskReq([op |-> "Remove", mask |-> m])
    BY DEF MaskReq
  <2> QED
    BY <1>2, <2>1, <2>2, <2>3 DEF GlobalFilter_Add, GlobalFilter_Remove
<1>3. ASSUME NEW t \in Changers,
             \/ GlobalFilter_Reset(t) \/ ProcessFilter_Reset(t)
             \/ ProcessFilter_Change(t) \/ GlobalFilter_Change(t)
      PROVE  PolicyInv'
  BY <1>3, MasksReset, ItemsReset, ItemsChanged, MasksChanged
<1>4. CASE UNCHANGED policyVars
  BY <1>4 DEF policyVars, PolicyInv, PolicyTypeOK, OpsInv, ItemOp, MaskOp, ListsInv, TypesIn, SameLists, Overlap
<1> QED
  BY <1>1, <1>2, <1>3, <1>4 DEF PolicyNext

LEMMA PolicyInvariant == PolicySpec => []PolicyInv
<1> QED
  BY PolicyInvInit, PolicyInvStep, PTL DEF PolicySpec

\* The decisions follow from the invariant.
LEMMA AskedFor == PolicyInv => PolicyAsAsked
<1> SUFFICES ASSUME PolicyInv PROVE PolicyAsAsked
  OBVIOUS
<1>1. /\ PolicyTypeOK /\ items \in Seq(Entry) /\ granted.items \in Seq(Entry)
      /\ losses \cap {"overlap", "short"} = {} => SameLists(items, granted.items)
      /\ losses \subseteq {"types"} => masks = granted.masks
      /\ TypesIn(items, {{}, Wanted}) /\ (losses = {} => TypesIn(items, {Wanted}))
  BY DEF PolicyInv, PolicyTypeOK, ListsInv
<1>2. EntriesAsAsked
  BY <1>1, OutlineSame DEF EntriesAsAsked
<1>3. DecisionAsAsked
  BY <1>1, Decides DEF DecisionAsAsked
<1>4. TypesLossContained
  <2> SUFFICES ASSUME losses \subseteq {"types"}, NEW ev \in Events, NEW p \in Raisers, NEW f \in Files,
                      ~(CheckEventTo(items, masks, ev, p, f) <=> AskedConcern(ev, p, f))
               PROVE  /\ ev \in {"CREATE", "SET_INFORMATION"} /\ p # System
                      /\ \E i \in DOMAIN items : \E k \in DOMAIN (items[i].inc \o items[i].exc) :
                            (items[i].inc \o items[i].exc)[k].types = {}
    BY DEF TypesLossContained
  <2>1. ~(p # System /\ ev \in {"CREATE", "SET_INFORMATION"} => TypesIn(items, {Wanted}))
    BY <1>1, Decides
  <2>2. PICK i \in 1 .. Len(items) : ~(TypesOf(items[i].inc, {Wanted}) /\ TypesOf(items[i].exc, {Wanted}))
    BY <2>1 DEF TypesIn
  <2>3. /\ items[i].inc \in Seq(Mask) /\ items[i].exc \in Seq(Mask) /\ i \in DOMAIN items
        /\ TypesOf(items[i].inc, {{}, Wanted}) /\ TypesOf(items[i].exc, {{}, Wanted})
    <3>1. items[i] \in Entry /\ i \in DOMAIN items
      BY <1>1
    <3> QED
      BY <1>1, <3>1 DEF Entry, TypesIn
  <2> DEFINE both == items[i].inc \o items[i].exc
  <2>4. Joined(both, items[i].inc, items[i].exc)
    BY <2>3, JoinedAt
  <2> HIDE DEF both
  <2>5. \E k \in DOMAIN both : both[k].types = {}
    <3>1. CASE ~TypesOf(items[i].inc, {Wanted})
      BY <2>3, <2>4, <3>1 DEF Joined, TypesOf
    <3>2. CASE ~TypesOf(items[i].exc, {Wanted})
      BY <2>3, <2>4, <3>2 DEF Joined, TypesOf
    <3> QED
      BY <2>2, <3>1, <3>2
  <2> QED
    BY <2>1, <2>3, <2>5 DEF both
<1> QED
  BY <1>1, <1>2, <1>3, <1>4 DEF PolicyAsAsked

\* Whatever changes of the policies overlap or run out of memory: the entries in force, and
\* every decision of CheckEventTo, are what the client's successful calls asked for, until a
\* clone that lost something, or an exchange of an overtaken one, came into force; and the
\* loss of the kinds of event changes only the decisions on masks that had them.
THEOREM DecidesAsAsked == PolicySpec => []PolicyAsAsked
<1> QED
  BY PolicyInvariant, AskedFor, PTL
=============================================================================
