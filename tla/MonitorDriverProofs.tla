-------------------------- MODULE MonitorDriverProofs --------------------------
(***************************************************************************)
(* Proofs about the monitor's strings, event queue and control device, and *)
(* about how the drivers are loaded and unloaded.                          *)
(*                                                                         *)
(* The wildcard match, for texts and masks of any length: neither pointer  *)
(* passes its terminator; every step leads on, so that the match ends      *)
(* whatever the mask; and its answer is right, though of all the stars     *)
(* only the last is tried again.                                           *)
(*                                                                         *)
(* The queue, for any number of producers, collectors and items, and       *)
(* whoever appends an item: while no item has been linked twice, the links *)
(* run through a sequence of distinct items, forwards and backwards, and   *)
(* the counter is its length, up to the items on their way and to failed   *)
(* allocations; while none has left before it was filled in either, what   *)
(* is in the list or was taken from it by one thread has not been freed.   *)
(* So memory is touched after it was freed for the known reasons only, and *)
(* where items are linked once, by the caller, every item leaves the queue *)
(* once and whole.                                                         *)
(*                                                                         *)
(* The drivers' lives, for any number of threads that call them and of     *)
(* clients: how far a stage has come says which parts are there, and a     *)
(* call is in the driver only while what makes the system call is.         *)
(*                                                                         *)
(* The control device, for any number of programs, policies and events and *)
(* in any width: what it answers is true.                                  *)
(***************************************************************************)
EXTENDS StringLib, NotifyQueue, DriverLife, MonitorControl,
        WellFoundedInduction, FiniteSetTheorems, SequenceTheorems, TLAPS

-----------------------------------------------------------------------------
(* Numbers. *)

\* A set of numbers has a least one: what an induction over them needs.
LEMMA LeastElement ==
    ASSUME NEW T, T \subseteq Nat, T # {}
    PROVE  \E x \in T : \A y \in T : x <= y
<1>1. \E x \in T : \A y \in T : ~(<<y, x>> \in OpToRel(<, Nat))
  BY NatLessThanWellFounded, WFMin, Zenon
<1>2. PICK x \in T : \A y \in T : ~(<<y, x>> \in OpToRel(<, Nat))
  BY <1>1
<1>3. ASSUME NEW y \in T PROVE x <= y
  <2>1. <<y, x>> \notin {xy \in Nat \X Nat : xy[1] < xy[2]}
    BY <1>2, Zenon DEF OpToRel
  <2>2. ~(y < x)
    BY <2>1
  <2> QED BY <2>2
<1> QED BY <1>2, <1>3

-----------------------------------------------------------------------------
(* The wildcard match. *)

(* Where the pointers may be, and where the match may start over: behind a *)
(* star that has been passed, at most one character past the text's        *)
(* pointer.  InBounds alone does not say that the pattern's place to start *)
(* over lies within the pattern.                                           *)
WildInv ==
    Wild => /\ s \in Seq(STRING) /\ \A k \in 1..Len(s) : s[k] # "NUL"
            /\ p \in Seq(STRING)
            /\ i \in 0..Len(s) /\ j \in 0..Len(p)
            /\ \/ mp = -1 /\ cp = -1
               \/ mp \in 1..j /\ cp \in 1..(i + 1)

(* What a read of the text and of the pattern may give. *)
LEMMA ReadsOfText ==
  ASSUME WildInv, Wild, i < Len(s)
  PROVE  At(s, i) # "NUL" /\ Up(At(s, i)) # "NUL"
<1>1. i + 1 \in 1..Len(s) /\ i # Len(s)
  BY DEF WildInv
<1>2. At(s, i) = s[i + 1]
  BY <1>1 DEF At
<1>3. At(s, i) # "NUL"
  BY <1>1, <1>2 DEF WildInv
<1> QED
  BY <1>3 DEF Up

(* The terminator of the pattern is no star, no question mark, and the same *)
(* as no character of the text, so the pattern's pointer stays on it.       *)
LEMMA EndOfPattern ==
  ASSUME WildInv, Wild, j = Len(p)
  PROVE  /\ At(p, j) # "*"
         /\ i < Len(s) => ~SameChar(At(s, i), At(p, j))
<1>1. At(p, j) = "NUL"
  BY DEF At, NUL
<1>2. Up(At(p, j)) = "NUL"
  BY <1>1 DEF Up
<1> QED
  BY <1>1, <1>2, ReadsOfText DEF SameChar

(* What one turn of the loop does, case by case. *)
LEMMA MatchTurn ==
  ASSUME WildInv, WildcardMatch
  PROVE  /\ UNCHANGED << fn, s, p >>
         /\ WildInv'
         /\ StepAdvances
<1> DEFINE more == i < Len(s)
<1>0. /\ Wild /\ UNCHANGED << fn, s, p >> /\ Wild' /\ pc # "stars"
      /\ i \in 0..Len(s) /\ j \in 0..Len(p) /\ Len(s) \in Nat /\ Len(p) \in Nat
      /\ \/ mp = -1 /\ cp = -1
         \/ mp \in 1..j /\ cp \in 1..(i + 1)
  BY DEF WildcardMatch, WildInv, Wild, callVars
<1>1. CASE i = Len(s) /\ pc' = "stars" /\ UNCHANGED << i, j, wildVars, result >>
  BY <1>0, <1>1 DEF WildInv, StepAdvances, wildVars
<1>2. CASE /\ more /\ At(p, j) = "*" /\ j + 1 = Len(p)
           /\ Return(1) /\ j' = j + 1 /\ UNCHANGED << i, wildVars >>
  BY <1>0, <1>2 DEF WildInv, StepAdvances, wildVars, Return
<1>3. CASE /\ more /\ At(p, j) = "*" /\ j + 1 < Len(p)
           /\ j' = j + 1 /\ mp' = j + 1 /\ cp' = i + 1 /\ Continue /\ UNCHANGED i
  BY <1>0, <1>3 DEF WildInv, StepAdvances
<1>4. CASE /\ more /\ At(p, j) # "*" /\ SameChar(At(s, i), At(p, j))
           /\ i' = i + 1 /\ j' = j + 1 /\ Continue /\ UNCHANGED wildVars
  <2>1. j < Len(p)
    BY <1>0, <1>4, EndOfPattern
  <2> QED
    BY <1>0, <1>4, <2>1 DEF WildInv, StepAdvances, wildVars
<1>5. CASE Return(0) /\ UNCHANGED << i, j, wildVars >>
  BY <1>0, <1>5 DEF WildInv, StepAdvances, wildVars, Return
<1>6. CASE more /\ cp # NULLPTR /\ Retry /\ UNCHANGED mp
  BY <1>0, <1>6 DEF WildInv, StepAdvances, Retry, NULLPTR
<1> QED
  BY <1>0, <1>1, <1>2, <1>3, <1>4, <1>5, <1>6 DEF WildcardMatch

(* The stars left in the pattern when the text is read. *)
LEMMA StarsTurn ==
  ASSUME WildInv, TrailingStars
  PROVE  WildInv' /\ StepAdvances
<1>0. /\ Wild /\ UNCHANGED << fn, s, p, i, mp, cp >> /\ Wild'
      /\ j \in 0..Len(p) /\ Len(p) \in Nat
      /\ \/ mp = -1 /\ cp = -1
         \/ mp \in 1..j /\ cp \in 1..(i + 1)
  BY DEF TrailingStars, WildInv, Wild, callVars, wildVars
<1>1. CASE At(p, j) = "*" /\ j' = j + 1
  <2>1. j < Len(p)
    BY <1>0, <1>1, EndOfPattern
  <2> QED
    BY <1>0, <1>1, <2>1 DEF WildInv, StepAdvances
<1>2. CASE Return(IF j = Len(p) THEN 1 ELSE 0) /\ UNCHANGED j
  BY <1>0, <1>2 DEF WildInv, StepAdvances, Return
<1> QED
  BY <1>1, <1>2 DEF TrailingStars

(* The other functions are not a wildcard match, or have ended. *)
LEMMA OtherTurn ==
  ASSUME WildInv, Next, ~WildcardMatch, ~TrailingStars
  PROVE  WildInv' /\ StepAdvances
<1>1. CASE ProcessFilter_RemoveMask
  BY <1>1 DEF ProcessFilter_RemoveMask, WildInv, StepAdvances, Wild, callVars, wildVars
<1>2. CASE ~ProcessFilter_RemoveMask
  <2>1. fn \notin {"WildcardMatch", "WildcardMatchExact"} /\ fn' = fn
    BY <1>2 DEF Next, ReverseFindW, ForwardFindW, EndsWithStart, EndsWithW, StartsWithW, stricmp,
                stoulSign, stoul, ProcessFilter_AddMask, AddMaskTurn, AddMaskEnd, callVars
  <2> QED
    BY <2>1 DEF WildInv, StepAdvances, Wild
<1> QED
  BY <1>1, <1>2

LEMMA InitiallyInBounds == Init => WildInv
<1> SUFFICES ASSUME Init PROVE WildInv
  OBVIOUS
<1>1. s \in Texts \cup Patterns /\ p \in Texts \cup Patterns
  BY DEF Init
<1>2. s \in Seq(STRING) /\ p \in Seq(STRING) /\ \A k \in 1..Len(s) : s[k] # "NUL"
  BY <1>1, StringAssumption
<1> QED
  BY <1>2 DEF Init, WildInv, NULLPTR

LEMMA StepStaysInBounds == WildInv /\ [Next]_vars => WildInv'
<1> SUFFICES ASSUME WildInv, [Next]_vars PROVE WildInv'
  OBVIOUS
<1>1. CASE UNCHANGED vars
  BY <1>1 DEF WildInv, Wild, vars
<1> QED
  BY <1>1, MatchTurn, StarsTurn, OtherTurn

LEMMA WildInvariance == Spec => []WildInv
  BY InitiallyInBounds, StepStaysInBounds, PTL DEF Spec

(* Neither pointer of a wildcard match passes its terminator, and the place to  *)
(* start over is at most one past the text's pointer (WildcardMatch_straight):  *)
(* for texts and masks of any length.                                           *)
THEOREM StaysInBounds == Spec => []InBounds
<1>1. WildInv => InBounds
  BY DEF WildInv, InBounds
<1> QED
  BY <1>1, WildInvariance, PTL

(* Every step of a wildcard match passes a further star, tries the last one      *)
(* further on, or reads on; the pointers being bounded, the match ends whatever  *)
(* the mask, although its loop has no other bound (WildcardMatch_straight).      *)
THEOREM MatchAdvances == Spec => Advances
<1>1. WildInv /\ [Next]_vars => [StepAdvances]_vars
  BY MatchTurn, StarsTurn, OtherTurn
<1> QED
  BY <1>1, WildInvariance, PTL DEF Spec, Advances

-----------------------------------------------------------------------------
\* Place m of the mask may take character k of the text.
Takes(text, mask, m, k) == mask[m] \in {"*", "?"} \/ Up(mask[m]) = Up(text[k])

\* f gives the characters in T their places in M: Matches, for a part of the
\* text and a part of the mask.
Fits(text, mask, f, T, M) ==
    /\ f \in [T -> M]
    /\ \A k \in T : Takes(text, mask, f[k], k)
    /\ \A k, l \in T : k < l => f[k] < f[l] \/ (f[k] = f[l] /\ mask[f[k]] = "*")
    /\ \A m \in M : mask[m] # "*" => \E k \in T : f[k] = m

\* The first a characters fit the first b places; all but these fit all but those.
Passed(text, mask, a, b) == \E f : Fits(text, mask, f, 1..a, 1..b)
Ahead(text, mask, a, b) == \E f : Fits(text, mask, f, (a + 1)..Len(text), (b + 1)..Len(mask))

(* A star may take nothing. *)
LEMMA StarTakesNone ==
  ASSUME NEW text \in Seq(STRING), NEW mask \in Seq(STRING),
         NEW a \in 0..Len(text), NEW b \in 0..(Len(mask) - 1), Passed(text, mask, a, b), mask[b + 1] = "*"
  PROVE  Passed(text, mask, a, b + 1)
<1>1. PICK f : Fits(text, mask, f, 1..a, 1..b)
  BY DEF Passed
<1>2. Len(mask) \in Nat /\ 1..b \subseteq 1..(b + 1) /\ \A m \in 1..(b + 1) : m \in 1..b \/ m = b + 1
  OBVIOUS
<1>3. Fits(text, mask, f, 1..a, 1..(b + 1))
  BY <1>1, <1>2 DEF Fits
<1> QED
  BY <1>3 DEF Passed

(* A star may take any number of characters. *)
LEMMA StarTakes ==
  ASSUME NEW text \in Seq(STRING), NEW mask \in Seq(STRING),
         NEW a \in 0..Len(text), NEW c \in a..Len(text), NEW b \in 1..Len(mask),
         Passed(text, mask, a, b), mask[b] = "*"
  PROVE  Passed(text, mask, c, b)
<1>1. PICK f : Fits(text, mask, f, 1..a, 1..b)
  BY DEF Passed
<1> DEFINE g == [k \in 1..c |-> IF k <= a THEN f[k] ELSE b]
<1>2. Len(mask) \in Nat /\ Len(text) \in Nat /\ 1..a \subseteq 1..c /\ b \in 1..b
  OBVIOUS
<1>3. \A k \in 1..c : (k \in 1..a /\ g[k] = f[k]) \/ (k \notin 1..a /\ k > a /\ g[k] = b)
  BY <1>2
<1>4. g \in [1..c -> 1..b]
  BY <1>1, <1>2, <1>3 DEF Fits
<1>5. \A k \in 1..c : Takes(text, mask, g[k], k)
  BY <1>1, <1>3 DEF Fits, Takes
<1>6. \A k, l \in 1..c : k < l => g[k] < g[l] \/ (g[k] = g[l] /\ mask[g[k]] = "*")
  <2> SUFFICES ASSUME NEW k \in 1..c, NEW l \in 1..c, k < l
               PROVE  g[k] < g[l] \/ (g[k] = g[l] /\ mask[g[k]] = "*")
    OBVIOUS
  <2>1. CASE l \in 1..a
    BY <1>1, <1>3, <2>1 DEF Fits
  <2>2. CASE l \notin 1..a /\ k \in 1..a
    <3>1. f[k] \in 1..b
      BY <1>1, <2>2 DEF Fits
    <3> QED
      BY <1>3, <2>2, <3>1
  <2>3. CASE l \notin 1..a /\ k \notin 1..a
    BY <1>3, <2>3
  <2> QED
    BY <2>1, <2>2, <2>3
<1>7. \A m \in 1..b : mask[m] # "*" => \E k \in 1..c : g[k] = m
  BY <1>1, <1>2, <1>3 DEF Fits
<1>8. Fits(text, mask, g, 1..c, 1..b)
  BY <1>4, <1>5, <1>6, <1>7 DEF Fits
<1> QED
  BY <1>8 DEF Passed

(* A character is taken by the place it is compared with. *)
LEMMA CharTaken ==
  ASSUME NEW text \in Seq(STRING), NEW mask \in Seq(STRING),
         NEW a \in 0..(Len(text) - 1), NEW b \in 0..(Len(mask) - 1),
         Passed(text, mask, a, b), Takes(text, mask, b + 1, a + 1)
  PROVE  Passed(text, mask, a + 1, b + 1)
<1>1. PICK f : Fits(text, mask, f, 1..a, 1..b)
  BY DEF Passed
<1> DEFINE g == [k \in 1..(a + 1) |-> IF k <= a THEN f[k] ELSE b + 1]
<1>2. Len(mask) \in Nat /\ Len(text) \in Nat /\ 1..a \subseteq 1..(a + 1) /\ 1..b \subseteq 1..(b + 1)
      /\ \A m \in 1..(b + 1) : m \in 1..b \/ m = b + 1
  OBVIOUS
<1>3. \A k \in 1..(a + 1) : (k \in 1..a /\ g[k] = f[k] /\ f[k] \in 1..b) \/ (k = a + 1 /\ g[k] = b + 1)
  BY <1>1, <1>2 DEF Fits
<1>4. g \in [1..(a + 1) -> 1..(b + 1)]
  BY <1>2, <1>3
<1>5. \A k \in 1..(a + 1) : Takes(text, mask, g[k], k)
  BY <1>1, <1>3 DEF Fits
<1>6. \A k, l \in 1..(a + 1) : k < l => g[k] < g[l] \/ (g[k] = g[l] /\ mask[g[k]] = "*")
  <2> SUFFICES ASSUME NEW k \in 1..(a + 1), NEW l \in 1..(a + 1), k < l
               PROVE  g[k] < g[l] \/ (g[k] = g[l] /\ mask[g[k]] = "*")
    OBVIOUS
  <2>1. CASE l \in 1..a
    BY <1>1, <1>3, <2>1 DEF Fits
  <2>2. CASE l = a + 1
    BY <1>3, <2>2
  <2> QED
    BY <1>3, <2>1, <2>2
<1>7. \A m \in 1..(b + 1) : mask[m] # "*" => \E k \in 1..(a + 1) : g[k] = m
  BY <1>1, <1>2, <1>3 DEF Fits
<1>8. Fits(text, mask, g, 1..(a + 1), 1..(b + 1))
  BY <1>4, <1>5, <1>6, <1>7 DEF Fits
<1> QED
  BY <1>8 DEF Passed

(* What is left of a mask that begins with a character takes one. *)
LEMMA HeadTaken ==
  ASSUME NEW text \in Seq(STRING), NEW mask \in Seq(STRING),
         NEW a \in 0..Len(text), NEW b \in 0..(Len(mask) - 1), Ahead(text, mask, a, b), mask[b + 1] # "*"
  PROVE  a < Len(text) /\ Takes(text, mask, b + 1, a + 1) /\ Ahead(text, mask, a + 1, b + 1)
<1> DEFINE T == (a + 1)..Len(text)
           M == (b + 1)..Len(mask)
<1>1. PICK f : Fits(text, mask, f, T, M)
  BY DEF Ahead
<1>2. Len(mask) \in Nat /\ Len(text) \in Nat /\ b + 1 \in M
  OBVIOUS
<1>3. PICK k \in T : f[k] = b + 1
  BY <1>1, <1>2 DEF Fits
<1>4. a < Len(text) /\ a + 1 \in T
  BY <1>2, <1>3
<1>5. f[a + 1] \in M
  BY <1>1, <1>4 DEF Fits
<1>6. a + 1 = k
  <2> SUFFICES ASSUME a + 1 # k PROVE FALSE
    OBVIOUS
  <2>1. a + 1 < k
    BY <1>2, <1>3
  <2> QED
    BY <1>1, <1>2, <1>3, <1>4, <1>5, <2>1 DEF Fits
<1>7. Takes(text, mask, b + 1, a + 1)
  BY <1>1, <1>3, <1>4, <1>6 DEF Fits
<1> DEFINE T1 == (a + 1 + 1)..Len(text)
           M1 == (b + 1 + 1)..Len(mask)
           g == [l \in T1 |-> f[l]]
<1>8. T1 \subseteq T /\ M1 \subseteq M /\ (\A m \in M1 : m # b + 1) /\ \A l \in T : l = a + 1 \/ l \in T1
  BY <1>2
<1>9. \A l \in T1 : g[l] = f[l] /\ f[l] \in M1
  <2> SUFFICES ASSUME NEW l \in T1 PROVE f[l] \in M1
    OBVIOUS
  <2>1. f[l] \in M /\ a + 1 < l
    BY <1>1, <1>2, <1>8 DEF Fits
  <2>2. f[a + 1] < f[l]
    BY <1>1, <1>3, <1>4, <1>6, <1>8, <2>1 DEF Fits
  <2> QED
    BY <1>2, <1>3, <1>6, <2>1, <2>2
<1>10. Fits(text, mask, g, T1, M1)
  <2>1. g \in [T1 -> M1]
    BY <1>9
  <2>2. \A l \in T1 : Takes(text, mask, g[l], l)
    BY <1>1, <1>8, <1>9 DEF Fits
  <2>3. \A l, m \in T1 : l < m => g[l] < g[m] \/ (g[l] = g[m] /\ mask[g[l]] = "*")
    BY <1>1, <1>8, <1>9 DEF Fits
  <2>4. \A m \in M1 : mask[m] # "*" => \E l \in T1 : g[l] = m
    <3> SUFFICES ASSUME NEW m \in M1, mask[m] # "*" PROVE \E l \in T1 : g[l] = m
      OBVIOUS
    <3>1. PICK l \in T : f[l] = m
      BY <1>1, <1>8 DEF Fits
    <3>2. l # a + 1
      BY <1>3, <1>6, <1>8, <3>1
    <3> QED
      BY <1>8, <1>9, <3>1, <3>2
  <2> QED
    BY <2>1, <2>2, <2>3, <2>4 DEF Fits
<1> QED
  BY <1>4, <1>7, <1>10 DEF Ahead

(* A star at the head of what is left takes some characters, or none. *)
LEMMA StarTaken ==
  ASSUME NEW text \in Seq(STRING), NEW mask \in Seq(STRING),
         NEW a \in 0..Len(text), NEW b \in 0..(Len(mask) - 1), Ahead(text, mask, a, b), mask[b + 1] = "*"
  PROVE  \E c \in a..Len(text) : Ahead(text, mask, c, b + 1)
<1> DEFINE T == (a + 1)..Len(text)
           M == (b + 1)..Len(mask)
<1>1. PICK f : Fits(text, mask, f, T, M)
  BY DEF Ahead
<1>2. Len(mask) \in Nat /\ Len(text) \in Nat /\ b + 1 \in M
  OBVIOUS
<1> DEFINE Behind == {k \in T : f[k] # b + 1} \cup {Len(text) + 1}
<1>3. PICK n \in Behind : \A k \in Behind : n <= k
  <2>1. Behind \subseteq Nat /\ Behind # {}
    BY <1>2
  <2> HIDE DEF Behind
  <2> QED
    BY <2>1, LeastElement
<1>4. n \in Int /\ a + 1 <= n /\ n <= Len(text) + 1
  BY <1>2
<1> DEFINE T1 == (n - 1 + 1)..Len(text)
           M1 == (b + 1 + 1)..Len(mask)
           g == [l \in T1 |-> f[l]]
<1>5. T1 \subseteq T /\ M1 \subseteq M /\ \A l \in T1 : n <= l /\ n \in T
  BY <1>2, <1>4
<1>6. \A l \in T1 : g[l] = f[l] /\ f[l] \in M1
  <2> SUFFICES ASSUME NEW l \in T1 PROVE f[l] \in M1
    OBVIOUS
  <2>1. n \in T /\ f[n] # b + 1 /\ n <= l /\ l \in T
    BY <1>2, <1>4, <1>5
  <2>2. f[n] \in M /\ f[l] \in M
    BY <1>1, <2>1 DEF Fits
  <2>3. f[n] <= f[l]
    <3>1. CASE n = l
      BY <1>2, <2>2, <3>1
    <3>2. CASE n < l
      BY <1>1, <1>2, <2>1, <2>2, <3>2 DEF Fits
    <3> QED
      BY <1>4, <2>1, <3>1, <3>2
  <2> QED
    BY <1>2, <2>1, <2>2, <2>3
<1>7. Fits(text, mask, g, T1, M1)
  <2>1. g \in [T1 -> M1]
    BY <1>6
  <2>2. \A l \in T1 : Takes(text, mask, g[l], l)
    BY <1>1, <1>5, <1>6 DEF Fits
  <2>3. \A l, m \in T1 : l < m => g[l] < g[m] \/ (g[l] = g[m] /\ mask[g[l]] = "*")
    BY <1>1, <1>5, <1>6 DEF Fits
  <2>4. \A m \in M1 : mask[m] # "*" => \E l \in T1 : g[l] = m
    <3> SUFFICES ASSUME NEW m \in M1, mask[m] # "*" PROVE \E l \in T1 : g[l] = m
      OBVIOUS
    <3>1. PICK l \in T : f[l] = m
      BY <1>1, <1>5 DEF Fits
    <3>2. l \in Behind
      BY <1>2, <3>1
    <3>3. l \in T1
      BY <1>2, <1>3, <1>4, <3>1, <3>2
    <3> QED
      BY <1>6, <3>1, <3>3
  <2> QED
    BY <2>1, <2>2, <2>3, <2>4 DEF Fits
<1>8. n - 1 \in a..Len(text) /\ Ahead(text, mask, n - 1, b + 1)
  BY <1>2, <1>4, <1>7 DEF Ahead
<1> QED
  BY <1>8

(* Nothing is left for what has no mask. *)
LEMMA NoPlaceLeft ==
  ASSUME NEW text \in Seq(STRING), NEW mask \in Seq(STRING),
         NEW a \in 0..Len(text), Ahead(text, mask, a, Len(mask))
  PROVE  a = Len(text)
<1>1. PICK f : Fits(text, mask, f, (a + 1)..Len(text), (Len(mask) + 1)..Len(mask))
  BY DEF Ahead
<1>2. Len(mask) \in Nat /\ Len(text) \in Nat
  OBVIOUS
<1> SUFFICES ASSUME a < Len(text) PROVE FALSE
  BY <1>2
<1>3. a + 1 \in (a + 1)..Len(text)
  BY <1>2
<1>4. f[a + 1] \in (Len(mask) + 1)..Len(mask)
  BY <1>1, <1>3 DEF Fits
<1> QED
  BY <1>2, <1>4

(* Two halves of a match make one. *)
LEMMA Joined ==
  ASSUME NEW text \in Seq(STRING), NEW mask \in Seq(STRING),
         NEW a \in 0..Len(text), NEW b \in 0..Len(mask), Passed(text, mask, a, b), Ahead(text, mask, a, b)
  PROVE  \E f : Fits(text, mask, f, 1..Len(text), 1..Len(mask))
<1>1. PICK f : Fits(text, mask, f, 1..a, 1..b)
  BY DEF Passed
<1>2. PICK g : Fits(text, mask, g, (a + 1)..Len(text), (b + 1)..Len(mask))
  BY DEF Ahead
<1>3. Len(mask) \in Nat /\ Len(text) \in Nat
  OBVIOUS
<1> DEFINE h == [k \in 1..Len(text) |-> IF k <= a THEN f[k] ELSE g[k]]
<1>4. \A k \in 1..Len(text) :
        \/ k \in 1..a /\ h[k] = f[k] /\ f[k] \in 1..b
        \/ k \in (a + 1)..Len(text) /\ h[k] = g[k] /\ g[k] \in (b + 1)..Len(mask)
  BY <1>1, <1>2, <1>3 DEF Fits
<1>5. /\ \A k \in 1..a : k \in 1..Len(text) /\ h[k] = f[k]
      /\ \A k \in (a + 1)..Len(text) : k \in 1..Len(text) /\ h[k] = g[k]
      /\ \A m \in 1..Len(mask) : m \in 1..b \/ m \in (b + 1)..Len(mask)
  BY <1>3
<1>6. h \in [1..Len(text) -> 1..Len(mask)]
  BY <1>3, <1>4
<1>7. \A k \in 1..Len(text) : Takes(text, mask, h[k], k)
  BY <1>1, <1>2, <1>4 DEF Fits
<1>8. \A k, l \in 1..Len(text) : k < l => h[k] < h[l] \/ (h[k] = h[l] /\ mask[h[k]] = "*")
  <2> SUFFICES ASSUME NEW k \in 1..Len(text), NEW l \in 1..Len(text), k < l
               PROVE  h[k] < h[l] \/ (h[k] = h[l] /\ mask[h[k]] = "*")
    OBVIOUS
  <2>1. CASE l \in 1..a
    BY <1>1, <1>3, <1>4, <2>1 DEF Fits
  <2>2. CASE k \in (a + 1)..Len(text)
    BY <1>2, <1>3, <1>4, <2>2 DEF Fits
  <2>3. CASE k \in 1..a /\ l \in (a + 1)..Len(text)
    BY <1>3, <1>4, <2>3
  <2> QED
    BY <1>4, <2>1, <2>2, <2>3
<1>9. \A m \in 1..Len(mask) : mask[m] # "*" => \E k \in 1..Len(text) : h[k] = m
  BY <1>1, <1>2, <1>5 DEF Fits
<1>10. Fits(text, mask, h, 1..Len(text), 1..Len(mask))
  BY <1>6, <1>7, <1>8, <1>9 DEF Fits
<1> QED
  BY <1>10

(* Matches, in these terms. *)
LEMMA MatchesIsFits ==
  ASSUME NEW text \in Seq(STRING), NEW mask \in Seq(STRING)
  PROVE  /\ Matches(text, mask) <=> \E f : Fits(text, mask, f, 1..Len(text), 1..Len(mask))
         /\ Matches(text, mask) <=> Ahead(text, mask, 0, 0)
<1>1. DOMAIN text = 1..Len(text) /\ DOMAIN mask = 1..Len(mask)
      /\ (0 + 1)..Len(text) = 1..Len(text) /\ (0 + 1)..Len(mask) = 1..Len(mask)
  OBVIOUS
<1> DEFINE Body(f) ==
             /\ \A k \in DOMAIN text : mask[f[k]] \in {"*", "?"} \/ Up(mask[f[k]]) = Up(text[k])
             /\ \A k, l \in DOMAIN text : k < l => f[k] < f[l] \/ (f[k] = f[l] /\ mask[f[k]] = "*")
             /\ \A m \in DOMAIN mask : mask[m] # "*" => \E k \in DOMAIN text : f[k] = m
<1>2. Matches(text, mask) <=> \E f \in [DOMAIN text -> DOMAIN mask] : Body(f)
  BY DEF Matches
<1>3. Matches(text, mask)
        <=> \E f \in [1..Len(text) -> 1..Len(mask)] : Fits(text, mask, f, 1..Len(text), 1..Len(mask))
  <2>1. ASSUME NEW f \in [1..Len(text) -> 1..Len(mask)]
      PROVE  Body(f) <=> Fits(text, mask, f, 1..Len(text), 1..Len(mask))
    BY <1>1 DEF Fits, Takes
  <2> HIDE DEF Body
  <2>2. [DOMAIN text -> DOMAIN mask] = [1..Len(text) -> 1..Len(mask)]
    BY <1>1
  <2> QED
    BY <1>2, <2>1, <2>2
<1>4. (\E f \in [1..Len(text) -> 1..Len(mask)] : Fits(text, mask, f, 1..Len(text), 1..Len(mask)))
        <=> \E f : Fits(text, mask, f, 1..Len(text), 1..Len(mask))
  BY DEF Fits
<1>5. Ahead(text, mask, 0, 0) <=> \E f : Fits(text, mask, f, 1..Len(text), 1..Len(mask))
  BY <1>1 DEF Ahead
<1> QED
  BY <1>3, <1>4, <1>5

-----------------------------------------------------------------------------
(* The result of a wildcard match, by what is behind it and what is ahead. *)

(* What has been read fits what has been passed of the mask.  Behind a star, the   *)
(* characters from the place to start over on are compared with the mask from the  *)
(* star on, one by one; any other match that starts there comes through the same   *)
(* characters of the mask, so that at the next star it may be taken for one from    *)
(* here: this is why only the last star is kept.  A match there is has not been     *)
(* passed.                                                                          *)
MatchInv ==
    fn = "WildcardMatch" =>
        /\ pc \in {"start", "loop", "stars", "done"}
        /\ pc \in {"start", "loop", "stars"} => Passed(s, p, i, j)
        /\ pc \in {"start", "loop"} /\ cp # NULLPTR =>
              /\ p[mp] = "*" /\ Passed(s, p, cp - 1, mp)
              /\ i + 1 - cp = j - mp
              /\ \A k \in cp..Len(s) : Ahead(s, p, k, mp) =>
                    k + (j - mp) \in 0..Len(s) /\ Ahead(s, p, k + (j - mp), j)
        /\ pc \in {"start", "loop"} /\ Matches(s, p) =>
              \/ Ahead(s, p, i, j)
              \/ cp # NULLPTR /\ \E k \in cp..Len(s) : Ahead(s, p, k, mp)
        /\ pc = "stars" => i = Len(s) /\ (Matches(s, p) => Ahead(s, p, i, j))
        /\ pc = "done" => (result = 1 <=> Matches(s, p))

(* A comparison that succeeds is a character taken, one that fails is not. *)
LEMMA ComparisonTakes ==
  ASSUME WildInv, fn = "WildcardMatch", i < Len(s), At(p, j) # "*"
  PROVE  /\ j < Len(p) => (SameChar(At(s, i), At(p, j)) <=> Takes(s, p, j + 1, i + 1)) /\ p[j + 1] # "*"
         /\ j = Len(p) => ~SameChar(At(s, i), At(p, j))
<1>1. Wild /\ i \in 0..Len(s) /\ j \in 0..Len(p) /\ Len(s) \in Nat /\ Len(p) \in Nat
  BY DEF WildInv, Wild
<1>2. At(s, i) = s[i + 1] /\ (j < Len(p) => At(p, j) = p[j + 1])
  BY <1>1 DEF At
<1>3. j = Len(p) => ~SameChar(At(s, i), At(p, j))
  BY <1>1, EndOfPattern
<1>4. ASSUME j < Len(p) PROVE SameChar(At(s, i), At(p, j)) <=> Takes(s, p, j + 1, i + 1)
  <2>1. p[j + 1] # "*"
    BY <1>2, <1>4
  <2>2. Up(s[i + 1]) = Up(p[j + 1]) <=> Up(p[j + 1]) = Up(s[i + 1])
    OBVIOUS
  <2>3. SameChar(s[i + 1], p[j + 1]) <=> p[j + 1] = "?" \/ Up(s[i + 1]) = Up(p[j + 1])
    BY DEF SameChar
  <2>4. Takes(s, p, j + 1, i + 1) <=> p[j + 1] = "?" \/ Up(p[j + 1]) = Up(s[i + 1])
    BY <2>1 DEF Takes
  <2> QED
    BY <1>2, <1>4, <2>2, <2>3, <2>4
<1> QED
  BY <1>2, <1>3, <1>4

(* The invariant after a turn that goes on, by its parts. *)
LEMMA LoopGoesOn ==
  ASSUME UNCHANGED << fn, s, p >>, pc' = "loop",
         Passed(s, p, i', j'),
         cp' # NULLPTR =>
              /\ p[mp'] = "*" /\ Passed(s, p, cp' - 1, mp')
              /\ i' + 1 - cp' = j' - mp'
              /\ \A k \in cp'..Len(s) : Ahead(s, p, k, mp') =>
                    k + (j' - mp') \in 0..Len(s) /\ Ahead(s, p, k + (j' - mp'), j'),
         Matches(s, p) =>
              \/ Ahead(s, p, i', j')
              \/ cp' # NULLPTR /\ \E k \in cp'..Len(s) : Ahead(s, p, k, mp')
  PROVE  MatchInv'
  BY DEF MatchInv

(* A turn that passes a star. *)
LEMMA StarTurn ==
  ASSUME WildInv, WildInv', MatchInv, fn = "WildcardMatch", UNCHANGED << fn, s, p >>,
         pc \in {"start", "loop"}, i < Len(s), At(p, j) = "*", j + 1 < Len(p),
         j' = j + 1, mp' = j + 1, cp' = i + 1, Continue, UNCHANGED i
  PROVE  MatchInv'
<1>1. /\ s \in Seq(STRING) /\ p \in Seq(STRING) /\ Len(s) \in Nat /\ Len(p) \in Nat
      /\ i \in 0..Len(s) /\ j \in 0..(Len(p) - 1)
      /\ \/ mp = -1 /\ cp = -1
         \/ mp \in 1..j /\ cp \in 1..(i + 1)
  BY DEF WildInv, Wild
<1>2. p[j + 1] = "*"
  BY <1>1 DEF At
<1>3. Passed(s, p, i, j + 1)
  BY <1>1, <1>2, StarTakesNone DEF MatchInv
<1>4. ASSUME NEW a \in 0..Len(s), a >= i, Ahead(s, p, a, j)
      PROVE  \E k \in a..Len(s) : Ahead(s, p, k, j + 1)
  BY <1>1, <1>2, <1>4, StarTaken
<1>5. ASSUME Matches(s, p) PROVE \E k \in i..Len(s) : Ahead(s, p, k, j + 1)
  <2>1. CASE Ahead(s, p, i, j)
    BY <1>1, <1>4, <2>1
  <2>2. CASE cp # NULLPTR /\ \E k \in cp..Len(s) : Ahead(s, p, k, mp)
    <3>1. PICK k \in cp..Len(s) : Ahead(s, p, k, mp)
      BY <2>2
    <3> DEFINE a == k + (j - mp)
    <3>2. a \in 0..Len(s) /\ Ahead(s, p, a, j) /\ i + 1 - cp = j - mp
      BY <2>2, <3>1 DEF MatchInv
    <3>3. a >= i
      BY <1>1, <2>2, <3>1, <3>2 DEF NULLPTR
    <3>4. \E l \in a..Len(s) : Ahead(s, p, l, j + 1)
      BY <1>4, <3>2, <3>3
    <3> QED
      BY <1>1, <3>2, <3>3, <3>4
  <2> QED
    BY <1>5, <2>1, <2>2 DEF MatchInv
<1>6. ASSUME Matches(s, p) PROVE Ahead(s, p, i, j + 1) \/ \E k \in (i + 1)..Len(s) : Ahead(s, p, k, j + 1)
  <2>1. PICK k \in i..Len(s) : Ahead(s, p, k, j + 1)
    BY <1>5, <1>6
  <2>2. k = i \/ k \in (i + 1)..Len(s)
    BY <1>1
  <2> QED
    BY <2>1, <2>2
<1>7. \A k \in (i + 1)..Len(s) : k + ((j + 1) - (j + 1)) = k /\ k \in 0..Len(s)
  BY <1>1
<1>8. pc' = "loop" /\ i' = i /\ j' = j + 1 /\ mp' = j + 1 /\ cp' = i + 1
  BY DEF Continue
<1>9. \A k \in cp'..Len(s) : Ahead(s, p, k, mp') =>
          k + (j' - mp') \in 0..Len(s) /\ Ahead(s, p, k + (j' - mp'), j')
  <2> SUFFICES ASSUME NEW k \in (i + 1)..Len(s), Ahead(s, p, k, j + 1)
               PROVE  k + (j' - mp') \in 0..Len(s) /\ Ahead(s, p, k + (j' - mp'), j')
    BY <1>8
  <2>1. k + (j' - mp') = k
    BY <1>7, <1>8
  <2> QED
    BY <1>7, <1>8, <2>1
<1>10. Passed(s, p, i', j') /\ p[mp'] = "*" /\ Passed(s, p, cp' - 1, mp')
  <2>1. cp' - 1 = i
    BY <1>1, <1>8
  <2> QED
    BY <1>2, <1>3, <1>8, <2>1
<1>11. i' + 1 - cp' = j' - mp' /\ cp' # NULLPTR
  BY <1>1, <1>8 DEF NULLPTR
<1>12. Matches(s, p) => Ahead(s, p, i', j') \/ \E k \in cp'..Len(s) : Ahead(s, p, k, mp')
  BY <1>6, <1>8
<1> QED
  BY <1>8, <1>9, <1>10, <1>11, <1>12, LoopGoesOn

(* A turn that reads a character. *)
LEMMA CharTurn ==
  ASSUME WildInv, WildInv', MatchInv, fn = "WildcardMatch", UNCHANGED << fn, s, p >>,
         pc \in {"start", "loop"}, i < Len(s), At(p, j) # "*", SameChar(At(s, i), At(p, j)),
         i' = i + 1, j' = j + 1, Continue, UNCHANGED wildVars
  PROVE  MatchInv'
<1>1. /\ s \in Seq(STRING) /\ p \in Seq(STRING) /\ Len(s) \in Nat /\ Len(p) \in Nat
      /\ i \in 0..(Len(s) - 1) /\ j \in 0..Len(p)
      /\ \/ mp = -1 /\ cp = -1
         \/ mp \in 1..j /\ cp \in 1..(i + 1)
  BY DEF WildInv, Wild
<1>2. j \in 0..(Len(p) - 1) /\ p[j + 1] # "*" /\ Takes(s, p, j + 1, i + 1)
  BY <1>1, ComparisonTakes
<1>3. Passed(s, p, i + 1, j + 1)
  BY <1>1, <1>2, CharTaken DEF MatchInv
<1>4. ASSUME NEW a \in 0..Len(s), Ahead(s, p, a, j)
      PROVE  a + 1 \in 0..Len(s) /\ Ahead(s, p, a + 1, j + 1)
  <2>1. a < Len(s) /\ Ahead(s, p, a + 1, j + 1)
    BY <1>1, <1>2, <1>4, HeadTaken
  <2> QED
    BY <1>1, <2>1
<1>5. ASSUME cp # NULLPTR, NEW k \in cp..Len(s), Ahead(s, p, k, mp)
      PROVE  k + ((j + 1) - mp) \in 0..Len(s) /\ Ahead(s, p, k + ((j + 1) - mp), j + 1)
  <2> DEFINE a == k + (j - mp)
  <2>1. a \in 0..Len(s) /\ Ahead(s, p, a, j)
    BY <1>5 DEF MatchInv
  <2>2. k + ((j + 1) - mp) = a + 1
    BY <1>1, <1>5 DEF NULLPTR
  <2> HIDE DEF a
  <2> QED
    BY <1>4, <2>1, <2>2
<1>6. i + 1 \in 0..Len(s) /\ (Ahead(s, p, i, j) => Ahead(s, p, i + 1, j + 1))
  BY <1>1, <1>4
<1>7. cp # NULLPTR => p[mp] = "*" /\ Passed(s, p, cp - 1, mp) /\ (i + 1) + 1 - cp = (j + 1) - mp
  BY <1>1 DEF MatchInv, NULLPTR
<1> QED
  <2>1. pc' = "loop" /\ i' = i + 1 /\ j' = j + 1 /\ mp' = mp /\ cp' = cp
    BY DEF Continue, wildVars
  <2>2. Passed(s, p, i', j')
    BY <1>3, <2>1
  <2>3. cp' # NULLPTR =>
              /\ p[mp'] = "*" /\ Passed(s, p, cp' - 1, mp')
              /\ i' + 1 - cp' = j' - mp'
              /\ \A k \in cp'..Len(s) : Ahead(s, p, k, mp') =>
                    k + (j' - mp') \in 0..Len(s) /\ Ahead(s, p, k + (j' - mp'), j')
    BY <1>5, <1>7, <2>1
  <2>4. Matches(s, p) =>
              \/ Ahead(s, p, i', j')
              \/ cp' # NULLPTR /\ \E k \in cp'..Len(s) : Ahead(s, p, k, mp')
    BY <1>6, <2>1 DEF MatchInv
  <2> QED
    BY <2>1, <2>2, <2>3, <2>4, LoopGoesOn

(* A comparison that fails, with no star to go back to. *)
LEMMA MissTurn ==
  ASSUME WildInv, MatchInv, fn = "WildcardMatch", UNCHANGED << fn, s, p >>,
         pc \in {"start", "loop"}, i < Len(s), At(p, j) # "*", ~SameChar(At(s, i), At(p, j)),
         cp = NULLPTR, Return(0)
  PROVE  MatchInv'
<1>1. ~Ahead(s, p, i, j)
  <2>1. /\ s \in Seq(STRING) /\ p \in Seq(STRING) /\ Len(s) \in Nat /\ Len(p) \in Nat
        /\ i \in 0..Len(s) /\ j \in 0..Len(p)
    BY DEF WildInv, Wild
  <2>2. CASE j < Len(p)
    BY <2>1, <2>2, HeadTaken, ComparisonTakes
  <2>3. CASE j = Len(p)
    BY <2>1, <2>3, NoPlaceLeft
  <2> QED
    BY <2>1, <2>2, <2>3
<1>2. ~Matches(s, p)
  BY <1>1 DEF MatchInv
<1> QED
  BY <1>2 DEF MatchInv, Return

(* A comparison that fails behind a star: the star takes one more. *)
LEMMA RetryTurn ==
  ASSUME WildInv, WildInv', MatchInv, fn = "WildcardMatch", UNCHANGED << fn, s, p >>,
         pc \in {"start", "loop"}, i < Len(s), At(p, j) # "*", ~SameChar(At(s, i), At(p, j)),
         cp # NULLPTR, Retry, Continue, UNCHANGED mp
  PROVE  MatchInv'
<1>1. /\ s \in Seq(STRING) /\ p \in Seq(STRING) /\ Len(s) \in Nat /\ Len(p) \in Nat
      /\ i \in 0..Len(s) /\ j \in 0..Len(p)
      /\ mp \in 1..j /\ cp \in 1..Len(s)
  BY DEF WildInv, Wild, NULLPTR
<1>2. ~Ahead(s, p, i, j)
  <2>1. CASE j < Len(p)
    BY <1>1, <2>1, HeadTaken, ComparisonTakes
  <2>2. CASE j = Len(p)
    BY <1>1, <2>2, NoPlaceLeft
  <2> QED
    BY <1>1, <2>1, <2>2
<1>3. p[mp] = "*" /\ Passed(s, p, cp - 1, mp)
  BY DEF MatchInv
<1>4. Passed(s, p, cp, mp)
  <2>1. cp - 1 \in 0..Len(s) /\ cp \in (cp - 1)..Len(s) /\ mp \in 1..Len(p)
    BY <1>1
  <2> QED
    BY <1>1, <1>3, <2>1, StarTakes
<1>5. ASSUME Matches(s, p)
      PROVE  Ahead(s, p, cp, mp) \/ \E k \in (cp + 1)..Len(s) : Ahead(s, p, k, mp)
  <2>1. PICK k \in cp..Len(s) : Ahead(s, p, k, mp)
    BY <1>2, <1>5 DEF MatchInv
  <2>2. k = cp \/ k \in (cp + 1)..Len(s)
    BY <1>1
  <2> QED
    BY <2>1, <2>2
<1>6. \A k \in (cp + 1)..Len(s) : k + (mp - mp) = k /\ k \in 0..Len(s)
  BY <1>1
<1>7. pc' = "loop" /\ i' = cp /\ j' = mp /\ mp' = mp /\ cp' = cp + 1
  BY DEF Continue, Retry
<1>8. \A k \in cp'..Len(s) : Ahead(s, p, k, mp') =>
          k + (j' - mp') \in 0..Len(s) /\ Ahead(s, p, k + (j' - mp'), j')
  <2> SUFFICES ASSUME NEW k \in (cp + 1)..Len(s), Ahead(s, p, k, mp)
               PROVE  k + (j' - mp') \in 0..Len(s) /\ Ahead(s, p, k + (j' - mp'), j')
    BY <1>7
  <2>1. k + (j' - mp') = k
    BY <1>6, <1>7
  <2> QED
    BY <1>6, <1>7, <2>1
<1>9. Passed(s, p, i', j') /\ p[mp'] = "*" /\ Passed(s, p, cp' - 1, mp')
  <2>1. cp' - 1 = cp
    BY <1>1, <1>7
  <2> QED
    BY <1>3, <1>4, <1>7, <2>1
<1>10. i' + 1 - cp' = j' - mp' /\ cp' # NULLPTR
  BY <1>1, <1>7 DEF NULLPTR
<1>11. Matches(s, p) => Ahead(s, p, i', j') \/ \E k \in cp'..Len(s) : Ahead(s, p, k, mp')
  BY <1>5, <1>7
<1> QED
  BY <1>7, <1>8, <1>9, <1>10, <1>11, LoopGoesOn

(* The end of the text. *)
LEMMA EndTurn ==
  ASSUME WildInv, MatchInv, fn = "WildcardMatch", UNCHANGED << fn, s, p >>,
         pc \in {"start", "loop"}, i = Len(s), pc' = "stars", UNCHANGED << i, j, wildVars, result >>
  PROVE  MatchInv'
<1>1. /\ Len(s) \in Nat /\ j \in Nat
      /\ \/ mp = -1 /\ cp = -1
         \/ mp \in 1..j /\ cp \in 1..(i + 1)
  BY DEF WildInv, Wild
<1>2. ASSUME Matches(s, p) PROVE Ahead(s, p, i, j)
  <2> SUFFICES ASSUME cp # NULLPTR, NEW k \in cp..Len(s), Ahead(s, p, k, mp) PROVE FALSE
    BY <1>2 DEF MatchInv
  <2>1. k + (j - mp) \in 0..Len(s) /\ i + 1 - cp = j - mp
    BY DEF MatchInv
  <2> QED
    BY <1>1, <2>1 DEF NULLPTR
<1> QED
  BY <1>2 DEF MatchInv

(* A star at the end of the mask takes what is left of the text. *)
LEMMA LastStarTurn ==
  ASSUME WildInv, MatchInv, fn = "WildcardMatch", UNCHANGED << fn, s, p >>,
         pc \in {"start", "loop"}, i < Len(s), At(p, j) = "*", j + 1 = Len(p), Return(1)
  PROVE  MatchInv'
<1>1. /\ s \in Seq(STRING) /\ p \in Seq(STRING) /\ Len(s) \in Nat /\ Len(p) \in Nat
      /\ i \in 0..Len(s) /\ j \in 0..(Len(p) - 1) /\ Len(s) \in i..Len(s) /\ j + 1 \in 1..Len(p)
  BY DEF WildInv, Wild
<1>2. p[j + 1] = "*"
  BY <1>1 DEF At
<1>3. Passed(s, p, i, j + 1)
  BY <1>1, <1>2, StarTakesNone DEF MatchInv
<1>4. Passed(s, p, Len(s), j + 1)
  BY <1>1, <1>2, <1>3, StarTakes
<1>5. Matches(s, p)
  BY <1>1, <1>4, MatchesIsFits DEF Passed
<1> QED
  BY <1>5 DEF MatchInv, Return

(* The stars at the end of the mask, and the answer. *)
LEMMA TrailingTurn ==
  ASSUME WildInv, MatchInv, fn = "WildcardMatch", TrailingStars
  PROVE  MatchInv'
<1>1. /\ s \in Seq(STRING) /\ p \in Seq(STRING) /\ Len(s) \in Nat /\ Len(p) \in Nat
      /\ i = Len(s) /\ i \in 0..Len(s) /\ j \in 0..Len(p)
      /\ pc = "stars" /\ UNCHANGED << fn, s, p, i, mp, cp >>
  BY DEF WildInv, MatchInv, Wild, TrailingStars, callVars, wildVars
<1>2. Passed(s, p, i, j) /\ (Matches(s, p) => Ahead(s, p, i, j))
  BY <1>1 DEF MatchInv
<1>3. CASE At(p, j) = "*" /\ j' = j + 1 /\ UNCHANGED << result, pc >>
  <2>1. j < Len(p)
    BY <1>1, <1>3 DEF At, NUL
  <2>2. p[j + 1] = "*" /\ j \in 0..(Len(p) - 1)
    BY <1>1, <1>3, <2>1 DEF At
  <2>3. Passed(s, p, i, j + 1)
    BY <1>1, <1>2, <2>2, StarTakesNone
  <2>4. ASSUME Ahead(s, p, i, j) PROVE Ahead(s, p, i, j + 1)
    <3>1. PICK k \in i..Len(s) : Ahead(s, p, k, j + 1)
      BY <1>1, <2>2, <2>4, StarTaken
    <3>2. k = i
      BY <1>1
    <3> QED
      BY <3>1, <3>2
  <2> QED
    <3>1. pc' = "stars" /\ UNCHANGED << fn, s, p, i >> /\ j' = j + 1
      BY <1>1, <1>3
    <3> QED
      BY <1>1, <1>2, <2>3, <2>4, <3>1 DEF MatchInv
<1>4. CASE At(p, j) # "*" /\ Return(IF j = Len(p) THEN 1 ELSE 0) /\ UNCHANGED j
  <2>1. CASE j = Len(p)
    <3>1. Matches(s, p)
      BY <1>1, <1>2, <2>1, MatchesIsFits DEF Passed
    <3> QED
      BY <1>1, <1>4, <2>1, <3>1 DEF MatchInv, Return
  <2>2. CASE j # Len(p)
    <3>1. j \in 0..(Len(p) - 1) /\ p[j + 1] # "*"
      BY <1>1, <1>4, <2>2 DEF At
    <3>2. ~Ahead(s, p, i, j)
      BY <1>1, <3>1, HeadTaken
    <3> QED
      BY <1>1, <1>2, <1>4, <2>2, <3>2 DEF MatchInv, Return
  <2> QED
    BY <2>1, <2>2
<1> QED
  BY <1>3, <1>4 DEF TrailingStars

LEMMA InitiallyMatching == Init => MatchInv
<1> SUFFICES ASSUME Init PROVE MatchInv
  OBVIOUS
<1>1. s \in Seq(STRING) /\ p \in Seq(STRING)
  BY StringAssumption DEF Init
<1>2. Passed(s, p, 0, 0)
  <2> DEFINE f == [k \in 1..0 |-> 0]
  <2>1. Fits(s, p, f, 1..0, 1..0)
    BY DEF Fits
  <2> QED
    BY <2>1 DEF Passed
<1>3. Matches(s, p) => Ahead(s, p, 0, 0)
  BY <1>1, MatchesIsFits
<1> QED
  BY <1>2, <1>3 DEF Init, MatchInv

LEMMA StepKeepsMatch == WildInv /\ WildInv' /\ MatchInv /\ [Next]_vars => MatchInv'
<1> SUFFICES ASSUME WildInv, WildInv', MatchInv, [Next]_vars PROVE MatchInv'
  OBVIOUS
<1>1. CASE UNCHANGED vars
  BY <1>1 DEF MatchInv, vars
<1>2. CASE fn # "WildcardMatch"
  <2>1. [Next]_vars => fn' = fn
    BY DEF Next, WildcardMatch, TrailingStars, ReverseFindW, ForwardFindW, EndsWithStart, EndsWithW,
           StartsWithW, stricmp, stoulSign, stoul, ProcessFilter_AddMask, AddMaskTurn, AddMaskEnd,
           ProcessFilter_RemoveMask, callVars, vars
  <2> QED
    BY <1>2, <2>1 DEF MatchInv
<1>3. CASE fn = "WildcardMatch" /\ WildcardMatch
  <2>1. pc \in {"start", "loop"} /\ UNCHANGED << fn, s, p >>
    BY <1>3 DEF WildcardMatch, callVars
  <2> QED
    BY <1>3, <2>1, StarTurn, CharTurn, MissTurn, RetryTurn, EndTurn, LastStarTurn DEF WildcardMatch
<1>4. CASE fn = "WildcardMatch" /\ TrailingStars
  BY <1>4, TrailingTurn
<1>5. CASE fn = "WildcardMatch" /\ Next /\ ~WildcardMatch /\ ~TrailingStars
  <2>1. ProcessFilter_RemoveMask
    BY <1>5 DEF Next, ReverseFindW, ForwardFindW, EndsWithStart, EndsWithW, StartsWithW, stricmp,
                stoulSign, stoul, ProcessFilter_AddMask, AddMaskTurn, AddMaskEnd
  <2> QED
    BY <1>5, <2>1 DEF ProcessFilter_RemoveMask, MatchInv
<1> QED
  BY <1>1, <1>2, <1>3, <1>4, <1>5

LEMMA MatchInvariance == Spec => []MatchInv
  BY WildInvariance, InitiallyMatching, StepKeepsMatch, PTL DEF Spec

(* The text from one place on and the mask from one place on, as strings. *)
LEMMA SuffixMatches ==
  ASSUME NEW text \in Seq(STRING), NEW mask \in Seq(STRING),
         NEW a \in 0..Len(text), NEW b \in 0..Len(mask)
  PROVE  Matches(Suffix(text, a), Suffix(mask, b)) <=> Ahead(text, mask, a, b)
<1> DEFINE t == Suffix(text, a)
           m == Suffix(mask, b)
           T == (a + 1)..Len(text)
           M == (b + 1)..Len(mask)
<1>1. Len(text) \in Nat /\ Len(mask) \in Nat
  OBVIOUS
<1>2. /\ t \in Seq(STRING) /\ Len(t) = Len(text) - a
      /\ \A k \in 1..Len(t) : t[k] = text[a + k]
  BY ONLY <1>1, text \in Seq(STRING), a \in 0..Len(text) DEF Suffix
<1>3. /\ m \in Seq(STRING) /\ Len(m) = Len(mask) - b
      /\ \A k \in 1..Len(m) : m[k] = mask[b + k]
  BY ONLY <1>1, mask \in Seq(STRING), b \in 0..Len(mask) DEF Suffix
<1> HIDE DEF t, m
<1>4. /\ \A k \in 1..Len(t) : a + k \in T /\ a + k - a = k
      /\ \A k \in T : k - a \in 1..Len(t) /\ a + (k - a) = k /\ t[k - a] = text[k]
      /\ \A k \in 1..Len(m) : b + k \in M /\ b + k - b = k
      /\ \A k \in M : k - b \in 1..Len(m) /\ b + (k - b) = k /\ m[k - b] = mask[k]
  <2>1. /\ \A k \in 1..Len(t) : a + k \in T /\ a + k - a = k
        /\ \A k \in T : k - a \in 1..Len(t) /\ a + (k - a) = k
    BY <1>1, <1>2
  <2>2. /\ \A k \in 1..Len(m) : b + k \in M /\ b + k - b = k
        /\ \A k \in M : k - b \in 1..Len(m) /\ b + (k - b) = k
    BY <1>1, <1>3
  <2>3. \A k \in T : t[k - a] = text[a + (k - a)]
    BY <1>2, <2>1
  <2>4. \A k \in M : m[k - b] = mask[b + (k - b)]
    BY <1>3, <2>2
  <2> QED
    BY <2>1, <2>2, <2>3, <2>4
<1>5. ASSUME NEW f, Fits(t, m, f, 1..Len(t), 1..Len(m)) PROVE Ahead(text, mask, a, b)
  <2> DEFINE g == [k \in T |-> b + f[k - a]]
  <2>1. \A k \in T : g[k] = b + f[k - a] /\ f[k - a] \in 1..Len(m) /\ g[k] \in M /\ mask[g[k]] = m[f[k - a]]
    BY <1>3, <1>4, <1>5 DEF Fits
  <2>2. g \in [T -> M]
    BY <2>1
  <2>3. \A k \in T : Takes(text, mask, g[k], k)
    <3> SUFFICES ASSUME NEW k \in T PROVE Takes(text, mask, g[k], k)
      OBVIOUS
    <3>1. Takes(t, m, f[k - a], k - a)
      BY <1>4, <1>5 DEF Fits
    <3>2. m[f[k - a]] = mask[g[k]] /\ t[k - a] = text[k]
      BY <1>4, <2>1
    <3> QED
      BY <3>1, <3>2 DEF Takes
  <2>4. \A k, l \in T : k < l => g[k] < g[l] \/ (g[k] = g[l] /\ mask[g[k]] = "*")
    <3> SUFFICES ASSUME NEW k \in T, NEW l \in T, k < l
                 PROVE  g[k] < g[l] \/ (g[k] = g[l] /\ mask[g[k]] = "*")
      OBVIOUS
    <3>1. k - a \in 1..Len(t) /\ l - a \in 1..Len(t) /\ k - a < l - a
      BY <1>1, <1>4
    <3>2. f[k - a] < f[l - a] \/ (f[k - a] = f[l - a] /\ m[f[k - a]] = "*")
      BY <1>5, <3>1 DEF Fits
    <3>3. /\ g[k] = b + f[k - a] /\ g[l] = b + f[l - a] /\ mask[g[k]] = m[f[k - a]]
          /\ f[k - a] \in 1..Len(m) /\ f[l - a] \in 1..Len(m)
      BY <2>1
    <3>4. f[k - a] \in Int /\ f[l - a] \in Int
      BY <3>3
    <3> HIDE DEF g
    <3> QED
      BY <3>2, <3>3, <3>4
  <2>5. \A n \in M : mask[n] # "*" => \E k \in T : g[k] = n
    <3> SUFFICES ASSUME NEW n \in M, mask[n] # "*" PROVE \E k \in T : g[k] = n
      OBVIOUS
    <3>1. n - b \in 1..Len(m) /\ m[n - b] # "*"
      BY <1>4
    <3>2. PICK k \in 1..Len(t) : f[k] = n - b
      BY <1>5, <3>1 DEF Fits
    <3>3. a + k \in T /\ a + k - a = k
      BY <1>4
    <3>4. g[a + k] = b + f[k]
      BY <3>3
    <3> QED
      BY <1>4, <3>2, <3>3, <3>4
  <2>6. Fits(text, mask, g, T, M)
    BY <2>2, <2>3, <2>4, <2>5 DEF Fits
  <2> QED
    BY <2>6 DEF Ahead
<1>6. ASSUME NEW g, Fits(text, mask, g, T, M) PROVE \E f : Fits(t, m, f, 1..Len(t), 1..Len(m))
  <2> DEFINE f == [k \in 1..Len(t) |-> g[a + k] - b]
  <2>1. \A k \in 1..Len(t) : /\ a + k \in T /\ g[a + k] \in M
                             /\ f[k] = g[a + k] - b /\ f[k] \in 1..Len(m) /\ m[f[k]] = mask[g[a + k]]
    BY <1>4, <1>6 DEF Fits
  <2>2. f \in [1..Len(t) -> 1..Len(m)]
    BY <2>1
  <2>3. \A k \in 1..Len(t) : Takes(t, m, f[k], k)
    <3> SUFFICES ASSUME NEW k \in 1..Len(t) PROVE Takes(t, m, f[k], k)
      OBVIOUS
    <3>1. Takes(text, mask, g[a + k], a + k)
      BY <1>6, <2>1 DEF Fits
    <3>2. m[f[k]] = mask[g[a + k]] /\ t[k] = text[a + k]
      BY <1>2, <2>1
    <3> QED
      BY <3>1, <3>2 DEF Takes
  <2>4. \A k, l \in 1..Len(t) : k < l => f[k] < f[l] \/ (f[k] = f[l] /\ m[f[k]] = "*")
    <3> SUFFICES ASSUME NEW k \in 1..Len(t), NEW l \in 1..Len(t), k < l
                 PROVE  f[k] < f[l] \/ (f[k] = f[l] /\ m[f[k]] = "*")
      OBVIOUS
    <3>1. a + k < a + l
      OBVIOUS
    <3>2. g[a + k] < g[a + l] \/ (g[a + k] = g[a + l] /\ mask[g[a + k]] = "*")
      BY <1>6, <2>1, <3>1 DEF Fits
    <3>3. /\ f[k] = g[a + k] - b /\ f[l] = g[a + l] - b /\ m[f[k]] = mask[g[a + k]]
          /\ g[a + k] \in M /\ g[a + l] \in M
      BY <2>1
    <3>4. g[a + k] \in Int /\ g[a + l] \in Int
      BY <1>1, <3>3
    <3> HIDE DEF f
    <3> QED
      BY <3>2, <3>3, <3>4
  <2>5. \A n \in 1..Len(m) : m[n] # "*" => \E k \in 1..Len(t) : f[k] = n
    <3> SUFFICES ASSUME NEW n \in 1..Len(m), m[n] # "*" PROVE \E k \in 1..Len(t) : f[k] = n
      OBVIOUS
    <3>1. b + n \in M /\ b + n - b = n /\ mask[b + n] # "*"
      BY <1>3, <1>4
    <3>2. PICK k \in T : g[k] = b + n
      BY <1>6, <3>1 DEF Fits
    <3>3. k - a \in 1..Len(t) /\ a + (k - a) = k
      BY <1>4
    <3>4. f[k - a] = g[k] - b
      BY <3>3
    <3>5. f[k - a] = n
      BY <3>1, <3>2, <3>4
    <3> HIDE DEF f
    <3> QED
      BY <3>3, <3>5
  <2>6. Fits(t, m, f, 1..Len(t), 1..Len(m))
    BY <2>2, <2>3, <2>4, <2>5 DEF Fits
  <2> QED
    BY <2>6
<1>7. Ahead(text, mask, a, b) => \E g : Fits(text, mask, g, T, M)
  BY DEF Ahead
<1>8. Matches(t, m) <=> \E f : Fits(t, m, f, 1..Len(t), 1..Len(m))
  BY <1>2, <1>3, MatchesIsFits
<1> QED
  BY <1>5, <1>6, <1>7, <1>8 DEF t, m

(* WildcardMatch_straight answers that the text matches the mask exactly when it *)
(* does: the characters of the text have places in the mask, in order, and only  *)
(* stars take several or none.  For texts and masks of any length and any number *)
(* of stars.                                                                     *)
THEOREM AnswerIsRight == Spec => []ResultIsMatch
<1>1. MatchInv => ResultIsMatch
  <2>1. Matches(s, p) \in BOOLEAN
    BY DEF Matches
  <2> QED
    BY <2>1 DEF MatchInv, ResultIsMatch
<1> QED
  BY <1>1, MatchInvariance, PTL

(* At any turn of the loop there is a match exactly when there is one from here, or   *)
(* from a later place for the last star: the places of the earlier stars, which       *)
(* WildcardMatch_straight forgets, are never needed again.                            *)
THEOREM BacktrackingIsEnough == Spec => []BacktrackKeepsMatch
<1>1. WildInv /\ MatchInv => BacktrackKeepsMatch
  <2> SUFFICES ASSUME WildInv, MatchInv, fn = "WildcardMatch", pc \in {"start", "loop"}
               PROVE  Matches(s, p) =
                        \/ Matches(Suffix(s, i), Suffix(p, j))
                        \/ cp # NULLPTR /\ \E k \in cp..Len(s) : Matches(Suffix(s, k), Suffix(p, mp))
    BY DEF BacktrackKeepsMatch
  <2>1. /\ s \in Seq(STRING) /\ p \in Seq(STRING) /\ Len(s) \in Nat /\ Len(p) \in Nat
        /\ i \in 0..Len(s) /\ j \in 0..Len(p)
        /\ \/ mp = -1 /\ cp = -1
           \/ mp \in 1..j /\ cp \in 1..(i + 1)
    BY DEF WildInv, Wild
  <2>2. Matches(Suffix(s, i), Suffix(p, j)) <=> Ahead(s, p, i, j)
    BY <2>1, SuffixMatches
  <2>3. ASSUME cp # NULLPTR, NEW k \in cp..Len(s)
        PROVE  Matches(Suffix(s, k), Suffix(p, mp)) <=> Ahead(s, p, k, mp)
    <3>1. k \in 0..Len(s) /\ mp \in 0..Len(p)
      BY <2>1, <2>3 DEF NULLPTR
    <3> QED
      BY <2>1, <3>1, SuffixMatches
  <2>4. Ahead(s, p, i, j) => Matches(s, p)
    <3>1. Passed(s, p, i, j)
      BY DEF MatchInv
    <3> QED
      BY <2>1, <3>1, Joined, MatchesIsFits
  <2>5. ASSUME cp # NULLPTR, NEW k \in cp..Len(s), Ahead(s, p, k, mp) PROVE Matches(s, p)
    <3>1. /\ cp - 1 \in 0..Len(s) /\ k \in (cp - 1)..Len(s) /\ k \in 0..Len(s)
          /\ mp \in 1..Len(p) /\ mp \in 0..Len(p)
      BY <2>1, <2>5 DEF NULLPTR
    <3>2. p[mp] = "*" /\ Passed(s, p, cp - 1, mp)
      BY <2>5 DEF MatchInv
    <3>3. Passed(s, p, k, mp)
      BY <2>1, <3>1, <3>2, StarTakes
    <3> QED
      BY <2>1, <2>5, <3>1, <3>3, Joined, MatchesIsFits
  <2>6. Matches(s, p) <=> \/ Matches(Suffix(s, i), Suffix(p, j))
                          \/ cp # NULLPTR /\ \E k \in cp..Len(s) : Matches(Suffix(s, k), Suffix(p, mp))
    BY <2>2, <2>3, <2>4, <2>5 DEF MatchInv
  <2>7. Matches(s, p) \in BOOLEAN
    BY DEF Matches
  <2> QED
    BY <2>6, <2>7
<1> QED
  BY <1>1, WildInvariance, MatchInvariance, PTL

-----------------------------------------------------------------------------
(* Walking the links. *)

\* The k-th node of a list that holds the items of q in that order.
NodeAt(q, k) == IF k \in 1..Len(q) THEN q[k] ELSE ListHead

\* No item is in q twice; the links f run through q and back to the head; the items of q.
Distinct(q) == \A m, n \in 1..Len(q) : q[m] = q[n] => m = n
Forward(f, q) == \A k \in 0..Len(q) : f[NodeAt(q, k)] = NodeAt(q, k + 1)
Members(q) == {q[k] : k \in 1..Len(q)}

\* A sequence of distinct items is as long as the set of them is large.
LEMMA DistinctCounts ==
    ASSUME NEW q \in Seq(Items), Distinct(q), IsFiniteSet(Items)
    PROVE  /\ IsFiniteSet(Members(q)) /\ Cardinality(Members(q)) = Len(q)
           /\ Len(q) <= Cardinality(Items)
<1>1. q \in [1..Len(q) -> Members(q)]
  BY DEF Members
<1>2. q \in Bijection(1..Len(q), Members(q))
  BY <1>1 DEF Bijection, Injection, Surjection, IsInjective, Members, Distinct
<1>3. ExistsBijection(1..Len(q), Members(q))
  BY <1>2 DEF ExistsBijection
<1>4. Cardinality(Members(q)) = Len(q)
  BY <1>3, FS_CountingElements, Len(q) \in Nat
<1>5. IsFiniteSet(Members(q))
  BY <1>3, FS_NatBijection, Len(q) \in Nat
<1>6. Members(q) \subseteq Items
  BY DEF Members
<1>7. Cardinality(Members(q)) <= Cardinality(Items)
  BY <1>6, FS_Subset
<1> QED BY <1>4, <1>5, <1>7

\* The walk from the head meets the items of the list and no others.  The
\* definition of the walk is recursive: it holds of the function it defines,
\* since the walk through q is a function of which it holds.
LEMMA WalkIs ==
    ASSUME NEW f, NEW q \in Seq(Items), Distinct(q), Forward(f, q), IsFiniteSet(Items), ListHead \notin Items
    PROVE  LinkedBy(f) = Members(q)
<1> DEFINE N == Cardinality(Items)
           w == [n \in 0..N |-> NodeAt(q, n + 1)]
           F(g) == [n \in 0..N |-> IF n = 0 THEN f[ListHead]
                                   ELSE IF g[n - 1] = ListHead THEN ListHead ELSE f[g[n - 1]]]
           node == CHOOSE g : g = F(g)
<1>1. N \in Nat /\ Len(q) \in Nat /\ Len(q) <= N
  BY DistinctCounts, FS_CardinalityType
<1>2. w = F(w)
  <2>1. ASSUME NEW n \in 0..N
        PROVE  w[n] = IF n = 0 THEN f[ListHead]
                      ELSE IF w[n - 1] = ListHead THEN ListHead ELSE f[w[n - 1]]
    <3>1. CASE n = 0
      <4>1. NodeAt(q, 0) = ListHead
        BY DEF NodeAt
      <4> QED BY <3>1, <4>1, <1>1 DEF Forward
    <3>2. CASE n # 0 /\ n <= Len(q)
      <4>1. w[n - 1] = q[n] /\ q[n] \in Items
        BY <3>2, <1>1 DEF NodeAt
      <4>2. f[q[n]] = NodeAt(q, n + 1)
        BY <3>2, <1>1 DEF Forward, NodeAt
      <4> QED BY <4>1, <4>2, <3>2
    <3>3. CASE n > Len(q)
      <4>1. w[n - 1] = ListHead
        BY <3>3, <1>1 DEF NodeAt
      <4>2. w[n] = ListHead
        BY <3>3, <1>1 DEF NodeAt
      <4> QED BY <4>1, <4>2, <3>3, <1>1
    <3> QED BY <3>1, <3>2, <3>3, <1>1
  <2> QED BY <2>1
<1>3. node = F(node)
  BY <1>2
<1>4. \A n \in 0..N : w[n] = IF n = 0 THEN f[ListHead]
                            ELSE IF w[n - 1] = ListHead THEN ListHead ELSE f[w[n - 1]]
  BY <1>2
<1>5. \A n \in 0..N : node[n] = IF n = 0 THEN f[ListHead]
                               ELSE IF node[n - 1] = ListHead THEN ListHead ELSE f[node[n - 1]]
  BY <1>3
<1>6. \A n \in 0..N : node[n] = w[n]
  <2> HIDE DEF node, w
  <2> DEFINE T == {n \in 0..N : node[n] # w[n]}
  <2> SUFFICES ASSUME T # {} PROVE FALSE
    OBVIOUS
  <2>1. T \subseteq Nat
    BY <1>1
  <2>2. PICK n \in T : \A m \in T : n <= m
    <3> HIDE DEF T
    <3> QED BY LeastElement, <2>1
  <2>3. n \in 0..N /\ node[n] # w[n]
    OBVIOUS
  <2>4. n # 0
    BY <2>3, <1>4, <1>5
  <2>5. n - 1 \in 0..N /\ n - 1 \notin T
    BY <2>2, <2>3, <2>4, <1>1
  <2>6. node[n - 1] = w[n - 1]
    BY <2>5
  <2> QED BY <2>3, <2>4, <2>6, <1>4, <1>5
<1>7. LinkedBy(f) = {node[n] : n \in 0..N} \ {ListHead}
  BY DEF LinkedBy
<1>8. ASSUME NEW e \in Members(q) PROVE \E n \in 0..N : w[n] = e /\ e # ListHead
  <2>1. PICK k \in 1..Len(q) : e = q[k]
    BY DEF Members
  <2>2. q[k] \in Items /\ k - 1 \in 0..N
    BY <2>1, <1>1
  <2>3. w[k - 1] = q[k]
    BY <2>1, <2>2, <1>1 DEF NodeAt
  <2> QED BY <2>1, <2>2, <2>3
<1>9. ASSUME NEW n \in 0..N, w[n] # ListHead PROVE w[n] \in Members(q)
  <2>1. w[n] = NodeAt(q, n + 1)
    OBVIOUS
  <2>2. n + 1 \in 1..Len(q) /\ w[n] = q[n + 1]
    BY <1>9, <2>1 DEF NodeAt
  <2> QED BY <2>2 DEF Members
<1> HIDE DEF node, w, N
<1> QED BY <1>6, <1>7, <1>8, <1>9

-----------------------------------------------------------------------------
(* The inductive invariant. *)

\* A producer at work on an item; one whose item is not in the list yet; a thread
\* with an item it has taken out of the list and will free.
Making(t) == at[t] \in {"link", "fill", "append"}
Unlinked(t) == \/ at[t] = "link"
               \/ at[t] \in {"fill", "append"} /\ "allocate" \notin linkedBy
Holds(t) == at[t] \in {"drop", "copy"} /\ item[t] # None

\* No item has been linked twice; none has left the queue before it was filled in.
LinkedOnce == \A e \in Items : links[e] <= 1
Clean == ~fault /\ LinkedOnce
Whole == Clean /\ early = {}

\* A thread has an item where its code uses one, and only there.
ItemsInPlace ==
    \A t \in Actors :
        /\ Making(t) \/ at[t] = "copy" => item[t] # None
        /\ item[t] # None => Making(t) \/ at[t] \in {"drop", "copy"}
        /\ at[t] = "link" => "allocate" \in linkedBy

\* The producers that are to take the oldest item raised the counter before.
Limited == {pr \in Producers : at[pr] = "limit"}
CountBound == CurrentItemCount >= Cardinality(Limited) - Cardinality(Producers) - MaxBelow

\* The links run through the items of q, forwards and backwards.
ListIs(f, b, q) ==
    /\ Distinct(q)
    /\ \A k \in 0..Len(q) : f[NodeAt(q, k)] = NodeAt(q, k + 1) /\ b[NodeAt(q, k + 1)] = NodeAt(q, k)

HasList == \E q \in Seq(Items) : ListIs(flink, blink, q)

\* An item is linked when it is in the list or has been taken out, and not before.
LinksCounted ==
    /\ \A e \in Linked : links[e] = 1
    /\ \A t \in Actors : Holds(t) => links[item[t]] = 1
    /\ \A t \in Actors : Making(t) => links[item[t]] = IF Unlinked(t) THEN 0 ELSE 1
    /\ \A e \in Items : mem[e] = "none" => links[e] = 0 /\ \A t \in Actors : item[t] # e
    /\ \A t, u \in Actors : t # u /\ Making(t) /\ Making(u) => item[t] # item[u]

CountRight == CurrentItemCount = Cardinality(Linked) + Cardinality(Raised) + failures

\* What is in the list, or has been taken out by one thread, has not been freed.
Alive(e) == mem[e] \in {"allocated", "filled"}
MemoryKept ==
    /\ \A e \in Linked : Alive(e) /\ \A t \in Actors : Holds(t) => item[t] # e
    /\ \A t \in Actors : Holds(t) => Alive(item[t])
    /\ \A t, u \in Actors : t # u /\ Holds(t) /\ Holds(u) => item[t] # item[u]
    /\ \A t \in Actors : at[t] \in {"link", "fill"} => mem[item[t]] = "allocated"
    /\ \A t \in Actors : at[t] = "append" /\ Unlinked(t) => mem[item[t]] = "filled"

\* With items linked once, by the caller, all of the list has been filled in, and
\* what a collector has copied is freed.
Intended == linkedBy = {"caller"} /\ ~fault
CopiedOnce ==
    /\ \A e \in Linked : mem[e] = "filled" /\ fate[e] = "queued"
    /\ \A t \in Actors : Holds(t) => mem[item[t]] = "filled"
    /\ \A t \in Actors : Making(t) => fate[item[t]] = "queued"
    /\ \A e \in Items : mem[e] = "none" => fate[e] = "queued"
    /\ \A c \in Collectors : \A n \in DOMAIN out[c] : mem[out[c][n]] = "freed" /\ fate[out[c][n]] = "copied"
    /\ \A c \in Collectors : \A m, n \in DOMAIN out[c] : m # n => out[c][m] # out[c][n]

Inv == /\ QueueTypeOK /\ ItemsInPlace /\ CountBound /\ InBuffer /\ FaultExplained
       /\ Clean => HasList /\ LinksCounted /\ CountRight
       /\ Whole => MemoryKept
       /\ Intended => Whole /\ CopiedOnce

\* What the assumption says of the sets, in the form the steps below use.
LEMMA Constants ==
    /\ IsFiniteSet(Producers) /\ IsFiniteSet(Collectors) /\ IsFiniteSet(Items)
    /\ Producers \subseteq Actors /\ Collectors \subseteq Actors /\ Producers \cap Collectors = {}
    /\ Items \subseteq Nodes /\ ListHead \in Nodes /\ ListHead \notin Items
    /\ \A n \in Nodes : n # ListHead => n \in Items
    /\ Sizes \subseteq Nat /\ Buffers \subseteq Nat /\ MaxFailures \in Nat
    /\ MaxBelow \in Nat /\ PacketSize \in Nat
BY QueueAssumption DEF Actors, Nodes

-----------------------------------------------------------------------------
(* Types. *)

\* The lower bound of the counter aside.
Typed == /\ QueueTypeOK /\ ItemsInPlace

USE DEF Goto, None, Touch, FreeNotifyItem, list, collecting

\* The links stay links between nodes.
LEMMA ListTyped ==
    ASSUME flink \in [Nodes -> Nodes], blink \in [Nodes -> Nodes]
    PROVE  /\ \A e \in Items : InsertTailList(e) => flink' \in [Nodes -> Nodes] /\ blink' \in [Nodes -> Nodes]
           /\ RemoveHeadList => flink' \in [Nodes -> Nodes] /\ blink' \in [Nodes -> Nodes]
BY Constants DEF InsertTailList, RemoveHeadList

\* A producer's step keeps the types, and a thread's item where it belongs.
LEMMA TypesProduce ==
    ASSUME Typed, NEW pr \in Producers, Produce(pr), CurrentItemCount' >= -MaxBelow - Cardinality(Producers)
    PROVE  Typed'
<1> USE Constants
<1>1. CASE RaiseCount(pr)
  BY <1>1 DEF RaiseCount, Typed, QueueTypeOK, ItemsInPlace, Making
<1>2. CASE TakeOldest(pr)
  <2>1. CurrentItemCount' \in Int
    BY <1>2 DEF TakeOldest, Typed, QueueTypeOK
  <2>2. flink' \in [Nodes -> Nodes] /\ blink' \in [Nodes -> Nodes]
    BY <1>2, ListTyped DEF TakeOldest, Typed, QueueTypeOK
  <2>3. fault' \in BOOLEAN
    BY <1>2 DEF TakeOldest, Typed, QueueTypeOK
  <2>4. /\ \A t \in Actors : at'[t] = IF t = pr THEN "drop" ELSE at[t]
        /\ \A t \in Actors : t # pr => item'[t] = item[t]
        /\ item'[pr] \in Nodes /\ at[pr] = "limit"
        /\ item' \in [Actors -> Nodes] /\ linkedBy' = linkedBy
    BY <1>2 DEF TakeOldest, Typed, QueueTypeOK
  <2>5. ItemsInPlace'
    BY <2>4 DEF Typed, ItemsInPlace, Making
  <2> QED BY <1>2, <2>1, <2>2, <2>3, <2>4, <2>5 DEF TakeOldest, Typed, QueueTypeOK
<1>3. CASE DropOldest(pr)
  BY <1>3 DEF DropOldest, Typed, QueueTypeOK, ItemsInPlace, Making
<1>4. CASE AllocateItem(pr)
  BY <1>4 DEF AllocateItem, Typed, QueueTypeOK, ItemsInPlace, Making
<1>5. CASE AllocateFails(pr)
  BY <1>5 DEF AllocateFails, Typed, QueueTypeOK, ItemsInPlace, Making
<1>6. CASE LinkInAllocate(pr)
  <2>1. item[pr] \in Items
    BY <1>6 DEF LinkInAllocate, Typed, QueueTypeOK, ItemsInPlace, Making
  <2>2. flink' \in [Nodes -> Nodes] /\ blink' \in [Nodes -> Nodes]
    BY <1>6, <2>1, ListTyped DEF LinkInAllocate, Typed, QueueTypeOK
  <2>4. links' \in [Items -> Nat]
    BY <1>6, <2>1 DEF LinkInAllocate, InsertTailList, Typed, QueueTypeOK
  <2>3. fault' \in BOOLEAN
    BY <1>6 DEF LinkInAllocate, Typed, QueueTypeOK
  <2> QED BY <1>6, <2>2, <2>3, <2>4 DEF LinkInAllocate, Typed, QueueTypeOK, ItemsInPlace, Making
<1>7. CASE FillItem(pr)
  <2>1. item[pr] \in Items
    BY <1>7 DEF FillItem, Typed, QueueTypeOK, ItemsInPlace, Making
  <2>2. mem' \in [Items -> {"none", "allocated", "filled", "freed"}] /\ MessageSize' \in [Items -> Sizes]
    BY <1>7, <2>1 DEF FillItem, Typed, QueueTypeOK
  <2>3. fault' \in BOOLEAN
    BY <1>7 DEF FillItem, Typed, QueueTypeOK
  <2>4. /\ \A t \in Actors : t # pr => at'[t] = at[t] /\ item'[t] = item[t]
        /\ \/ at'[pr] = "append" /\ item'[pr] = item[pr]
           \/ at'[pr] = "idle" /\ item'[pr] = None
        /\ at' \in [Actors -> {"idle", "limit", "drop", "alloc", "link", "fill",
                                "append", "remove", "copy", "reply"}]
        /\ item' \in [Actors -> Nodes] /\ linkedBy' = linkedBy
    <3>1. CASE "caller" \in linkedBy
      <4>1. at' = [at EXCEPT ![pr] = "append"] /\ item' = item /\ linkedBy' = linkedBy
        BY <1>7, <3>1 DEF FillItem
      <4> QED BY <4>1 DEF Typed, QueueTypeOK
    <3>2. CASE "caller" \notin linkedBy
      <4>1. at' = [at EXCEPT ![pr] = "idle"] /\ item' = [item EXCEPT ![pr] = None] /\ linkedBy' = linkedBy
        BY <1>7, <3>2 DEF FillItem
      <4> QED BY <4>1 DEF Typed, QueueTypeOK
    <3> QED BY <3>1, <3>2
  <2>5. ItemsInPlace'
    BY <2>1, <2>4 DEF Typed, ItemsInPlace, Making
  <2> QED BY <1>7, <2>2, <2>3, <2>4, <2>5 DEF FillItem, Typed, QueueTypeOK, ItemsInPlace, Making
<1>8. CASE AppendNotifyItem(pr)
  <2>1. item[pr] \in Items
    BY <1>8 DEF AppendNotifyItem, Typed, QueueTypeOK, ItemsInPlace, Making
  <2>2. flink' \in [Nodes -> Nodes] /\ blink' \in [Nodes -> Nodes]
    <3>1. InsertTailList(item[pr])
      BY <1>8 DEF AppendNotifyItem
    <3> QED BY <2>1, <3>1, ListTyped DEF Typed, QueueTypeOK
  <2>4. links' \in [Items -> Nat]
    BY <1>8, <2>1 DEF AppendNotifyItem, InsertTailList, Typed, QueueTypeOK
  <2>3. fault' \in BOOLEAN
    BY <1>8 DEF AppendNotifyItem, Typed, QueueTypeOK
  <2> QED BY <1>8, <2>2, <2>3, <2>4 DEF AppendNotifyItem, Typed, QueueTypeOK, ItemsInPlace, Making
<1> QED BY <1>1, <1>2, <1>3, <1>4, <1>5, <1>6, <1>7, <1>8 DEF Produce

\* So does a collector's.
LEMMA TypesCollect ==
    ASSUME Typed, NEW c \in Collectors, Collect(c), CurrentItemCount' >= -MaxBelow - Cardinality(Producers)
    PROVE  Typed'
<1> USE Constants
<1>1. CASE StartCollect(c)
  BY <1>1 DEF StartCollect, Typed, QueueTypeOK, ItemsInPlace, Making
<1>2. CASE TakeFirst(c)
  BY <1>2 DEF TakeFirst, RemoveHeadList, ListEmpty, Typed, QueueTypeOK, ItemsInPlace, Making
<1>3. CASE ListExhausted(c)
  BY <1>3 DEF ListExhausted, Typed, QueueTypeOK, ItemsInPlace, Making
<1>4. CASE CopyItem(c)
  <2>1. item[c] \in Items /\ MessageSize[item[c]] \in Nat
    BY <1>4 DEF CopyItem, Typed, QueueTypeOK, ItemsInPlace, Making
  <2>2. room' \in [Collectors -> Int] /\ written' \in [Collectors -> Nat] /\ out' \in [Collectors -> Seq(Items)]
    BY <1>4, <2>1 DEF CopyItem, Typed, QueueTypeOK
  <2>3. /\ mem' \in [Items -> {"none", "allocated", "filled", "freed"}] /\ early' \subseteq Items
        /\ fate' \in [Items -> {"queued", "dropped", "copied", "oversized"}]
    BY <1>4, <2>1 DEF CopyItem, Typed, QueueTypeOK
  <2>4. fault' \in BOOLEAN
    BY <1>4 DEF CopyItem, Typed, QueueTypeOK
  <2> QED BY <1>4, <2>2, <2>3, <2>4 DEF CopyItem, Typed, QueueTypeOK, ItemsInPlace, Making
<1>5. CASE SkipItem(c)
  BY <1>5 DEF SkipItem, Typed, QueueTypeOK, ItemsInPlace, Making
<1>6. CASE ReplyToClient(c)
  BY <1>6 DEF ReplyToClient, CollectStatus, Typed, QueueTypeOK, ItemsInPlace, Making
<1> QED BY <1>1, <1>2, <1>3, <1>4, <1>5, <1>6 DEF Collect

-----------------------------------------------------------------------------
(* The list. *)

\* The links after an item has become the last, and after the first has been taken out.
LastF(f, b, e) == [[f EXCEPT ![e] = ListHead] EXCEPT ![b[ListHead]] = e]
LastB(b, e) == [[b EXCEPT ![e] = b[ListHead]] EXCEPT ![ListHead] = e]
FirstF(f) == [f EXCEPT ![ListHead] = f[f[ListHead]]]
FirstB(f, b) == [b EXCEPT ![f[f[ListHead]]] = ListHead]

\* An item that is not in the list becomes its last.
LEMMA InsertLast ==
    ASSUME NEW f \in [Nodes -> Nodes], NEW b \in [Nodes -> Nodes], NEW q \in Seq(Items), ListIs(f, b, q),
           NEW e \in Items, e \notin Members(q)
    PROVE  /\ ListIs(LastF(f, b, e), LastB(b, e), Append(q, e))
           /\ Members(Append(q, e)) = Members(q) \cup {e}
<1> DEFINE tail == b[ListHead]
           f2 == LastF(f, b, e)
           b2 == LastB(b, e)
           r == Append(q, e)
           n == Len(q)
<1> USE Constants DEF LastF, LastB
<1>1. /\ n \in Nat /\ Len(r) = n + 1 /\ r[n + 1] = e /\ \A k \in 1..n : r[k] = q[k] /\ q[k] \in Items /\ q[k] # e
  BY DEF Members
<1>2. /\ \A k \in 0..n : NodeAt(r, k) = NodeAt(q, k) /\ NodeAt(q, k) \in Nodes /\ NodeAt(q, k) # e
      /\ NodeAt(r, n + 1) = e /\ NodeAt(r, n + 2) = ListHead /\ NodeAt(q, n + 1) = ListHead
      /\ NodeAt(q, 0) = ListHead
  BY <1>1 DEF NodeAt, Nodes
<1>3. \A k, m \in 0..n : NodeAt(q, k) = NodeAt(q, m) => k = m
  BY <1>1 DEF NodeAt, ListIs, Distinct
<1>4. tail = NodeAt(q, n) /\ f[tail] = ListHead
  BY <1>1, <1>2 DEF ListIs
<1>5. Distinct(r)
  <2> SUFFICES ASSUME NEW k \in 1..(n + 1), NEW m \in 1..(n + 1), r[k] = r[m] PROVE k = m
    BY <1>1 DEF Distinct
  <2>1. CASE k = n + 1 /\ m = n + 1
    BY <2>1
  <2>2. CASE k = n + 1 /\ m # n + 1
    BY <2>2, <1>1
  <2>3. CASE k # n + 1 /\ m = n + 1
    BY <2>3, <1>1
  <2>4. CASE k # n + 1 /\ m # n + 1
    <3>1. k \in 1..n /\ m \in 1..n
      BY <2>4, <1>1
    <3>2. q[k] = q[m]
      BY <3>1, <1>1
    <3> HIDE DEF r
    <3> QED BY <3>1, <3>2 DEF ListIs, Distinct
  <2> QED BY <2>1, <2>2, <2>3, <2>4
<1>6. ASSUME NEW k \in 0..(n + 1)
      PROVE  f2[NodeAt(r, k)] = NodeAt(r, k + 1) /\ b2[NodeAt(r, k + 1)] = NodeAt(r, k)
  <2>1. CASE k = n + 1
    <3>1. f2[e] = ListHead
      BY <1>2, <1>4, <1>1
    <3>2. b2[ListHead] = e
      OBVIOUS
    <3> QED BY <2>1, <3>1, <3>2, <1>1, <1>2
  <2>2. CASE k = n
    <3>1. f2[tail] = e
      BY <1>2, <1>4, <1>1
    <3>2. b2[e] = tail
      BY <1>2
    <3> QED BY <2>2, <3>1, <3>2, <1>1, <1>2, <1>4
  <2>3. CASE k < n
    <3>1. k \in 0..n /\ k + 1 \in 0..n /\ k # n /\ k + 1 # 0
      BY <2>3, <1>1
    <3>2. f[NodeAt(q, k)] = NodeAt(q, k + 1) /\ b[NodeAt(q, k + 1)] = NodeAt(q, k)
      BY <3>1 DEF ListIs
    <3>3. NodeAt(q, k) # tail /\ NodeAt(q, k) # e
      BY <3>1, <1>1, <1>2, <1>3, <1>4
    <3>4. NodeAt(q, k + 1) # ListHead /\ NodeAt(q, k + 1) # e
      BY <3>1, <1>1, <1>2, <1>3
    <3>5. f2[NodeAt(q, k)] = f[NodeAt(q, k)] /\ b2[NodeAt(q, k + 1)] = b[NodeAt(q, k + 1)]
      BY <3>1, <3>3, <3>4, <1>2
    <3> QED BY <3>1, <3>2, <3>5, <1>2
  <2> QED BY <2>1, <2>2, <2>3, <1>1
<1>7. Members(r) = Members(q) \cup {e}
  <2>1. \A k \in 1..(n + 1) : k \in 1..n \/ k = n + 1
    BY <1>1
  <2>2. n + 1 \in 1..(n + 1) /\ \A k \in 1..n : k \in 1..(n + 1)
    BY <1>1
  <2>3. ASSUME NEW z \in Members(r) PROVE z \in Members(q) \cup {e}
    <3>1. PICK k \in 1..(n + 1) : z = r[k]
      BY <1>1 DEF Members
    <3> QED BY <3>1, <1>1, <2>1 DEF Members
  <2>4. ASSUME NEW z \in Members(q) PROVE z \in Members(r)
    <3>1. PICK k \in 1..n : z = q[k]
      BY DEF Members
    <3>2. z = r[k] /\ k \in 1..Len(r)
      BY <3>1, <1>1, <2>2
    <3> QED BY <3>2 DEF Members
  <2>5. e \in Members(r)
    BY <1>1, <2>2 DEF Members
  <2> QED BY <2>3, <2>4, <2>5
<1>8. ListIs(f2, b2, r)
  BY <1>1, <1>5, <1>6 DEF ListIs
<1> QED BY <1>7, <1>8

\* The first item of a list that has one is taken out.
LEMMA UnlinkFirst ==
    ASSUME NEW f \in [Nodes -> Nodes], NEW b \in [Nodes -> Nodes], NEW q \in Seq(Items), ListIs(f, b, q),
           f[ListHead] # ListHead
    PROVE  /\ f[ListHead] \in Members(q)
           /\ ListIs(FirstF(f), FirstB(f, b), Tail(q)) /\ Members(Tail(q)) = Members(q) \ {f[ListHead]}
<1> DEFINE f2 == FirstF(f)
           b2 == FirstB(f, b)
           eldest == f[ListHead]
           second == f[eldest]
           r == Tail(q)
           n == Len(q)
<1> USE Constants DEF FirstF, FirstB
<1>1. n \in Nat /\ n # 0 /\ eldest = q[1]
  <2>1. NodeAt(q, 0) = ListHead /\ eldest = NodeAt(q, 1)
    <3>1. 0 \in 0..Len(q) /\ NodeAt(q, 0) = ListHead
      BY DEF NodeAt
    <3>2. f[NodeAt(q, 0)] = NodeAt(q, 0 + 1)
      BY <3>1 DEF ListIs
    <3> QED BY <3>1, <3>2
  <2> QED BY <2>1 DEF NodeAt
<1>2. /\ Len(r) = n - 1 /\ r \in Seq(Items)
      /\ \A k \in 1..(n - 1) : r[k] = q[k + 1]
      /\ \A k \in 1..n : q[k] \in Items
  <2>1. q # << >>
    BY <1>1
  <2> QED BY <2>1, <1>1, HeadTailProperties
<1>3. /\ \A k \in 1..n : NodeAt(r, k) = NodeAt(q, k + 1)
      /\ \A k \in 0..n : NodeAt(q, k) \in Nodes
      /\ NodeAt(r, 0) = ListHead /\ NodeAt(q, 0) = ListHead /\ NodeAt(q, n + 1) = ListHead
      /\ NodeAt(q, 1) = eldest /\ NodeAt(r, n) = ListHead
  BY <1>1, <1>2 DEF NodeAt, Nodes
<1>4. \A k, m \in 0..n : NodeAt(q, k) = NodeAt(q, m) => k = m
  BY <1>1, <1>2 DEF NodeAt, ListIs, Distinct
<1>5. second = NodeAt(q, 2)
  BY <1>1, <1>3 DEF ListIs
<1>6. Distinct(r)
  BY <1>1, <1>2 DEF Distinct, ListIs
<1>7. ASSUME NEW k \in 0..(n - 1)
      PROVE  f2[NodeAt(r, k)] = NodeAt(r, k + 1) /\ b2[NodeAt(r, k + 1)] = NodeAt(r, k)
  <2>1. CASE k = 0
    <3>1. f2[ListHead] = second /\ b2[second] = ListHead
      BY <1>1, <1>2 DEF Nodes
    <3>2. NodeAt(r, 1) = second
      BY <1>1, <1>3, <1>5
    <3> QED BY <2>1, <3>1, <3>2, <1>3
  <2>2. CASE k # 0
    <3>1. k \in 1..n /\ k + 1 \in 1..n /\ k + 1 \in 0..n /\ (k + 2 \in 0..n \/ k + 2 = n + 1) /\ k + 2 # 2
      BY <2>2, <1>1
    <3>2. f[NodeAt(q, k + 1)] = NodeAt(q, k + 2) /\ b[NodeAt(q, k + 2)] = NodeAt(q, k + 1)
      BY <3>1 DEF ListIs
    <3>3. NodeAt(q, k + 1) # ListHead
      BY <3>1, <1>1, <1>3, <1>4
    <3>4. NodeAt(q, k + 2) # second
      <4>1. CASE k + 2 \in 0..n
        BY <3>1, <4>1, <1>1, <1>4, <1>5, 2 \in 0..n
      <4>2. CASE k + 2 = n + 1
        BY <3>1, <4>2, <1>1, <1>3, <1>4, <1>5, 2 \in 0..n, 0 \in 0..n
      <4> QED BY <3>1, <4>1, <4>2
    <3>5. NodeAt(r, k) = NodeAt(q, k + 1) /\ NodeAt(r, k + 1) = NodeAt(q, k + 2)
      BY <3>1, <1>3
    <3>6. NodeAt(q, k + 1) \in Nodes /\ NodeAt(q, k + 2) \in Nodes
      BY <3>1, <1>3
    <3> QED BY <3>2, <3>3, <3>4, <3>5, <3>6
  <2> QED BY <2>1, <2>2
<1>8. Members(r) = Members(q) \ {eldest}
  <2>1. ASSUME NEW e \in Members(r) PROVE e \in Members(q) \ {eldest}
    <3>1. PICK k \in 1..(n - 1) : e = q[k + 1]
      BY <1>2 DEF Members
    <3>2. k + 1 \in 1..n /\ k + 1 # 1 /\ 1 \in 1..n
      BY <1>1
    <3> QED BY <3>1, <3>2, <1>1 DEF Members, ListIs, Distinct
  <2>2. ASSUME NEW e \in Members(q), e # eldest PROVE e \in Members(r)
    <3>1. PICK k \in 1..n : e = q[k]
      BY DEF Members
    <3>2. k - 1 \in 1..(n - 1) /\ k = (k - 1) + 1
      BY <3>1, <2>2, <1>1
    <3>3. e = r[k - 1]
      BY <3>1, <3>2, <1>2
    <3> QED BY <3>2, <3>3, <1>2 DEF Members
  <2> QED BY <2>1, <2>2
<1>9. eldest \in Members(q)
  BY <1>1 DEF Members
<1>10. ListIs(f2, b2, r)
  BY <1>1, <1>2, <1>6, <1>7 DEF ListIs
<1> QED BY <1>8, <1>9, <1>10
\* What is in the list are items, finitely many.
LEMMA LinkedItems ==
    ASSUME HasList
    PROVE  Linked \subseteq Items /\ IsFiniteSet(Linked) /\ Cardinality(Linked) \in Nat
<1>1. PICK q \in Seq(Items) : ListIs(flink, blink, q)
  BY DEF HasList
<1>2. Linked = Members(q) /\ IsFiniteSet(Members(q))
  BY <1>1, Constants, WalkIs, DistinctCounts DEF ListIs, Linked, Forward
<1>3. Members(q) \subseteq Items
  BY DEF Members
<1> QED BY <1>2, <1>3, FS_CardinalityType

\* An item that is not in the list is appended to it.
LEMMA Inserted ==
    ASSUME Typed, HasList, NEW e \in Items, e \notin Linked, InsertTailList(e)
    PROVE  /\ Linked' = Linked \cup {e} /\ Cardinality(Linked') = Cardinality(Linked) + 1
           /\ HasList'
<1>1. PICK q \in Seq(Items) : ListIs(flink, blink, q)
  BY DEF HasList
<1>2. Linked = Members(q)
  BY <1>1, Constants, WalkIs DEF ListIs, Linked, Forward
<1>3. ListIs(flink', blink', Append(q, e)) /\ Members(Append(q, e)) = Members(q) \cup {e}
  <2>1. flink \in [Nodes -> Nodes] /\ blink \in [Nodes -> Nodes] /\ e \notin Members(q)
    BY <1>2 DEF Typed, QueueTypeOK
  <2>2. flink' = LastF(flink, blink, e) /\ blink' = LastB(blink, e)
    BY DEF InsertTailList, LastF, LastB
  <2> QED BY <1>1, <2>1, <2>2, InsertLast
<1>4. Append(q, e) \in Seq(Items)
  OBVIOUS
<1>5. Linked' = Members(Append(q, e))
  BY <1>3, <1>4, Constants, WalkIs DEF ListIs, Linked, Forward
<1>6. Linked' = Linked \cup {e}
  BY <1>2, <1>3, <1>5
<1> QED BY <1>3, <1>4, <1>6, LinkedItems, FS_AddElement DEF HasList

\* The first item is taken out of a list that has one.
LEMMA Removed ==
    ASSUME Typed, HasList, ~ListEmpty, RemoveHeadList
    PROVE  /\ flink[ListHead] \in Linked
           /\ Linked' = Linked \ {flink[ListHead]} /\ Cardinality(Linked') = Cardinality(Linked) - 1
           /\ HasList'
<1>1. PICK q \in Seq(Items) : ListIs(flink, blink, q)
  BY DEF HasList
<1>2. Linked = Members(q)
  BY <1>1, Constants, WalkIs DEF ListIs, Linked, Forward
<1>3. /\ flink[ListHead] \in Members(q)
      /\ ListIs(flink', blink', Tail(q)) /\ Members(Tail(q)) = Members(q) \ {flink[ListHead]}
  <2>1. flink \in [Nodes -> Nodes] /\ blink \in [Nodes -> Nodes] /\ flink[ListHead] # ListHead
    BY DEF Typed, QueueTypeOK, ListEmpty
  <2>2. flink' = FirstF(flink) /\ blink' = FirstB(flink, blink)
    BY DEF RemoveHeadList, FirstF, FirstB
  <2> QED BY <1>1, <2>1, <2>2, UnlinkFirst
<1>4. Tail(q) \in Seq(Items)
  <2>1. q # << >>
    BY <1>3 DEF Members
  <2> QED BY <2>1, HeadTailProperties
<1>5. Linked' = Members(Tail(q))
  BY <1>3, <1>4, Constants, WalkIs DEF ListIs, Linked, Forward
<1>6. Linked' = Linked \ {flink[ListHead]} /\ flink[ListHead] \in Linked
  BY <1>2, <1>3, <1>5
<1> QED BY <1>3, <1>4, <1>6, LinkedItems, FS_RemoveElement DEF HasList

\* While the links stay, so does the list.
LEMMA Untouched ==
    ASSUME flink' = flink, blink' = blink
    PROVE  /\ Linked' = Linked
           /\ HasList => HasList'
BY DEF Linked, HasList

-----------------------------------------------------------------------------
(* The list and its links, as long as no item has been linked twice. *)

Listed == Typed /\ HasList /\ LinksCounted

\* A producer's step keeps the list a list and the links counted, unless it links
\* an item for the second time.
LEMMA LinksProduce ==
    ASSUME Listed, Typed', Clean, Clean', NEW pr \in Producers, Produce(pr)
    PROVE  HasList' /\ LinksCounted'
<1> USE Constants
<1>0. /\ at \in [Actors -> {"idle", "limit", "drop", "alloc", "link", "fill", "append", "remove", "copy", "reply"}]
      /\ item \in [Actors -> Nodes] /\ mem \in [Items -> {"none", "allocated", "filled", "freed"}]
      /\ links \in [Items -> Nat] /\ Linked \subseteq Items
      /\ \A t \in Actors : item[t] # None => item[t] \in Items
  BY LinkedItems DEF Listed, Typed, QueueTypeOK
<1>1. CASE RaiseCount(pr)
  <2>1. HasList' /\ Linked' = Linked
    BY <1>1, Untouched DEF RaiseCount, Listed
  <2> QED BY <1>0, <1>1, <2>1 DEF RaiseCount, Listed, Typed, ItemsInPlace, LinksCounted, Making, Unlinked, Holds
<1>2. CASE TakeOldest(pr)
  <2>1. /\ ~ListEmpty /\ RemoveHeadList /\ item' = [item EXCEPT ![pr] = flink[ListHead]]
        /\ at' = [at EXCEPT ![pr] = "drop"] /\ links' = links /\ mem' = mem /\ linkedBy' = linkedBy
    BY <1>2 DEF TakeOldest, Clean
  <2>2. HasList' /\ Linked' = Linked \ {flink[ListHead]} /\ flink[ListHead] \in Linked
    BY <2>1, Removed DEF Listed
  <2> QED BY <1>0, <2>1, <2>2 DEF Listed, Typed, ItemsInPlace, LinksCounted, Making, Unlinked, Holds
<1>3. CASE DropOldest(pr)
  <2>1. HasList' /\ Linked' = Linked
    BY <1>3, Untouched DEF DropOldest, Listed
  <2> QED BY <1>0, <1>3, <2>1 DEF DropOldest, Listed, Typed, ItemsInPlace, LinksCounted, Making, Unlinked, Holds
<1>4. CASE AllocateItem(pr)
  <2>1. HasList' /\ Linked' = Linked
    BY <1>4, Untouched DEF AllocateItem, Listed
  <2> QED BY <1>0, <1>4, <2>1 DEF AllocateItem, Listed, Typed, ItemsInPlace, LinksCounted, Making, Unlinked, Holds
<1>5. CASE AllocateFails(pr)
  <2>1. HasList' /\ Linked' = Linked
    BY <1>5, Untouched DEF AllocateFails, Listed
  <2> QED BY <1>0, <1>5, <2>1 DEF AllocateFails, Listed, Typed, ItemsInPlace, LinksCounted, Making, Unlinked, Holds
<1>6. CASE LinkInAllocate(pr)
  <2>1. item[pr] \in Items /\ links[item[pr]] = 0 /\ item[pr] \notin Linked
    BY <1>0, <1>6 DEF LinkInAllocate, Listed, Typed, ItemsInPlace, LinksCounted, Making, Unlinked
  <2>2. HasList' /\ Linked' = Linked \cup {item[pr]}
    BY <1>6, <2>1, Inserted DEF LinkInAllocate, Listed
  <2>3. /\ links' = [links EXCEPT ![item[pr]] = @ + 1] /\ at' = [at EXCEPT ![pr] = "fill"] /\ item' = item
        /\ mem' = mem /\ linkedBy' = linkedBy /\ "allocate" \in linkedBy /\ at[pr] = "link"
    BY <1>6 DEF LinkInAllocate, InsertTailList, Listed, Typed, ItemsInPlace
  <2> QED BY <1>0, <2>1, <2>2, <2>3 DEF Listed, Typed, ItemsInPlace, LinksCounted, Making, Unlinked, Holds
<1>7. CASE FillItem(pr)
  <2>1. HasList' /\ Linked' = Linked
    BY <1>7, Untouched DEF FillItem, Listed
  <2> QED BY <1>0, <1>7, <2>1 DEF FillItem, Listed, Typed, ItemsInPlace, LinksCounted, Making, Unlinked, Holds
<1>8. CASE AppendNotifyItem(pr)
  <2>1. item[pr] \in Items /\ at[pr] = "append"
    BY <1>0, <1>8 DEF AppendNotifyItem, Listed, Typed, ItemsInPlace, Making
  <2>2. /\ links' = [links EXCEPT ![item[pr]] = @ + 1] /\ at' = [at EXCEPT ![pr] = "idle"]
        /\ item' = [item EXCEPT ![pr] = None] /\ mem' = mem /\ linkedBy' = linkedBy
    BY <1>8 DEF AppendNotifyItem, InsertTailList
  <2>3. links[item[pr]] = 0
    BY <1>0, <2>1, <2>2 DEF Listed, LinksCounted, Making, Clean, LinkedOnce
  <2>4. item[pr] \notin Linked
    BY <2>1, <2>3 DEF Listed, LinksCounted
  <2>5. HasList' /\ Linked' = Linked \cup {item[pr]}
    BY <1>8, <2>1, <2>4, Inserted DEF AppendNotifyItem, Listed
  <2> QED BY <1>0, <2>1, <2>2, <2>3, <2>5 DEF Listed, Typed, ItemsInPlace, LinksCounted, Making, Unlinked, Holds
<1> QED BY <1>1, <1>2, <1>3, <1>4, <1>5, <1>6, <1>7, <1>8 DEF Produce

\* So does a collector's.
LEMMA LinksCollect ==
    ASSUME Listed, Typed', Clean, Clean', NEW c \in Collectors, Collect(c)
    PROVE  HasList' /\ LinksCounted'
<1> USE Constants
<1>0. /\ at \in [Actors -> {"idle", "limit", "drop", "alloc", "link", "fill", "append", "remove", "copy", "reply"}]
      /\ item \in [Actors -> Nodes] /\ mem \in [Items -> {"none", "allocated", "filled", "freed"}]
      /\ links \in [Items -> Nat] /\ Linked \subseteq Items
      /\ \A t \in Actors : item[t] # None => item[t] \in Items
  BY LinkedItems DEF Listed, Typed, QueueTypeOK
<1>1. CASE StartCollect(c)
  <2>1. HasList' /\ Linked' = Linked
    BY <1>1, Untouched DEF StartCollect, Listed
  <2> QED BY <1>0, <1>1, <2>1 DEF StartCollect, Listed, Typed, ItemsInPlace, LinksCounted, Making, Unlinked, Holds
<1>2. CASE TakeFirst(c)
  <2>1. /\ ~ListEmpty /\ RemoveHeadList /\ item' = [item EXCEPT ![c] = flink[ListHead]]
        /\ at' = [at EXCEPT ![c] = "copy"] /\ links' = links /\ mem' = mem /\ linkedBy' = linkedBy
    BY <1>2 DEF TakeFirst
  <2>2. HasList' /\ Linked' = Linked \ {flink[ListHead]} /\ flink[ListHead] \in Linked
    BY <2>1, Removed DEF Listed
  <2> QED BY <1>0, <2>1, <2>2 DEF Listed, Typed, ItemsInPlace, LinksCounted, Making, Unlinked, Holds
<1>3. CASE ListExhausted(c)
  <2>1. HasList' /\ Linked' = Linked
    BY <1>3, Untouched DEF ListExhausted, Listed
  <2> QED BY <1>0, <1>3, <2>1 DEF ListExhausted, Listed, Typed, ItemsInPlace, LinksCounted, Making, Unlinked, Holds
<1>4. CASE CopyItem(c)
  <2>1. HasList' /\ Linked' = Linked
    BY <1>4, Untouched DEF CopyItem, Listed
  <2>2. /\ item[c] # None /\ item' = [item EXCEPT ![c] = None] /\ mem' = [mem EXCEPT ![item[c]] = "freed"]
        /\ (at' = [at EXCEPT ![c] = "remove"] \/ at' = [at EXCEPT ![c] = "reply"])
        /\ links' = links /\ linkedBy' = linkedBy
    BY <1>4 DEF CopyItem, Listed, Typed, ItemsInPlace
  <2> QED BY <1>0, <2>1, <2>2 DEF Listed, Typed, ItemsInPlace, LinksCounted, Making, Unlinked, Holds
<1>5. CASE SkipItem(c)
  <2>1. HasList' /\ Linked' = Linked
    BY <1>5, Untouched DEF SkipItem, Listed
  <2> QED BY <1>0, <1>5, <2>1 DEF SkipItem, Listed, Typed, ItemsInPlace, LinksCounted, Making, Unlinked, Holds
<1>6. CASE ReplyToClient(c)
  <2>1. HasList' /\ Linked' = Linked
    BY <1>6, Untouched DEF ReplyToClient, Listed
  <2> QED BY <1>0, <1>6, <2>1 DEF ReplyToClient, Listed, Typed, ItemsInPlace, LinksCounted, Making, Unlinked, Holds
<1> QED BY <1>1, <1>2, <1>3, <1>4, <1>5, <1>6 DEF Collect

-----------------------------------------------------------------------------
(* The counter. *)

\* The producers on their way are finitely many.
LEMMA RaisedFinite ==
    /\ Raised \subseteq Producers /\ IsFiniteSet(Raised) /\ Cardinality(Raised) \in Nat
    /\ Limited \subseteq Producers /\ IsFiniteSet(Limited) /\ Cardinality(Limited) \in Nat
    /\ Cardinality(Limited) <= Cardinality(Producers) /\ Cardinality(Producers) \in Nat
<1>1. Raised \subseteq Producers /\ Limited \subseteq Producers
  BY DEF Raised, Limited
<1> QED BY <1>1, Constants, FS_Subset, FS_CardinalityType

\* A producer's step changes the counter as it changes the list, the items on their
\* way and the failures.
LEMMA CountProduce ==
    ASSUME Listed, Typed', Clean, Clean', CountRight, NEW pr \in Producers, Produce(pr)
    PROVE  CountRight'
<1> USE Constants
<1>0. /\ at \in [Actors -> {"idle", "limit", "drop", "alloc", "link", "fill", "append", "remove", "copy", "reply"}]
      /\ CurrentItemCount \in Int /\ failures \in Int /\ Cardinality(Linked) \in Int /\ Cardinality(Raised) \in Int
  BY LinkedItems, RaisedFinite DEF Listed, Typed, QueueTypeOK
<1>a. Cardinality(Raised \cup {pr}) = IF pr \in Raised THEN Cardinality(Raised) ELSE Cardinality(Raised) + 1
  BY RaisedFinite, FS_AddElement
<1>b. Cardinality(Raised \ {pr}) = IF pr \in Raised THEN Cardinality(Raised) - 1 ELSE Cardinality(Raised)
  BY RaisedFinite, FS_RemoveElement
<1>1. CASE RaiseCount(pr)
  <2>1. Raised' = Raised \cup {pr} /\ pr \notin Raised
    BY <1>0, <1>1 DEF RaiseCount, Raised
  <2>2. Linked' = Linked /\ failures' = failures /\ CurrentItemCount' = CurrentItemCount + 1
    BY <1>1, Untouched DEF RaiseCount
  <2> QED BY <1>0, <1>a, <2>1, <2>2 DEF CountRight
<1>2. CASE TakeOldest(pr)
  <2>1. ~ListEmpty /\ RemoveHeadList
    BY <1>2 DEF TakeOldest, Clean
  <2>2. Raised' = Raised
    BY <1>0, <1>2 DEF TakeOldest, Raised
  <2>3. Cardinality(Linked') = Cardinality(Linked) - 1
    BY <2>1, Removed DEF Listed
  <2>4. failures' = failures /\ CurrentItemCount' = CurrentItemCount - 1
    BY <1>2 DEF TakeOldest
  <2> QED BY <1>0, <2>2, <2>3, <2>4 DEF CountRight
<1>3. CASE DropOldest(pr)
  <2>1. Raised' = Raised
    BY <1>0, <1>3 DEF DropOldest, Raised
  <2>2. Linked' = Linked /\ failures' = failures /\ CurrentItemCount' = CurrentItemCount
    BY <1>3, Untouched DEF DropOldest
  <2> QED BY <2>1, <2>2 DEF CountRight
<1>4. CASE AllocateItem(pr)
  <2>1. Raised' = Raised
    BY <1>0, <1>4 DEF AllocateItem, Raised
  <2>2. Linked' = Linked /\ failures' = failures /\ CurrentItemCount' = CurrentItemCount
    BY <1>4, Untouched DEF AllocateItem
  <2> QED BY <2>1, <2>2 DEF CountRight
<1>5. CASE AllocateFails(pr)
  <2>1. Raised' = Raised \ {pr} /\ pr \in Raised
    BY <1>0, <1>5 DEF AllocateFails, Raised
  <2>2. Linked' = Linked /\ failures' = failures + 1 /\ CurrentItemCount' = CurrentItemCount
    BY <1>5, Untouched DEF AllocateFails
  <2> QED BY <1>0, <1>b, <2>1, <2>2 DEF CountRight
<1>6. CASE LinkInAllocate(pr)
  <2>1. item[pr] \in Items /\ item[pr] \notin Linked
    BY <1>6 DEF LinkInAllocate, Listed, Typed, QueueTypeOK, ItemsInPlace, LinksCounted, Making, Unlinked
  <2>2. Cardinality(Linked') = Cardinality(Linked) + 1
    BY <1>6, <2>1, Inserted DEF LinkInAllocate, Listed
  <2>3. Raised' = Raised \ {pr} /\ pr \in Raised
    BY <1>0, <1>6 DEF LinkInAllocate, Raised, Listed, Typed, ItemsInPlace
  <2>4. failures' = failures /\ CurrentItemCount' = CurrentItemCount
    BY <1>6 DEF LinkInAllocate
  <2> QED BY <1>0, <1>b, <2>2, <2>3, <2>4 DEF CountRight
<1>7. CASE FillItem(pr)
  <2>1. "allocate" \in linkedBy \/ "caller" \in linkedBy
    <3>1. linkedBy \in Linkings
      BY DEF Listed, Typed, QueueTypeOK
    <3>2. linkedBy # {} /\ linkedBy \subseteq {"allocate", "caller"}
      BY <3>1, QueueAssumption
    <3> QED BY <3>2
  <2>2. Raised' = Raised
    BY <1>0, <1>7, <2>1 DEF FillItem, Raised
  <2>3. Linked' = Linked /\ failures' = failures /\ CurrentItemCount' = CurrentItemCount
    BY <1>7, Untouched DEF FillItem
  <2> QED BY <2>2, <2>3 DEF CountRight
<1>8. CASE AppendNotifyItem(pr)
  <2>1. item[pr] \in Items /\ at[pr] = "append"
    BY <1>8 DEF AppendNotifyItem, Listed, Typed, QueueTypeOK, ItemsInPlace, Making
  <2>2. links' = [links EXCEPT ![item[pr]] = @ + 1] /\ at' = [at EXCEPT ![pr] = "idle"]
    BY <1>8 DEF AppendNotifyItem, InsertTailList
  <2>3. links[item[pr]] = 0 /\ Unlinked(pr)
    BY <2>1, <2>2 DEF Listed, Typed, QueueTypeOK, LinksCounted, Making, Clean, LinkedOnce
  <2>4. item[pr] \notin Linked
    BY <2>1, <2>3 DEF Listed, LinksCounted
  <2>5. Cardinality(Linked') = Cardinality(Linked) + 1
    BY <1>8, <2>1, <2>4, Inserted DEF AppendNotifyItem, Listed
  <2>6. Raised' = Raised \ {pr} /\ pr \in Raised
    BY <1>0, <1>8, <2>1, <2>3 DEF AppendNotifyItem, Raised, Unlinked
  <2>7. failures' = failures /\ CurrentItemCount' = CurrentItemCount
    BY <1>8 DEF AppendNotifyItem
  <2> QED BY <1>0, <1>b, <2>5, <2>6, <2>7 DEF CountRight
<1> QED BY <1>1, <1>2, <1>3, <1>4, <1>5, <1>6, <1>7, <1>8 DEF Produce

\* So does a collector's.
LEMMA CountCollect ==
    ASSUME Listed, Typed', Clean, Clean', CountRight, NEW c \in Collectors, Collect(c)
    PROVE  CountRight'
<1> USE Constants
<1>0. /\ CurrentItemCount \in Int /\ failures \in Int /\ Cardinality(Linked) \in Int /\ Cardinality(Raised) \in Int
  BY LinkedItems, RaisedFinite DEF Listed, Typed, QueueTypeOK
<1>1. \A pr \in Producers : at'[pr] = at[pr]
  <2>1. \E l : at' = [at EXCEPT ![c] = l]
    BY DEF Collect, StartCollect, TakeFirst, ListExhausted, CopyItem, SkipItem, ReplyToClient
  <2> QED BY <2>1 DEF Listed, Typed, QueueTypeOK
<1>2. linkedBy' = linkedBy /\ failures' = failures
  BY DEF Collect, StartCollect, TakeFirst, ListExhausted, CopyItem, SkipItem, ReplyToClient
<1>3. Raised' = Raised
  BY <1>1, <1>2 DEF Raised
<1>4. CASE TakeFirst(c)
  <2>1. ~ListEmpty /\ RemoveHeadList
    BY <1>4 DEF TakeFirst
  <2>2. Cardinality(Linked') = Cardinality(Linked) - 1
    BY <2>1, Removed DEF Listed
  <2>3. Cardinality(Linked') \in Nat
    BY <2>1, Removed, LinkedItems, FS_Subset, FS_CardinalityType DEF Listed
  <2>4. Cardinality(Raised) \in Nat /\ failures \in Nat /\ MaxBelow \in Nat
    BY RaisedFinite, FS_CardinalityType DEF Listed, Typed, QueueTypeOK
  <2>5. CurrentItemCount > -MaxBelow
    BY <1>0, <2>2, <2>3, <2>4 DEF CountRight
  <2>6. CurrentItemCount' = CurrentItemCount - 1
    BY <1>4, <2>5 DEF TakeFirst
  <2> QED BY <1>0, <1>2, <1>3, <2>2, <2>6 DEF CountRight
<1>5. CASE ~TakeFirst(c)
  <2>1. CurrentItemCount' = CurrentItemCount /\ flink' = flink /\ blink' = blink
    BY <1>5 DEF Collect, StartCollect, ListExhausted, CopyItem, SkipItem, ReplyToClient
  <2>2. Linked' = Linked
    BY <2>1, Untouched
  <2> QED BY <1>2, <1>3, <2>1, <2>2 DEF CountRight
<1> QED BY <1>4, <1>5

\* The counter goes below zero by what the collectors may take, and by one for
\* every producer at most: it is lowered without a test by those that have raised it.
LEMMA BoundKept ==
    ASSUME QueueTypeOK, CountBound, QueueNext
    PROVE  CountBound' /\ CurrentItemCount' >= -MaxBelow - Cardinality(Producers)
<1> USE Constants
<1>0. /\ at \in [Actors -> {"idle", "limit", "drop", "alloc", "link", "fill", "append", "remove", "copy", "reply"}]
      /\ CurrentItemCount \in Int
  BY DEF QueueTypeOK
<1>1. /\ Cardinality(Limited) \in Nat /\ Cardinality(Limited') \in Nat
      /\ Cardinality(Producers) \in Nat /\ Cardinality(Limited) <= Cardinality(Producers)
      /\ Cardinality(Limited') <= Cardinality(Producers)
  <2>1. Limited' \subseteq Producers
    BY DEF Limited
  <2> QED BY <2>1, RaisedFinite, Constants, FS_Subset, FS_CardinalityType
<1>2. ASSUME NEW pr \in Producers, Produce(pr) PROVE CountBound'
  <2>a. Cardinality(Limited \cup {pr}) = IF pr \in Limited THEN Cardinality(Limited) ELSE Cardinality(Limited) + 1
    BY RaisedFinite, FS_AddElement
  <2>b. Cardinality(Limited \ {pr}) = IF pr \in Limited THEN Cardinality(Limited) - 1 ELSE Cardinality(Limited)
    BY RaisedFinite, FS_RemoveElement
  <2>1. CASE RaiseCount(pr)
    <3>1. Limited' = Limited \cup {pr} \/ Limited' = Limited
      BY <1>0, <2>1 DEF RaiseCount, Limited
    <3>2. CurrentItemCount' = CurrentItemCount + 1
      BY <2>1 DEF RaiseCount
    <3>3. Cardinality(Limited') <= Cardinality(Limited) + 1
      BY <3>1, <2>a, <1>1
    <3> QED BY <1>0, <1>1, <3>2, <3>3 DEF CountBound
  <2>2. CASE TakeOldest(pr)
    <3>1. Limited' = Limited \ {pr} /\ pr \in Limited
      BY <1>0, <2>2 DEF TakeOldest, Limited
    <3>2. CurrentItemCount' = CurrentItemCount - 1
      BY <2>2 DEF TakeOldest
    <3> QED BY <1>0, <1>1, <2>b, <3>1, <3>2 DEF CountBound
  <2>3. CASE ~RaiseCount(pr) /\ ~TakeOldest(pr)
    <3>1. Limited' = Limited /\ CurrentItemCount' = CurrentItemCount
      BY <1>0, <1>2, <2>3 DEF Produce, DropOldest, AllocateItem, AllocateFails, LinkInAllocate, FillItem,
                              AppendNotifyItem, Limited
    <3> QED BY <3>1 DEF CountBound
  <2> QED BY <2>1, <2>2, <2>3
<1>3. ASSUME NEW c \in Collectors, Collect(c) PROVE CountBound'
  <2>1. \A pr \in Producers : at'[pr] = at[pr]
    BY <1>0, <1>3 DEF Collect, StartCollect, TakeFirst, ListExhausted, CopyItem, SkipItem, ReplyToClient
  <2>2. Limited' = Limited
    BY <2>1 DEF Limited
  <2>3. \/ CurrentItemCount' = CurrentItemCount
        \/ CurrentItemCount > -MaxBelow /\ CurrentItemCount' = CurrentItemCount - 1
    BY <1>3 DEF Collect, StartCollect, TakeFirst, ListExhausted, CopyItem, SkipItem, ReplyToClient
  <2> QED BY <1>0, <1>1, <2>2, <2>3 DEF CountBound
<1>4. CountBound'
  BY <1>2, <1>3 DEF QueueNext
<1>5. CurrentItemCount' \in Int
  <2>1. \/ CurrentItemCount' = CurrentItemCount \/ CurrentItemCount' = CurrentItemCount + 1
        \/ CurrentItemCount' = CurrentItemCount - 1
    BY DEF QueueNext, Produce, Collect, RaiseCount, TakeOldest, DropOldest, AllocateItem, AllocateFails,
           LinkInAllocate, FillItem, AppendNotifyItem, StartCollect, TakeFirst, ListExhausted, CopyItem,
           SkipItem, ReplyToClient
  <2> QED BY <1>0, <2>1
<1> QED BY <1>1, <1>4, <1>5 DEF CountBound

-----------------------------------------------------------------------------
(* Memory: what is touched has been allocated and not been freed. *)

Kept == Listed /\ MemoryKept

\* A producer frees only what it has taken out itself.
LEMMA MemoryProduce ==
    ASSUME Kept, Typed', Whole, Whole', NEW pr \in Producers, Produce(pr)
    PROVE  MemoryKept'
<1> USE Constants
<1>0. /\ at \in [Actors -> {"idle", "limit", "drop", "alloc", "link", "fill", "append", "remove", "copy", "reply"}]
      /\ item \in [Actors -> Nodes] /\ mem \in [Items -> {"none", "allocated", "filled", "freed"}]
      /\ links \in [Items -> Nat] /\ Linked \subseteq Items
      /\ \A t \in Actors : item[t] # None => item[t] \in Items
      /\ \A t \in Actors : Making(t) => item[t] \in Items
  BY LinkedItems DEF Kept, Listed, Typed, QueueTypeOK, ItemsInPlace
<1> USE DEF Kept, Listed, Typed
<1>1. CASE RaiseCount(pr)
  <2>1. Linked' = Linked
    BY <1>1, Untouched DEF RaiseCount
  <2> QED BY <1>0, <1>1, <2>1 DEF RaiseCount, MemoryKept, Alive, Unlinked, Holds
<1>2. CASE TakeOldest(pr)
  <2>1. /\ ~ListEmpty /\ RemoveHeadList /\ item' = [item EXCEPT ![pr] = flink[ListHead]]
        /\ at' = [at EXCEPT ![pr] = "drop"] /\ mem' = mem /\ linkedBy' = linkedBy
    BY <1>2 DEF TakeOldest, Whole, Clean
  <2>2. Linked' = Linked \ {flink[ListHead]} /\ flink[ListHead] \in Linked
    BY <2>1, Removed DEF Whole
  <2> QED BY <1>0, <2>1, <2>2 DEF MemoryKept, Alive, Unlinked, Holds
<1>3. CASE DropOldest(pr)
  <2>1. Linked' = Linked
    BY <1>3, Untouched DEF DropOldest
  <2>2. /\ Holds(pr) /\ item' = [item EXCEPT ![pr] = None] /\ mem' = [mem EXCEPT ![item[pr]] = "freed"]
        /\ at' = [at EXCEPT ![pr] = "alloc"] /\ linkedBy' = linkedBy /\ item[pr] \in Items
    BY <1>0, <1>3 DEF DropOldest, Holds
  <2>3. mem[item[pr]] # "allocated"
    BY <1>3 DEF DropOldest, Whole
  <2>4. \A t \in Actors : at[t] = "link" \/ (at[t] = "append" /\ Unlinked(t)) => item[t] # item[pr]
    BY <2>2, <1>0 DEF LinksCounted, Making, Unlinked
  <2> QED BY <1>0, <2>1, <2>2, <2>3, <2>4 DEF MemoryKept, Alive, Unlinked, Holds
<1>4. CASE AllocateItem(pr)
  <2>1. Linked' = Linked
    BY <1>4, Untouched DEF AllocateItem
  <2>2. PICK e \in Items : mem[e] = "none" /\ mem' = [mem EXCEPT ![e] = "allocated"] /\ item' = [item EXCEPT ![pr] = e]
    BY <1>4 DEF AllocateItem
  <2>3. /\ \A t \in Actors : item[t] # e
        /\ e \notin Linked
    BY <2>2 DEF LinksCounted
  <2>4. (at' = [at EXCEPT ![pr] = "link"] \/ at' = [at EXCEPT ![pr] = "fill"]) /\ linkedBy' = linkedBy
    BY <1>4 DEF AllocateItem
  <2> QED BY <1>0, <2>1, <2>2, <2>3, <2>4 DEF MemoryKept, Alive, Unlinked, Holds
<1>5. CASE AllocateFails(pr)
  <2>1. Linked' = Linked
    BY <1>5, Untouched DEF AllocateFails
  <2> QED BY <1>0, <1>5, <2>1 DEF AllocateFails, MemoryKept, Alive, Unlinked, Holds
<1>6. CASE LinkInAllocate(pr)
  <2>1. item[pr] \in Items /\ links[item[pr]] = 0 /\ item[pr] \notin Linked
    BY <1>0, <1>6 DEF LinkInAllocate, LinksCounted, Making, Unlinked
  <2>2. Linked' = Linked \cup {item[pr]}
    BY <1>6, <2>1, Inserted DEF LinkInAllocate, Whole
  <2>3. /\ at' = [at EXCEPT ![pr] = "fill"] /\ item' = item
        /\ mem' = mem /\ linkedBy' = linkedBy /\ at[pr] = "link"
    BY <1>6 DEF LinkInAllocate
  <2>4. \A t \in Actors : Holds(t) => item[t] # item[pr]
    BY <2>1 DEF LinksCounted
  <2> QED BY <1>0, <2>1, <2>2, <2>3, <2>4 DEF MemoryKept, Alive, Unlinked, Holds
<1>7. CASE FillItem(pr)
  <2>1. Linked' = Linked
    BY <1>7, Untouched DEF FillItem
  <2>2. at[pr] = "fill" /\ item[pr] \in Items /\ mem[item[pr]] = "allocated" /\ mem' = [mem EXCEPT ![item[pr]] = "filled"]
        /\ linkedBy' = linkedBy
    BY <1>0, <1>7 DEF FillItem, MemoryKept, Making
  <2>3. \/ at' = [at EXCEPT ![pr] = "append"] /\ item' = item
        \/ at' = [at EXCEPT ![pr] = "idle"] /\ item' = [item EXCEPT ![pr] = None]
    BY <1>7 DEF FillItem
  <2>4. \A t \in Actors : t # pr /\ Making(t) => item[t] # item[pr]
    BY <2>2 DEF LinksCounted, Making
  <2> QED BY <1>0, <2>1, <2>2, <2>3, <2>4 DEF MemoryKept, Alive, Unlinked, Holds, Making
<1>8. CASE AppendNotifyItem(pr)
  <2>1. item[pr] \in Items /\ at[pr] = "append"
    BY <1>0, <1>8 DEF AppendNotifyItem, Making
  <2>2. /\ links' = [links EXCEPT ![item[pr]] = @ + 1] /\ at' = [at EXCEPT ![pr] = "idle"]
        /\ item' = [item EXCEPT ![pr] = None] /\ mem' = mem /\ linkedBy' = linkedBy
    BY <1>8 DEF AppendNotifyItem, InsertTailList
  <2>3. links[item[pr]] = 0 /\ Unlinked(pr)
    BY <1>0, <2>1, <2>2 DEF LinksCounted, Making, Whole, Clean, LinkedOnce
  <2>4. item[pr] \notin Linked
    BY <2>1, <2>3 DEF LinksCounted
  <2>5. Linked' = Linked \cup {item[pr]}
    BY <1>8, <2>1, <2>4, Inserted DEF AppendNotifyItem, Whole
  <2>6. \A t \in Actors : Holds(t) => item[t] # item[pr]
    BY <2>3 DEF LinksCounted
  <2> QED BY <1>0, <2>1, <2>2, <2>3, <2>5, <2>6 DEF MemoryKept, Alive, Unlinked, Holds
<1> QED BY <1>1, <1>2, <1>3, <1>4, <1>5, <1>6, <1>7, <1>8 DEF Produce

\* So does a collector.
LEMMA MemoryCollect ==
    ASSUME Kept, Typed', Whole, Whole', NEW c \in Collectors, Collect(c)
    PROVE  MemoryKept'
<1> USE Constants
<1>0. /\ at \in [Actors -> {"idle", "limit", "drop", "alloc", "link", "fill", "append", "remove", "copy", "reply"}]
      /\ item \in [Actors -> Nodes] /\ mem \in [Items -> {"none", "allocated", "filled", "freed"}]
      /\ links \in [Items -> Nat] /\ Linked \subseteq Items
      /\ \A t \in Actors : item[t] # None => item[t] \in Items
      /\ \A t \in Actors : Making(t) => item[t] \in Items
  BY LinkedItems DEF Kept, Listed, Typed, QueueTypeOK, ItemsInPlace
<1> USE DEF Kept, Listed, Typed
<1>1. CASE StartCollect(c)
  <2>1. Linked' = Linked
    BY <1>1, Untouched DEF StartCollect
  <2> QED BY <1>0, <1>1, <2>1 DEF StartCollect, MemoryKept, Alive, Unlinked, Holds
<1>2. CASE TakeFirst(c)
  <2>1. /\ ~ListEmpty /\ RemoveHeadList /\ item' = [item EXCEPT ![c] = flink[ListHead]]
        /\ at' = [at EXCEPT ![c] = "copy"] /\ mem' = mem /\ linkedBy' = linkedBy
    BY <1>2 DEF TakeFirst
  <2>2. Linked' = Linked \ {flink[ListHead]} /\ flink[ListHead] \in Linked
    BY <2>1, Removed DEF Whole
  <2> QED BY <1>0, <2>1, <2>2 DEF MemoryKept, Alive, Unlinked, Holds
<1>3. CASE ListExhausted(c)
  <2>1. Linked' = Linked
    BY <1>3, Untouched DEF ListExhausted
  <2> QED BY <1>0, <1>3, <2>1 DEF ListExhausted, MemoryKept, Alive, Unlinked, Holds
<1>4. CASE CopyItem(c)
  <2>1. Linked' = Linked
    BY <1>4, Untouched DEF CopyItem
  <2>2. /\ at[c] = "copy" /\ item' = [item EXCEPT ![c] = None] /\ mem' = [mem EXCEPT ![item[c]] = "freed"]
        /\ (at' = [at EXCEPT ![c] = "remove"] \/ at' = [at EXCEPT ![c] = "reply"]) /\ linkedBy' = linkedBy
    BY <1>4 DEF CopyItem
  <2>3. Holds(c) /\ item[c] \in Items
    BY <1>0, <2>2 DEF ItemsInPlace, Holds
  <2>4. mem[item[c]] # "allocated"
    BY <1>4, <2>3 DEF CopyItem, Whole
  <2>5. \A t \in Actors : at[t] = "link" \/ (at[t] = "append" /\ Unlinked(t)) => item[t] # item[c]
    BY <2>3, <1>0 DEF LinksCounted, Making, Unlinked
  <2> QED BY <1>0, <2>1, <2>2, <2>3, <2>4, <2>5 DEF MemoryKept, Alive, Unlinked, Holds
<1>5. CASE SkipItem(c)
  <2>1. Linked' = Linked
    BY <1>5, Untouched DEF SkipItem
  <2> QED BY <1>0, <1>5, <2>1 DEF SkipItem, MemoryKept, Alive, Unlinked, Holds
<1>6. CASE ReplyToClient(c)
  <2>1. Linked' = Linked
    BY <1>6, Untouched DEF ReplyToClient
  <2> QED BY <1>0, <1>6, <2>1 DEF ReplyToClient, MemoryKept, Alive, Unlinked, Holds
<1> QED BY <1>1, <1>2, <1>3, <1>4, <1>5, <1>6 DEF Collect

-----------------------------------------------------------------------------
(* Faults. *)

\* Nothing is linked less often, and nothing that left early comes back.
LEMMA OnlyMore ==
    ASSUME Typed, Typed', QueueNext
    PROVE  (LinkedOnce' => LinkedOnce) /\ early \subseteq early'
<1>1. early \subseteq early'
  BY DEF QueueNext, Produce, Collect, RaiseCount, TakeOldest, DropOldest, AllocateItem, AllocateFails,
         LinkInAllocate, FillItem, AppendNotifyItem, StartCollect, TakeFirst, ListExhausted, CopyItem,
         SkipItem, ReplyToClient
<1>2. ASSUME NEW pr \in Producers, LinkInAllocate(pr) \/ AppendNotifyItem(pr)
      PROVE  \E e \in Items : links' = [links EXCEPT ![e] = @ + 1]
  <2>1. item[pr] \in Items
    BY <1>2, Constants DEF LinkInAllocate, AppendNotifyItem, Typed, QueueTypeOK, ItemsInPlace, Making
  <2>2. links' = [links EXCEPT ![item[pr]] = @ + 1]
    BY <1>2 DEF LinkInAllocate, AppendNotifyItem, InsertTailList
  <2> QED BY <2>1, <2>2
<1>3. ASSUME NEW pr \in Producers, Produce(pr), ~LinkInAllocate(pr), ~AppendNotifyItem(pr) PROVE links' = links
  BY <1>3 DEF Produce, RaiseCount, TakeOldest, DropOldest, AllocateItem, AllocateFails, FillItem
<1>4. ASSUME NEW c \in Collectors, Collect(c) PROVE links' = links
  BY <1>4 DEF Collect, StartCollect, TakeFirst, ListExhausted, CopyItem, SkipItem, ReplyToClient
<1>5. links' = links \/ \E e \in Items : links' = [links EXCEPT ![e] = @ + 1]
  BY <1>2, <1>3, <1>4 DEF QueueNext
<1>6. \A e \in Items : links[e] \in Nat /\ links[e] <= links'[e]
  <2>1. links \in [Items -> Nat]
    BY DEF Typed, QueueTypeOK
  <2>2. ASSUME NEW e \in Items, links' = [links EXCEPT ![e] = @ + 1] PROVE \A z \in Items : links[z] <= links'[z]
    BY <2>1, <2>2
  <2> QED BY <1>5, <2>1, <2>2
<1>7. \A e \in Items : links'[e] \in Nat
  BY DEF Typed, QueueTypeOK
<1> QED BY <1>1, <1>6, <1>7 DEF LinkedOnce

\* A producer that touches what is not an item's has found an item linked twice, or
\* has taken the oldest item of an empty list.
LEMMA FaultProduced ==
    ASSUME Kept, Whole, NEW pr \in Producers, Produce(pr), fault'
    PROVE  \/ \E e \in Items : links'[e] > 1
           \/ at'[pr] = "drop" /\ item'[pr] = None
<1> USE Constants DEF Kept, Listed, Typed
<1>0. /\ at \in [Actors -> {"idle", "limit", "drop", "alloc", "link", "fill", "append", "remove", "copy", "reply"}]
      /\ item \in [Actors -> Nodes] /\ links \in [Items -> Nat] /\ ~fault
      /\ \A t \in Actors : Making(t) => item[t] \in Items
  BY DEF QueueTypeOK, ItemsInPlace, Whole, Clean
<1>1. CASE RaiseCount(pr) \/ AllocateItem(pr) \/ AllocateFails(pr)
  BY <1>0, <1>1 DEF RaiseCount, AllocateItem, AllocateFails
<1>2. CASE TakeOldest(pr)
  <2>1. at[pr] = "limit" /\ at' = [at EXCEPT ![pr] = "drop"] /\ item' = item
    BY <1>0, <1>2 DEF TakeOldest
  <2> QED BY <1>0, <2>1 DEF ItemsInPlace, Making
<1>3. CASE DropOldest(pr)
  BY <1>0, <1>3 DEF DropOldest, MemoryKept, Alive, Holds
<1>4. CASE LinkInAllocate(pr)
  BY <1>0, <1>4 DEF LinkInAllocate, MemoryKept
<1>5. CASE FillItem(pr)
  BY <1>0, <1>5 DEF FillItem, MemoryKept
<1>6. CASE AppendNotifyItem(pr)
  <2>1. at[pr] = "append" /\ Making(pr) /\ mem[item[pr]] # "filled"
    BY <1>0, <1>6 DEF AppendNotifyItem, Making
  <2>2. ~Unlinked(pr) /\ item[pr] \in Items
    BY <1>0, <2>1 DEF MemoryKept
  <2>3. links[item[pr]] = 1 /\ links' = [links EXCEPT ![item[pr]] = @ + 1]
    BY <1>6, <2>1, <2>2 DEF AppendNotifyItem, InsertTailList, LinksCounted
  <2>4. links'[item[pr]] = 2
    BY <1>0, <2>2, <2>3
  <2> QED BY <2>2, <2>4
<1> QED BY <1>1, <1>2, <1>3, <1>4, <1>5, <1>6 DEF Produce

\* A collector does not touch freed memory while all items are linked once and whole.
LEMMA FaultCollected ==
    ASSUME Kept, Whole, NEW c \in Collectors, Collect(c)
    PROVE  ~fault'
<1> USE Constants DEF Kept, Listed, Typed
<1>1. ~fault
  BY DEF Whole, Clean
<1>2. at[c] = "copy" => mem[item[c]] \in {"allocated", "filled"}
  BY DEF MemoryKept, Alive, Holds, ItemsInPlace
<1> QED BY <1>1, <1>2 DEF Collect, StartCollect, TakeFirst, ListExhausted, CopyItem, SkipItem, ReplyToClient

\* So every fault has one of its causes.
LEMMA FaultKept ==
    ASSUME Typed, Typed', Whole => Kept, FaultExplained, QueueNext
    PROVE  FaultExplained'
<1> SUFFICES ASSUME fault' PROVE FaultExplained'
  BY DEF FaultExplained
<1>1. CASE ~LinkedOnce \/ early # {}
  <2>1. ~LinkedOnce' \/ early' # {}
    BY <1>1, OnlyMore
  <2>2. \A e \in Items : links'[e] \in Nat
    BY DEF Typed, QueueTypeOK
  <2> QED BY <2>1, <2>2 DEF FaultExplained, LinkedOnce
<1>2. CASE LinkedOnce /\ early = {}
  <2>1. Whole
    BY <1>2 DEF Whole, Clean, QueueNext
  <2> QED BY <2>1, FaultProduced, FaultCollected DEF QueueNext, FaultExplained
<1> QED BY <1>1, <1>2

-----------------------------------------------------------------------------
(* Items linked once, by the caller. *)

Sound == Kept /\ CopiedOnce

\* With items linked once, by the caller, no item is linked twice and none leaves
\* early.
LEMMA StaysWhole ==
    ASSUME Sound, Typed', Whole, linkedBy = {"caller"}, QueueNext, ~fault'
    PROVE  Whole'
<1> USE Constants DEF Sound, Kept, Listed, Typed
<1>0. /\ item \in [Actors -> Nodes] /\ links \in [Items -> Nat] /\ early = {} /\ LinkedOnce
      /\ \A t \in Actors : Making(t) => item[t] \in Items /\ Unlinked(t) /\ at[t] # "link"
      /\ \A t \in Actors : Holds(t) => mem[item[t]] = "filled"
  BY DEF QueueTypeOK, ItemsInPlace, Making, Unlinked, Whole, Clean, CopiedOnce
<1>1. ASSUME NEW pr \in Producers, Produce(pr) PROVE LinkedOnce' /\ early' = {}
  <2>1. CASE AppendNotifyItem(pr)
    <3>1. Making(pr) /\ links' = [links EXCEPT ![item[pr]] = @ + 1] /\ early' = early
      BY <2>1 DEF AppendNotifyItem, InsertTailList, Making
    <3>2. links[item[pr]] = 0 /\ item[pr] \in Items
      BY <1>0, <3>1 DEF LinksCounted
    <3> QED BY <1>0, <3>1, <3>2 DEF LinkedOnce
  <2>2. CASE LinkInAllocate(pr)
    BY <1>0, <2>2 DEF LinkInAllocate, Making
  <2>3. CASE DropOldest(pr)
    BY <1>0, <2>3 DEF DropOldest, Holds, LinkedOnce
  <2>4. CASE RaiseCount(pr) \/ TakeOldest(pr) \/ AllocateItem(pr) \/ AllocateFails(pr) \/ FillItem(pr)
    BY <1>0, <2>4 DEF RaiseCount, TakeOldest, AllocateItem, AllocateFails, FillItem, LinkedOnce
  <2> QED BY <1>1, <2>1, <2>2, <2>3, <2>4 DEF Produce
<1>2. ASSUME NEW c \in Collectors, Collect(c) PROVE LinkedOnce' /\ early' = {}
  <2>1. links' = links
    BY <1>2 DEF Collect, StartCollect, TakeFirst, ListExhausted, CopyItem, SkipItem, ReplyToClient
  <2>2. at[c] = "copy" => mem[item[c]] = "filled"
    BY <1>0 DEF ItemsInPlace, Holds
  <2>3. early' = {}
    BY <1>0, <1>2, <2>2 DEF Collect, StartCollect, TakeFirst, ListExhausted, CopyItem, SkipItem, ReplyToClient
  <2> QED BY <1>0, <2>1, <2>3 DEF LinkedOnce
<1> QED BY <1>1, <1>2 DEF QueueNext, Whole, Clean

\* What the steps on an item's way may rely on.
LEMMA OnceFacts ==
    ASSUME Sound, linkedBy = {"caller"}
    PROVE  /\ at \in [Actors -> {"idle", "limit", "drop", "alloc", "link", "fill",
                                  "append", "remove", "copy", "reply"}]
           /\ item \in [Actors -> Nodes] /\ mem \in [Items -> {"none", "allocated", "filled", "freed"}]
           /\ fate \in [Items -> {"queued", "dropped", "copied", "oversized"}]
           /\ out \in [Collectors -> Seq(Items)] /\ Linked \subseteq Items
           /\ \A c \in Collectors : \A n \in DOMAIN out[c] : out[c][n] \in Items
           /\ \A t \in Actors : Making(t) \/ Holds(t) => item[t] \in Items
           /\ \A t \in Actors : Making(t) => links[item[t]] = 0 /\ Unlinked(t) /\ at[t] # "link"
           /\ \A t \in Actors : Holds(t) => links[item[t]] = 1
<1> USE Constants DEF Sound, Kept, Listed, Typed
<1>1. out \in [Collectors -> Seq(Items)]
  BY DEF QueueTypeOK
<1>2. \A c \in Collectors : \A n \in DOMAIN out[c] : out[c][n] \in Items
  BY <1>1
<1>3. \A t \in Actors : Making(t) => Unlinked(t) /\ at[t] # "link"
  BY DEF ItemsInPlace, Making, Unlinked
<1> QED BY <1>1, <1>2, <1>3, LinkedItems DEF QueueTypeOK, ItemsInPlace, LinksCounted, Holds

\* A producer's step keeps what is in the list filled in and what was copied copied.
LEMMA OnceProduced ==
    ASSUME Sound, Whole, linkedBy = {"caller"}, NEW pr \in Producers, Produce(pr), ~fault'
    PROVE  CopiedOnce'
<1> USE Constants
<1>0. Typed /\ Listed /\ HasList /\ MemoryKept /\ LinksCounted /\ CopiedOnce
  BY DEF Sound, Kept, Listed
<1>1. CASE RaiseCount(pr)
  <2>1. Linked' = Linked
    BY <1>1, Untouched DEF RaiseCount
  <2> QED BY <1>0, <1>1, <2>1, OnceFacts DEF RaiseCount, CopiedOnce, Making, Holds
<1>2. CASE TakeOldest(pr)
  <2>1. /\ ~ListEmpty /\ RemoveHeadList /\ item' = [item EXCEPT ![pr] = flink[ListHead]]
        /\ at' = [at EXCEPT ![pr] = "drop"] /\ mem' = mem /\ fate' = fate /\ out' = out
    BY <1>2 DEF TakeOldest
  <2>2. Linked' = Linked \ {flink[ListHead]} /\ flink[ListHead] \in Linked
    BY <1>0, <2>1, Removed
  <2> QED BY <1>0, <2>1, <2>2, OnceFacts DEF CopiedOnce, Making, Holds
<1>3. CASE DropOldest(pr)
  <2>1. Linked' = Linked
    BY <1>3, Untouched DEF DropOldest
  <2>2. /\ Holds(pr) /\ item' = [item EXCEPT ![pr] = None] /\ mem' = [mem EXCEPT ![item[pr]] = "freed"]
        /\ at' = [at EXCEPT ![pr] = "alloc"] /\ fate' = [fate EXCEPT ![item[pr]] = "dropped"] /\ out' = out
    BY <1>3 DEF DropOldest, Holds
  <2>3. /\ mem[item[pr]] = "filled" /\ item[pr] \notin Linked
        /\ \A t \in Actors : Making(t) \/ (t # pr /\ Holds(t)) => item[t] # item[pr]
    BY <1>0, <2>2, OnceFacts DEF CopiedOnce, MemoryKept
  <2>4. \A c \in Collectors : \A n \in DOMAIN out[c] : out[c][n] # item[pr]
    BY <1>0, <2>3 DEF CopiedOnce
  <2> QED BY <1>0, <2>1, <2>2, <2>3, <2>4, OnceFacts DEF CopiedOnce, Making, Holds
<1>4. CASE AllocateItem(pr)
  <2>1. Linked' = Linked
    BY <1>4, Untouched DEF AllocateItem
  <2>2. PICK e \in Items : mem[e] = "none" /\ mem' = [mem EXCEPT ![e] = "allocated"] /\ item' = [item EXCEPT ![pr] = e]
    BY <1>4 DEF AllocateItem
  <2>3. at' = [at EXCEPT ![pr] = "fill"] /\ fate' = fate /\ out' = out
    BY <1>4 DEF AllocateItem
  <2>4. /\ \A t \in Actors : item[t] # e
        /\ e \notin Linked /\ fate[e] = "queued"
        /\ \A c \in Collectors : \A n \in DOMAIN out[c] : out[c][n] # e
    BY <1>0, <2>2 DEF LinksCounted, CopiedOnce
  <2> QED BY <1>0, <2>1, <2>2, <2>3, <2>4, OnceFacts DEF CopiedOnce, Making, Holds
<1>5. CASE AllocateFails(pr)
  <2>1. Linked' = Linked
    BY <1>5, Untouched DEF AllocateFails
  <2> QED BY <1>0, <1>5, <2>1, OnceFacts DEF AllocateFails, CopiedOnce, Making, Holds
<1>6. CASE LinkInAllocate(pr)
  BY <1>6, OnceFacts DEF LinkInAllocate, Making
<1>7. CASE FillItem(pr)
  <2>1. Linked' = Linked
    BY <1>7, Untouched DEF FillItem
  <2>2. /\ at[pr] = "fill" /\ mem[item[pr]] = "allocated" /\ mem' = [mem EXCEPT ![item[pr]] = "filled"]
        /\ at' = [at EXCEPT ![pr] = "append"] /\ item' = item /\ fate' = fate /\ out' = out
    BY <1>0, <1>7 DEF FillItem, MemoryKept
  <2>3. \A c \in Collectors : \A n \in DOMAIN out[c] : out[c][n] # item[pr]
    BY <1>0, <2>2 DEF CopiedOnce
  <2> QED BY <1>0, <2>1, <2>2, <2>3, OnceFacts DEF CopiedOnce, Making, Holds
<1>8. CASE AppendNotifyItem(pr)
  <2>1. /\ at[pr] = "append" /\ InsertTailList(item[pr]) /\ at' = [at EXCEPT ![pr] = "idle"]
        /\ item' = [item EXCEPT ![pr] = None] /\ mem' = mem /\ fate' = fate /\ out' = out
    BY <1>8 DEF AppendNotifyItem
  <2>2. Making(pr) /\ Unlinked(pr)
    BY <2>1, OnceFacts DEF Making
  <2>3. item[pr] \in Items /\ item[pr] \notin Linked /\ mem[item[pr]] = "filled" /\ fate[item[pr]] = "queued"
    BY <1>0, <2>1, <2>2, OnceFacts DEF LinksCounted, MemoryKept, CopiedOnce
  <2>4. Linked' = Linked \cup {item[pr]}
    BY <1>0, <2>1, <2>3, Inserted
  <2> QED BY <1>0, <2>1, <2>3, <2>4, OnceFacts DEF CopiedOnce, Making, Holds
<1> QED BY <1>1, <1>2, <1>3, <1>4, <1>5, <1>6, <1>7, <1>8 DEF Produce

\* So does a collector's, which copies an item no one has copied before.
LEMMA OnceCollected ==
    ASSUME Sound, Whole, linkedBy = {"caller"}, NEW c \in Collectors, Collect(c), ~fault'
    PROVE  CopiedOnce'
<1> USE Constants
<1>0. Typed /\ Listed /\ HasList /\ MemoryKept /\ LinksCounted /\ CopiedOnce
  BY DEF Sound, Kept, Listed
<1>1. CASE StartCollect(c)
  <2>1. Linked' = Linked
    BY <1>1, Untouched DEF StartCollect
  <2>2. /\ out' = [out EXCEPT ![c] = << >>] /\ mem' = mem /\ fate' = fate /\ item' = item
        /\ at' = [at EXCEPT ![c] = "remove"] /\ at[c] = "idle"
    BY <1>1 DEF StartCollect
  <2>3. /\ DOMAIN out'[c] = {}
        /\ \A d \in Collectors : d # c => out'[d] = out[d]
    BY <2>2, OnceFacts
  <2> QED BY <1>0, <2>1, <2>2, <2>3, OnceFacts DEF CopiedOnce, Making, Holds
<1>2. CASE TakeFirst(c)
  <2>1. /\ ~ListEmpty /\ RemoveHeadList /\ item' = [item EXCEPT ![c] = flink[ListHead]]
        /\ at' = [at EXCEPT ![c] = "copy"] /\ mem' = mem /\ fate' = fate /\ out' = out
    BY <1>2 DEF TakeFirst
  <2>2. Linked' = Linked \ {flink[ListHead]} /\ flink[ListHead] \in Linked
    BY <1>0, <2>1, Removed
  <2> QED BY <1>0, <2>1, <2>2, OnceFacts DEF CopiedOnce, Making, Holds
<1>3. CASE ListExhausted(c)
  <2>1. Linked' = Linked
    BY <1>3, Untouched DEF ListExhausted
  <2> QED BY <1>0, <1>3, <2>1, OnceFacts DEF ListExhausted, CopiedOnce, Making, Holds
<1>4. CASE CopyItem(c)
  <2>1. Linked' = Linked
    BY <1>4, Untouched DEF CopyItem
  <2>2. /\ at[c] = "copy" /\ item' = [item EXCEPT ![c] = None] /\ mem' = [mem EXCEPT ![item[c]] = "freed"]
        /\ (at' = [at EXCEPT ![c] = "remove"] \/ at' = [at EXCEPT ![c] = "reply"])
        /\ fate' = [fate EXCEPT ![item[c]] = "copied"] /\ out' = [out EXCEPT ![c] = Append(@, item[c])]
    BY <1>4 DEF CopyItem
  <2>3. Holds(c)
    BY <1>0, <2>2 DEF Typed, ItemsInPlace, Holds
  <2>4. /\ mem[item[c]] = "filled" /\ item[c] \in Items /\ item[c] \notin Linked
        /\ \A t \in Actors : Making(t) \/ (t # c /\ Holds(t)) => item[t] # item[c]
    BY <1>0, <2>3, OnceFacts DEF CopiedOnce, MemoryKept
  <2>5. \A d \in Collectors : \A n \in DOMAIN out[d] : out[d][n] # item[c]
    BY <1>0, <2>4 DEF CopiedOnce
  <2>6. /\ \A d \in Collectors : d # c => out'[d] = out[d]
        /\ \A n \in DOMAIN out'[c] : \/ n \in DOMAIN out[c] /\ out'[c][n] = out[c][n]
                                     \/ n = Len(out[c]) + 1 /\ out'[c][n] = item[c]
    BY <2>2, <2>4, OnceFacts
  <2>7. \A d \in Collectors : \A n \in DOMAIN out'[d] : mem'[out'[d][n]] = "freed" /\ fate'[out'[d][n]] = "copied"
    BY <1>0, <2>2, <2>4, <2>6, OnceFacts DEF CopiedOnce
  <2>8. \A d \in Collectors : \A m, n \in DOMAIN out'[d] : m # n => out'[d][m] # out'[d][n]
    <3>1. ASSUME NEW m \in DOMAIN out'[c], NEW n \in DOMAIN out'[c], m # n PROVE out'[c][m] # out'[c][n]
      <4>1. CASE m \in DOMAIN out[c] /\ out'[c][m] = out[c][m]
        <5>1. CASE n \in DOMAIN out[c] /\ out'[c][n] = out[c][n]
          BY <1>0, <3>1, <4>1, <5>1 DEF CopiedOnce
        <5>2. CASE n = Len(out[c]) + 1 /\ out'[c][n] = item[c]
          BY <2>5, <4>1, <5>2
        <5> QED BY <2>6, <5>1, <5>2
      <4>2. CASE m = Len(out[c]) + 1 /\ out'[c][m] = item[c]
        <5>1. n \in DOMAIN out[c] /\ out'[c][n] = out[c][n]
          BY <2>6, <3>1, <4>2
        <5> QED BY <2>5, <4>2, <5>1
      <4> QED BY <2>6, <4>1, <4>2
    <3>2. ASSUME NEW d \in Collectors, d # c PROVE \A m, n \in DOMAIN out'[d] : m # n => out'[d][m] # out'[d][n]
      BY <1>0, <2>6, <3>2 DEF CopiedOnce
    <3> QED BY <3>1, <3>2
  <2>9. /\ \A e \in Linked : mem'[e] = "filled" /\ fate'[e] = "queued"
        /\ \A e \in Items : mem'[e] = "none" => fate'[e] = "queued"
    BY <1>0, <2>2, <2>4, OnceFacts DEF CopiedOnce
  <2>10. \A t \in Actors : /\ Holds(t)' => Holds(t) /\ t # c /\ item'[t] = item[t]
                           /\ Making(t)' => Making(t) /\ item'[t] = item[t]
    BY <2>2, OnceFacts DEF Making, Holds
  <2>11. /\ \A t \in Actors : Holds(t)' => mem'[item'[t]] = "filled"
         /\ \A t \in Actors : Making(t)' => fate'[item'[t]] = "queued"
    BY <1>0, <2>2, <2>4, <2>10, OnceFacts DEF CopiedOnce
  <2> QED BY <2>1, <2>7, <2>8, <2>9, <2>11 DEF CopiedOnce
<1>5. CASE SkipItem(c)
  <2>1. Linked' = Linked
    BY <1>5, Untouched DEF SkipItem
  <2>2. /\ at[c] = "copy" /\ item' = [item EXCEPT ![c] = None] /\ mem' = mem /\ out' = out
        /\ at' = [at EXCEPT ![c] = "reply"] /\ fate' = [fate EXCEPT ![item[c]] = "oversized"]
    BY <1>5 DEF SkipItem
  <2>3. Holds(c)
    BY <1>0, <2>2 DEF Typed, ItemsInPlace, Holds
  <2>4. /\ mem[item[c]] = "filled" /\ item[c] \notin Linked
        /\ \A t \in Actors : Making(t) \/ (t # c /\ Holds(t)) => item[t] # item[c]
    BY <1>0, <2>3, OnceFacts DEF CopiedOnce, MemoryKept
  <2>5. \A d \in Collectors : \A n \in DOMAIN out[d] : out[d][n] # item[c]
    BY <1>0, <2>4 DEF CopiedOnce
  <2> QED BY <1>0, <2>1, <2>2, <2>4, <2>5, OnceFacts DEF CopiedOnce, Making, Holds
<1>6. CASE ReplyToClient(c)
  <2>1. Linked' = Linked
    BY <1>6, Untouched DEF ReplyToClient
  <2> QED BY <1>0, <1>6, <2>1, OnceFacts DEF ReplyToClient, CopiedOnce, Making, Holds
<1> QED BY <1>1, <1>2, <1>3, <1>4, <1>5, <1>6 DEF Collect

-----------------------------------------------------------------------------
(* The client's buffer. *)

\* What is written and what is left make up the client's buffer.
LEMMA BufferKept ==
    ASSUME Typed, InBuffer, QueueNext
    PROVE  InBuffer'
<1> USE Constants DEF Typed
<1>0. /\ room \in [Collectors -> Int] /\ buffer \in [Collectors -> Nat] /\ written \in [Collectors -> Nat]
  BY DEF QueueTypeOK
<1>1. CASE UNCHANGED << room, buffer, written >>
  BY <1>1 DEF InBuffer
<1>2. ASSUME NEW c \in Collectors, StartCollect(c) PROVE InBuffer'
  <2>1. PICK b \in Buffers : room' = [room EXCEPT ![c] = b] /\ buffer' = [buffer EXCEPT ![c] = b]
    BY <1>2 DEF StartCollect
  <2>2. written' = [written EXCEPT ![c] = 0] /\ b \in Nat
    BY <1>2 DEF StartCollect
  <2> QED BY <1>0, <2>1, <2>2 DEF InBuffer
<1>3. ASSUME NEW c \in Collectors, CopyItem(c) PROVE InBuffer'
  <2> DEFINE size == MessageSize[item[c]]
  <2>1. size \in Nat /\ size <= room[c]
    BY <1>3 DEF CopyItem, QueueTypeOK, ItemsInPlace
  <2>2. /\ written' = [written EXCEPT ![c] = @ + size] /\ room' = [room EXCEPT ![c] = @ - size]
        /\ buffer' = buffer
    BY <1>3 DEF CopyItem
  <2> HIDE DEF size
  <2> QED BY <1>0, <2>1, <2>2 DEF InBuffer
<1> QED BY <1>1, <1>2, <1>3 DEF QueueNext, Produce, Collect, RaiseCount, TakeOldest, DropOldest, AllocateItem,
           AllocateFails, LinkInAllocate, FillItem, AppendNotifyItem, TakeFirst, ListExhausted, SkipItem,
           ReplyToClient

-----------------------------------------------------------------------------
(* The invariant. *)

\* The empty queue.
LEMMA InvInit == QueueInit => Inv
<1> SUFFICES ASSUME QueueInit PROVE Inv
  OBVIOUS
<1> USE Constants
<1>1. /\ \A t \in Actors : at[t] = "idle" /\ item[t] = None
      /\ \A e \in Items : mem[e] = "none" /\ links[e] = 0 /\ fate[e] = "queued"
      /\ \A c \in Collectors : out[c] = << >> /\ room[c] = 0 /\ written[c] = 0 /\ buffer[c] = 0
      /\ CurrentItemCount = 0 /\ failures = 0 /\ early = {} /\ fault = FALSE
  BY DEF QueueInit
<1>2. QueueTypeOK
  <2>1. CurrentItemCount \in Int /\ CurrentItemCount >= -MaxBelow - Cardinality(Producers)
    BY <1>1, RaisedFinite
  <2>2. out \in [Collectors -> Seq(Items)]
    <3>1. << >> \in Seq(Items) /\ out = [c \in Collectors |-> << >>]
      BY DEF QueueInit
    <3> QED BY <3>1
  <2>3. /\ flink \in [Nodes -> Nodes] /\ blink \in [Nodes -> Nodes]
        /\ mem \in [Items -> {"none", "allocated", "filled", "freed"}]
        /\ fate \in [Items -> {"queued", "dropped", "copied", "oversized"}] /\ links \in [Items -> Nat]
    BY DEF QueueInit
  <2>4. /\ at \in [Actors -> {"idle", "limit", "drop", "alloc", "link", "fill", "append", "remove", "copy", "reply"}]
        /\ item \in [Actors -> Nodes]
    BY DEF QueueInit
  <2>5. /\ room \in [Collectors -> Int] /\ buffer \in [Collectors -> Nat]
        /\ written \in [Collectors -> Nat] /\ told \in [Collectors -> Nat]
    BY DEF QueueInit
  <2>6. linkedBy \in Linkings /\ MessageSize \in [Items -> Sizes]
    BY DEF QueueInit
  <2>7. failures \in 0..MaxFailures /\ early \subseteq Items
    <3>1. failures = 0 /\ early = {} /\ 0 \in 0..MaxFailures
      BY <1>1
    <3> QED BY <3>1
  <2>8. fault \in BOOLEAN
    BY <1>1, Zenon
  <2> QED BY <2>1, <2>2, <2>3, <2>4, <2>5, <2>6, <2>7, <2>8 DEF QueueTypeOK
<1>3. ItemsInPlace /\ InBuffer /\ FaultExplained
  BY <1>1 DEF ItemsInPlace, Making, InBuffer, FaultExplained
<1>4. Raised = {} /\ Limited = {} /\ Cardinality({}) = 0
  BY <1>1, FS_EmptySet DEF Raised, Limited
<1>5. CountBound
  BY <1>1, <1>4, RaisedFinite DEF CountBound
<1>6. /\ << >> \in Seq(Items) /\ ListIs(flink, blink, << >>) /\ Members(<< >>) = {}
  <2>1. /\ \A k \in 0..0 : k = 0
        /\ Len(<< >>) = 0 /\ << >> \in Seq(Items)
    OBVIOUS
  <2>2. NodeAt(<< >>, 0) = ListHead /\ NodeAt(<< >>, 1) = ListHead
    BY <2>1 DEF NodeAt
  <2>3. Distinct(<< >>) /\ Members(<< >>) = {}
    BY DEF Distinct, Members
  <2>4. flink[ListHead] = ListHead /\ blink[ListHead] = ListHead
    BY DEF QueueInit
  <2> QED BY <2>1, <2>2, <2>3, <2>4 DEF ListIs
<1>7. HasList /\ Linked = {}
  BY <1>6, WalkIs DEF HasList, ListIs, Linked, Forward
<1>8. LinksCounted /\ CountRight /\ MemoryKept /\ CopiedOnce
  BY <1>1, <1>4, <1>7 DEF LinksCounted, CountRight, MemoryKept, CopiedOnce, Making, Holds, Unlinked
<1>9. Whole
  BY <1>1 DEF Whole, Clean, LinkedOnce
<1> QED BY <1>2, <1>3, <1>5, <1>7, <1>8, <1>9 DEF Inv

\* The steps of the producers and the collectors keep the invariant.
LEMMA InvNext == Inv /\ QueueNext => Inv'
<1> SUFFICES ASSUME Inv, QueueNext PROVE Inv'
  OBVIOUS
<1>1. Typed /\ ~fault /\ CountBound
  BY DEF Inv, Typed, QueueNext
<1>2. CountBound' /\ CurrentItemCount' >= -MaxBelow - Cardinality(Producers)
  BY <1>1, BoundKept DEF Typed
<1>3. Typed'
  BY <1>1, <1>2, TypesProduce, TypesCollect DEF QueueNext
<1>4. (LinkedOnce' => LinkedOnce) /\ early \subseteq early'
  BY <1>1, <1>3, OnlyMore
<1>5. (Clean' => Clean) /\ (Whole' => Whole)
  BY <1>1, <1>4 DEF Clean, Whole
<1>6. (Clean => Listed /\ CountRight) /\ (Whole => Kept)
  BY <1>1 DEF Inv, Listed, Kept, Whole
<1>7. FaultExplained' /\ InBuffer'
  BY <1>1, <1>3, <1>6, FaultKept, BufferKept DEF Inv
<1>8. Clean' => HasList' /\ LinksCounted' /\ CountRight'
  BY <1>3, <1>5, <1>6, LinksProduce, LinksCollect, CountProduce, CountCollect DEF QueueNext
<1>9. Whole' => MemoryKept'
  BY <1>3, <1>5, <1>6, MemoryProduce, MemoryCollect DEF QueueNext
<1>10. ASSUME Intended' PROVE Whole' /\ CopiedOnce'
  <2>1. linkedBy' = linkedBy
    BY DEF QueueNext, Produce, Collect, RaiseCount, TakeOldest, DropOldest, AllocateItem, AllocateFails,
           LinkInAllocate, FillItem, AppendNotifyItem, StartCollect, TakeFirst, ListExhausted, CopyItem,
           SkipItem, ReplyToClient
  <2>2. linkedBy = {"caller"} /\ ~fault'
    BY <1>10, <2>1 DEF Intended
  <2>3. Whole /\ Sound
    BY <1>1, <1>6, <2>2 DEF Inv, Intended, Sound
  <2> QED BY <1>3, <2>2, <2>3, StaysWhole, OnceProduced, OnceCollected DEF QueueNext
<1> QED BY <1>2, <1>3, <1>7, <1>8, <1>9, <1>10 DEF Inv, Typed

\* It is about the queue's variables only.
LEMMA InvStutter == Inv /\ UNCHANGED queueVars => Inv'
<1> SUFFICES ASSUME Inv, UNCHANGED queueVars PROVE Inv'
  OBVIOUS
<1>1. Linked' = Linked /\ (HasList => HasList')
  BY Untouched DEF queueVars
<1>2. Raised' = Raised /\ Limited' = Limited
  BY DEF queueVars, Raised, Limited
<1>3. (Clean' => Clean) /\ (Whole' => Whole) /\ (Intended' => Intended) /\ (Whole => Whole')
  BY DEF queueVars, Clean, Whole, Intended, LinkedOnce
<1>4. (QueueTypeOK => QueueTypeOK') /\ (ItemsInPlace => ItemsInPlace') /\ (CountBound => CountBound')
  BY <1>2 DEF queueVars, QueueTypeOK, ItemsInPlace, CountBound, Making
<1>5. (InBuffer => InBuffer') /\ (FaultExplained => FaultExplained')
  BY DEF queueVars, InBuffer, FaultExplained
<1>6. (LinksCounted => LinksCounted') /\ (CountRight => CountRight')
  BY <1>1, <1>2 DEF queueVars, LinksCounted, CountRight, Making, Unlinked, Holds
<1>7. (MemoryKept => MemoryKept') /\ (CopiedOnce => CopiedOnce')
  BY <1>1 DEF queueVars, MemoryKept, CopiedOnce, Alive, Making, Unlinked, Holds
<1> QED BY <1>1, <1>3, <1>4, <1>5, <1>6, <1>7 DEF Inv

\* What the invariant says of the queue as its users see it.
LEMMA InvSound == Inv => QueueSound
<1> SUFFICES ASSUME Inv PROVE QueueSound
  OBVIOUS
<1>1. CountExact
  BY DEF Inv, CountExact, CountRight, Clean, LinkedOnce
<1>2. ASSUME linkedBy = {"caller"}, ~fault PROVE LeavesOnce
  <2>1. Whole /\ CopiedOnce /\ LinksCounted /\ MemoryKept /\ Typed
    BY <1>2 DEF Inv, Intended, Whole, Typed
  <2>2. \A t \in Actors : item[t] # None => Making(t) \/ Holds(t)
    BY <2>1 DEF Typed, ItemsInPlace, Making, Holds
  <2>3. \A t \in Actors : Making(t) => links[item[t]] = 0
    BY <1>2, <2>1 DEF LinksCounted, Typed, ItemsInPlace, Making, Unlinked
  <2>4. \A t, u \in Actors : t # u /\ item[t] # None => item[t] # item[u]
    <3> SUFFICES ASSUME NEW t \in Actors, NEW u \in Actors, t # u, item[t] # None, item[t] = item[u] PROVE FALSE
      OBVIOUS
    <3>1. (Making(t) \/ Holds(t)) /\ (Making(u) \/ Holds(u))
      BY <2>2
    <3>2. CASE Making(t) /\ Making(u)
      BY <2>1, <3>2 DEF LinksCounted
    <3>3. CASE Holds(t) /\ Holds(u)
      BY <2>1, <3>3 DEF MemoryKept
    <3>4. CASE (Making(t) /\ Holds(u)) \/ (Holds(t) /\ Making(u))
      BY <2>1, <2>3, <3>4 DEF LinksCounted
    <3> QED BY <3>1, <3>2, <3>3, <3>4
  <2> QED BY <2>1, <2>4 DEF LeavesOnce, CopiedOnce, Whole
<1>3. linkedBy = {"caller"} => LeavesOnce
  BY <1>2 DEF LeavesOnce
<1> QED BY <1>1, <1>3 DEF QueueSound, Inv

\* The invariant holds of every behaviour of the queue, whatever links its items.
THEOREM QueueInv == QueueSpec => []Inv
<1>1. Inv /\ [QueueNext]_queueVars => Inv'
  BY InvNext, InvStutter
<1> QED BY InvInit, <1>1, PTL DEF QueueSpec

\* notifyMgr.cpp:45-155, for any number of threads and items: the counter is exact and
\* faults have one of the three causes as long as no item is linked twice, a collector
\* never writes past the client's buffer, and with items linked once, by the caller,
\* every item leaves the queue once, complete, to one thread.
THEOREM QueueStaysSound == QueueSpec => []QueueSound
BY QueueInv, InvSound, PTL

-----------------------------------------------------------------------------
(* The lives of the drivers. *)

\* The steps of loading and unloading, one by one.
LEMMA MonitorLoads ==
  ASSUME OfMonitor
  PROVE  /\ Len(LoadSteps) = 13
         /\ LoadSteps[1] = "fastIo" /\ LoadSteps[2] = "device" /\ LoadSteps[3] = "link"
         /\ LoadSteps[4] = "lookasides" /\ LoadSteps[5] = "nameBuffer" /\ LoadSteps[6] = "notifyMgr"
         /\ LoadSteps[7] = "policy" /\ LoadSteps[8] = "procNames" /\ LoadSteps[9] = "processNotify"
         /\ LoadSteps[10] = "filter" /\ LoadSteps[11] = "port" /\ LoadSteps[12] = "filtering"
         /\ LoadSteps[13] = "entries"
BY SMTT(60) DEF LoadSteps, MonitorContext, MonitorFeatures, MonitorFilter

\* MiniFilterUnload and DriverUnload of the monitor.
LEMMA MonitorUnloads ==
  ASSUME OfMonitor
  PROVE  /\ Len(DetachSteps) = 2 /\ DetachSteps[1] = "port" /\ DetachSteps[2] = "filter"
         /\ Len(UnloadSteps) = 7
         /\ UnloadSteps[1] = "notifyMgr" /\ UnloadSteps[2] = "processNotify" /\ UnloadSteps[3] = "policy"
         /\ UnloadSteps[4] = "link" /\ UnloadSteps[5] = "device" /\ UnloadSteps[6] = "lookasides"
         /\ UnloadSteps[7] = "fastIo"
BY DEF DetachSteps, UnloadSteps, MonitorUnload

\* The isolation driver loads, ...
LEMMA IsolationLoads ==
  ASSUME ~OfMonitor
  PROVE  /\ Len(LoadSteps) = 18
         /\ LoadSteps[1] = "fastIo" /\ LoadSteps[2] = "device" /\ LoadSteps[3] = "link"
         /\ LoadSteps[4] = "lookasides" /\ LoadSteps[5] = "metadata" /\ LoadSteps[6] = "workers"
         /\ LoadSteps[7] = "volumes" /\ LoadSteps[8] = "procNames" /\ LoadSteps[9] = "processNotify"
         /\ LoadSteps[10] = "globalFilter" /\ LoadSteps[11] = "policy" /\ LoadSteps[12] = "filter"
         /\ LoadSteps[13] = "port" /\ LoadSteps[14] = "procPort" /\ LoadSteps[15] = "filtering"
         /\ LoadSteps[16] = "cacheCallbacks" /\ LoadSteps[17] = "entries" /\ LoadSteps[18] = "rules"
BY SMTT(60) DEF LoadSteps, IsolationContext, IsolationFeatures, IsolationFilter, FeatureMgr

\* ... and unloads, up to the step that stops it.
LEMMA IsolationUnloads ==
  ASSUME ~OfMonitor
  PROVE  /\ Len(DetachSteps) = 3 /\ DetachSteps[1] = "port" /\ DetachSteps[2] = "procPort"
         /\ DetachSteps[3] = "filter"
         /\ Len(UnloadSteps) = 10
         /\ UnloadSteps[1] = "policy" /\ UnloadSteps[2] = "globalFilter" /\ UnloadSteps[3] = "processNotify"
         /\ UnloadSteps[4] = "link" /\ UnloadSteps[5] = "device" /\ UnloadSteps[6] = "volumes"
         /\ UnloadSteps[7] = "workers"
BY DEF DetachSteps, UnloadSteps, IsolationUnload

\* What is loaded is loaded in the order of the steps.
LEMMA InOrder ==
  ASSUME NEW n \in 1 .. Len(LoadSteps) + 1
  PROVE  /\ "image" \in Loaded(n)
         /\ "processNotify" \in Loaded(n) <=> n > 9
         /\ n > 4 => "lookasides" \in Loaded(n)
         /\ n > 8 => "procNames" \in Loaded(n)
         /\ OfMonitor => /\ n > 7 => {"notifyMgr", "policy"} \subseteq Loaded(n)
                         /\ "filtering" \in Loaded(n) <=> n > 12
                         /\ "filter" \in Loaded(n) <=> n > 10
         /\ ~OfMonitor => /\ n > 11 => {"metadata", "volumes", "globalFilter", "policy"} \subseteq Loaded(n)
                          /\ n > 7 => "volumes" \in Loaded(n)
                          /\ "filtering" \in Loaded(n) <=> n > 15
                          /\ "filter" \in Loaded(n) <=> n > 12
<1>1. CASE OfMonitor
  <2>0. Len(LoadSteps) = 13
    BY <1>1, MonitorLoads
  <2>1. n \in 1 .. 14
    BY <2>0
  <2> QED
    BY ONLY <1>1, <2>1, MonitorLoads, SMTT(60) DEF Loaded
<1>2. CASE ~OfMonitor
  <2>0. Len(LoadSteps) = 18
    BY <1>2, IsolationLoads
  <2>1. n \in 1 .. 19
    BY <2>0
  <2> QED
    BY ONLY <1>2, <2>1, IsolationLoads, SMTT(60) DEF Loaded
<1> QED
  BY <1>1, <1>2

\* How many steps there are.
LEMMA StepsBound ==
    /\ Len(LoadSteps) \in Nat /\ Len(DetachSteps) \in Nat /\ Len(UnloadSteps) \in Nat
    /\ Len(LoadSteps) >= 13 /\ Len(DetachSteps) >= 2 /\ Len(DetachSteps) <= 3 /\ Len(UnloadSteps) >= 7
<1>1. CASE OfMonitor
  <2>1. Len(LoadSteps) = 13 /\ Len(DetachSteps) = 2 /\ Len(UnloadSteps) = 7
    BY ONLY <1>1, MonitorLoads, MonitorUnloads
  <2> QED
    BY ONLY <2>1
<1>2. CASE ~OfMonitor
  <2>1. Len(LoadSteps) = 18 /\ Len(DetachSteps) = 3 /\ Len(UnloadSteps) = 10
    BY ONLY <1>2, IsolationLoads, IsolationUnloads
  <2> QED
    BY ONLY <2>1
<1> QED
  BY <1>1, <1>2

\* A step of unloading has a number that a step of loading has, too.
LEMMA Within ==
  ASSUME NEW m \in 1 .. 8
  PROVE  m \in 1 .. Len(LoadSteps) + 1 /\ (m <= 7 => m <= Len(UnloadSteps))
<1>1. m \in 1 .. 8
  OBVIOUS
<1> QED
  BY ONLY <1>1, StepsBound

\* A step of loading adds its part.
LEMMA LoadedGrows ==
  ASSUME NEW n \in 1 .. Len(LoadSteps)
  PROVE  Loaded(n + 1) = Loaded(n) \cup {LoadSteps[n]}
BY StepsBound DEF Loaded

\* What is loaded is a set of parts.
LEMMA LoadedParts == ASSUME NEW n \in 1 .. Len(LoadSteps) + 1 PROVE Loaded(n) \subseteq Parts
BY StepsBound DEF Loaded, Parts

\* The parts the routines use are there when the system can call them, but for the gaps.
Served(parts) ==
    /\ "processNotify" \in parts =>
          Uses("process") \ parts \subseteq IF OfMonitor THEN {} ELSE {"policy"}
    /\ "filtering" \in parts =>
          /\ Uses("file") \subseteq parts
          /\ ~OfMonitor => Uses("cache") \ parts \subseteq {"cacheCallbacks"}

\* After every step of loading, calls find what they use.
LEMMA LoadedServes == ASSUME NEW n \in 1 .. Len(LoadSteps) + 1 PROVE Served(Loaded(n))
<1>1. n \in Nat
  BY StepsBound
<1>2. CASE OfMonitor
  BY ONLY <1>1, <1>2, InOrder DEF Served, Uses
<1>3. CASE ~OfMonitor
  BY ONLY <1>1, <1>3, InOrder DEF Served, Uses
<1> QED
  BY <1>2, <1>3

\* The parts, and what is there of them when the driver is up.
LEMMA AllParts ==
    /\ Parts = AllLoaded \cup {"rules", "nameBuffer"}
    /\ AllLoaded = Loaded(Len(LoadSteps) + 1)
    /\ Served(AllLoaded)
<1>1. Served(AllLoaded)
  BY LoadedServes, StepsBound DEF AllLoaded
<1> QED
  BY <1>1, StepsBound DEF Parts, AllLoaded, Loaded

\* The parts stay while the driver detaches; the filter is the last one to go.
LEMMA DetachingServes ==
  ASSUME NEW n \in 1 .. Len(DetachSteps)
  PROVE  /\ Served(Detaching(n)) /\ "filter" \in Detaching(n) /\ "filtering" \in Detaching(n)
         /\ "processNotify" \in Detaching(n) /\ Detaching(n) \subseteq Parts
         /\ n < Len(DetachSteps) => Detaching(n + 1) = Detaching(n) \ {DetachSteps[n]}
         /\ (DetachSteps[n] = "filter") = (n = Len(DetachSteps))
<1>0. Len(LoadSteps) + 1 \in 1 .. Len(LoadSteps) + 1
  BY StepsBound
<1>1. CASE OfMonitor
  <2>1. n \in 1 .. 2 /\ Len(LoadSteps) = 13 /\ Len(DetachSteps) = 2
    BY <1>1, MonitorLoads, MonitorUnloads
  <2> QED
    BY ONLY <1>0, <1>1, <2>1, MonitorUnloads, AllParts, InOrder, SMTT(60) DEF Detaching, Served, Uses
<1>2. CASE ~OfMonitor
  <2>1. n \in 1 .. 3 /\ Len(LoadSteps) = 18 /\ Len(DetachSteps) = 3
    BY <1>2, IsolationLoads, IsolationUnloads
  <2> QED
    BY ONLY <1>0, <1>2, <2>1, IsolationUnloads, AllParts, InOrder, SMTT(60) DEF Detaching, Served, Uses
<1> QED
  BY <1>1, <1>2

-----------------------------------------------------------------------------
\* Steps keep the driver, and with it the orders of its steps.
LEMMA SameDriver ==
  ASSUME driver' = driver
  PROVE  /\ OfMonitor' = OfMonitor
         /\ LoadSteps' = LoadSteps /\ DetachSteps' = DetachSteps /\ UnloadSteps' = UnloadSteps
         /\ Parts' = Parts /\ AllLoaded' = AllLoaded
         /\ \A n : Loaded(n)' = Loaded(n) /\ Detaching(n)' = Detaching(n)
         /\ \A k \in Kinds : Uses(k)' = Uses(k)
<1>1. OfMonitor' = OfMonitor
  BY DEF OfMonitor
<1>2. LoadSteps' = LoadSteps /\ DetachSteps' = DetachSteps /\ UnloadSteps' = UnloadSteps
  BY <1>1 DEF LoadSteps, DetachSteps, UnloadSteps
<1>3. Parts' = Parts /\ \A n : Loaded(n)' = Loaded(n)
  BY <1>2 DEF Parts, Loaded
<1>4. AllLoaded' = AllLoaded
  BY <1>2, <1>3 DEF AllLoaded, Loaded
<1>5. \A n : Detaching(n)' = Detaching(n)
  BY <1>2, <1>4 DEF Detaching
<1>6. \A k \in Kinds : Uses(k)' = Uses(k)
  BY <1>1 DEF Uses, Kinds
<1> QED
  BY <1>1, <1>2, <1>3, <1>4, <1>5, <1>6

\* Before the first step.
LEMMA InitLife == LifeInit => LifeInv
<1> SUFFICES ASSUME LifeInit PROVE LifeInv
  OBVIOUS
<1>1. Loaded(1) = {"image"}
  BY DEF Loaded
<1>0. 1 \in 1 .. Len(LoadSteps) + 1 /\ 1 <= Len(LoadSteps)
  BY StepsBound
<1>2. LifeTypeOK
  <2>1. next \in 1 .. Len(LoadSteps) + 1
    BY <1>0 DEF LifeInit
  <2>2. have \subseteq Parts /\ missed \subseteq Kinds \X Parts
    BY DEF LifeInit, Parts
  <2>3. call \in [Threads -> Kinds \cup {"out"}] /\ client \in [Clients -> {"off", "on", "left"}]
    BY DEF LifeInit
  <2>4. driver \in {"monitor", "isolation"} /\ port \in Clients \cup {NoPort} /\ open \subseteq Clients
    BY DEF LifeInit
  <2>5. opened \in BOOLEAN /\ linkKept \in BOOLEAN /\ overlapped \in BOOLEAN
    BY DEF LifeInit
  <2>6. unregistered \in 0 .. 1 /\ stage = "loading"
    BY DEF LifeInit
  <2> QED
    BY ONLY <2>1, <2>2, <2>3, <2>4, <2>5, <2>6 DEF LifeTypeOK
<1>3. StageInv
  BY <1>0, <1>1 DEF LifeInit, StageInv, LeftAfterUnload
<1>4. CallInv
  BY DEF LifeInit, CallInv
<1>5. OnlyKnownGaps
  BY DEF LifeInit, OnlyKnownGaps
<1>6. PortInv
  BY DEF LifeInit, PortInv
<1> QED
  BY <1>2, <1>3, <1>4, <1>5, <1>6 DEF LifeInv

\* The steps of the driver leave calls and ports as they are.
LEMMA DriverStep ==
  ASSUME LifeInv, driver' = driver, UNCHANGED <<calls, ports>>,
         stage' \in {"loading", "up", "detaching", "detached", "stopping", "unloading", "down", "failed", "crashed"},
         next' \in 1 .. Len(LoadSteps) + 1, have' \subseteq Parts, linkKept' \in BOOLEAN, unregistered' \in 0 .. 1,
         stage # "failed", StageInv', CallInv'
  PROVE  LifeInv'
<1>1. LifeTypeOK'
  BY SameDriver DEF LifeInv, LifeTypeOK, calls, ports
<1>2. OnlyKnownGaps'
  BY SameDriver DEF LifeInv, OnlyKnownGaps, calls, ports
<1>3. PortInv'
  BY DEF LifeInv, PortInv, calls, ports
<1> QED
  BY <1>1, <1>2, <1>3 DEF LifeInv

\* No call is left in the driver when what makes the system call goes.
LEMMA CallsStay ==
  ASSUME LifeInv, driver' = driver, UNCHANGED calls,
         "processNotify" \in have /\ "processNotify" \notin have' => InKind("process") = {},
         "filtering" \in have /\ "filtering" \notin have' => InKind("file") \cup InKind("cache") = {}
  PROVE  CallInv'
<1>1. OfMonitor' = OfMonitor /\ call' = call
  BY SameDriver DEF calls
<1>2. CallInv
  BY DEF LifeInv
<1> QED
  BY <1>1, <1>2 DEF CallInv, InKind

\* A step of DriverEntry ...
LEMMA LoadStepKeeps == ASSUME LifeInv, LoadStep PROVE LifeInv'
<1> USE DEF LoadStep
<1>0. /\ driver' = driver /\ UNCHANGED <<calls, ports>> /\ UNCHANGED <<unregistered, linkKept>>
      /\ stage = "loading" /\ next \in 1 .. Len(LoadSteps) /\ next' = next + 1
      /\ have = Loaded(next) /\ have' = have \cup {LoadSteps[next]} /\ unregistered = 0 /\ ~linkKept
      /\ stage' = IF next = Len(LoadSteps) THEN "up" ELSE stage
  BY StepsBound DEF LifeInv, LifeTypeOK, StageInv
<1>1. have' = Loaded(next') /\ next' \in 1 .. Len(LoadSteps) + 1
  BY <1>0, LoadedGrows, StepsBound
<1>2. stage' = "up" => next' = Len(LoadSteps) + 1
  BY <1>0
<1>3. have' \subseteq Parts
  BY <1>1, LoadedParts
<1>4. StageInv'
  <2>1. CASE next = Len(LoadSteps)
    BY <1>0, <1>1, <2>1, SameDriver, StepsBound DEF StageInv, LeftAfterUnload, AllLoaded
  <2>2. CASE next # Len(LoadSteps)
    BY <1>0, <1>1, <2>2, SameDriver, StepsBound DEF StageInv, LeftAfterUnload
  <2> QED
    BY <2>1, <2>2
<1>5. CallInv'
  BY <1>0, CallsStay
<1>6. stage' \in {"loading", "up"} /\ linkKept' \in BOOLEAN /\ unregistered' \in 0 .. 1
  BY <1>0 DEF LifeInv, LifeTypeOK
<1> QED
  BY <1>0, <1>1, <1>3, <1>4, <1>5, <1>6, DriverStep

\* ... and one that fails: the filter cannot be filtering yet.
LEMMA LoadFailsKeeps == ASSUME LifeInv, LoadFails PROVE LifeInv'
<1>0. /\ driver' = driver /\ UNCHANGED <<calls, ports>> /\ UNCHANGED <<next, linkKept>>
      /\ stage = "loading" /\ next \in 1 .. Len(LoadSteps) /\ LoadSteps[next] \in CanFail
      /\ have = Loaded(next) /\ have' = WithoutFilter(have) \ {"image"} /\ unregistered = 0 /\ ~linkKept
      /\ unregistered' \in 0 .. 1 /\ stage' = "failed"
  BY StepsBound DEF LoadFails, LifeInv, LifeTypeOK, StageInv
<1>1. "filtering" \notin have
  <2>1. CASE OfMonitor
    <3>1. ("filtering" \in Loaded(next) <=> next > 12) /\ next \in 1 .. 13
      <4>1. next \in 1 .. Len(LoadSteps) + 1
        BY ONLY <1>0, StepsBound
      <4> QED
        BY <4>1, <1>0, <2>1, InOrder, MonitorLoads
    <3> QED
      BY <1>0, <2>1, <3>1, MonitorLoads DEF CanFail
  <2>2. CASE ~OfMonitor
    <3>1. ("filtering" \in Loaded(next) <=> next > 15) /\ next \in 1 .. 18
      <4>1. next \in 1 .. Len(LoadSteps) + 1
        BY ONLY <1>0, StepsBound
      <4> QED
        BY <4>1, <1>0, <2>2, InOrder, IsolationLoads
    <3> QED
      BY <1>0, <2>2, <3>1, IsolationLoads DEF CanFail
  <2> QED
    BY <2>1, <2>2
<1>3. have' \subseteq Parts
  BY <1>0, LoadedParts DEF WithoutFilter
<1>4. StageInv'
  BY <1>0 DEF StageInv, LeftAfterUnload, WithoutFilter
<1>5. CallInv'
  BY <1>0, <1>1, CallsStay DEF WithoutFilter
<1>6. next' \in 1 .. Len(LoadSteps) + 1
  BY <1>0, StepsBound
<1> QED
  BY <1>0, <1>3, <1>4, <1>5, <1>6, DriverStep DEF LifeInv, LifeTypeOK

\* Both commands that unload.
LEMMA UnloadStarts == ASSUME LifeInv, FilterUnloadCallback \/ DriverUnload PROVE LifeInv'
<1>0. /\ driver' = driver /\ UNCHANGED <<calls, ports>> /\ UNCHANGED <<have, linkKept, unregistered>>
      /\ stage \in {"up", "detached"} /\ next' = 1 /\ stage # "failed"
      /\ stage' = IF stage = "detached" THEN "unloading" ELSE stage'
      /\ stage = "up" => stage' \in {"detaching", "stopping"} /\ have = AllLoaded /\ unregistered = 0
      /\ unregistered \in 0 .. 1 /\ have \subseteq Parts
  <2>1. "filter" \in AllLoaded
    <3>1. 1 \in 1 .. Len(DetachSteps)
      BY ONLY StepsBound
    <3> QED
      BY <3>1, DetachingServes DEF Detaching
  <2> QED
    BY <2>1 DEF FilterUnloadCallback, DriverUnload, LifeInv, LifeTypeOK, StageInv
<1>1. Detaching(1) = AllLoaded
  BY DEF Detaching
<1>2. StageInv'
  <2>1. CASE stage = "up"
    <3>0. 1 <= Len(DetachSteps)
      BY ONLY StepsBound
    <3>1. Detaching(1)' = AllLoaded /\ DetachSteps' = DetachSteps /\ 1 <= Len(DetachSteps)
      BY <1>0, <1>1, <3>0, SameDriver
    <3>2. ~linkKept' /\ next' = 1 /\ have' = AllLoaded /\ unregistered' = 0
      BY <1>0, <2>1 DEF LifeInv, StageInv
    <3>3. stage' \in {"detaching", "stopping"}
      BY <1>0, <2>1
    <3> QED
      BY ONLY <3>1, <3>2, <3>3 DEF StageInv, LeftAfterUnload
  <2>2. CASE stage = "detached"
    BY <1>0, <1>1, <2>2, SameDriver, StepsBound DEF LifeInv, StageInv, LeftAfterUnload, MonitorLeft, IsolationLeft
  <2> QED
    BY <1>0, <2>1, <2>2
<1>3. CallInv'
  BY <1>0, CallsStay
<1>4. next' \in 1 .. Len(LoadSteps) + 1
  BY <1>0, StepsBound
<1>5. stage' \in {"detaching", "stopping", "unloading"} /\ linkKept' \in BOOLEAN
  BY <1>0 DEF LifeInv, LifeTypeOK
<1> QED
  BY <1>0, <1>2, <1>3, <1>4, <1>5, DriverStep

\* The filter goes last when the driver detaches.
LEMMA DetachedLeft ==
  ASSUME LifeInv, stage \in {"detaching", "stopping"}, next = Len(DetachSteps), driver' = driver,
         have' = WithoutFilter(have), linkKept' = linkKept, next' = 1
  PROVE  IF OfMonitor THEN have' = MonitorLeft(next)' ELSE IsolationLeft(next)'
<1>0. have = Detaching(next) /\ linkKept = FALSE
  BY DEF LifeInv, LifeTypeOK, StageInv
<1>1. CASE OfMonitor
  <2>0. Len(DetachSteps) = 2 /\ Len(LoadSteps) = 13
    BY <1>1, MonitorLoads, MonitorUnloads
  <2>1. next = 2 /\ Len(LoadSteps) + 1 = 14
    BY ONLY <2>0, next = Len(DetachSteps)
  <2>2. AllLoaded = {"image", "fastIo", "device", "link", "lookasides", "nameBuffer", "notifyMgr", "policy",
                     "procNames", "processNotify", "filter", "port", "filtering", "entries"}
    BY ONLY <1>1, <2>1, MonitorLoads, SMTT(60) DEF AllLoaded, Loaded
  <2>3. have = AllLoaded \ {"port"}
    BY ONLY <1>0, <1>1, <2>1, MonitorUnloads DEF Detaching
  <2>4. have' = {"image", "fastIo", "device", "link", "lookasides", "nameBuffer", "notifyMgr", "policy",
                 "procNames", "processNotify", "entries"}
    BY ONLY <2>2, <2>3, have' = WithoutFilter(have), SMTT(60) DEF WithoutFilter
  <2>5. linkKept' = FALSE /\ next' = 1
    BY <1>0
  <2>6. MonitorLeft(next)' = {"image", "fastIo", "device", "link", "lookasides", "nameBuffer", "notifyMgr", "policy",
                              "procNames", "processNotify", "entries"}
    BY ONLY <2>5, SMTT(60) DEF MonitorLeft
  <2> QED
    BY <1>1, <2>4, <2>6
<1>2. CASE ~OfMonitor
  <2>0. Len(DetachSteps) = 3 /\ Len(LoadSteps) = 18
    BY <1>2, IsolationLoads, IsolationUnloads
  <2>1. next = 3 /\ Len(LoadSteps) + 1 = 19
    BY ONLY <2>0, next = Len(DetachSteps)
  <2>2. {"image", "procNames", "lookasides", "volumes", "processNotify"} \subseteq AllLoaded
    BY ONLY <1>2, <2>1, IsolationLoads, SMTT(60) DEF AllLoaded, Loaded
  <2>3. have = AllLoaded \ {"port", "procPort"}
    BY ONLY <1>0, <1>2, <2>1, IsolationUnloads DEF Detaching
  <2>4. {"image", "procNames", "lookasides", "volumes", "processNotify"} \subseteq have'
    BY <2>2, <2>3 DEF WithoutFilter
  <2> QED
    BY <1>2, <2>4 DEF IsolationLeft
<1> QED
  BY <1>1, <1>2

\* A step of MiniFilterUnload.
LEMMA DetachKeeps == ASSUME LifeInv, MiniFilterUnload PROVE LifeInv'
<1>0. /\ driver' = driver /\ UNCHANGED <<calls, ports>> /\ linkKept' = linkKept /\ linkKept = FALSE
      /\ stage \in {"detaching", "stopping"} /\ have = Detaching(next) /\ unregistered = 0
      /\ have \subseteq Parts
  BY DEF MiniFilterUnload, LifeInv, LifeTypeOK, StageInv
<1>1. next \in 1 .. Len(DetachSteps)
  <2>1. next \in Nat /\ next >= 1
    BY StepsBound DEF LifeInv, LifeTypeOK
  <2>2. next <= Len(DetachSteps)
    BY <1>0 DEF LifeInv, StageInv
  <2> QED
    BY ONLY <2>1, <2>2, StepsBound
<1>2. CASE next < Len(DetachSteps)
  <2>1. DetachSteps[next] # "filter"
    BY <1>1, <1>2, DetachingServes
  <2>2. /\ stage' = stage /\ have' = have \ {DetachSteps[next]} /\ next' = next + 1 /\ unregistered' = 0
    BY <1>0, <1>2, <2>1, StepsBound DEF MiniFilterUnload
  <2>3. have' = Detaching(next') /\ next' \in 1 .. Len(DetachSteps)
    BY <1>0, <1>1, <1>2, <2>2, DetachingServes, StepsBound
  <2>4. "processNotify" \in have' /\ "filtering" \in have' /\ have' \subseteq Parts
    BY <2>3, DetachingServes
  <2>5. StageInv'
    <3>1. have' = Detaching(next)' /\ next' <= Len(DetachSteps)'
      BY <1>0, <2>3, SameDriver
    <3> QED
      BY ONLY <1>0, <2>2, <3>1 DEF StageInv, LeftAfterUnload
  <2>6. CallInv'
    BY <1>0, <2>4, CallsStay
  <2>7. next' \in 1 .. Len(LoadSteps) + 1
    <3>1. next' \in 1 .. Len(DetachSteps)
      BY <2>3
    <3>2. next' \in 1 .. 8
      BY ONLY <3>1, StepsBound
    <3> QED
      BY ONLY <3>2, Within
  <2>8. stage' \in {"detaching", "stopping"}
    BY <1>0, <2>2
  <2>9. unregistered' \in 0 .. 1
    BY <2>2
  <2>10. linkKept' \in BOOLEAN
    BY <1>0
  <2> QED
    BY <1>0, <2>9, <2>10, <2>4, <2>5, <2>6, <2>7, <2>8, DriverStep
<1>3. CASE next = Len(DetachSteps)
  <2>1. DetachSteps[next] = "filter"
    BY <1>1, <1>3, DetachingServes
  <2>2. /\ stage' \in {"unloading", "detached"} /\ have' = WithoutFilter(have) /\ next' = 1 /\ unregistered' = 1
        /\ InKind("file") \cup InKind("cache") = {}
    BY <1>0, <1>3, <2>1 DEF MiniFilterUnload
  <2>3. IF OfMonitor THEN have' = MonitorLeft(next)' ELSE IsolationLeft(next)'
    BY <1>0, <1>3, <2>2, DetachedLeft
  <2>4. "processNotify" \in have' /\ have' \subseteq Parts /\ "filter" \notin have' /\ "filtering" \notin have'
    BY <1>0, <1>1, <2>2, DetachingServes DEF WithoutFilter
  <2>5. StageInv'
    <3>1. next' <= Len(UnloadSteps)' /\ next' <= 7
      <4>1. UnloadSteps' = UnloadSteps
        BY <1>0, SameDriver
      <4>2. next' = 1
        BY <2>2
      <4>3. next' \in 1 .. 8 /\ next' <= 7
        BY <4>2
      <4> QED
        BY <4>1, <4>3, Within
    <3>2. OfMonitor' = OfMonitor
      BY <1>0, SameDriver
    <3> QED
      BY ONLY <1>0, <2>2, <2>3, <2>4, <3>1, <3>2 DEF StageInv, LeftAfterUnload
  <2>6. CallInv'
    BY <1>0, <2>2, <2>4, CallsStay
  <2>7. next' \in 1 .. Len(LoadSteps) + 1
    <3>1. next' = 1
      BY <2>2
    <3> QED
      BY ONLY <3>1, StepsBound
  <2>8. unregistered' \in 0 .. 1
    BY <2>2
  <2>9. linkKept' \in BOOLEAN
    BY <1>0
  <2> QED
    BY <1>0, <2>9, <2>2, <2>4, <2>5, <2>6, <2>7, <2>8, DriverStep
<1> QED
  BY <1>1, <1>2, <1>3

\* What a step of DriverUnload leaves.
LEMMA MonitorTakes ==
  ASSUME OfMonitor, NEW n \in 1 .. 7, have = MonitorLeft(n), linkKept \in BOOLEAN, linkKept => n > 5,
         next = n, next' = n + 1, Take(UnloadSteps[n])
  PROVE  /\ linkKept' = linkKept
         /\ n < 7 => have' = MonitorLeft(next)'
         /\ n = 7 => have' = {"nameBuffer", "policy"} \cup (IF linkKept' THEN {"device", "link"} ELSE {})
         /\ "filter" \notin have' /\ "filtering" \notin have' /\ (n > 2 => "processNotify" \notin have')
         /\ n # 2 /\ "processNotify" \in have => "processNotify" \in have'
         /\ n = 2 => InKind("process") = {}
         /\ have' \subseteq have
<1>1. linkKept' = linkKept /\ have' \subseteq have /\ (n = 2 => InKind("process") = {})
  BY MonitorUnloads, n = 2 => UnloadSteps[n] = "processNotify" DEF Take
<1>2. Len(UnloadSteps) = 7
  BY MonitorUnloads
<1>3. \/ (n = 1 /\ UnloadSteps[n] = "notifyMgr") \/ (n = 2 /\ UnloadSteps[n] = "processNotify")
      \/ (n = 3 /\ UnloadSteps[n] = "policy") \/ (n = 4 /\ UnloadSteps[n] = "link")
      \/ (n = 5 /\ UnloadSteps[n] = "device") \/ (n = 6 /\ UnloadSteps[n] = "lookasides")
      \/ (n = 7 /\ UnloadSteps[n] = "fastIo")
  BY MonitorUnloads
<1>4. have' = (have \ CASE UnloadSteps[n] = "processNotify" -> {"processNotify", "procNames"}
                        [] UnloadSteps[n] = "policy" -> {}
                        [] OTHER -> {UnloadSteps[n]})
              \ (IF n = 7 THEN {"image", "entries"} ELSE {})
  BY ONLY <1>2, <1>3, OfMonitor, next = n, Take(UnloadSteps[n]) DEF Take
<1>5. n \in 1 .. 7 /\ have = MonitorLeft(n) /\ next' = n + 1 /\ linkKept \in BOOLEAN /\ (linkKept => n > 5)
  OBVIOUS
<1>6. n < 7 => have' = MonitorLeft(next)'
  BY ONLY <1>1, <1>3, <1>4, <1>5, SMTT(60) DEF MonitorLeft
<1>7. n = 7 => have' = {"nameBuffer", "policy"} \cup (IF linkKept' THEN {"device", "link"} ELSE {})
  BY ONLY <1>1, <1>3, <1>4, <1>5, SMTT(60) DEF MonitorLeft
<1>8. "filter" \notin have' /\ "filtering" \notin have' /\ (n > 2 => "processNotify" \notin have')
  BY ONLY <1>1, <1>5, SMTT(60) DEF MonitorLeft
<1>9. n # 2 /\ "processNotify" \in have => "processNotify" \in have'
  BY ONLY <1>3, <1>4, SMTT(60)
<1> QED
  BY <1>1, <1>6, <1>7, <1>8, <1>9

\* The isolation driver keeps what process notifications use until they are over.
LEMMA IsolationTakes ==
  ASSUME ~OfMonitor, NEW n \in 1 .. 6, IsolationLeft(n), next = n, next' = n + 1, Take(UnloadSteps[n])
  PROVE  /\ linkKept' = linkKept /\ IsolationLeft(next)' /\ have' \subseteq have
         /\ n # 3 /\ "processNotify" \in have => "processNotify" \in have'
         /\ n = 3 => InKind("process") = {}
<1>1. /\ linkKept' = linkKept /\ have' \subseteq have /\ (n = 3 => InKind("process") = {})
  BY IsolationUnloads, n = 3 => UnloadSteps[n] = "processNotify" DEF Take
<1>2. Len(UnloadSteps) = 10
  BY IsolationUnloads
<1>3. \/ (n = 1 /\ UnloadSteps[n] = "policy") \/ (n = 2 /\ UnloadSteps[n] = "globalFilter")
      \/ (n = 3 /\ UnloadSteps[n] = "processNotify") \/ (n = 4 /\ UnloadSteps[n] = "link")
      \/ (n = 5 /\ UnloadSteps[n] = "device") \/ (n = 6 /\ UnloadSteps[n] = "volumes")
  BY IsolationUnloads
<1>4. have' = have \ CASE UnloadSteps[n] = "processNotify" -> {"processNotify", "procNames"}
                       [] OTHER -> {UnloadSteps[n]}
  BY ONLY <1>2, <1>3, ~OfMonitor, next = n, Take(UnloadSteps[n]) DEF Take
<1>5. n \in 1 .. 6 /\ next' = n + 1 /\ IsolationLeft(n)
  OBVIOUS
<1>6. IsolationLeft(next)'
  BY ONLY <1>3, <1>4, <1>5, SMTT(60) DEF IsolationLeft
<1>7. n # 3 /\ "processNotify" \in have => "processNotify" \in have'
  BY ONLY <1>3, <1>4, SMTT(60)
<1> QED
  BY <1>1, <1>6, <1>7

\* The device that stays with its link.
LEMMA KeepLinkKeeps == ASSUME LifeInv, KeepLink PROVE LifeInv'
<1>0. /\ driver' = driver /\ UNCHANGED <<calls, ports>> /\ UNCHANGED <<stage, have, unregistered>>
      /\ linkKept' = TRUE /\ stage = "unloading" /\ have \subseteq Parts
      /\ "filter" \notin have /\ "filtering" \notin have /\ unregistered = 1
      /\ IF OfMonitor THEN have = MonitorLeft(next) ELSE IsolationLeft(next)
  BY DEF KeepLink, LifeInv, LifeTypeOK, StageInv
<1>1. next' = next + 2 /\ UnloadSteps[next] = "link" /\ next \in Nat /\ next >= 1
  BY StepsBound DEF KeepLink, LifeInv, LifeTypeOK
<1>2. next <= Len(UnloadSteps) /\ (~OfMonitor => next <= 7)
  BY <1>0 DEF LifeInv, StageInv
<1>3. next = 4
  <2>1. CASE OfMonitor
    <3>1. Len(UnloadSteps) = 7
      BY <2>1, MonitorUnloads
    <3>2. next \in 1 .. 7
      BY ONLY <1>1, <1>2, <3>1
    <3> QED
      BY <1>1, <2>1, <3>2, MonitorUnloads
  <2>2. CASE ~OfMonitor
    <3>1. next \in 1 .. 7
      BY ONLY <1>1, <1>2, <2>2
    <3> QED
      BY <1>1, <2>2, <3>1, IsolationUnloads
  <2> QED
    BY <2>1, <2>2
<1>4. next' = 6
  BY ONLY <1>1, <1>3
<1>5. OfMonitor' = OfMonitor /\ UnloadSteps' = UnloadSteps
  BY <1>0, SameDriver
<1>6. IF OfMonitor THEN have' = MonitorLeft(next)' ELSE IsolationLeft(next)'
  <2>1. CASE OfMonitor
    <3>1. linkKept = FALSE
      BY <1>0, <1>3 DEF LifeInv, LifeTypeOK, StageInv
    <3>2. have = MonitorLeft(next) /\ have' = have /\ linkKept' = TRUE
      BY <1>0, <2>1
    <3>3. have' = MonitorLeft(next)'
      BY ONLY <1>3, <1>4, <3>1, <3>2 DEF MonitorLeft
    <3> QED
      BY <2>1, <3>3
  <2>2. CASE ~OfMonitor
    <3>1. IsolationLeft(next) /\ have' = have
      BY <1>0, <2>2
    <3>2. IsolationLeft(next)'
      BY ONLY <1>3, <1>4, <3>1 DEF IsolationLeft
    <3> QED
      BY <2>2, <3>2
  <2> QED
    BY <2>1, <2>2
<1>7. next' <= Len(UnloadSteps)' /\ next' <= 7
  <2>1. next' \in 1 .. 8 /\ next' <= 7
    BY <1>4
  <2> QED
    BY <1>5, <2>1, Within
<1>8. StageInv'
  BY ONLY <1>0, <1>4, <1>5, <1>6, <1>7 DEF StageInv, LeftAfterUnload
<1>9. CallInv'
  BY <1>0, CallsStay
<1>10. next' \in 1 .. Len(LoadSteps) + 1
  BY ONLY <1>4, StepsBound
<1>11. unregistered' \in 0 .. 1
  BY <1>0
<1> QED
  BY <1>0, <1>8, <1>9, <1>10, <1>11, DriverStep

\* A step of DriverUnload.
LEMMA UnloadStepKeeps == ASSUME LifeInv, UnloadStep PROVE LifeInv'
<1>0. /\ driver' = driver /\ UNCHANGED <<calls, ports>> /\ unregistered' = unregistered
      /\ stage = "unloading" /\ have \subseteq Parts /\ linkKept \in BOOLEAN
      /\ "filter" \notin have /\ "filtering" \notin have /\ unregistered = 1
      /\ IF OfMonitor THEN have = MonitorLeft(next) ELSE IsolationLeft(next)
  BY DEF UnloadStep, LifeInv, LifeTypeOK, StageInv
<1>1. next' = next + 1 /\ next \in Nat /\ next >= 1
  BY StepsBound DEF UnloadStep, LifeInv, LifeTypeOK
<1>2. next <= Len(UnloadSteps) /\ (~OfMonitor => next <= 7) /\ (linkKept => next > 5)
  BY <1>0 DEF LifeInv, StageInv
<1>3. OfMonitor' = OfMonitor /\ UnloadSteps' = UnloadSteps
  BY <1>0, SameDriver
<1>4. unregistered' \in 0 .. 1
  BY <1>0
<1>5. CASE OfMonitor
  <2>0. Len(UnloadSteps) = 7
    BY <1>5, MonitorUnloads
  <2>1. next \in 1 .. 7
    BY ONLY <1>1, <1>2, <2>0
  <2>2. UnloadSteps[next] # "workers"
    BY <1>5, <2>1, MonitorUnloads
  <2>3. Take(UnloadSteps[next]) /\ stage' = IF next = 7 THEN "down" ELSE stage
    BY <2>0, <2>2 DEF UnloadStep
  <2>4. /\ linkKept' = linkKept
        /\ next < 7 => have' = MonitorLeft(next)'
        /\ next = 7 => have' = {"nameBuffer", "policy"} \cup (IF linkKept' THEN {"device", "link"} ELSE {})
        /\ "filter" \notin have' /\ "filtering" \notin have' /\ (next > 2 => "processNotify" \notin have')
        /\ next # 2 /\ "processNotify" \in have => "processNotify" \in have'
        /\ next = 2 => InKind("process") = {}
        /\ have' \subseteq have
    BY <1>0, <1>1, <1>2, <1>5, <2>1, <2>3, MonitorTakes
  <2>5. StageInv'
    <3>1. CASE next = 7
      <4>1. stage' = "down"
        BY <2>3, <3>1
      <4> QED
        BY ONLY <1>0, <2>4, <3>1, <4>1 DEF StageInv, LeftAfterUnload
    <3>2. CASE next < 7
      <4>1. next' <= Len(UnloadSteps)' /\ (linkKept' => next' > 5)
        BY <1>1, <1>2, <1>3, <2>0, <2>4, <3>2
      <4>2. stage' = "unloading"
        BY <1>0, <2>3, <3>2
      <4> QED
        BY ONLY <1>0, <1>3, <1>5, <2>4, <3>2, <4>1, <4>2 DEF StageInv, LeftAfterUnload
    <3> QED
      BY <2>1, <3>1, <3>2
  <2>6. CallInv'
    BY <1>0, <2>4, CallsStay
  <2>7. next' \in 1 .. Len(LoadSteps) + 1
    <3>1. next' \in 1 .. 8
      BY ONLY <1>1, <2>1
    <3> QED
      BY ONLY <3>1, Within
  <2>8. stage' \in {"unloading", "down"} /\ linkKept' \in BOOLEAN /\ have' \subseteq Parts
    BY <1>0, <2>3, <2>4
  <2> QED
    BY <1>0, <1>4, <2>5, <2>6, <2>7, <2>8, DriverStep
<1>6. CASE ~OfMonitor
  <2>0. Len(UnloadSteps) = 10
    BY <1>6, IsolationUnloads
  <2>1. next \in 1 .. 7
    BY ONLY <1>1, <1>2, <1>6
  <2>2. CASE next = 7
    <3>1. stage' = "crashed" /\ have' = have /\ linkKept' = linkKept
      BY <1>6, <2>2, IsolationUnloads DEF UnloadStep
    <3>2. "processNotify" \notin have'
      BY <1>0, <1>6, <2>2, <3>1 DEF IsolationLeft
    <3>3. StageInv'
      BY ONLY <1>0, <3>1, <3>2 DEF StageInv, LeftAfterUnload
    <3>4. CallInv'
      BY <1>0, <3>1, CallsStay
    <3>5. next' \in 1 .. Len(LoadSteps) + 1
      <4>1. next' \in 1 .. 8
        BY ONLY <1>1, <2>1
      <4> QED
        BY ONLY <4>1, Within
    <3> QED
      BY <1>0, <1>4, <3>1, <3>3, <3>4, <3>5, DriverStep
  <2>3. CASE next < 7
    <3>0. next \in 1 .. 6
      BY ONLY <2>1, <2>3
    <3>1. UnloadSteps[next] # "workers"
      BY <1>6, <3>0, IsolationUnloads
    <3>2. Take(UnloadSteps[next]) /\ stage' = stage
      BY <2>0, <3>0, <3>1 DEF UnloadStep
    <3>3. /\ linkKept' = linkKept /\ IsolationLeft(next)' /\ have' \subseteq have
          /\ next # 3 /\ "processNotify" \in have => "processNotify" \in have'
          /\ next = 3 => InKind("process") = {}
      BY <1>0, <1>1, <1>6, <3>0, <3>2, IsolationTakes
    <3>4. next' <= Len(UnloadSteps)' /\ next' <= 7 /\ (linkKept' => next' > 5)
      BY <1>1, <1>2, <1>3, <2>0, <3>0, <3>3
    <3>5. "filter" \notin have' /\ "filtering" \notin have' /\ stage' = "unloading" /\ unregistered' = 1
      BY <1>0, <3>2, <3>3
    <3>6. StageInv'
      BY ONLY <1>3, <1>6, <3>3, <3>4, <3>5 DEF StageInv, LeftAfterUnload
    <3>7. CallInv'
      BY <1>0, <3>3, CallsStay
    <3>8. next' \in 1 .. Len(LoadSteps) + 1
      <4>1. next' \in 1 .. 8
        BY ONLY <1>1, <2>1
      <4> QED
        BY ONLY <4>1, Within
    <3>9. linkKept' \in BOOLEAN /\ have' \subseteq Parts
      BY <1>0, <3>3
    <3> QED
      BY <1>0, <1>4, <3>5, <3>6, <3>7, <3>8, <3>9, DriverStep
  <2> QED
    BY <2>1, <2>2, <2>3
<1> QED
  BY <1>5, <1>6

\* While the driver is not unmapped by a failed load, calls find what they use.
LEMMA CallsServed == ASSUME LifeInv, stage # "failed" PROVE Served(have)
<1>0. stage \in {"loading", "up", "detaching", "detached", "stopping", "unloading", "down", "crashed"}
  BY DEF LifeInv, LifeTypeOK
<1>1. CASE stage = "loading"
  <2>1. have = Loaded(next) /\ next \in 1 .. Len(LoadSteps) + 1
    BY <1>1 DEF LifeInv, LifeTypeOK, StageInv
  <2> QED
    BY <2>1, LoadedServes
<1>2. CASE stage = "up"
  BY <1>2, AllParts DEF LifeInv, StageInv
<1>3. CASE stage \in {"detaching", "stopping"}
  <2>1. have = Detaching(next) /\ next <= Len(DetachSteps)
    BY <1>3 DEF LifeInv, StageInv
  <2>2. next \in Nat /\ next >= 1
    BY StepsBound DEF LifeInv, LifeTypeOK
  <2>3. next \in 1 .. Len(DetachSteps)
    BY ONLY <2>1, <2>2, StepsBound
  <2> QED
    BY <2>1, <2>3, DetachingServes
<1>4. CASE stage \in {"detached", "unloading"}
  <2>1. next \in Nat
    BY StepsBound DEF LifeInv, LifeTypeOK
  <2>2. "filtering" \notin have /\ IF OfMonitor THEN have = MonitorLeft(next) ELSE IsolationLeft(next)
    BY <1>4 DEF LifeInv, StageInv
  <2>3. CASE OfMonitor
    BY ONLY <2>1, <2>2, <2>3, SMTT(60) DEF MonitorLeft, Served, Uses
  <2>4. CASE ~OfMonitor
    BY ONLY <2>1, <2>2, <2>4, SMTT(60) DEF IsolationLeft, Served, Uses
  <2> QED
    BY <2>3, <2>4
<1>5. CASE stage \in {"down", "crashed"}
  <2>1. "filtering" \notin have /\ "processNotify" \notin have
    BY <1>5 DEF LifeInv, StageInv
  <2> QED
    BY ONLY <2>1 DEF Served
<1> QED
  BY ONLY <1>0, <1>1, <1>2, <1>3, <1>4, <1>5

\* What routines use are parts.
LEMMA UsedParts ==
  /\ Uses("process") \subseteq Parts /\ Uses("file") \subseteq Parts
  /\ ~OfMonitor => Uses("cache") \subseteq Parts
<1>0. Len(LoadSteps) + 1 \in 1 .. Len(LoadSteps) + 1 /\ Len(LoadSteps) + 1 > 13
  BY ONLY StepsBound
<1>1. AllLoaded \subseteq Parts /\ AllLoaded = Loaded(Len(LoadSteps) + 1)
  BY ONLY AllParts
<1>2. /\ "image" \in AllLoaded /\ "lookasides" \in AllLoaded /\ "procNames" \in AllLoaded
  BY ONLY <1>0, <1>1, InOrder, StepsBound
<1>3. CASE OfMonitor
  <2>1. {"notifyMgr", "policy"} \subseteq AllLoaded
    BY ONLY <1>0, <1>1, <1>3, InOrder, StepsBound
  <2> QED
    BY ONLY <1>1, <1>2, <1>3, <2>1 DEF Uses
<1>4. CASE ~OfMonitor
  <2>1. {"metadata", "volumes", "globalFilter", "policy"} \subseteq AllLoaded
    BY ONLY <1>0, <1>1, <1>4, InOrder, StepsBound
  <2>2. "cacheCallbacks" \in Parts
    <3>1. LoadSteps[16] = "cacheCallbacks" /\ Len(LoadSteps) = 18
      BY ONLY <1>4, IsolationLoads
    <3>2. 16 \in 1 .. Len(LoadSteps)
      BY ONLY <3>1
    <3> QED
      BY ONLY <3>1, <3>2 DEF Parts
  <2> QED
    BY ONLY <1>1, <1>2, <1>4, <2>1, <2>2 DEF Uses
<1> QED
  BY <1>3, <1>4

\* A call comes in, ...
LEMMA EnterKeeps == ASSUME LifeInv, NEW t \in Threads, NEW k \in Kinds, Enter(t, k) PROVE LifeInv'
<1>0. /\ call[t] = "out" /\ CallsOf(k) /\ call' = [call EXCEPT ![t] = k]
      /\ UNCHANGED <<missed, opened, life, ports>>
  BY DEF Enter
<1>1. driver' = driver /\ stage' = stage /\ next' = next /\ have' = have
      /\ unregistered' = unregistered /\ linkKept' = linkKept
  BY <1>0 DEF life
<1>2. /\ call \in [Threads -> Kinds \cup {"out"}]
      /\ call' \in [Threads -> Kinds \cup {"out"}]
  BY <1>0 DEF LifeInv, LifeTypeOK
<1>3. OfMonitor' = OfMonitor
  BY <1>1, SameDriver
<1>4. LifeTypeOK'
  BY <1>0, <1>1, <1>2, SameDriver DEF LifeInv, LifeTypeOK, ports
<1>5. StageInv'
  BY <1>1, <1>3, SameDriver DEF LifeInv, StageInv, LeftAfterUnload, MonitorLeft, IsolationLeft
<1>6. CallInv'
  <2>1. CallInv
    BY DEF LifeInv
  <2>2. /\ k = "process" => "processNotify" \in have
        /\ k \in {"file", "cache"} => "filtering" \in have
        /\ k = "cache" => ~OfMonitor
    BY <1>0 DEF CallsOf, Kinds
  <2>3. \A u \in Threads : call'[u] = IF u = t THEN k ELSE call[u]
    BY <1>0, <1>2
  <2> QED
    BY ONLY <1>1, <1>3, <2>1, <2>2, <2>3 DEF CallInv
<1>7. OnlyKnownGaps' /\ PortInv'
  BY <1>0, <1>1, <1>3, SameDriver DEF LifeInv, OnlyKnownGaps, PortInv, ports, Kinds
<1> QED
  BY <1>4, <1>5, <1>6, <1>7 DEF LifeInv

\* ... and leaves: what it did not find is a known gap.
LEMMA LeaveKeeps == ASSUME LifeInv, NEW t \in Threads, Leave(t) PROVE LifeInv'
<1>0. /\ call[t] # "out" /\ call' = [call EXCEPT ![t] = "out"] /\ opened' \in BOOLEAN
      /\ missed' = missed \cup {<<call[t], pr>> : pr \in Uses(call[t]) \ have}
      /\ UNCHANGED <<life, ports>>
  BY DEF Leave, LifeInv, LifeTypeOK
<1>1. driver' = driver /\ stage' = stage /\ next' = next /\ have' = have
      /\ unregistered' = unregistered /\ linkKept' = linkKept
  BY <1>0 DEF life
<1>2. /\ call \in [Threads -> Kinds \cup {"out"}] /\ call[t] \in Kinds
      /\ call' \in [Threads -> Kinds \cup {"out"}]
  BY <1>0 DEF LifeInv, LifeTypeOK
<1>3. OfMonitor' = OfMonitor
  BY <1>1, SameDriver
<1>4. /\ call[t] = "process" => "processNotify" \in have
      /\ call[t] \in {"file", "cache"} => "filtering" \in have
      /\ call[t] = "cache" => ~OfMonitor
  BY DEF LifeInv, CallInv
<1>5. missed' \subseteq Kinds \X Parts
  <2>1. Uses(call[t]) \subseteq Parts
    BY <1>2, <1>4, UsedParts DEF Kinds
  <2> QED
    BY <1>0, <1>2, <2>1 DEF LifeInv, LifeTypeOK
<1>6. LifeTypeOK'
  BY <1>0, <1>1, <1>2, <1>5, SameDriver DEF LifeInv, LifeTypeOK, ports
<1>7. StageInv'
  BY <1>1, <1>3, SameDriver DEF LifeInv, StageInv, LeftAfterUnload, MonitorLeft, IsolationLeft
<1>8. CallInv'
  <2>1. CallInv
    BY DEF LifeInv
  <2>2. \A u \in Threads : call'[u] = IF u = t THEN "out" ELSE call[u]
    BY <1>0, <1>2
  <2> QED
    BY ONLY <1>1, <1>3, <2>1, <2>2 DEF CallInv
<1>9. OnlyKnownGaps
  BY DEF LifeInv
<1>10. OnlyKnownGaps'
  <2>1. CASE stage = "failed"
    <3>1. "filtering" \notin have
      BY <2>1 DEF LifeInv, StageInv
    <3>2. call[t] = "process"
      BY <1>2, <1>4, <3>1 DEF Kinds
    <3>3. Uses("process")' = Uses("process")
      BY <1>1, SameDriver DEF Kinds
    <3> QED
      BY ONLY <1>0, <1>1, <1>3, <1>9, <2>1, <3>2, <3>3 DEF OnlyKnownGaps
  <2>2. CASE stage # "failed"
    <3>1. Served(have)
      BY <2>2, CallsServed
    <3>2. Uses(call[t]) \ have \subseteq
             IF OfMonitor THEN {} ELSE IF call[t] = "process" THEN {"policy"}
                               ELSE IF call[t] = "cache" THEN {"cacheCallbacks"} ELSE {}
      BY ONLY <1>2, <1>4, <3>1 DEF Served, Kinds
    <3> QED
      BY ONLY <1>0, <1>1, <1>2, <1>3, <1>9, <2>2, <3>2 DEF OnlyKnownGaps, Kinds
  <2> QED
    BY <2>1, <2>2
<1>11. PortInv'
  BY <1>0 DEF LifeInv, PortInv, ports
<1> QED
  BY <1>6, <1>7, <1>8, <1>10, <1>11 DEF LifeInv
\* The port: as long as no two clients met, at most one is connected.
LEMMA PortStep ==
  ASSUME LifeInv, UNCHANGED <<life, calls>>, PortInv',
         port' \in Clients \cup {NoPort}, open' \subseteq Clients,
         client' \in [Clients -> {"off", "on", "left"}], overlapped' \in BOOLEAN
  PROVE  LifeInv'
<1>1. /\ driver' = driver /\ stage' = stage /\ next' = next /\ have' = have
      /\ unregistered' = unregistered /\ linkKept' = linkKept
      /\ call' = call /\ missed' = missed /\ opened' = opened
  BY DEF life, calls
<1>2. OfMonitor' = OfMonitor
  BY <1>1, SameDriver
<1>3. LifeTypeOK'
  BY <1>1, SameDriver DEF LifeInv, LifeTypeOK
<1>4. StageInv'
  BY <1>1, <1>2, SameDriver DEF LifeInv, StageInv, LeftAfterUnload, MonitorLeft, IsolationLeft
<1>5. CallInv'
  BY <1>1, <1>2 DEF LifeInv, CallInv
<1>6. OnlyKnownGaps'
  BY <1>1, <1>2, SameDriver DEF LifeInv, OnlyKnownGaps, Kinds
<1> QED
  BY <1>3, <1>4, <1>5, <1>6 DEF LifeInv

\* A client connects ...
LEMMA ConnectKeeps == ASSUME LifeInv, NEW c \in Clients, ClientConnectNotify(c) PROVE LifeInv'
<1>0. /\ client' = [client EXCEPT ![c] = "on"] /\ overlapped' = (overlapped \/ port # NoPort)
      /\ port' = c /\ open' = open \cup {c} /\ UNCHANGED <<life, calls>>
  BY DEF ClientConnectNotify
<1>1. /\ client \in [Clients -> {"off", "on", "left"}] /\ open \subseteq Clients /\ PortInv
      /\ overlapped \in BOOLEAN
  BY DEF LifeInv, LifeTypeOK
<1>2. client' \in [Clients -> {"off", "on", "left"}]
  BY <1>0, <1>1
<1>3. \A d \in Clients : client'[d] = IF d = c THEN "on" ELSE client[d]
  BY <1>0, <1>1
<1>4. c # NoPort
  BY DriverAssumption
<1>5. PortInv'
  BY <1>0, <1>1, <1>3, <1>4 DEF PortInv
<1> QED
  BY <1>0, <1>1, <1>2, <1>5, PortStep

\* ... and disconnects.
LEMMA DisconnectKeeps == ASSUME LifeInv, NEW c \in Clients, ClientDisconnectNotify(c) PROVE LifeInv'
<1>0. /\ client[c] = "on" /\ client' = [client EXCEPT ![c] = "left"] /\ overlapped' = overlapped
      /\ port' = NoPort /\ open' = open \ {port} /\ UNCHANGED <<life, calls>>
  BY DEF ClientDisconnectNotify
<1>1. /\ client \in [Clients -> {"off", "on", "left"}] /\ open \subseteq Clients /\ PortInv
      /\ overlapped \in BOOLEAN
  BY DEF LifeInv, LifeTypeOK
<1>2. client' \in [Clients -> {"off", "on", "left"}]
  BY <1>0, <1>1
<1>3. \A d \in Clients : client'[d] = IF d = c THEN "left" ELSE client[d]
  BY <1>0, <1>1
<1>4. ~overlapped => open = {c} /\ port = c
  BY <1>0, <1>1 DEF PortInv
<1>5. PortInv'
  BY <1>0, <1>1, <1>3, <1>4 DEF PortInv
<1> QED
  BY <1>0, <1>1, <1>2, <1>5, PortStep

\* Every step keeps the invariant, ...
LEMMA LifeStep == LifeInv /\ [LifeNext]_lifeVars => LifeInv'
<1> SUFFICES ASSUME LifeInv, [LifeNext]_lifeVars PROVE LifeInv'
  OBVIOUS
<1>1. CASE LoadStep
  BY <1>1, LoadStepKeeps
<1>2. CASE LoadFails
  BY <1>2, LoadFailsKeeps
<1>3. CASE FilterUnloadCallback \/ DriverUnload
  BY <1>3, UnloadStarts
<1>4. CASE MiniFilterUnload
  BY <1>4, DetachKeeps
<1>5. CASE KeepLink
  BY <1>5, KeepLinkKeeps
<1>6. CASE UnloadStep
  BY <1>6, UnloadStepKeeps
<1>7. CASE \E t \in Threads : (\E k \in Kinds : Enter(t, k)) \/ Leave(t)
  BY <1>7, EnterKeeps, LeaveKeeps
<1>8. CASE \E c \in Clients : ClientConnectNotify(c) \/ ClientDisconnectNotify(c)
  BY <1>8, ConnectKeeps, DisconnectKeeps
<1>9. CASE UNCHANGED lifeVars
  <2>1. UNCHANGED <<life, calls>> /\ UNCHANGED ports
    BY <1>9 DEF lifeVars
  <2>2. PortInv'
    BY <2>1 DEF LifeInv, PortInv, ports
  <2> QED
    BY <2>1, <2>2, PortStep DEF LifeInv, LifeTypeOK, ports
<1> QED
  BY <1>1, <1>2, <1>3, <1>4, <1>5, <1>6, <1>7, <1>8, <1>9 DEF LifeNext

\* ... and it shows what the driver is for.
LEMMA LifeInvShows == LifeInv => LoadedAndUnloaded
<1> SUFFICES ASSUME LifeInv PROVE LoadedAndUnloaded
  OBVIOUS
<1>1. UnregisteredOnce
  <2> SUFFICES ASSUME stage \in {"detached", "unloading", "down", "failed", "crashed"}
               PROVE  /\ "filter" \notin have /\ InKind("file") = {}
                      /\ stage # "failed" => unregistered = 1
    BY DEF UnregisteredOnce
  <2>1. "filter" \notin have /\ "filtering" \notin have /\ (stage # "failed" => unregistered = 1)
    BY DEF LifeInv, StageInv
  <2>2. InKind("file") = {}
    BY <2>1 DEF LifeInv, CallInv, InKind
  <2> QED
    BY <2>1, <2>2
<1>2. LeftAfterUnload
  BY DEF LifeInv, StageInv
<1>3. PortsPaired
  BY DEF LifeInv, PortInv, PortsPaired
<1> QED
  BY <1>1, <1>2, <1>3 DEF LifeInv, LoadedAndUnloaded

\* Both drivers, from DriverEntry to DriverUnload or to the step that failed: a call
\* finds the parts it uses but for the two known gaps, the filter is unregistered once
\* and after its last file callback, what an unload leaves is known, and the monitor's
\* ports are those of its clients until two of them meet.
THEOREM LoadsAndUnloads == LifeSpec => []LoadedAndUnloaded
<1>1. LifeSpec => []LifeInv
  BY InitLife, LifeStep, PTL DEF LifeSpec
<1> QED
  BY <1>1, LifeInvShows, PTL

-----------------------------------------------------------------------------
(* The control device. *)

(* The time-out is stored as it was set last, in ticks and with its sign   *)
(* changed: what makes the number a program is given the one it set.  That *)
(* a negative number of ticks is stored does not say which.                *)
ControlInv ==
    ControlTypeOK /\ timeOut = -(lastSet * Ticks)

\* The variables that a handler may set are, after it, as they should be.
StateKept ==
    /\ policies' \in Seq(Policies) /\ Len(policies') <= MaxPolicies
    /\ events' \in 0 .. MaxEvents
    /\ lastSet' \in DWord \ {0} /\ timeOut' = -(lastSet' * Ticks)

\* What a program is told is within its type, and honest.
Honest(of, st, gv) ==
    /\ of \in Operations /\ st \in Answers /\ gv \in DWord \cup {NotWritten}
    /\ st \notin {"success", "none"} => UNCHANGED <<timeOut, policies>>
    /\ UNCHANGED events \/ (of = "COLLECT" /\ st = "invalid" /\ gv = NotWritten)
    /\ of = "GET_TIMEOUT" /\ st = "success" => (gv + lastSet) % Modulus = 0
    /\ of = "COUNT" /\ st = "success" => gv = Len(policies)

\* A step in which g alone is told something.
Told(g) ==
    /\ StateKept
    /\ \E of \in Operations, st \in Answers, gv \in DWord \cup {NotWritten} :
           Ended(g, of, st, gv) /\ Honest(of, st, gv)

LEMMA Quotient == ASSUME NEW a \in Nat, NEW b \in Nat \ {0} PROVE (a * b) \div b = a
  OBVIOUS

LEMMA NegativeRemainder == ASSUME NEW M \in Nat \ {0}, NEW m \in 1 .. M - 1 PROVE (-m) % M = M - m
  OBVIOUS

LEMMA WholeRemainder == ASSUME NEW M \in Nat \ {0} PROVE M % M = 0
  OBVIOUS

\* Without one of its elements a sequence is a shorter one of the same elements.
LEMMA RemoveAtShortens ==
    ASSUME NEW S, NEW q \in Seq(S), NEW k \in 1 .. Len(q)
    PROVE  RemoveAt(q, k) \in Seq(S) /\ Len(RemoveAt(q, k)) = Len(q) - 1
<1> DEFINE before == SubSeq(q, 1, k - 1)
           after == SubSeq(q, k + 1, Len(q))
<1>0. Len(q) \in Nat
  OBVIOUS
<1>1. before \in Seq(S) /\ Len(before) = k - 1
  <2>1. \A l \in 1 .. k - 1 : q[l] \in S
    BY <1>0, ElementOfSeq
  <2> QED
    BY <2>1, SubSeqProperties
<1>2. after \in Seq(S) /\ Len(after) = Len(q) - k
  <2>1. \A l \in k + 1 .. Len(q) : q[l] \in S
    BY <1>0, ElementOfSeq
  <2>2. after \in Seq(S) /\ Len(after) = IF k + 1 <= Len(q) THEN Len(q) - (k + 1) + 1 ELSE 0
    BY <1>0, <2>1, SubSeqProperties
  <2> QED
    BY <1>0, <2>2
<1>3. before \o after \in Seq(S) /\ Len(before \o after) = Len(before) + Len(after)
  BY <1>1, <1>2, ConcatProperties
<1>4. RemoveAt(q, k) = before \o after
  BY DEF RemoveAt
<1> HIDE DEF before, after
<1> QED
  BY <1>0, <1>1, <1>2, <1>3, <1>4

\* The bounds on the policies and on the events, and that they fit a DWORD.
LEMMA Bounds ==
    ASSUME ControlTypeOK
    PROVE  /\ policies \in Seq(Policies) /\ Len(policies) \in Nat /\ Len(policies) <= MaxPolicies
           /\ events \in 0 .. MaxEvents /\ lastSet \in DWord \ {0}
           /\ MaxPolicies \in Nat /\ MaxEvents \in Nat
           /\ 0 .. MaxPolicies \subseteq DWord /\ 0 .. MaxEvents \subseteq DWord /\ 3 \in DWord \ {0}
<1>1. Modulus \in Nat /\ 3 < Modulus /\ MaxPolicies \in 0 .. Modulus - 1 /\ MaxEvents \in 0 .. Modulus - 1
  BY ControlAssumption
<1>2. /\ policies \in Seq(Policies) /\ Len(policies) <= MaxPolicies /\ events \in 0 .. MaxEvents
      /\ lastSet \in DWord \ {0}
  BY Zenon DEF ControlTypeOK
<1>3. Len(policies) \in Nat
  BY <1>2
<1> QED
  BY ONLY <1>1, <1>2, <1>3 DEF DWord

\* The number of ticks that is stored is, as milliseconds in a DWORD, that of the
\* milliseconds with its sign changed.
LEMMA MillisecondsNegated ==
    ASSUME NEW ms \in DWord \ {0}
    PROVE  AsMilliseconds(-(ms * Ticks)) \in DWord /\ (AsMilliseconds(-(ms * Ticks)) + ms) % Modulus = 0
<1>1. Modulus \in Nat \ {0} /\ Ticks \in Nat \ {0} /\ ms \in 1 .. Modulus - 1
  BY ControlAssumption DEF DWord
<1>2. (ms * Ticks) \div Ticks = ms
  BY <1>1, Quotient
<1>3. ms * Ticks \in Int
  BY <1>1
<1>4. -(-(ms * Ticks)) = ms * Ticks
  BY <1>3
<1>5. AsMilliseconds(-(ms * Ticks)) = (-ms) % Modulus
  BY <1>2, <1>4 DEF AsMilliseconds
<1>6. (-ms) % Modulus = Modulus - ms
  BY <1>1, NegativeRemainder
<1>7. AsMilliseconds(-(ms * Ticks)) = Modulus - ms
  BY <1>5, <1>6
<1>8. Modulus % Modulus = 0
  BY <1>1, WholeRemainder
<1>9. Modulus - ms \in DWord /\ Modulus - ms + ms = Modulus
  BY <1>1 DEF DWord
<1> QED
  BY <1>7, <1>8, <1>9

\* A request that is refused changes nothing.
LEMMA RefusedIsTold ==
    ASSUME ControlInv, NEW g \in Programs, NEW of \in Operations \ {"COUNT", "GET_TIMEOUT"}, NEW st \in Answers, Refuse(g, of, st)
    PROVE  Told(g)
<1>1. StateKept
  BY DEF ControlInv, ControlTypeOK, Refuse, driverState, StateKept
<1>2. events \in Int
  BY Bounds DEF ControlInv
<1>3. Honest(of, st, NotWritten)
  BY <1>2 DEF Honest, Refuse, driverState
<1>4. Ended(g, of, st, NotWritten)
  BY DEF Refuse
<1> QED
  BY <1>1, <1>3, <1>4 DEF Told

LEMMA TooSmallIsTold ==
    ASSUME ControlInv, NEW g \in Programs, NEW of \in {"COUNT", "GET_TIMEOUT"}, Refuse(g, of, "too small")
    PROVE  Told(g)
<1>1. StateKept
  BY DEF ControlInv, ControlTypeOK, Refuse, driverState, StateKept
<1>2. Honest(of, "too small", NotWritten)
  BY DEF Honest, Refuse, driverState, Operations, Answers
<1>3. Ended(g, of, "too small", NotWritten)
  BY DEF Refuse
<1>4. of \in Operations /\ "too small" \in Answers
  BY DEF Operations, Answers
<1> QED
  BY <1>1, <1>2, <1>3, <1>4 DEF Told

\* Policies are removed one at a time, and one there is.
LEMMA RemoveIsTold ==
    ASSUME ControlInv, NEW g \in Programs, NEW of \in {"DEL_BY_PID", "DEL_BY_MASK"}, NEW matching,
           ProcessFilter_Remove(g, of, matching)
    PROVE  Told(g)
<1> DEFINE found == {k \in DOMAIN policies : policies[k] \in matching}
           first == CHOOSE k \in found : \A l \in found : k <= l
           st == IF found = {} THEN "not found" ELSE "success"
<1>1. /\ policies' = IF found = {} THEN policies ELSE RemoveAt(policies, first)
      /\ Ended(g, of, st, NotWritten)
      /\ UNCHANGED <<timeOut, events, lastSet>>
  BY DEF ProcessFilter_Remove
<1>2. policies \in Seq(Policies) /\ Len(policies) \in Nat /\ Len(policies) <= MaxPolicies /\ MaxPolicies \in Nat
  BY Bounds DEF ControlInv
<1>3. policies' \in Seq(Policies) /\ Len(policies') <= MaxPolicies
  <2>1. CASE found = {}
    BY <1>1, <1>2, <2>1
  <2>2. CASE found # {}
    <3>1. found \subseteq Nat
      BY <1>2
    <3>2. \E k \in found : \A l \in found : k <= l
      BY <2>2, <3>1, LeastElement
    <3>3. first \in found
      BY <3>2
    <3>4. first \in 1 .. Len(policies)
      BY <1>2, <3>3
    <3>5. RemoveAt(policies, first) \in Seq(Policies) /\ Len(RemoveAt(policies, first)) = Len(policies) - 1
      BY <1>2, <3>4, RemoveAtShortens
    <3> HIDE DEF found, first
    <3>6. policies' = RemoveAt(policies, first)
      BY <1>1, <2>2
    <3>7. \A n \in Nat : n <= MaxPolicies => n - 1 <= MaxPolicies
      BY ONLY <1>2
    <3> QED
      BY ONLY <1>2, <3>5, <3>6, <3>7
  <2> QED
    BY <2>1, <2>2
<1>4. StateKept
  BY <1>1, <1>3 DEF StateKept, ControlInv, ControlTypeOK
<1>5. st \in Answers /\ of \in Operations
  BY DEF Answers, Operations
<1>6. Honest(of, st, NotWritten)
  <2>1. st \notin {"success", "none"} => UNCHANGED driverState
    BY <1>1 DEF driverState
  <2> QED
    BY <1>1, <1>5, <2>1 DEF Honest, driverState
<1> QED
  BY <1>1, <1>4, <1>5, <1>6 DEF Told

LEMMA SetTimeOutIsTold ==
    ASSUME ControlInv, NEW g \in Programs, NEW size, NEW ms \in DWord, DevIOCntlSetTimeOutMs(g, size, ms)
    PROVE  Told(g)
<1>1. CASE Refuse(g, "SET_TIMEOUT", "too small") \/ Refuse(g, "SET_TIMEOUT", "invalid")
  <2>1. "SET_TIMEOUT" \in Operations \ {"COUNT", "GET_TIMEOUT"} /\ "too small" \in Answers /\ "invalid" \in Answers
    BY DEF Operations, Answers
  <2> QED
    BY <1>1, <2>1, RefusedIsTold
<1>2. CASE /\ ms # 0 /\ timeOut' = -(ms * Ticks) /\ lastSet' = ms
           /\ Ended(g, "SET_TIMEOUT", "success", NotWritten) /\ UNCHANGED <<policies, events>>
  <2>1. StateKept
    BY <1>2 DEF StateKept, ControlInv, ControlTypeOK
  <2>2. Honest("SET_TIMEOUT", "success", NotWritten)
    BY <1>2 DEF Honest, Operations, Answers
  <2>3. "SET_TIMEOUT" \in Operations /\ "success" \in Answers
    BY DEF Operations, Answers
  <2> QED
    BY <1>2, <2>1, <2>2, <2>3 DEF Told
<1> QED
  BY <1>1, <1>2 DEF DevIOCntlSetTimeOutMs

LEMMA GetTimeOutIsTold ==
    ASSUME ControlInv, NEW g \in Programs, NEW size, DevIOCntlGetTimeOutMs(g, size)
    PROVE  Told(g)
<1>1. CASE Refuse(g, "GET_TIMEOUT", "too small")
  BY <1>1, TooSmallIsTold
<1>2. CASE Ended(g, "GET_TIMEOUT", "success", AsMilliseconds(timeOut)) /\ UNCHANGED <<driverState, lastSet>>
  <2>1. StateKept
    BY <1>2 DEF StateKept, ControlInv, ControlTypeOK, driverState
  <2>2. AsMilliseconds(timeOut) \in DWord /\ (AsMilliseconds(timeOut) + lastSet) % Modulus = 0
    BY MillisecondsNegated DEF ControlInv, ControlTypeOK
  <2>3. "GET_TIMEOUT" \in Operations /\ "success" \in Answers
    BY DEF Operations, Answers
  <2>4. Honest("GET_TIMEOUT", "success", AsMilliseconds(timeOut))
    BY <1>2, <2>2, <2>3 DEF Honest, driverState
  <2> QED
    BY <1>2, <2>1, <2>2, <2>3, <2>4 DEF Told
<1> QED
  BY <1>1, <1>2 DEF DevIOCntlGetTimeOutMs

LEMMA AddIsTold ==
    ASSUME ControlInv, NEW g \in Programs, NEW size, NEW policy \in Policies,
           DevIOCntlAddProcessPolicy(g, size, policy)
    PROVE  Told(g)
<1>1. CASE Refuse(g, "ADD", "too small")
  <2>1. "ADD" \in Operations \ {"COUNT", "GET_TIMEOUT"} /\ "too small" \in Answers
    BY DEF Operations, Answers
  <2> QED
    BY <1>1, <2>1, RefusedIsTold
<1>2. CASE /\ Len(policies) < MaxPolicies /\ policies' = Append(policies, policy)
           /\ Ended(g, "ADD", "success", NotWritten) /\ UNCHANGED <<timeOut, events, lastSet>>
  <2>1. policies \in Seq(Policies) /\ MaxPolicies \in Nat
    BY Bounds DEF ControlInv
  <2>2. policies' \in Seq(Policies) /\ Len(policies') = Len(policies) + 1 /\ Len(policies) \in Nat
    BY <1>2, <2>1
  <2>3. Len(policies') <= MaxPolicies
    BY <1>2, <2>1, <2>2
  <2>4. StateKept
    BY <1>2, <2>2, <2>3 DEF StateKept, ControlInv, ControlTypeOK
  <2>5. "ADD" \in Operations /\ "success" \in Answers
    BY DEF Operations, Answers
  <2>6. Honest("ADD", "success", NotWritten)
    BY <1>2, <2>5 DEF Honest
  <2> QED
    BY <1>2, <2>4, <2>5, <2>6 DEF Told
<1> QED
  BY <1>1, <1>2 DEF DevIOCntlAddProcessPolicy

LEMMA DelByPidIsTold ==
    ASSUME ControlInv, NEW g \in Programs, NEW size, NEW pid, DevIOCntlDelProcessPolicyByPID(g, size, pid)
    PROVE  Told(g)
<1>1. CASE Refuse(g, "DEL_BY_PID", "too small") \/ Refuse(g, "DEL_BY_PID", "invalid")
  <2>1. "DEL_BY_PID" \in Operations \ {"COUNT", "GET_TIMEOUT"} /\ "too small" \in Answers /\ "invalid" \in Answers
    BY DEF Operations, Answers
  <2> QED
    BY <1>1, <2>1, RefusedIsTold
<1>2. CASE ProcessFilter_Remove(g, "DEL_BY_PID", {x \in Policies : x.pid = pid})
  BY <1>2, RemoveIsTold
<1> QED
  BY <1>1, <1>2 DEF DevIOCntlDelProcessPolicyByPID

LEMMA DelByMaskIsTold ==
    ASSUME ControlInv, NEW g \in Programs, NEW size, NEW mask, DevIOCntlDelProcessPolicyByMask(g, size, mask)
    PROVE  Told(g)
<1>1. CASE Refuse(g, "DEL_BY_MASK", "invalid")
  <2>1. "DEL_BY_MASK" \in Operations \ {"COUNT", "GET_TIMEOUT"} /\ "invalid" \in Answers
    BY DEF Operations, Answers
  <2> QED
    BY <1>1, <2>1, RefusedIsTold
<1>2. CASE ProcessFilter_Remove(g, "DEL_BY_MASK", {x \in Policies : x.mask = mask})
  BY <1>2, RemoveIsTold
<1> QED
  BY <1>1, <1>2 DEF DevIOCntlDelProcessPolicyByMask

LEMMA CountIsTold ==
    ASSUME ControlInv, NEW g \in Programs, NEW size, DevIOCntlGetProcessPolicyCount(g, size)
    PROVE  Told(g)
<1>1. CASE Refuse(g, "COUNT", "too small")
  BY <1>1, TooSmallIsTold
<1>2. CASE Ended(g, "COUNT", "success", Len(policies)) /\ UNCHANGED <<driverState, lastSet>>
  <2>1. StateKept
    BY <1>2 DEF StateKept, ControlInv, ControlTypeOK, driverState
  <2>2. Len(policies) \in DWord
    BY Bounds DEF ControlInv
  <2>3. "COUNT" \in Operations /\ "success" \in Answers
    BY DEF Operations, Answers
  <2>4. Honest("COUNT", "success", Len(policies))
    BY <1>2, <2>2, <2>3 DEF Honest, driverState
  <2> QED
    BY <1>2, <2>1, <2>2, <2>3, <2>4 DEF Told
<1> QED
  BY <1>1, <1>2 DEF DevIOCntlGetProcessPolicyCount

LEMMA ClearIsTold ==
    ASSUME ControlInv, NEW g \in Programs, DevIOCntlClearProcessPolicy(g)
    PROVE  Told(g)
<1>1. policies' = << >> /\ Ended(g, "CLEAR", "success", NotWritten) /\ UNCHANGED <<timeOut, events, lastSet>>
  BY DEF DevIOCntlClearProcessPolicy
<1>2. << >> \in Seq(Policies) /\ Len(<< >>) <= MaxPolicies
  BY ControlAssumption
<1>3. StateKept
  BY <1>1, <1>2 DEF StateKept, ControlInv, ControlTypeOK
<1>4. "CLEAR" \in Operations /\ "success" \in Answers
  BY DEF Operations, Answers
<1>5. Honest("CLEAR", "success", NotWritten)
  BY <1>1, <1>4 DEF Honest
<1> QED
  BY <1>1, <1>3, <1>4, <1>5 DEF Told

LEMMA CollectIsTold ==
    ASSUME ControlInv, NEW g \in Programs, NEW size, DevIOCntlCollectNotifyEventItems(g, size)
    PROVE  Told(g)
<1>1. CASE Refuse(g, "COLLECT", "invalid") \/ Refuse(g, "COLLECT", "too small")
  <2>1. "COLLECT" \in Operations \ {"COUNT", "GET_TIMEOUT"} /\ "too small" \in Answers /\ "invalid" \in Answers
    BY DEF Operations, Answers
  <2> QED
    BY <1>1, <2>1, RefusedIsTold
<1>2. ASSUME NEW taken \in 0..events, events' = events - taken,
             Ended(g, "COLLECT", "invalid", NotWritten), UNCHANGED <<timeOut, policies, lastSet>>
      PROVE  Told(g)
  <2>1. events \in 0 .. MaxEvents /\ MaxEvents \in Nat
    BY Bounds DEF ControlInv
  <2>2. events' \in 0 .. MaxEvents
    BY <1>2, <2>1
  <2>3. StateKept
    BY <1>2, <2>2 DEF StateKept, ControlInv, ControlTypeOK
  <2>4. "COLLECT" \in Operations /\ "invalid" \in Answers
    BY DEF Operations, Answers
  <2>5. Honest("COLLECT", "invalid", NotWritten)
    BY <1>2, <2>4 DEF Honest
  <2> QED
    BY <1>2, <2>3, <2>4, <2>5 DEF Told
<1> QED
  BY <1>1, <1>2 DEF DevIOCntlCollectNotifyEventItems

\* Whatever a program sends to the device.
LEMMA RequestIsTold ==
    ASSUME ControlInv, NEW g \in Programs, NEW size, FastIoDeviceControl(g, size)
    PROVE  Told(g)
<1>1. CASE \E st \in {"success", "invalid"} : Refuse(g, "other", st)
  <2>1. "other" \in Operations \ {"COUNT", "GET_TIMEOUT"} /\ {"success", "invalid"} \subseteq Answers
    BY DEF Operations, Answers
  <2> QED
    BY <1>1, <2>1, RefusedIsTold
<1>2. CASE \E ms \in DWord : DevIOCntlSetTimeOutMs(g, size, ms)
  BY <1>2, SetTimeOutIsTold
<1>3. CASE \E policy \in Policies : DevIOCntlAddProcessPolicy(g, size, policy)
  BY <1>3, AddIsTold
<1>4. CASE \E pid \in Pids \cup {0} : DevIOCntlDelProcessPolicyByPID(g, size, pid)
  BY <1>4, DelByPidIsTold
<1>5. CASE \E mask \in Masks \cup {Empty} : DevIOCntlDelProcessPolicyByMask(g, size, mask)
  BY <1>5, DelByMaskIsTold
<1>6. CASE DevIOCntlGetTimeOutMs(g, size)
  BY <1>6, GetTimeOutIsTold
<1>7. CASE DevIOCntlGetProcessPolicyCount(g, size)
  BY <1>7, CountIsTold
<1>8. CASE DevIOCntlClearProcessPolicy(g)
  BY <1>8, ClearIsTold
<1>9. CASE DevIOCntlCollectNotifyEventItems(g, size)
  BY <1>9, CollectIsTold
<1> QED
  BY ONLY FastIoDeviceControl(g, size), <1>1, <1>2, <1>3, <1>4, <1>5, <1>6, <1>7, <1>8, <1>9 DEF FastIoDeviceControl

\* Whatever function a program calls: the answer comes from the library.
LEMMA CallIsTold ==
    ASSUME ControlInv, NEW g \in Programs, NEW name \in Functions, LibraryCall(g, name)
    PROVE  Told(g) /\ loaded' = loaded /\ lastError' \in [Programs -> {"success", "invalid handle"}]
<1>0. name \in Operations \ {"COUNT", "GET_TIMEOUT"} /\ {"success", "invalid", "invalid handle"} \subseteq Answers
  BY DEF Operations, Functions, Answers
<1>1. lastError \in [Programs -> {"success", "invalid handle"}]
  BY DEF ControlInv, ControlTypeOK
<1>2. CASE NullArgument(g, name)
  <2>1. Refuse(g, name, "invalid")
    BY <1>2 DEF NullArgument
  <2> QED
    BY <1>0, <1>1, <1>2, <2>1, RefusedIsTold DEF NullArgument
<1>3. CASE DeviceOpened(g, name)
  <2>1. PICK seen \in {"success", lastError[g]} :
            lastError' = [lastError EXCEPT ![g] = seen] /\ Refuse(g, name, seen)
    BY <1>3 DEF DeviceOpened
  <2>2. seen \in {"success", "invalid handle"}
    BY <1>1
  <2>3. Told(g)
    BY <1>0, <2>1, <2>2, RefusedIsTold
  <2> QED
    BY <1>1, <1>3, <2>1, <2>2, <2>3 DEF DeviceOpened
<1>4. CASE NoDevice(g, name)
  <2>1. Refuse(g, name, "invalid handle") /\ lastError' = [lastError EXCEPT ![g] = "invalid handle"]
    BY <1>4 DEF NoDevice
  <2>2. Told(g)
    BY <1>0, <2>1, RefusedIsTold
  <2> QED
    BY <1>1, <1>4, <2>1, <2>2 DEF NoDevice
<1> QED
  BY <1>2, <1>3, <1>4 DEF LibraryCall

\* A step in which one program is told something leaves the others' answers alone.
LEMMA ToldIsHonest ==
    ASSUME ControlInv, NEW g \in Programs, Told(g)
    PROVE  /\ StateKept /\ RefusedStep /\ TimeOutStep /\ CountStep /\ LossStep
           /\ answer' \in [Programs -> [of : Operations, status : Answers, given : DWord \cup {NotWritten}]]
<1>1. PICK of \in Operations, st \in Answers, gv \in DWord \cup {NotWritten} :
          Ended(g, of, st, gv) /\ Honest(of, st, gv)
  BY DEF Told
<1>2. answer \in [Programs -> [of : Operations, status : Answers, given : DWord \cup {NotWritten}]]
  BY DEF ControlInv, ControlTypeOK
<1>3. answer' = [answer EXCEPT ![g] = [of |-> of, status |-> st, given |-> gv]]
  BY <1>1 DEF Ended
<1>4. \A h \in Programs : answer'[h] # answer[h] => h = g
  BY <1>2, <1>3
<1>5. answer'[g].of = of /\ answer'[g].status = st /\ answer'[g].given = gv
  BY <1>2, <1>3
<1>6. RefusedStep
  <2>1. UNCHANGED events \/ (of = "COLLECT" /\ st = "invalid")
    BY <1>1 DEF Honest
  <2>2. st \notin {"success", "none"} => UNCHANGED <<timeOut, policies>>
    BY <1>1 DEF Honest
  <2> QED
    BY ONLY <1>4, <1>5, <2>1, <2>2 DEF RefusedStep
<1>7. TimeOutStep
  BY <1>1, <1>4, <1>5 DEF TimeOutStep, Honest
<1>8. CountStep
  BY <1>1, <1>4, <1>5 DEF CountStep, Honest
<1>9. answer' \in [Programs -> [of : Operations, status : Answers, given : DWord \cup {NotWritten}]]
  BY <1>2, <1>3
<1>10. LossStep
  <2>1. CASE of = "COLLECT" /\ st = "invalid" /\ gv = NotWritten
    BY <1>2, <1>3, <2>1 DEF LossStep
  <2>2. CASE UNCHANGED events
    <3>1. events \in Int
      BY Bounds DEF ControlInv
    <3> QED
      BY ONLY <2>2, <3>1 DEF LossStep
  <2> QED
    BY <1>1, <2>1, <2>2 DEF Honest
<1> QED
  BY <1>6, <1>7, <1>8, <1>9, <1>10 DEF Told

\* A time-out that is a number of milliseconds, negated, has its type.
LEMMA StoredTicks ==
    ASSUME NEW ms \in DWord \ {0}, NEW stored, stored = -(ms * Ticks)
    PROVE  -stored \in {m * Ticks : m \in DWord \ {0}}
<1>1. ms * Ticks \in Int
  BY ControlAssumption DEF DWord
<1>2. -stored = ms * Ticks
  BY <1>1
<1> QED
  BY <1>2

LEMMA InitControl == ControlInit => ControlInv
<1> SUFFICES ASSUME ControlInit PROVE ControlInv
  OBVIOUS
<1>1. 3 \in DWord \ {0} /\ 0 \in 0 .. MaxEvents /\ << >> \in Seq(Policies) /\ Len(<< >>) <= MaxPolicies
  BY ControlAssumption DEF DWord
<1>2. -timeOut \in {ms * Ticks : ms \in DWord \ {0}}
  BY <1>1, StoredTicks DEF ControlInit
<1>3. /\ answer \in [Programs -> [of : Operations, status : Answers, given : DWord \cup {NotWritten}]]
      /\ lastError \in [Programs -> {"success", "invalid handle"}]
  BY DEF ControlInit, Operations, Answers
<1> QED
  BY <1>1, <1>2, <1>3 DEF ControlInit, ControlInv, ControlTypeOK

\* What no program has been told anything by tells nobody a lie, and loses no event.
LEMMA UntoldIsHonest ==
    ASSUME ControlInv, answer' = answer, loaded => ~(events' < events)
    PROVE  RefusedStep /\ TimeOutStep /\ CountStep /\ LossStep
BY DEF RefusedStep, TimeOutStep, CountStep, LossStep

LEMMA ControlStep ==
    ASSUME ControlInv, [ControlNext]_controlVars
    PROVE  ControlInv' /\ RefusedStep /\ TimeOutStep /\ CountStep /\ LossStep
<1> DEFINE AllKept == /\ StateKept /\ loaded' \in BOOLEAN
                      /\ answer' \in [Programs -> [of : Operations, status : Answers, given : DWord \cup {NotWritten}]]
                      /\ lastError' \in [Programs -> {"success", "invalid handle"}]
                      /\ RefusedStep /\ TimeOutStep /\ CountStep /\ LossStep
<1>0. /\ loaded \in BOOLEAN /\ lastError \in [Programs -> {"success", "invalid handle"}]
      /\ answer \in [Programs -> [of : Operations, status : Answers, given : DWord \cup {NotWritten}]]
  BY Zenon DEF ControlInv, ControlTypeOK
<1>a. MaxPolicies \in Nat /\ MaxEvents \in Nat /\ events \in 0 .. MaxEvents /\ 3 \in DWord \ {0}
  BY Bounds DEF ControlInv
<1>1. ASSUME Event PROVE AllKept
  <2>1. events' \in 0 .. MaxEvents /\ UNCHANGED <<loaded, timeOut, policies, lastSet, answer, lastError>>
    BY <1>a, <1>1 DEF Event
  <2>2. StateKept
    BY <2>1 DEF StateKept, ControlInv, ControlTypeOK
  <2>3. ~(events' < events)
    BY <1>a, <1>1 DEF Event
  <2> QED
    BY <1>0, <2>1, <2>2, <2>3, UntoldIsHonest
<1>2. ASSUME Unload PROVE AllKept
  <2>1. StateKept
    BY <1>2 DEF Unload, StateKept, ControlInv, ControlTypeOK, driverState
  <2>3. ~(events' < events)
    BY <1>a, <1>2 DEF Unload, driverState
  <2> QED
    BY <1>0, <1>a, <1>2, <2>1, <2>3, UntoldIsHonest DEF Unload
<1>3. ASSUME Load PROVE AllKept
  <2>1. << >> \in Seq(Policies) /\ Len(<< >>) <= MaxPolicies /\ 0 \in 0 .. MaxEvents
    BY <1>a
  <2>2. StateKept
    BY <1>a, <1>3, <2>1 DEF Load, StateKept
  <2>3. ~loaded
    BY <1>3 DEF Load
  <2> QED
    BY <1>0, <1>3, <2>2, <2>3, UntoldIsHonest DEF Load
<1>4. ASSUME NEW g \in Programs, Request(g) PROVE AllKept
  <2>1. PICK size \in Lengths : FastIoDeviceControl(g, size)
    BY <1>4 DEF Request
  <2>2. Told(g)
    BY <2>1, RequestIsTold
  <2> QED
    BY <1>0, <1>4, <2>2, ToldIsHonest DEF Request
<1>5. ASSUME NEW g \in Programs, NEW name \in Functions, LibraryCall(g, name) PROVE AllKept
  <2>1. Told(g) /\ loaded' = loaded /\ lastError' \in [Programs -> {"success", "invalid handle"}]
    BY <1>5, CallIsTold
  <2> QED
    BY <1>0, <2>1, ToldIsHonest
<1>6. ASSUME UNCHANGED controlVars PROVE AllKept
  <2>1. UNCHANGED <<loaded, timeOut, policies, events, lastSet, answer, lastError>>
    BY <1>6 DEF controlVars
  <2>2. StateKept
    BY <2>1 DEF StateKept, ControlInv, ControlTypeOK
  <2>3. ~(events' < events)
    BY <1>a, <2>1
  <2> QED
    BY <1>0, <2>1, <2>2, <2>3, UntoldIsHonest
<1>7. AllKept
  <2> HIDE DEF AllKept
  <2> QED
    BY <1>1, <1>2, <1>3, <1>4, <1>5, <1>6 DEF ControlNext
<1>8. -timeOut' \in {ms * Ticks : ms \in DWord \ {0}}
  BY <1>7, StoredTicks DEF StateKept
<1> QED
  BY <1>7, <1>8 DEF StateKept, ControlInv, ControlTypeOK

\* What a control code or a function of the library answers is true, for any number
\* of programs, policies and events and in any width: an error has changed nothing, but
\* for the events whose collection fails, the time-out given and the one set last add
\* up to zero, and the number of policies is theirs.
THEOREM AnswersAreHonest == ControlSpec => AnswersHonest
<1>1. ControlInv /\ [ControlNext]_controlVars => ControlInv'
  BY ControlStep
<1>2. ControlInv /\ [ControlNext]_controlVars => [ControlTypeOK' /\ RefusedStep /\ TimeOutStep /\ CountStep /\ LossStep]_controlVars
  BY ControlStep DEF ControlInv
<1> QED
  BY InitControl, <1>1, <1>2, PTL DEF ControlSpec, AnswersHonest
=============================================================================
