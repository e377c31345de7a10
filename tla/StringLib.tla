------------------------------ MODULE StringLib ------------------------------
(***************************************************************************)
(* The string functions every decision of the drivers goes through         *)
(* (cmn/fltCmnLibs_string.cpp, and the copy in sys/utilities/              *)
(* fltUtilities.cpp), and ProcessFilter_AddMask, which takes a list of     *)
(* masks apart (sys/policies/processFilter.cpp).  One call at a time, one  *)
(* turn of the function's loop a step.  Indices are the code's, from zero; *)
(* a string is followed by its terminator.                                 *)
(***************************************************************************)
EXTENDS Integers, Sequences, SequencesExt, FiniteSets, FiniteSetsExt

CONSTANTS
    Calls,       \* the functions called
    Texts,       \* their subjects: sequences of characters
    Patterns,    \* masks and characters looked for
    Limit        \* ULONG_MAX, scaled down

\* A string holds no terminator; the one that follows it is At(str, Len(str)).
ASSUME StringAssumption ==
    /\ \A str \in Texts \cup Patterns : str \in Seq(STRING) /\ \A k \in DOMAIN str : str[k] # "NUL"
    /\ Calls \subseteq {"WildcardMatch", "WildcardMatchExact", "ReverseFindW", "ForwardFindW", "EndsWithW", "StartsWithW", "stricmp", "stoul", "AddMask"}
    /\ Limit \in Nat /\ Limit >= 9

NUL == "NUL"
NULLPTR == -1
Nowhere == -2         \* not in the string: memory before it, or a fault

VARIABLES
    fn, s, p,        \* the call and its arguments
    i, j,            \* pszString, pszMatch; or the loop's index
    mp, cp,          \* where to try again after a '*'
    acc, any, neg,   \* stoul
    buf, masks,      \* AddMask: the mask being read, and the list
    freedLink,       \* ProcessFilter_RemoveMask read an entry it had freed
    result,          \* an index, a number, or 1 and 0 for a Boolean
    pc

vars == << fn, s, p, i, j, mp, cp, acc, any, neg, buf, masks, freedLink, result, pc >>
wildVars == << mp, cp >>
numVars == << acc, any, neg >>
maskVars == << buf, masks, freedLink >>
callVars == << fn, s, p >>

At(str, k) == IF k = Len(str) THEN NUL ELSE str[k + 1]
Up(c) == IF c = "a" THEN "A" ELSE IF c = "b" THEN "B" ELSE c
Fold(str) == [k \in DOMAIN str |-> Up(str[k])]
IsDigit(c) == c \in {"0", "1", "2", "9"}
Digit(c) == CASE c = "0" -> 0 [] c = "1" -> 1 [] c = "2" -> 2 [] c = "9" -> 9

\* Types; the accumulator of stoul never passes ULONG_MAX.
TypeOK ==
    /\ fn \in Calls /\ s \in Texts /\ p \in Patterns
    /\ i \in Nat /\ j \in Nat /\ mp \in Int /\ cp \in Int
    /\ acc \in 0..Limit /\ any \in {-1, 0, 1} /\ neg \in BOOLEAN
    /\ freedLink \in BOOLEAN /\ result \in Int
    /\ pc \in {"start", "loop", "stars", "scan", "release", "done"}

\* A call with its arguments.
Init ==
    /\ fn \in Calls /\ s \in Texts /\ p \in Patterns
    /\ i = 0 /\ j = 0 /\ mp = NULLPTR /\ cp = NULLPTR
    /\ acc = 0 /\ any = 0 /\ neg = FALSE
    /\ buf = << >> /\ masks = << >> /\ freedLink = FALSE
    /\ result = NULLPTR /\ pc = "start"

Return(r) == result' = r /\ pc' = "done"
Continue == pc' = "loop" /\ UNCHANGED result

-----------------------------------------------------------------------------
(* WildcardMatch_straight. *)

Wild == fn \in {"WildcardMatch", "WildcardMatchExact"}

\* The comparison: asked to heed case, it compares nothing but '?'.
SameChar(a, b) == b = "?" \/ (fn = "WildcardMatch" /\ Up(a) = Up(b))

\* Fault: the next try starts where the last one did.
RetrySame ==
    /\ j' = mp /\ i' = cp /\ UNCHANGED cp

\* Fault: the place to try is advanced before it is used.
RetryAfterNext ==
    /\ j' = mp /\ cp' = cp + 1 /\ i' = cp + 1

\* Fault: the next try starts behind the character that failed.
RetryBehind ==
    /\ j' = mp /\ i' = i + 1 /\ cp' = i + 2

\* Try again one character further on.
Retry ==
    /\ j' = mp /\ i' = cp /\ cp' = cp + 1

WildcardMatch ==
    /\ Wild /\ pc \in {"start", "loop"}
    /\ \/ /\ i = Len(s) /\ pc' = "stars" /\ UNCHANGED << i, j, wildVars, result >>
       \/ /\ i < Len(s) /\ At(p, j) = "*" /\ j + 1 = Len(p)
          /\ Return(1) /\ j' = j + 1 /\ UNCHANGED << i, wildVars >>
       \/ /\ i < Len(s) /\ At(p, j) = "*" /\ j + 1 < Len(p)
          /\ j' = j + 1 /\ mp' = j + 1 /\ cp' = i + 1 /\ Continue /\ UNCHANGED i
       \/ /\ i < Len(s) /\ At(p, j) # "*" /\ SameChar(At(s, i), At(p, j))
          /\ i' = i + 1 /\ j' = j + 1 /\ Continue /\ UNCHANGED wildVars
       \/ /\ i < Len(s) /\ At(p, j) # "*" /\ ~SameChar(At(s, i), At(p, j)) /\ cp = NULLPTR
          /\ Return(0) /\ UNCHANGED << i, j, wildVars >>
       \/ /\ i < Len(s) /\ At(p, j) # "*" /\ ~SameChar(At(s, i), At(p, j)) /\ cp # NULLPTR
          /\ Retry /\ Continue /\ UNCHANGED mp
    /\ UNCHANGED << callVars, numVars, maskVars >>

TrailingStars ==
    /\ Wild /\ pc = "stars"
    /\ IF At(p, j) = "*" THEN j' = j + 1 /\ UNCHANGED << result, pc >>
                         ELSE Return(IF j = Len(p) THEN 1 ELSE 0) /\ UNCHANGED j
    /\ UNCHANGED << callVars, i, wildVars, numVars, maskVars >>

-----------------------------------------------------------------------------
(* ReverseFindW, ForwardFindW, EndsWithW, StartsWithW and stricmp. *)

\* ReverseFindW: the index is unsigned, so that the loop does not end at the
\* start of the string; what it meets before the string is not in it.
ReverseFindW ==
    /\ fn = "ReverseFindW" /\ Len(p) > 0
    /\ \/ pc = "start" /\ i' = Len(s) /\ Continue
       \/ /\ pc = "loop" /\ At(s, i) = p[1] /\ Return(i) /\ UNCHANGED i
       \/ /\ pc = "loop" /\ At(s, i) # p[1] /\ i > 0 /\ i' = i - 1 /\ Continue
       \/ /\ pc = "loop" /\ At(s, i) # p[1] /\ i = 0 /\ Return(Nowhere) /\ UNCHANGED i
    /\ UNCHANGED << callVars, j, wildVars, numVars, maskVars >>

ForwardFindW ==
    /\ fn = "ForwardFindW" /\ Len(p) > 0 /\ pc \in {"start", "loop"}
    /\ \/ i = Len(s) /\ Return(NULLPTR) /\ UNCHANGED i
       \/ i < Len(s) /\ At(s, i) = p[1] /\ Return(i) /\ UNCHANGED i
       \/ i < Len(s) /\ At(s, i) # p[1] /\ i' = i + 1 /\ Continue
    /\ UNCHANGED << callVars, j, wildVars, numVars, maskVars >>

EndsWithStart ==
    /\ fn = "EndsWithW" /\ pc = "start"
    /\ IF Len(s) < Len(p) THEN Return(NULLPTR) /\ UNCHANGED i
                          ELSE i' = Len(s) - Len(p) /\ Continue
    /\ UNCHANGED << callVars, j, wildVars, numVars, maskVars >>

EndsWithW ==
    LET base == Len(s) - Len(p) IN
    /\ fn = "EndsWithW" /\ pc = "loop"
    /\ \/ i = Len(s) /\ Return(base) /\ UNCHANGED i
       \/ i < Len(s) /\ Up(At(s, i)) # Up(At(p, i - base)) /\ Return(NULLPTR) /\ UNCHANGED i
       \/ i < Len(s) /\ Up(At(s, i)) = Up(At(p, i - base)) /\ i' = i + 1 /\ Continue
    /\ UNCHANGED << callVars, j, wildVars, numVars, maskVars >>

StartsWithW ==
    /\ fn = "StartsWithW" /\ pc \in {"start", "loop"}
    /\ \/ Len(s) < Len(p) /\ Return(NULLPTR) /\ UNCHANGED i
       \/ Len(s) >= Len(p) /\ i = Len(p) /\ Return(0) /\ UNCHANGED i
       \/ Len(s) >= Len(p) /\ i < Len(p) /\ Up(At(s, i)) # Up(At(p, i)) /\ Return(NULLPTR) /\ UNCHANGED i
       \/ Len(s) >= Len(p) /\ i < Len(p) /\ Up(At(s, i)) = Up(At(p, i)) /\ i' = i + 1 /\ Continue
    /\ UNCHANGED << callVars, j, wildVars, numVars, maskVars >>

\* stricmp: over the shorter length, then the difference of the lengths.
stricmp ==
    LET len == Min({Len(s), Len(p)}) IN
    /\ fn = "stricmp" /\ pc \in {"start", "loop"}
    /\ \/ i < len /\ Up(At(s, i)) # Up(At(p, i)) /\ Return(1) /\ UNCHANGED i
       \/ i < len /\ Up(At(s, i)) = Up(At(p, i)) /\ i' = i + 1 /\ Continue
       \/ i = len /\ Return(Len(s) - Len(p)) /\ UNCHANGED i
    /\ UNCHANGED << callVars, j, wildVars, numVars, maskVars >>

-----------------------------------------------------------------------------
(* stoul, base 10. *)

stoulSign ==
    LET sign == At(s, i) \in {"-", "+"} IN
    /\ fn = "stoul" /\ pc = "start"
    /\ \/ At(s, i) = " " /\ i' = i + 1 /\ UNCHANGED << neg, pc, result >>
       \/ /\ At(s, i) # " " /\ neg' = (At(s, i) = "-")
          /\ i' = IF sign THEN i + 1 ELSE i
          /\ Continue
    /\ UNCHANGED << callVars, j, wildVars, acc, any, maskVars >>

TooLarge(c) == acc > Limit \div 10 \/ (acc = Limit \div 10 /\ c > Limit % 10)

\* Fault: an overflow is forgotten at the next digit.
DigitAfterOverflow(c) ==
    IF TooLarge(c) THEN any' = -1 /\ UNCHANGED acc
                   ELSE any' = 1 /\ acc' = acc * 10 + c

TakeDigit(c) ==
    IF any < 0 \/ TooLarge(c) THEN any' = -1 /\ UNCHANGED acc
                              ELSE any' = 1 /\ acc' = acc * 10 + c

\* The value, and in j where the number ends.
stoul ==
    /\ fn = "stoul" /\ pc = "loop"
    /\ \/ /\ IsDigit(At(s, i)) /\ TakeDigit(Digit(At(s, i)))
          /\ i' = i + 1 /\ UNCHANGED << j, pc, result >>
       \/ /\ ~IsDigit(At(s, i)) /\ j' = (IF any = 0 THEN 0 ELSE i) /\ UNCHANGED << i, acc, any >>
          /\ Return(IF any < 0 THEN Limit ELSE IF neg THEN (Limit + 1 - acc) % (Limit + 1) ELSE acc)
    /\ UNCHANGED << callVars, neg, wildVars, maskVars >>

-----------------------------------------------------------------------------
(* ProcessFilter_AddMask, and ProcessFilter_RemoveMask for the same entry. *)

\* One turn, given the character it takes for a separator or not.
AddMaskTurn(c) ==
    /\ fn = "AddMask" /\ pc \in {"start", "loop"} /\ i < Len(s)
    /\ masks' = IF c = "|" THEN Append(masks, Fold(buf)) ELSE masks
    /\ buf' = IF c = "|" THEN << >> ELSE Append(buf, s[i + 1])
    /\ i' = i + 1 /\ Continue
    /\ UNCHANGED << callVars, j, wildVars, numVars, freedLink >>

\* The separator is looked for in the zeroed copy that is being filled.
ProcessFilter_AddMask == AddMaskTurn(At(buf \o [k \in 1..(Len(s) - Len(buf)) |-> NUL], i))

AddMaskEnd ==
    /\ fn = "AddMask" /\ pc \in {"start", "loop"} /\ i = Len(s)
    /\ pc' = "release"
    /\ UNCHANGED << callVars, i, j, wildVars, numVars, maskVars, result >>

\* Each entry is freed before its link is followed.
ProcessFilter_RemoveMask ==
    /\ pc = "release" /\ freedLink' = (masks # << >>) /\ pc' = "done"
    /\ UNCHANGED << callVars, i, j, wildVars, numVars, buf, masks, result >>

-----------------------------------------------------------------------------

Next == \/ WildcardMatch \/ TrailingStars \/ ReverseFindW \/ ForwardFindW \/ EndsWithStart \/ EndsWithW
        \/ StartsWithW \/ stricmp \/ stoulSign \/ stoul
        \/ ProcessFilter_AddMask \/ AddMaskEnd \/ ProcessFilter_RemoveMask

Spec == Init /\ [][Next]_vars

-----------------------------------------------------------------------------

Suffix(str, k) == SubSeq(str, k + 1, Len(str))

\* What a mask means: every character of the text has a place in the mask,
\* places go forward, only a '*' takes several or none.
Matches(str, mask) == \E f \in [DOMAIN str -> DOMAIN mask] :
    /\ \A k \in DOMAIN str : mask[f[k]] \in {"*", "?"} \/ Up(mask[f[k]]) = Up(str[k])
    /\ \A k, l \in DOMAIN str : k < l => f[k] < f[l] \/ (f[k] = f[l] /\ mask[f[k]] = "*")
    /\ \A m \in DOMAIN mask : mask[m] # "*" => \E k \in DOMAIN str : f[k] = m

\* A match is found exactly when the text and the mask have one, however many
\* stars the mask has (WildcardMatch_straight keeps only the last).
ResultIsMatch == fn = "WildcardMatch" /\ pc = "done" => (result = 1) = Matches(s, p)

\* Giving up the earlier stars loses nothing: there is a match exactly when
\* there is one from here, or from a later place for the last star.
BacktrackKeepsMatch == fn = "WildcardMatch" /\ pc \in {"start", "loop"} =>
    Matches(s, p) = \/ Matches(Suffix(s, i), Suffix(p, j))
                    \/ cp # NULLPTR /\ \E k \in cp..Len(s) : Matches(Suffix(s, k), Suffix(p, mp))

\* Neither pointer passes the terminator, though cp is advanced before it is
\* known whether there is anything left to try.
InBounds == Wild => i <= Len(s) /\ j <= Len(p) /\ cp <= i + 1

\* Every step of a match leads on: it passes a further star, tries the last one
\* further on, or reads on.  With InBounds this bounds the steps, however often the
\* match starts over after a star.
StepAdvances == fn = "WildcardMatch" =>
    \/ pc' = "done"
    \/ pc # "stars" /\ pc' = "stars"
    \/ mp' > mp
    \/ mp' = mp /\ cp' > cp
    \/ mp' = mp /\ cp' = cp /\ i' > i
    \/ mp' = mp /\ cp' = cp /\ i' = i /\ j' > j
Advances == [][StepAdvances]_vars

\* The searches agree with what they are named for; ReverseFindW alone leaves
\* the string when the character is not in it.
SearchesAgree == pc = "done" =>
    LET places == {k \in 0..(Len(s) - 1) : Len(p) > 0 /\ s[k + 1] = p[1]} IN
    /\ fn = "ReverseFindW" => result = IF places = {} THEN Nowhere ELSE Max(places)
    /\ fn = "ForwardFindW" => result = IF places = {} THEN NULLPTR ELSE Min(places)
    /\ fn = "EndsWithW" => result = IF IsSuffix(Fold(p), Fold(s)) THEN Len(s) - Len(p) ELSE NULLPTR
    /\ fn = "StartsWithW" => result = IF IsPrefix(Fold(p), Fold(s)) THEN 0 ELSE NULLPTR
    /\ fn = "stricmp" => (result = 0) = (Fold(s) = Fold(p))

\* The number after the spaces and the sign, ULONG_MAX when it has no room
\* whatever digits follow, its complement after a minus; and where it ends.
NumberIsRead == fn = "stoul" /\ pc = "done" =>
    LET spaces == CHOOSE k \in 0..Len(s) : At(s, k) # " " /\ \A l \in 0..(k - 1) : At(s, l) = " "
        first == IF At(s, spaces) \in {"-", "+"} THEN spaces + 1 ELSE spaces
        last == CHOOSE k \in first..Len(s) : ~IsDigit(At(s, k)) /\ \A l \in first..(k - 1) : IsDigit(At(s, l))
        value == FoldLeft(LAMBDA v, c : 10 * v + Digit(c), 0, SubSeq(s, first + 1, last))
    IN  /\ result = IF value > Limit THEN Limit
                    ELSE IF At(s, spaces) = "-" /\ value > 0 THEN Limit + 1 - value ELSE value
        /\ j = IF last > first THEN last ELSE 0

\* No entry of a mask list is read after it has been freed
\* (ProcessFilter_RemoveMask): the list is never filled.
NoFreedLink == ~freedLink
=============================================================================
