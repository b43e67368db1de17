------------------------------ MODULE Password ------------------------------
(***************************************************************************)
(* GeneratePasswordAction (clipboard.cpp): characters are drawn from       *)
(* classes under limits, first from the minimums of all classes, then from *)
(* what their maximums leave, and the result is shuffled.  A character is  *)
(* known by its class only: a draw takes any class whose limit is not 0,   *)
(* because the number drawn is below the sum of their sizes.               *)
(***************************************************************************)
EXTENDS Integers, FiniteSetsExt, Functions

CONSTANTS Classes,   \* lower, upper, numeric and special
          Bounds,    \* values given for min_ and max_ of a class
          Lengths,
          Absent     \* a parameter that is not given

VARIABLES given,     \* [class -> [min, max]], as in the request
          length,
          min, max,  \* the limits as they are used up
          pool,      \* result: characters drawn, by class
          password,  \* characters placed, by class
          stage      \* limits, drawing, shuffling, done, failed or killed

vars == <<given, length, min, max, pool, password, stage>>

Limits == [min : Bounds \cup {Absent}, max : Bounds \cup {Absent}]
Zero == [c \in Classes |-> 0]

Total(f) == FoldFunction(LAMBDA x, y : x + y, 0, f)

Init == /\ length \in Lengths
        /\ given \in [Classes -> Limits]
        /\ min = Zero /\ max = Zero /\ pool = Zero /\ password = Zero
        /\ stage = "limits"

Default(value, default) == IF value = Absent THEN default ELSE value

\* getordefault: an absent minimum is 1, and no minimum exceeds its maximum.
Upper(c) == Default(given[c].max, length)
Lower(c) == Min({Default(given[c].min, 1), Upper(c)})

\* What was drawn as minimum counts for the maximum.  A negative length is
\* more than vector::reserve takes: it throws.
GetLimits ==
    /\ stage = "limits"
    /\ min' = [c \in Classes |-> Lower(c)]
    /\ max' = [c \in Classes |-> Upper(c) - Lower(c)]
    /\ stage' = IF length < 0 THEN "failed" ELSE "drawing"
    /\ UNCHANGED <<given, length, pool, password>>

Minlens == Total([c \in Classes |-> Lower(c)])
FromMin == Total(pool) < Minlens

\* Variant of Drawable: the end of the minimums is missed by one.
DrawableLate ==
    {c \in Classes : (IF Total(pool) <= Minlens THEN min ELSE max)[c] # 0}

\* A limit that is negative never runs out.
Drawable == {c \in Classes : (IF FromMin THEN min ELSE max)[c] # 0}

\* One turn of the first loop: iterate(getmin) or iterate(getmax).
Iterate(c) ==
    /\ stage = "drawing" /\ Total(pool) < length
    /\ c \in Drawable
    /\ pool' = [pool EXCEPT ![c] = @ + 1]
    /\ IF FromMin
       THEN min' = [min EXCEPT ![c] = @ - 1] /\ UNCHANGED max
       ELSE max' = [max EXCEPT ![c] = @ - 1] /\ UNCHANGED min
    /\ UNCHANGED <<given, length, password, stage>>

\* rand % 0
IterateNothing ==
    /\ stage = "drawing" /\ Total(pool) < length
    /\ Drawable = {}
    /\ stage' = "killed"
    /\ UNCHANGED <<given, length, min, max, pool, password>>

Drawn == /\ stage = "drawing" /\ Total(pool) >= length
         /\ stage' = "shuffling"
         /\ UNCHANGED <<given, length, min, max, pool, password>>

\* One turn of the second loop: any character that is left is the next one.
Shuffle(c) ==
    /\ stage = "shuffling" /\ Total(password) < length
    /\ pool[c] > 0
    /\ pool' = [pool EXCEPT ![c] = @ - 1]
    /\ password' = [password EXCEPT ![c] = @ + 1]
    /\ UNCHANGED <<given, length, min, max, stage>>

\* The password goes to xsel.
Finish == /\ stage = "shuffling" /\ Total(password) >= length
          /\ stage' = "done"
          /\ UNCHANGED <<given, length, min, max, pool, password>>

Next == \/ GetLimits \/ IterateNothing \/ Drawn \/ Finish
        \/ \E c \in Classes : Iterate(c) \/ Shuffle(c)

-----------------------------------------------------------------------------
NoNegative == \A c \in Classes : Upper(c) >= 0 /\ Lower(c) >= 0

\* A password has the length asked for and, when no limit is negative, at
\* most the maximum of each class, and at least the minimum unless the
\* minimums together exceed the length; the daemon is killed only by maximums
\* that leave no password of the length; and there is a character left for
\* every place (clipboard.cpp:57, 101, 107-118, 123).
LimitsKept ==
    /\ stage = "done" =>
          /\ Total(password) = length
          /\ NoNegative => \A c \in Classes :
                /\ password[c] <= Upper(c)
                /\ Minlens <= length => password[c] >= Lower(c)
    /\ stage = "killed" /\ NoNegative =>
          Total([c \in Classes |-> Upper(c)]) < length
    /\ stage = "shuffling" => Total(pool) + Total(password) = length
=============================================================================
